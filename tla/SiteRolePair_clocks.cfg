SPECIFICATION Spec
CONSTANTS
  ANSWER_WINDOW = 0
  STANDBY_DATA_TIMEOUT_CYCLES = 1
  STANDBY_SYNC_RETRY_CYCLES = 2
  TAKEOVER_CONFIRM_VALID_CYCLES = 1
  BOTH_STANDBY_CYCLES = 2
  SIBLING_FOLLOW_CYCLES = 2
  SEND_MISS_THRESHOLD = 1
  STANDBY_SYNC = TRUE
  MAX_CYCLE = 3
  DisturbedCycles = 3
  AgeCap = 0
  MaxBoots = 3
  Stamps <- AnyOfTwo
  Limit <- OneCrash
  MaxDisturbances = 1
  ReadyInputs = {TRUE, FALSE}
INVARIANTS TwoOnlineExcluded
CHECK_DEADLOCK FALSE
