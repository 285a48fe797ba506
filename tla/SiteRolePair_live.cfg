SPECIFICATION LiveSpec
CONSTANTS
  ANSWER_WINDOW = 1
  STANDBY_DATA_TIMEOUT_CYCLES = 0
  STANDBY_SYNC_RETRY_CYCLES = 1
  TAKEOVER_CONFIRM_VALID_CYCLES = 1
  BOTH_STANDBY_CYCLES = 3
  SIBLING_FOLLOW_CYCLES = 2
  SEND_MISS_THRESHOLD = 2
  STANDBY_SYNC = TRUE
  MAX_CYCLE = 5
  DisturbedCycles = 1
  AgeCap = 0
  MaxBoots = 3
  Stamps <- EastEither
  Limit <- CrashFaultConfirm
  MaxDisturbances = 2
  ReadyInputs = {TRUE}
PROPERTIES SettlesOnOneOnline
CHECK_DEADLOCK FALSE
