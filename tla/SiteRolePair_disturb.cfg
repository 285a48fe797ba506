SPECIFICATION Spec
CONSTANTS
  ANSWER_WINDOW = 1
  STANDBY_DATA_TIMEOUT_CYCLES = 1
  STANDBY_SYNC_RETRY_CYCLES = 2
  TAKEOVER_CONFIRM_VALID_CYCLES = 1
  BOTH_STANDBY_CYCLES = 3
  SIBLING_FOLLOW_CYCLES = 2
  SEND_MISS_THRESHOLD = 1
  STANDBY_SYNC = TRUE
  MAX_CYCLE = 3
  DisturbedCycles = 3
  AgeCap = 2
  MaxBoots = 3
  Stamps <- EastEither
  Limit <- AnyKind
  MaxDisturbances = 1
  ReadyInputs = {TRUE}
INVARIANTS TypeOK NeverBothOnlineUnprovoked
PROPERTIES SilenceNeverPromotes YieldOnlyToLivePeer LinkedTakeoverIsFresh
CHECK_DEADLOCK FALSE
