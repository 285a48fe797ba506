CONSTANTS
  LinkCount = 1
  SEQ_MOD = 4
  RESYNC = TRUE
  MaxCalls <- OneOne
  MaxDisturbances = 1
  Disturbances <- RestartOrLoss
SPECIFICATION LiveSpec
PROPERTY ResyncRecovers
CHECK_DEADLOCK FALSE
