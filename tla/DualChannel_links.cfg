CONSTANTS
  LinkCount = 2
  SEQ_MOD = 16
  RESYNC = FALSE
  MaxCalls <- TwoOne
  MaxDisturbances = 2
  Disturbances <- AnyButRestart
SPECIFICATION Spec
INVARIANT TypeOK
INVARIANT StatusTellsDelivery
PROPERTY ImplementsOrderedLinks
CHECK_DEADLOCK FALSE
