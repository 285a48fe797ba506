CONSTANTS
  Configs <- EndlessAndPlain
  MaxCount = 3
  MaxNesting = 1
SPECIFICATION LiveSpec
INVARIANTS TypeOK LockedWhileRunning SignatureIsThisCycle
PROPERTIES NoCycleAfterThreshold ShutdownHonoured
CHECK_DEADLOCK FALSE
