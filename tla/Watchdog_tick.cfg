CONSTANTS
  MAX_COUNT = 2
  Timeouts <- OneLength
  Actions <- HaltOrCall
  MaxLag = 1
  PREEMPT = TRUE
SPECIFICATION LiveSpec
INVARIANT TypeOK
PROPERTIES TickMissesNone FiresOnlyWhenQuiet ArmedReacts
CHECK_DEADLOCK FALSE
