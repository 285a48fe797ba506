SPECIFICATION LiveSpec
CONSTANTS
  a = a
  b = b
  c = c
  p = p
  q = q
  Node = {a, b, c}
  Down = {c}
  Channels <- ThreeChannels
  Expected <- ThreeExpected
  Path = {p, q}
  MaxRounds = 2
  MaxInFlight = 2
  MaxCalls = 1
INVARIANTS
  PassedMeansPeersOnPath
  RetryingKeepsKicking
PROPERTIES
  CheckpointEnds
  HaltSpreads
