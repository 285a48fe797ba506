SPECIFICATION Spec
CONSTANTS
  c1 = c1
  c2 = c2
  c3 = c3
  Channel = {c1, c2, c3}
  Nothing = Nothing
  Value = {1, 2, 3}
  Compare <- Close
  Configs <- AllStrategies
  MaxChannels = 3
SYMMETRY AnyChannel
INVARIANTS
  TypeOK
  VoteIsExact
  HaltsOnlyOnDisagreement
CHECK_DEADLOCK FALSE
