SPECIFICATION Spec
CONSTANTS
  W8 = 1
  W16 = 2
  W32 = 3
  W64 = 6
  WSIZE = 3
  NIBBLE = 2
  HEX_DIGITS = 3
  CAPACITY = 3
  CODES <- MCCodes
  BYTES = {0, 1}
  B16 = 1
  B32 = 2
  B64 = 3
  PAYLOAD = 1
  SEQUENCES = {1}
  NODES = {1, 2, 3}
  ELECTING = {1, 2}
  DEGRADED = {2}
  TIMES = {0, 1}
  MAX_REPLICAS = 3
  FIELDS = {"x", "y"}
  CUSTOM = {"y"}
  MAX_FIELDS = 2
  VERSIONS = {0, 1}
  PAYLOADS <- MCPayloads
  SIZE <- MCSize
INVARIANTS
  TypeOK
  NumbersAreExact
  LayoutIsKept
  AcceptedIsAsSent
  SameCandidatesSameWinner
  StandbyHoldsOneMoment
CHECK_DEADLOCK FALSE
