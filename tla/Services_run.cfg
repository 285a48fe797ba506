SPECIFICATION Spec
CONSTANTS
  LONG_WORDS = {"D"}
  LIMIT = 8
  PORT_LIMIT = 4
  MAX_REPLICAS = 3
  MAX_CHANNELS = 2
  IDS = {0, 1, 2}
  RESOLVED_ROLE = "LISTEN"
  MAX_LINKS = 3
  ADAPTERS = {"a", "b"}
  NONE = "none"
  SOCKET_OPS = {"t1", "t2"}
  HOSTS = {"p", "q"}
  PEER = "p"
  NOBODY = "none"
  DOCUMENTS <- MCDocuments
  LACKS <- MCLacks
  BUNDLES <- MCBundles
  SOCKET_LACKS <- MCSocketLacks
  Capable <- AllButNmr
INVARIANTS
  TypeOK
  LoadedIsSound
  SetupByIdReachesChannel
  NothingLeftOpen
  BundleIsWhole
  NoDanglingHandle
PROPERTIES
  FrozenWhileLocked
  AnswersGoToPeer
CHECK_DEADLOCK FALSE
