SPECIFICATION Spec
CONSTANTS
  s1 = s1
  s2 = s2
  s3 = s3
  h1 = h1
  Sockets = {s1, s2}
  NoSocket = NoSocket
  NewFlow = NewFlow
  BadCookie = BadCookie
  Foreign = {}
  AppOf <- OneApp
  GenOf <- TwoGens
  max_apps = 0
  WorkingGens <- Generation1
  Dissectors = {"FLOW"}
  Packets <- FlowPackets
  NoPacket = NoPacket
  RxTasks = {r1}
  TxTasks = {t1, t2}
  Overlap = TRUE
  MaxPackets <- NoPackets
  MaxTime = 2
  MaxCalls = 3
  MAX_GENS = 2
  MAX_SOCKETS_IN_GEN = 2
  MAX_APPS = 1
  Hashes = {h1}
  NoHash = NoHash
  Elems = {1}
  NoElem = 0
  flow_entry_timeout_sec = 1
  FLOW_DEFAULT_TIMEOUT_SEC = 2
  TimeMod = 16
  Evicts = FALSE
INVARIANT FlowIsNotMoved
CHECK_DEADLOCK FALSE
