SPECIFICATION Spec
CONSTANTS
  s1 = s1
  s2 = s2
  s3 = s3
  h1 = h1
  Sockets = {s1, s2, s3}
  NoSocket = NoSocket
  NewFlow = NewFlow
  BadCookie = BadCookie
  Foreign = {s1}
  AppOf <- TwoApps
  GenOf <- TwoGens
  max_apps = 2
  Dissectors = {"FLOW", "CBPF", "NOOP"}
  WorkingGens <- FixedWithFlow
  Packets <- AllPackets
  NoPacket = NoPacket
  RxTasks = {r1}
  TxTasks = {t1, t2}
  Overlap = TRUE
  MaxPackets <- SmallFlow
  MaxTime = 2
  MaxCalls = 2
  MAX_GENS = 2
  MAX_SOCKETS_IN_GEN = 2
  MAX_APPS = 2
  Hashes = {h1, h2}
  NoHash = NoHash
  Elems = {e1, e2}
  NoElem = NoElem
  flow_entry_timeout_sec = 0
  FLOW_DEFAULT_TIMEOUT_SEC = 1
  TimeMod = 16
  Evicts = FALSE
SYMMETRY Symmetry
INVARIANTS
  TxAccounted
  EntryFromSender
  AccountedOncePerStage
  CookieAffinity
  NewFlowMeetsSocket
  AppsAreIsolated
CHECK_DEADLOCK FALSE
