SPECIFICATION Spec
CONSTANTS
  WordBits = 20
  BPF_MEMWORDS = 2
  MAX_INSTR = 5
  BUF = 4
  SNI_CELLS = 1
  MAX_EXTENSIONS = 2
  NAME_LEN = 2
  NUL = NUL
  max_apps = 3
  Inputs <- TestInputs
  CookieFilter <- LdhRetA
  bespoke_sni <- Sni
  QuicPackets <- TestPackets
  MaxPackets = 2
INVARIANTS
  CookieRecovered
  OrdinaryInitialParsed
  DispatchedByOwnName
PROPERTY ImplementsMachine
CHECK_DEADLOCK FALSE
