SPECIFICATION LiveSpec
CONSTANTS
  Sockets = {s1, s2}
  NoCookie = NoCookie
  Procs = {p1}
  Callers = {"leader"}
  Hidden = {}
  Gens = {0, 1}
  WorkingGens = {}
  DissectorApps = {}
  MAX_GENS = 1
  MAX_SOCKETS_IN_GEN = 2
  MAX_APPS = 1
  RingCap = 2
  CounterMod = 2
INVARIANTS
  NoHole
PROPERTIES
  ImplementsGroup
  RequestServed
  RingDrains
CHECK_DEADLOCK FALSE
