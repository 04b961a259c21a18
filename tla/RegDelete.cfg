SPECIFICATION FullSpec
CONSTANTS
  Sockets = {s1, s2}
  NoCookie = NoCookie
  Procs = {p1, p2}
  Callers = {"leader"}
  Hidden = {}
  Gens = {0}
  WorkingGens = {1}
  DissectorApps = {1}
  MAX_GENS = 1
  MAX_SOCKETS_IN_GEN = 2
  MAX_APPS = 1
  RingCap = 1
  CounterMod = 2
SYMMETRY FullSymmetry
INVARIANTS
  PublishedIsSelectable
  RegisteredIsAttached
  LiveCovered
PROPERTIES
  SlotsAreStable
CHECK_DEADLOCK FALSE
