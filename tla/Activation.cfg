SPECIFICATION ActivationSpec
CONSTANTS
  s1 = s1
  s2 = s2
  s3 = s3
  Sockets = {s1, s2, s3}
  NoCookie = NoCookie
  Helper = helper
  Service = service
  Systemd = systemd
  Procs = {helper, service, systemd}
  Callers = {"leader"}
  Hidden = {}
  Gens = {0, 1, 2}
  WorkingGens = {1}
  DissectorApps = {0, 2}
  Mine <- MCMine
  MaxTries = 2
  Options <- MCOptions
  MAX_GENS = 2
  MAX_SOCKETS_IN_GEN = 2
  MAX_APPS = 2
  RingCap = 2
  CounterMod = 2
INVARIANTS
  CookieDesignatesSocket
  SuccessMeansRegistered
  HelperRegistersOnce
  DissectorAsAsked
PROPERTIES
  HelperEnds
CHECK_DEADLOCK FALSE
