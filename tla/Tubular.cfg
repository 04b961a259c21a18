SPECIFICATION LiveSpec
CONSTANTS
  s1 = s1
  s2 = s2
  s3 = s3
  s4 = s4
  ga = ga
  gb = gb
  Sockets = {s1, s2, s3, s4}
  NoCookie = NoCookie
  Groups = {ga, gb}
  GroupOf <- TwoGroups
  AppOf <- TwoApps
  GenOf <- TwoGens
  WorkingGens = {0, 1}
  max_apps = 2
  TubularPaths = {TRUE, FALSE}
  MAX_GENS = 2
  MAX_SOCKETS_IN_GEN = 2
  MAX_APPS = 2
INVARIANTS
  NoLeak
  HandedOwnSockets
  PreservedWhereRegistered
PROPERTY EventuallyReleased
CHECK_DEADLOCK FALSE
