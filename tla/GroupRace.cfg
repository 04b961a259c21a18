SPECIFICATION Spec
SYMMETRY Symmetry
CONSTANTS
  t1 = t1
  t2 = t2
  s1 = s1
  s2 = s2
  s3 = s3
  Tasks = {t1, t2}
  Sockets = {s1, s3}
  Netns <- MCNetns
  WorkGens = {1}
  SockGens = {1}
  AppArgs = {1}
  AssureArgs = {2}
  DisArgs = {"cbpf", "loud", "bespoke", "wrong"}
  Options <- MCOptions
  Gens = {1}
  MAX_APPS = 2
  MAX_INSTR = 64
  RingCap = 1
  MapMayFill = FALSE
  MaxDeletes = 0
  CreationOverlaps = TRUE
INVARIANT ConfirmedDissectorHolds
