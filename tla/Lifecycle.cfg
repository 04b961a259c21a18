SPECIFICATION LifeSpec
CONSTANTS
  HookSeq <- MCHookSeq
  SendmsgHooks <- MCSendmsgHooks
  Cgs = {"c1"}
  MaxInstances = 3
  MaxInstalls = 2
  MaxKills = 1
INVARIANTS
  CompleteInstall
  NoStaleHooks
  ExitLeavesNothing
PROPERTIES
  InstallRecovers
  ForcedStartServes
CHECK_DEADLOCK FALSE
