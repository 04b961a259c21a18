SPECIFICATION RecommendedSpec
CONSTANTS
  HookSeq <- MCHookSeq
  SendmsgHooks <- MCSendmsgHooks
  Cgs = {"c1"}
  MaxInstances = 2
  MaxInstalls = 1
  MaxKills = 0
PROPERTY
  HooksRemainActive
CHECK_DEADLOCK FALSE
