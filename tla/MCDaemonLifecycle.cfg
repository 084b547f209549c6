SPECIFICATION LifecycleFairSpec
CONSTANTS
  d1 = d1  d2 = d2
  Daemon <- TwoDaemons
  Operator = Operator
  NoProcess = NoProcess
  MayReusePid = TRUE
INVARIANTS OwnerHoldsLock ExitLeavesNothing
PROPERTY StopCompletes
CHECK_DEADLOCK FALSE
