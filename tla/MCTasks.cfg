SPECIFICATION SigFairSpec
CONSTANTS
  MaxTasks = 3
  Trees = {t1, t2}
  BootTree = t1
  NoTree = NoTree
  IrqEvents = {"key"}
  CallEvents = {}
  ExitArgs <- MCTaskArgs
  Sigs = {2, 9}
  Catchable = {}
INVARIANTS TypeOK OnCpu OneRunning TreesOwned ChildWaitNotLost
PROPERTIES StatusDelivered NewGroupIsFresh KillTakesEffect ReadyRuns OrphansReclaimed
