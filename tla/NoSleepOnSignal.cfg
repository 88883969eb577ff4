SPECIFICATION SigSpec
CONSTANTS
  MaxTasks = 2
  Trees = {t1, t2}
  BootTree = t1
  NoTree = NoTree
  IrqEvents = {}
  CallEvents = {"pipeWrite"}
  ExitArgs <- MCExitArgs
  Sigs = {2, 9, 13}
  Catchable = {2}
INVARIANT NoSleepOnSignal
