SPECIFICATION SigSpec
CONSTANTS
  MaxTasks = 2
  Trees = {t1, t2}
  BootTree = t1
  NoTree = NoTree
  IrqEvents = {}
  CallEvents = {"pipeWrite"}
  ExitArgs = {130, 139, 141}
  Sigs = {2, 13}
  Catchable = {2}
INVARIANTS SleepsOnItsCall
PROPERTIES FrameKept
