SPECIFICATION ConsoleSpec
CONSTANTS
  NumTasks = 3
  Pipes = {p1}
  Console = console
  MaxFds = 2
  PipeSize = 4
  KbdSize = 2
  IoLens = {2}
  ConsoleUsed = FALSE
  Keys = {}
  MaxHeld = 0
  Letters = {}
  Plain = {}
INVARIANTS
  CountsExact
  SleepersJustified
  StreamIntact
CHECK_DEADLOCK FALSE
