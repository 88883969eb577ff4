SPECIFICATION ConsoleSpec
CONSTANTS
  NumTasks = 2
  Pipes = {}
  Console = console
  MaxFds = 2
  PipeSize = 2
  KbdSize = 2
  IoLens = {1}
  ConsoleUsed = TRUE
  Keys = {"lshift", "rshift", "capslock", "lctrl", "c", "d"}
  MaxHeld = 2
  Letters = {"c", "d"}
  Plain = {}
INVARIANTS
  SleepersJustified
  
  
CHECK_DEADLOCK FALSE
