SPECIFICATION ShellSpec
CONSTANTS
  NumTasks = 4
  Pipes = {p1, p2}
  Console = console
  MaxFds = 5
  PipeSize = 2
  KbdSize = 2
  IoLens = {1}
  ConsoleUsed = FALSE
  Lines = {1, 2, 3}
  TypeAhead = FALSE
  LineMax = 3
  MaxBytes = 2
INVARIANTS StageJoins
