SPECIFICATION MemSpec
CONSTANTS
  NumFrames = 22
  Reserved = {0}
  HeadLen = 2
  FootLen = 1
  PageLen = 6
  InitialPages = 6
  GrowPages = 1
  Sizes = {30}
  MaxTasks = 2
  ImagePages = 1
  StackPages = 1
  SlotPages = 2
  MaxRegions = 2
  MapLens = {0, 4, 7}
  HandleLen = 1
  FileLen = 3
  TaskLen = 2
  FdLen = 1
  MaxOther = 1
INVARIANTS
  HeapTiled
  PayloadsKept
  FramesOwned
  RegionsMapped
  BlocksOwned
PROPERTIES
  GrowthServes
