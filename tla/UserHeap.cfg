SPECIFICATION HeapSpec
CONSTANTS
  HeadLen = 4
  FootLen = 2
  PageLen = 8
  SlotBase = 8
  SlotLen = 56
  MaxRegions = 3
  InitialPages = 2
  GrowPages = 1
  Align = 2
  Word = 256
  IntValues = 32
  Requests = {1, 9, 23, 200, 255}
  Products <- MCProducts
  OwnLens = {3, 10}
  MaxLive = 2
INVARIANTS
  SlabsAreTheHeap
  PointersServe
  FailsForCause
