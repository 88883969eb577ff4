SPECIFICATION ReadSpec
CONSTANTS
  TotalClusters = 5
  NumFats = 2
  ClusterBytes = 2
  SlotsPerCluster = 2
  RootCluster = 2
  Label = "x"
  Names = {"x", "y"}
  Tags = {"p"}
  Lens = {0, 1, 3}
  Ops = {"write", "delete"}
  CrashOps = {"none", "write", "delete"}
  MaxCrashes = 1
  MaxFaults = 0
  FaultKinds = {}
INVARIANTS
  EntryKeepsClusters
