SPECIFICATION ReadSpec
CONSTANTS
  TotalClusters = 4
  NumFats = 2
  ClusterBytes = 2
  SlotsPerCluster = 3
  RootCluster = 2
  Label = "x"
  Names = {"x", "y"}
  Tags = {"p"}
  Lens = {1, 3}
  Ops = {"write"}
  CrashOps = {"none", "write"}
  MaxCrashes = 2
  MaxFaults = 1
  FaultKinds = {"before"}
INVARIANTS
  ChainsSound
  DirSound
PROPERTIES
  FailureChangesNothing
