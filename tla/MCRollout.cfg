\* The operator's Deployment is updated while a bootstrap node is deployed and deleted.
CONSTANTS
  b = b
  NoKey = NoKey
  None = None
  Keys = {k1, k2}
  Nodes <- MCAlone
  Storage = {}
  BootstrapOf <- MCNoBootstrap
  Clustered = {}
  Replicas = {1, 2}
  UsizeMod = 3
  StaleLists = FALSE
  MaxFaults = 0
  MaxCrashes = 0
SPECIFICATION RollSpec
INVARIANTS UpdateMends UpdateLeavesNothing
SYMMETRY MCSymmetry
