\* A storage cluster and a bootstrap node in one namespace, nothing fails.
CONSTANTS
  s = s
  b = b
  Nodes <- MCNodes
  Storage <- MCSole
  Replicas = {1, 2}
  UsizeMod = 4
  StaleLists = FALSE
  MaxFaults = 0
  MaxCrashes = 0
SPECIFICATION LbSpec
INVARIANTS Sufficient
