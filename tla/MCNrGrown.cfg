\* A storage cluster that grows, and its bootstrap node; nothing fails.
CONSTANTS
  s = s
  b = b
  NoKey = NoKey
  None = None
  Keys = {k1, k2}
  Nodes <- MCNodes
  Storage <- MCStorage
  BootstrapOf <- MCBootstrapOf
  Clustered <- MCStorage
  Replicas = {1, 2}
  UsizeMod = 3
  StaleLists = FALSE
  MaxFaults = 0
  MaxCrashes = 0
SPECIFICATION NrSpec
INVARIANTS PodsConfigured
