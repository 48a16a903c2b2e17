\* A bootstrap node and a storage cluster; a read may fail.
CONSTANTS
  s = s
  b = b
  NoKey = NoKey
  None = None
  Keys = {k1, k2}
  Nodes <- MCNodes
  Storage <- MCStorage
  BootstrapOf <- MCBootstrapOf
  Clustered <- MCStorage
  Replicas = {1}
  UsizeMod = 3
  StaleLists = FALSE
  MaxFaults = 1
  MaxCrashes = 0
SPECIFICATION NrSpec
PROPERTIES SecretsStable
