\* A bootstrap node and a storage cluster that joins it, applied in any order
\* and scaled.  No property of this run compares keys, so there is one.
CONSTANTS
  s = s
  b = b
  NoKey = NoKey
  None = None
  Keys = {k1}
  Nodes <- MCNodes
  Storage <- MCStorage
  BootstrapOf <- MCBootstrapOf
  Clustered <- MCStorage
  Replicas = {1, 2}
  UsizeMod = 3
  StaleLists = FALSE
  MaxFaults = 0
  MaxCrashes = 0
  MaxEdits = 3
SPECIFICATION FairSpec
INVARIANTS NothingOrphaned NoLoadBalancerOrphaned OwnedIsProtected
PROPERTIES StorageJoins CallsEnd
\* The system stops when every object is gone and the users are done.
CHECK_DEADLOCK FALSE
