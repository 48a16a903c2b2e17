\* A bootstrap node and a storage cluster that joins it; a request may fail,
\* and the operator may die once.
CONSTANTS
  s = s
  b = b
  NoKey = NoKey
  None = None
  Keys = {k1, k2}
  Nodes <- MCNodes
  Storage <- MCStorage
  BootstrapOf <- MCBootstrapOf
  Clustered <- MCStorage
  Replicas = {1}
  UsizeMod = 3
  StaleLists = FALSE
  MaxFaults = 1
  MaxCrashes = 1
SPECIFICATION NrSpec
INVARIANTS WorkloadMountsExist ConfigsCarryIdentities AddressesOfIdentities
PROPERTIES IdentitiesStable ListableKept FollowsLifecycle
SYMMETRY MCSymmetry
