\* One bootstrap node, one restart from a list that lags.
CONSTANTS
  s = s
  b = b
  NoKey = NoKey
  None = None
  Keys = {k1, k2}
  Nodes <- MCAlone
  Storage = {}
  BootstrapOf <- MCNoBootstrap
  Clustered = {}
  Replicas = {1}
  UsizeMod = 4
  StaleLists = TRUE
  MaxFaults = 0
  MaxCrashes = 1
  MaxEdits = 2
SPECIFICATION Spec
INVARIANTS NothingOrphaned
\* The system stops when every object is gone and the users are done.
CHECK_DEADLOCK FALSE
