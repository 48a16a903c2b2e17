\* One bootstrap node, without a pod or with one; lists that lag, of load
\* balancers and of the objects after a restart or a break of the watch; one
\* request may fail.
CONSTANTS
  s = s
  b = b
  NoKey = NoKey
  None = None
  Keys = {k1}
  Nodes <- MCAlone
  Storage = {}
  BootstrapOf <- MCNoBootstrap
  Clustered = {}
  Replicas = {0, 1}
  UsizeMod = 2
  StaleLists = TRUE
  MaxFaults = 1
  MaxCrashes = 1
  MaxEdits = 3
SPECIFICATION FairSpec
INVARIANTS TypeOK
PROPERTIES DeletionCompletes
\* The system stops when every object is gone and the users are done.
CHECK_DEADLOCK FALSE
