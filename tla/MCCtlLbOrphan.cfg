\* One bootstrap node, one failed request.
CONSTANTS
  s = s
  b = b
  NoKey = NoKey
  None = None
  Keys = {k1, k2}
  Nodes <- MCAlone
  Storage = {}
  BootstrapOf <- MCNoBootstrap
  Clustered = {}
  Replicas = {1}
  UsizeMod = 4
  StaleLists = FALSE
  MaxFaults = 1
  MaxCrashes = 0
  MaxEdits = 2
SPECIFICATION Spec
INVARIANTS NoLoadBalancerLeft
\* The system stops when every object is gone and the users are done.
CHECK_DEADLOCK FALSE
