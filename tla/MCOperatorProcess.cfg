\* Two IpfsNodes, two connections; the process is asked to stop, more than once.
CONSTANTS
  Nodes = {n1, n2}
  Clients = {c1, c2}
  MaxRuns = 2
  MaxSignals = 3
SPECIFICATION OpFairSpec
INVARIANTS OpTypeOK MeasuredOnce GracefulExit
PROPERTIES IndexAnswered ShutdownEnds
\* The process ends.
CHECK_DEADLOCK FALSE
