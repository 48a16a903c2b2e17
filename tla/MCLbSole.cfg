\* One storage cluster beside a bootstrap node; replicas up and down, and a
\* negative count, which wraps; lists that are current, or that lag.
CONSTANTS
  s = s
  b = b
  Nodes <- MCNodes
  Storage <- MCSole
  Replicas <- MCReplicas
  UsizeMod = 3
  StaleLists = TRUE
  MaxFaults = 1
  MaxCrashes = 1
SPECIFICATION LbSpec
INVARIANTS LbTypeOK ExactWhenSole DeleteComplete
PROPERTIES TowardSpec
