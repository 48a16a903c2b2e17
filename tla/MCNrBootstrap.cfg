\* A bootstrap node, scaled, deployed and deleted, and who asks for its seeds.
CONSTANTS
  s = s
  b = b
  NoKey = NoKey
  None = None
  Keys = {k1, k2}
  Nodes <- MCAlone
  Storage = {}
  BootstrapOf <- MCNoBootstrap
  Clustered = {}
  Replicas <- MCReplicas
  UsizeMod = 4
  StaleLists = FALSE
  MaxFaults = 1
  MaxCrashes = 1
SPECIFICATION WebSpec
INVARIANTS NrTypeOK ConfigsCarryIdentities PodsCoverIdentities SeedsOfOneGeneration NoSpuriousRefusal
PROPERTIES IdentitiesStable
