SPECIFICATION FairSupervisor
CONSTANTS
  N = 3
  Manifests <- MCManifests
  MaxDelay = 3
  RestartBound = 3
INVARIANTS NoOrphans PolicyKept
PROPERTY TimesKept
