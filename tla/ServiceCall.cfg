SPECIFICATION FairSpec
CONSTANTS
  k1 = k1
  k2 = k2
  None = None
  Calls = {k1, k2}
  Instances = 2
  Depth = 1
  Worlds <- MCWorlds
INVARIANTS OneOwnResult ClosedServerQuiet
PROPERTIES OnlyCurrentWithdraws EveryCallCompletes
CHECK_DEADLOCK FALSE
