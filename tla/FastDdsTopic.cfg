SPECIFICATION FairSpec
CONSTANTS
  r1 = r1
  r2 = r2
  w1 = w1
  k1 = k1
  k2 = k2
  Readers = {r1, r2}
  Writers = {w1}
  Closers = {k1, k2}
  Worlds <- MCWorlds
  MaxInt32 = 4
  MaxWrites = 2
  MaxOpens = 2
  None = None
INVARIANTS EntitiesOutliveUse ReadsTold
PROPERTY ShutdownsEnd
CHECK_DEADLOCK FALSE
