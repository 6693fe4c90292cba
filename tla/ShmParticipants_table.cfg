SPECIFICATION TableSpec
CONSTANTS
  p1 = p1
  p2 = p2
  p3 = p3
  None = None
  Processes = {p1, p2, p3}
  Releasers = {p1, p2, p3}
  N = 2
  MaxGen = 2
INVARIANTS OwnersKeepEntries HoldersReclaimed
SYMMETRY Symmetry
CHECK_DEADLOCK FALSE
