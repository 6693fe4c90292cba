SPECIFICATION FairSpec
CONSTANTS
  r1 = r1
  r2 = r2
  w1 = w1
  w2 = w2
  Readers = {r1, r2}
  Writers = {w1, w2}
  Topics <- MCTopics
  MaxChannels = 2
  MaxSeq = 2
  None = None
INVARIANTS WriterOrder SharedOneChannel GoneNotCounted
PROPERTY WritersFinish
CHECK_DEADLOCK FALSE
