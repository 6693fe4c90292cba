SPECIFICATION FairSpec
CONSTANTS
  w1 = w1
  w2 = w2
  r = r
  Writers = {w1, w2}
  Readers = {r}
  SlotCount = 3
  Words = {"head", "tail"}
  Values = {0, 1}
  Zero = 0
  Messages <- MCMessages
  Depth <- MCDepth
  PassLimit = 2
  MaxSeq = 5
  Unlocked = Unlocked
  OwnerDead = OwnerDead
INVARIANT ReceivedAsCommitted
PROPERTIES ImplementsTopicLog ReaderCatchesUp
