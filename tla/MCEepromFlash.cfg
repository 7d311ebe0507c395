SPECIFICATION FairSpec
CONSTANTS
  Bytes = {0, 1}
  Words = 2
  ChunkWords = 1
  MaxPolls = 1
  IsSii <- FirstByteSet
INVARIANTS
  VerifiedIsExact
  NeighboursKept
PROPERTIES
  ResetsExactOnly
  FlashEnds
CHECK_DEADLOCK FALSE
