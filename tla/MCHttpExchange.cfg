SPECIFICATION FairSpec
CONSTANTS
  HeaderLimit = 2
  HeaderChunk = 2
  BodyLimit = 2
  NetLimit = 6
  HeaderTime = 1
  Deadline = 2
  Poll = 1
  MaxTime = 2
INVARIANT VerdictFitsMessage
PROPERTY ReaderEnds
CHECK_DEADLOCK FALSE
