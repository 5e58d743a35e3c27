SPECIFICATION FairSpec
CONSTANTS
  MaxId = 2
  MaxChunks = 2
  MaxPrinted = 2
  QueueSize = 1
  Descriptors = {1, 2}
INVARIANTS
  ReadersAreOwn
  StoppedIsGone
PROPERTIES
  ImplementsService
  UiReturns
CHECK_DEADLOCK FALSE
