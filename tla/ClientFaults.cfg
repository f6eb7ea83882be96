SPECIFICATION FairSpec
CONSTANTS
  ChunkSize = 2
  BufferSize = 6
  WriteSizes = {1, 3}
  Calls = {"write", "stop"}
  Faults = {"break", "stall", "create"}
  MaxBytes = 8
  MaxConns = 2
  MaxThreads = 2
  MaxSpurious = 1
CHECK_DEADLOCK FALSE
INVARIANTS
  SentInOrder
  FifoAssertionsHold
  NeverBothAsleep
  ClosesOnlyOpenSockets
  AvailIsHonest
  HeaderFirst
PROPERTIES
  CallsReturnWhilePlayed
