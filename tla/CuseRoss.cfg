SPECIFICATION FairSpec
CONSTANTS
  ChunkSize = 2
  FragSize = 2
  BufSizes = {1, 2}
  WriteSizes = {1, 3}
  Faults = {"break", "refuse"}
  MaxBytes = 3
  MaxThreads = 2
CHECK_DEADLOCK FALSE
INVARIANTS
  NothingLost
  BufferAlive
  SpaceIsHonest
PROPERTIES
  PollerIsWoken
  WriteReturns
  StopReturns
