SPECIFICATION FairSpec
CONSTANTS
  ChunkSize = 2
  BufferSize = 4
  WriteSizes = {1, 3}
  Calls = {"write", "stop"}
  Faults = {"break"}
  MaxBytes = 7
  MaxConns = 1
  MaxThreads = 1
  MaxSpurious = 0
CHECK_DEADLOCK FALSE
PROPERTIES
  CallsReturn
