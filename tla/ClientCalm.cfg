SPECIFICATION FairSpec
CONSTANTS
  ChunkSize = 2
  BufferSize = 5
  WriteSizes = {1, 3}
  Calls = {"write", "exec", "stop"}
  Faults = {}
  MaxBytes = 6
  MaxConns = 2
  MaxThreads = 3
  MaxSpurious = 1
INVARIANTS
  ExecFlushesEverything
PROPERTIES
  CallsReturn
