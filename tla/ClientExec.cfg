SPECIFICATION FairSpec
CONSTANTS
  ChunkSize = 2
  BufferSize = 4
  WriteSizes = {2, 3}
  Calls = {"write", "exec", "stop"}
  Faults = {"break", "create"}
  MaxBytes = 5
  MaxConns = 2
  MaxThreads = 3
  MaxSpurious = 0
CHECK_DEADLOCK FALSE
INVARIANTS
  CondMutexInv
  OnePlayer
