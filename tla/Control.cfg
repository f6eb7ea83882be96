CONSTANTS
  Chunk = 1
  FifoSize = 1
  OneSecond = 0
  Latency = 0
  Names = {"", "NULL"}
  Faults = {"split", "cut", "late"}
  MaxChunks = 2
  MaxQueries = 1
SPECIFICATION Spec
INVARIANTS
  ActsOnRequests
  FollowsTheServer
  CloseCtlHonest
