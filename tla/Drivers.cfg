CONSTANTS
  BufferSize = 4
  ChunkSize = 2
  MaxAsk = 3
  MaxBytes = 12
  Chans = 2
  ChunkSamples = 4
  RingBytes = 15
  Cycle = 3
  MaxWrites = 3
  num_buffers = 3
  MaxChunks = 6
  Backends = {"coreaudio", "jack", "openal"}
SPECIFICATION Spec
INVARIANTS JHeardTogether HeardInOrder ALBuffersKept
PROPERTY WritesReturn
