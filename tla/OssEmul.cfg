SPECIFICATION Spec
CONSTANTS
  FD_MAX = 2
  MaxFd = 4
  BufferSize = 1
  WriteSizes = {2}
  Refuse = TRUE
  MaxBreaks = 1
  MaxFiles = 2
CHECK_DEADLOCK FALSE
INVARIANTS
  FilesAreFiles
  ReroutedToServer
  GivenBack
  HonoursNonblock
