SPECIFICATION FairSpec
CONSTANTS
  Clients = {a, b}
  Faults = {"crash", "backend"}
  Requests = {"INFO"}
  MaxUnits = 2
  MaxThreads = 2
  MaxFd = 3
INVARIANTS
  PlaysWhatWasSent
  KeepsItsSockets
  OneAtATime
PROPERTIES
  EverythingReleased
  ExecStreamPlaysOut
