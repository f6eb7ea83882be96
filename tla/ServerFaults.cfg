SPECIFICATION FairSpec
CONSTANTS
  Clients = {a, b}
  Faults = {"scan", "late", "mix"}
  Requests = {}
  MaxUnits = 0
  MaxThreads = 4
  MaxFd = 3
PROPERTIES
  EverythingReleased
