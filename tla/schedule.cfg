SPECIFICATION PartSpec
CONSTANTS
  Paths = {p1, p2}
  Workers = {w1, w2}
  None = None
  MaxVer = 3
  MaxFaults = 1
  MaxCrashes = 1
  Requests = {"write", "flush", "remove", "close"}
SYMMETRY Symm
INVARIANTS OneWorkerPerPath NothingStranded
PROPERTY ClosedStaysQuiet
CHECK_DEADLOCK FALSE
