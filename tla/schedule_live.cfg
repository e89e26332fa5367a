SPECIFICATION QueuedFairSpec
CONSTANTS
  Paths = {p1, p2}
  Workers = {w1, w2}
  None = None
  MaxVer = 5
  MaxFaults = 0
  MaxCrashes = 0
  Requests = {"write", "flush"}
INVARIANT AdmissionExact
PROPERTY EventuallyUploaded
CHECK_DEADLOCK FALSE
