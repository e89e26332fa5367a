SPECIFICATION PartSpec
CONSTANTS
  MaxClock = 8
  WideClock = 7
  LongClock = 8
  ControlClock = 5
  MaxFid = 2
  MaxSize = 2
  MaxFaults = 1
  MaxCrashes = 1
  Requests = {"write", "flush"}
INVARIANTS TypeOK FlushedContentSafe CandidateIntact HashesDescribePrefix
PROPERTIES CommitIsCurrent ClaimedBytesImmutable
CHECK_DEADLOCK FALSE
