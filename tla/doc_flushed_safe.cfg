SPECIFICATION WideSpec
CONSTANTS
  MaxClock = 9
  WideClock = 9
  LongClock = 9
  ControlClock = 5
  MaxFid = 2
  MaxSize = 2
  MaxFaults = 0
  MaxCrashes = 0
  Requests = {"write", "flush"}
INVARIANT FlushedContentAlwaysSafe
CHECK_DEADLOCK FALSE
