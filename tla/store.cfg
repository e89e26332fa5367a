SPECIFICATION PartSpec
CONSTANTS
  A1 = A1
  A2 = A2
  B1 = B1
  B2 = B2
  Paths = {A1, A2, B1, B2}
  Gens = {1, 2}
  Moved <- MCMoved
  MaxSize = 1
  MaxLines = 4
  CompactAt = 9
  MaxFaults = 1
  MaxCrashes = 1
  Requests = {"save", "remove", "finish", "subtree", "rename", "rebase"}
  FaultKinds = {"refused", "compact"}
INVARIANTS MovesCrashAtomic ByIDExact FilesKept SizesFollow
CHECK_DEADLOCK FALSE
