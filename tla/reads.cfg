SPECIFICATION SumSpec
CONSTANTS
  Length <- MCLength
  Unsized = {3}
  MaxSize = 30
  readChunkSize = 10
  cacheBatchBlocks = 2
  ReadCacheLargeFileBytes = 12
  diskMinReserveBytes = 10
  diskFloorBytes = 5
  Available = {25, 3}
  MaxRaces = 1
  StoreChunks = {1, 2}
  Capacity = 1
  QueueSize = 1
  Budgets <- MCBudgets
  Parts = {"policy", "store"}
INVARIANTS  HolesNotServed
PROPERTIES CapacityRestored SmallFloorKept WithinCapacity WritesDrain
CHECK_DEADLOCK FALSE
