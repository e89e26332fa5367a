SPECIFICATION StagingSpec
CONSTANTS
  Contents = {a, b, s}
  Parts = {1, 2}
  MaxTroubles = 3
  MaxEntries = 1
  Expiry = TRUE
  Small = {s}
  Retries = 2
  First = a
  Drivers = {"sftp"}
INVARIANT WholeFiles
CHECK_DEADLOCK FALSE
