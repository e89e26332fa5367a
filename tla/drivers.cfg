SPECIFICATION LiveSpec
CONSTANTS
  Contents = {a, b, s}
  Parts = {1, 2}
  MaxTroubles = 2
  MaxEntries = 1
  Expiry = TRUE
  Small = {s}
  Retries = 1
  First = a
  Drivers = {"s3", "115", "115open", "aliyundrive", "baidu", "189", "139", "onedrive", "drime", "123", "quark", "sftp", "sftp3"}
INVARIANTS WholeFiles SuccessIsReal StaleDropped
PROPERTY UploadsSettle
CHECK_DEADLOCK FALSE
