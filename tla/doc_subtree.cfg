SPECIFICATION SumSpec
CONSTANTS
  Files = {"d/f"}
  Dirs = {"d"}
  Under <- MCUnder
  Users = {u1, u2}
  Slots = {e1, e2}
  Ops = {"remove", "rmdir", "create", "mkdir", "source", "task", "close"}
  MaxId = 5
  MaxOps = 3
  MaxFaults = 1
  Keys = {"k1", "k2"}
  KeysUnder <- MCKeysUnder
  MaxGen = 4
PROPERTY SubtreeSerialized
CHECK_DEADLOCK FALSE
