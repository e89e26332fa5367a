SPECIFICATION SumSpec
CONSTANTS
  Size = 1
  chunk = 2
  Workers = {w1, w2}
  offlineURLRefreshes = 1
  MaxFaults = 2
  Files = {1}
  Slots = {1, 2}
  Retriers = {1, 2}
  MaxPid = 3
  offlineTransientFailureLimit = 1
  Budgets <- MCOverlap
  Ids = {1, 2}
  Recoverable = {1}
  Keys = {k1}
  Callers = {1, 2}
  None = None
  MaxGen = 3
  MaxCalls = 3
  MaxStops = 1
  Clients = {a}
  eventHistoryLimit = 3
  defaultSubscriptionBuffer = 2
  MaxSeq = 8
  Parts = {"task"}
INVARIANT NothingLost
CHECK_DEADLOCK FALSE
