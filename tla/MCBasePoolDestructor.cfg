SPECIFICATION MCSpec
CONSTANTS
  Workers = {w1, w2}
  Owner = o
  Threads = {w1, w2, o}
  Values = {k1, k2}
  Null = Null
  MaxHelps = 2
  MaxWakes = 1
  Senders = {s1, s2}
  Kinds = {ka, closed_k}
  ClosedKind = closed_k
  MaxMessages = 3
  MaxWaits = 2
  MaxHandlers = 2
  PoolWorkers = {w1, w2}
  Caller = o
  MaxJobs = 31
  Keys <- MCKeys
  Length = 5
PROPERTIES DestructorReturns
CHECK_DEADLOCK FALSE
