SPECIFICATION MCSpec
CONSTANTS
  Threads = {p, c, x}
  Producer = p
  Consumer = c
  Values = {a, b}
  Null = Null
  MaxCalls = 4
  MaxWakes = 1
INVARIANTS TypeOK NoDataRace ListIsWhole LatePullNeverSleeps
PROPERTIES ImplementsFifo EveryCallReturns SleepersSeeClose
CHECK_DEADLOCK FALSE
