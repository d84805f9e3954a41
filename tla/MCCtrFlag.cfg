SPECIFICATION MCSpec
CONSTANTS
  N = 2
  Tasks = {k1, k2, k3}
  Links = 2
INVARIANT CtrFlagAlive
CHECK_DEADLOCK FALSE
