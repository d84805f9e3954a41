SPECIFICATION MCSpec
CONSTANTS
  N = 2
  Tasks = {k1, k2, k3}
  Links = 2
INVARIANTS TypesOK CtrEachTaskOnce CtrNoUseAfterDestroy IntrNoDeadCondi
  ThenInOrder
PROPERTIES CtrDestructorReturns CtrTasksStart IntrIsAnswered ThenResolves
CHECK_DEADLOCK FALSE
