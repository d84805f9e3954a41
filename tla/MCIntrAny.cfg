SPECIFICATION MCSpec
CONSTANTS
  N = 2
  Tasks = {k1, k2, k3}
  Links = 2
PROPERTY IntrAnyDelivered
CHECK_DEADLOCK FALSE
