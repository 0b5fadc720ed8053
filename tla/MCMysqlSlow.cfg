SPECIFICATION Spec
CONSTANTS
  N = 2
  MaxWait = 1
  SlowStop = {1}
  FailsAt = {}
  MaxPos = 4
PROPERTY NothingLost
CHECK_DEADLOCK FALSE
