SPECIFICATION Spec
CONSTANTS
  N = 3
  MaxWait = 1
  SlowStop = {1}
  FailsAt = {"stop", "test", "read", "recover", "grep", "set"}
  MaxPos = 2
INVARIANTS TypeOK DoneMeansStopped OneBootstrap
PROPERTY NothingLostUnlessMisled
CHECK_DEADLOCK FALSE
