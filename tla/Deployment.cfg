SPECIFICATION FairSpec
CONSTANTS
  Replicas = 1
  MaxTargets = 2
  MaxFaults = 2
INVARIANTS TypeOK TrustsUaa NoFormerCa IngressOfUaa
PROPERTIES FreshInstall EveryTargetEnds StopTakesDown
CHECK_DEADLOCK FALSE
