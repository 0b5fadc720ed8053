SPECIFICATION FairSpec
CONSTANTS
  Run = {r1, r2}
  f1 = f1  f2 = f2  f3 = f3  b1 = b1  b2 = b2
  Log <- MCLog
  Base <- MCBase
  base <- MCbase
  None = None
  MaxCrashes = 1
INVARIANTS TypeOK ReloadPending InputsHaveTarget
PROPERTIES SettledStays EventuallyForwarded
CHECK_DEADLOCK FALSE
