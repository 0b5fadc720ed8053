SPECIFICATION FairSpec
CONSTANTS
  Run = {r1}
  f1 = f1  f2 = f2  f3 = f3  b1 = b1  b2 = b2
  Log = {f1, f2}
  Base <- MCBase
  base <- MCOwn
  None = None
  MaxCrashes = 0
PROPERTY EveryLogForwarded
CHECK_DEADLOCK FALSE
