SPECIFICATION Spec
CONSTANTS
  Run = {r1, r2}
  Person = {p1, p2}
  Client = client
  v1 = v1  v2 = v2
  Value <- MCValue
  None = None
  Config <- MCConfig
  PageSize = 2
  MaxTries = 2
  MaxFaults = 0
INVARIANT ClientNotListed
CHECK_DEADLOCK FALSE
