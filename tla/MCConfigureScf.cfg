SPECIFICATION FairSpec
CONSTANTS
  Run = {r1, r2}
  Person = {p1}
  Client = client
  v1 = v1  v2 = v2
  Value <- MCValue
  None = None
  Config <- MCConfig
  PageSize = 2
  MaxTries = 2
  MaxFaults = 2
INVARIANTS TypeOK DoneConfigured ClientNotListed
PROPERTIES ImplementsProvisioning OnlyClientRemoved EventuallyConfigured
CHECK_DEADLOCK FALSE
