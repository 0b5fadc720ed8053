SPECIFICATION FairSpec
CONSTANTS
  Run = {r1}
  g1 = g1  auto = auto  s1 = s1  s2 = s2
  Group <- MCGroup
  DefaultGroups = {}
  Client <- MCClient
  AutoClient = auto
  Secret <- MCSecret
  Value <- MCSecret
  NoSecret = NoSecret
  Present = Present
  Config <- MCConfig
  Settings <- MCSettings
  Person = {p1}
  PageSize = 2
  MaxTries = 2
  MaxOutages = 1
  MaxCrashes = 1
  MaxUpgrades = 1
  MaxFaults = 1
INVARIANTS TypeOK DoneDeployed
PROPERTIES ImplementsConfigureScf ImplementsProvisioning EventuallyDeployed
CHECK_DEADLOCK FALSE
