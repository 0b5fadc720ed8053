SPECIFICATION Spec
CONSTANTS
  Run = {r1, r2}
  g1 = g1  g2 = g2  auto = auto  web = web  s1 = s1  s2 = s2
  Group <- MCGroup
  DefaultGroups = {g1}
  Client <- MCClient
  AutoClient = auto
  Secret <- MCSecret
  NoSecret = NoSecret
  Present = Present
  Config <- MCConfig
  MaxTries = 2
  MaxOutages = 1
  MaxCrashes = 1
  MaxUpgrades = 1
INVARIANT AdminHasAuthorities
CHECK_DEADLOCK FALSE
