SPECIFICATION FairSpec
CONSTANTS
  Test <- MCTest
  Handler <- MCHandler
  Resource <- MCResource
  Exclusive <- MCExclusive
  Needs <- MCNeeds
  Script <- MCScript
  Cleaning <- MCCleaning
  Thrown <- MCThrown
  Before <- MCBefore
  MaxTries = 2
  MaxFaults = 2
INVARIANTS TypeOK NothingLeft DependentsFirst KilledInCleanUpOnly
PROPERTIES PassedIsComplete CleanUpBegins
CHECK_DEADLOCK FALSE
