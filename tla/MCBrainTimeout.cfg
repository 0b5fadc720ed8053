SPECIFICATION Spec
CONSTANTS
  Test <- MCTest
  Handler <- MCHandler
  Resource <- MCResource
  Exclusive <- MCExclusive
  Needs <- MCNeeds
  Script <- MCScript
  Cleaning <- MCCleaning
  Thrown <- MCThrown
  Before <- MCBefore
  MaxTries = 2
  MaxFaults = 2
INVARIANT CleanUpBeforeKill
CHECK_DEADLOCK FALSE
