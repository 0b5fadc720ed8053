----------------------------- MODULE MCBrainTest -----------------------------
(* The scripts of the tests, run by the machinery.  BrainScripts has no    *)
(* state; its definitions are the constants of BrainTest.                  *)
EXTENDS BrainTest
S == INSTANCE BrainScripts
MCTest == S!Tests
MCHandler == S!Handlers
MCResource == S!Resources
MCExclusive == S!ExclusiveResources
MCNeeds == S!Dependencies
MCScript == S!Scripts
MCCleaning == S!Cleanings
MCThrown == S!ThrownTests
MCBefore == S!Leftovers
=============================================================================
