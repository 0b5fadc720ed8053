-------------------------- MODULE MCPostDeployment --------------------------
(* An instance with an upgrade that rotates the client's secret, and with  *)
(* it the broker's password, and asks for one more group.                  *)
EXTENDS PostDeploymentImpl, TLC

CONSTANTS g1, auto, s1, s2

MCGroup == {g1}
MCClient == {auto}
MCSecret == {s1, s2}

Before == [secret |-> auto :> s1, scope |-> 1, groups |-> {},
           authorities |-> {g1}]
After  == [secret |-> auto :> s2, scope |-> 1, groups |-> {g1},
           authorities |-> {}]
MCConfig == {Before, After}

SettingsOf(s) ==
  [secret |-> s, env |-> "staging" :> s @@ "running" :> NoSecret, broker |-> s]
MCSettings == Before :> SettingsOf(s1) @@ After :> SettingsOf(s2)
=============================================================================
