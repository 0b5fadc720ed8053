--------------------------- MODULE MCUaaCreateUser ---------------------------
(***************************************************************************)
(* An instance with two pods, two groups, two clients and an upgrade that  *)
(* rotates a secret, gives one to a client that had none, changes the      *)
(* scopes and asks for one more group and another authority.               *)
(***************************************************************************)
EXTENDS UaaCreateUserImpl, TLC

CONSTANTS g1, g2, auto, web, s1, s2

MCGroup == {g1, g2}
MCClient == {auto, web}
MCSecret == {s1, s2}

Before == [secret |-> auto :> s1 @@ web :> NoSecret, scope |-> 1,
           groups |-> {g1}, authorities |-> {g1, g2}]
After  == [secret |-> auto :> s2 @@ web :> s1, scope |-> 2,
           groups |-> {g1, g2}, authorities |-> {g1}]
MCConfig == {Before, After}
=============================================================================
