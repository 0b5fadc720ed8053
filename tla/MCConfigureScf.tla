--------------------------- MODULE MCConfigureScf ---------------------------
(* Two pods and an upgrade that rotates the secret and the broker's        *)
(* password, sets one environment variable group for the first time and    *)
(* stops setting the other.                                                *)
EXTENDS ConfigureScf, TLC
CONSTANTS v1, v2
MCValue == {v1, v2}
MCBefore == [secret |-> v1, env |-> "staging" :> v1 @@ "running" :> None,
             broker |-> v1]
MCAfter == [secret |-> v2, env |-> "staging" :> None @@ "running" :> v2,
            broker |-> v2]
MCNoBroker == [MCAfter EXCEPT !.broker = None]
MCConfig == {MCBefore, MCAfter, MCNoBroker}
=============================================================================
