---------------------------- MODULE Provisioning ----------------------------
(***************************************************************************)
(* What the post-deployment jobs promise, without saying how.  A service   *)
(* holds one value per slot (a zone, a group, a client's secret, ...).     *)
(* The deployment wants a value in some of them.  Wanted values are put    *)
(* in place a few at a time, a value is only ever replaced by the one      *)
(* wanted, and success is announced only when every wanted slot is right.  *)
(* A new revision of the deployment may want other values.                 *)
(***************************************************************************)
CONSTANTS
  Slot,   \* the places a value can be put in
  Value,  \* the values
  Empty   \* nothing there / nothing wanted there

VARIABLES
  have,      \* what the service holds
  want,      \* what the deployment wants; Empty: it does not care
  announced  \* has success been reported for the present wishes?

vars == <<have, want, announced>>

TypeOK ==
  /\ have \in [Slot -> Value \cup {Empty}]
  /\ want \in [Slot -> Value \cup {Empty}]
  /\ announced \in BOOLEAN

Wanted == {s \in Slot : want[s] # Empty}

Complete == \A s \in Wanted : have[s] = want[s]

Init ==
  /\ have = [s \in Slot |-> Empty]
  /\ want \in [Slot -> Value \cup {Empty}]
  /\ announced = FALSE

\* Some wanted slots get the value that is wanted there; an empty slot that
\* nobody cares for may be filled along the way.
Provide ==
  /\ have' \in [Slot -> Value \cup {Empty}]
  /\ \A s \in Slot :
       \/ have'[s] = have[s]
       \/ s \in Wanted /\ have'[s] = want[s]
       \/ s \notin Wanted /\ have[s] = Empty
  /\ UNCHANGED <<want, announced>>

Announce ==
  /\ Complete
  /\ announced' = TRUE
  /\ UNCHANGED <<have, want>>

\* Another revision is deployed, or the report is lost with its run.
Redeploy ==
  /\ want' \in [Slot -> Value \cup {Empty}]
  /\ announced' = FALSE
  /\ UNCHANGED have

Next == Provide \/ Announce \/ Redeploy

Spec == Init /\ [][Next]_vars

\* Success is never announced while something wanted is missing.  In the code:
\* "UAA initialization successful" is printed only after every step succeeded.
AnnouncedComplete == announced => Complete
=============================================================================
