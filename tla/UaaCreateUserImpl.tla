-------------------------- MODULE UaaCreateUserImpl --------------------------
(***************************************************************************)
(* The uaa-create-user job as an implementation of Provisioning: one slot  *)
(* for the zone and one for the administrator, one per group, two per      *)
(* client (that it exists, and its secret).  Memberships are no part of    *)
(* it: the script may end well without one of them.                        *)
(***************************************************************************)
EXTENDS UaaCreateUser

CONSTANT Present   \* the value of a slot that only says something exists

ASSUME PresentAssumption == Present \notin Secret \cup {NoSecret}

Slots ==
  ({"zone", "user"} \X {Present}) \cup ({"group"} \X Group)
    \cup ({"client", "secret"} \X Client)

Mark(b) == IF b THEN Present ELSE NoSecret

Have ==
  [s \in Slots |->
     CASE s[1] = "zone"   -> Mark(zone)
       [] s[1] = "user"   -> Mark(user)
       [] s[1] = "group"  -> Mark(s[2] \in groups)
       [] s[1] = "client" -> Mark(clients[s[2]].exists)
       [] OTHER           -> clients[s[2]].secret]

Want ==
  [s \in Slots |->
     CASE s[1] = "group"  -> Mark(s[2] \in config.groups)
       [] s[1] = "secret" -> config.secret[s[2]]
       [] OTHER           -> Present]

Announced == \E r \in Run : At(r, "done")

Abstract == INSTANCE Provisioning WITH
  Slot <- Slots, Value <- Secret \cup {Present}, Empty <- NoSecret,
  have <- Have, want <- Want, announced <- Announced

\* Every step of the script and of its surroundings provides what is wanted,
\* announces it when complete, redeploys, or changes nothing of it.  In the
\* code: nothing already right is taken away or replaced by a re-run.
ImplementsProvisioning == Abstract!Spec
=============================================================================
