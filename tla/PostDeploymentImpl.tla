-------------------------- MODULE PostDeploymentImpl --------------------------
(***************************************************************************)
(* The post-deployment job as one implementation of Provisioning: the      *)
(* slots of uaa-create-user in the UAA and those of configure-scf in the   *)
(* cloud controller, announced when a pod has run both scripts well.       *)
(***************************************************************************)
EXTENDS PostDeployment

CONSTANT Present   \* as UaaCreateUserImpl

ASSUME PresentAssumption == Present \notin Value \cup {NoSecret}

UI == INSTANCE UaaCreateUserImpl

Slots == ({"uaa"} \X UI!Slots) \cup ({"scf"} \X C!Slots)

Have == [s \in Slots |-> IF s[1] = "uaa" THEN UI!Have[s[2]] ELSE C!Have[s[2]]]

Want == [s \in Slots |-> IF s[1] = "uaa" THEN UI!Want[s[2]] ELSE C!Want[s[2]]]

Abstract == INSTANCE Provisioning WITH
  Slot <- Slots, Value <- Value \cup {Present}, Empty <- NoSecret,
  have <- Have, want <- Want, announced <- C!Announced

\* Every step of the pods and of their surroundings provides what is wanted in
\* one of the two services, announces it when all of it is there in both,
\* redeploys, or changes nothing of it.  In the code: a pod that failed in
\* configure-scf begins with uaa-create-user again and takes nothing back, and
\* no pod ends well while anything of the revision is missing.
ImplementsProvisioning == Abstract!Spec
=============================================================================
