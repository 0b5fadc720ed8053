--------------------------- MODULE PostDeployment ---------------------------
(***************************************************************************)
(* The pod of the post-deployment job: it runs the script of uaa-create-   *)
(* user and, when that has ended well, the one of configure-scf.  A script *)
(* that fails fails the pod, which then begins with uaa-create-user again. *)
(* The steps are those of the modules of the two jobs, on one UAA, with    *)
(* one configuration.                                                      *)
(*                                                                         *)
(* ConfigureScf takes the secret of its client as given by an environment  *)
(* that provides it in the end (its ProvideClient).  Here uaa-create-user  *)
(* is that environment.                                                    *)
(***************************************************************************)
EXTENDS Naturals

CONSTANTS
  Run, Group, DefaultGroups, Client, AutoClient, Secret, NoSecret,
  Config, MaxTries, MaxOutages, MaxCrashes, MaxUpgrades,  \* as UaaCreateUser
  Person, Value, PageSize,                                \* as ConfigureScf
  Settings,   \* per configuration what it has for configure-scf
  MaxFaults   \* bound: outages of the others, pods killed in configure-scf,
              \* expired tokens

ASSUME SettingsAssumption ==
  /\ Secret \subseteq Value
  /\ \A c \in Config : Settings[c].secret = c.secret[AutoClient]

VARIABLES
  \* uaa-create-user
  up, zone, groups, clients, user, admins, others,
  config, outages, crashes, upgrades, killed, pc, todo, tries, userId,
  \* configure-scf
  cc, persi, users, varGroups, broker, faults,
  step, rounds, targeted, token, doomed

uaa == <<zone, groups, clients, user, admins>>
env == <<up, others, config, outages, crashes, upgrades, killed>>
creating == <<pc, todo, tries, userId>>
controller == <<cc, persi, users, varGroups, broker>>
configuring == <<step, rounds, targeted, token, doomed>>
scf == <<controller, configuring, faults>>
vars == <<uaa, env, creating, scf>>

U == INSTANCE UaaCreateUser

C == INSTANCE ConfigureScf WITH
  Client <- AutoClient, None <- NoSecret, Config <- {Settings[c] : c \in Config},
  MaxFaults <- MaxOutages + MaxFaults,
  uaa <- up, secret <- clients[AutoClient].secret, env <- varGroups,
  config <- Settings[config], faults <- outages + faults,
  pc <- step, tries <- rounds, todo <- doomed

ASSUME ConstantsAssumption ==
  /\ U!ConstantsAssumption /\ C!ConstantsAssumption
  /\ MaxFaults \in Nat
  /\ MaxUpgrades \in {0, 1}   \* as ConfigureScf

TypeOK ==
  /\ U!TypeOK /\ C!TypeOK
  /\ faults \in 0 .. MaxFaults

Init ==
  /\ U!Init
  /\ faults = 0
  /\ C!Init

-----------------------------------------------------------------------------
(* The pod.                                                                *)

CreateUser(r) ==
  /\ U!Script(r)
  /\ UNCHANGED scf

\* Variant: configure-scf runs whether uaa-create-user succeeded or not.
StartAnyway(r) ==
  /\ U!At(r, "done") \/ U!At(r, "failed")
  /\ C!At(r, "idle") \/ C!At(r, "failed")
  /\ C!Goto(r, "waitCC")
  /\ pc' = [pc EXCEPT ![r] = "done"]
  /\ UNCHANGED <<uaa, env, todo, tries, userId, controller, faults>>

\* uaa-create-user has ended well: configure-scf begins, which does not look
\* at what is in the UAA.
StartConfigure(r) ==
  /\ U!At(r, "done")
  /\ C!At(r, "idle") \/ C!At(r, "failed")
  /\ C!Goto(r, "waitCC")
  /\ UNCHANGED <<uaa, env, creating, controller, faults>>

\* A step of configure-scf.  When it fails, the pod has failed.
Configure(r) ==
  /\ U!At(r, "done")
  /\ ~(C!At(r, "idle") \/ C!At(r, "failed"))
  /\ UNCHANGED <<uaa, env, todo, tries, userId, faults>>
  /\ C!Script(r)
  /\ pc' = [pc EXCEPT ![r] = IF step'[r] = "failed" THEN "failed" ELSE @]

Pods(r) == CreateUser(r) \/ StartConfigure(r) \/ Configure(r)

-----------------------------------------------------------------------------
(* The surroundings.                                                       *)

UaaOutage == U!Outage /\ UNCHANGED scf

\* The cloud controller or the broker goes away.
OtherOutage ==
  /\ faults < MaxFaults /\ faults' = faults + 1
  /\ \/ cc /\ cc' = FALSE /\ UNCHANGED persi
     \/ persi /\ persi' = FALSE /\ UNCHANGED cc
  /\ UNCHANGED <<uaa, env, creating, users, varGroups, broker, configuring>>

Recover ==
  /\ ~(cc /\ up /\ persi)
  /\ cc' = TRUE /\ up' = TRUE /\ persi' = TRUE
  /\ UNCHANGED <<uaa, others, config, outages, crashes, upgrades, killed,
                 creating>>
  /\ UNCHANGED <<users, varGroups, broker, configuring, faults>>

OtherJoins(g) == U!OtherJoins(g) /\ UNCHANGED scf

PersonJoins(p) ==
  /\ UNCHANGED <<uaa, env, creating, faults>>
  /\ C!PersonJoins(p)

Expire(r) ==
  /\ UNCHANGED <<uaa, env, creating>>
  /\ faults < MaxFaults /\ faults' = faults + 1
  /\ C!Expire(r)

\* The pod is killed in the first script ...
Crash(r) == U!Crash(r) /\ UNCHANGED scf

\* ... or in the second.
Kill(r) ==
  /\ U!At(r, "done") /\ step[r] \notin {"idle", "done", "failed"}
  /\ UNCHANGED <<uaa, env, controller>>
  /\ faults < MaxFaults /\ faults' = faults + 1
  /\ U!Forget({r})
  /\ C!End({r}, "idle")

Upgrade(c) ==
  /\ U!Upgrade(c)
  /\ C!End(Run, "idle")
  /\ UNCHANGED <<controller, faults>>

Next ==
  \/ \E r \in Run : Pods(r) \/ Crash(r) \/ Kill(r) \/ Expire(r)
  \/ UaaOutage \/ OtherOutage \/ Recover
  \/ \E g \in Group : OtherJoins(g)
  \/ \E p \in Person : PersonJoins(p)
  \/ \E c \in Config : Upgrade(c)

\* As for the jobs alone; nothing is assumed of what provides the client.
Fairness == WF_vars(Recover) /\ \A r \in Run : WF_vars(Pods(r))

Spec == Init /\ [][Next]_vars
FairSpec == Spec /\ Fairness

-----------------------------------------------------------------------------
(* Properties.                                                             *)

\* What ConfigureScf assumes of uaa-create-user is so: whenever its script
\* begins, the client has the secret of its configuration, and each step of
\* the pod is one of its steps or of its environment.  In the code: the order
\* of the jobs of post-deployment-setup, and errexit.
ImplementsConfigureScf == C!Spec

\* When a pod has ended well all that the configuration asks for is there: in
\* the UAA, and in the cloud controller.
DoneDeployed ==
  \A r \in Run : C!At(r, "done") =>
    /\ U!Provisioned
    /\ \A t \in C!Runtime : Settings[config].env[t] \in {NoSecret, varGroups[t]}
    /\ Settings[config].broker \in {NoSecret, broker}

\* Every pod ends well in the end: a pod that failed late gets past all that
\* its former attempt, or another pod, has created in both services.
EventuallyDeployed == <>[](\A r \in Run : C!At(r, "done"))
=============================================================================
