----------------------------- MODULE ConfigureScf -----------------------------
(***************************************************************************)
(* The configure-scf job: a bash script under "errexit" that waits for the *)
(* cloud controller and the UAA, logs the cf CLI in as an UAA client, sets *)
(* the environment variable groups, registers the persi broker, and in the *)
(* end removes what its login left in the cloud controller: a user with no *)
(* name that has the client's id.  As uaa-create-user, it runs in the pods *)
(* of a Kubernetes job, is killed, repeated and doubled.                   *)
(*                                                                         *)
(* The pod runs uaa-create-user first (post-deployment-setup lists the     *)
(* two in this order), so the client has the secret of the present         *)
(* revision before this script starts: UaaCreateUser!DoneProvisioned.      *)
(***************************************************************************)
EXTENDS Naturals, Sequences, SequencesExt

CONSTANTS
  Run,          \* pods that execute the script
  Person,       \* users of the cloud controller, with a GUID of 36 characters
  Client,       \* scf_auto_config, as a user of the cloud controller
  Value, None,  \* values of what is configured; not configured
  Config,       \* the configurations that revisions of the deployment have
  PageSize,     \* users on one page of /v2/users (50 unless asked for more)
  MaxTries,     \* tries of a retry loop (1440 in the code)
  MaxFaults     \* bound: outages, killed pods and expired tokens

Runtime == {"staging", "running"}
ConfigType ==
  [secret : Value, env : [Runtime -> Value \cup {None}],
   broker : Value \cup {None}]

ASSUME ConstantsAssumption ==
  /\ None \notin Value /\ Client \notin Person
  /\ Config \subseteq ConfigType
  /\ MaxTries \in Nat \ {0} /\ PageSize \in Nat \ {0} /\ MaxFaults \in Nat

VARIABLES
  cc, uaa, persi, \* do they answer?
  secret,     \* the secret the client has in the UAA
  users,      \* the users of the cloud controller, the oldest first
  env,        \* its environment variable groups
  broker,     \* the persi broker it has, with its password and URL
  config, upgrades, faults,
  pc, tries,  \* of each pod: where it is, and i of its retry loop
  targeted,   \* does its cf CLI know the cloud controller?
  token,      \* does it have a token that is still good?
  todo        \* the users it is about to remove

services == <<cc, uaa, persi>>
controller == <<users, env, broker>>
deployment == <<secret, config, upgrades>>
run == <<pc, tries, targeted, token, todo>>
vars == <<services, controller, deployment, faults, run>>

Label ==
  {"idle", "waitCC", "waitUaa", "login", "staging", "running", "waitBroker",
   "createBroker", "updateBroker", "list", "delete", "done", "failed"}

TypeOK ==
  /\ cc \in BOOLEAN /\ uaa \in BOOLEAN /\ persi \in BOOLEAN
  /\ secret \in Value \cup {None}
  /\ users \in Seq(Person \cup {Client})
  /\ env \in [Runtime -> Value \cup {None}]
  /\ broker \in Value \cup {None}
  /\ config \in Config /\ upgrades \in 0 .. 1 /\ faults \in 0 .. MaxFaults
  /\ pc \in [Run -> Label] /\ tries \in [Run -> 0 .. MaxTries - 1]
  /\ targeted \in [Run -> BOOLEAN] /\ token \in [Run -> BOOLEAN]
  /\ todo \in [Run -> SUBSET (Person \cup {Client})]

Init ==
  /\ cc \in BOOLEAN /\ uaa \in BOOLEAN /\ persi \in BOOLEAN
  /\ secret = None /\ users = <<>>
  /\ env = [t \in Runtime |-> None] /\ broker = None
  /\ config \in Config /\ upgrades = 0 /\ faults = 0
  /\ pc = [r \in Run |-> "idle"] /\ tries = [r \in Run |-> 0]
  /\ targeted = [r \in Run |-> FALSE]
  /\ token = [r \in Run |-> FALSE] /\ todo = [r \in Run |-> {}]

-----------------------------------------------------------------------------
(* The script.                                                             *)

At(r, label) == pc[r] = label

Goto(r, label) ==
  /\ pc' = [pc EXCEPT ![r] = label]
  /\ UNCHANGED <<tries, targeted, token, todo>>

\* The process ends; what it kept (~/.cf/config.json, too) is the pod's.
End(S, label) ==
  /\ pc' = [r \in Run |-> IF r \in S THEN label ELSE pc[r]]
  /\ tries' = [r \in Run |-> IF r \in S THEN 0 ELSE tries[r]]
  /\ targeted' = [r \in Run |-> IF r \in S THEN FALSE ELSE targeted[r]]
  /\ token' = [r \in Run |-> IF r \in S THEN FALSE ELSE token[r]]
  /\ todo' = [r \in Run |-> IF r \in S THEN {} ELSE todo[r]]

\* Variant: the counter is compared before it is advanced.
RetryOnceMore(r, label, answered, next) ==
  /\ At(r, label)
  /\ IF answered \/ tries[r] = MaxTries
       THEN /\ pc' = [pc EXCEPT ![r] = next]
            /\ tries' = [tries EXCEPT ![r] = 0]
       ELSE /\ tries' = [tries EXCEPT ![r] = @ + 1]
            /\ UNCHANGED pc
  /\ UNCHANGED <<services, controller, deployment, faults, token, todo>>

\* One round of "retry": as everywhere, the loop is also left when the tries
\* are used up, and the script goes on.
Retry(r, label, answered, next) ==
  /\ At(r, label)
  /\ IF answered \/ tries[r] + 1 = MaxTries
       THEN /\ pc' = [pc EXCEPT ![r] = next]
            /\ tries' = [tries EXCEPT ![r] = 0]
       ELSE /\ tries' = [tries EXCEPT ![r] = @ + 1]
            /\ UNCHANGED pc
  /\ UNCHANGED <<services, controller, deployment, faults, token, todo>>

\* A call to the cloud controller with the token is let in ...
Authorized(r) == cc /\ token[r]

\* ... which the cf CLI makes only where "cf api" has told it whom to call ...
Reached(r) == targeted[r] /\ Authorized(r)

\* ... and leaves the client in the list of users.
Listed == IF Contains(users, Client) THEN users ELSE Append(users, Client)

\* A cf command that needs such a call: "change" is what it does, "next" where
\* the script goes on.  Otherwise errexit ends the script.
Command(r, label, change, same, next) ==
  /\ At(r, label)
  /\ IF Reached(r)
       THEN change /\ users' = Listed /\ Goto(r, next)
       ELSE UNCHANGED <<same, users>> /\ End({r}, "failed")
  /\ UNCHANGED <<services, deployment, faults>>

Start(r) ==
  /\ pc[r] \in {"idle", "failed"} /\ secret = config.secret
  /\ Goto(r, "waitCC")
  /\ UNCHANGED <<services, controller, deployment, faults>>

\* cf api waits for the cloud controller and, when that answers, targets it.
WaitCC(r) ==
  /\ Retry(r, "waitCC", cc, "waitUaa")
  /\ targeted' = [targeted EXCEPT ![r] = cc]

WaitUaa(r) == Retry(r, "waitUaa", uaa, "login") /\ UNCHANGED targeted

\* insert_cf_client_auth_token.rb: the client's credential becomes the CLI's.
Login(r) ==
  /\ At(r, "login")
  /\ IF uaa /\ secret = config.secret
       THEN /\ pc' = [pc EXCEPT ![r] = "staging"]
            /\ token' = [token EXCEPT ![r] = TRUE]
            /\ UNCHANGED <<tries, targeted, todo>>
       ELSE End({r}, "failed")
  /\ UNCHANGED <<services, controller, deployment, faults>>

\* Variant: a group that is not configured is set to nothing.
SetEnvAlways(r, t, next) ==
  /\ Command(r, t, env' = [env EXCEPT ![t] = config.env[t]], env, next)
  /\ UNCHANGED broker

\* cf set-...-environment-variable-group.  The template leaves the command
\* out when nothing is configured: what was set before stays.
SetEnv(r, t, next) ==
  IF config.env[t] = None
    THEN /\ At(r, t) /\ Goto(r, next)
         /\ UNCHANGED <<services, controller, deployment, faults>>
    ELSE /\ Command(r, t, env' = [env EXCEPT ![t] = config.env[t]], env, next)
         /\ UNCHANGED broker

SetStaging(r) == SetEnv(r, "staging", "running")
SetRunning(r) ==
  SetEnv(r, "running", IF config.broker = None THEN "list" ELSE "waitBroker")

WaitBroker(r) ==
  Retry(r, "waitBroker", persi, "createBroker") /\ UNCHANGED targeted

\* Variant: "|| true" in place of the update.
CreateBrokerOnly(r) ==
  /\ At(r, "createBroker")
  /\ broker' = IF Reached(r) /\ persi /\ broker = None
                 THEN config.broker ELSE broker
  /\ users' = IF Reached(r) THEN Listed ELSE users
  /\ Goto(r, "list")
  /\ UNCHANGED <<services, env, deployment, faults>>

\* Variant: a broker that cannot be created ends the script.
CreateBrokerOrFail(r) ==
  /\ At(r, "createBroker")
  /\ users' = IF Reached(r) THEN Listed ELSE users
  /\ IF Reached(r) /\ persi /\ broker = None
       THEN broker' = config.broker /\ Goto(r, "list")
       ELSE UNCHANGED broker /\ End({r}, "failed")
  /\ UNCHANGED <<services, env, deployment, faults>>

\* cf create-service-broker, which fails if there is one, || ...  The cloud
\* controller asks a broker for its catalog before it takes it.
CreateBroker(r) ==
  /\ At(r, "createBroker")
  /\ users' = IF Reached(r) THEN Listed ELSE users
  /\ IF Reached(r) /\ persi /\ broker = None
       THEN broker' = config.broker /\ Goto(r, "list")
       ELSE UNCHANGED broker /\ Goto(r, "updateBroker")
  /\ UNCHANGED <<services, env, deployment, faults>>

\* ... cf update-service-broker
UpdateBroker(r) ==
  /\ At(r, "updateBroker")
  /\ users' = IF Reached(r) THEN Listed ELSE users
  /\ IF Reached(r) /\ persi /\ broker # None
       THEN broker' = config.broker /\ Goto(r, "list")
       ELSE UNCHANGED broker /\ End({r}, "failed")
  /\ UNCHANGED <<services, env, deployment, faults>>

\* The cloud controller gets the names of users from the UAA.
Named(u) == u \in Person /\ uaa

\* Variant: a user without a name is enough.
BogusUnnamed(u) == ~Named(u)

\* Variant: any identifier passes for a GUID.
BogusLonger(u) == u \notin Person \cup {Client} /\ ~Named(u)

\* remove_temporary_users.rb: neither a GUID nor a name.
Bogus(u) == u \notin Person /\ ~Named(u)

\* It reads the first page of /v2/users, no more.  Its curl has the address of
\* the cloud controller from the template ...
ListUsers(r) ==
  /\ At(r, "list")
  /\ IF Authorized(r)
       THEN LET page == {Listed[k] : k \in DOMAIN Listed \cap 1 .. PageSize} IN
            /\ users' = Listed
            /\ pc' = [pc EXCEPT ![r] = "delete"]
            /\ todo' = [todo EXCEPT ![r] = {u \in page : Bogus(u)}]
            /\ UNCHANGED <<tries, targeted, token>>
       ELSE UNCHANGED users /\ End({r}, "failed")
  /\ UNCHANGED <<services, env, broker, deployment, faults>>

\* ... and removes the bogus ones of it.  A user that is gone is a 404, and
\* with it "curl --fail" and the script fail.  Nobody is listed twice.
DeleteUser(r, u) ==
  /\ At(r, "delete") /\ u \in todo[r]
  /\ IF Authorized(r) /\ Contains(Listed, u)
       THEN /\ \E k \in 1 .. Len(Listed) :
                 Listed[k] = u /\ users' = RemoveAt(Listed, k)
            /\ todo' = [todo EXCEPT ![r] = @ \ {u}]
            /\ UNCHANGED <<pc, tries, targeted, token>>
       ELSE /\ users' = IF Authorized(r) THEN Listed ELSE users
            /\ End({r}, "failed")
  /\ UNCHANGED <<services, env, broker, deployment, faults>>

Complete(r) ==
  /\ At(r, "delete") /\ todo[r] = {}
  /\ End({r}, "done")
  /\ UNCHANGED <<services, controller, deployment, faults>>

Script(r) ==
  \/ Start(r) \/ WaitCC(r) \/ WaitUaa(r) \/ Login(r)
  \/ SetStaging(r) \/ SetRunning(r)
  \/ WaitBroker(r) \/ CreateBroker(r) \/ UpdateBroker(r)
  \/ ListUsers(r) \/ (\E u \in todo[r] : DeleteUser(r, u)) \/ Complete(r)

-----------------------------------------------------------------------------
(* The surroundings.                                                       *)

\* A service goes away, or its pod is replaced.
Outage ==
  /\ faults < MaxFaults /\ faults' = faults + 1
  /\ \/ cc /\ cc' = FALSE /\ UNCHANGED <<uaa, persi>>
     \/ uaa /\ uaa' = FALSE /\ UNCHANGED <<cc, persi>>
     \/ persi /\ persi' = FALSE /\ UNCHANGED <<cc, uaa>>
  /\ UNCHANGED <<controller, deployment, run>>

Recover ==
  /\ ~(cc /\ uaa /\ persi)
  /\ cc' = TRUE /\ uaa' = TRUE /\ persi' = TRUE
  /\ UNCHANGED <<controller, deployment, faults, run>>

\* uaa-create-user ends well: the client has the present secret.
ProvideClient ==
  /\ uaa /\ secret # config.secret
  /\ secret' = config.secret
  /\ UNCHANGED <<services, controller, config, upgrades, faults, run>>

\* Somebody logs in for the first time.
PersonJoins(p) ==
  /\ cc /\ uaa /\ ~Contains(users, p)
  /\ users' = Append(users, p)
  /\ UNCHANGED <<services, env, broker, deployment, faults, run>>

\* A token outlives its time while its script waits.
Expire(r) ==
  /\ token[r] /\ faults < MaxFaults
  /\ faults' = faults + 1
  /\ token' = [token EXCEPT ![r] = FALSE]
  /\ UNCHANGED <<services, controller, deployment, pc, tries, targeted, todo>>

Kill(r) ==
  /\ pc[r] \notin {"idle", "done"} /\ faults < MaxFaults
  /\ faults' = faults + 1
  /\ End({r}, "idle")
  /\ UNCHANGED <<services, controller, deployment>>

\* An upgrade replaces the job, with other settings or the same.
Upgrade(c) ==
  /\ upgrades = 0
  /\ config' = c /\ upgrades' = 1
  /\ End(Run, "idle")
  /\ UNCHANGED <<services, controller, secret, faults>>

Next ==
  \/ \E r \in Run : Script(r) \/ Expire(r) \/ Kill(r)
  \/ Outage \/ Recover \/ ProvideClient
  \/ \E p \in Person : PersonJoins(p)
  \/ \E c \in Config : Upgrade(c)

\* Kubernetes restarts a script that failed; the services come back and
\* uaa-create-user ends well (UaaCreateUser!EventuallyDone).
Fairness ==
  /\ WF_vars(Recover) /\ WF_vars(ProvideClient)
  /\ \A r \in Run : WF_vars(Script(r))

Spec == Init /\ [][Next]_vars
FairSpec == Spec /\ Fairness

-----------------------------------------------------------------------------
(* Properties.                                                             *)

\* When the script has ended well all that is configured is in effect, after
\* an upgrade, too, whatever failed on the way.  In the code: errexit behind
\* loops that give up, and "create || update".
DoneConfigured ==
  \A r \in Run : At(r, "done") =>
    /\ \A t \in Runtime : config.env[t] \in {None, env[t]}
    /\ config.broker \in {None, broker}

\* The job keeps the promise of Provisioning: one slot per environment variable
\* group and one for the broker.
Slots == Runtime \cup {"broker"}
Have == [s \in Slots |-> IF s = "broker" THEN broker ELSE env[s]]
Want == [s \in Slots |-> IF s = "broker" THEN config.broker ELSE config.env[s]]
Announced == \E r \in Run : At(r, "done")

Abstract == INSTANCE Provisioning WITH
  Slot <- Slots, Empty <- None,
  have <- Have, want <- Want, announced <- Announced

\* Every step of the pods and of their surroundings provides what is wanted,
\* announces it when all of it is there, redeploys, or changes nothing of it.
\* In the code: a re-run, or another pod's run, sets what is set already to the
\* same, and what the revision does not configure is left alone.
ImplementsProvisioning == Abstract!Spec

\* No user but the client is ever removed, not even while the UAA is away and
\* no user has a name.  In the code: "guid doesn't match a GUID AND no
\* entity:username assigned".
OnlyClientRemoved ==
  [][\A p \in Person : Contains(users, p) => Contains(users', p)]_vars

\* When all pods have ended well the client is no user any more, though each
\* call of another pod brings it back.  In the code: "must be called after the
\* client credentials are not longer needed to prevent the client id from
\* appearing in the CC's user list".
ClientNotListed == (\A r \in Run : At(r, "done")) => ~Contains(users, Client)

\* In the end every pod has ended well, so a re-run gets past all that a
\* former one left.  In the code: the job is restarted until it succeeds.
EventuallyConfigured == <>[](\A r \in Run : At(r, "done"))
=============================================================================
