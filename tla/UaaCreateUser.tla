---------------------------- MODULE UaaCreateUser ----------------------------
(***************************************************************************)
(* The uaa-create-user job: a bash script under "errexit" that creates, in *)
(* the UAA, the identity zone of the deployment, its groups and clients,   *)
(* the cluster administrator and the administrator's memberships.  It runs *)
(* in the pods of a Kubernetes job, so it can be killed between any two    *)
(* steps, run again from the top, and run in two pods at once.  Every step *)
(* is one call to the UAA, which may be out of reach at that moment.       *)
(*                                                                         *)
(* The loops are unrolled by the template in the order of its lists.  Here *)
(* a loop works through a set, in an order that is fixed but arbitrary.    *)
(***************************************************************************)
EXTENDS Naturals, FiniteSets

CONSTANTS
  Run,           \* pods that execute the script
  Group,         \* group names of the UAA
  DefaultGroups, \* uaa.user.default_groups: a zone is born with them, and
                 \* every new user is a member of them
  Client,        \* client ids, the same in every revision
  AutoClient,    \* scf_auto_config, the client the script logs in with
  Secret,        \* client secrets
  NoSecret,      \* what a client without a secret has (test -n fails)
  Config,        \* the configurations that revisions of the deployment have
  MaxTries,      \* tries of a retry loop (1440 in the code)
  MaxOutages,    \* bound: how often the UAA goes away
  MaxCrashes,    \* bound: how often a pod is killed
  MaxUpgrades    \* bound: how often the deployment is upgraded

ConfigType ==
  [secret : [Client -> Secret \cup {NoSecret}], scope : Nat,
   groups : SUBSET Group, authorities : SUBSET Group]

ASSUME ConstantsAssumption ==
  /\ DefaultGroups \subseteq Group
  /\ AutoClient \in Client
  /\ NoSecret \notin Secret
  /\ Config \subseteq ConfigType
  /\ \A c \in Config : c.secret[AutoClient] # NoSecret
  /\ MaxTries \in Nat \ {0}
  /\ MaxOutages \in Nat /\ MaxCrashes \in Nat /\ MaxUpgrades \in Nat

VARIABLES
  \* the UAA
  up,        \* does it answer?
  zone,      \* does the identity zone exist?
  groups,    \* the groups of the zone
  clients,   \* per client id, its record
  user,      \* does the administrator exist?
  admins,    \* the groups the administrator is a member of
  others,    \* the groups that have some other member
  \* the deployment
  config,    \* the configuration rendered into the script
  outages, crashes, upgrades,
  killed,    \* history: the pods that were killed in the script
  \* the pods
  pc,        \* where each one is in the script
  todo,      \* what its present "each do" loop has left
  tries,     \* i, the counter of its present retry loop
  userId     \* is its user_id a non-empty string?

uaa == <<zone, groups, clients, user, admins>>
env == <<up, others, config, outages, crashes, upgrades, killed>>
run == <<pc, todo, tries, userId>>
vars == <<uaa, env, run>>

Absent == [exists |-> FALSE, secret |-> NoSecret, scope |-> 0]
ClientRecord ==
  [exists : BOOLEAN, secret : Secret \cup {NoSecret}, scope : Nat]

Label ==
  {"idle", "waitRoot", "target", "zoneCheck", "zoneCreate",
   "groups", "groupAdd", "clients", "clientAdd", "clientSecret",
   "waitZone", "login", "userCheck", "userAdd",
   "authorities", "authId", "authGroup", "authGroupAdd", "authName",
   "authValue", "memberAdd", "done", "failed"}

TypeOK ==
  /\ up \in BOOLEAN /\ zone \in BOOLEAN /\ user \in BOOLEAN
  /\ groups \in SUBSET Group
  /\ clients \in [Client -> ClientRecord]
  /\ admins \in SUBSET Group /\ others \in SUBSET Group
  /\ config \in Config
  /\ outages \in Nat /\ crashes \in Nat /\ upgrades \in Nat
  /\ killed \in SUBSET Run
  /\ pc \in [Run -> Label]
  /\ todo \in [Run -> SUBSET (Group \cup Client)]
  /\ tries \in [Run -> 0 .. MaxTries - 1]
  /\ userId \in [Run -> BOOLEAN]

Init ==
  /\ up \in BOOLEAN
  /\ zone = FALSE /\ groups = {} /\ user = FALSE /\ admins = {} /\ others = {}
  /\ clients = [c \in Client |-> Absent]
  /\ config \in Config
  /\ outages = 0 /\ crashes = 0 /\ upgrades = 0 /\ killed = {}
  /\ pc = [r \in Run |-> "idle"]
  /\ todo = [r \in Run |-> {}]
  /\ tries = [r \in Run |-> 0]
  /\ userId = [r \in Run |-> FALSE]

-----------------------------------------------------------------------------
(* Control flow of one script.                                             *)

At(r, label) == pc[r] = label

Goto(r, label) ==
  /\ pc' = [pc EXCEPT ![r] = label]
  /\ UNCHANGED <<todo, tries, userId>>

\* Enter a loop over the set S.
Loop(r, label, S) ==
  /\ pc' = [pc EXCEPT ![r] = label]
  /\ todo' = [todo EXCEPT ![r] = S]
  /\ UNCHANGED <<tries, userId>>

\* The loop's present item.
Item(r) == CHOOSE x \in todo[r] : TRUE

\* Go back to the loop's head with the next item.
NextItem(r, label) ==
  /\ pc' = [pc EXCEPT ![r] = label]
  /\ todo' = [todo EXCEPT ![r] = @ \ {Item(r)}]
  /\ userId' = [userId EXCEPT ![r] = FALSE]
  /\ UNCHANGED tries

\* A command outside a condition fails: errexit ends the script.
Abort(r) ==
  /\ pc' = [pc EXCEPT ![r] = "failed"]
  /\ todo' = [todo EXCEPT ![r] = {}]
  /\ userId' = [userId EXCEPT ![r] = FALSE]
  /\ UNCHANGED tries

\* Variant: the counter is compared before it is advanced.
RetryOnceMore(r, label, answered, next) ==
  /\ At(r, label)
  /\ IF answered \/ tries[r] = MaxTries
       THEN /\ pc' = [pc EXCEPT ![r] = next]
            /\ tries' = [tries EXCEPT ![r] = 0]
       ELSE /\ tries' = [tries EXCEPT ![r] = @ + 1]
            /\ UNCHANGED pc
  /\ UNCHANGED <<todo, userId, uaa, env>>

\* One round of "retry MaxTries 5s curl ...".  The loop is also left when
\* the tries are used up, with the status of its last command: success.
Retry(r, label, answered, next) ==
  /\ At(r, label)
  /\ IF answered \/ tries[r] + 1 = MaxTries
       THEN /\ pc' = [pc EXCEPT ![r] = next]
            /\ tries' = [tries EXCEPT ![r] = 0]
       ELSE /\ tries' = [tries EXCEPT ![r] = @ + 1]
            /\ UNCHANGED pc
  /\ UNCHANGED <<todo, userId, uaa, env>>

-----------------------------------------------------------------------------
(* The script, from top to bottom.                                         *)

Start(r) ==
  /\ pc[r] \in {"idle", "failed"}
  /\ Loop(r, "waitRoot", {})
  /\ UNCHANGED <<uaa, env>>

WaitRoot(r) == Retry(r, "waitRoot", up, "target")

\* uaac target; uaac token client get default_zone_admin
Target(r) ==
  /\ At(r, "target")
  /\ IF up THEN Goto(r, "zoneCheck") ELSE Abort(r)
  /\ UNCHANGED <<uaa, env>>

\* Only a response with a 404 in it makes the script create the zone: when
\* the call fails the zone is taken to exist.
ZoneCheck(r) ==
  /\ At(r, "zoneCheck")
  /\ IF up /\ ~zone THEN Goto(r, "zoneCreate")
                    ELSE Loop(r, "groups", config.groups)
  /\ UNCHANGED <<uaa, env>>

\* "uaac curl" succeeds whatever the HTTP status: a zone that another pod
\* created meanwhile (a conflict) stays as it is.
ZoneCreate(r) ==
  /\ At(r, "zoneCreate")
  /\ IF up
       THEN /\ zone' = TRUE
            /\ groups' = IF zone THEN groups ELSE groups \cup DefaultGroups
            /\ Loop(r, "groups", config.groups)
       ELSE /\ Abort(r)
            /\ UNCHANGED <<zone, groups>>
  /\ UNCHANGED <<clients, user, admins, env>>

\* Variant: every group is added without looking.
GroupAddAlways(r) ==
  /\ At(r, "groups")
  /\ IF todo[r] = {} THEN Loop(r, "clients", Client) ELSE Goto(r, "groupAdd")
  /\ UNCHANGED <<uaa, env>>

\* if ! uaac group get: a failed call looks like a missing group.
GroupCheck(r) ==
  /\ At(r, "groups")
  /\ IF todo[r] = {} THEN Loop(r, "clients", Client)
     ELSE IF up /\ zone /\ Item(r) \in groups THEN NextItem(r, "groups")
     ELSE Goto(r, "groupAdd")
  /\ UNCHANGED <<uaa, env>>

\* Variant: a failing add does not stop the script.
AddGroupUnchecked(r, next) ==
  /\ groups' = IF up /\ zone THEN groups \cup {Item(r)} ELSE groups
  /\ next

\* uaac group add: fails when the group exists.
AddGroup(r, next) ==
  IF up /\ zone /\ Item(r) \notin groups
    THEN groups' = groups \cup {Item(r)} /\ next
    ELSE UNCHANGED groups /\ Abort(r)

GroupAdd(r) ==
  /\ At(r, "groupAdd")
  /\ AddGroup(r, NextItem(r, "groups"))
  /\ UNCHANGED <<zone, clients, user, admins, env>>

ClientCheck(r) ==
  /\ At(r, "clients")
  /\ IF todo[r] = {} THEN Goto(r, "waitZone")
     ELSE IF up /\ zone /\ clients[Item(r)].exists THEN Goto(r, "clientSecret")
     ELSE Goto(r, "clientAdd")
  /\ UNCHANGED <<uaa, env>>

\* Variant: adding a client replaces one that exists.
ClientReplace(r) ==
  /\ At(r, "clientAdd")
  /\ IF up /\ zone
       THEN /\ clients' = [clients EXCEPT ![Item(r)] =
                 [exists |-> TRUE, secret |-> config.secret[Item(r)],
                  scope |-> config.scope]]
            /\ Goto(r, "clientSecret")
       ELSE /\ Abort(r)
            /\ UNCHANGED clients
  /\ UNCHANGED <<zone, groups, user, admins, env>>

\* uaac client add, with all that is configured for the client.
ClientAdd(r) ==
  /\ At(r, "clientAdd")
  /\ IF up /\ zone /\ ~clients[Item(r)].exists
       THEN /\ clients' = [clients EXCEPT ![Item(r)] =
                 [exists |-> TRUE, secret |-> config.secret[Item(r)],
                  scope |-> config.scope]]
            /\ Goto(r, "clientSecret")
       ELSE /\ Abort(r)
            /\ UNCHANGED clients
  /\ UNCHANGED <<zone, groups, user, admins, env>>

\* The secret is set again for new and old clients; nothing else is.
ClientSecret(r) ==
  /\ At(r, "clientSecret")
  /\ IF config.secret[Item(r)] = NoSecret
       THEN NextItem(r, "clients") /\ UNCHANGED clients
     ELSE IF up /\ zone /\ clients[Item(r)].exists
       THEN /\ clients' = [clients EXCEPT
                             ![Item(r)].secret = config.secret[Item(r)]]
            /\ NextItem(r, "clients")
     ELSE Abort(r) /\ UNCHANGED clients
  /\ UNCHANGED <<zone, groups, user, admins, env>>

\* The zone's own URL is only served once the zone exists.
WaitZone(r) == Retry(r, "waitZone", up /\ zone, "login")

\* uaac target; uaac token client get scf_auto_config
Login(r) ==
  /\ At(r, "login")
  /\ IF up /\ zone /\ clients[AutoClient].exists
        /\ clients[AutoClient].secret = config.secret[AutoClient]
       THEN Goto(r, "userCheck") ELSE Abort(r)
  /\ UNCHANGED <<uaa, env>>

UserCheck(r) ==
  /\ At(r, "userCheck")
  /\ IF up /\ user THEN Loop(r, "authorities", config.authorities)
                   ELSE Goto(r, "userAdd")
  /\ UNCHANGED <<uaa, env>>

UserAdd(r) ==
  /\ At(r, "userAdd")
  /\ IF up /\ ~user
       THEN /\ user' = TRUE
            /\ admins' = admins \cup DefaultGroups
            /\ Loop(r, "authorities", config.authorities)
       ELSE Abort(r) /\ UNCHANGED <<user, admins>>
  /\ UNCHANGED <<zone, groups, clients, env>>

\* if uaac user get -a groups | grep: a failed call is "not in the group".
AuthorityCheck(r) ==
  /\ At(r, "authorities")
  /\ IF todo[r] = {} THEN Goto(r, "done")
     ELSE IF up /\ Item(r) \in admins THEN NextItem(r, "authorities")
     ELSE Goto(r, "authId")
  /\ UNCHANGED <<uaa, env>>

\* user_id=$(uaac user get | awk): without pipefail a failed call leaves
\* user_id empty and the script goes on.
AuthorityUserId(r) ==
  /\ At(r, "authId")
  /\ pc' = [pc EXCEPT ![r] = "authGroup"]
  /\ userId' = [userId EXCEPT ![r] = up /\ user]
  /\ UNCHANGED <<todo, tries, uaa, env>>

AuthorityGroup(r) ==
  /\ At(r, "authGroup")
  /\ IF up /\ Item(r) \in groups THEN Goto(r, "authName")
                                 ELSE Goto(r, "authGroupAdd")
  /\ UNCHANGED <<uaa, env>>

AuthorityGroupAdd(r) ==
  /\ At(r, "authGroupAdd")
  /\ AddGroup(r, Goto(r, "authName"))
  /\ UNCHANGED <<zone, clients, user, admins, env>>

\* The group is searched for the administrator by name (the listing need
\* not show names) ...
AuthorityName(r) ==
  /\ At(r, "authName")
  /\ \/ /\ up /\ Item(r) \in admins
        /\ NextItem(r, "authorities")
     \/ Goto(r, "authValue")
  /\ UNCHANGED <<uaa, env>>

\* Variant: any member of the group is taken for the administrator.
AnyIdFound(r) == up /\ Item(r) \in admins \cup others

\* ... and by id.  An empty user_id is found in a group with any member.
IdFound(r) ==
  /\ up
  /\ IF userId[r] THEN Item(r) \in admins
                  ELSE Item(r) \in admins \cup others

AuthorityValue(r) ==
  /\ At(r, "authValue")
  /\ IF IdFound(r) THEN NextItem(r, "authorities") ELSE Goto(r, "memberAdd")
  /\ UNCHANGED <<uaa, env>>

MemberAdd(r) ==
  /\ At(r, "memberAdd")
  /\ IF up /\ user /\ Item(r) \in groups \ admins
       THEN admins' = admins \cup {Item(r)} /\ NextItem(r, "authorities")
       ELSE UNCHANGED admins /\ Abort(r)
  /\ UNCHANGED <<zone, groups, clients, user, env>>

Script(r) ==
  \/ Start(r) \/ WaitRoot(r) \/ Target(r) \/ ZoneCheck(r) \/ ZoneCreate(r)
  \/ GroupCheck(r) \/ GroupAdd(r)
  \/ ClientCheck(r) \/ ClientAdd(r) \/ ClientSecret(r)
  \/ WaitZone(r) \/ Login(r) \/ UserCheck(r) \/ UserAdd(r)
  \/ AuthorityCheck(r) \/ AuthorityUserId(r) \/ AuthorityGroup(r)
  \/ AuthorityGroupAdd(r) \/ AuthorityName(r) \/ AuthorityValue(r)
  \/ MemberAdd(r)

-----------------------------------------------------------------------------
(* The surroundings.                                                       *)

Outage ==
  /\ up /\ outages < MaxOutages
  /\ up' = FALSE /\ outages' = outages + 1
  /\ UNCHANGED <<uaa, others, config, crashes, upgrades, killed, run>>

Recover ==
  /\ ~up
  /\ up' = TRUE
  /\ UNCHANGED <<uaa, others, config, outages, crashes, upgrades, killed, run>>

\* An operator puts some other user into a group.
OtherJoins(g) ==
  /\ up /\ g \in groups \ others
  /\ others' = others \cup {g}
  /\ UNCHANGED <<uaa, up, config, outages, crashes, upgrades, killed, run>>

Forget(S) ==
  /\ pc' = [r \in Run |-> IF r \in S THEN "idle" ELSE pc[r]]
  /\ todo' = [r \in Run |-> IF r \in S THEN {} ELSE todo[r]]
  /\ tries' = [r \in Run |-> IF r \in S THEN 0 ELSE tries[r]]
  /\ userId' = [r \in Run |-> IF r \in S THEN FALSE ELSE userId[r]]

\* A pod is killed in the middle of the script.
Crash(r) ==
  /\ pc[r] \notin {"idle", "done"} /\ crashes < MaxCrashes
  /\ crashes' = crashes + 1 /\ killed' = killed \cup {r}
  /\ Forget({r})
  /\ UNCHANGED <<uaa, up, others, config, outages, upgrades>>

\* An upgrade replaces the job: its pods go, and new ones run the script
\* rendered from the new configuration.
Upgrade(c) ==
  /\ upgrades < MaxUpgrades /\ c # config
  /\ config' = c /\ upgrades' = upgrades + 1
  /\ Forget(Run)
  /\ UNCHANGED <<uaa, up, others, outages, crashes, killed>>

Next ==
  \/ \E r \in Run : Script(r) \/ Crash(r)
  \/ Outage \/ Recover
  \/ \E g \in Group : OtherJoins(g)
  \/ \E c \in Config : Upgrade(c)

\* Kubernetes runs a pod's script on and restarts a failed one; the UAA comes
\* back.  Nothing is assumed of outages, crashes and upgrades but their bounds.
Fairness == WF_vars(Recover) /\ \A r \in Run : WF_vars(Script(r))

Spec == Init /\ [][Next]_vars
FairSpec == Spec /\ Fairness

-----------------------------------------------------------------------------
(* Properties.                                                             *)

\* All that the configuration asks for, the memberships aside, is there.
Provisioned ==
  /\ zone /\ user
  /\ config.groups \subseteq groups
  /\ \A c \in Client :
       /\ clients[c].exists
       /\ config.secret[c] # NoSecret => clients[c].secret = config.secret[c]

\* The script ends well only in a provisioned UAA, whichever calls failed,
\* whoever was killed and however often it ran.  In the code: checks under
\* "if" may go wrong, and errexit stops the script where that would matter.
DoneProvisioned == \A r \in Run : At(r, "done") => Provisioned

\* When the script has ended well the administrator has every authority.  In
\* the code: CLUSTER_ADMIN_AUTHORITIES, "the Oauth2 authorities available to
\* the cluster administrator".
AdminHasAuthorities ==
  \A r \in Run : At(r, "done") => config.authorities \subseteq admins

\* As long as no call of the UAA failed the administrator does have them, even
\* if pods were killed, doubled and upgraded.  In the code: errexit and the
\* checks of each group before it is created or joined.
AuthoritiesUnlessOutage == outages = 0 => AdminHasAuthorities

\* As long as the UAA has never gone away a script fails only because another
\* pod runs the same one, or was killed in it: whatever its own former tries,
\* kills and revisions have left, a pod that is alone looks before it creates
\* and gets through.  In the code: the checks under "if" before each "add".
FailsByRace ==
  [][\A r \in Run :
       pc[r] # "failed" /\ pc'[r] = "failed" /\ up /\ outages = 0 =>
         \E q \in Run \ {r} : pc[q] # "idle" \/ q \in killed]_vars

\* Some pod ends well in the end: the script can be re-run from any point a
\* former run stopped at, and two pods do not keep stopping each other.
EventuallyDone == <>[](\E r \in Run : At(r, "done"))
=============================================================================
