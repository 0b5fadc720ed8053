------------------------- MODULE UaaCreateUserProofs -------------------------
(***************************************************************************)
(* Type correctness of the uaa-create-user job, and that it ends well only *)
(* in a provisioned UAA, for any number of pods, groups, clients and       *)
(* configurations and any bounds; and that the administrator has every     *)
(* authority then, as long as the UAA never goes away.                     *)
(***************************************************************************)
EXTENDS UaaCreateUser, TLAPS

AuthorityItemLabels ==
  {"authId", "authGroup", "authGroupAdd", "authName", "authValue", "memberAdd"}
AuthorityLabels == AuthorityItemLabels \cup {"authorities"}
GroupLabels == {"groups", "groupAdd"} \cup AuthorityLabels
ClientLabels == {"clients", "clientAdd", "clientSecret"}
ItemLabels == {"groupAdd", "clientAdd", "clientSecret"} \cup AuthorityItemLabels

\* What a loop has left is of the loop's kind, and its body has an item.
LoopAt(label, S) ==
  /\ label \in GroupLabels  => S \subseteq Group
  /\ label \in ClientLabels => S \subseteq Client
  /\ label \in ItemLabels   => S # {}

RunOK ==
  /\ pc \in [Run -> Label]
  /\ todo \in [Run -> SUBSET (Group \cup Client)]
  /\ tries \in [Run -> 0 .. MaxTries - 1]
  /\ userId \in [Run -> BOOLEAN]
  /\ \A r \in Run : LoopAt(pc[r], todo[r])

UaaOK ==
  /\ zone \in BOOLEAN /\ user \in BOOLEAN
  /\ groups \in SUBSET Group /\ admins \in SUBSET Group
  /\ clients \in [Client -> ClientRecord]

EnvOK ==
  /\ up \in BOOLEAN /\ others \in SUBSET Group /\ config \in Config
  /\ outages \in Nat /\ crashes \in Nat /\ upgrades \in Nat
  /\ killed \in SUBSET Run

TypeInv == UaaOK /\ EnvOK /\ RunOK

-----------------------------------------------------------------------------
(* How the control-flow operators keep the state of the pods in shape.     *)

\* The strengthening has the type invariant in it.
LEMMA TypeInvTypeOK == TypeInv => TypeOK
  BY DEF TypeInv, TypeOK, UaaOK, EnvOK, RunOK

\* The present item of a loop is one of those it has left.
LEMMA ItemInTodo ==
  ASSUME NEW r \in Run, todo[r] # {}
  PROVE  Item(r) \in todo[r]
  BY DEF Item

\* What the labels ask of the set that is left.
LEMMA LabelFacts ==
  /\ \A S : \A label \in {"idle", "waitRoot", "target", "zoneCheck", "zoneCreate",
         "waitZone", "login", "userCheck", "userAdd", "done", "failed"} :
       LoopAt(label, S) /\ label \in Label
  /\ \A S : \A label \in {"groups", "authorities"} :
       (LoopAt(label, S) <=> S \subseteq Group) /\ label \in Label
  /\ \A S : \A label \in {"groupAdd", "authId", "authGroup", "authGroupAdd",
         "authName", "authValue", "memberAdd"} :
       (LoopAt(label, S) <=> S \subseteq Group /\ S # {}) /\ label \in Label
  /\ \A S : (LoopAt("clients", S) <=> S \subseteq Client) /\ "clients" \in Label
  /\ \A S : \A label \in {"clientAdd", "clientSecret"} :
       (LoopAt(label, S) <=> S \subseteq Client /\ S # {}) /\ label \in Label
  BY DEF LoopAt, GroupLabels, ClientLabels, ItemLabels, AuthorityLabels,
         AuthorityItemLabels, Label

\* Each of the control operators keeps a run's part: going on ...
LEMMA GotoOK ==
  ASSUME RunOK, NEW r \in Run, NEW label \in Label, Goto(r, label), LoopAt(label, todo[r])
  PROVE  RunOK'
  BY DEF RunOK, Goto, LoopAt

\* ... entering a loop ...
LEMMA LoopStepOK ==
  ASSUME RunOK, NEW r \in Run, NEW label \in Label, NEW S \in SUBSET (Group \cup Client),
         Loop(r, label, S), LoopAt(label, S)
  PROVE  RunOK'
  BY DEF RunOK, Loop, LoopAt

\* ... taking its next item ...
LEMMA NextItemOK ==
  ASSUME RunOK, NEW r \in Run, NEW label \in {"groups", "clients", "authorities"},
         NextItem(r, label), LoopAt(label, todo[r])
  PROVE  RunOK'
<1>1. LoopAt(label, todo[r] \ {Item(r)}) /\ label \in Label
  BY LabelFacts
<1> QED
  BY <1>1 DEF RunOK, NextItem, LoopAt

\* ... the end under errexit ...
LEMMA AbortOK ==
  ASSUME RunOK, NEW r \in Run, Abort(r)
  PROVE  RunOK'
<1>1. LoopAt("failed", {}) /\ "failed" \in Label
  BY DEF LoopAt, GroupLabels, ClientLabels, ItemLabels, AuthorityLabels,
         AuthorityItemLabels, Label
<1> QED
  BY <1>1 DEF RunOK, Abort, LoopAt

\* ... a round of a retry loop ...
LEMMA RetryOK ==
  ASSUME RunOK, NEW r \in Run, NEW label \in Label, NEW next \in Label, NEW answered,
         Retry(r, label, answered, next), LoopAt(next, todo[r])
  PROVE  RunOK'
  BY ConstantsAssumption DEF RunOK, Retry, At, LoopAt

\* ... and the end of pods.
LEMMA ForgetOK ==
  ASSUME RunOK, NEW S \in SUBSET Run, Forget(S)
  PROVE  RunOK'
<1>1. LoopAt("idle", {}) /\ "idle" \in Label
  BY DEF LoopAt, GroupLabels, ClientLabels, ItemLabels, AuthorityLabels,
         AuthorityItemLabels, Label
<1>2. 0 \in 0 .. MaxTries - 1
  BY ConstantsAssumption
<1> QED
  BY <1>1, <1>2 DEF RunOK, Forget, LoopAt

-----------------------------------------------------------------------------
\* A step of the script keeps the state of the pods in shape ...
LEMMA ScriptRunOK ==
  ASSUME TypeInv, NEW r \in Run, Script(r)
  PROVE  RunOK'
<1> USE DEF At
<1>1. /\ RunOK
      /\ pc[r] \in Label /\ LoopAt(pc[r], todo[r])
      /\ todo[r] \in SUBSET (Group \cup Client)
  BY DEF TypeInv, RunOK
<1>2. config \in ConfigType
  BY ConstantsAssumption DEF TypeInv, EnvOK
<1>3. CASE Start(r)
  BY <1>1, <1>2, <1>3, LabelFacts, LoopStepOK DEF Start
<1>4. CASE WaitRoot(r)
  <2>1. At(r, "waitRoot")
    BY <1>4 DEF WaitRoot, Retry
  <2> QED
    BY <1>1, <1>4, <2>1, LabelFacts, RetryOK DEF WaitRoot
<1>5. CASE Target(r)
  BY <1>1, <1>2, <1>5, LabelFacts, GotoOK, AbortOK DEF Target
<1>6. CASE ZoneCheck(r)
  BY <1>1, <1>2, <1>6, LabelFacts, GotoOK, LoopStepOK DEF ZoneCheck, ConfigType
<1>7. CASE ZoneCreate(r)
  BY <1>1, <1>2, <1>7, LabelFacts, LoopStepOK, AbortOK DEF ZoneCreate, ConfigType
<1>8. CASE GroupCheck(r)
  BY <1>1, <1>2, <1>8, LabelFacts, GotoOK, LoopStepOK, NextItemOK DEF GroupCheck
<1>9. CASE GroupAdd(r)
  BY <1>1, <1>2, <1>9, LabelFacts, NextItemOK, AbortOK DEF GroupAdd, AddGroup
<1>10. CASE ClientCheck(r)
  BY <1>1, <1>2, <1>10, LabelFacts, GotoOK DEF ClientCheck
<1>11. CASE ClientAdd(r)
  BY <1>1, <1>2, <1>11, LabelFacts, GotoOK, AbortOK DEF ClientAdd
<1>12. CASE ClientSecret(r)
  BY <1>1, <1>2, <1>12, LabelFacts, NextItemOK, AbortOK DEF ClientSecret
<1>13. CASE WaitZone(r)
  <2>1. At(r, "waitZone")
    BY <1>13 DEF WaitZone, Retry
  <2> QED
    BY <1>1, <1>13, <2>1, LabelFacts, RetryOK DEF WaitZone
<1>14. CASE Login(r)
  BY <1>1, <1>2, <1>14, LabelFacts, GotoOK, AbortOK DEF Login
<1>15. CASE UserCheck(r)
  BY <1>1, <1>2, <1>15, LabelFacts, GotoOK, LoopStepOK DEF UserCheck, ConfigType
<1>16. CASE UserAdd(r)
  BY <1>1, <1>2, <1>16, LabelFacts, LoopStepOK, AbortOK DEF UserAdd, ConfigType
<1>17. CASE AuthorityCheck(r)
  BY <1>1, <1>2, <1>17, LabelFacts, GotoOK, NextItemOK DEF AuthorityCheck
<1>18. CASE AuthorityGroup(r)
  BY <1>1, <1>2, <1>18, LabelFacts, GotoOK DEF AuthorityGroup
<1>19. CASE AuthorityGroupAdd(r)
  BY <1>1, <1>2, <1>19, LabelFacts, GotoOK, AbortOK DEF AuthorityGroupAdd, AddGroup
<1>20. CASE AuthorityName(r)
  BY <1>1, <1>2, <1>20, LabelFacts, GotoOK, NextItemOK DEF AuthorityName
<1>21. CASE AuthorityValue(r)
  BY <1>1, <1>2, <1>21, LabelFacts, GotoOK, NextItemOK DEF AuthorityValue
<1>22. CASE MemberAdd(r)
  BY <1>1, <1>2, <1>22, LabelFacts, NextItemOK, AbortOK DEF MemberAdd
<1>23. CASE AuthorityUserId(r)
  BY <1>1, <1>23, LabelFacts DEF AuthorityUserId, TypeInv, EnvOK, UaaOK, RunOK
<1> QED
  BY <1>3, <1>4, <1>5, <1>6, <1>7, <1>8, <1>9, <1>10, <1>11, <1>12, <1>13, <1>14, <1>15, <1>16, <1>17, <1>18, <1>19, <1>20, <1>21, <1>22, <1>23 DEF Script

\* ... and the UAA and its surroundings.
LEMMA ScriptTypes ==
  ASSUME TypeInv, NEW r \in Run, Script(r)
  PROVE  (UaaOK /\ EnvOK)'
<1> USE DEF At, uaa, env
<1>1. /\ RunOK /\ UaaOK /\ EnvOK
      /\ pc[r] \in Label /\ LoopAt(pc[r], todo[r])
      /\ todo[r] # {} => Item(r) \in todo[r]
  BY ItemInTodo DEF TypeInv, RunOK
<1>2. config \in ConfigType
  BY ConstantsAssumption DEF TypeInv, EnvOK
<1>3. ASSUME UNCHANGED <<uaa, env>> PROVE (UaaOK /\ EnvOK)'
  BY <1>1, <1>3 DEF UaaOK, EnvOK
<1>4. CASE \/ Start(r) \/ WaitRoot(r) \/ Target(r) \/ ZoneCheck(r) \/ GroupCheck(r)
           \/ ClientCheck(r) \/ WaitZone(r) \/ Login(r) \/ UserCheck(r)
           \/ AuthorityCheck(r) \/ AuthorityUserId(r) \/ AuthorityGroup(r)
           \/ AuthorityName(r) \/ AuthorityValue(r)
  BY <1>3, <1>4 DEF Start, WaitRoot, Target, ZoneCheck, GroupCheck, ClientCheck,
       WaitZone, Login, UserCheck, AuthorityCheck, AuthorityUserId, AuthorityGroup,
       AuthorityName, AuthorityValue, Retry
<1>5. CASE ZoneCreate(r)
  BY <1>1, <1>5, ConstantsAssumption DEF ZoneCreate, UaaOK, EnvOK
<1>6. CASE GroupAdd(r) \/ AuthorityGroupAdd(r)
  <2>1. Item(r) \in Group
    BY <1>1, <1>6, LabelFacts DEF GroupAdd, AuthorityGroupAdd
  <2> QED
    BY <1>1, <1>6, <2>1 DEF GroupAdd, AuthorityGroupAdd, AddGroup, UaaOK, EnvOK
<1>7. CASE ClientAdd(r)
  <2>1. Item(r) \in Client
    BY <1>1, <1>7, LabelFacts DEF ClientAdd
  <2>2. [exists |-> TRUE, secret |-> config.secret[Item(r)], scope |-> config.scope]
          \in ClientRecord
    BY <1>2, <2>1 DEF ClientRecord, ConfigType
  <2> QED
    BY <1>1, <1>7, <2>2 DEF ClientAdd, UaaOK, EnvOK
<1>8. CASE ClientSecret(r)
  <2>1. Item(r) \in Client
    BY <1>1, <1>8, LabelFacts DEF ClientSecret
  <2>2. clients' \in [Client -> ClientRecord]
    BY <1>1, <1>2, <1>8, <2>1 DEF ClientSecret, UaaOK, ClientRecord, ConfigType
  <2> QED
    BY <1>1, <1>8, <2>2 DEF ClientSecret, UaaOK, EnvOK
<1>9. CASE UserAdd(r)
  BY <1>1, <1>9, ConstantsAssumption DEF UserAdd, UaaOK, EnvOK
<1>10. CASE MemberAdd(r)
  BY <1>1, <1>10 DEF MemberAdd, UaaOK, EnvOK
<1> QED
  BY <1>4, <1>5, <1>6, <1>7, <1>8, <1>9, <1>10 DEF Script

\* Nothing has been done at first.
LEMMA TypeInit == Init => TypeInv
<1> SUFFICES ASSUME Init PROVE TypeInv
  OBVIOUS
<1>1. UaaOK /\ EnvOK
  BY DEF Init, UaaOK, EnvOK, ClientRecord, Absent
<1>2. RunOK
  BY LabelFacts, ConstantsAssumption DEF Init, RunOK
<1> QED
  BY <1>1, <1>2 DEF TypeInv

\* Every step keeps the types ...
LEMMA TypeStep == TypeInv /\ [Next]_vars => TypeInv'
<1> SUFFICES ASSUME TypeInv, [Next]_vars PROVE TypeInv'
  OBVIOUS
<1> USE DEF TypeInv
<1>1. ASSUME NEW r \in Run, Script(r) PROVE TypeInv'
  BY <1>1, ScriptRunOK, ScriptTypes
<1>2. ASSUME UNCHANGED run PROVE RunOK'
  BY <1>2 DEF run, RunOK
<1>3. ASSUME NEW r \in Run, Crash(r) PROVE TypeInv'
  <2>1. {r} \in SUBSET Run
    OBVIOUS
  <2> QED
    BY <1>3, <2>1, ForgetOK DEF Crash, uaa, UaaOK, EnvOK
<1>4. CASE Outage \/ Recover
  <2>1. UNCHANGED run
    BY <1>4 DEF Outage, Recover
  <2>2. UNCHANGED <<uaa, others, config, crashes, upgrades, killed>> /\ up' \in BOOLEAN
    BY <1>4 DEF Outage, Recover
  <2>3. outages' \in Nat
    BY <1>4 DEF Outage, Recover, EnvOK
  <2> QED
    BY <1>2, <2>1, <2>2, <2>3 DEF uaa, UaaOK, EnvOK
<1>5. ASSUME NEW g \in Group, OtherJoins(g) PROVE TypeInv'
  BY <1>2, <1>5 DEF OtherJoins, uaa, UaaOK, EnvOK
<1>6. ASSUME NEW c \in Config, Upgrade(c) PROVE TypeInv'
  BY <1>6, ForgetOK DEF Upgrade, uaa, UaaOK, EnvOK
<1>7. CASE UNCHANGED vars
  BY <1>2, <1>7 DEF vars, uaa, env, UaaOK, EnvOK
<1> QED
  BY <1>1, <1>3, <1>4, <1>5, <1>6, <1>7 DEF Next

\* The loops of the script hand groups to the group calls and clients to the
\* client calls, and every variable keeps its type.
LEMMA TypeInvariant == Spec => []TypeInv
  BY TypeInit, TypeStep, PTL DEF Spec

\* Every variable of the uaa-create-user job keeps its type.
THEOREM TypeCorrect == Spec => []TypeOK
  BY TypeInvariant, TypeInvTypeOK, PTL

-----------------------------------------------------------------------------
(* A pod that is past a phase has left nothing of it undone.               *)

UserDone   == AuthorityLabels \cup {"done"}
LoginDone  == {"userCheck", "userAdd"} \cup UserDone
ClientDone == {"waitZone", "login"} \cup LoginDone
GroupDone  == ClientLabels \cup ClientDone

ClientRight(c) ==
  /\ clients[c].exists
  /\ config.secret[c] # NoSecret => clients[c].secret = config.secret[c]

\* What a pod at this label, with this left of its loop, has seen to.
ProgressAt(label, S) ==
  /\ label \in {"groups", "groupAdd"} => config.groups \ S \subseteq groups
  /\ label \in GroupDone    => config.groups \subseteq groups
  /\ label \in ClientLabels => \A c \in Client \ S : ClientRight(c)
  /\ label \in ClientDone   => \A c \in Client : ClientRight(c)
  /\ label \in LoginDone    => zone
  /\ label \in UserDone     => user

\* At clientSecret the client exists: it was seen, or has just been added.
ExistsAt(r) == pc[r] = "clientSecret" => clients[Item(r)].exists

IInv == \A r \in Run : ProgressAt(pc[r], todo[r]) /\ ExistsAt(r)

\* What is provided stays provided: no step of any pod takes it away.
Kept ==
  /\ config' = config
  /\ groups \subseteq groups'
  /\ zone => zone'
  /\ user => user'
  /\ \A c \in Client : clients[c].exists => clients'[c].exists
  /\ \A c \in Client : ClientRight(c) => ClientRight(c)'

\* What a script has achieved lasts as long as nothing is taken away.
LEMMA ProgressKept ==
  ASSUME NEW label, NEW S, ProgressAt(label, S), Kept
  PROVE  ProgressAt(label, S)'
  BY DEF ProgressAt, Kept

\* No step of a script takes anything away.
LEMMA KeptByScript ==
  ASSUME TypeInv, NEW r \in Run, Script(r)
  PROVE  Kept
<1> USE DEF At, uaa, env
<1>1. /\ RunOK /\ UaaOK /\ EnvOK
      /\ pc[r] \in Label /\ LoopAt(pc[r], todo[r])
      /\ todo[r] # {} => Item(r) \in todo[r]
  BY ItemInTodo DEF TypeInv, RunOK
<1>2. config \in ConfigType
  BY ConstantsAssumption DEF TypeInv, EnvOK
<1>3. ASSUME UNCHANGED <<uaa, config>> PROVE Kept
  BY <1>3 DEF Kept, ClientRight
<1>4. CASE \/ Start(r) \/ WaitRoot(r) \/ Target(r) \/ ZoneCheck(r) \/ GroupCheck(r)
           \/ ClientCheck(r) \/ WaitZone(r) \/ Login(r) \/ UserCheck(r)
           \/ AuthorityCheck(r) \/ AuthorityUserId(r) \/ AuthorityGroup(r)
           \/ AuthorityName(r) \/ AuthorityValue(r)
  BY <1>3, <1>4 DEF Start, WaitRoot, Target, ZoneCheck, GroupCheck, ClientCheck,
       WaitZone, Login, UserCheck, AuthorityCheck, AuthorityUserId, AuthorityGroup,
       AuthorityName, AuthorityValue, Retry
<1>5. CASE ZoneCreate(r)
  BY <1>5 DEF ZoneCreate, Kept, ClientRight
<1>6. CASE GroupAdd(r) \/ AuthorityGroupAdd(r)
  BY <1>6 DEF GroupAdd, AuthorityGroupAdd, AddGroup, Kept, ClientRight
<1>7. CASE ClientAdd(r)
  <2>1. ASSUME NEW c \in Client, clients[c].exists PROVE clients'[c] = clients[c]
    BY <1>1, <1>7, <2>1 DEF ClientAdd, UaaOK
  <2> QED
    BY <1>7, <2>1 DEF ClientAdd, Kept, ClientRight
<1>8. CASE ClientSecret(r)
  <2>1. ASSUME NEW c \in Client
        PROVE  /\ clients'[c].exists = clients[c].exists
               /\ clients'[c].secret \in {clients[c].secret, config.secret[c]}
    BY <1>1, <1>8 DEF ClientSecret, UaaOK, ClientRecord
  <2> QED
    BY <1>8, <2>1 DEF ClientSecret, Kept, ClientRight
<1>9. CASE UserAdd(r)
  BY <1>9 DEF UserAdd, Kept, ClientRight
<1>10. CASE MemberAdd(r)
  BY <1>10 DEF MemberAdd, Kept, ClientRight
<1> QED
  BY <1>4, <1>5, <1>6, <1>7, <1>8, <1>9, <1>10 DEF Script

\* The pod that takes the step has seen to what its new label asks for.
LEMMA ProgressByScript ==
  ASSUME TypeInv, NEW r \in Run, Script(r), ProgressAt(pc[r], todo[r]), ExistsAt(r)
  PROVE  (ProgressAt(pc[r], todo[r]) /\ ExistsAt(r))'
<1> USE DEF At, ProgressAt, ExistsAt, GroupDone, ClientDone, LoginDone, UserDone,
            AuthorityLabels, AuthorityItemLabels, ClientLabels
<1>0. /\ RunOK /\ UaaOK /\ EnvOK /\ Kept
      /\ pc[r] \in Label /\ LoopAt(pc[r], todo[r])
      /\ todo[r] # {} => Item(r) \in todo[r]
  BY ItemInTodo, KeptByScript DEF TypeInv, RunOK
<1>1. /\ pc \in [Run -> Label]
      /\ todo \in [Run -> SUBSET (Group \cup Client)]
      /\ clients \in [Client -> ClientRecord]
  BY <1>0 DEF RunOK, UaaOK
<1>2. CASE Start(r)
  BY <1>0, <1>1, <1>2 DEF Start, Loop, Kept, uaa, env
<1>3. CASE WaitRoot(r)
  BY <1>0, <1>1, <1>3 DEF WaitRoot, Retry, Kept, uaa, env
<1>4. CASE Target(r)
  BY <1>0, <1>1, <1>4 DEF Target, Goto, Abort, Kept, uaa, env
<1>5. CASE ZoneCheck(r)
  BY <1>0, <1>1, <1>5 DEF ZoneCheck, Goto, Loop, Kept, uaa, env
<1>6. CASE ZoneCreate(r)
  BY <1>0, <1>1, <1>6 DEF ZoneCreate, Loop, Abort, Kept, uaa, env
<1>7. CASE GroupCheck(r)
  BY <1>0, <1>1, <1>7 DEF GroupCheck, Goto, Loop, NextItem, Kept, uaa, env
<1>8. CASE GroupAdd(r)
  BY <1>0, <1>1, <1>8 DEF GroupAdd, AddGroup, NextItem, Abort, Kept, uaa, env
<1>9. CASE ClientCheck(r)
  <2>1. todo' = todo /\ Item(r)' = Item(r) /\ UNCHANGED uaa
    BY <1>9 DEF ClientCheck, Goto, Item, uaa
  <2>2. CASE todo[r] = {}
    BY <1>0, <1>1, <1>9, <2>1, <2>2 DEF ClientCheck, Goto, Kept, uaa
  <2>3. CASE todo[r] # {}
    BY <1>0, <1>1, <1>9, <2>1, <2>3 DEF ClientCheck, Goto, Kept, uaa
  <2> QED
    BY <2>2, <2>3
<1>10. CASE ClientAdd(r)
  <2>1. Item(r) \in Client
    BY <1>0, <1>10, LabelFacts DEF ClientAdd
  <2>2. CASE Goto(r, "clientSecret") /\ clients' = [clients EXCEPT ![Item(r)] =
               [exists |-> TRUE, secret |-> config.secret[Item(r)],
                scope |-> config.scope]]
    <3>1. Item(r)' = Item(r)
      BY <2>2 DEF Goto, Item
    <3> QED
      BY <1>0, <1>1, <1>10, <2>1, <2>2, <3>1 DEF ClientAdd, Goto, Kept
  <2>3. CASE Abort(r)
    BY <1>1, <2>3 DEF Abort
  <2> QED
    BY <1>10, <2>2, <2>3 DEF ClientAdd
<1>11. CASE ClientSecret(r)
  <2>1. Item(r) \in Client
    BY <1>0, <1>11, LabelFacts DEF ClientSecret
  <2>2. CASE NextItem(r, "clients")
    <3>1. ASSUME NEW c \in Client, c = Item(r) PROVE ClientRight(c)'
      BY <1>0, <1>1, <1>11, <2>1, <2>2, <3>1 DEF ClientSecret, NextItem, Abort, ClientRight, Kept, ClientRecord
    <3>2. \A c \in Client \ todo'[r] : ClientRight(c)'
      BY <1>0, <1>1, <1>11, <2>2, <3>1 DEF ClientSecret, NextItem, Kept
    <3> QED
      BY <1>0, <1>1, <1>11, <2>2, <3>2 DEF ClientSecret, NextItem, Kept
  <2>3. CASE Abort(r)
    BY <1>1, <2>3 DEF Abort
  <2> QED
    BY <1>11, <2>2, <2>3 DEF ClientSecret
<1>12. CASE WaitZone(r)
  BY <1>0, <1>1, <1>12 DEF WaitZone, Retry, Kept, uaa, env
<1>13. CASE Login(r)
  BY <1>0, <1>1, <1>13 DEF Login, Goto, Abort, Kept, uaa, env
<1>14. CASE UserCheck(r)
  BY <1>0, <1>1, <1>14 DEF UserCheck, Goto, Loop, Kept, uaa, env
<1>15. CASE UserAdd(r)
  BY <1>0, <1>1, <1>15 DEF UserAdd, Loop, Abort, Kept, uaa, env
<1>16. CASE AuthorityCheck(r)
  BY <1>0, <1>1, <1>16 DEF AuthorityCheck, Goto, NextItem, Kept, uaa, env
<1>17. CASE AuthorityUserId(r)
  BY <1>0, <1>1, <1>17 DEF AuthorityUserId, Kept, uaa, env
<1>18. CASE AuthorityGroup(r)
  BY <1>0, <1>1, <1>18 DEF AuthorityGroup, Goto, Kept, uaa, env
<1>19. CASE AuthorityGroupAdd(r)
  BY <1>0, <1>1, <1>19 DEF AuthorityGroupAdd, AddGroup, Goto, Abort, Kept, uaa, env
<1>20. CASE AuthorityName(r)
  BY <1>0, <1>1, <1>20 DEF AuthorityName, Goto, NextItem, Kept, uaa, env
<1>21. CASE AuthorityValue(r)
  BY <1>0, <1>1, <1>21 DEF AuthorityValue, Goto, NextItem, Kept, uaa, env
<1>22. CASE MemberAdd(r)
  BY <1>0, <1>1, <1>22 DEF MemberAdd, NextItem, Abort, Kept, uaa, env
<1> QED
  BY <1>2, <1>3, <1>4, <1>5, <1>6, <1>7, <1>8, <1>9, <1>10, <1>11, <1>12, <1>13, <1>14, <1>15, <1>16, <1>17, <1>18, <1>19, <1>20, <1>21, <1>22 DEF Script

\* A client that a script has found does not go away.
LEMMA ExistsKept ==
  ASSUME TypeInv, Kept, NEW r \in Run, ExistsAt(r), UNCHANGED <<pc[r], todo[r]>>
  PROVE  ExistsAt(r)'
<1>1. CASE pc[r] = "clientSecret"
  <2>1. Item(r) \in Client /\ Item(r)' = Item(r)
    BY <1>1, ItemInTodo, LabelFacts DEF TypeInv, RunOK, Item
  <2> QED
    BY <1>1, <2>1 DEF ExistsAt, Kept
<1>2. CASE pc[r] # "clientSecret"
  BY <1>2 DEF ExistsAt
<1> QED
  BY <1>1, <1>2

\* Only the pod that takes a step changes its place in the script.
LEMMA OthersStay ==
  ASSUME TypeInv, NEW r \in Run, Script(r), NEW q \in Run, q # r
  PROVE  UNCHANGED <<pc[q], todo[q]>>
  BY DEF TypeInv, RunOK, Script, Start, WaitRoot, Target, ZoneCheck, ZoneCreate,
     GroupCheck, GroupAdd, AddGroup, ClientCheck, ClientAdd, ClientSecret, WaitZone,
     Login, UserCheck, UserAdd, AuthorityCheck, AuthorityUserId, AuthorityGroup,
     AuthorityGroupAdd, AuthorityName, AuthorityValue, MemberAdd, Retry, Goto, Loop,
     NextItem, Abort

\* A script that has not begun has achieved nothing, and owes nothing.
LEMMA ForgottenProgress ==
  ASSUME NEW S PROVE ProgressAt("idle", S)
  BY DEF ProgressAt, GroupDone, ClientDone, LoginDone, UserDone,
         AuthorityLabels, AuthorityItemLabels, ClientLabels

\* At its end a script has achieved all of it.
LEMMA DoneIsProvisioned == IInv => DoneProvisioned
  BY DEF IInv, ProgressAt, DoneProvisioned, Provisioned, At, ClientRight, GroupDone,
         ClientDone, LoginDone, UserDone

\* No pod has seen to anything at first.
LEMMA ProgressInit == Init => IInv
  BY DEF Init, IInv, ProgressAt, ExistsAt, GroupDone, ClientDone, LoginDone, UserDone,
         AuthorityLabels, AuthorityItemLabels, ClientLabels

\* Every step of a pod, and of its surroundings, keeps what pods have seen to.
LEMMA ProgressStep == TypeInv /\ IInv /\ [Next]_vars => IInv'
<1> SUFFICES ASSUME TypeInv, IInv, [Next]_vars PROVE IInv'
  OBVIOUS
<1>1. ASSUME NEW r \in Run, Script(r) PROVE IInv'
  <2> SUFFICES ASSUME NEW q \in Run PROVE (ProgressAt(pc[q], todo[q]) /\ ExistsAt(q))'
    BY DEF IInv
  <2>1. CASE q = r
    BY <1>1, <2>1, ProgressByScript DEF IInv
  <2>2. CASE q # r
    <3>1. Kept /\ UNCHANGED <<pc[q], todo[q]>>
      BY <1>1, <2>2, KeptByScript, OthersStay
    <3>2. ProgressAt(pc[q], todo[q])'
      BY <3>1 DEF IInv, ProgressAt, Kept
    <3> QED
      BY <3>1, <3>2, ExistsKept DEF IInv
  <2> QED
    BY <2>1, <2>2
<1>2. ASSUME UNCHANGED <<uaa, config, run>> PROVE IInv'
  BY <1>2 DEF IInv, ProgressAt, ExistsAt, ClientRight, uaa, run, Item
<1>3. ASSUME NEW r \in Run, Crash(r) PROVE IInv'
  <2>1. \A q \in Run : /\ pc'[q] = IF q = r THEN "idle" ELSE pc[q]
                      /\ todo'[q] = IF q = r THEN {} ELSE todo[q]
    BY <1>3 DEF Crash, Forget
  <2>2. UNCHANGED <<uaa, config>>
    BY <1>3 DEF Crash
  <2> QED
    BY <2>1, <2>2, ForgottenProgress DEF IInv, ProgressAt, ExistsAt, ClientRight, uaa, Item
<1>4. CASE Outage \/ Recover
  BY <1>2, <1>4 DEF Outage, Recover
<1>5. ASSUME NEW g \in Group, OtherJoins(g) PROVE IInv'
  BY <1>2, <1>5 DEF OtherJoins
<1>6. ASSUME NEW c \in Config, Upgrade(c) PROVE IInv'
  <2>1. \A q \in Run : pc'[q] = "idle"
    BY <1>6 DEF Upgrade, Forget
  <2> QED
    BY <2>1 DEF IInv, ProgressAt, ExistsAt, GroupDone, ClientDone, LoginDone, UserDone,
                AuthorityLabels, AuthorityItemLabels, ClientLabels
<1>7. CASE UNCHANGED vars
  BY <1>2, <1>7 DEF vars, env
<1> QED
  BY <1>1, <1>3, <1>4, <1>5, <1>6, <1>7 DEF Next

\* Every pod has seen to what its place in the script asks for.
LEMMA ProgressInvariant == Spec => []IInv
  BY ProgressInit, ProgressStep, TypeInvariant, PTL DEF Spec

\* The script ends well only in a provisioned UAA, for every number of pods,
\* every configuration and every pattern of outages, crashes and upgrades.
THEOREM DoneProvisionedAlways == Spec => []DoneProvisioned
  BY ProgressInvariant, DoneIsProvisioned, PTL

-----------------------------------------------------------------------------
(* While the UAA has not gone away, every call of a script that is past    *)
(* its first one was answered.                                             *)

\* Where a script can be while the UAA has never answered yet.
BeforeAnswer == {"idle", "waitRoot", "target", "failed"}

\* What a pod has seen to of the authorities, and that the id it looks for
\* is the administrator's.
AuthorityAt(r) ==
  /\ pc[r] \notin BeforeAnswer => up
  /\ pc[r] \in AuthorityLabels => config.authorities \ todo[r] \subseteq admins
  /\ pc[r] \in {"authGroup", "authGroupAdd", "authName", "authValue", "memberAdd"}
       => userId[r]
  /\ pc[r] = "done" => config.authorities \subseteq admins

AuthorityInv == outages = 0 => \A r \in Run : AuthorityAt(r)

\* Memberships are never taken away by a script.
LEMMA AdminsKept ==
  ASSUME NEW r \in Run, Script(r)
  PROVE  admins \subseteq admins' /\ UNCHANGED <<up, config, outages>>
  BY DEF Script, Start, WaitRoot, Target, ZoneCheck, ZoneCreate, GroupCheck,
     GroupAdd, ClientCheck, ClientAdd, ClientSecret, WaitZone, Login, UserCheck,
     UserAdd, AuthorityCheck, AuthorityUserId, AuthorityGroup, AuthorityGroupAdd,
     AuthorityName, AuthorityValue, MemberAdd, Retry, uaa, env

\* The pod that takes the step.
LEMMA AuthorityByScript ==
  ASSUME TypeInv, IInv, NEW r \in Run, Script(r), AuthorityAt(r)
  PROVE  AuthorityAt(r)'
<1> USE DEF At, AuthorityAt, BeforeAnswer, AuthorityLabels, AuthorityItemLabels
<1>0. /\ admins \subseteq admins' /\ UNCHANGED <<up, config, outages>>
      /\ pc \in [Run -> Label] /\ userId \in [Run -> BOOLEAN]
      /\ todo \in [Run -> SUBSET (Group \cup Client)]
      /\ todo[r] # {} => Item(r) \in todo[r]
  BY AdminsKept, ItemInTodo DEF TypeInv, RunOK
<1>1. pc[r] \in AuthorityLabels => user
  BY DEF IInv, ProgressAt, UserDone
<1>2. ASSUME pc'[r] \notin {"authorities", "done"} \cup AuthorityItemLabels,
             pc'[r] \in BeforeAnswer \/ up
      PROVE  AuthorityAt(r)'
  BY <1>0, <1>2
<1>3. CASE \/ Start(r) \/ WaitRoot(r) \/ Target(r) \/ ZoneCheck(r)
           \/ ZoneCreate(r) \/ GroupCheck(r) \/ GroupAdd(r) \/ ClientCheck(r)
           \/ ClientAdd(r) \/ ClientSecret(r) \/ WaitZone(r) \/ Login(r)
  <2>1. pc'[r] \notin {"authorities", "done"} \cup AuthorityItemLabels
    BY <1>0, <1>3 DEF Start, WaitRoot, Target, ZoneCheck, ZoneCreate,
       GroupCheck, GroupAdd, AddGroup, ClientCheck, ClientAdd, ClientSecret,
       WaitZone, Login, Retry, Goto, Loop, NextItem, Abort
  <2>2. pc'[r] \in BeforeAnswer \/ up
    BY <1>0, <1>3 DEF Start, WaitRoot, Target, ZoneCheck, ZoneCreate,
       GroupCheck, GroupAdd, AddGroup, ClientCheck, ClientAdd, ClientSecret,
       WaitZone, Login, Retry, Goto, Loop, NextItem, Abort
  <2> QED BY <1>2, <2>1, <2>2
<1>4. CASE UserCheck(r) \/ UserAdd(r)
  BY <1>0, <1>4 DEF UserCheck, UserAdd, Goto, Loop, Abort
<1>5. CASE AuthorityCheck(r)
  BY <1>0, <1>5 DEF AuthorityCheck, Goto, NextItem
<1>6. CASE AuthorityUserId(r)
  BY <1>0, <1>1, <1>6 DEF AuthorityUserId
<1>7. CASE AuthorityGroup(r) \/ AuthorityGroupAdd(r)
  BY <1>0, <1>7 DEF AuthorityGroup, AuthorityGroupAdd, AddGroup, Goto, Abort
<1>8. CASE AuthorityName(r)
  BY <1>0, <1>8 DEF AuthorityName, Goto, NextItem
<1>9. CASE AuthorityValue(r)
  BY <1>0, <1>9 DEF AuthorityValue, IdFound, Goto, NextItem
<1>10. CASE MemberAdd(r)
  BY <1>0, <1>10 DEF MemberAdd, NextItem, Abort
<1> QED
  BY <1>3, <1>4, <1>5, <1>6, <1>7, <1>8, <1>9, <1>10 DEF Script

\* Every pod has seen to the authorities that its place in the script asks for.
LEMMA AuthorityInvariant == Spec => []AuthorityInv
<1>1. Init => AuthorityInv
  BY DEF Init, AuthorityInv, AuthorityAt, BeforeAnswer, AuthorityLabels,
     AuthorityItemLabels
<1>2. TypeInv /\ IInv /\ AuthorityInv /\ [Next]_vars => AuthorityInv'
  <2> SUFFICES ASSUME TypeInv, IInv, AuthorityInv, [Next]_vars, outages' = 0,
                      NEW q \in Run
               PROVE  AuthorityAt(q)'
    BY DEF AuthorityInv
  <2>0. outages \in Nat
    BY DEF TypeInv, EnvOK
  <2>1. ASSUME NEW r \in Run, Script(r) PROVE AuthorityAt(q)'
    <3>1. AuthorityAt(q) /\ AuthorityAt(r)
      BY <2>1, AdminsKept DEF AuthorityInv
    <3>2. CASE q = r
      BY <2>1, <3>1, <3>2, AuthorityByScript
    <3>3. CASE q # r
      <4>1. UNCHANGED <<pc[q], todo[q], userId[q]>>
        <5>1. UNCHANGED <<pc[q], todo[q]>>
          BY <2>1, <3>3, OthersStay
        <5>2. UNCHANGED userId[q]
          BY <2>1, <3>3 DEF TypeInv, RunOK, Script, Start, WaitRoot, Target,
             ZoneCheck, ZoneCreate, GroupCheck, GroupAdd, AddGroup, ClientCheck,
             ClientAdd, ClientSecret, WaitZone, Login, UserCheck, UserAdd,
             AuthorityCheck, AuthorityUserId, AuthorityGroup, AuthorityGroupAdd,
             AuthorityName, AuthorityValue, MemberAdd, Retry, Goto, Loop,
             NextItem, Abort
        <5> QED BY <5>1, <5>2
      <4> QED BY <2>1, <3>1, <4>1, AdminsKept DEF AuthorityAt
    <3> QED BY <3>2, <3>3
  <2>2. ASSUME UNCHANGED <<uaa, config, run>>, outages = 0, up => up'
        PROVE  AuthorityAt(q)'
    BY <2>2 DEF AuthorityInv, AuthorityAt, uaa, run
  <2>3. ASSUME NEW r \in Run, Crash(r) PROVE AuthorityAt(q)'
    <3>1. /\ pc'[q] = IF q = r THEN "idle" ELSE pc[q]
          /\ todo'[q] = IF q = r THEN {} ELSE todo[q]
          /\ userId'[q] = IF q = r THEN FALSE ELSE userId[q]
      BY <2>3 DEF Crash, Forget
    <3>2. UNCHANGED <<uaa, up, config, outages>>
      BY <2>3 DEF Crash
    <3> QED
      BY <3>1, <3>2 DEF AuthorityInv, AuthorityAt, uaa, BeforeAnswer,
         AuthorityLabels, AuthorityItemLabels
  <2>4. ASSUME NEW c \in Config, Upgrade(c) PROVE AuthorityAt(q)'
    <3>1. pc'[q] = "idle"
      BY <2>4 DEF Upgrade, Forget
    <3> QED
      BY <3>1 DEF AuthorityAt, BeforeAnswer, AuthorityLabels, AuthorityItemLabels
  <2>5. CASE Outage
    BY <2>0, <2>5 DEF Outage
  <2>6. CASE Recover
    BY <2>2, <2>6 DEF Recover
  <2>7. ASSUME NEW g \in Group, OtherJoins(g) PROVE AuthorityAt(q)'
    BY <2>2, <2>7 DEF OtherJoins
  <2>8. CASE UNCHANGED vars
    BY <2>2, <2>8 DEF vars, env
  <2> QED
    BY <2>1, <2>3, <2>4, <2>5, <2>6, <2>7, <2>8 DEF Next
<1>3. Spec => []IInv
  BY ProgressInvariant
<1> QED
  BY <1>1, <1>2, <1>3, TypeInvariant, PTL DEF Spec

\* As long as no call of the UAA failed, the administrator has every authority
\* when a script ends well, for every number of pods, every configuration and
\* every pattern of crashes and upgrades: the only way round a membership is
\* an id that a failed call left empty.
THEOREM AuthoritiesUnlessOutageAlways == Spec => []AuthoritiesUnlessOutage
<1>1. AuthorityInv => AuthoritiesUnlessOutage
  BY DEF AuthorityInv, AuthorityAt, AuthoritiesUnlessOutage,
     AdminHasAuthorities, At
<1> QED BY <1>1, AuthorityInvariant, PTL

-----------------------------------------------------------------------------
(* A pod that is alone finds what it has seen.                             *)

\* No other pod has run the script since this revision was deployed.
Alone(r) == \A q \in Run \ {r} : pc[q] = "idle" /\ q \notin killed

\* What a pod that is alone has seen, or brought about, on its way to a label.
LookedAt(r) ==
  /\ pc[r] \notin BeforeAnswer \cup {"zoneCheck", "zoneCreate"} => zone
  /\ pc[r] \in {"groupAdd", "authGroupAdd"} => Item(r) \notin groups
  /\ pc[r] = "clientAdd" => ~clients[Item(r)].exists
  /\ pc[r] = "userAdd" => ~user
  /\ pc[r] \in AuthorityItemLabels => Item(r) \notin admins
  /\ pc[r] \in {"authName", "authValue", "memberAdd"} => Item(r) \in groups

LookedInv == outages = 0 => \A r \in Run : Alone(r) => LookedAt(r)

LEMMA LookedByScript ==
  ASSUME TypeInv, IInv, NEW r \in Run, Script(r), AuthorityAt(r), LookedAt(r)
  PROVE  LookedAt(r)'
<1> USE DEF At, LookedAt, BeforeAnswer, AuthorityLabels, AuthorityItemLabels
<1>0. /\ pc \in [Run -> Label] /\ userId \in [Run -> BOOLEAN]
      /\ todo \in [Run -> SUBSET (Group \cup Client)]
      /\ pc[r] \notin BeforeAnswer => up
  BY DEF TypeInv, RunOK, AuthorityAt
<1>1. ASSUME UNCHANGED todo
      PROVE  Item(r)' = Item(r)
  BY <1>1 DEF Item
<1>2. ASSUME pc'[r] \in BeforeAnswer \cup {"zoneCheck", "zoneCreate"}
      PROVE  LookedAt(r)'
  BY <1>2
<1>3. ASSUME pc'[r] \in {"groups", "clients", "clientSecret", "waitZone",
                         "login", "userCheck", "authorities", "done"}, zone'
      PROVE  LookedAt(r)'
  BY <1>3
<1>4. CASE \/ Start(r) \/ WaitRoot(r) \/ Target(r)
  BY <1>0, <1>2, <1>4 DEF Start, WaitRoot, Target, Retry, Goto, Loop, Abort
<1>5. CASE ZoneCheck(r) \/ ZoneCreate(r)
  BY <1>0, <1>2, <1>3, <1>5 DEF ZoneCheck, ZoneCreate, Goto, Loop, Abort, uaa
<1>6. CASE GroupCheck(r)
  <2>1. zone /\ zone' = zone /\ groups' = groups
    BY <1>6 DEF GroupCheck, uaa
  <2>2. CASE pc'[r] = "groupAdd"
    BY <1>0, <1>1, <1>6, <2>1, <2>2 DEF GroupCheck, Loop, NextItem, Goto
  <2> QED
    BY <1>0, <1>3, <1>6, <2>1, <2>2 DEF GroupCheck, Loop, NextItem, Goto
<1>7. CASE GroupAdd(r)
  BY <1>0, <1>2, <1>3, <1>7 DEF GroupAdd, AddGroup, NextItem, Abort
<1>8. CASE ClientCheck(r)
  <2>1. zone /\ zone' = zone /\ clients' = clients
    BY <1>8 DEF ClientCheck, uaa
  <2>2. CASE pc'[r] = "clientAdd"
    BY <1>0, <1>1, <1>8, <2>1, <2>2 DEF ClientCheck, Goto
  <2> QED
    BY <1>0, <1>3, <1>8, <2>1, <2>2 DEF ClientCheck, Goto
<1>9. CASE ClientAdd(r) \/ ClientSecret(r)
  BY <1>0, <1>2, <1>3, <1>9 DEF ClientAdd, ClientSecret, Goto, NextItem, Abort
<1>10. CASE WaitZone(r) \/ Login(r)
  BY <1>0, <1>2, <1>3, <1>10 DEF WaitZone, Login, Retry, Goto, Abort, uaa
<1>11. CASE UserCheck(r)
  <2>1. zone /\ zone' = zone /\ user' = user
    BY <1>11 DEF UserCheck, uaa
  <2>2. CASE pc'[r] = "userAdd"
    BY <1>0, <1>11, <2>1, <2>2 DEF UserCheck, Goto, Loop
  <2> QED
    BY <1>0, <1>3, <1>11, <2>1, <2>2 DEF UserCheck, Goto, Loop
<1>12. CASE UserAdd(r)
  BY <1>0, <1>2, <1>3, <1>12 DEF UserAdd, Loop, Abort
<1>13. CASE AuthorityCheck(r)
  <2>1. zone /\ zone' = zone /\ admins' = admins
    BY <1>13 DEF AuthorityCheck, uaa
  <2>2. CASE pc'[r] = "authId"
    BY <1>0, <1>1, <1>13, <2>1, <2>2 DEF AuthorityCheck, NextItem, Goto
  <2> QED
    BY <1>0, <1>3, <1>13, <2>1, <2>2 DEF AuthorityCheck, NextItem, Goto
<1>14. CASE AuthorityUserId(r)
  <2>1. Item(r)' = Item(r)
    BY <1>1, <1>14 DEF AuthorityUserId
  <2> QED BY <1>0, <1>14, <2>1 DEF AuthorityUserId, uaa
<1>15. CASE AuthorityGroup(r)
  <2>1. Item(r)' = Item(r)
    BY <1>1, <1>15 DEF AuthorityGroup, Goto
  <2> QED BY <1>0, <1>15, <2>1 DEF AuthorityGroup, Goto, uaa
<1>16. CASE AuthorityGroupAdd(r)
  <2>1. CASE UNCHANGED groups /\ Abort(r)
    BY <1>0, <1>2, <2>1 DEF Abort
  <2>2. CASE groups' = groups \cup {Item(r)} /\ Goto(r, "authName")
    <3>1. Item(r)' = Item(r)
      BY <1>1, <2>2 DEF Goto
    <3> QED BY <1>0, <1>16, <2>2, <3>1 DEF AuthorityGroupAdd, Goto
  <2> QED BY <1>16, <2>1, <2>2 DEF AuthorityGroupAdd, AddGroup
<1>17. CASE AuthorityName(r) \/ AuthorityValue(r)
  <2>1. zone /\ zone' = zone /\ admins' = admins /\ groups' = groups
    BY <1>17 DEF AuthorityName, AuthorityValue, uaa
  <2>2. CASE \E label \in {"authValue", "memberAdd"} : Goto(r, label)
    <3>1. Item(r)' = Item(r)
      BY <1>1, <2>2 DEF Goto
    <3> QED
      BY <1>0, <1>17, <2>1, <2>2, <3>1 DEF AuthorityName, AuthorityValue, Goto
  <2>3. CASE NextItem(r, "authorities")
    BY <1>0, <1>3, <2>1, <2>3 DEF NextItem
  <2> QED BY <1>17, <2>2, <2>3 DEF AuthorityName, AuthorityValue
<1>18. CASE MemberAdd(r)
  BY <1>0, <1>2, <1>3, <1>18 DEF MemberAdd, NextItem, Abort
<1> QED
  BY <1>4, <1>5, <1>6, <1>7, <1>8, <1>9, <1>10, <1>11, <1>12, <1>13, <1>14,
     <1>15, <1>16, <1>17, <1>18 DEF Script

\* A script that takes a step is begun, or goes on.
LEMMA ScriptBusy ==
  ASSUME TypeInv, NEW r \in Run, Script(r)
  PROVE  pc'[r] # "idle" /\ UNCHANGED killed
BY DEF TypeInv, RunOK, Script, Start, WaitRoot, Target, ZoneCheck, ZoneCreate,
   GroupCheck, GroupAdd, AddGroup, ClientCheck, ClientAdd, ClientSecret,
   WaitZone, Login, UserCheck, UserAdd, AuthorityCheck, AuthorityUserId,
   AuthorityGroup, AuthorityGroupAdd, AuthorityName, AuthorityValue, MemberAdd,
   Retry, Goto, Loop, NextItem, Abort, At, env

LEMMA LookedStep ==
  ASSUME TypeInv, IInv, AuthorityInv, LookedInv, [Next]_vars
  PROVE  LookedInv'
<1> SUFFICES ASSUME outages' = 0, NEW r \in Run, Alone(r)'
             PROVE  LookedAt(r)'
  BY DEF LookedInv
<1>0. outages \in Nat /\ killed \in SUBSET Run
  BY DEF TypeInv, EnvOK
<1>1. ASSUME pc'[r] = "idle"
      PROVE  LookedAt(r)'
  BY <1>1 DEF LookedAt, BeforeAnswer, AuthorityItemLabels
<1>2. ASSUME NEW q \in Run, Script(q)
      PROVE  LookedAt(r)'
  <2>1. outages = 0 /\ pc'[q] # "idle" /\ killed' = killed
    BY <1>2, AdminsKept, ScriptBusy
  <2>2. q = r
    BY <2>1 DEF Alone
  <2>3. Alone(r)
    BY <1>2, <2>1, <2>2, OthersStay DEF Alone
  <2> QED
    BY <1>2, <2>1, <2>2, <2>3, LookedByScript DEF AuthorityInv, LookedInv
<1>3. ASSUME NEW q \in Run, Crash(q)
      PROVE  LookedAt(r)'
  <2>1. q \in killed' /\ pc'[q] = "idle"
    BY <1>0, <1>3 DEF Crash, Forget
  <2>2. q = r
    BY <2>1 DEF Alone
  <2> QED BY <1>1, <2>1, <2>2
<1>4. ASSUME NEW c \in Config, Upgrade(c)
      PROVE  LookedAt(r)'
  BY <1>1, <1>4 DEF Upgrade, Forget
<1>5. ASSUME UNCHANGED <<uaa, run, killed>>, outages = 0
      PROVE  LookedAt(r)'
  <2>1. Alone(r)
    BY <1>5 DEF Alone, run
  <2>2. LookedAt(r)
    BY <1>5, <2>1 DEF LookedInv
  <2> QED BY <1>5, <2>2 DEF LookedAt, Item, uaa, run
<1>6. CASE Outage
  BY <1>0, <1>6 DEF Outage
<1>7. CASE Recover \/ (\E g \in Group : OtherJoins(g)) \/ UNCHANGED vars
  BY <1>5, <1>7 DEF Recover, OtherJoins, vars, env
<1> QED BY <1>2, <1>3, <1>4, <1>6, <1>7 DEF Next

\* Only its own script makes a pod fail.
LEMMA FailsItself ==
  ASSUME TypeInv, NEW r \in Run, pc[r] # "failed", pc'[r] = "failed", [Next]_vars
  PROVE  Script(r)
<1>1. ASSUME NEW q \in Run, Script(q)
      PROVE  q = r
  BY <1>1, OthersStay
<1>2. ASSUME NEW q \in Run, Crash(q)
      PROVE  FALSE
  BY <1>2 DEF Crash, Forget
<1>3. ASSUME NEW c \in Config, Upgrade(c)
      PROVE  FALSE
  BY <1>3 DEF Upgrade, Forget
<1>4. CASE UNCHANGED run
  BY <1>4 DEF run
<1> QED
  BY <1>1, <1>2, <1>3, <1>4 DEF Next, Outage, Recover, OtherJoins, vars

\* What a pod has seen keeps each call from failing while the UAA answers.
LEMMA LookedSucceeds ==
  ASSUME TypeInv, IInv, NEW r \in Run, Script(r), up,
         AuthorityAt(r), LookedAt(r), pc[r] # "failed"
  PROVE  pc'[r] # "failed"
<1> USE DEF At, LookedAt, BeforeAnswer, AuthorityLabels, AuthorityItemLabels
<1>0. /\ pc \in [Run -> Label] /\ userId \in [Run -> BOOLEAN]
      /\ ProgressAt(pc[r], todo[r]) /\ ExistsAt(r)
      /\ AutoClient \in Client /\ config.secret[AutoClient] # NoSecret
  BY ConstantsAssumption DEF TypeInv, RunOK, EnvOK, IInv
<1>1. CASE GroupAdd(r)
  BY <1>0, <1>1 DEF GroupAdd, AddGroup, NextItem
<1>2. CASE ClientAdd(r) \/ ClientSecret(r)
  BY <1>0, <1>2 DEF ClientAdd, ClientSecret, ExistsAt, NextItem, Goto
<1>3. CASE Login(r)
  <2>1. ClientRight(AutoClient)
    BY <1>0, <1>3 DEF Login, ProgressAt, ClientDone
  <2> QED BY <1>0, <1>3, <2>1 DEF Login, ClientRight, Goto
<1>4. CASE UserAdd(r)
  BY <1>0, <1>4 DEF UserAdd, Loop
<1>5. CASE AuthorityGroupAdd(r)
  BY <1>0, <1>5 DEF AuthorityGroupAdd, AddGroup, Goto
<1>6. CASE MemberAdd(r)
  <2>1. user
    BY <1>0, <1>6 DEF MemberAdd, ProgressAt, UserDone
  <2> QED BY <1>0, <1>6, <2>1 DEF MemberAdd, NextItem
<1>7. CASE Start(r) \/ WaitRoot(r) \/ Target(r) \/ ZoneCheck(r) \/ ZoneCreate(r)
  BY <1>0, <1>7 DEF Start, WaitRoot, Target, ZoneCheck, ZoneCreate, Retry,
     Goto, Loop
<1>8. CASE \/ GroupCheck(r) \/ ClientCheck(r) \/ WaitZone(r) \/ UserCheck(r)
           \/ AuthorityCheck(r) \/ AuthorityUserId(r) \/ AuthorityGroup(r)
           \/ AuthorityName(r) \/ AuthorityValue(r)
  BY <1>0, <1>8 DEF GroupCheck, ClientCheck, WaitZone, UserCheck,
     AuthorityCheck, AuthorityUserId, AuthorityGroup, AuthorityName,
     AuthorityValue, Retry, Goto, Loop, NextItem
<1> QED BY <1>1, <1>2, <1>3, <1>4, <1>5, <1>6, <1>7, <1>8 DEF Script

\* The script can be run again from wherever a former run was stopped, in this
\* revision or an earlier one: while the UAA answers, a pod that no other pod
\* gets in the way of does not fail, for any groups, clients, configurations,
\* kills and upgrades.  It is the reason why the job succeeds in the end.
THEOREM FailsByRaceAlways == Spec => FailsByRace
<1>1. Init => LookedInv
  BY DEF Init, LookedInv, LookedAt, BeforeAnswer, AuthorityItemLabels
<1>2. TypeInv /\ IInv /\ AuthorityInv /\ LookedInv /\ [Next]_vars => LookedInv'
  BY LookedStep
<1>3. TypeInv /\ IInv /\ AuthorityInv /\ LookedInv /\ [Next]_vars =>
        [\A r \in Run :
           pc[r] # "failed" /\ pc'[r] = "failed" /\ up /\ outages = 0 =>
             \E q \in Run \ {r} : pc[q] # "idle" \/ q \in killed]_vars
  <2> SUFFICES ASSUME TypeInv, IInv, AuthorityInv, LookedInv, [Next]_vars,
                      NEW r \in Run, pc[r] # "failed", pc'[r] = "failed", up,
                      outages = 0, Alone(r)
               PROVE  FALSE
    BY DEF Alone, TypeInv, EnvOK
  <2>1. AuthorityAt(r) /\ LookedAt(r)
    BY DEF AuthorityInv, LookedInv
  <2> QED BY <2>1, FailsItself, LookedSucceeds
<1> QED
  BY <1>1, <1>2, <1>3, TypeInvariant, ProgressInvariant, AuthorityInvariant,
     PTL DEF Spec, FailsByRace
=============================================================================
