------------------------- MODULE PostDeploymentProofs -------------------------
(***************************************************************************)
(* The composition of the two post-deployment jobs, for any pods, groups,  *)
(* clients, users, configurations and bounds: it implements ConfigureScf,  *)
(* and a pod that has ended well leaves everything as configured.          *)
(*                                                                         *)
(* The argument goes through what is proved of each job alone.  While      *)
(* configure-scf runs in a pod, uaa-create-user has ended well there, so   *)
(* by its invariant the client has the secret that ConfigureScf asks for;  *)
(* and a step of uaa-create-user changes nothing that configure-scf sees   *)
(* but this secret, to the one that is wanted.                             *)
(***************************************************************************)
EXTENDS PostDeploymentImpl, TLAPS

UP == INSTANCE UaaCreateUserImplProofs

CP == INSTANCE ConfigureScfProofs WITH
  Client <- AutoClient, None <- NoSecret, Config <- {Settings[c] : c \in Config},
  MaxFaults <- MaxOutages + MaxFaults,
  uaa <- up, secret <- clients[AutoClient].secret, env <- varGroups,
  config <- Settings[config], faults <- outages + faults,
  pc <- step, tries <- rounds, todo <- doomed

-----------------------------------------------------------------------------
(* The modules of the proofs are about the same steps.                     *)

LEMMA SameUaaScript ==
  ASSUME NEW r
  PROVE  U!Script(r) <=> UP!Script(r)
BY DEF U!Script, UP!Script,
   U!Start, UP!Start, U!WaitRoot, UP!WaitRoot, U!Target, UP!Target,
   U!ZoneCheck, UP!ZoneCheck, U!ZoneCreate, UP!ZoneCreate, U!GroupCheck,
   UP!GroupCheck, U!GroupAdd, UP!GroupAdd, U!ClientCheck, UP!ClientCheck,
   U!ClientAdd, UP!ClientAdd, U!ClientSecret, UP!ClientSecret, U!WaitZone,
   UP!WaitZone, U!Login, UP!Login, U!UserCheck, UP!UserCheck, U!UserAdd,
   UP!UserAdd, U!AuthorityCheck, UP!AuthorityCheck, U!AuthorityUserId,
   UP!AuthorityUserId, U!AuthorityGroup, UP!AuthorityGroup,
   U!AuthorityGroupAdd, UP!AuthorityGroupAdd, U!AuthorityName,
   UP!AuthorityName, U!AuthorityValue, UP!AuthorityValue, U!MemberAdd,
   UP!MemberAdd,
   U!At, UP!At, U!Goto, UP!Goto, U!Loop, UP!Loop, U!Item, UP!Item,
   U!NextItem, UP!NextItem, U!Abort, UP!Abort, U!Retry, UP!Retry,
   U!AddGroup, UP!AddGroup, U!IdFound, UP!IdFound, U!uaa, UP!uaa, U!env, UP!env

LEMMA SameUaa ==
  /\ U!Init <=> UP!Init
  /\ U!Outage <=> UP!Outage
  /\ U!Recover <=> UP!Recover
  /\ \A g : U!OtherJoins(g) <=> UP!OtherJoins(g)
  /\ \A r : U!Crash(r) <=> UP!Crash(r)
  /\ \A c : U!Upgrade(c) <=> UP!Upgrade(c)
  /\ \A S : U!Forget(S) <=> UP!Forget(S)
BY DEF U!Init, UP!Init, U!Absent, UP!Absent, U!Outage, UP!Outage,
   U!Recover, UP!Recover, U!OtherJoins, UP!OtherJoins, U!Crash, UP!Crash,
   U!Upgrade, UP!Upgrade, U!Forget, UP!Forget, U!uaa, UP!uaa, U!run, UP!run

LEMMA SameScfScript ==
  ASSUME NEW r
  PROVE  C!Script(r) <=> CP!Script(r)
BY DEF C!Script, CP!Script,
   C!Start, CP!Start, C!WaitCC, CP!WaitCC, C!WaitUaa, CP!WaitUaa, C!Login,
   CP!Login, C!SetStaging, CP!SetStaging, C!SetRunning, CP!SetRunning,
   C!WaitBroker, CP!WaitBroker, C!CreateBroker, CP!CreateBroker,
   C!UpdateBroker, CP!UpdateBroker, C!ListUsers, CP!ListUsers,
   C!DeleteUser, CP!DeleteUser, C!Complete, CP!Complete,
   C!At, CP!At, C!Goto, CP!Goto, C!End, CP!End, C!Retry, CP!Retry,
   C!Authorized, CP!Authorized, C!Reached, CP!Reached, C!Listed, CP!Listed,
   C!Command, CP!Command,
   C!SetEnv, CP!SetEnv, C!Named, CP!Named, C!Bogus, CP!Bogus, C!Contains,
   CP!Contains, C!RemoveAt, CP!RemoveAt, C!services, CP!services,
   C!controller, CP!controller, C!deployment, CP!deployment

LEMMA SameScf ==
  /\ C!Init <=> CP!Init
  /\ C!Next <=> CP!Next
  /\ C!vars = CP!vars
<1>1. (C!Init <=> CP!Init) /\ C!vars = CP!vars
  BY DEF C!Init, CP!Init, C!Runtime, CP!Runtime, C!vars, CP!vars,
     C!services, CP!services, C!controller, CP!controller,
     C!deployment, CP!deployment, C!run, CP!run
<1>2. C!Next <=> CP!Next
  <2>1. \A r : /\ C!Expire(r) <=> CP!Expire(r)
               /\ C!Kill(r) <=> CP!Kill(r)
    BY DEF C!Expire, CP!Expire, C!Kill, CP!Kill, C!End, CP!End,
       C!services, CP!services, C!controller, CP!controller,
       C!deployment, CP!deployment
  <2>2. /\ C!Outage <=> CP!Outage
        /\ C!Recover <=> CP!Recover
        /\ C!ProvideClient <=> CP!ProvideClient
    BY DEF C!Outage, CP!Outage, C!Recover, CP!Recover,
       C!ProvideClient, CP!ProvideClient,
       C!services, CP!services, C!controller, CP!controller,
       C!deployment, CP!deployment, C!run, CP!run
  <2>3. \A p : C!PersonJoins(p) <=> CP!PersonJoins(p)
    BY DEF C!PersonJoins, CP!PersonJoins, C!Contains, CP!Contains,
       C!services, CP!services, C!deployment, CP!deployment, C!run, CP!run
  <2>4. \A c : C!Upgrade(c) <=> CP!Upgrade(c)
    BY DEF C!Upgrade, CP!Upgrade, C!End, CP!End,
       C!services, CP!services, C!controller, CP!controller
  <2>5. (\E r \in Run : C!Script(r) \/ C!Expire(r) \/ C!Kill(r))
          <=> \E r \in Run : CP!Script(r) \/ CP!Expire(r) \/ CP!Kill(r)
    BY <2>1, SameScfScript
  <2>6. (\E p \in Person : C!PersonJoins(p)) <=> \E p \in Person : CP!PersonJoins(p)
    BY <2>3
  <2>7. \A S : (\E c \in S : C!Upgrade(c)) <=> \E c \in S : CP!Upgrade(c)
    BY <2>4
  <2> QED BY <2>2, <2>5, <2>6, <2>7 DEF C!Next, CP!Next
<1> QED BY <1>1, <1>2

LEMMA SameAssumptions ==
  UP!ConstantsAssumption /\ UP!PresentAssumption /\ CP!ConstantsAssumption
BY ConstantsAssumption, SettingsAssumption, PresentAssumption
   DEF UP!PresentAssumption, U!ConstantsAssumption, UP!ConstantsAssumption,
   C!ConstantsAssumption, CP!ConstantsAssumption, U!ConfigType, UP!ConfigType,
   C!ConfigType, CP!ConfigType, C!Runtime, CP!Runtime

-----------------------------------------------------------------------------
(* The inductive invariant.                                                *)

\* What is proved of uaa-create-user alone.
UaaInv == UP!TypeInv /\ UP!IInv

\* configure-scf runs, or has ended well, only where uaa-create-user has.
Coupled ==
  \A r \in Run : step[r] \notin {"idle", "failed"} => pc[r] = "done"

Bounded == outages <= MaxOutages /\ faults \in 0 .. MaxFaults

IInv == UaaInv /\ CP!IInv /\ Coupled /\ Bounded

LEMMA ConstantFacts ==
  /\ MaxOutages \in Nat /\ MaxUpgrades \in {0, 1}
  /\ AutoClient \in Client /\ NoSecret \notin Secret
  /\ \A c \in Config : /\ c.secret[AutoClient] # NoSecret
                       /\ Settings[c].secret = c.secret[AutoClient]
BY ConstantsAssumption, SettingsAssumption DEF U!ConstantsAssumption

LEMMA UaaParts ==
  ASSUME UaaInv
  PROVE  /\ pc \in [Run -> UP!Label] /\ config \in Config
         /\ outages \in Nat /\ upgrades \in Nat /\ up \in BOOLEAN
         /\ clients \in [Client -> UP!ClientRecord]
BY DEF UaaInv, UP!TypeInv, UP!RunOK, UP!EnvOK, UP!UaaOK

LEMMA ScfParts ==
  ASSUME CP!IInv
  PROVE  step \in [Run -> CP!Label]
BY DEF CP!IInv, CP!RunOK

\* A step of uaa-create-user and its surroundings.
LEMMA UaaStep ==
  ASSUME UaaInv,
         \/ \E r \in Run : U!Script(r) \/ U!Crash(r)
         \/ U!Outage \/ U!Recover
         \/ \E g \in Group : U!OtherJoins(g)
         \/ \E c \in Config : U!Upgrade(c)
         \/ UNCHANGED <<uaa, env, creating>>
  PROVE  UaaInv'
<1>1. ASSUME UNCHANGED <<uaa, env, creating>>
      PROVE  UNCHANGED UP!vars
  BY <1>1 DEF uaa, env, creating, UP!vars, UP!uaa, UP!env, UP!run
<1>2. [UP!Next]_(UP!vars)
  BY <1>1, SameUaaScript, SameUaa DEF UP!Next
<1> QED
  BY <1>2, UP!TypeStep, UP!ProgressStep, SameAssumptions DEF UaaInv

\* A pod that fails or is killed in configure-scf.
LEMMA UaaEnd ==
  ASSUME UaaInv, NEW r \in Run, UNCHANGED <<uaa, env>>,
         \/ U!Forget({r})
         \/ pc' = [pc EXCEPT ![r] = "failed"] /\ UNCHANGED <<todo, tries, userId>>
  PROVE  UaaInv'
<1>1. UP!UaaOK' /\ UP!EnvOK'
  BY DEF UaaInv, UP!TypeInv, UP!UaaOK, UP!EnvOK, uaa, env
<1>2. UP!RunOK'
  <2>1. CASE U!Forget({r})
    <3>1. UP!Forget({r}) /\ {r} \in SUBSET Run
      BY <2>1, SameUaa
    <3> QED BY <3>1, UP!ForgetOK, SameAssumptions DEF UaaInv, UP!TypeInv
  <2>2. CASE pc' = [pc EXCEPT ![r] = "failed"] /\ UNCHANGED <<todo, tries, userId>>
    <3>1. UP!LoopAt("failed", todo[r]) /\ "failed" \in UP!Label
      BY UP!LabelFacts, SameAssumptions
    <3> QED BY <2>2, <3>1 DEF UaaInv, UP!TypeInv, UP!RunOK, UP!LoopAt
  <2> QED BY <2>1, <2>2
<1>3. \A q \in Run : \/ pc'[q] \in {"idle", "failed"}
                     \/ pc'[q] = pc[q] /\ todo'[q] = todo[q]
  BY DEF UaaInv, UP!TypeInv, UP!RunOK, U!Forget
<1>4. ASSUME NEW q \in Run
      PROVE  UP!ProgressAt(pc[q], todo[q])' /\ UP!ExistsAt(q)'
  <2>1. CASE pc'[q] \in {"idle", "failed"}
    BY <2>1 DEF UP!ProgressAt, UP!ExistsAt, UP!GroupDone, UP!ClientDone,
       UP!LoginDone, UP!UserDone, UP!AuthorityLabels, UP!AuthorityItemLabels,
       UP!ClientLabels
  <2>2. CASE pc'[q] = pc[q] /\ todo'[q] = todo[q]
    <3>1. UP!ProgressAt(pc[q], todo[q]) /\ UP!ExistsAt(q)
      BY DEF UaaInv, UP!IInv
    <3>2. UP!Item(q)' = UP!Item(q)
      BY <2>2 DEF UP!Item
    <3> QED
      BY <2>2, <3>1, <3>2 DEF UP!ProgressAt, UP!ExistsAt, UP!ClientRight, uaa, env
  <2> QED BY <1>3, <2>1, <2>2
<1>5. UP!IInv'
  BY <1>4 DEF UP!IInv
<1> QED BY <1>1, <1>2, <1>5 DEF UaaInv, UP!TypeInv

-----------------------------------------------------------------------------
(* Every step is one of ConfigureScf.                                      *)

\* What configure-scf sees of a step of uaa-create-user.
LEMMA SecretOnly ==
  ASSUME UaaInv, NEW r \in Run, U!Script(r)
  PROVE  /\ UNCHANGED env
         /\ \/ clients'[AutoClient].secret = clients[AutoClient].secret
            \/ up /\ clients'[AutoClient].secret = config.secret[AutoClient]
<1>1. clients \in [Client -> UP!ClientRecord] /\ AutoClient \in Client
  BY UaaParts, ConstantFacts
<1>2. CASE U!ClientAdd(r)
  BY <1>1, <1>2 DEF U!ClientAdd, U!env, env
<1>3. CASE U!ClientSecret(r)
  BY <1>1, <1>3 DEF U!ClientSecret, U!env, env, UP!ClientRecord
<1>4. CASE ~U!ClientAdd(r) /\ ~U!ClientSecret(r)
  BY <1>4 DEF U!Script, U!Start, U!WaitRoot, U!Target, U!ZoneCheck,
     U!ZoneCreate, U!GroupCheck, U!GroupAdd, U!ClientCheck, U!WaitZone, U!Login,
     U!UserCheck, U!UserAdd, U!AuthorityCheck, U!AuthorityUserId,
     U!AuthorityGroup, U!AuthorityGroupAdd, U!AuthorityName, U!AuthorityValue,
     U!MemberAdd, U!Retry, U!uaa, U!env, env
<1> QED BY <1>2, <1>3, <1>4

\* Where uaa-create-user has ended well the client has the present secret.
LEMMA SecretProvided ==
  ASSUME UaaInv, NEW r \in Run, pc[r] = "done"
  PROVE  clients[AutoClient].secret = Settings[config].secret
<1>1. UP!DoneProvisioned
  BY UP!DoneIsProvisioned, SameAssumptions DEF UaaInv
<1> QED
  BY <1>1, UaaParts, ConstantFacts DEF UP!DoneProvisioned, UP!At, UP!Provisioned

LEMMA PodImplements ==
  ASSUME IInv, NEW r \in Run, Pods(r)
  PROVE  [C!Next]_(C!vars)
<1> USE DEF C!vars, C!services, C!controller, C!deployment, C!run
<1>1. CASE CreateUser(r)
  <2>1. UNCHANGED <<up, outages, config, upgrades, scf>>
        /\ \/ clients'[AutoClient].secret = clients[AutoClient].secret
           \/ up /\ clients'[AutoClient].secret = config.secret[AutoClient]
    BY <1>1, SecretOnly DEF CreateUser, IInv, env
  <2>2. config.secret[AutoClient] = Settings[config].secret
    BY UaaParts, ConstantFacts DEF IInv
  <2>3. CASE clients'[AutoClient].secret = clients[AutoClient].secret
    BY <2>1, <2>3 DEF scf, controller, configuring
  <2>4. CASE /\ clients'[AutoClient].secret # clients[AutoClient].secret
             /\ up /\ clients'[AutoClient].secret = Settings[config].secret
    <3>1. C!ProvideClient
      BY <2>1, <2>4 DEF C!ProvideClient, scf, controller, configuring
    <3> QED BY <3>1 DEF C!Next
  <2> QED BY <2>1, <2>2, <2>3, <2>4
<1>2. CASE StartConfigure(r)
  <2>1. clients[AutoClient].secret = Settings[config].secret
    BY <1>2, SecretProvided DEF IInv, StartConfigure, U!At
  <2>2. C!Start(r)
    BY <1>2, <2>1 DEF StartConfigure, C!Start, C!At, uaa, env, controller
  <2> QED BY <2>2 DEF C!Next, C!Script
<1>3. CASE Configure(r)
  BY <1>3 DEF Configure, C!Next
<1> QED BY <1>1, <1>2, <1>3 DEF Pods

LEMMA StepImplements ==
  ASSUME IInv, [Next]_vars
  PROVE  [C!Next]_(C!vars)
<1> USE DEF C!vars, C!services, C!controller, C!deployment, C!run
<1>0. /\ outages \in Nat /\ upgrades \in Nat /\ outages <= MaxOutages
      /\ faults \in Nat /\ faults <= MaxFaults /\ MaxFaults \in Nat
      /\ MaxOutages \in Nat /\ MaxUpgrades \in {0, 1}
  BY UaaParts, ConstantFacts, ConstantsAssumption DEF IInv, Bounded
<1>1. ASSUME NEW r \in Run, Pods(r)
      PROVE  [C!Next]_(C!vars)
  BY <1>1, PodImplements
<1>2. ASSUME UNCHANGED <<up, uaa, outages, config, upgrades, scf>>
      PROVE  UNCHANGED C!vars
  BY <1>2 DEF uaa, scf, controller, configuring
<1>3. CASE \E r \in Run : Crash(r)
  BY <1>2, <1>3 DEF Crash, U!Crash, U!uaa, uaa
<1>4. ASSUME NEW r \in Run, Kill(r)
      PROVE  C!Kill(r)
  <2>1. /\ outages' = outages /\ faults' = faults + 1 /\ faults < MaxFaults
        /\ UNCHANGED <<up, uaa, config, upgrades, controller>>
        /\ C!End({r}, "idle") /\ step[r] \notin {"idle", "done"}
    BY <1>4 DEF Kill, env
  <2>2. /\ outages + faults < MaxOutages + MaxFaults
        /\ outages' + faults' = outages + faults + 1
    BY <1>0, <2>1
  <2> QED BY <2>1, <2>2 DEF C!Kill, uaa, controller
<1>5. CASE \E r \in Run : Expire(r)
  BY <1>5 DEF Expire, C!Next
<1>6. CASE UaaOutage
  <2>1. /\ up /\ up' = FALSE /\ outages' = outages + 1 /\ outages < MaxOutages
        /\ UNCHANGED <<uaa, config, upgrades, scf>>
    BY <1>6 DEF UaaOutage, U!Outage, U!uaa, uaa
  <2>2. faults' = faults
    BY <2>1 DEF scf
  <2>3. /\ outages + faults < MaxOutages + MaxFaults
        /\ outages' + faults' = outages + faults + 1
    BY <1>0, <2>1, <2>2
  <2>4. C!Outage
    BY <2>1, <2>3 DEF C!Outage, uaa, scf, controller, configuring
  <2> QED BY <2>4 DEF C!Next
<1>7. CASE OtherOutage
  <2>1. /\ outages' = outages /\ faults' = faults + 1 /\ faults < MaxFaults
    BY <1>7 DEF OtherOutage, env
  <2>2. /\ outages + faults < MaxOutages + MaxFaults
        /\ outages' + faults' = outages + faults + 1
    BY <1>0, <2>1
  <2>3. C!Outage
    BY <1>7, <2>2 DEF OtherOutage, C!Outage, uaa, env, configuring
  <2> QED BY <2>3 DEF C!Next
<1>8. CASE Recover
  BY <1>8 DEF Recover, C!Recover, C!Next, uaa, configuring
<1>9. CASE \E g \in Group : OtherJoins(g)
  BY <1>2, <1>9 DEF OtherJoins, U!OtherJoins, U!uaa, uaa
<1>10. CASE \E p \in Person : PersonJoins(p)
  BY <1>10 DEF PersonJoins, C!Next
<1>11. ASSUME NEW c \in Config, Upgrade(c)
       PROVE  C!Upgrade(Settings[c])
  <2>1. upgrades = 0 /\ upgrades' = 1
    BY <1>0, <1>11 DEF Upgrade, U!Upgrade
  <2> QED
    BY <1>11, <2>1 DEF Upgrade, U!Upgrade, C!Upgrade, U!uaa, controller
<1>12. CASE UNCHANGED vars
  BY <1>2, <1>12 DEF vars, env
<1> QED
  BY <1>1, <1>3, <1>4, <1>5, <1>6, <1>7, <1>8, <1>9, <1>10, <1>11, <1>12
     DEF Next, C!Next

-----------------------------------------------------------------------------
(* Every step keeps the invariant.                                         *)

LEMMA UaaKept ==
  ASSUME IInv, [Next]_vars
  PROVE  UaaInv'
<1>0. UaaInv
  BY DEF IInv
<1>1. ASSUME UNCHANGED <<uaa, env, creating>>
      PROVE  UaaInv'
  BY <1>0, <1>1, UaaStep
<1>2. ASSUME NEW r \in Run, Pods(r)
      PROVE  UaaInv'
  <2>1. CASE CreateUser(r)
    BY <1>0, <2>1, UaaStep DEF CreateUser
  <2>2. CASE StartConfigure(r)
    BY <1>1, <2>2 DEF StartConfigure
  <2>3. CASE Configure(r)
    <3>1. /\ UNCHANGED <<uaa, env, todo, tries, userId>>
          /\ pc' = [pc EXCEPT ![r] = IF step'[r] = "failed" THEN "failed" ELSE @]
      BY <2>3 DEF Configure
    <3>2. CASE step'[r] = "failed"
      BY <1>0, <3>1, <3>2, UaaEnd
    <3>3. CASE step'[r] # "failed"
      <4>1. pc' = pc
        BY <1>0, <3>1, <3>3, UaaParts
      <4> QED BY <1>1, <3>1, <4>1 DEF creating
    <3> QED BY <3>2, <3>3
  <2> QED BY <1>2, <2>1, <2>2, <2>3 DEF Pods
<1>3. CASE \E r \in Run : Crash(r)
  BY <1>0, <1>3, UaaStep DEF Crash
<1>4. CASE \E r \in Run : Kill(r)
  BY <1>0, <1>4, UaaEnd DEF Kill
<1>5. CASE \E r \in Run : Expire(r)
  BY <1>1, <1>5 DEF Expire
<1>6. CASE UaaOutage \/ \E g \in Group : OtherJoins(g)
  BY <1>0, <1>6, UaaStep DEF UaaOutage, OtherJoins
<1>7. CASE OtherOutage
  BY <1>1, <1>7 DEF OtherOutage
<1>8. CASE Recover
  <2>1. CASE up
    BY <1>1, <1>8, <2>1, UaaParts DEF IInv, Recover, env
  <2>2. CASE ~up
    <3>1. U!Recover
      BY <1>8, <2>2 DEF Recover, U!Recover, U!uaa, uaa, U!run, creating
    <3> QED BY <1>0, <3>1, UaaStep
  <2> QED BY <2>1, <2>2
<1>9. CASE \E p \in Person : PersonJoins(p)
  BY <1>1, <1>9 DEF PersonJoins
<1>10. CASE \E c \in Config : Upgrade(c)
  BY <1>0, <1>10, UaaStep DEF Upgrade
<1>11. CASE UNCHANGED vars
  BY <1>1, <1>11 DEF vars
<1> QED
  BY <1>2, <1>3, <1>4, <1>5, <1>6, <1>7, <1>8, <1>9, <1>10, <1>11 DEF Next

LEMMA ScfKept ==
  ASSUME IInv, [Next]_vars
  PROVE  CP!IInv'
<1>1. (UNCHANGED C!vars) <=> UNCHANGED CP!vars
  BY DEF C!vars, CP!vars, C!services, CP!services, C!controller,
     CP!controller, C!deployment, CP!deployment, C!run, CP!run
<1>2. [CP!Next]_(CP!vars)
  BY <1>1, StepImplements, SameScf
<1> QED BY <1>2, CP!InvStep, SameAssumptions DEF IInv

\* A pod in which uaa-create-user goes on has not begun configure-scf.
LEMMA OneScript ==
  ASSUME UaaInv, NEW r \in Run, U!Script(r)
  PROVE  pc[r] # "done" /\ \A q \in Run : q # r => pc'[q] = pc[q]
<1>1. pc[r] # "done"
  BY DEF U!Script, U!At, U!Start, U!WaitRoot, U!Target, U!ZoneCheck,
     U!ZoneCreate, U!GroupCheck, U!GroupAdd, U!ClientCheck, U!ClientAdd,
     U!ClientSecret, U!WaitZone, U!Login, U!UserCheck, U!UserAdd,
     U!AuthorityCheck, U!AuthorityUserId, U!AuthorityGroup,
     U!AuthorityGroupAdd, U!AuthorityName, U!AuthorityValue, U!MemberAdd, U!Retry
<1>2. \A q \in Run : q # r => pc'[q] = pc[q]
  BY SameUaaScript, UP!OthersStay, SameAssumptions DEF UaaInv
<1> QED BY <1>1, <1>2

LEMMA CoupledKept ==
  ASSUME IInv, [Next]_vars
  PROVE  Coupled'
<1>0. /\ Coupled /\ pc \in [Run -> UP!Label] /\ step \in [Run -> CP!Label]
  BY UaaParts, ScfParts DEF IInv
<1>1. ASSUME \A q \in Run : \/ step'[q] \in {"idle", "failed"}
                            \/ step'[q] = step[q] /\ pc'[q] = pc[q]
      PROVE  Coupled'
  BY <1>0, <1>1 DEF Coupled
<1>2. ASSUME NEW r \in Run, CreateUser(r)
      PROVE  Coupled'
  <2>1. /\ step' = step /\ pc[r] # "done"
        /\ \A q \in Run : q # r => pc'[q] = pc[q]
    BY <1>2, OneScript DEF CreateUser, scf, configuring, IInv
  <2>2. step[r] \in {"idle", "failed"}
    BY <1>0, <2>1 DEF Coupled
  <2> QED BY <1>1, <2>1, <2>2
<1>3. ASSUME NEW r \in Run, StartConfigure(r)
      PROVE  Coupled'
  <2>1. /\ pc' = pc /\ pc[r] = "done" /\ step' = [step EXCEPT ![r] = "waitCC"]
    BY <1>3 DEF StartConfigure, U!At, C!Goto, creating
  <2> QED BY <1>0, <2>1 DEF Coupled
<1>4. ASSUME NEW r \in Run, Configure(r)
      PROVE  Coupled'
  <2>1. /\ pc[r] = "done" /\ CP!Script(r)
        /\ pc' = [pc EXCEPT ![r] = IF step'[r] = "failed" THEN "failed" ELSE @]
    BY <1>4, SameScfScript DEF Configure, U!At
  <2>2. step' = [step EXCEPT ![r] = step'[r]]
    BY <2>1, CP!ScriptProgress, SameAssumptions DEF IInv, CP!IInv
  <2> QED BY <1>0, <2>1, <2>2 DEF Coupled
<1>5. CASE \E r \in Run : Crash(r)
  <2>1. PICK r \in Run : Crash(r)
    BY <1>5
  <2>2. /\ step' = step /\ pc[r] # "done"
        /\ \A q \in Run : q # r => pc'[q] = pc[q]
    BY <2>1 DEF Crash, U!Crash, U!Forget, scf, configuring
  <2>3. step[r] \in {"idle", "failed"}
    BY <1>0, <2>2 DEF Coupled
  <2> QED BY <1>1, <2>2, <2>3
<1>6. CASE \E r \in Run : Kill(r)
  BY <1>1, <1>6 DEF Kill, U!Forget, C!End
<1>7. CASE \E c \in Config : Upgrade(c)
  BY <1>1, <1>7 DEF Upgrade, C!End
<1>8. CASE UNCHANGED <<pc, step>>
  BY <1>1, <1>8
<1>9. \/ \E r \in Run : Expire(r)
      \/ UaaOutage \/ OtherOutage \/ Recover
      \/ \E g \in Group : OtherJoins(g)
      \/ \E p \in Person : PersonJoins(p)
      \/ UNCHANGED vars
      => UNCHANGED <<pc, step>>
  BY DEF Expire, C!Expire, UaaOutage, U!Outage, U!run, OtherOutage, Recover,
     OtherJoins, U!OtherJoins, PersonJoins, C!PersonJoins, C!run, vars, scf,
     configuring, creating
<1> QED
  BY <1>2, <1>3, <1>4, <1>5, <1>6, <1>7, <1>8, <1>9 DEF Next, Pods

LEMMA BoundedKept ==
  ASSUME IInv, [Next]_vars
  PROVE  Bounded'
<1>0. /\ outages \in Nat /\ outages <= MaxOutages /\ MaxOutages \in Nat
      /\ faults \in 0 .. MaxFaults /\ MaxFaults \in Nat
  BY UaaParts, ConstantFacts, ConstantsAssumption DEF IInv, Bounded
<1>1. CASE UNCHANGED <<outages, faults>>
  BY <1>0, <1>1 DEF Bounded
<1>2. CASE UaaOutage
  BY <1>0, <1>2 DEF UaaOutage, U!Outage, scf, Bounded
<1>3. CASE OtherOutage
  BY <1>0, <1>3 DEF OtherOutage, env, Bounded
<1>6. ASSUME NEW r \in Run, Expire(r) \/ Kill(r)
      PROVE  Bounded'
  <2>1. faults < MaxFaults /\ faults' = faults + 1 /\ outages' = outages
    BY <1>6 DEF Expire, Kill, env
  <2> QED BY <1>0, <2>1 DEF Bounded
<1>4. ASSUME NEW r \in Run, CreateUser(r)
      PROVE  UNCHANGED <<outages, faults>>
  BY <1>4, SecretOnly DEF IInv, CreateUser, scf, env
<1>5. \/ \E r \in Run : StartConfigure(r) \/ Configure(r) \/ Crash(r)
      \/ Recover
      \/ \E g \in Group : OtherJoins(g)
      \/ \E p \in Person : PersonJoins(p)
      \/ \E c \in Config : Upgrade(c)
      \/ UNCHANGED vars
      => UNCHANGED <<outages, faults>>
  BY DEF StartConfigure, Configure, Crash, U!Crash, Recover, OtherJoins,
     U!OtherJoins, PersonJoins, Upgrade, U!Upgrade, vars, scf, env
<1> QED
  BY <1>1, <1>2, <1>3, <1>4, <1>5, <1>6 DEF Next, Pods

LEMMA InitInv ==
  ASSUME Init
  PROVE  IInv
<1>1. UP!Init /\ CP!Init
  BY SameUaa, SameScf DEF Init
<1>2. UaaInv
  BY <1>1, UP!TypeInit, UP!ProgressInit, SameAssumptions DEF UaaInv
<1>3. CP!IInv
  BY <1>1, CP!InvInit, SameAssumptions
<1>4. Coupled
  BY DEF Init, C!Init, Coupled
<1>5. Bounded
  BY ConstantFacts, ConstantsAssumption DEF Init, U!Init, Bounded
<1> QED BY <1>2, <1>3, <1>4, <1>5 DEF IInv

LEMMA InvStep == IInv /\ [Next]_vars => IInv'
BY UaaKept, ScfKept, CoupledKept, BoundedKept DEF IInv

-----------------------------------------------------------------------------
(* What follows.                                                           *)

\* Each variable keeps its type: those of the two jobs, and what one sees of
\* the other's.
THEOREM TypeCorrect == Spec => []TypeOK
<1>1. ASSUME IInv
      PROVE  TypeOK
  <2>1. U!TypeOK
    <3>1. UP!TypeOK
      BY <1>1, UP!TypeInvTypeOK, SameAssumptions DEF IInv, UaaInv
    <3> QED
      BY <3>1 DEF U!TypeOK, UP!TypeOK, U!ClientRecord, UP!ClientRecord,
         U!Label, UP!Label
  <2>2. C!TypeOK
    <3>1. CP!TypeOK
      BY <1>1, CP!TypeParts, SameAssumptions DEF IInv, CP!IInv
    <3> QED
      BY <3>1 DEF C!TypeOK, CP!TypeOK, C!Label, CP!Label, C!Runtime, CP!Runtime
  <2> QED BY <1>1, <2>1, <2>2 DEF IInv, Bounded, TypeOK
<1>2. Init => IInv
  BY InitInv
<1> QED BY <1>1, <1>2, InvStep, PTL DEF Spec

\* What ConfigureScf assumes of uaa-create-user is what uaa-create-user does:
\* every step of a pod of the post-deployment job, and of what is around it,
\* is one of ConfigureScf or of the environment that it assumes.
THEOREM ImplementsConfigureScfAlways == Spec => ImplementsConfigureScf
<1>1. Init => IInv
  BY InitInv
<1>2. Init => C!Init
  BY DEF Init
<1>3. IInv /\ [Next]_vars => [C!Next]_(C!vars)
  BY StepImplements
<1> QED
  BY <1>1, <1>2, <1>3, InvStep, PTL DEF Spec, ImplementsConfigureScf, C!Spec

\* A pod that has ended well leaves all that is configured, in the UAA and in
\* the cloud controller, however often it was killed, repeated and upgraded.
THEOREM DoneDeployedAlways == Spec => []DoneDeployed
<1>1. ASSUME IInv
      PROVE  DoneDeployed
  <2> SUFFICES ASSUME NEW r \in Run, step[r] = "done"
               PROVE  /\ U!Provisioned
                      /\ \A t \in C!Runtime :
                           Settings[config].env[t] \in {NoSecret, varGroups[t]}
                      /\ Settings[config].broker \in {NoSecret, broker}
    BY DEF DoneDeployed, C!At
  <2>1. pc[r] = "done"
    BY <1>1 DEF IInv, Coupled
  <2>2. UP!Provisioned
    <3>1. UP!DoneProvisioned
      BY <1>1, UP!DoneIsProvisioned, SameAssumptions DEF IInv, UaaInv
    <3> QED BY <2>1, <3>1 DEF UP!DoneProvisioned, UP!At
  <2>3. U!Provisioned
    BY <2>2 DEF U!Provisioned, UP!Provisioned
  <2>4. CP!Now("done")
    BY <1>1 DEF IInv, CP!IInv
  <2> QED
    BY <2>3, <2>4 DEF CP!Now, CP!ConfiguredAt, C!Runtime
<1>2. Init => IInv
  BY InitInv
<1> QED BY <1>1, <1>2, InvStep, PTL DEF Spec

-----------------------------------------------------------------------------
(* The composition implements Provisioning.                                *)

\* The slots are those of the two jobs.
LEMMA SameSlots ==
  /\ UI!Slots = UP!Slots /\ C!Slots = CP!Slots
  /\ UI!Have = UP!Have /\ UI!Want = UP!Want
  /\ C!Have = CP!Have /\ C!Want = CP!Want
<1>1. \A b : UI!Mark(b) = UP!Mark(b)
  BY DEF UI!Mark, UP!Mark
<1>2. UI!Slots = UP!Slots /\ C!Slots = CP!Slots
  BY DEF UI!Slots, UP!Slots, C!Slots, CP!Slots, C!Runtime, CP!Runtime
<1> QED
  BY <1>1, <1>2, Zenon DEF UI!Have, UP!Have, UI!Want, UP!Want,
     C!Have, CP!Have, C!Want, CP!Want

LEMMA SameSlotsNext ==
  UI!Have' = UP!Have' /\ UI!Want' = UP!Want' /\ C!Have' = CP!Have' /\ C!Want' = CP!Want'
<1>1. (UI!Have = UP!Have /\ UI!Want = UP!Want /\ C!Have = CP!Have /\ C!Want = CP!Want)'
  BY SameSlots, PTL
<1> QED BY <1>1

LEMMA SlotKinds ==
  ASSUME NEW s \in Slots
  PROVE  \/ \E x \in UP!Slots : s = <<"uaa", x>>
         \/ \E x \in CP!Slots : s = <<"scf", x>>
BY SameSlots DEF Slots

LEMMA KindsAreSlots ==
  /\ \A x \in UP!Slots : <<"uaa", x>> \in Slots
  /\ \A x \in CP!Slots : <<"scf", x>> \in Slots
BY SameSlots DEF Slots

\* What each slot holds, and what is wanted there ...
LEMMA SlotsNow ==
  /\ \A x \in UP!Slots : /\ Have[<<"uaa", x>>] = UP!Have[x]
                         /\ Want[<<"uaa", x>>] = UP!Want[x]
  /\ \A x \in CP!Slots : /\ Have[<<"scf", x>>] = CP!Have[x]
                         /\ Want[<<"scf", x>>] = CP!Want[x]
BY KindsAreSlots, SameSlots DEF Have, Want

\* ... after a step.
LEMMA SlotsNext ==
  /\ \A x \in UP!Slots : Have'[<<"uaa", x>>] = UP!Have'[x]
  /\ \A x \in CP!Slots : Have'[<<"scf", x>>] = CP!Have'[x]
BY KindsAreSlots, SameSlotsNext DEF Have

LEMMA SlotTypes ==
  ASSUME UP!TypeInv, CP!RestOK
  PROVE  /\ Have \in [Slots -> (Value \cup {Present}) \cup {NoSecret}]
         /\ Want \in [Slots -> (Value \cup {Present}) \cup {NoSecret}]
<1>1. /\ UP!Have \in [UP!Slots -> UP!AnyValue]
      /\ UP!Want \in [UP!Slots -> UP!AnyValue]
  BY UP!SlotTypes, SameAssumptions
<1>2. /\ CP!Have \in [CP!Slots -> Value \cup {NoSecret}]
      /\ CP!Want \in [CP!Slots -> Value \cup {NoSecret}]
  BY CP!SlotTypes, SameAssumptions
<1>3. UP!AnyValue \subseteq (Value \cup {Present}) \cup {NoSecret}
  BY SettingsAssumption DEF UP!AnyValue
<1>4. ASSUME NEW s \in Slots
      PROVE  /\ Have[s] \in (Value \cup {Present}) \cup {NoSecret}
             /\ Want[s] \in (Value \cup {Present}) \cup {NoSecret}
  <2>1. ASSUME NEW x \in UP!Slots, s = <<"uaa", x>>
        PROVE  Have[s] \in UP!AnyValue /\ Want[s] \in UP!AnyValue
    BY <1>1, <2>1, SlotsNow
  <2>2. ASSUME NEW x \in CP!Slots, s = <<"scf", x>>
        PROVE  Have[s] \in Value \cup {NoSecret} /\ Want[s] \in Value \cup {NoSecret}
    BY <1>2, <2>2, SlotsNow
  <2> QED BY <1>3, <2>1, <2>2, SlotKinds
<1>5. Have = [s \in Slots |-> Have[s]]
  BY Zenon DEF Have
<1>6. Want = [s \in Slots |-> Want[s]]
  BY Zenon DEF Want
<1> QED BY <1>4, <1>5, <1>6

LEMMA SlotTypesNext ==
  (UP!TypeInv /\ CP!RestOK)' =>
    /\ Have' \in [Slots -> (Value \cup {Present}) \cup {NoSecret}]
    /\ Want' \in [Slots -> (Value \cup {Present}) \cup {NoSecret}]
<1>1. (UP!TypeInv /\ CP!RestOK =>
         /\ Have \in [Slots -> (Value \cup {Present}) \cup {NoSecret}]
         /\ Want \in [Slots -> (Value \cup {Present}) \cup {NoSecret}])'
  BY SlotTypes, PTL
<1> QED BY <1>1

\* What is in the UAA, or in the cloud controller, has not changed.
LEMMA UaaSlotsSame ==
  ASSUME UNCHANGED <<uaa, config>>
  PROVE  UNCHANGED <<UP!Have, UP!Want>>
BY DEF uaa, UP!Have, UP!Want, UP!Mark

LEMMA ScfSlotsSame ==
  ASSUME UNCHANGED <<varGroups, broker, config>>
  PROVE  UNCHANGED <<CP!Have, CP!Want>>
BY DEF CP!Have, CP!Want

LEMMA SlotsSame ==
  ASSUME UNCHANGED <<UP!Have, UP!Want, CP!Have, CP!Want>>
  PROVE  UNCHANGED <<Have, Want>>
BY SameSlots, SameSlotsNext DEF Have, Want

LEMMA AnnouncedSame ==
  ASSUME \A r \in Run : step'[r] = "done" <=> step[r] = "done"
  PROVE  C!Announced' = C!Announced
BY DEF C!Announced, C!At

\* The invariants of the two refinements.
Providing == UP!AbsentEmpty /\ CP!BrokerWanted

\* A step of uaa-create-user: the slots of the UAA go forward.
LEMMA CreateUserProvides ==
  ASSUME IInv, IInv', Providing, NEW r \in Run, CreateUser(r)
  PROVE  Abstract!Provide
<1>1. /\ UP!TypeInv /\ UP!TypeInv' /\ CP!RestOK'
      /\ UP!AbsentEmpty /\ UP!Script(r) /\ UNCHANGED scf
  BY SameUaaScript DEF IInv, UaaInv, CP!IInv, Providing, CreateUser
<1>2. /\ UP!Want' = UP!Want
      /\ \A x \in UP!Slots :
           \/ UP!Have'[x] = UP!Have[x]
           \/ UP!Want[x] # NoSecret /\ UP!Have'[x] = UP!Want[x]
           \/ UP!Want[x] = NoSecret /\ UP!Have[x] = NoSecret
  BY <1>1, UP!ScriptForward, SameAssumptions
<1>3. UNCHANGED config
  BY <1>1, SecretOnly DEF IInv, CreateUser, env
<1>4. UNCHANGED <<CP!Have, CP!Want>>
  BY <1>1, <1>3, ScfSlotsSame DEF scf, controller
<1>5. C!Announced' = C!Announced
  BY <1>1 DEF C!Announced, C!At, scf, configuring
<1>6. Want' = Want
  BY <1>2, <1>4, SameSlots, SameSlotsNext DEF Want
<1>7. ASSUME NEW s \in Slots
      PROVE  \/ Have'[s] = Have[s]
             \/ Want[s] # NoSecret /\ Have'[s] = Want[s]
             \/ Want[s] = NoSecret /\ Have[s] = NoSecret
  <2>1. ASSUME NEW x \in UP!Slots, s = <<"uaa", x>>
        PROVE  \/ Have'[s] = Have[s]
               \/ Want[s] # NoSecret /\ Have'[s] = Want[s]
               \/ Want[s] = NoSecret /\ Have[s] = NoSecret
    BY <1>2, <2>1, SlotsNow, SlotsNext
  <2>2. ASSUME NEW x \in CP!Slots, s = <<"scf", x>>
        PROVE  Have'[s] = Have[s]
    BY <1>4, <2>2, SlotsNow, SlotsNext
  <2> QED BY <2>1, <2>2, SlotKinds
<1>8. Have' \in [Slots -> (Value \cup {Present}) \cup {NoSecret}]
  BY <1>1, SlotTypesNext
<1> QED
  BY <1>5, <1>6, <1>7, <1>8 DEF Abstract!Provide, Abstract!Wanted

\* A step of configure-scf: the slots of the cloud controller go forward, or,
\* with the last one, success is announced.
LEMMA ConfigureProvides ==
  ASSUME IInv, IInv', Providing, DoneDeployed', NEW r \in Run, Configure(r)
  PROVE  Abstract!Next
<1>1. /\ CP!RestOK /\ CP!RunOK /\ CP!RestOK' /\ UP!TypeInv'
      /\ CP!BrokerWanted /\ CP!Script(r) /\ UNCHANGED <<uaa, config>>
  BY SameScfScript DEF IInv, UaaInv, CP!IInv, Providing, Configure, env
<1>2. /\ step[r] # "done"
      /\ step'[r] = "done" => UNCHANGED <<varGroups, broker, Settings[config]>>
  BY <1>1, CP!ScriptDone, SameAssumptions
<1>3. \A q \in Run : q # r => step'[q] = step[q]
  <2>1. step' = [step EXCEPT ![r] = step'[r]]
    BY <1>1, CP!ScriptProgress, SameAssumptions DEF IInv, CP!IInv
  <2> QED BY <1>1, <2>1 DEF CP!RunOK
<1>4. UNCHANGED <<UP!Have, UP!Want>>
  BY <1>1, UaaSlotsSame
<1>5. CASE step'[r] # "done"
  <2>1. C!Announced' = C!Announced
    BY <1>2, <1>3, <1>5, AnnouncedSame
  <2>2. CP!Want' = CP!Want
    BY <1>1 DEF CP!Want
  <2>3. Want' = Want
    BY <1>4, <2>2, SameSlots, SameSlotsNext DEF Want
  <2>4. ASSUME NEW x \in CP!Slots
        PROVE  \/ CP!Have'[x] = CP!Have[x]
               \/ CP!Want[x] # NoSecret /\ CP!Have'[x] = CP!Want[x]
    <3>1. /\ \A t \in CP!Runtime :
               \/ varGroups'[t] = varGroups[t]
               \/ /\ Settings[config].env[t] # NoSecret
                  /\ varGroups'[t] = Settings[config].env[t]
          /\ \/ broker' = broker
             \/ /\ Settings[config].broker # NoSecret
                /\ broker' = Settings[config].broker
      BY <1>1, CP!ScriptForward, SameAssumptions
    <3>2. x \in CP!Runtime \/ x = "broker"
      BY DEF CP!Slots
    <3> QED
      BY <3>1, <3>2, CP!SlotValues, CP!SlotValuesNext, SameAssumptions
  <2>5. ASSUME NEW s \in Slots
        PROVE  \/ Have'[s] = Have[s]
               \/ Want[s] # NoSecret /\ Have'[s] = Want[s]
    <3>1. ASSUME NEW x \in UP!Slots, s = <<"uaa", x>>
          PROVE  Have'[s] = Have[s]
      BY <1>4, <3>1, SlotsNow, SlotsNext
    <3>2. ASSUME NEW x \in CP!Slots, s = <<"scf", x>>
          PROVE  \/ Have'[s] = Have[s]
                 \/ Want[s] # NoSecret /\ Have'[s] = Want[s]
      BY <2>4, <3>2, SlotsNow, SlotsNext
    <3> QED BY <3>1, <3>2, SlotKinds
  <2>6. Have' \in [Slots -> (Value \cup {Present}) \cup {NoSecret}]
    BY <1>1, SlotTypesNext
  <2> QED BY <2>1, <2>3, <2>5, <2>6
          DEF Abstract!Next, Abstract!Provide, Abstract!Wanted
<1>6. CASE step'[r] = "done"
  <2>1. UNCHANGED <<Have, Want>>
    BY <1>1, <1>2, <1>4, <1>6, ScfSlotsSame, SlotsSame
  <2>2. /\ U!Provisioned'
        /\ \A t \in C!Runtime :
             Settings[config].env[t] \in {NoSecret, varGroups[t]}
        /\ Settings[config].broker \in {NoSecret, broker}
    BY <1>1, <1>2, <1>6 DEF DoneDeployed, C!At
  <2>3. UP!Provisioned
    BY <1>1, <2>2 DEF U!Provisioned, UP!Provisioned, uaa
  <2>4. \A x \in UP!Slots : UP!Want[x] # NoSecret => UP!Have[x] = UP!Want[x]
    <3>1. UP!TypeInv
      BY DEF IInv, UaaInv
    <3> QED
      BY <2>3, <3>1, UP!ProvisionedComplete, SameAssumptions
         DEF UP!Abstract!Complete, UP!Abstract!Wanted
  <2>5. \A x \in CP!Slots : CP!Want[x] # NoSecret => CP!Have[x] = CP!Want[x]
    BY <2>2, CP!SlotValues, SameAssumptions DEF C!Runtime, CP!Runtime
  <2>6. ASSUME NEW s \in Slots, Want[s] # NoSecret
        PROVE  Have[s] = Want[s]
    BY <2>4, <2>5, <2>6, SlotKinds, SlotsNow
  <2>7. C!Announced' = TRUE
    BY <1>6 DEF C!Announced, C!At
  <2> QED BY <2>1, <2>6, <2>7
          DEF Abstract!Next, Abstract!Announce, Abstract!Complete, Abstract!Wanted
<1> QED BY <1>5, <1>6

LEMMA StepProvides ==
  ASSUME IInv, IInv', Providing, DoneDeployed', [Next]_vars
  PROVE  [Abstract!Next]_(Abstract!vars)
<1>1. ASSUME UNCHANGED <<uaa, config, varGroups, broker>>,
             \A r \in Run : step'[r] = "done" <=> step[r] = "done"
      PROVE  UNCHANGED Abstract!vars
  BY <1>1, UaaSlotsSame, ScfSlotsSame, SlotsSame, AnnouncedSame DEF Abstract!vars
<1>2. ASSUME UNCHANGED <<uaa, config, scf>>
      PROVE  UNCHANGED Abstract!vars
  BY <1>1, <1>2 DEF scf, controller, configuring
<1>3. ASSUME NEW r \in Run, Pods(r)
      PROVE  [Abstract!Next]_(Abstract!vars)
  <2>1. CASE CreateUser(r)
    BY <2>1, CreateUserProvides DEF Abstract!Next
  <2>2. CASE StartConfigure(r)
    <3>1. \A q \in Run : step'[q] = "done" <=> step[q] = "done"
      BY <2>2, ScfParts DEF IInv, StartConfigure, C!At, C!Goto
    <3> QED BY <1>1, <2>2, <3>1 DEF StartConfigure, env, controller
  <2>3. CASE Configure(r)
    BY <2>3, ConfigureProvides
  <2> QED BY <1>3, <2>1, <2>2, <2>3 DEF Pods
<1>4. CASE \E r \in Run : Crash(r)
  BY <1>2, <1>4 DEF Crash, U!Crash, U!uaa, uaa
<1>5. ASSUME NEW r \in Run, Kill(r)
      PROVE  UNCHANGED Abstract!vars
  <2>1. \A q \in Run : step'[q] = "done" <=> step[q] = "done"
    BY <1>5 DEF Kill, C!End
  <2> QED BY <1>1, <1>5, <2>1 DEF Kill, env, controller
<1>6. CASE \E r \in Run : Expire(r)
  BY <1>1, <1>6 DEF Expire, C!Expire, C!controller, env
<1>7. CASE UaaOutage \/ \E g \in Group : OtherJoins(g)
  BY <1>2, <1>7 DEF UaaOutage, U!Outage, OtherJoins, U!OtherJoins, U!uaa, uaa
<1>8. CASE OtherOutage \/ Recover
  BY <1>1, <1>8 DEF OtherOutage, Recover, env, configuring
<1>9. CASE \E p \in Person : PersonJoins(p)
  BY <1>1, <1>9 DEF PersonJoins, C!PersonJoins, C!run, env
<1>10. ASSUME NEW c \in Config, Upgrade(c)
       PROVE  Abstract!Redeploy
  <2>1. UNCHANGED <<uaa, controller>> /\ C!Announced' = FALSE
    BY <1>10 DEF Upgrade, U!Upgrade, U!uaa, uaa, C!End, C!Announced, C!At
  <2>2. UP!Have' = UP!Have /\ CP!Have' = CP!Have
    BY <2>1 DEF uaa, controller, UP!Have, UP!Mark, CP!Have
  <2>3. Have' = Have
    BY <2>2, SameSlots, SameSlotsNext DEF Have
  <2>4. Want' \in [Slots -> (Value \cup {Present}) \cup {NoSecret}]
    BY SlotTypesNext DEF IInv, UaaInv, CP!IInv
  <2> QED BY <2>1, <2>3, <2>4 DEF Abstract!Redeploy
<1>11. CASE UNCHANGED vars
  BY <1>2, <1>11 DEF vars, env
<1> QED
  BY <1>3, <1>4, <1>5, <1>6, <1>7, <1>8, <1>9, <1>10, <1>11
     DEF Next, Abstract!Next

LEMMA ProvidingKept ==
  ASSUME IInv, Providing, [Next]_vars
  PROVE  Providing'
<1>1. CP!BrokerWanted'
  <2>1. (UNCHANGED C!vars) <=> UNCHANGED CP!vars
    BY DEF C!vars, CP!vars, C!services, CP!services, C!controller,
       CP!controller, C!deployment, CP!deployment, C!run, CP!run
  <2>2. [CP!Next]_(CP!vars)
    BY <2>1, StepImplements, SameScf
  <2> QED BY <2>2, CP!BrokerWantedStep, SameAssumptions DEF IInv, Providing
<1>2. UP!AbsentEmpty'
  <2>1. ASSUME UNCHANGED uaa
        PROVE  UP!AbsentEmpty'
    BY <2>1 DEF uaa, UP!AbsentEmpty, Providing
  <2>2. ASSUME NEW r \in Run, CreateUser(r)
        PROVE  UP!AbsentEmpty'
    BY <2>2, SameUaaScript, UP!SecretStep, SameAssumptions
       DEF IInv, UaaInv, Providing, CreateUser
  <2> QED
    BY <2>1, <2>2 DEF Next, Pods, StartConfigure, Configure, Crash, U!Crash,
       Kill, Expire, UaaOutage, U!Outage, OtherOutage, Recover, OtherJoins,
       U!OtherJoins, PersonJoins, Upgrade, U!Upgrade, U!uaa, uaa, vars
<1> QED BY <1>1, <1>2 DEF Providing

LEMMA InitProvides ==
  ASSUME Init
  PROVE  Providing /\ Abstract!Init
<1>1. UP!Init /\ CP!Init /\ UP!TypeInv /\ CP!RestOK
  BY SameUaa, SameScf, InitInv DEF Init, IInv, UaaInv, CP!IInv
<1>2. Providing
  BY <1>1, UP!AbsentInit, CP!BrokerWantedInit, SameAssumptions DEF Providing
<1>3. /\ \A x \in UP!Slots : UP!Have[x] = NoSecret
      /\ \A x \in CP!Slots : CP!Have[x] = NoSecret
  BY <1>1, UP!InitImplements, CP!InitImplements, SameAssumptions
     DEF UP!Abstract!Init, CP!Abstract!Init
<1>4. /\ Have \in [Slots -> (Value \cup {Present}) \cup {NoSecret}]
      /\ Want \in [Slots -> (Value \cup {Present}) \cup {NoSecret}]
  BY <1>1, SlotTypes
<1>5. \A s \in Slots : Have[s] = NoSecret
  BY <1>3, SlotKinds, SlotsNow
<1>6. Have = [s \in Slots |-> NoSecret]
  BY <1>4, <1>5
<1>7. C!Announced = FALSE
  BY DEF Init, C!Init, C!Announced, C!At
<1> QED BY <1>2, <1>4, <1>6, <1>7 DEF Abstract!Init

\* The two scripts, one after the other, keep the promise of Provisioning for
\* both services together: a pod that begins again with uaa-create-user, after
\* it failed or was killed in configure-scf, takes nothing back, and success
\* means that all that the revision wants is in both services.
THEOREM ImplementsProvisioningAlways == Spec => ImplementsProvisioning
<1>1. Init => IInv /\ Providing /\ Abstract!Init
  BY InitInv, InitProvides
<1>2. IInv /\ Providing /\ [Next]_vars => IInv' /\ Providing'
  BY InvStep, ProvidingKept
<1>3. IInv /\ IInv' /\ Providing /\ DoneDeployed' /\ [Next]_vars
        => [Abstract!Next]_(Abstract!vars)
  BY StepProvides
<1> QED
  BY <1>1, <1>2, <1>3, DoneDeployedAlways, PTL
     DEF Spec, ImplementsProvisioning, Abstract!Spec
=============================================================================
