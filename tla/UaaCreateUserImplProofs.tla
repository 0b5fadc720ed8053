----------------------- MODULE UaaCreateUserImplProofs -----------------------
(***************************************************************************)
(* The uaa-create-user job implements Provisioning, for any pods, groups,  *)
(* clients, configurations and bounds: every step of a pod and of its      *)
(* surroundings is one of the abstract specification or changes nothing    *)
(* of it.  The step that announces needs the invariant of                  *)
(* UaaCreateUserProofs: where a script ends everything is provided.        *)
(***************************************************************************)
EXTENDS UaaCreateUserImpl, UaaCreateUserProofs

AnyValue == (Secret \cup {Present}) \cup {NoSecret}

-----------------------------------------------------------------------------
(* The slots.                                                              *)

LEMMA SlotKinds ==
  ASSUME NEW s \in Slots
  PROVE  \/ s = <<"zone", Present>> \/ s = <<"user", Present>>
         \/ \E g \in Group : s = <<"group", g>>
         \/ \E c \in Client : s = <<"client", c>> \/ s = <<"secret", c>>
BY DEF Slots

LEMMA KindsAreSlots ==
  /\ <<"zone", Present>> \in Slots /\ <<"user", Present>> \in Slots
  /\ \A g \in Group : <<"group", g>> \in Slots
  /\ \A c \in Client : <<"client", c>> \in Slots /\ <<"secret", c>> \in Slots
BY DEF Slots

\* What each slot holds, and what is wanted there ...
LEMMA SlotsNow ==
  /\ Have[<<"zone", Present>>] = Mark(zone)
  /\ Have[<<"user", Present>>] = Mark(user)
  /\ \A g \in Group : Have[<<"group", g>>] = Mark(g \in groups)
  /\ \A c \in Client : /\ Have[<<"client", c>>] = Mark(clients[c].exists)
                       /\ Have[<<"secret", c>>] = clients[c].secret
  /\ Want[<<"zone", Present>>] = Present
  /\ Want[<<"user", Present>>] = Present
  /\ \A g \in Group : Want[<<"group", g>>] = Mark(g \in config.groups)
  /\ \A c \in Client : /\ Want[<<"client", c>>] = Present
                       /\ Want[<<"secret", c>>] = config.secret[c]
BY KindsAreSlots DEF Have, Want

\* ... after a step.
LEMMA SlotsNext ==
  /\ Have'[<<"zone", Present>>] = Mark(zone')
  /\ Have'[<<"user", Present>>] = Mark(user')
  /\ \A g \in Group : Have'[<<"group", g>>] = Mark(g \in groups')
  /\ \A c \in Client : /\ Have'[<<"client", c>>] = Mark(clients'[c].exists)
                       /\ Have'[<<"secret", c>>] = clients'[c].secret
BY KindsAreSlots DEF Have

LEMMA MarkValues ==
  /\ \A b \in BOOLEAN : Mark(b) \in AnyValue
  /\ Mark(TRUE) = Present /\ Mark(FALSE) = NoSecret /\ Present # NoSecret
BY PresentAssumption DEF Mark, AnyValue

LEMMA SlotTypes ==
  TypeInv => Have \in [Slots -> AnyValue] /\ Want \in [Slots -> AnyValue]
<1> SUFFICES ASSUME TypeInv
             PROVE  Have \in [Slots -> AnyValue] /\ Want \in [Slots -> AnyValue]
  OBVIOUS
<1>1. config \in ConfigType
  BY ConstantsAssumption DEF TypeInv, EnvOK
<1>2. \A c \in Client :
        /\ clients[c].exists \in BOOLEAN
        /\ clients[c].secret \in AnyValue /\ config.secret[c] \in AnyValue
  BY <1>1 DEF TypeInv, UaaOK, ClientRecord, ConfigType, AnyValue
<1>3. ASSUME NEW s \in Slots
      PROVE  Have[s] \in AnyValue /\ Want[s] \in AnyValue
  <2>1. zone \in BOOLEAN /\ user \in BOOLEAN /\ Present \in AnyValue
    BY DEF TypeInv, UaaOK, AnyValue
  <2>2. CASE s = <<"zone", Present>> \/ s = <<"user", Present>>
    BY <2>1, <2>2, SlotsNow, MarkValues
  <2>3. ASSUME NEW g \in Group, s = <<"group", g>>
        PROVE  Have[s] \in AnyValue /\ Want[s] \in AnyValue
    <3>1. (g \in groups) \in BOOLEAN /\ (g \in config.groups) \in BOOLEAN
      OBVIOUS
    <3> QED BY <2>3, <3>1, SlotsNow, MarkValues
  <2>4. ASSUME NEW c \in Client, s = <<"client", c>> \/ s = <<"secret", c>>
        PROVE  Have[s] \in AnyValue /\ Want[s] \in AnyValue
    BY <1>2, <2>1, <2>4, SlotsNow, MarkValues
  <2> QED BY <2>2, <2>3, <2>4, SlotKinds
<1>4. Have = [s \in Slots |-> Have[s]]
  BY Zenon DEF Have
<1>5. Want = [s \in Slots |-> Want[s]]
  BY Zenon DEF Want
<1> QED BY <1>3, <1>4, <1>5

LEMMA SlotTypesNext ==
  TypeInv' => (Have \in [Slots -> AnyValue] /\ Want \in [Slots -> AnyValue])'
BY SlotTypes, PTL

-----------------------------------------------------------------------------
(* The steps.                                                              *)

\* A client that is not there has no secret.
AbsentEmpty ==
  \A c \in Client : ~clients[c].exists => clients[c].secret = NoSecret

\* A secret is left alone, set to the one that is wanted, or, where none is,
\* not there before.
SecretsForward ==
  \A c \in Client :
    \/ clients'[c].secret = clients[c].secret
    \/ config.secret[c] # NoSecret /\ clients'[c].secret = config.secret[c]
    \/ config.secret[c] = NoSecret /\ clients[c].secret = NoSecret

LEMMA SecretStep ==
  ASSUME TypeInv, AbsentEmpty, NEW r \in Run, Script(r)
  PROVE  SecretsForward /\ AbsentEmpty'
<1> USE DEF uaa
<1>1. clients \in [Client -> ClientRecord]
  BY DEF TypeInv, UaaOK
<1>2. ASSUME UNCHANGED clients
      PROVE  SecretsForward /\ AbsentEmpty'
  BY <1>2 DEF SecretsForward, AbsentEmpty
<1>3. CASE ClientAdd(r)
  <2>1. CASE UNCHANGED clients
    BY <1>2, <2>1
  <2>2. CASE /\ ~clients[Item(r)].exists
             /\ clients' = [clients EXCEPT ![Item(r)] =
                  [exists |-> TRUE, secret |-> config.secret[Item(r)],
                   scope |-> config.scope]]
    BY <1>1, <2>2 DEF SecretsForward, AbsentEmpty
  <2> QED BY <1>3, <2>1, <2>2 DEF ClientAdd
<1>4. CASE ClientSecret(r)
  <2>1. CASE UNCHANGED clients
    BY <1>2, <2>1
  <2>2. CASE /\ config.secret[Item(r)] # NoSecret /\ clients[Item(r)].exists
             /\ clients' = [clients EXCEPT
                              ![Item(r)].secret = config.secret[Item(r)]]
    <3>1. ASSUME NEW c \in Client
          PROVE  /\ clients'[c].exists = clients[c].exists
                 /\ c # Item(r) => clients'[c] = clients[c]
                 /\ c = Item(r) => clients'[c].secret = config.secret[c]
      BY <1>1, <2>2 DEF ClientRecord
    <3> QED BY <2>2, <3>1 DEF SecretsForward, AbsentEmpty
  <2> QED BY <1>4, <2>1, <2>2 DEF ClientSecret
<1>5. CASE ~ClientAdd(r) /\ ~ClientSecret(r)
  <2>1. UNCHANGED clients
    BY <1>5 DEF Script, Start, WaitRoot, Target, ZoneCheck, ZoneCreate,
       GroupCheck, GroupAdd, ClientCheck, WaitZone, Login, UserCheck, UserAdd,
       AuthorityCheck, AuthorityUserId, AuthorityGroup, AuthorityGroupAdd,
       AuthorityName, AuthorityValue, MemberAdd, Retry
  <2> QED BY <1>2, <2>1
<1> QED BY <1>3, <1>4, <1>5

\* What a script puts in place is what is wanted, or fills an empty slot.
LEMMA ScriptForward ==
  ASSUME TypeInv, TypeInv', AbsentEmpty, NEW r \in Run, Script(r)
  PROVE  /\ Have' \in [Slots -> AnyValue] /\ Want' = Want
         /\ \A s \in Slots :
              \/ Have'[s] = Have[s]
              \/ Want[s] # NoSecret /\ Have'[s] = Want[s]
              \/ Want[s] = NoSecret /\ Have[s] = NoSecret
<1>1. Kept /\ SecretsForward
  BY KeptByScript, SecretStep
<1>2. Have' \in [Slots -> AnyValue]
  BY SlotTypesNext
<1>3. Want' = Want
  BY <1>1 DEF Kept, Want
<1>4. ASSUME NEW s \in Slots
      PROVE  \/ Have'[s] = Have[s]
             \/ Want[s] # NoSecret /\ Have'[s] = Want[s]
             \/ Want[s] = NoSecret /\ Have[s] = NoSecret
  <2>1. ASSUME NEW b, NEW c, b => c,
               Have[s] = Mark(b), Have'[s] = Mark(c), Want[s] = Present
        PROVE  \/ Have'[s] = Have[s]
               \/ Want[s] # NoSecret /\ Have'[s] = Want[s]
    BY <2>1, PresentAssumption DEF Mark
  <2>2. CASE s = <<"zone", Present>>
    BY <1>1, <2>1, <2>2, SlotsNow, SlotsNext, Zenon DEF Kept
  <2>3. CASE s = <<"user", Present>>
    BY <1>1, <2>1, <2>3, SlotsNow, SlotsNext, Zenon DEF Kept
  <2>4. ASSUME NEW g \in Group, s = <<"group", g>>
        PROVE  \/ Have'[s] = Have[s]
               \/ Want[s] # NoSecret /\ Have'[s] = Want[s]
               \/ Want[s] = NoSecret /\ Have[s] = NoSecret
    <3>1. g \in groups => g \in groups'
      BY <1>1 DEF Kept
    <3>2. /\ Have[s] = Mark(g \in groups) /\ Have'[s] = Mark(g \in groups')
          /\ Want[s] = Mark(g \in config.groups)
      BY <2>4, SlotsNow, SlotsNext
    <3> QED BY <3>1, <3>2, PresentAssumption DEF Mark
  <2>5. ASSUME NEW c \in Client, s = <<"client", c>>
        PROVE  \/ Have'[s] = Have[s]
               \/ Want[s] # NoSecret /\ Have'[s] = Want[s]
    <3>1. clients[c].exists => clients'[c].exists
      BY <1>1 DEF Kept
    <3> QED BY <2>1, <2>5, <3>1, SlotsNow, SlotsNext, Zenon
  <2>6. ASSUME NEW c \in Client, s = <<"secret", c>>
        PROVE  \/ Have'[s] = Have[s]
               \/ Want[s] # NoSecret /\ Have'[s] = Want[s]
               \/ Want[s] = NoSecret /\ Have[s] = NoSecret
    BY <1>1, <2>6, SlotsNow, SlotsNext DEF SecretsForward
  <2> QED BY <2>2, <2>3, <2>4, <2>5, <2>6, SlotKinds
<1> QED BY <1>2, <1>3, <1>4

LEMMA ScriptProvides ==
  ASSUME TypeInv, TypeInv', AbsentEmpty, NEW r \in Run, Script(r),
         Announced' = Announced
  PROVE  Abstract!Provide
BY ScriptForward DEF Abstract!Provide, Abstract!Wanted, AnyValue

\* Only the last step of a script changes nothing and ends it well.
LEMMA DoneStep ==
  ASSUME TypeInv, NEW r \in Run, Script(r)
  PROVE  pc[r] # "done" /\ (pc'[r] = "done" => UNCHANGED <<uaa, env>>)
<1>1. pc \in [Run -> Label]
  BY DEF TypeInv, RunOK
<1>2. CASE AuthorityCheck(r)
  BY <1>2 DEF AuthorityCheck, At
<1>3. CASE ~AuthorityCheck(r)
  BY <1>1, <1>3 DEF At, Script, Start, WaitRoot, Target, ZoneCheck, ZoneCreate,
     GroupCheck, GroupAdd, AddGroup, ClientCheck, ClientAdd, ClientSecret,
     WaitZone, Login, UserCheck, UserAdd, AuthorityUserId, AuthorityGroup,
     AuthorityGroupAdd, AuthorityName, AuthorityValue, MemberAdd, Retry, Goto,
     Loop, NextItem, Abort
<1> QED BY <1>2, <1>3

\* In a provisioned UAA every slot that is wanted is right.
LEMMA ProvisionedComplete ==
  ASSUME TypeInv, Provisioned
  PROVE  Abstract!Complete
<1>1. ASSUME NEW s \in Slots, Want[s] # NoSecret
      PROVE  Have[s] = Want[s]
  <2>1. CASE s = <<"zone", Present>> \/ s = <<"user", Present>>
    BY <2>1, SlotsNow, MarkValues DEF Provisioned, TypeInv, UaaOK
  <2>2. ASSUME NEW g \in Group, s = <<"group", g>>
        PROVE  Have[s] = Want[s]
    <3>1. Have[s] = Mark(g \in groups) /\ Want[s] = Mark(g \in config.groups)
      BY <2>2, SlotsNow
    <3> QED BY <1>1, <3>1 DEF Mark, Provisioned
  <2>3. ASSUME NEW c \in Client, s = <<"client", c>>
        PROVE  Have[s] = Want[s]
    BY <2>3, SlotsNow DEF Mark, Provisioned
  <2>4. ASSUME NEW c \in Client, s = <<"secret", c>>
        PROVE  Have[s] = Want[s]
    BY <1>1, <2>4, SlotsNow DEF Provisioned
  <2> QED BY <2>1, <2>2, <2>3, <2>4, SlotKinds
<1> QED BY <1>1 DEF Abstract!Complete, Abstract!Wanted

LEMMA Unmoved ==
  ASSUME UNCHANGED <<uaa, config>>
  PROVE  UNCHANGED <<Have, Want>>
BY DEF uaa, Have, Want

\* A step of a script provides, announces, or changes nothing of either.
LEMMA ScriptImplements ==
  ASSUME TypeInv, TypeInv', AbsentEmpty, DoneProvisioned',
         NEW r \in Run, Script(r)
  PROVE  Abstract!Next
<1>1. /\ pc[r] # "done" /\ \A q \in Run : q # r => pc'[q] = pc[q]
  BY DoneStep, OthersStay
<1>2. CASE pc'[r] # "done"
  <2>1. Announced' = Announced
    BY <1>1, <1>2 DEF Announced, At
  <2> QED BY <2>1, ScriptProvides DEF Abstract!Next
<1>3. CASE pc'[r] = "done"
  <2>1. UNCHANGED <<uaa, env>>
    BY <1>3, DoneStep
  <2>2. Provisioned
    BY <1>3, <2>1 DEF DoneProvisioned, At, Provisioned, uaa, env
  <2>3. Abstract!Complete
    BY <2>2, ProvisionedComplete
  <2>4. UNCHANGED <<Have, Want>>
    BY <2>1, Unmoved DEF env
  <2>5. Announced' = TRUE
    BY <1>3 DEF Announced, At
  <2> QED BY <2>3, <2>4, <2>5 DEF Abstract!Next, Abstract!Announce
<1> QED BY <1>2, <1>3

LEMMA StepImplements ==
  ASSUME TypeInv, TypeInv', AbsentEmpty, DoneProvisioned', [Next]_vars
  PROVE  [Abstract!Next]_(Abstract!vars)
<1> USE DEF Abstract!vars
<1>1. ASSUME NEW r \in Run, Script(r)
      PROVE  Abstract!Next
  BY <1>1, ScriptImplements
<1>2. ASSUME UNCHANGED <<uaa, config>>, Announced' = Announced
      PROVE  UNCHANGED Abstract!vars
  BY <1>2, Unmoved
<1>3. ASSUME NEW r \in Run, Crash(r)
      PROVE  UNCHANGED Abstract!vars
  <2>1. \A q \in Run : pc'[q] = IF q = r THEN "idle" ELSE pc[q]
    BY <1>3 DEF Crash, Forget
  <2>2. pc[r] # "done" /\ UNCHANGED <<uaa, config>>
    BY <1>3 DEF Crash
  <2>3. Announced' = Announced
    BY <2>1, <2>2 DEF Announced, At
  <2> QED BY <1>2, <2>2, <2>3
<1>4. ASSUME Outage \/ Recover \/ \E g \in Group : OtherJoins(g)
      PROVE  UNCHANGED Abstract!vars
  BY <1>2, <1>4 DEF Outage, Recover, OtherJoins, run, Announced, At
<1>5. ASSUME NEW c \in Config, Upgrade(c)
      PROVE  Abstract!Redeploy
  <2>1. Have' = Have
    BY <1>5 DEF Upgrade, uaa, Have
  <2>2. \A q \in Run : pc'[q] = "idle"
    BY <1>5 DEF Upgrade, Forget
  <2>3. Announced' = FALSE
    BY <2>2 DEF Announced, At
  <2>4. Want' \in [Slots -> AnyValue]
    BY SlotTypesNext
  <2> QED BY <2>1, <2>3, <2>4 DEF Abstract!Redeploy, AnyValue
<1>6. ASSUME UNCHANGED vars
      PROVE  UNCHANGED Abstract!vars
  BY <1>2, <1>6 DEF vars, env, run, Announced, At
<1> QED BY <1>1, <1>3, <1>4, <1>5, <1>6 DEF Next, Abstract!Next

LEMMA InitImplements ==
  ASSUME TypeInv, Init
  PROVE  Abstract!Init
<1>1. Want \in [Slots -> AnyValue] /\ Have \in [Slots -> AnyValue]
  BY SlotTypes
<1>2. ASSUME NEW s \in Slots
      PROVE  Have[s] = NoSecret
  <2>1. CASE s = <<"zone", Present>> \/ s = <<"user", Present>>
    BY <2>1, SlotsNow DEF Init, Mark
  <2>2. ASSUME NEW g \in Group, s = <<"group", g>>
        PROVE  Have[s] = NoSecret
    BY <2>2, SlotsNow DEF Init, Mark
  <2>3. ASSUME NEW c \in Client, s = <<"client", c>> \/ s = <<"secret", c>>
        PROVE  Have[s] = NoSecret
    BY <2>3, SlotsNow DEF Init, Absent, Mark
  <2> QED BY <2>1, <2>2, <2>3, SlotKinds
<1>3. Have = [s \in Slots |-> NoSecret]
  BY <1>1, <1>2
<1>4. Announced = FALSE
  BY DEF Init, Announced, At
<1> QED BY <1>1, <1>3, <1>4 DEF Abstract!Init, AnyValue

LEMMA AbsentInit == Init => AbsentEmpty
BY DEF Init, Absent, AbsentEmpty

LEMMA AbsentStep == TypeInv /\ AbsentEmpty /\ [Next]_vars => AbsentEmpty'
<1> SUFFICES ASSUME TypeInv, AbsentEmpty, [Next]_vars
             PROVE  AbsentEmpty'
  OBVIOUS
<1>1. ASSUME NEW r \in Run, Script(r) PROVE AbsentEmpty'
  BY <1>1, SecretStep
<1>2. ASSUME UNCHANGED uaa PROVE AbsentEmpty'
  BY <1>2 DEF uaa, AbsentEmpty
<1> QED
  BY <1>1, <1>2 DEF Next, Crash, Outage, Recover, OtherJoins, Upgrade, vars

\* The job implements what is promised of it: nothing that is right is taken
\* away or replaced by a re-run, another pod or a crash, and success is only
\* announced, and the announcement only withdrawn by an upgrade, when
\* everything wanted is there.
THEOREM ImplementsProvisioningAlways == Spec => ImplementsProvisioning
<1>1. Init => AbsentEmpty
  BY AbsentInit
<1>2. TypeInv /\ AbsentEmpty /\ [Next]_vars => AbsentEmpty'
  BY AbsentStep
<1>3. TypeInv /\ Init => Abstract!Init
  BY InitImplements
<1>4. TypeInv /\ TypeInv' /\ AbsentEmpty /\ DoneProvisioned' /\ [Next]_vars
        => [Abstract!Next]_(Abstract!vars)
  BY StepImplements
<1>5. Spec => []TypeInv /\ []DoneProvisioned
  BY TypeInvariant, DoneProvisionedAlways
<1> QED
  BY <1>1, <1>2, <1>3, <1>4, <1>5, PTL
     DEF Spec, ImplementsProvisioning, Abstract!Spec
=============================================================================
