-------------------------- MODULE ConfigureScfProofs --------------------------
(* The theorems about the configure-scf job, for any pods, users, pages,   *)
(* configurations and faults.                                              *)
EXTENDS ConfigureScf, FiniteSetTheorems, SequenceTheorems, TLAPS

User == Person \cup {Client}

\* The part of the types that concerns the pods.
RunOK ==
  /\ pc \in [Run -> Label] /\ tries \in [Run -> 0 .. MaxTries - 1]
  /\ targeted \in [Run -> BOOLEAN] /\ token \in [Run -> BOOLEAN]
  /\ todo \in [Run -> SUBSET User]

\* The part that concerns the rest.
RestOK ==
  /\ cc \in BOOLEAN /\ uaa \in BOOLEAN /\ persi \in BOOLEAN
  /\ secret \in Value \cup {None} /\ users \in Seq(User)
  /\ env \in [Runtime -> Value \cup {None}] /\ broker \in Value \cup {None}
  /\ config \in Config /\ upgrades \in 0 .. 1 /\ faults \in 0 .. MaxFaults

\* The two parts are the type invariant.
LEMMA TypeParts == TypeOK <=> RestOK /\ RunOK
BY DEF TypeOK, RestOK, RunOK, User

-----------------------------------------------------------------------------
(* The list of users.                                                      *)

\* A call to the cloud controller lists the client and keeps everybody.
LEMMA ListedKeeps ==
  ASSUME users \in Seq(User)
  PROVE  /\ Listed \in Seq(User)
         /\ \A p : Contains(users, p) => Contains(Listed, p)
<1>1. CASE Contains(users, Client)
  BY <1>1 DEF Listed
<1>2. CASE ~Contains(users, Client)
  <2>1. Listed = Append(users, Client)
    BY <1>2 DEF Listed
  <2>2. Client \in User
    BY DEF User
  <2>3. /\ Append(users, Client) \in Seq(User)
        /\ Len(Append(users, Client)) = Len(users) + 1
        /\ \A k \in 1 .. Len(users) : Append(users, Client)[k] = users[k]
    BY <2>2, AppendProperties
  <2>4. Len(users) \in Nat
    BY LenProperties
  <2> QED BY <2>1, <2>3, <2>4 DEF Contains
<1> QED BY <1>1, <1>2

\* The list without its k-th element.
LEMMA RemoveAtElements ==
  ASSUME NEW s \in Seq(User), NEW k \in 1 .. Len(s)
  PROVE  /\ RemoveAt(s, k) \in Seq(User)
         /\ Len(RemoveAt(s, k)) = Len(s) - 1
         /\ \A i \in 1 .. Len(s) - 1 :
              RemoveAt(s, k)[i] = IF i < k THEN s[i] ELSE s[i + 1]
<1> DEFINE before == SubSeq(s, 1, k - 1)
           after == SubSeq(s, k + 1, Len(s))
<1>1. Len(s) \in Nat /\ \A i \in 1 .. Len(s) : s[i] \in User
  BY LenProperties, ElementOfSeq
<1>2. /\ before \in Seq(User) /\ Len(before) = k - 1
      /\ \A i \in 1 .. k - 1 : before[i] = s[i]
  <2>1. \A i \in 1 .. k - 1 : s[i] \in User
    BY <1>1
  <2>2. 1 \in Int /\ k - 1 \in Int
    OBVIOUS
  <2>3. /\ before \in Seq(User)
        /\ Len(before) = IF 1 <= k - 1 THEN (k - 1) - 1 + 1 ELSE 0
        /\ \A i \in 1 .. (k - 1) - 1 + 1 : before[i] = s[1 + i - 1]
    BY <2>1, <2>2, SubSeqProperties
  <2> QED BY <2>3, SMT
<1>3. /\ after \in Seq(User) /\ Len(after) = Len(s) - k
      /\ \A i \in 1 .. Len(s) - k : after[i] = s[k + i]
  <2>1. \A i \in k + 1 .. Len(s) : s[i] \in User
    BY <1>1
  <2>2. k + 1 \in Int /\ Len(s) \in Int
    BY <1>1
  <2>3. /\ after \in Seq(User)
        /\ Len(after) = IF k + 1 <= Len(s) THEN Len(s) - (k + 1) + 1 ELSE 0
        /\ \A i \in 1 .. Len(s) - (k + 1) + 1 : after[i] = s[(k + 1) + i - 1]
    BY <2>1, <2>2, SubSeqProperties
  <2> HIDE DEF after
  <2> QED BY <2>3, <1>1, SMT
<1> HIDE DEF before, after
<1>4. /\ before \o after \in Seq(User)
      /\ Len(before \o after) = Len(s) - 1
      /\ \A i \in 1 .. Len(s) - 1 : (before \o after)[i] =
           IF i <= k - 1 THEN before[i] ELSE after[i - (k - 1)]
  <2>1. /\ before \o after \in Seq(User)
        /\ Len(before \o after) = Len(before) + Len(after)
        /\ \A i \in 1 .. Len(before) + Len(after) : (before \o after)[i] =
             IF i <= Len(before) THEN before[i] ELSE after[i - Len(before)]
    BY <1>2, <1>3, ConcatProperties
  <2>2. Len(before) = k - 1 /\ Len(before) + Len(after) = Len(s) - 1
    BY <1>1, <1>2, <1>3
  <2> QED BY <2>1, <2>2
<1>5. RemoveAt(s, k) = before \o after
  BY DEF RemoveAt, before, after
<1>6. ASSUME NEW i \in 1 .. Len(s) - 1
      PROVE  (before \o after)[i] = IF i < k THEN s[i] ELSE s[i + 1]
  <2>1. CASE i < k
    <3>1. i <= k - 1 /\ i \in 1 .. k - 1
      BY <2>1, <1>1
    <3> QED BY <2>1, <3>1, <1>2, <1>4
  <2>2. CASE ~(i < k)
    <3>1. ~(i <= k - 1) /\ i - (k - 1) \in 1 .. Len(s) - k
          /\ k + (i - (k - 1)) = i + 1
      BY <2>2, <1>1
    <3> QED BY <2>2, <3>1, <1>3, <1>4
  <2> QED BY <2>1, <2>2
<1> QED BY <1>4, <1>5, <1>6

\* Removing the k-th element removes nobody but the one who is there.
LEMMA RemoveAtKeeps ==
  ASSUME NEW s \in Seq(User), NEW k \in 1 .. Len(s)
  PROVE  /\ RemoveAt(s, k) \in Seq(User)
         /\ \A p : Contains(s, p) /\ p # s[k] => Contains(RemoveAt(s, k), p)
<1>1. Len(s) \in Nat
  BY LenProperties
<1>2. ASSUME NEW p, NEW j \in 1 .. Len(s), s[j] = p, p # s[k]
      PROVE  \E i \in 1 .. Len(s) - 1 : RemoveAt(s, k)[i] = p
  <2>1. CASE j < k
    <3>1. j \in 1 .. Len(s) - 1
      BY <2>1, <1>1
    <3> QED BY <2>1, <3>1, <1>2, RemoveAtElements
  <2>2. CASE j > k
    <3>1. j - 1 \in 1 .. Len(s) - 1 /\ ~(j - 1 < k) /\ (j - 1) + 1 = j
      BY <2>2, <1>1
    <3> QED BY <3>1, <1>2, RemoveAtElements
  <2>3. j # k
    BY <1>2
  <2> QED BY <2>1, <2>2, <2>3, <1>1
<1> QED BY <1>2, RemoveAtElements DEF Contains

-----------------------------------------------------------------------------
(* Types.                                                                  *)

\* Going on in the script keeps the types ...
LEMMA GotoOK ==
  ASSUME RunOK, NEW r \in Run, NEW label \in Label, Goto(r, label)
  PROVE  RunOK'
BY DEF RunOK, Goto

\* ... and so does the end of some scripts ...
LEMMA EndOK ==
  ASSUME RunOK, NEW S, NEW label \in Label, End(S, label)
  PROVE  RunOK'
<1>1. 0 \in 0 .. MaxTries - 1
  BY ConstantsAssumption
<1> QED BY <1>1 DEF RunOK, End

\* ... and a round of a retry loop.
LEMMA RetryOK ==
  ASSUME RestOK, RunOK, NEW r \in Run, NEW label \in Label, NEW next \in Label,
         NEW answered, Retry(r, label, answered, next),
         targeted' \in [Run -> BOOLEAN]
  PROVE  RestOK' /\ RunOK'
<1>1. RestOK'
  BY DEF Retry, RestOK, services, controller, deployment
<1>2. pc' \in [Run -> Label] /\ UNCHANGED <<token, todo>>
  BY DEF Retry, RunOK
<1>3. tries[r] \in 0 .. MaxTries - 1 /\ MaxTries \in Nat \ {0}
  BY ConstantsAssumption DEF RunOK
<1>4. tries' \in [Run -> 0 .. MaxTries - 1]
  <2>1. CASE answered \/ tries[r] + 1 = MaxTries
    BY <2>1, <1>3 DEF Retry, RunOK
  <2>2. CASE ~(answered \/ tries[r] + 1 = MaxTries)
    <3>1. tries[r] + 1 \in 0 .. MaxTries - 1
      BY <2>2, <1>3
    <3>2. tries' = [tries EXCEPT ![r] = tries[r] + 1]
      BY <2>2 DEF Retry
    <3> QED BY <3>1, <3>2 DEF RunOK
  <2> QED BY <2>1, <2>2
<1> QED BY <1>1, <1>2, <1>4 DEF RunOK

\* What the configuration holds.
LEMMA ConfigParts ==
  ASSUME RestOK
  PROVE  /\ config.secret \in Value /\ config.broker \in Value \cup {None}
         /\ \A t \in Runtime : config.env[t] \in Value \cup {None}
BY ConstantsAssumption DEF RestOK, ConfigType

\* The whole effect of one group's command.
LEMMA SetEnvOK ==
  ASSUME RestOK, RunOK, NEW r \in Run, NEW t \in Runtime, NEW next \in Label,
         SetEnv(r, t, next)
  PROVE  RestOK' /\ RunOK'
<1> USE DEF services, controller, deployment
<1>1. CASE config.env[t] = None
  <2>1. Goto(r, next) /\ UNCHANGED <<services, controller, deployment, faults>>
    BY <1>1 DEF SetEnv
  <2> QED BY <2>1, GotoOK DEF RestOK
<1>2. CASE config.env[t] # None
  <2>1. UNCHANGED <<services, deployment, faults, broker>>
    BY <1>2 DEF SetEnv, Command
  <2>2. CASE Reached(r)
    <3>1. /\ env' = [env EXCEPT ![t] = config.env[t]]
          /\ users' = Listed /\ Goto(r, next)
      BY <1>2, <2>2 DEF SetEnv, Command
    <3>2. env' \in [Runtime -> Value \cup {None}]
      BY <3>1, ConfigParts DEF RestOK
    <3> QED BY <2>1, <3>1, <3>2, GotoOK, ListedKeeps DEF RestOK
  <2>3. CASE ~Reached(r)
    <3>1. UNCHANGED <<env, users>> /\ End({r}, "failed")
      BY <1>2, <2>3 DEF SetEnv, Command
    <3>2. "failed" \in Label
      BY DEF Label
    <3> QED BY <2>1, <3>1, <3>2, EndOK DEF RestOK
  <2> QED BY <2>2, <2>3
<1> QED BY <1>1, <1>2

\* Every step of the script keeps the types.
LEMMA ScriptTypes ==
  ASSUME RestOK, RunOK, NEW r \in Run, Script(r)
  PROVE  RestOK' /\ RunOK'
<1> USE DEF services, controller, deployment
<1>0. \A l \in {"waitCC", "waitUaa", "login", "staging", "running",
                "waitBroker", "createBroker", "updateBroker", "list", "delete",
                "done", "failed"} : l \in Label
  BY DEF Label
<1>1. CASE Start(r)
  BY <1>0, <1>1, GotoOK DEF Start, RestOK
<1>2. CASE WaitCC(r)
  <2>1. targeted' \in [Run -> BOOLEAN]
    BY <1>2 DEF WaitCC, RunOK, RestOK
  <2> QED BY <1>0, <1>2, <2>1, RetryOK DEF WaitCC
<1>3. CASE WaitUaa(r)
  BY <1>0, <1>3, RetryOK DEF WaitUaa, RunOK
<1>4. CASE Login(r)
  <2>1. RestOK'
    BY <1>4 DEF Login, RestOK
  <2>2. CASE uaa /\ secret = config.secret
    BY <1>0, <1>4, <2>1, <2>2 DEF Login, RunOK
  <2>3. CASE ~(uaa /\ secret = config.secret)
    BY <1>0, <1>4, <2>1, <2>3, EndOK DEF Login
  <2> QED BY <2>2, <2>3
<1>5. CASE SetStaging(r)
  <2>1. "staging" \in Runtime
    BY DEF Runtime
  <2> QED BY <1>0, <1>5, <2>1, SetEnvOK DEF SetStaging
<1>6. CASE SetRunning(r)
  <2>1. "running" \in Runtime
    BY DEF Runtime
  <2> QED BY <1>0, <1>6, <2>1, SetEnvOK DEF SetRunning
<1>7. CASE WaitBroker(r)
  BY <1>0, <1>7, RetryOK DEF WaitBroker, RunOK
<1>8. CASE CreateBroker(r)
  <2>1. /\ UNCHANGED <<services, env, deployment, faults>>
        /\ users' \in Seq(User) /\ broker' \in Value \cup {None}
    BY <1>8, ListedKeeps, ConfigParts DEF CreateBroker, RestOK
  <2>2. Goto(r, "list") \/ Goto(r, "updateBroker")
    BY <1>8 DEF CreateBroker
  <2> QED BY <1>0, <2>1, <2>2, GotoOK DEF RestOK
<1>9. CASE UpdateBroker(r)
  <2>1. /\ UNCHANGED <<services, env, deployment, faults>>
        /\ users' \in Seq(User) /\ broker' \in Value \cup {None}
    BY <1>9, ListedKeeps, ConfigParts DEF UpdateBroker, RestOK
  <2>2. Goto(r, "list") \/ End({r}, "failed")
    BY <1>9 DEF UpdateBroker
  <2> QED BY <1>0, <2>1, <2>2, GotoOK, EndOK DEF RestOK
<1>10. CASE ListUsers(r)
  <2>1. UNCHANGED <<services, env, broker, deployment, faults>>
    BY <1>10 DEF ListUsers
  <2>2. CASE Authorized(r)
    <3> DEFINE page == {Listed[k] : k \in DOMAIN Listed \cap 1 .. PageSize}
    <3>1. /\ users' = Listed /\ pc' = [pc EXCEPT ![r] = "delete"]
          /\ todo' = [todo EXCEPT ![r] = {u \in page : Bogus(u)}]
          /\ UNCHANGED <<tries, targeted, token>>
      BY <1>10, <2>2 DEF ListUsers
    <3>2. Listed \in Seq(User)
      BY ListedKeeps DEF RestOK
    <3>3. page \subseteq User
      BY <3>2, ElementOfSeq, LenProperties
    <3> QED BY <1>0, <2>1, <3>1, <3>2, <3>3 DEF RestOK, RunOK
  <2>3. CASE ~Authorized(r)
    BY <1>0, <1>10, <2>1, <2>3, EndOK DEF ListUsers, RestOK
  <2> QED BY <2>2, <2>3
<1>11. ASSUME NEW u \in todo[r], DeleteUser(r, u)
       PROVE  RestOK' /\ RunOK'
  <2>1. UNCHANGED <<services, env, broker, deployment, faults>>
    BY <1>11 DEF DeleteUser
  <2>2. Listed \in Seq(User)
    BY ListedKeeps DEF RestOK
  <2>3. CASE Authorized(r) /\ Contains(Listed, u)
    <3>1. PICK k \in 1 .. Len(Listed) :
            Listed[k] = u /\ users' = RemoveAt(Listed, k)
      BY <1>11, <2>3 DEF DeleteUser
    <3>2. users' \in Seq(User)
      BY <2>2, <3>1, RemoveAtKeeps
    <3>3. /\ todo' = [todo EXCEPT ![r] = @ \ {u}]
          /\ UNCHANGED <<pc, tries, targeted, token>>
      BY <1>11, <2>3 DEF DeleteUser
    <3> QED BY <2>1, <3>2, <3>3 DEF RestOK, RunOK
  <2>4. CASE ~(Authorized(r) /\ Contains(Listed, u))
    <3>1. users' \in {Listed, users} /\ End({r}, "failed")
      BY <1>11, <2>4 DEF DeleteUser
    <3> QED BY <1>0, <2>1, <2>2, <3>1, EndOK DEF RestOK
  <2> QED BY <2>3, <2>4
<1>12. CASE Complete(r)
  BY <1>0, <1>12, EndOK DEF Complete, RestOK
<1> QED BY <1>1, <1>2, <1>3, <1>4, <1>5, <1>6, <1>7, <1>8, <1>9, <1>10, <1>11,
           <1>12 DEF Script

\* Every step of the system keeps the types.
LEMMA TypeStep ==
  ASSUME RestOK, RunOK, [Next]_vars
  PROVE  RestOK' /\ RunOK'
<1> USE ConstantsAssumption
    DEF services, controller, deployment, run
<1>1. CASE \E r \in Run : Script(r)
  BY <1>1, ScriptTypes
<1>2. "idle" \in Label
  BY DEF Label
<1>3. ASSUME NEW r \in Run, Expire(r)
      PROVE  RestOK' /\ RunOK'
  <2>1. RestOK'
    BY <1>3 DEF Expire, RestOK
  <2>2. RunOK'
    BY <1>3 DEF Expire, RunOK
  <2> QED BY <2>1, <2>2
<1>4. ASSUME NEW r \in Run, Kill(r)
      PROVE  RestOK' /\ RunOK'
  <2>1. RestOK'
    BY <1>4 DEF Kill, RestOK
  <2> QED BY <1>2, <1>4, <2>1, EndOK DEF Kill
<1>5. CASE Outage
  <2>1. faults' \in 0 .. MaxFaults
    BY <1>5 DEF Outage, RestOK
  <2>2. cc' \in BOOLEAN /\ uaa' \in BOOLEAN /\ persi' \in BOOLEAN
    BY <1>5 DEF Outage, RestOK
  <2>3. UNCHANGED <<controller, deployment, run>>
    BY <1>5 DEF Outage
  <2> QED BY <2>1, <2>2, <2>3 DEF RestOK, RunOK
<1>6. CASE Recover
  BY <1>6 DEF Recover, RestOK, RunOK
<1>7. CASE ProvideClient
  BY <1>7, ConfigParts DEF ProvideClient, RestOK, RunOK
<1>8. ASSUME NEW p \in Person, PersonJoins(p)
      PROVE  RestOK' /\ RunOK'
  <2>1. users' \in Seq(User)
    <3>1. p \in User
      BY DEF User
    <3> QED BY <1>8, <3>1, AppendProperties DEF PersonJoins, RestOK
  <2> QED BY <1>8, <2>1 DEF PersonJoins, RestOK, RunOK
<1>9. ASSUME NEW c \in Config, Upgrade(c)
      PROVE  RestOK' /\ RunOK'
  <2>1. RestOK'
    BY <1>9 DEF Upgrade, RestOK
  <2> QED BY <1>2, <1>9, <2>1, EndOK DEF Upgrade
<1>10. CASE UNCHANGED vars
  BY <1>10 DEF vars, RestOK, RunOK
<1> QED BY <1>1, <1>3, <1>4, <1>5, <1>6, <1>7, <1>8, <1>9, <1>10 DEF Next

\* The first state has the types.
LEMMA InitTypes == Init => RestOK /\ RunOK
<1> SUFFICES ASSUME Init PROVE RestOK /\ RunOK
  OBVIOUS
<1>1. users \in Seq(User)
  BY EmptySeq DEF Init
<1>2. 0 \in 0 .. 1 /\ 0 \in 0 .. MaxFaults /\ 0 \in 0 .. MaxTries - 1
  BY ConstantsAssumption
<1>3. RestOK
  BY <1>1, <1>2 DEF Init, RestOK
<1>4. RunOK
  <2>1. "idle" \in Label
    BY DEF Label
  <2> QED BY <2>1, <1>2 DEF Init, RunOK
<1> QED BY <1>3, <1>4

\* Every variable of the configure-scf job keeps its type.
THEOREM TypeCorrect == Spec => []TypeOK
<1>1. Init => TypeOK
  BY InitTypes, TypeParts
<1>2. TypeOK /\ [Next]_vars => TypeOK'
  <2> SUFFICES ASSUME TypeOK, [Next]_vars PROVE TypeOK'
    OBVIOUS
  <2>1. RestOK' /\ RunOK'
    BY TypeParts, TypeStep
  <2> QED BY <2>1 DEF TypeOK, RestOK, RunOK, User
<1> QED BY <1>1, <1>2, PTL DEF Spec

-----------------------------------------------------------------------------
(* What is configured is in effect.                                        *)

\* How far a script at a label has come with the present configuration.
ConfiguredAt(label, c, e, b) ==
  /\ label \notin {"idle", "waitCC", "waitUaa", "login", "staging", "failed"}
       => c.env["staging"] \in {None, e["staging"]}
  /\ label \in {"waitBroker", "createBroker", "updateBroker", "list", "delete",
                "done"}
       => c.env["running"] \in {None, e["running"]}
  /\ label \in {"list", "delete", "done"} => c.broker \in {None, b}

\* The same, before and after a step.
Now(label) == ConfiguredAt(label, config, env, broker)
Then(label) == ConfiguredAt(label, config', env', broker')

\* A step of any script changes things only to what is configured ...
Kept ==
  /\ UNCHANGED config
  /\ \A t \in Runtime : env'[t] \in {env[t], config.env[t]}
  /\ broker' \in {broker, config.broker}

\* ... which takes no other script back.
LEMMA KeptConfigured ==
  ASSUME NEW label, Now(label), Kept
  PROVE  Then(label)
BY DEF Now, Then, ConfiguredAt, Kept, Runtime

\* The steps that set something keep the rest, and get their script on.
LEMMA SetEnvProgress ==
  ASSUME RestOK, RunOK, NEW r \in Run, NEW t \in Runtime, NEW next,
         SetEnv(r, t, next)
  PROVE  /\ Kept /\ pc' = [pc EXCEPT ![r] = pc'[r]]
         /\ \/ pc'[r] = next /\ config.env[t] \in {None, env'[t]}
            \/ pc'[r] = "failed"
<1>1. CASE config.env[t] = None
  BY <1>1 DEF SetEnv, Kept, Goto, controller, deployment, RunOK
<1>2. CASE config.env[t] # None /\ Reached(r)
  <2>1. /\ env' = [env EXCEPT ![t] = config.env[t]]
        /\ Goto(r, next) /\ UNCHANGED <<deployment, broker>>
    BY <1>2 DEF SetEnv, Command
  <2> QED BY <2>1 DEF Kept, Goto, deployment, RestOK, RunOK
<1>3. CASE config.env[t] # None /\ ~Reached(r)
  <2>1. End({r}, "failed") /\ UNCHANGED <<env, deployment, broker>>
    BY <1>3 DEF SetEnv, Command
  <2> QED BY <2>1 DEF Kept, End, deployment, RunOK
<1> QED BY <1>1, <1>2, <1>3

\* The rounds of a retry loop set nothing.
LEMMA RetryProgress ==
  ASSUME RunOK, NEW r \in Run, NEW label, NEW next, NEW answered,
         Retry(r, label, answered, next)
  PROVE  /\ UNCHANGED <<config, env, broker>>
         /\ pc' = [pc EXCEPT ![r] = pc'[r]] /\ pc[r] = label
         /\ pc'[r] \in {label, next}
BY DEF Retry, At, RunOK, controller, deployment

\* Where a script ends or goes on, the others stay where they are.
LEMMA OneMoves ==
  ASSUME RunOK, NEW r \in Run, NEW label, Goto(r, label) \/ End({r}, label)
  PROVE  pc' = [pc EXCEPT ![r] = pc'[r]] /\ pc'[r] = label
BY DEF Goto, End, RunOK

\* A step of a script keeps what is configured and gets the script on.
LEMMA ScriptProgress ==
  ASSUME RestOK, RunOK, NEW r \in Run, Script(r), Now(pc[r])
  PROVE  Kept /\ pc' = [pc EXCEPT ![r] = pc'[r]] /\ Then(pc'[r])
<1> USE DEF controller, deployment, At
<1>0. ASSUME NEW label, Now(label), UNCHANGED <<config, env, broker>>
      PROVE  Kept /\ Then(label)
  <2>1. Kept
    BY <1>0 DEF Kept
  <2> QED BY <1>0, <2>1, KeptConfigured
<1>1. CASE Start(r)
  <2>1. Now("waitCC")
    BY DEF Now, Then, ConfiguredAt
  <2> QED BY <1>0, <1>1, <2>1, OneMoves DEF Start
<1>2. CASE WaitCC(r)
  <2>1. Now("waitCC") /\ Now("waitUaa")
    BY DEF Now, Then, ConfiguredAt
  <2> QED BY <1>0, <1>2, <2>1, RetryProgress DEF WaitCC
<1>3. CASE WaitUaa(r)
  <2>1. Now("waitUaa") /\ Now("login")
    BY DEF Now, Then, ConfiguredAt
  <2> QED BY <1>0, <1>3, <2>1, RetryProgress DEF WaitUaa
<1>4. CASE Login(r)
  <2>1. Now("staging") /\ Now("failed")
    BY DEF Now, Then, ConfiguredAt
  <2>2. UNCHANGED <<config, env, broker>>
    BY <1>4 DEF Login
  <2>3. CASE uaa /\ secret = config.secret
    BY <1>0, <1>4, <2>1, <2>2, <2>3 DEF Login, RunOK
  <2>4. CASE ~(uaa /\ secret = config.secret)
    BY <1>0, <1>4, <2>1, <2>2, <2>4, OneMoves DEF Login
  <2> QED BY <2>3, <2>4
<1>5. CASE SetStaging(r)
  <2>1. /\ Kept /\ pc' = [pc EXCEPT ![r] = pc'[r]]
        /\ \/ pc'[r] = "running" /\ config.env["staging"] \in {None, env'["staging"]}
           \/ pc'[r] = "failed"
    BY <1>5, SetEnvProgress DEF SetStaging, Runtime
  <2> QED BY <2>1 DEF Now, Then, ConfiguredAt, Kept
<1>6. CASE SetRunning(r)
  <2> DEFINE next == IF config.broker = None THEN "list" ELSE "waitBroker"
  <2>1. /\ Kept /\ pc' = [pc EXCEPT ![r] = pc'[r]]
        /\ \/ pc'[r] = next /\ config.env["running"] \in {None, env'["running"]}
           \/ pc'[r] = "failed"
    BY <1>6, SetEnvProgress DEF SetRunning, Runtime
  <2>2. pc[r] = "running"
    BY <1>6 DEF SetRunning, SetEnv, Command
  <2>3. config.env["staging"] \in {None, env'["staging"]}
    BY <2>1, <2>2 DEF Now, Then, ConfiguredAt, Kept, Runtime
  <2> QED BY <2>1, <2>3 DEF Now, Then, ConfiguredAt, Kept
<1>7. CASE WaitBroker(r)
  <2>1. pc[r] = "waitBroker" /\ pc'[r] \in {"waitBroker", "createBroker"}
        /\ pc' = [pc EXCEPT ![r] = pc'[r]] /\ UNCHANGED <<config, env, broker>>
    BY <1>7, RetryProgress DEF WaitBroker
  <2>2. Now("waitBroker") /\ Now("createBroker")
    BY <2>1 DEF Now, Then, ConfiguredAt
  <2> QED BY <1>0, <2>1, <2>2
<1>8. CASE CreateBroker(r) \/ UpdateBroker(r)
  <2>1. pc[r] \in {"createBroker", "updateBroker"} /\ UNCHANGED <<config, env>>
    BY <1>8 DEF CreateBroker, UpdateBroker
  <2>2. \/ broker' = config.broker /\ Goto(r, "list")
        \/ broker' = broker /\ Goto(r, "updateBroker")
        \/ broker' = broker /\ End({r}, "failed")
    BY <1>8 DEF CreateBroker, UpdateBroker
  <2>3. pc' = [pc EXCEPT ![r] = pc'[r]]
        /\ \/ pc'[r] = "list" /\ broker' = config.broker
           \/ pc'[r] \in {"updateBroker", "failed"}
    BY <2>2, OneMoves
  <2>4. Kept
    BY <2>1, <2>2 DEF Kept
  <2> QED BY <2>1, <2>3, <2>4 DEF Now, Then, ConfiguredAt
<1>9. CASE ListUsers(r) \/ (\E u \in todo[r] : DeleteUser(r, u)) \/ Complete(r)
  <2>1. UNCHANGED <<config, env, broker>> /\ pc[r] \in {"list", "delete"}
    BY <1>9 DEF ListUsers, DeleteUser, Complete
  <2>2. \/ pc' = [pc EXCEPT ![r] = "delete"] \/ UNCHANGED pc
        \/ End({r}, "failed") \/ End({r}, "done")
    BY <1>9 DEF ListUsers, DeleteUser, Complete
  <2>3. pc' = [pc EXCEPT ![r] = pc'[r]]
        /\ pc'[r] \in {"list", "delete", "failed", "done"}
    BY <2>1, <2>2, OneMoves DEF RunOK
  <2>4. \A l \in {"list", "delete", "failed", "done"} : Now(l)
    BY <2>1 DEF Now, Then, ConfiguredAt
  <2> QED BY <1>0, <2>1, <2>3, <2>4
<1> QED BY <1>1, <1>2, <1>3, <1>4, <1>5, <1>6, <1>7, <1>8, <1>9 DEF Script

\* Every script has come as far as its label says.
IInv == RestOK /\ RunOK /\ \A r \in Run : Now(pc[r])

\* Every step of the system keeps the invariant.
LEMMA InvStep ==
  ASSUME IInv, [Next]_vars
  PROVE  IInv'
<1> USE DEF controller, deployment, run
<1>1. RestOK' /\ RunOK'
  BY TypeStep DEF IInv
<1>2. CASE \E r \in Run : Script(r)
  <2>1. PICK r \in Run : Script(r)
    BY <1>2
  <2>2. Kept /\ pc' = [pc EXCEPT ![r] = pc'[r]] /\ Then(pc'[r])
    BY <2>1, ScriptProgress DEF IInv
  <2>3. ASSUME NEW q \in Run, q # r
        PROVE  Then(pc'[q]) /\ pc'[q] = pc[q]
    <3>1. pc'[q] = pc[q]
      BY <2>2, <2>3 DEF IInv, RunOK
    <3>2. Now(pc[q])
      BY DEF IInv
    <3> QED BY <2>2, <3>1, <3>2, KeptConfigured DEF Now, Then, ConfiguredAt, Kept, Runtime
  <2>4. \A q \in Run : Then(pc'[q])
    BY <2>2, <2>3
  <2> QED BY <1>1, <2>4 DEF IInv, Now, Then
<1>3. ASSUME UNCHANGED <<config, env, broker>>,
             \A r \in Run : pc'[r] \in {pc[r], "idle"}
      PROVE  IInv'
  <2>1. \A r \in Run : Then(pc'[r])
    BY <1>3 DEF IInv, Now, Then, ConfiguredAt
  <2> QED BY <1>1, <2>1 DEF IInv, Now, Then
<1>4. ASSUME NEW r \in Run, Expire(r) \/ Kill(r)
      PROVE  IInv'
  BY <1>3, <1>4 DEF Expire, Kill, End
<1>5. CASE Outage \/ Recover
  BY <1>3, <1>5 DEF Outage, Recover
<1>6. CASE ProvideClient
  BY <1>3, <1>6 DEF ProvideClient
<1>7. CASE \E p \in Person : PersonJoins(p)
  BY <1>3, <1>7 DEF PersonJoins
<1>8. CASE \E c \in Config : Upgrade(c)
  <2>1. \A r \in Run : pc'[r] = "idle"
    BY <1>8 DEF Upgrade, End
  <2>2. \A r \in Run : Then(pc'[r])
    BY <2>1 DEF Now, Then, ConfiguredAt
  <2> QED BY <1>1, <2>2 DEF IInv, Now, Then
<1>9. CASE UNCHANGED vars
  BY <1>3, <1>9 DEF vars
<1> QED BY <1>2, <1>4, <1>5, <1>6, <1>7, <1>8, <1>9 DEF Next

\* No script has begun at first.
LEMMA InvInit == Init => IInv
<1> SUFFICES ASSUME Init PROVE IInv
  OBVIOUS
<1>1. \A r \in Run : Now(pc[r])
  BY DEF Init, Now, ConfiguredAt
<1> QED BY <1>1, InitTypes DEF IInv

\* When a script has ended well, all that is configured is in effect, for any
\* pods, configurations and faults.
THEOREM DoneConfiguredAlways == Spec => []DoneConfigured
<1>1. Init => IInv
  BY InvInit
<1>2. IInv /\ [Next]_vars => IInv'
  BY InvStep
<1>3. IInv => DoneConfigured
  BY DEF IInv, Now, ConfiguredAt, DoneConfigured, At, Runtime
<1> QED BY <1>1, <1>2, <1>3, PTL DEF Spec

-----------------------------------------------------------------------------
(* Nobody but the client is removed.                                       *)

\* What the scripts are about to remove.
OnlyBogus == \A r \in Run : todo[r] \subseteq {Client}

\* Every step keeps it so: the list is made of users without a GUID.
LEMMA BogusStep ==
  ASSUME RestOK, RunOK, OnlyBogus, [Next]_vars
  PROVE  OnlyBogus'
<1> USE DEF run, OnlyBogus
<1>1. ASSUME \A r \in Run : todo'[r] \subseteq todo[r]
      PROVE  OnlyBogus'
  BY <1>1
<1>2. ASSUME NEW r \in Run, NEW label, Goto(r, label) \/ End({r}, label)
      PROVE  OnlyBogus'
  BY <1>1, <1>2 DEF Goto, End
<1>3. ASSUME NEW r \in Run, Script(r)
      PROVE  OnlyBogus'
  <2>1. CASE ListUsers(r) /\ Authorized(r)
    <3> DEFINE page == {Listed[k] : k \in DOMAIN Listed \cap 1 .. PageSize}
    <3>1. todo' = [todo EXCEPT ![r] = {u \in page : Bogus(u)}]
      BY <2>1 DEF ListUsers
    <3>2. page \subseteq User
      BY ListedKeeps, ElementOfSeq, LenProperties DEF RestOK
    <3>3. {u \in page : Bogus(u)} \subseteq {Client}
      BY <3>2 DEF Bogus, User
    <3> HIDE DEF page
    <3> QED BY <3>1, <3>3 DEF RunOK
  <2>2. CASE ListUsers(r) /\ ~Authorized(r)
    BY <1>2, <2>2 DEF ListUsers
  <2>3. ASSUME NEW u \in todo[r], DeleteUser(r, u)
        PROVE  OnlyBogus'
    <3>1. CASE End({r}, "failed")
      BY <1>2, <3>1
    <3>2. CASE todo' = [todo EXCEPT ![r] = @ \ {u}]
      BY <3>2 DEF RunOK
    <3> QED BY <2>3, <3>1, <3>2 DEF DeleteUser
  <2>4. CASE Start(r) \/ Complete(r) \/ CreateBroker(r) \/ UpdateBroker(r)
    BY <1>2, <2>4 DEF Start, Complete, CreateBroker, UpdateBroker
  <2>5. CASE WaitCC(r) \/ WaitUaa(r) \/ WaitBroker(r)
    BY <1>1, <2>5 DEF WaitCC, WaitUaa, WaitBroker, Retry
  <2>6. CASE Login(r)
    BY <1>1, <1>2, <2>6 DEF Login
  <2>7. CASE SetStaging(r) \/ SetRunning(r)
    <3>1. PICK t \in Runtime, next \in {"running", "list", "waitBroker"} :
               SetEnv(r, t, next)
      BY <2>7 DEF SetStaging, SetRunning, Runtime
    <3>2. Goto(r, next) \/ End({r}, "failed")
      BY <3>1 DEF SetEnv, Command
    <3> QED BY <1>2, <3>2
  <2> QED BY <1>3, <2>1, <2>2, <2>3, <2>4, <2>5, <2>6, <2>7 DEF Script
<1>4. ASSUME NEW r \in Run, Expire(r) \/ Kill(r)
      PROVE  OnlyBogus'
  BY <1>1, <1>2, <1>4 DEF Expire, Kill
<1>5. CASE Outage \/ Recover \/ ProvideClient \/ \E p \in Person : PersonJoins(p)
  BY <1>1, <1>5 DEF Outage, Recover, ProvideClient, PersonJoins
<1>6. CASE \E c \in Config : Upgrade(c)
  BY <1>1, <1>6 DEF Upgrade, End
<1>7. CASE UNCHANGED vars
  BY <1>7 DEF vars
<1> QED BY <1>3, <1>4, <1>5, <1>6, <1>7 DEF Next

\* A step either keeps all users, or removes the client.
LEMMA PersonKept ==
  ASSUME RestOK, RunOK, OnlyBogus, [Next]_vars,
         NEW p \in Person, Contains(users, p)
  PROVE  Contains(users', p)
<1> USE DEF controller
<1>1. Contains(Listed, p) /\ Listed \in Seq(User)
  BY ListedKeeps DEF RestOK
<1>2. ASSUME users' \in {users, Listed}
      PROVE  Contains(users', p)
  BY <1>1, <1>2
<1>3. ASSUME NEW r \in Run, Script(r)
      PROVE  Contains(users', p)
  <2>1. ASSUME NEW u \in todo[r], DeleteUser(r, u)
        PROVE  Contains(users', p)
    <3>1. u = Client /\ p # Client
      BY <2>1, ConstantsAssumption DEF OnlyBogus
    <3>2. CASE Authorized(r) /\ Contains(Listed, u)
      <4>1. PICK k \in 1 .. Len(Listed) :
              Listed[k] = u /\ users' = RemoveAt(Listed, k)
        BY <2>1, <3>2 DEF DeleteUser
      <4> QED BY <1>1, <3>1, <4>1, RemoveAtKeeps
    <3>3. CASE ~(Authorized(r) /\ Contains(Listed, u))
      BY <1>2, <2>1, <3>3 DEF DeleteUser
    <3> QED BY <3>2, <3>3
  <2>2. CASE SetStaging(r) \/ SetRunning(r)
    <3>1. PICK t \in Runtime, next \in {"running", "list", "waitBroker"} :
               SetEnv(r, t, next)
      BY <2>2 DEF SetStaging, SetRunning, Runtime
    <3>2. users' \in {users, Listed}
      BY <3>1 DEF SetEnv, Command
    <3> QED BY <1>2, <3>2
  <2>3. CASE ListUsers(r)
    BY <1>2, <2>3 DEF ListUsers
  <2>4. CASE CreateBroker(r) \/ UpdateBroker(r)
    BY <1>2, <2>4 DEF CreateBroker, UpdateBroker
  <2>5. CASE Start(r) \/ Login(r) \/ Complete(r)
    BY <1>2, <2>5 DEF Start, Login, Complete
  <2>6. CASE WaitCC(r) \/ WaitUaa(r) \/ WaitBroker(r)
    BY <1>2, <2>6 DEF WaitCC, WaitUaa, WaitBroker, Retry
  <2> QED BY <1>3, <2>1, <2>2, <2>3, <2>4, <2>5, <2>6 DEF Script
<1>4. CASE \E q \in Person : PersonJoins(q)
  <2>1. PICK q \in Person : users' = Append(users, q)
    BY <1>4 DEF PersonJoins
  <2>2. /\ Len(Append(users, q)) = Len(users) + 1
        /\ \A k \in 1 .. Len(users) : Append(users, q)[k] = users[k]
    <3>1. q \in User
      BY DEF User
    <3> QED BY <3>1, AppendProperties DEF RestOK
  <2>3. Len(users) \in Nat
    BY LenProperties DEF RestOK
  <2> QED BY <2>1, <2>2, <2>3 DEF Contains
<1>5. ASSUME NEW r \in Run, Expire(r) \/ Kill(r)
      PROVE  Contains(users', p)
  BY <1>2, <1>5 DEF Expire, Kill
<1>6. CASE Outage \/ Recover \/ ProvideClient
  BY <1>2, <1>6 DEF Outage, Recover, ProvideClient
<1>7. CASE \E c \in Config : Upgrade(c)
  BY <1>2, <1>7 DEF Upgrade
<1>8. CASE UNCHANGED vars
  BY <1>2, <1>8 DEF vars
<1> QED BY <1>3, <1>4, <1>5, <1>6, <1>7, <1>8 DEF Next

\* No user but the client is ever removed, whether or not users have names
\* at the time, and whoever else is on the page.
THEOREM OnlyClientRemovedAlways == Spec => OnlyClientRemoved
<1> DEFINE Inv == RestOK /\ RunOK /\ OnlyBogus
<1>1. Init => Inv
  BY InitTypes DEF Init, OnlyBogus
<1>2. Inv /\ [Next]_vars => Inv'
  BY TypeStep, BogusStep
<1>3. Inv /\ [Next]_vars
        => [\A p \in Person : Contains(users, p) => Contains(users', p)]_vars
  BY PersonKept
<1> QED BY <1>1, <1>2, <1>3, PTL DEF Spec, OnlyClientRemoved
-----------------------------------------------------------------------------
(* The client goes with the last script.                                   *)

\* Everybody fits on the page that the script reads.
PageHoldsAll == IsFiniteSet(Person) /\ Cardinality(Person) < PageSize

\* Nobody is listed twice.
Distinct(s) == \A j, k \in 1 .. Len(s) : s[j] = s[k] => j = k

\* A script that has yet to remove the client.
Pending(r) == pc[r] # "done" /\ (pc[r] = "delete" => Client \in todo[r])

ClientInv ==
  /\ Distinct(users)
  /\ Contains(users, Client) => \E r \in Run : Pending(r)

\* Somebody new at the end of the list.
LEMMA AppendDistinct ==
  ASSUME NEW s \in Seq(User), NEW u \in User, Distinct(s), ~Contains(s, u)
  PROVE  Distinct(Append(s, u)) /\ \A q : Contains(Append(s, u), q)
                                          => q = u \/ Contains(s, q)
<1>1. /\ Len(s) \in Nat /\ Len(Append(s, u)) = Len(s) + 1
      /\ \A k \in 1 .. Len(s) : Append(s, u)[k] = s[k]
      /\ Append(s, u)[Len(s) + 1] = u
  BY LenProperties, AppendProperties
<1>2. \A k \in 1 .. Len(s) : s[k] # u
  BY DEF Contains
<1>3. \A k \in 1 .. Len(s) + 1 : k \in 1 .. Len(s) \/ k = Len(s) + 1
  BY <1>1
<1> QED BY <1>1, <1>2, <1>3 DEF Distinct, Contains

LEMMA ListedDistinct ==
  ASSUME users \in Seq(User), Distinct(users)
  PROVE  Distinct(Listed) /\ Contains(Listed, Client)
<1>1. CASE Contains(users, Client)
  BY <1>1 DEF Listed
<1>2. CASE ~Contains(users, Client)
  <2>1. Listed = Append(users, Client) /\ Client \in User
    BY <1>2 DEF Listed, User
  <2>2. Distinct(Listed)
    BY <1>2, <2>1, AppendDistinct
  <2>3. /\ Len(users) \in Nat /\ Len(Listed) = Len(users) + 1
        /\ Listed[Len(users) + 1] = Client
    BY <2>1, LenProperties, AppendProperties
  <2> QED BY <2>2, <2>3 DEF Contains
<1> QED BY <1>1, <1>2

\* Who is removed from such a list is gone.
LEMMA RemoveAtDistinct ==
  ASSUME NEW s \in Seq(User), NEW k \in 1 .. Len(s), Distinct(s)
  PROVE  Distinct(RemoveAt(s, k)) /\ ~Contains(RemoveAt(s, k), s[k])
<1> DEFINE from(i) == IF i < k THEN i ELSE i + 1
<1>1. Len(s) \in Nat
  BY LenProperties
<1>2. \A i \in 1 .. Len(s) - 1 : from(i) \in 1 .. Len(s) /\ from(i) # k
  BY <1>1
<1>3. \A i \in 1 .. Len(s) - 1 : RemoveAt(s, k)[i] = s[from(i)]
  BY RemoveAtElements
<1>4. \A i, j \in 1 .. Len(s) - 1 : from(i) = from(j) => i = j
  BY <1>1
<1>5. Len(RemoveAt(s, k)) = Len(s) - 1
  BY RemoveAtElements
<1> HIDE DEF from
<1>6. ASSUME NEW i \in 1 .. Len(s) - 1, NEW j \in 1 .. Len(s) - 1,
             RemoveAt(s, k)[i] = RemoveAt(s, k)[j]
      PROVE  i = j
  <2>1. s[from(i)] = s[from(j)]
    BY <1>3, <1>6
  <2>2. from(i) = from(j)
    BY <1>2, <2>1 DEF Distinct
  <2> QED BY <1>4, <2>2
<1>7. ASSUME NEW i \in 1 .. Len(s) - 1
      PROVE  RemoveAt(s, k)[i] # s[k]
  <2>1. s[from(i)] # s[k]
    BY <1>2 DEF Distinct
  <2> QED BY <1>3, <2>1
<1> QED BY <1>5, <1>6, <1>7 DEF Distinct, Contains

\* A list without doubles is no longer than there are users.
LEMMA DistinctFits ==
  ASSUME PageHoldsAll, NEW s \in Seq(User), Distinct(s)
  PROVE  DOMAIN s \cap 1 .. PageSize = 1 .. Len(s)
<1>1. Len(s) \in Nat /\ s \in [1 .. Len(s) -> User]
  BY LenProperties
<1>2. s \in Injection(1 .. Len(s), User)
  BY <1>1 DEF Injection, IsInjective, Distinct
<1>3. /\ IsFiniteSet(User) /\ Cardinality(User) <= Cardinality(Person) + 1
      /\ Cardinality(Person) \in Nat
  <2>1. IsFiniteSet(Person) /\ Cardinality(Person) \in Nat /\ Client \notin Person
    BY FS_CardinalityType, ConstantsAssumption DEF PageHoldsAll
  <2>2. /\ IsFiniteSet(Person \cup {Client})
        /\ Cardinality(Person \cup {Client}) = Cardinality(Person) + 1
    BY <2>1, FS_AddElement
  <2> QED BY <2>1, <2>2 DEF User
<1>4. Cardinality(1 .. Len(s)) <= Cardinality(User)
  BY <1>2, <1>3, FS_Injection
<1>5. Cardinality(1 .. Len(s)) = Len(s)
  BY <1>1, FS_Interval
<1>6. Cardinality(User) \in Nat
  BY <1>3, FS_CardinalityType
<1>7. Len(s) <= PageSize
  BY <1>1, <1>3, <1>4, <1>5, <1>6, ConstantsAssumption DEF PageHoldsAll
<1> QED BY <1>1, <1>7, ConstantsAssumption

\* The list without doubles, whoever is added to it or removed.
LEMMA ClientStaysPending ==
  ASSUME RunOK, ClientInv, NEW r \in Run,
         \A q \in Run \ {r} : pc'[q] = pc[q] /\ todo'[q] = todo[q],
         Distinct(users'), Contains(users', Client) => Contains(users, Client),
         Pending(r) => Pending(r)'
  PROVE  ClientInv'
BY DEF ClientInv, Pending

\* A call that lists the client is one of a script that is to remove it.
LEMMA CallerPending ==
  ASSUME NEW r \in Run, Distinct(users'), Pending(r)'
  PROVE  ClientInv'
BY DEF ClientInv

\* A script that goes on or ends before the list has the client to remove.
LEMMA MovePending ==
  ASSUME RunOK, NEW r \in Run, NEW label \in Label \ {"done", "delete"},
         Goto(r, label) \/ End({r}, label)
  PROVE  Pending(r)' /\ \A q \in Run \ {r} : pc'[q] = pc[q] /\ todo'[q] = todo[q]
BY DEF RunOK, Goto, End, Pending

LEMMA ClientByScript ==
  ASSUME PageHoldsAll, RestOK, RunOK, OnlyBogus, ClientInv,
         NEW r \in Run, Script(r)
  PROVE  ClientInv'
<1> USE DEF controller
<1>0. Distinct(users) /\ Distinct(Listed) /\ Contains(Listed, Client)
      /\ Listed \in Seq(User)
  BY ListedDistinct, ListedKeeps DEF ClientInv, RestOK
<1>1. ASSUME NEW label \in Label \ {"done", "delete"},
             Goto(r, label) \/ End({r}, label), users' \in {users, Listed}
      PROVE  ClientInv'
  BY <1>0, <1>1, MovePending, CallerPending
<1>2. CASE Start(r)
  BY <1>1, <1>2 DEF Start, Label
<1>3. CASE WaitCC(r) \/ WaitUaa(r) \/ WaitBroker(r)
  <2>1. PICK label, next \in Label \ {"done", "delete"}, answered \in BOOLEAN :
          Retry(r, label, answered, next)
    BY <1>3 DEF WaitCC, WaitUaa, WaitBroker, Label, RestOK
  <2>2. /\ pc[r] = label /\ pc'[r] \in {label, next}
        /\ UNCHANGED <<todo, users>> /\ \A q \in Run \ {r} : pc'[q] = pc[q]
    BY <2>1 DEF Retry, At, RunOK
  <2>3. pc'[r] \notin {"done", "delete"}
    BY <2>1, <2>2
  <2> QED BY <1>0, <2>2, <2>3, CallerPending DEF Pending
<1>4. CASE Login(r)
  <2>1. CASE pc' = [pc EXCEPT ![r] = "staging"]
    <3>1. Pending(r)' /\ UNCHANGED users
      BY <1>4, <2>1 DEF Login, RunOK, Pending
    <3> QED BY <1>0, <3>1, CallerPending
  <2>2. CASE End({r}, "failed")
    BY <1>1, <1>4, <2>2 DEF Login, Label
  <2> QED BY <1>4, <2>1, <2>2 DEF Login
<1>5. CASE SetStaging(r) \/ SetRunning(r)
  <2>1. PICK t \in Runtime, next \in {"running", "list", "waitBroker"} :
             SetEnv(r, t, next)
    BY <1>5 DEF SetStaging, SetRunning, Runtime
  <2>2. /\ users' \in {users, Listed}
        /\ Goto(r, next) \/ End({r}, "failed")
    BY <2>1 DEF SetEnv, Command
  <2> QED BY <1>1, <2>2 DEF Label
<1>6. CASE CreateBroker(r) \/ UpdateBroker(r)
  <2>1. /\ users' \in {users, Listed}
        /\ Goto(r, "list") \/ Goto(r, "updateBroker") \/ End({r}, "failed")
    BY <1>6 DEF CreateBroker, UpdateBroker
  <2> QED BY <1>1, <2>1 DEF Label
<1>7. CASE ListUsers(r) /\ ~Authorized(r)
  BY <1>1, <1>7 DEF ListUsers, Label
<1>8. CASE ListUsers(r) /\ Authorized(r)
  <2> DEFINE page == {Listed[k] : k \in DOMAIN Listed \cap 1 .. PageSize}
  <2>1. users' = Listed /\ pc' = [pc EXCEPT ![r] = "delete"]
        /\ todo' = [todo EXCEPT ![r] = {u \in page : Bogus(u)}]
    BY <1>8 DEF ListUsers
  <2>2. Client \in page
    BY <1>0, DistinctFits DEF Contains
  <2>3. Bogus(Client)
    BY ConstantsAssumption DEF Bogus, Named
  <2> HIDE DEF page
  <2>4. Pending(r)'
    BY <2>1, <2>2, <2>3 DEF Pending, RunOK
  <2> QED BY <1>0, <2>1, <2>4, CallerPending
<1>9. ASSUME NEW u \in todo[r], DeleteUser(r, u)
      PROVE  ClientInv'
  <2>1. CASE End({r}, "failed") /\ users' \in {users, Listed}
    BY <1>1, <2>1 DEF Label
  <2>2. CASE /\ \E k \in 1 .. Len(Listed) :
                   Listed[k] = u /\ users' = RemoveAt(Listed, k)
             /\ todo' = [todo EXCEPT ![r] = @ \ {u}]
             /\ UNCHANGED pc
    <3>1. Distinct(users') /\ ~Contains(users', u)
      BY <1>0, <2>2, RemoveAtDistinct
    <3>2. u = Client
      BY <1>9 DEF OnlyBogus
    <3> QED BY <3>1, <3>2 DEF ClientInv
  <2> QED BY <1>9, <2>1, <2>2 DEF DeleteUser
<1>10. CASE Complete(r)
  <2>1. UNCHANGED users /\ ~Pending(r)
        /\ \A q \in Run \ {r} : pc'[q] = pc[q] /\ todo'[q] = todo[q]
    BY <1>10 DEF Complete, At, Pending, End
  <2> QED BY <1>0, <2>1, ClientStaysPending
<1> QED BY <1>2, <1>3, <1>4, <1>5, <1>6, <1>7, <1>8, <1>9, <1>10 DEF Script

LEMMA ClientStep ==
  ASSUME PageHoldsAll, RestOK, RunOK, OnlyBogus, ClientInv, [Next]_vars
  PROVE  ClientInv'
<1> USE DEF controller, run
<1>1. ASSUME UNCHANGED <<users, pc, todo>>
      PROVE  ClientInv'
  BY <1>1 DEF ClientInv, Pending
<1>2. CASE \E r \in Run : Script(r)
  BY <1>2, ClientByScript
<1>3. CASE \E r \in Run : Expire(r)
  BY <1>1, <1>3 DEF Expire
<1>4. CASE \E r \in Run : Kill(r)
  <2>1. PICK r \in Run : End({r}, "idle") /\ UNCHANGED users
    BY <1>4 DEF Kill
  <2>2. Pending(r)'
    BY <2>1, MovePending DEF Label
  <2> QED BY <2>1, <2>2, CallerPending DEF ClientInv
<1>5. CASE Outage \/ Recover \/ ProvideClient
  BY <1>1, <1>5 DEF Outage, Recover, ProvideClient
<1>6. CASE \E p \in Person : PersonJoins(p)
  <2>1. PICK p \in Person : /\ ~Contains(users, p) /\ users' = Append(users, p)
                            /\ UNCHANGED <<pc, todo>>
    BY <1>6 DEF PersonJoins
  <2>2. p \in User /\ p # Client /\ users \in Seq(User)
    BY ConstantsAssumption DEF User, RestOK
  <2>3. Distinct(users') /\ (Contains(users', Client) => Contains(users, Client))
    BY <2>1, <2>2, AppendDistinct DEF ClientInv
  <2> QED BY <2>1, <2>3 DEF ClientInv, Pending
<1>7. CASE \E c \in Config : Upgrade(c)
  <2>1. UNCHANGED users /\ \A r \in Run : pc'[r] = "idle"
    BY <1>7 DEF Upgrade, End
  <2> QED BY <2>1 DEF ClientInv, Pending
<1>8. CASE UNCHANGED vars
  BY <1>1, <1>8 DEF vars
<1> QED BY <1>2, <1>3, <1>4, <1>5, <1>6, <1>7, <1>8 DEF Next

\* When all pods have ended well the client is no user any more, for any pods,
\* configurations and faults, as long as the page that remove_temporary_users.rb
\* reads has room for all users: the last script to call the cloud controller
\* is one that removes the client afterwards.
THEOREM ClientNotListedOnOnePage ==
  ASSUME PageHoldsAll
  PROVE  Spec => []ClientNotListed
<1> DEFINE Inv == RestOK /\ RunOK /\ OnlyBogus /\ ClientInv
<1>1. Init => Inv
  BY InitTypes DEF Init, OnlyBogus, ClientInv, Distinct, Contains
<1>2. Inv /\ [Next]_vars => Inv'
  BY TypeStep, BogusStep, ClientStep
<1>3. Inv => ClientNotListed
  BY DEF ClientInv, Pending, ClientNotListed, At
<1> QED BY <1>1, <1>2, <1>3, PTL DEF Spec

-----------------------------------------------------------------------------
(* The job implements Provisioning.                                        *)

\* A pod comes to the broker's commands only if a broker is configured.
BrokerLabel == {"waitBroker", "createBroker", "updateBroker"}
BrokerWanted == \A r \in Run : pc[r] \in BrokerLabel => config.broker # None

\* What each slot holds, what is wanted there, and what it holds after a step.
LEMMA SlotValues ==
  /\ Slots = {"staging", "running", "broker"}
  /\ \A t \in Runtime : Have[t] = env[t] /\ Want[t] = config.env[t]
  /\ Have["broker"] = broker /\ Want["broker"] = config.broker
BY DEF Slots, Runtime, Have, Want

LEMMA SlotValuesNext ==
  /\ \A t \in Runtime : Have'[t] = env'[t] /\ Want'[t] = config'.env[t]
  /\ Have'["broker"] = broker' /\ Want'["broker"] = config'.broker
BY DEF Slots, Runtime, Have, Want

LEMMA SlotTypes ==
  ASSUME RestOK
  PROVE  /\ Have \in [Slots -> Value \cup {None}]
         /\ Want \in [Slots -> Value \cup {None}]
BY ConfigParts DEF RestOK, Have, Want, Slots, Runtime

LEMMA SlotTypesNext ==
  ASSUME RestOK'
  PROVE  /\ Have' \in [Slots -> Value \cup {None}]
         /\ Want' \in [Slots -> Value \cup {None}]
<1>1. config' \in ConfigType
  BY ConstantsAssumption DEF RestOK
<1> QED BY <1>1 DEF RestOK, Have, Want, Slots, Runtime, ConfigType

LEMMA SlotsSame ==
  ASSUME UNCHANGED <<env, broker, config>>
  PROVE  UNCHANGED <<Have, Want>>
BY DEF Have, Want

\* A step of a script replaces a value by the one that is wanted, only.
LEMMA ScriptForward ==
  ASSUME RestOK, RunOK, BrokerWanted, NEW r \in Run, Script(r)
  PROVE  /\ UNCHANGED config
         /\ \A t \in Runtime :
              \/ env'[t] = env[t]
              \/ config.env[t] # None /\ env'[t] = config.env[t]
         /\ \/ broker' = broker
            \/ config.broker # None /\ broker' = config.broker
<1> USE DEF controller, deployment, At
<1>1. ASSUME NEW t \in Runtime, NEW next, SetEnv(r, t, next)
      PROVE  /\ UNCHANGED <<config, broker>>
             /\ \/ env' = env
                \/ /\ config.env[t] # None
                   /\ env' = [env EXCEPT ![t] = config.env[t]]
  BY <1>1 DEF SetEnv, Command
<1>2. CASE SetStaging(r)
  BY <1>1, <1>2 DEF SetStaging, Runtime, RestOK
<1>3. CASE SetRunning(r)
  BY <1>1, <1>3 DEF SetRunning, Runtime, RestOK
<1>4. CASE CreateBroker(r) \/ UpdateBroker(r)
  BY <1>4 DEF CreateBroker, UpdateBroker, BrokerWanted, BrokerLabel
<1>5. CASE ~SetStaging(r) /\ ~SetRunning(r) /\ ~CreateBroker(r)
             /\ ~UpdateBroker(r)
  BY <1>5 DEF Script, Start, WaitCC, WaitUaa, WaitBroker, Retry, Login,
              ListUsers, DeleteUser, Complete
<1> QED BY <1>2, <1>3, <1>4, <1>5

\* A step of a script that ends well sets nothing; the one that has ended takes
\* no more.
LEMMA ScriptDone ==
  ASSUME RestOK, RunOK, NEW r \in Run, Script(r)
  PROVE  /\ pc[r] # "done"
         /\ pc'[r] = "done" => UNCHANGED <<env, broker, config>>
<1> USE DEF controller, deployment, At, RunOK
<1>1. pc[r] # "done"
  BY DEF Script, Start, WaitCC, WaitUaa, WaitBroker, Retry, Login, SetStaging,
     SetRunning, SetEnv, Command, CreateBroker, UpdateBroker, ListUsers,
     DeleteUser, Complete
<1>2. ASSUME NEW t \in Runtime, NEW next, next # "done", SetEnv(r, t, next)
      PROVE  pc'[r] # "done"
  BY <1>2 DEF SetEnv, Command, Goto, End
<1>3. CASE SetStaging(r) \/ SetRunning(r)
  <2>1. pc'[r] # "done"
    BY <1>2, <1>3 DEF SetStaging, SetRunning, Runtime
  <2> QED BY <1>1, <2>1
<1>4. CASE CreateBroker(r) \/ UpdateBroker(r)
  BY <1>1, <1>4 DEF CreateBroker, UpdateBroker, Goto, End
<1>5. CASE ~SetStaging(r) /\ ~SetRunning(r) /\ ~CreateBroker(r)
             /\ ~UpdateBroker(r)
  BY <1>1, <1>5 DEF Script, Start, WaitCC, WaitUaa, WaitBroker, Retry, Login,
              ListUsers, DeleteUser, Complete
<1> QED BY <1>3, <1>4, <1>5

LEMMA BrokerWantedInit == Init => BrokerWanted
BY DEF Init, BrokerWanted, BrokerLabel

\* Every step keeps the broker's commands to those who have a broker to set.
LEMMA BrokerWantedStep ==
  ASSUME IInv, BrokerWanted, [Next]_vars
  PROVE  BrokerWanted'
<1> USE DEF deployment, run, BrokerLabel, At
<1>1. ASSUME NEW r \in Run, Script(r)
      PROVE  BrokerWanted'
  <2>1. UNCHANGED config /\ pc' = [pc EXCEPT ![r] = pc'[r]]
    BY <1>1, ScriptProgress DEF IInv, Kept
  <2>2. ASSUME pc'[r] \in BrokerLabel
        PROVE  pc[r] \in BrokerLabel \/ config.broker # None
    <3>1. ASSUME NEW t \in Runtime, NEW next, SetEnv(r, t, next)
          PROVE  pc'[r] \in {next, "failed"}
      BY <3>1, SetEnvProgress DEF IInv
    <3>2. CASE SetStaging(r)
      BY <2>2, <3>1, <3>2 DEF SetStaging, Runtime
    <3>3. CASE SetRunning(r)
      BY <2>2, <3>1, <3>3 DEF SetRunning, Runtime
    <3>4. CASE WaitBroker(r) \/ CreateBroker(r) \/ UpdateBroker(r)
      BY <3>4 DEF WaitBroker, Retry, CreateBroker, UpdateBroker
    <3>5. CASE WaitCC(r) \/ WaitUaa(r)
      BY <2>2, <3>5, RetryProgress DEF WaitCC, WaitUaa, IInv
    <3>6. CASE Start(r) \/ Login(r) \/ ListUsers(r)
                 \/ (\E u \in todo[r] : DeleteUser(r, u)) \/ Complete(r)
      BY <2>2, <3>6 DEF Start, Login, ListUsers, DeleteUser, Complete, Goto,
         End, IInv, RunOK
    <3> QED BY <1>1, <3>2, <3>3, <3>4, <3>5, <3>6 DEF Script
  <2> QED BY <2>1, <2>2 DEF BrokerWanted, IInv, RunOK
<1>2. ASSUME UNCHANGED config, \A r \in Run : pc'[r] \in {pc[r], "idle"}
      PROVE  BrokerWanted'
  BY <1>2 DEF BrokerWanted
<1>3. ASSUME NEW c \in Config, Upgrade(c)
      PROVE  BrokerWanted'
  BY <1>3 DEF Upgrade, End, BrokerWanted
<1> QED
  BY <1>1, <1>2, <1>3 DEF Next, Expire, Kill, End, Outage, Recover,
     ProvideClient, PersonJoins, vars

\* Where a script has ended well, nothing that is wanted is missing.
LEMMA DoneComplete ==
  ASSUME DoneConfigured, Announced
  PROVE  Abstract!Complete
<1>1. \A t \in Runtime : config.env[t] \in {None, env[t]}
  BY DEF DoneConfigured, Announced
<1>2. config.broker \in {None, broker}
  BY DEF DoneConfigured, Announced
<1> QED
  BY <1>1, <1>2, SlotValues DEF Abstract!Complete, Abstract!Wanted, Runtime

\* A step of a script provides or announces.
LEMMA ScriptImplements ==
  ASSUME IInv, IInv', BrokerWanted, DoneConfigured', NEW r \in Run, Script(r)
  PROVE  Abstract!Next
<1>1. RestOK /\ RunOK /\ RestOK' /\ RunOK'
  BY DEF IInv
<1>2. /\ pc[r] # "done"
      /\ pc'[r] = "done" => UNCHANGED <<env, broker, config>>
  BY <1>1, ScriptDone
<1>3. \A q \in Run : q # r => pc'[q] = pc[q]
  <2>1. pc' = [pc EXCEPT ![r] = pc'[r]]
    BY <1>1, ScriptProgress DEF IInv
  <2> QED BY <1>1, <2>1 DEF RunOK
<1>4. CASE pc'[r] # "done"
  <2>1. Announced' = Announced
    BY <1>2, <1>3, <1>4 DEF Announced, At
  <2>2. UNCHANGED config
    BY <1>1, ScriptForward
  <2>3. Want' = Want
    BY <2>2 DEF Want
  <2>4. Have' \in [Slots -> Value \cup {None}]
    BY <1>1, SlotTypesNext
  <2>5. ASSUME NEW s \in Slots
        PROVE  \/ Have'[s] = Have[s]
               \/ Want[s] # None /\ Have'[s] = Want[s]
    <3>1. CASE s \in Runtime
      BY <1>1, <3>1, ScriptForward, SlotValues, SlotValuesNext
    <3>2. CASE s = "broker"
      BY <1>1, <3>2, ScriptForward, SlotValues, SlotValuesNext
    <3> QED BY <3>1, <3>2 DEF Slots
  <2> QED BY <2>1, <2>3, <2>4, <2>5
          DEF Abstract!Next, Abstract!Provide, Abstract!Wanted
<1>5. CASE pc'[r] = "done"
  <2>1. UNCHANGED <<env, broker, config>> /\ UNCHANGED <<Have, Want>>
    BY <1>2, <1>5, SlotsSame
  <2>2. /\ \A t \in Runtime : config.env[t] \in {None, env[t]}
        /\ config.broker \in {None, broker}
    BY <1>5, <2>1 DEF DoneConfigured, At
  <2>3. Abstract!Complete
    BY <2>2, SlotValues DEF Abstract!Complete, Abstract!Wanted, Runtime
  <2>4. Announced' = TRUE
    BY <1>5 DEF Announced, At
  <2> QED BY <2>1, <2>3, <2>4 DEF Abstract!Next, Abstract!Announce
<1> QED BY <1>4, <1>5

\* A step of anybody provides, announces, redeploys, or changes nothing.
LEMMA StepImplements ==
  ASSUME IInv, IInv', BrokerWanted, DoneConfigured', [Next]_vars
  PROVE  [Abstract!Next]_(Abstract!vars)
<1> USE DEF controller, deployment, run
<1>1. ASSUME NEW r \in Run, Script(r)
      PROVE  Abstract!Next
  BY <1>1, ScriptImplements
<1>2. ASSUME UNCHANGED <<env, broker, config>>,
             \A r \in Run : pc'[r] = "done" <=> pc[r] = "done"
      PROVE  UNCHANGED Abstract!vars
  <2>1. Announced' = Announced
    BY <1>2 DEF Announced, At
  <2> QED BY <1>2, <2>1, SlotsSame DEF Abstract!vars
<1>3. ASSUME NEW c \in Config, Upgrade(c)
      PROVE  Abstract!Redeploy
  <2>1. Have' = Have /\ Announced' = FALSE
    BY <1>3 DEF Upgrade, End, Have, Announced, At
  <2>2. Want' \in [Slots -> Value \cup {None}]
    BY SlotTypesNext DEF IInv
  <2> QED BY <2>1, <2>2 DEF Abstract!Redeploy
<1>4. ASSUME NEW r \in Run, Expire(r) \/ Kill(r)
      PROVE  UNCHANGED Abstract!vars
  <2>1. \A q \in Run : pc'[q] = "done" <=> pc[q] = "done"
    BY <1>4 DEF Expire, Kill, End
  <2> QED BY <1>2, <1>4, <2>1 DEF Expire, Kill
<1>5. CASE Outage \/ Recover \/ ProvideClient \/ UNCHANGED vars
  BY <1>2, <1>5 DEF Outage, Recover, ProvideClient, vars
<1>6. CASE \E p \in Person : PersonJoins(p)
  BY <1>2, <1>6 DEF PersonJoins
<1> QED BY <1>1, <1>3, <1>4, <1>5, <1>6 DEF Next, Abstract!Next

LEMMA InitImplements ==
  ASSUME Init
  PROVE  Abstract!Init
<1>1. Have \in [Slots -> Value \cup {None}] /\ Want \in [Slots -> Value \cup {None}]
  BY InitTypes, SlotTypes
<1>2. \A s \in Slots : Have[s] = None
  BY SlotValues DEF Init, Runtime
<1>3. Have = [s \in Slots |-> None]
  BY <1>1, <1>2
<1>4. Announced = FALSE
  BY DEF Init, Announced, At
<1> QED BY <1>1, <1>3, <1>4 DEF Abstract!Init

\* The job keeps what Provisioning promises: nothing is replaced but by what is
\* wanted, what nobody configures is left alone, and success means that all of
\* it is there, for any pods, configurations and faults.
THEOREM ImplementsProvisioningAlways == Spec => ImplementsProvisioning
<1>1. Init => IInv /\ BrokerWanted /\ Abstract!Init
  BY BrokerWantedInit, InvInit, InitImplements
<1>2. IInv /\ BrokerWanted /\ [Next]_vars => IInv' /\ BrokerWanted'
  BY InvStep, BrokerWantedStep
<1>3. IInv /\ IInv' /\ BrokerWanted /\ DoneConfigured' /\ [Next]_vars
        => [Abstract!Next]_(Abstract!vars)
  BY StepImplements
<1> QED
  BY <1>1, <1>2, <1>3, DoneConfiguredAlways, PTL
     DEF Spec, ImplementsProvisioning, Abstract!Spec
=============================================================================
