------------------------- MODULE MysqlBootstrapProofs -------------------------
(***************************************************************************)
(* Proofs about the choice of the bootstrap node, for any number of pods,  *)
(* checks and transactions, whichever calls fail and pods are slow: types, *)
(* and that, unless a run is misled, the lists are read with every mysqld  *)
(* stopped, one pod only is marked, and nothing is lost.                   *)
(*                                                                         *)
(* The argument: a pod that was told to stop and has stopped stays down    *)
(* while the script runs, so once all are down what they have is frozen.   *)
(* Then a list of full length has every pod's own position, since each pod *)
(* adds one element at most, and the choice is the first pod that has      *)
(* most: the same one whenever the script is run again, until that pod is  *)
(* restarted, which makes the cluster anew and takes its mark away.        *)
(***************************************************************************)
EXTENDS MysqlBootstrap, FiniteSetTheorems, TLAPS

-----------------------------------------------------------------------------
(* The last transaction.                                                   *)

\* For each element of S those that are greater.
Above(S) == [m \in S |-> {y \in S : y > m}]
Aboves(S) == {Above(S)[m] : m \in S}

\* A finite set of integers has a greatest element: the one with the fewest
\* above it.
LEMMA MaxFacts ==
  ASSUME NEW S \in SUBSET Int, IsFiniteSet(S), S # {}
  PROVE  Max(S) \in S /\ \A y \in S : y <= Max(S)
<1>0. FiniteSubsetsOf(S) = SUBSET S
  BY FS_FiniteSubsetsOfFinite
<1>1. \A m \in S : Above(S)[m] \subseteq S
  BY DEF Above
<1>2. Aboves(S) \subseteq SUBSET S /\ Aboves(S) # {}
  BY <1>1 DEF Aboves
<1>3. PICK A \in Aboves(S) :
        \A B \in Aboves(S) : <<B, A>> \notin StrictSubsetOrdering(S)
  <2>1. IsWellFoundedOn(StrictSubsetOrdering(S), SUBSET S)
    BY <1>0, FS_StrictSubsetOrderingWellFounded
  <2> QED BY <1>2, <2>1, WFMin
<1>4. PICK m \in S : A = Above(S)[m]
  BY <1>3 DEF Aboves
<1>5. ASSUME NEW y \in S, y > m
      PROVE  FALSE
  <2>1. y \in Above(S)[m] /\ y \notin Above(S)[y]
    BY <1>5 DEF Above
  <2>2. ASSUME NEW z \in Above(S)[y]
        PROVE  z \in Above(S)[m]
    <3>1. z \in S /\ z \in Int /\ z > y
      BY <2>2 DEF Above
    <3> QED BY <1>5, <3>1 DEF Above
  <2>3. Above(S)[y] \in Aboves(S)
    BY DEF Aboves
  <2>4. <<Above(S)[y], A>> \in StrictSubsetOrdering(S)
    BY <1>1, <1>4, <2>1, <2>2 DEF StrictSubsetOrdering
  <2> QED BY <1>3, <2>3, <2>4
<1>6. \A y \in S : m >= y
  BY <1>5
<1>7. Max(S) \in S /\ \A y \in S : Max(S) >= y
  BY <1>6 DEF Max
<1> QED BY <1>7

LEMMA LargestFacts ==
  ASSUME ConstantsAssumption, NEW f \in [Pod -> Position]
  PROVE  LET largest == Max({f[p] : p \in Pod})
         IN  /\ \A p \in Pod : f[p] <= largest
             /\ \E p \in Pod : largest = f[p]
<1> DEFINE S == {f[p] : p \in Pod}
<1>1. S \subseteq Position
  OBVIOUS
<1>2. 1 \in Pod
  BY DEF ConstantsAssumption, Pod
<1>3. IsFiniteSet(Position) /\ Position \subseteq Int
  BY FS_Interval DEF Position, ConstantsAssumption
<1>4. IsFiniteSet(S) /\ S \subseteq Int
  BY <1>1, <1>3, FS_Subset
<1>5. S # {}
  BY <1>2
<1> HIDE DEF S
<1>6. Max(S) \in S /\ \A y \in S : y <= Max(S)
  BY <1>4, <1>5, MaxFacts
<1> USE DEF S
<1> QED BY <1>6

LEMMA LatestFacts ==
  ASSUME ConstantsAssumption, pos \in [Pod -> Position]
  PROVE  /\ \A p \in Pod : pos[p] <= Latest
         /\ \E p \in Pod : Latest = pos[p]
BY LargestFacts DEF Latest

-----------------------------------------------------------------------------
(* Types.                                                                  *)

ScriptType ==
  /\ pc \in {"idle", "stop", "test", "sequences", "uuids", "choose", "recover",
             "grep", "set", "done", "aborted"}
  /\ i \in Pod /\ x \in 0 .. MaxWait
  /\ sequences \in Seq(Position) /\ uuids \in Seq(BOOLEAN)
  /\ latest \in Position /\ best \in Pod

ClusterType ==
  /\ up \in SUBSET Pod /\ told \in SUBSET Pod /\ fresh \in SUBSET Pod
  /\ boot \in SUBSET Pod /\ misled \in BOOLEAN
  /\ pos \in [Pod -> Position] /\ seqno \in [Pod -> Position]
  /\ logged \in [Pod -> Position \cup {-2}]

LEMMA TypeParts == TypeOK <=> ScriptType /\ ClusterType
BY DEF TypeOK, ScriptType, ClusterType

LEMMA TypePartsNext ==
  ASSUME ScriptType', ClusterType'
  PROVE  TypeOK'
BY DEF TypeOK, ScriptType, ClusterType

LEMMA ConstantFacts ==
  ASSUME ConstantsAssumption
  PROVE  /\ 1 \in Pod /\ 0 \in 0 .. MaxWait
         /\ 0 \in Position /\ 1 \in Position /\ -1 \in Position
         /\ Pod \subseteq Nat /\ N \in Pod
BY DEF ConstantsAssumption, Pod, Position

LEMMA AbortType ==
  ASSUME ConstantsAssumption, Abort
  PROVE  ScriptType'
BY ConstantFacts DEF Abort, ScriptType

LEMMA NextPodType ==
  ASSUME ConstantsAssumption, TypeOK, NEW label, NEW after,
         NextPod(label, after)
  PROVE  i' \in Pod /\ pc' \in {label, after}
BY ConstantFacts DEF NextPod, TypeOK, Pod, ConstantsAssumption

LEMMA CompareType ==
  ASSUME ConstantsAssumption, TypeOK, NEW s \in Position, Compare(s),
         sequences' \in Seq(Position)
  PROVE  ScriptType' /\ boot' = boot
<1>1. i' \in Pod /\ pc' \in {"choose", "set"}
  BY NextPodType DEF Compare
<1>2. latest' \in Position /\ best' \in Pod
  BY DEF Compare, TypeOK
<1> QED BY <1>1, <1>2 DEF Compare, ScriptType, TypeOK

LEMMA StopType ==
  ASSUME ConstantsAssumption, TypeOK,
         Begin \/ StopAll \/ Test \/ ReadSequence \/ ReadUuid
  PROVE  TypeOK'
<1>1. CASE Begin
  BY <1>1, ConstantFacts DEF Begin, TypeOK, cluster, data
<1>2. CASE StopAll
  <2>1. ClusterType'
    BY <1>2 DEF StopAll, TypeOK, ClusterType
  <2>2. ScriptType'
    <3>1. CASE Abort
      BY <3>1, AbortType
    <3>2. CASE ~Abort
      BY <1>2, <3>2, ConstantFacts DEF StopAll, TypeOK, ScriptType
    <3> QED BY <3>1, <3>2
  <2> QED BY <2>1, <2>2, TypePartsNext
<1>3. CASE Test
  <2>1. ClusterType'
    BY <1>3 DEF Test, TypeOK, ClusterType, data
  <2>2. x' \in 0 .. MaxWait
    BY <1>3 DEF Test, TypeOK, ConstantsAssumption
  <2>3. i' \in Pod /\ pc' \in {"stop", "test", "sequences"}
    BY <1>3, NextPodType DEF Test, TypeOK
  <2> QED BY <1>3, <2>1, <2>2, <2>3, TypePartsNext DEF Test, TypeOK, ScriptType
<1>4. CASE ReadSequence
  <2>1. ClusterType'
    BY <1>4 DEF ReadSequence, TypeOK, ClusterType, cluster, data
  <2>2. sequences' \in Seq(Position)
    BY <1>4 DEF ReadSequence, TypeOK
  <2>3. i' \in Pod /\ pc' \in {"sequences", "uuids"}
    BY <1>4, NextPodType DEF ReadSequence
  <2> QED BY <1>4, <2>1, <2>2, <2>3, TypePartsNext
          DEF ReadSequence, TypeOK, ScriptType
<1>5. CASE ReadUuid
  <2>1. ClusterType'
    BY <1>5 DEF ReadUuid, TypeOK, ClusterType, cluster, data
  <2>2. uuids' \in Seq(BOOLEAN)
    <3>1. \E b \in BOOLEAN : uuids' = Append(uuids, b) \/ uuids' = uuids
      BY <1>5, Zenon DEF ReadUuid
    <3>2. uuids \in Seq(BOOLEAN)
      BY DEF TypeOK
    <3>3. ASSUME NEW T, NEW s \in Seq(T), NEW b \in T
          PROVE  Append(s, b) \in Seq(T)
      OBVIOUS
    <3> QED BY <3>1, <3>2, <3>3
  <2>3. i' \in Pod /\ pc' \in {"uuids", "choose"}
    BY <1>5, NextPodType DEF ReadUuid
  <2> QED BY <1>5, <2>1, <2>2, <2>3, TypePartsNext
          DEF ReadUuid, TypeOK, ScriptType
<1> QED BY <1>1, <1>2, <1>3, <1>4, <1>5

\* A position written into the list of sequences.
LEMMA ExceptSeq ==
  ASSUME NEW seq \in Seq(Position), NEW k, NEW v \in Position
  PROVE  /\ [seq EXCEPT ![k] = v] \in Seq(Position)
         /\ Len([seq EXCEPT ![k] = v]) = Len(seq)
         /\ \A j \in DOMAIN seq :
              [seq EXCEPT ![k] = v][j] = IF j = k THEN v ELSE seq[j]
<1> DEFINE new == [j \in 1 .. Len(seq) |-> IF j = k THEN v ELSE seq[j]]
<1>1. [seq EXCEPT ![k] = v] = new
  OBVIOUS
<1>2. \A j \in 1 .. Len(seq) : new[j] \in Position
  OBVIOUS
<1>3. Len(seq) \in Nat /\ DOMAIN seq = 1 .. Len(seq)
  OBVIOUS
<1>4. new \in Seq(Position) /\ Len(new) = Len(seq)
  BY <1>2, <1>3
<1> QED BY <1>1, <1>3, <1>4

LEMMA ChooseType ==
  ASSUME ConstantsAssumption, TypeOK,
         Choose \/ Recover \/ Grep \/ SetBootstrap
  PROVE  TypeOK'
<1>1. CASE Choose
  <2>1. CASE Abort /\ UNCHANGED boot
    BY <1>1, <2>1, AbortType, TypePartsNext DEF Choose, TypeOK, ClusterType, data
  <2>2. CASE /\ pc' = "recover"
             /\ UNCHANGED <<i, x, sequences, uuids, latest, best, boot>>
    BY <1>1, <2>2, TypePartsNext
       DEF Choose, TypeOK, ClusterType, ScriptType, data
  <2>3. CASE /\ i \in DOMAIN sequences
             /\ Compare(sequences[i]) /\ UNCHANGED sequences
    <3>1. sequences[i] \in Position /\ sequences' \in Seq(Position)
      BY <2>3 DEF TypeOK
    <3>2. ScriptType' /\ boot' = boot
      BY <2>3, <3>1, CompareType
    <3> QED BY <1>1, <3>2, TypePartsNext DEF Choose, TypeOK, ClusterType, data
  <2> QED BY <1>1, <2>1, <2>2, <2>3 DEF Choose
<1>2. CASE Recover
  <2>1. logged' \in [Pod -> Position \cup {-2}]
    BY <1>2 DEF Recover, TypeOK
  <2> QED BY <1>2, <2>1, TypePartsNext
          DEF Recover, TypeOK, ScriptType, ClusterType
<1>3. CASE Grep
  <2>1. CASE Abort /\ UNCHANGED boot
    BY <1>3, <2>1, AbortType, TypePartsNext DEF Grep, TypeOK, ClusterType, data
  <2>2. CASE /\ logged[i] # -2
             /\ sequences' = [sequences EXCEPT ![i] = logged[i]]
             /\ Compare(logged[i])
    <3>1. logged[i] \in Position
      BY <2>2 DEF TypeOK
    <3>2. sequences' \in Seq(Position)
      BY <2>2, <3>1, ExceptSeq DEF TypeOK
    <3>3. ScriptType' /\ boot' = boot
      BY <2>2, <3>1, <3>2, CompareType
    <3> QED BY <1>3, <3>3, TypePartsNext DEF Grep, TypeOK, ClusterType, data
  <2> QED BY <1>3, <2>1, <2>2 DEF Grep
<1>4. CASE SetBootstrap
  <2>1. CASE Abort /\ UNCHANGED boot
    BY <1>4, <2>1, AbortType, TypePartsNext
       DEF SetBootstrap, TypeOK, ClusterType, data
  <2>2. CASE /\ boot' = boot \cup {best} /\ pc' = "done"
             /\ UNCHANGED <<i, x, sequences, uuids, latest, best>>
    BY <1>4, <2>2, TypePartsNext
       DEF SetBootstrap, TypeOK, ClusterType, ScriptType, data
  <2> QED BY <1>4, <2>1, <2>2 DEF SetBootstrap
<1> QED BY <1>1, <1>2, <1>3, <1>4

LEMMA ClusterStepType ==
  ASSUME ConstantsAssumption, TypeOK,
         \/ Commit \/ NewPods
         \/ \E p \in Pod :
              Join(p) \/ Stopped(p) \/ Crash(p) \/ Restart(p) \/ Bootstrap(p)
  PROVE  TypeOK'
<1>1. CASE Commit
  <2>1. \A p \in Pod : pos[p] <= Latest
    BY LatestFacts DEF TypeOK
  <2>2. \E p \in Pod : Latest = pos[p]
    BY LatestFacts DEF TypeOK
  <2>3. ASSUME NEW p \in Pod
        PROVE  pos[p] + 1 \in Position
    <3>1. pos[p] \in Position /\ Latest \in Position
      BY <2>2 DEF TypeOK
    <3> QED BY <1>1, <2>1, <3>1 DEF Commit, Position, ConstantsAssumption
  <2>4. pos' \in [Pod -> Position]
    BY <1>1, <2>3 DEF Commit, TypeOK
  <2> QED BY <1>1, <2>4, TypePartsNext
          DEF Commit, TypeOK, ScriptType, ClusterType, script
<1>2. CASE NewPods
  <2>1. pos' \in [Pod -> Position] /\ seqno' \in [Pod -> Position]
    BY <1>2, ConstantFacts DEF NewPods, TypeOK
  <2> QED BY <1>2, <2>1, ConstantFacts DEF NewPods, TypeOK
<1>3. ASSUME NEW p \in Pod, Join(p)
      PROVE  TypeOK'
  <2>1. pos' \in [Pod -> Position] /\ seqno' \in [Pod -> Position]
        /\ logged' \in [Pod -> Position \cup {-2}]
    BY <1>3, ConstantFacts DEF Join, TypeOK, Member
  <2> QED BY <1>3, <2>1, TypePartsNext
          DEF Join, TypeOK, ScriptType, ClusterType, script
<1>4. ASSUME NEW p \in Pod, Stopped(p) \/ Crash(p)
      PROVE  TypeOK'
  <2>1. seqno' \in [Pod -> Position]
    BY <1>4 DEF Stopped, Crash, TypeOK
  <2> QED BY <1>4, <2>1, TypePartsNext
          DEF Stopped, Crash, TypeOK, ScriptType, ClusterType, script
<1>5. ASSUME NEW p \in Pod, Restart(p)
      PROVE  TypeOK'
  BY <1>5, TypePartsNext DEF Restart, TypeOK, ScriptType, ClusterType, script
<1>6. ASSUME NEW p \in Pod, Bootstrap(p)
      PROVE  TypeOK'
  <2>1. seqno' \in [Pod -> Position] /\ logged' \in [Pod -> Position \cup {-2}]
    BY <1>6, ConstantFacts DEF Bootstrap, TypeOK
  <2> QED BY <1>6, <2>1, TypePartsNext
          DEF Bootstrap, TypeOK, ScriptType, ClusterType, script
<1> QED BY <1>1, <1>2, <1>3, <1>4, <1>5, <1>6

LEMMA TypeInit ==
  ASSUME ConstantsAssumption, Init
  PROVE  TypeOK
<1>1. \A p \in Pod : pos[p] \in Position
  <2> TAKE p \in Pod
  <2>1. pos[p] \in {-1, 1}
    BY DEF Init
  <2> QED BY <2>1, ConstantFacts
<1>2. -2 \in Position \cup {-2}
  OBVIOUS
<1>3. misled \in BOOLEAN
  BY DEF Init
<1>4. ScriptType
  BY ConstantFacts DEF Init, ScriptType
<1>5. ClusterType
  BY <1>1, <1>2, <1>3, ConstantFacts DEF Init, ClusterType
<1> QED BY <1>4, <1>5, TypeParts

LEMMA TypeStep == ConstantsAssumption /\ TypeOK /\ [Next]_vars => TypeOK'
<1> SUFFICES ASSUME ConstantsAssumption, TypeOK, [Next]_vars
             PROVE  TypeOK'
  OBVIOUS
<1>1. CASE Next
  BY <1>1, StopType, ChooseType, ClusterStepType DEF Next, Script
<1>2. CASE UNCHANGED vars
  BY <1>2 DEF vars, TypeOK, cluster, data, script
<1> QED BY <1>1, <1>2

\* Every variable of the script and of the cluster is well typed, whatever
\* fails: the index of the choice is a pod's, and a position that is written
\* into the list is one that a pod can have.
THEOREM TypeCorrect == Spec => []TypeOK
<1>1. Init => TypeOK
  BY TypeInit, ConstantsAssumption
<1>2. TypeOK /\ [Next]_vars => TypeOK'
  BY TypeStep, ConstantsAssumption
<1> QED BY <1>1, <1>2, PTL DEF Spec

-----------------------------------------------------------------------------
(* The inductive invariant.                                                *)

Aligned == Len(sequences) = N

\* The pods that stay down, by the time the script is where it is.
AllDown == told = Pod /\ up = {}

StoppedSoFar ==
  /\ pc \in {"stop", "test"} =>
       \A p \in 1 .. i - 1 : p \in told /\ p \notin up
  /\ pc = "test" => i \in told
  /\ pc \in {"sequences", "uuids", "choose", "recover", "grep", "set"} => AllDown
  /\ boot # {} => up = {}

\* What grastate.dat and the members have.
DataInv ==
  /\ \A p \in Pod : seqno[p] \in {-1, pos[p]}
  /\ \A p \in up : seqno[p] = -1
  /\ \A m \in Member, p \in Pod : pos[p] <= pos[m]

\* Of the first n pods, b is the first that has most, which is l, or the first
\* of all if none of them has anything.
Furthest(b, l, n) ==
  \/ l = 0 /\ b = 1 /\ \A p \in 1 .. n : pos[p] <= 0
  \/ /\ l > 0 /\ b \in 1 .. n /\ pos[b] = l
     /\ \A p \in 1 .. n : pos[p] <= l
     /\ \A p \in 1 .. b - 1 : pos[p] < l

SequencesInv ==
  /\ pc \in {"stop", "test"} => sequences = <<>>
  /\ pc \in {"stop", "test", "sequences", "uuids"} => latest = 0 /\ best = 1
  /\ pc = "sequences" =>
       /\ Len(sequences) < i
       /\ Len(sequences) = i - 1 =>
            \A j \in 1 .. i - 1 : sequences[j] = seqno[j]
  /\ pc \in {"uuids", "choose", "recover", "grep"} => Len(sequences) <= N
  /\ pc \in {"recover", "grep"} => i <= Len(sequences)
  /\ pc = "uuids" /\ Aligned => \A j \in Pod : sequences[j] = seqno[j]
  /\ pc \in {"choose", "recover", "grep"} /\ Aligned =>
       /\ \A j \in i .. N : sequences[j] = seqno[j]
       /\ Furthest(best, latest, i - 1)
  /\ pc = "grep" => logged[i] = pos[i]
  /\ pc = "set" => Furthest(best, latest, N)

BootInv == \A b \in boot : \E l \in Position : Furthest(b, l, N)

IInv == StoppedSoFar /\ DataInv /\ SequencesInv /\ BootInv

LEMMA IInit ==
  ASSUME ConstantsAssumption, Init
  PROVE  IInv
<1>1. StoppedSoFar /\ SequencesInv /\ BootInv
  BY DEF Init, StoppedSoFar, SequencesInv, BootInv
<1>2. \A p \in Pod : pos[p] \in {-1, 1}
  BY DEF Init
<1>3. \A m \in Member : m \in Pod /\ pos[m] = 1
  BY DEF Init, Member
<1>4. DataInv
  BY <1>2, <1>3 DEF Init, DataInv, Pod
<1> QED BY <1>1, <1>4 DEF IInv

\* As long as none is up, the cluster does nothing but for a pod that makes
\* it anew.
LEMMA Frozen ==
  ASSUME TypeOK, up = {},
         Commit \/ \E p \in Pod : Join(p) \/ Stopped(p) \/ Crash(p)
  PROVE  FALSE
BY DEF Commit, Join, Stopped, Crash, Member

\* The cluster goes on: only before all pods have been stopped.
LEMMA ClusterKeeps ==
  ASSUME ConstantsAssumption, TypeOK, IInv,
         Commit \/ \E p \in Pod : Join(p) \/ Stopped(p) \/ Crash(p)
  PROVE  IInv'
<1>1. /\ up # {} /\ boot = {}
      /\ pc \in {"idle", "stop", "test", "done", "aborted"}
  BY Frozen DEF IInv, StoppedSoFar, AllDown, TypeOK
<1>2. UNCHANGED <<told, boot, script>>
  BY DEF Commit, Join, Stopped, Crash
<1>3. SequencesInv' /\ BootInv'
  BY <1>1, <1>2 DEF script, IInv, SequencesInv, BootInv
<1>4. \A p \in Pod : p \in told /\ p \notin up => p \notin up'
  BY DEF Commit, Join, Stopped, Crash
<1>5. StoppedSoFar'
  <2>1. \A p \in 1 .. i - 1 : p \in Pod
    BY DEF TypeOK, Pod
  <2> QED BY <1>1, <1>2, <1>4, <2>1 DEF script, IInv, StoppedSoFar
<1>6. \A p \in Pod : pos[p] \in Int
  <2>1. Position \subseteq Int
    BY DEF Position, ConstantsAssumption
  <2> QED BY <2>1 DEF TypeOK
<1>7. Member \subseteq Pod /\ up \subseteq Pod
  BY DEF Member, TypeOK
<1>8. CASE Commit
  <2>1. \A p \in Pod : pos'[p] = IF p \in Member THEN pos[p] + 1 ELSE pos[p]
    BY <1>8 DEF Commit
  <2>2. up' = up /\ Member' = Member /\ seqno' = seqno
    BY <1>8 DEF Commit, Member
  <2>3. \A p \in Pod : seqno'[p] \in {-1, pos'[p]}
    BY <1>6, <2>1, <2>2 DEF IInv, DataInv, Member
  <2>4. \A m \in Member', p \in Pod : pos'[p] <= pos'[m]
    <3> TAKE m \in Member', p \in Pod
    <3>1. m \in Member /\ m \in Pod /\ pos[p] <= pos[m]
      BY <1>7, <2>2 DEF IInv, DataInv
    <3> QED BY <1>6, <2>1, <3>1
  <2>5. DataInv'
    BY <2>2, <2>3, <2>4 DEF IInv, DataInv
  <2> QED BY <1>3, <1>5, <2>5 DEF IInv
<1>9. ASSUME NEW q \in Pod, Join(q)
      PROVE  IInv'
  <2>1. PICK m \in Member : pos' = [pos EXCEPT ![q] = pos[m]]
    BY <1>9 DEF Join
  <2>2. /\ up' = up \cup {q} /\ Member' = Member \cup {q}
        /\ seqno' = [seqno EXCEPT ![q] = -1]
    BY <1>9 DEF Join, Member
  <2>3. \A p \in Pod : /\ pos'[p] = IF p = q THEN pos[m] ELSE pos[p]
                       /\ seqno'[p] = IF p = q THEN -1 ELSE seqno[p]
    BY <2>1, <2>2 DEF TypeOK
  <2>4. \A p \in Pod : seqno'[p] \in {-1, pos'[p]}
    BY <2>3 DEF IInv, DataInv
  <2>5. \A p \in up' : seqno'[p] = -1
    BY <1>7, <2>2, <2>3 DEF IInv, DataInv
  <2>6. \A n \in Member', p \in Pod : pos'[p] <= pos'[n]
    BY <1>6, <1>7, <2>2, <2>3 DEF IInv, DataInv
  <2>7. DataInv'
    BY <2>4, <2>5, <2>6 DEF DataInv
  <2> QED BY <1>3, <1>5, <2>7 DEF IInv
<1>10. ASSUME NEW q \in Pod, Stopped(q) \/ Crash(q)
       PROVE  IInv'
  <2>1. pos' = pos /\ up' = up \ {q} /\ Member' \subseteq Member
    BY <1>10 DEF Stopped, Crash, Member
  <2>2. \A p \in Pod : \/ seqno'[p] = seqno[p]
                       \/ p = q /\ seqno'[p] = pos[p]
    BY <1>10 DEF Stopped, Crash, TypeOK
  <2>3. DataInv'
    BY <1>7, <2>1, <2>2 DEF IInv, DataInv
  <2> QED BY <1>3, <1>5, <2>3 DEF IInv
<1> QED BY <1>8, <1>9, <1>10

\* The new pods make a cluster of which nothing has been said, whatever was
\* the matter with the former one.
LEMMA NewPodsKeeps ==
  ASSUME ConstantsAssumption, TypeOK, NewPods
  PROVE  IInv'
<1>1. StoppedSoFar' /\ SequencesInv' /\ BootInv'
  BY DEF NewPods, StoppedSoFar, SequencesInv, BootInv
<1>2. PICK b \in Pod : pos' = [p \in Pod |-> pos[b]]
  BY DEF NewPods, TypeOK
<1>3. pos[b] \in Int
  <2>1. Position \subseteq Int
    BY DEF Position, ConstantsAssumption
  <2> QED BY <2>1 DEF TypeOK
<1>4. up' = Pod /\ Member' \subseteq Pod /\ seqno' = [p \in Pod |-> -1]
  BY DEF NewPods, Member
<1>5. DataInv'
  BY <1>2, <1>3, <1>4 DEF DataInv
<1> QED BY <1>1, <1>5 DEF IInv

\* The steps of the script leave the data alone, but for the log.
LEMMA ScriptData ==
  ASSUME TypeOK, Script
  PROVE  UNCHANGED <<up, fresh, pos, seqno>> /\ told \subseteq told'
         /\ (~StopAll => told' = told)
BY DEF Script, Begin, StopAll, Test, ReadSequence, ReadUuid, Choose, Recover,
   Grep, SetBootstrap, cluster, data

\* An aborted script.
LEMMA AbortKeeps ==
  ASSUME IInv, Abort, UNCHANGED <<up, fresh, pos, seqno, boot>>,
         told \subseteq told', told' \subseteq Pod
  PROVE  IInv'
<1>1. StoppedSoFar'
  BY DEF Abort, IInv, StoppedSoFar, AllDown
<1>2. DataInv' /\ SequencesInv' /\ BootInv'
  BY DEF Abort, IInv, DataInv, Member, SequencesInv, BootInv, Furthest
<1> QED BY <1>1, <1>2 DEF IInv

\* One pod more is compared.
LEMMA OneMore ==
  ASSUME ConstantsAssumption, pos \in [Pod -> Position],
         NEW b, NEW l, NEW n \in Pod, Furthest(b, l, n - 1)
  PROVE  IF pos[n] > l THEN Furthest(n, pos[n], n) ELSE Furthest(b, l, n)
<1>1. \A p \in Pod : pos[p] \in Int
  <2>1. Position \subseteq Int
    BY DEF Position, ConstantsAssumption
  <2> QED BY <2>1
<1>2. n \in Nat /\ \A p \in 1 .. n : p \in Pod /\ (p \in 1 .. n - 1 \/ p = n)
  BY DEF Pod, ConstantsAssumption
<1>3. l \in Int /\ l >= 0
  BY <1>1, <1>2 DEF Furthest
<1>4. \A p \in 1 .. n - 1 : pos[p] <= l
  BY <1>1, <1>2 DEF Furthest
<1>5. CASE pos[n] > l
  <2>1. \A p \in 1 .. n - 1 : pos[p] < pos[n]
    BY <1>1, <1>2, <1>3, <1>4, <1>5
  <2>2. \A p \in 1 .. n : pos[p] <= pos[n]
    BY <1>1, <1>2, <2>1
  <2>3. n \in 1 .. n /\ pos[n] > 0
    BY <1>1, <1>3, <1>5 DEF Pod, ConstantsAssumption
  <2>4. Furthest(n, pos[n], n)
    BY <2>1, <2>2, <2>3 DEF Furthest
  <2> QED BY <1>5, <2>4
<1>6. CASE ~(pos[n] > l)
  <2>1. \A p \in 1 .. n : pos[p] <= l
    BY <1>1, <1>2, <1>3, <1>4, <1>6
  <2>2. CASE l = 0
    BY <1>6, <2>1, <2>2 DEF Furthest
  <2>3. CASE l > 0
    <3>1. b \in 1 .. n /\ pos[b] = l /\ \A p \in 1 .. b - 1 : pos[p] < l
      BY <1>2, <2>3 DEF Furthest
    <3> QED BY <1>6, <2>1, <2>3, <3>1 DEF Furthest
  <2> QED BY <1>3, <2>2, <2>3
<1> QED BY <1>5, <1>6

\* The choice is unique.
LEMMA OneFurthest ==
  ASSUME ConstantsAssumption, pos \in [Pod -> Position],
         NEW a, NEW k, NEW b, NEW l, Furthest(a, k, N), Furthest(b, l, N)
  PROVE  a = b
<1>1. \A p \in 1 .. N : pos[p] \in Int
  <2>1. Position \subseteq Int
    BY DEF Position, ConstantsAssumption
  <2> QED BY <2>1 DEF Pod
<1>2. N \in Nat
  BY DEF ConstantsAssumption
<1>3. CASE k = 0 \/ l = 0
  BY <1>1, <1>2, <1>3 DEF Furthest
<1>4. CASE k > 0 /\ l > 0
  <2>1. a \in 1 .. N /\ b \in 1 .. N /\ pos[a] = k /\ pos[b] = l
        /\ pos[a] <= l /\ pos[b] <= k
    BY <1>4 DEF Furthest
  <2>2. k = l
    BY <1>1, <2>1
  <2>3. ~(a < b) /\ ~(b < a)
    BY <1>1, <1>2, <1>4, <2>1, <2>2 DEF Furthest
  <2> QED BY <1>2, <2>1, <2>3
<1> QED BY <1>3, <1>4 DEF Furthest

\* Comparing the present pod's own position, and going on to the next pod.
LEMMA CompareKeeps ==
  ASSUME ConstantsAssumption, TypeOK, IInv,
         pc \in {"choose", "grep"}, NEW s \in Position, Compare(s),
         Aligned => s = pos[i],
         i = N => Aligned,
         Len(sequences') = Len(sequences),
         \A j \in i + 1 .. N : Aligned => sequences'[j] = sequences[j],
         UNCHANGED <<up, told, fresh, pos, seqno, logged>>
  PROVE  IInv'
<1>0. boot' = boot /\ N \in Nat \ {0} /\ i \in Nat /\ i \in Pod /\ AllDown
      /\ pos \in [Pod -> Position]
  BY DEF Compare, ConstantsAssumption, TypeOK, Pod, IInv, StoppedSoFar
<1>1. DataInv' /\ BootInv'
  BY <1>0 DEF IInv, DataInv, Member, BootInv, Furthest
<1>2. \/ i < N /\ i' = i + 1 /\ pc' = "choose"
      \/ i = N /\ i' = 1 /\ pc' = "set"
  BY <1>0 DEF Compare, NextPod, Pod
<1>3. StoppedSoFar'
  BY <1>0, <1>2 DEF StoppedSoFar, AllDown
<1>4. ASSUME Aligned
      PROVE  Furthest(best', latest', i)
  <2>1. Furthest(best, latest, i - 1)
    BY <1>4 DEF IInv, SequencesInv
  <2>2. IF pos[i] > latest THEN Furthest(i, pos[i], i)
                           ELSE Furthest(best, latest, i)
    BY <1>0, <2>1, OneMore
  <2>3. IF pos[i] > latest THEN latest' = pos[i] /\ best' = i
                           ELSE latest' = latest /\ best' = best
    BY <1>4 DEF Compare
  <2> QED BY <2>2, <2>3
<1>5. Furthest(best', latest', i' - 1) => Furthest(best, latest, i - 1)'
  BY DEF Furthest
<1>6. Aligned' <=> Aligned
  BY DEF Aligned
<1>7. Len(sequences') <= N
  BY DEF IInv, SequencesInv
<1>8. CASE i < N
  <2>1. i' = i + 1 /\ pc' = "choose"
    BY <1>2, <1>8
  <2>2. Aligned => \A j \in i + 1 .. N : sequences'[j] = seqno[j]
    <3> SUFFICES ASSUME Aligned, NEW j \in i + 1 .. N
                 PROVE  sequences'[j] = seqno[j]
      OBVIOUS
    <3>1. j \in i .. N
      BY <1>0
    <3>2. sequences[j] = seqno[j]
      BY <3>1 DEF IInv, SequencesInv
    <3> QED BY <3>2
  <2>3. Aligned => Furthest(best, latest, i - 1)'
    <3>1. i' - 1 = i
      BY <1>0, <2>1
    <3>2. Aligned => Furthest(best', latest', i' - 1)
      BY <1>4, <3>1
    <3> QED BY <1>5, <3>2
  <2> QED BY <1>1, <1>3, <1>6, <1>7, <2>1, <2>2, <2>3 DEF IInv, SequencesInv
<1>9. CASE i = N
  <2>1. pc' = "set" /\ Aligned
    BY <1>0, <1>2, <1>9
  <2>2. Furthest(best, latest, N)'
    BY <1>4, <1>9, <2>1 DEF Furthest
  <2> QED BY <1>1, <1>3, <2>1, <2>2 DEF IInv, SequencesInv
<1> QED BY <1>2, <1>8, <1>9

LEMMA StoppingKeeps ==
  ASSUME ConstantsAssumption, TypeOK, IInv, ~misled',
         Begin \/ StopAll \/ Test
  PROVE  IInv'
<1>0. N \in Nat \ {0} /\ i \in Nat /\ i \in 1 .. N
  BY DEF ConstantsAssumption, TypeOK, Pod
<1>1. CASE Begin
  <2>1. DataInv' /\ BootInv'
    BY <1>1 DEF Begin, cluster, data, IInv, DataInv, Member, BootInv, Furthest
  <2>2. StoppedSoFar' /\ SequencesInv'
    BY <1>1 DEF Begin, cluster, data, IInv, StoppedSoFar, AllDown, SequencesInv
  <2> QED BY <2>1, <2>2 DEF IInv
<1>2. CASE StopAll
  <2>1. CASE Abort
    BY <1>2, <2>1, AbortKeeps DEF StopAll, TypeOK
  <2>2. CASE ~Abort
    <3>1. /\ told' = told \cup {i} /\ pc' = "test" /\ pc = "stop"
          /\ UNCHANGED <<i, sequences, latest, best, up, fresh, pos, seqno, boot>>
      BY <1>2, <2>2 DEF StopAll
    <3>2. DataInv' /\ BootInv' /\ SequencesInv'
      BY <3>1 DEF IInv, DataInv, Member, BootInv, Furthest, SequencesInv
    <3>3. StoppedSoFar'
      BY <3>1 DEF IInv, StoppedSoFar, AllDown, TypeOK
    <3> QED BY <3>2, <3>3 DEF IInv
  <2> QED BY <2>1, <2>2
<1>3. CASE Test
  <2>1. /\ pc = "test" /\ UNCHANGED <<sequences, latest, best>>
        /\ UNCHANGED <<told, up, fresh, pos, seqno, boot>>
    BY <1>3 DEF Test, data
  <2>2. DataInv' /\ BootInv'
    BY <2>1 DEF IInv, DataInv, Member, BootInv, Furthest
  <2>3. sequences = <<>> /\ latest = 0 /\ best = 1
    BY <2>1 DEF IInv, SequencesInv
  <2>4. CASE UNCHANGED <<pc, i>>
    BY <2>1, <2>2, <2>3, <2>4
       DEF IInv, StoppedSoFar, AllDown, SequencesInv
  <2>5. CASE i \notin up /\ NextPod("stop", "sequences")
    <3>1. \A p \in 1 .. i : p \in told /\ p \notin up
      BY <1>0, <2>1, <2>5 DEF IInv, StoppedSoFar
    <3>2. CASE i < N
      <4>1. i' = i + 1 /\ pc' = "stop"
        BY <2>5, <3>2 DEF NextPod
      <4>2. i' - 1 = i
        BY <1>0, <4>1
      <4> QED BY <2>1, <2>2, <2>3, <3>1, <4>1, <4>2
              DEF IInv, StoppedSoFar, AllDown, SequencesInv
    <3>3. CASE i = N
      <4>1. i' = 1 /\ pc' = "sequences"
        BY <1>0, <2>5, <3>3 DEF NextPod
      <4>2. AllDown
        BY <3>1, <3>3 DEF AllDown, TypeOK, Pod
      <4> QED BY <2>1, <2>2, <2>3, <4>1, <4>2
              DEF IInv, StoppedSoFar, AllDown, SequencesInv
    <3> QED BY <1>0, <3>2, <3>3
  <2> QED BY <1>3, <2>4, <2>5 DEF Test
<1> QED BY <1>1, <1>2, <1>3

\* Reading the lists: one element per pod at most.
LEMMA ReadingKeeps ==
  ASSUME ConstantsAssumption, TypeOK, IInv, ReadSequence \/ ReadUuid
  PROVE  IInv'
<1>0. N \in Nat \ {0} /\ i \in Nat /\ i \in 1 .. N
  BY DEF ConstantsAssumption, TypeOK, Pod
<1>1. /\ UNCHANGED <<latest, best>> /\ AllDown
      /\ UNCHANGED <<told, up, fresh, pos, seqno, boot>>
      /\ latest = 0 /\ best = 1
  BY DEF ReadSequence, ReadUuid, cluster, data, IInv, StoppedSoFar, SequencesInv
<1>2. DataInv' /\ BootInv'
  BY <1>1 DEF IInv, DataInv, Member, BootInv, Furthest
<1>3. CASE ReadSequence
  <2>1. /\ Len(sequences) \in Nat /\ Len(sequences) < i
        /\ Len(sequences) = i - 1 =>
             \A j \in 1 .. i - 1 : sequences[j] = seqno[j]
    BY <1>3 DEF ReadSequence, IInv, SequencesInv, TypeOK
  <2>2. /\ Len(sequences') <= i
        /\ Len(sequences') = i => \A j \in 1 .. i : sequences'[j] = seqno[j]
    <3>1. CASE sequences' = sequences
      BY <1>0, <2>1, <3>1
    <3>2. CASE sequences' = Append(sequences, seqno[i])
      <4>1. seqno[i] \in Position /\ sequences \in Seq(Position)
        BY <1>0 DEF TypeOK, Pod
      <4>2. /\ Len(sequences') = Len(sequences) + 1
            /\ \A j \in 1 .. Len(sequences) : sequences'[j] = sequences[j]
            /\ sequences'[Len(sequences) + 1] = seqno[i]
        BY <3>2, <4>1
      <4> QED BY <1>0, <2>1, <4>2
    <3> QED BY <1>3, <3>1, <3>2 DEF ReadSequence
  <2>3. CASE i < N
    <3>1. i' = i + 1 /\ pc' = "sequences"
      BY <1>3, <2>3 DEF ReadSequence, NextPod
    <3>2. i' - 1 = i /\ Len(sequences') < i'
      BY <1>0, <2>1, <2>2, <3>1
    <3>3. SequencesInv'
      BY <1>1, <2>2, <3>1, <3>2 DEF SequencesInv
    <3>4. StoppedSoFar'
      BY <1>1, <3>1 DEF StoppedSoFar, AllDown
    <3> QED BY <1>2, <3>3, <3>4 DEF IInv
  <2>4. CASE i = N
    <3>1. pc' = "uuids"
      BY <1>0, <1>3, <2>4 DEF ReadSequence, NextPod
    <3>2. SequencesInv'
      BY <1>1, <2>2, <2>4, <3>1 DEF SequencesInv, Aligned, Pod
    <3>3. StoppedSoFar'
      BY <1>1, <3>1 DEF StoppedSoFar, AllDown
    <3> QED BY <1>2, <3>2, <3>3 DEF IInv
  <2> QED BY <1>0, <2>3, <2>4
<1>4. CASE ReadUuid
  <2>1. /\ sequences' = sequences /\ Len(sequences) <= N
        /\ Aligned => \A j \in Pod : sequences[j] = seqno[j]
    BY <1>4 DEF ReadUuid, IInv, SequencesInv
  <2>2. CASE i < N
    <3>1. pc' = "uuids"
      BY <1>4, <2>2 DEF ReadUuid, NextPod
    <3>2. SequencesInv'
      BY <1>1, <2>1, <3>1 DEF SequencesInv, Aligned
    <3>3. StoppedSoFar'
      BY <1>1, <3>1 DEF StoppedSoFar, AllDown
    <3> QED BY <1>2, <3>2, <3>3 DEF IInv
  <2>3. CASE i = N
    <3>1. i' = 1 /\ pc' = "choose"
      BY <1>0, <1>4, <2>3 DEF ReadUuid, NextPod
    <3>2. Furthest(best, latest, i - 1)'
      BY <1>1, <3>1 DEF Furthest
    <3>3. SequencesInv'
      BY <1>1, <2>1, <3>1, <3>2 DEF SequencesInv, Aligned, Pod
    <3>4. StoppedSoFar'
      BY <1>1, <3>1 DEF StoppedSoFar, AllDown
    <3> QED BY <1>2, <3>3, <3>4 DEF IInv
  <2> QED BY <1>0, <2>2, <2>3
<1> QED BY <1>3, <1>4

LEMMA ChoosingKeeps ==
  ASSUME ConstantsAssumption, TypeOK, IInv, ~misled',
         Choose \/ Recover \/ Grep \/ SetBootstrap
  PROVE  IInv'
<1>0. /\ N \in Nat \ {0} /\ i \in Nat /\ i \in 1 .. N /\ i \in Pod /\ AllDown
      /\ UNCHANGED <<told, up, fresh, pos, seqno>>
  BY DEF ConstantsAssumption, TypeOK, Pod, Choose, Recover, Grep,
     SetBootstrap, data, IInv, StoppedSoFar
<1>1. CASE Abort /\ UNCHANGED boot
  BY <1>0, <1>1, AbortKeeps DEF TypeOK
<1>2. CASE Choose /\ ~Abort
  <2>1. pc = "choose" /\ i \in DOMAIN sequences /\ logged' = logged
        /\ Len(sequences) <= N /\ Len(sequences) \in Nat
    BY <1>2 DEF Choose, data, IInv, SequencesInv, TypeOK
  <2>2. i <= Len(sequences)
    BY <2>1 DEF TypeOK
  <2>3. CASE /\ pc' = "recover"
             /\ UNCHANGED <<i, x, sequences, uuids, latest, best, boot>>
    <3>1. StoppedSoFar' /\ DataInv' /\ BootInv'
      BY <1>0, <2>1, <2>3 DEF IInv, StoppedSoFar, AllDown, DataInv, Member,
         BootInv, Furthest
    <3>2. SequencesInv'
      BY <1>0, <2>1, <2>2, <2>3 DEF IInv, SequencesInv, Aligned, Furthest
    <3> QED BY <3>1, <3>2 DEF IInv
  <2>4. CASE /\ sequences[i] # -1
             /\ Compare(sequences[i]) /\ UNCHANGED sequences
    <3>1. Aligned => sequences[i] = pos[i]
      <4>1. Aligned => sequences[i] = seqno[i]
        BY <1>0, <2>1 DEF IInv, SequencesInv
      <4> QED BY <1>0, <2>4, <4>1 DEF IInv, DataInv
    <3>2. i = N => Aligned
      BY <1>0, <2>1, <2>2 DEF Aligned
    <3>3. sequences[i] \in Position
      BY <2>1 DEF TypeOK
    <3> QED BY <1>0, <2>1, <2>4, <3>1, <3>2, <3>3, CompareKeeps
  <2> QED BY <1>2, <2>3, <2>4 DEF Choose
<1>3. CASE Recover
  <2>2. logged'[i] = pos[i]
    BY <1>3 DEF Recover
  <2>3. pc = "recover" /\ pc' = "grep"
        /\ UNCHANGED <<i, sequences, latest, best, boot>>
    BY <1>3 DEF Recover
  <2>4. StoppedSoFar' /\ DataInv' /\ BootInv'
    BY <1>0, <2>3 DEF IInv, StoppedSoFar, AllDown, DataInv, Member, BootInv,
       Furthest
  <2>5. SequencesInv'
    BY <1>0, <2>2, <2>3 DEF IInv, SequencesInv, Aligned, Furthest
  <2> QED BY <2>4, <2>5 DEF IInv
<1>4. CASE Grep /\ ~Abort
  <2>1. /\ pc = "grep" /\ logged[i] = pos[i] /\ logged' = logged
        /\ sequences' = [sequences EXCEPT ![i] = logged[i]]
        /\ Compare(logged[i])
        /\ i <= Len(sequences) /\ Len(sequences) <= N
    BY <1>4 DEF Grep, data, IInv, SequencesInv
  <2>2. logged[i] \in Position /\ sequences \in Seq(Position)
    BY <1>0, <2>1 DEF TypeOK
  <2>3. i = N => Aligned
    BY <1>0, <2>1, <2>2 DEF Aligned
  <2>4. Len(sequences') = Len(sequences)
    BY <2>1, <2>2, ExceptSeq
  <2>5. \A j \in i + 1 .. N : Aligned => sequences'[j] = sequences[j]
    <3> SUFFICES ASSUME NEW j \in i + 1 .. N, Aligned
                 PROVE  sequences'[j] = sequences[j]
      OBVIOUS
    <3>1. j \in DOMAIN sequences /\ j # i
      BY <1>0, <2>2 DEF Aligned
    <3> QED BY <2>1, <2>2, <3>1, ExceptSeq
  <2> QED BY <1>0, <2>1, <2>2, <2>3, <2>4, <2>5, CompareKeeps
<1>5. CASE SetBootstrap /\ ~Abort
  <2>1. pc = "set" /\ boot' = boot \cup {best} /\ pc' = "done"
    BY <1>5 DEF SetBootstrap
  <2>2. Furthest(best, latest, N) /\ latest \in Position
    BY <2>1 DEF IInv, SequencesInv, TypeOK
  <2>3. \A b \in boot' : \E l \in Position : Furthest(b, l, N)
    BY <2>1, <2>2 DEF IInv, BootInv
  <2>4. BootInv'
    BY <1>0, <2>3 DEF BootInv, Furthest
  <2>5. StoppedSoFar' /\ DataInv' /\ SequencesInv'
    BY <1>0, <2>1 DEF IInv, StoppedSoFar, AllDown, DataInv, Member, SequencesInv
  <2> QED BY <2>4, <2>5 DEF IInv
<1>6. Abort => UNCHANGED boot \/ Recover
  <2>1. SetBootstrap /\ Abort => UNCHANGED boot
    BY DEF SetBootstrap, Abort
  <2> QED BY <2>1 DEF Choose, Grep, Compare
<1> QED BY <1>1, <1>2, <1>3, <1>4, <1>5, <1>6

\* A pod that has data and was chosen has as much as any pod.
LEMMA ChosenHasMost ==
  ASSUME ConstantsAssumption, pos \in [Pod -> Position],
         NEW b \in Pod, NEW l, Furthest(b, l, N), pos[b] # -1
  PROVE  \A p \in Pod : pos[p] <= pos[b]
<1>1. Position \subseteq Int /\ \A p \in Pod : pos[p] \in Int /\ pos[p] >= -1
  BY DEF Position, ConstantsAssumption
<1>2. pos[b] >= 0
  BY <1>1
<1> QED BY <1>1, <1>2 DEF Furthest, Pod

\* A pod is restarted between two runs: nothing is up that was not, and what
\* the pods have stays.
LEMMA RestartKeeps ==
  ASSUME TypeOK, IInv, NEW q \in Pod, Restart(q)
  PROVE  IInv'
<1>1. /\ pc \in {"idle", "done", "aborted"} /\ up' \subseteq up
      /\ UNCHANGED <<pc, i, sequences, latest, best, fresh, pos, seqno, boot>>
  BY DEF Restart, script
<1>2. Member' \subseteq Member
  BY <1>1 DEF Member
<1>3. StoppedSoFar' /\ DataInv'
  BY <1>1, <1>2 DEF IInv, StoppedSoFar, DataInv
<1>4. SequencesInv' /\ BootInv'
  BY <1>1 DEF IInv, SequencesInv, BootInv, Furthest
<1> QED BY <1>3, <1>4 DEF IInv

\* The marked pod makes the cluster anew: it has most, and no other is marked.
LEMMA BootstrapKeeps ==
  ASSUME ConstantsAssumption, TypeOK, IInv, NEW q \in Pod, Bootstrap(q)
  PROVE  IInv'
<1>1. /\ q \in boot /\ q \notin told /\ pos[q] # -1 /\ up' = up \cup {q}
      /\ seqno' = [seqno EXCEPT ![q] = -1] /\ boot' = boot \ {q}
      /\ UNCHANGED <<told, pos, pc, i, sequences, latest, best>>
  BY DEF Bootstrap, script
<1>2. up = {} /\ up' = {q} /\ Member' \subseteq {q}
  BY <1>1 DEF IInv, StoppedSoFar, Member
<1>3. PICK l \in Position : Furthest(q, l, N)
  BY <1>1 DEF IInv, BootInv
<1>4. pos \in [Pod -> Position]
  BY DEF TypeOK
<1>5. boot' = {}
  <2>1. ASSUME NEW b \in boot
        PROVE  b = q
    <3>1. PICK k \in Position : Furthest(b, k, N)
      BY DEF IInv, BootInv
    <3> QED BY <1>3, <1>4, <3>1, OneFurthest
  <2> QED BY <1>1, <2>1
<1>6. \A p \in Pod : pos[p] <= pos[q]
  BY <1>1, <1>3, <1>4, ChosenHasMost
<1>7. DataInv'
  <2>1. \A p \in Pod : seqno'[p] = IF p = q THEN -1 ELSE seqno[p]
    BY <1>1 DEF TypeOK
  <2> QED BY <1>1, <1>2, <1>6, <2>1 DEF IInv, DataInv
<1>8. pc \in {"idle", "stop", "test", "done", "aborted"}
  BY <1>1 DEF IInv, StoppedSoFar, AllDown, TypeOK
<1>9. StoppedSoFar'
  BY <1>1, <1>2, <1>5, <1>8 DEF IInv, StoppedSoFar
<1>10. SequencesInv' /\ BootInv'
  BY <1>1, <1>5, <1>8 DEF IInv, SequencesInv, BootInv
<1> QED BY <1>7, <1>9, <1>10 DEF IInv

\* Of the steps of a state that is not misled, one that is not misled either
\* keeps the invariant.
LEMMA IStep ==
  ASSUME ConstantsAssumption, TypeOK, IInv, ~misled', [Next]_vars
  PROVE  IInv'
<1>1. CASE Script
  BY <1>1, StoppingKeeps, ReadingKeeps, ChoosingKeeps DEF Script
<1>2. CASE NewPods
  BY <1>2, NewPodsKeeps
<1>3. CASE Commit \/ \E p \in Pod : Join(p) \/ Stopped(p) \/ Crash(p)
  BY <1>3, ClusterKeeps
<1>4. CASE \E p \in Pod : Restart(p) \/ Bootstrap(p)
  BY <1>4, RestartKeeps, BootstrapKeeps
<1>5. CASE UNCHANGED vars
  <2>1. StoppedSoFar' /\ DataInv' /\ BootInv'
    BY <1>5 DEF vars, cluster, data, script, IInv, StoppedSoFar, AllDown,
       DataInv, Member, BootInv, Furthest
  <2>2. SequencesInv'
    BY <1>5 DEF vars, cluster, data, script, IInv, SequencesInv, Aligned,
       Furthest
  <2> QED BY <2>1, <2>2 DEF IInv
<1> QED BY <1>1, <1>2, <1>3, <1>4, <1>5 DEF Next

\* Once misled, the script stays so until an upgrade.
LEMMA MisledStays ==
  ASSUME misled, [Next]_vars, ~NewPods
  PROVE  misled'
<1>1. CASE Script
  BY <1>1 DEF Script, Begin, StopAll, Test, ReadSequence, ReadUuid, Choose,
     Recover, Grep, SetBootstrap, cluster
<1>2. CASE Commit \/ \E p \in Pod : Join(p) \/ Stopped(p) \/ Crash(p)
  BY <1>2 DEF Commit, Join, Stopped, Crash
<1>3. CASE \E p \in Pod : Restart(p) \/ Bootstrap(p)
  BY <1>3 DEF Restart, Bootstrap
<1>4. CASE UNCHANGED vars
  BY <1>4 DEF vars, cluster
<1> QED BY <1>1, <1>2, <1>3, <1>4 DEF Next

LEMMA Invariant == Spec => [](TypeOK /\ (misled \/ IInv))
<1>1. Init => TypeOK /\ IInv
  BY TypeInit, IInit, ConstantsAssumption
<1>2. ASSUME TypeOK, misled \/ IInv, [Next]_vars
      PROVE  TypeOK' /\ (misled' \/ IInv')
  <2>1. TypeOK'
    BY <1>2, TypeStep, ConstantsAssumption
  <2>2. CASE NewPods
    BY <1>2, <2>1, <2>2, NewPodsKeeps, ConstantsAssumption
  <2>3. CASE misled /\ ~NewPods
    BY <1>2, <2>1, <2>3, MisledStays
  <2>4. CASE IInv
    BY <1>2, <2>1, <2>4, IStep, ConstantsAssumption
  <2> QED BY <1>2, <2>2, <2>3, <2>4
<1>3. TypeOK /\ (misled \/ IInv) /\ [Next]_vars => (TypeOK /\ (misled \/ IInv))'
  BY <1>2
<1> QED BY <1>1, <1>3, PTL DEF Spec

-----------------------------------------------------------------------------
(* What follows.                                                           *)

\* From the first pod that get_sequences reads to the mark that is set no
\* mysqld of any pod runs, unless a run was misled: however many pods and
\* checks there are, and whatever fails, crashes, is restarted or run again.
THEOREM DoneMeansStoppedAlways == Spec => []DoneMeansStopped
<1>1. misled \/ IInv => DoneMeansStopped
  BY DEF IInv, StoppedSoFar, AllDown, DoneMeansStopped
<1> QED BY <1>1, Invariant, PTL

\* Two pods are marked only if a run was misled, although nothing clears a
\* mark but the start of the pod that has it: what the pods have is frozen
\* once they are all stopped, and changes again only when the marked pod,
\* restarted, has made the cluster anew.
THEOREM OneBootstrapAlways == Spec => []OneBootstrap
<1>1. ASSUME TypeOK, IInv
      PROVE  Cardinality(boot) \in {0, 1}
  <2>1. pos \in [Pod -> Position]
    BY <1>1 DEF TypeOK
  <2>2. \A a, b \in boot : a = b
    <3> SUFFICES ASSUME NEW a \in boot, NEW b \in boot
                 PROVE  a = b
      OBVIOUS
    <3>1. PICK k \in Position : Furthest(a, k, N)
      BY <1>1 DEF IInv, BootInv
    <3>2. PICK l \in Position : Furthest(b, l, N)
      BY <1>1 DEF IInv, BootInv
    <3> QED BY <2>1, <3>1, <3>2, OneFurthest, ConstantsAssumption
  <2>3. CASE boot = {}
    BY <2>3, FS_EmptySet
  <2>4. CASE boot # {}
    <3>1. PICK b \in boot : boot = {b}
      BY <2>2, <2>4
    <3>2. Cardinality({b}) = 1
      BY FS_Singleton
    <3> QED BY <3>1, <3>2
  <2> QED BY <2>3, <2>4
<1>2. TypeOK /\ (misled \/ IInv) => OneBootstrap
  BY <1>1 DEF OneBootstrap
<1> QED BY <1>2, Invariant, PTL

\* Whoever was ahead, some pod has as much after every step.
LEMMA LatestGrows ==
  ASSUME ConstantsAssumption, TypeOK, TypeOK', IInv, [Next]_vars
  PROVE  Latest' >= Latest
<1>1. /\ \A p \in Pod : pos[p] \in Int /\ pos'[p] \in Int
      /\ Latest \in Int /\ Latest' \in Int
      /\ \A p \in Pod : pos'[p] <= Latest'
  <2>1. Position \subseteq Int
    BY DEF Position, ConstantsAssumption
  <2>2. pos \in [Pod -> Position] /\ pos' \in [Pod -> Position]
    BY DEF TypeOK
  <2>3. \E p \in Pod : Latest = pos[p]
    BY <2>2, LatestFacts
  <2>4. /\ \A p \in Pod : pos'[p] <= Latest'
        /\ \E p \in Pod : Latest' = pos'[p]
    BY <2>2, LargestFacts DEF Latest
  <2> QED BY <2>1, <2>2, <2>3, <2>4
<1>2. PICK q \in Pod : Latest = pos[q]
  BY LatestFacts DEF TypeOK
<1>3. \E p \in Pod : pos'[p] >= pos[q]
  <2>1. CASE UNCHANGED pos
    BY <1>1, <2>1
  <2>2. CASE Commit
    BY <1>1, <2>2 DEF Commit
  <2>3. ASSUME NEW r \in Pod, Join(r)
        PROVE  pos'[q] >= pos[q]
    <3>1. PICK m \in Member : pos' = [pos EXCEPT ![r] = pos[m]]
      BY <2>3 DEF Join
    <3>2. pos[r] <= pos[m]
      BY DEF IInv, DataInv
    <3> QED BY <1>1, <3>1, <3>2 DEF TypeOK
  <2>4. CASE NewPods
    <3>1. PICK b \in boot : pos[b] # -1 /\ pos' = [p \in Pod |-> pos[b]]
      BY <2>4 DEF NewPods
    <3>2. PICK l \in Position : Furthest(b, l, N)
      BY DEF IInv, BootInv
    <3>3. b \in Pod /\ pos[q] <= pos[b]
      BY <3>1, <3>2, ChosenHasMost DEF TypeOK
    <3> QED BY <1>1, <3>1, <3>3
  <2>5. Script => UNCHANGED pos
    BY ScriptData
  <2>6. \A p \in Pod : Stopped(p) \/ Crash(p) \/ Restart(p) \/ Bootstrap(p)
                        => UNCHANGED pos
    BY DEF Stopped, Crash, Restart, Bootstrap
  <2>7. UNCHANGED vars => UNCHANGED pos
    BY DEF vars, cluster, data
  <2> QED BY <2>1, <2>2, <2>3, <2>4, <2>5, <2>6, <2>7 DEF Next
<1> QED BY <1>1, <1>2, <1>3

\* No committed transaction is lost by an upgrade unless the script was
\* misled: the pod that the new cluster takes its data from has the last one
\* that any pod has.
THEOREM NothingLostAlways == Spec => NothingLostUnlessMisled
<1>1. TypeOK /\ (misled \/ IInv) /\ TypeOK' /\ [Next]_vars
        => [Latest' >= Latest \/ misled]_vars
  BY LatestGrows, ConstantsAssumption
<1> QED BY <1>1, Invariant, PTL DEF Spec, NothingLostUnlessMisled
=============================================================================
