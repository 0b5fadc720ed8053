-------------------------- MODULE DeploymentProofs --------------------------
(***************************************************************************)
(* Proofs about the make targets: types; that CF is only installed where   *)
(* nothing of a former one is left; and that CF and the ingress get what   *)
(* is the present UAA's.                                                   *)
(*                                                                         *)
(* FreshInstall needs to know what the steps before the installation have  *)
(* established and that nothing undoes it: the namespace was not there     *)
(* when it was created, so it was empty, and as long as there are no       *)
(* objects in it the cluster puts nothing into it.                         *)
(***************************************************************************)
EXTENDS Deployment, TLAPS, WellFoundedInduction

-----------------------------------------------------------------------------
(* Types.                                                                  *)

\* A call leaves its bookkeeping well typed, whether it fails or not.
LEMMA CallType ==
  ASSUME ConstantsAssumption, TypeOK, CallOk \/ CallFails
  PROVE  clean' \in BOOLEAN /\ faults' \in 0 .. MaxFaults
<1>1. clean' \in BOOLEAN
  BY Zenon DEF TypeOK, CallOk, CallFails, call
<1>2. faults' \in 0 .. MaxFaults
  <2>1. CASE CallOk
    BY <2>1 DEF TypeOK, CallOk, call
  <2>2. CASE CallFails
    BY <2>2 DEF ConstantsAssumption, TypeOK, CallFails
  <2> QED BY <2>1, <2>2
<1> QED BY <1>1, <1>2

\* Moving on in a script keeps the shell's variables well typed.
LEMMA GotoType ==
  ASSUME TypeOK, NEW label \in Step, Goto(label)
  PROVE  step' \in Step /\ target' \in Target /\ made' \in 0 .. MaxTargets
BY DEF TypeOK, Goto

PodType == [state : {"absent", "starting", "ready", "terminating"},
            gen : Generation]

ClusterType ==
  /\ ns \in [Namespace -> {"none", "active", "terminating"}]
  /\ named \in [Namespace -> BOOLEAN]
  /\ objects \in [Namespace -> Generation]
  /\ secrets \in [Namespace -> SUBSET Generation]
  /\ pods \in [Namespace -> [Pod -> PodType]]

OutcomeType ==
  /\ ca \in Generation
  /\ tls \in [Namespace -> [cert : Generation, key : Generation]]

ShellType ==
  /\ target \in Target /\ step \in Step /\ value \in Generation
  /\ made \in 0 .. MaxTargets
  /\ clean \in BOOLEAN /\ faults \in 0 .. MaxFaults

LEMMA TypeParts == TypeOK <=> ClusterType /\ OutcomeType /\ ShellType
BY DEF TypeOK, ClusterType, OutcomeType, ShellType, PodType

LEMMA TypePartsNext ==
  ASSUME ClusterType', OutcomeType', ShellType'
  PROVE  TypeOK'
BY DEF TypeOK, ClusterType, OutcomeType, ShellType, PodType

LEMMA GenerationFacts ==
  ASSUME ConstantsAssumption
  PROVE  /\ None \in Generation
         /\ \A n \in 0 .. MaxTargets : n \in Generation
BY DEF ConstantsAssumption, None, Generation

\* What helm and kubectl do to a namespace is well typed.
LEMMA EffectsType ==
  ASSUME ConstantsAssumption, TypeOK, NEW n \in Namespace,
         \/ Install(n) \/ HelmUpgrade(n) \/ DeleteRelease(n)
         \/ DeleteNamespace(n) \/ Remove(n)
  PROVE  ClusterType'
<1> USE GenerationFacts, TypeParts DEF ClusterType
<1>1. made \in Generation
  BY DEF ShellType
<1>2. CASE Install(n)
  BY <1>1, <1>2 DEF Install
<1>3. CASE HelmUpgrade(n)
  <2>1. PICK g \in {made, objects[n]} \ {None} :
          objects' = [objects EXCEPT ![n] = g]
    BY <1>3 DEF HelmUpgrade
  <2>2. objects' \in [Namespace -> Generation]
    BY <1>1, <2>1
  <2>3. \A p \in Pod : [pods[n][p] EXCEPT !.state = "terminating"] \in PodType
    <3> TAKE p \in Pod
    <3>1. pods[n][p] \in PodType
      OBVIOUS
    <3> QED BY <3>1 DEF PodType
  <2>4. pods' \in [Namespace -> [Pod -> PodType]]
    BY <1>3, <2>3 DEF HelmUpgrade
  <2> QED BY <1>3, <2>2, <2>4 DEF HelmUpgrade
<1>4. CASE DeleteRelease(n)
  BY <1>4 DEF DeleteRelease
<1>5. CASE DeleteNamespace(n)
  BY <1>5 DEF DeleteNamespace
<1>6. CASE Remove(n)
  BY <1>6 DEF Remove
<1> QED BY <1>2, <1>3, <1>4, <1>5, <1>6

\* A step of a script keeps the shell's variables well typed.
LEMMA ShellStep ==
  ASSUME ConstantsAssumption, TypeOK, NEW label \in Step, Goto(label),
         CallOk \/ CallFails, value' \in Generation
  PROVE  ShellType'
BY CallType, GotoType DEF ShellType

\* What get_secret returns is a generation.
LEMMA GetSecretType ==
  ASSUME ConstantsAssumption, TypeOK, NEW n \in Namespace, NEW v, NEW ok,
         GetSecret(n, v, ok)
  PROVE  v \in Generation
<1>1. CASE v = None
  BY <1>1, GenerationFacts
<1>2. CASE v # None
  <2>1. PICK g : v = g /\ g \in secrets[n]
    BY <1>2 DEF GetSecret
  <2> QED BY <2>1 DEF TypeOK
<1> QED BY <1>1, <1>2

LEMMA Unchanged ==
  ASSUME TypeOK
  PROVE  /\ UNCHANGED cluster => ClusterType'
         /\ UNCHANGED outcome => OutcomeType'
         /\ UNCHANGED value => value' \in Generation
<1>1. UNCHANGED cluster => ClusterType'
  BY TypeParts DEF ClusterType, cluster, release
<1>2. UNCHANGED outcome => OutcomeType'
  BY TypeParts DEF OutcomeType, outcome
<1>3. UNCHANGED value => value' \in Generation
  BY DEF TypeOK
<1> QED BY <1>1, <1>2, <1>3

\* The steps that only look.
LEMMA LookType ==
  ASSUME ConstantsAssumption, TypeOK,
         \/ WaitUaa \/ WaitCf \/ HasRelease \/ HasNamespace \/ WaitGone
         \/ WaitCa
         \/ WaitForJob("uaa", "jobUaa", "certUaa")
         \/ WaitForJob("cf", "jobCf", "certCf")
  PROVE  TypeOK'
<1>1. UNCHANGED <<cluster, outcome, value>>
  BY DEF WaitUaa, WaitCf, HasRelease, HasNamespace, WaitGone, WaitCa,
         WaitForJob, Wait
<1>2. ClusterType' /\ OutcomeType' /\ value' \in Generation
  BY <1>1, Unchanged
<1>3. CallOk \/ CallFails
  BY DEF WaitUaa, WaitCf, HasRelease, HasNamespace, WaitGone, WaitCa,
         WaitForJob, Wait, Answer, GetSecret
<1>4. \E label \in Step : Goto(label)
  <2> USE DEF Step, Ended
  <2>1. CASE WaitUaa
    BY <2>1 DEF WaitUaa, Wait
  <2>2. CASE WaitCf
    BY <2>2 DEF WaitCf, Wait
  <2>3. CASE HasRelease
    BY <2>3 DEF HasRelease
  <2>4. CASE HasNamespace
    BY <2>4 DEF HasNamespace, AfterStop
  <2>5. CASE WaitGone
    BY <2>5 DEF WaitGone
  <2>6. CASE WaitCa
    BY <2>6 DEF WaitCa
  <2>7. CASE WaitForJob("uaa", "jobUaa", "certUaa")
    BY <2>7 DEF WaitForJob
  <2>8. CASE WaitForJob("cf", "jobCf", "certCf")
    BY <2>8 DEF WaitForJob
  <2> QED BY <2>1, <2>2, <2>3, <2>4, <2>5, <2>6, <2>7, <2>8
<1>5. ShellType'
  BY <1>2, <1>3, <1>4, ShellStep
<1> QED BY <1>2, <1>5, TypePartsNext

\* The steps that read a secret.
LEMMA ReadType ==
  ASSUME ConstantsAssumption, TypeOK,
         \/ ReadCa
         \/ ReadCert("uaa", "certUaa", "keyUaa")
         \/ ReadCert("cf", "certCf", "keyCf")
         \/ ApplyTls("uaa", "keyUaa", "jobCf")
         \/ ApplyTls("cf", "keyCf", "done")
  PROVE  TypeOK'
<1> "uaa" \in Namespace /\ "cf" \in Namespace
  BY DEF Namespace
<1>1. CASE ReadCa
  <2>1. PICK v \in Generation, ok \in BOOLEAN :
          /\ GetSecret("uaa", v, ok)
          /\ value' = IF ok THEN v ELSE value
          /\ Goto(IF ~ok THEN "failed"
                  ELSE IF target = "run" THEN "install" ELSE "upgrade")
    BY <1>1 DEF ReadCa
  <2>2. value' \in Generation
    BY <2>1 DEF TypeOK
  <2>3. CallOk \/ CallFails
    BY <2>1 DEF GetSecret
  <2>4. ShellType'
    BY <2>1, <2>2, <2>3, ShellStep DEF Step, Ended
  <2>5. UNCHANGED cluster /\ UNCHANGED outcome
    BY <1>1 DEF ReadCa
  <2> QED BY <2>4, <2>5, Unchanged, TypePartsNext
<1>2. ASSUME NEW n \in Namespace, NEW label, NEW next \in Step,
             ReadCert(n, label, next)
      PROVE  TypeOK'
  <2>1. value' \in Generation /\ (CallOk \/ CallFails) /\ Goto(next)
    BY <1>2 DEF ReadCert, GetSecret
  <2>2. UNCHANGED cluster /\ UNCHANGED outcome
    BY <1>2 DEF ReadCert
  <2> QED BY <2>1, <2>2, ShellStep, Unchanged, TypePartsNext
<1>3. ASSUME NEW n \in Namespace, NEW label, NEW next \in Step,
             ApplyTls(n, label, next)
      PROVE  TypeOK'
  <2>1. value' \in Generation
    BY <1>3, GenerationFacts DEF ApplyTls
  <2>2. (CallOk \/ CallFails) /\ (Goto(next) \/ Goto("failed"))
    BY <1>3 DEF ApplyTls, GetSecret
  <2>3. ShellType'
    BY <2>1, <2>2, ShellStep DEF Step, Ended
  <2>4. UNCHANGED cluster /\ UNCHANGED ca
    BY <1>3 DEF ApplyTls
  <2>5. tls' \in [Namespace -> [cert : Generation, key : Generation]]
    <3>1. CASE UNCHANGED tls
      BY <3>1 DEF TypeOK
    <3>2. CASE ~UNCHANGED tls
      <4>1. PICK v \in Generation :
              tls' = [tls EXCEPT ![n] = [cert |-> value, key |-> v]]
        BY <1>3, <3>2 DEF ApplyTls
      <4> QED BY <4>1 DEF TypeOK
    <3> QED BY <3>1, <3>2
  <2>6. OutcomeType'
    BY <2>4, <2>5 DEF OutcomeType, TypeOK
  <2> QED BY <2>3, <2>4, <2>6, Unchanged, TypePartsNext
<1> QED BY <1>1, <1>2, <1>3 DEF Step, Ended

\* The steps that change the cluster.
LEMMA CommandType ==
  ASSUME ConstantsAssumption, TypeOK,
         \/ UaaRun \/ UaaInstall \/ UaaUpgrade \/ UaaStop
         \/ HelmDelete \/ RemoveNamespace \/ CreateNamespace
         \/ HelmInstall \/ Upgrade
  PROVE  TypeOK'
<1> "uaa" \in Namespace /\ "cf" \in Namespace
  BY DEF Namespace
<1>1. CallOk \/ CallFails
  BY DEF UaaRun, UaaInstall, UaaUpgrade, UaaStop, HelmDelete,
         RemoveNamespace, CreateNamespace, HelmInstall, Upgrade, Command
<1>2. \E label \in Step : Goto(label)
  <2> USE DEF Step, Ended, Command
  <2>1. CASE UaaRun
    BY <2>1 DEF UaaRun
  <2>2. CASE UaaInstall
    BY <2>2 DEF UaaInstall
  <2>3. CASE UaaUpgrade
    BY <2>3 DEF UaaUpgrade
  <2>4. CASE UaaStop
    BY <2>4 DEF UaaStop
  <2>5. CASE HelmDelete
    BY <2>5 DEF HelmDelete
  <2>6. CASE RemoveNamespace
    BY <2>6 DEF RemoveNamespace, AfterStop
  <2>7. CASE CreateNamespace
    BY <2>7 DEF CreateNamespace
  <2>8. CASE HelmInstall
    BY <2>8 DEF HelmInstall
  <2>9. CASE Upgrade
    BY <2>9 DEF Upgrade
  <2> QED BY <2>1, <2>2, <2>3, <2>4, <2>5, <2>6, <2>7, <2>8, <2>9
<1>3. value' \in Generation
  <2>1. CASE UNCHANGED value
    BY <2>1, Unchanged
  <2>2. CASE value' = None
    BY <2>2, GenerationFacts
  <2> QED BY <2>1, <2>2 DEF UaaRun, UaaInstall, UaaUpgrade, UaaStop,
         HelmDelete, RemoveNamespace, CreateNamespace, HelmInstall, Upgrade
<1>4. ShellType'
  BY <1>1, <1>2, <1>3, ShellStep
<1>5. OutcomeType'
  <2>1. tls' = tls /\ ca' \in {ca, value}
    BY DEF UaaRun, UaaInstall, UaaUpgrade, UaaStop, HelmDelete,
       RemoveNamespace, CreateNamespace, HelmInstall, Upgrade, Command, outcome
  <2> QED BY <2>1 DEF TypeOK, OutcomeType
<1>6. ClusterType'
  <2>1. CASE CreateNamespace
    <3>1. ns' = ns \/ ns' = [ns EXCEPT !["cf"] = "active"]
      BY <2>1 DEF CreateNamespace, Command
    <3>2. UNCHANGED <<named, objects, secrets, pods>>
      BY <2>1 DEF CreateNamespace, release
    <3> QED BY <3>1, <3>2, TypeParts DEF ClusterType
  <2>2. CASE ~CreateNamespace
    <3>1. \/ UNCHANGED cluster
          \/ \E n \in Namespace : \/ Install(n) \/ HelmUpgrade(n)
                                  \/ DeleteRelease(n) \/ DeleteNamespace(n)
                                  \/ Remove(n)
      BY <2>2 DEF UaaRun, UaaInstall, UaaUpgrade, UaaStop, HelmDelete,
                  RemoveNamespace, HelmInstall, Upgrade, Command
    <3> QED BY <3>1, Unchanged, EffectsType
  <2> QED BY <2>1, <2>2
<1> QED BY <1>4, <1>5, <1>6, TypePartsNext

LEMMA BeginType ==
  ASSUME ConstantsAssumption, TypeOK, NEW t \in Target, Begin(t)
  PROVE  TypeOK'
<1>1. ClusterType' /\ OutcomeType'
  BY Unchanged DEF Begin
<1>2. made' \in 0 .. MaxTargets
  BY DEF Begin, TypeOK, ConstantsAssumption
<1>3. step' \in Step
  BY DEF Begin, First, Step, Target
<1>4. value' \in Generation
  BY GenerationFacts DEF Begin
<1>5. clean' \in BOOLEAN /\ faults' \in 0 .. MaxFaults /\ target' \in Target
  BY DEF Begin, TypeOK
<1> QED BY <1>1, <1>2, <1>3, <1>4, <1>5, TypePartsNext DEF ShellType

\* The steps of the cluster.
LEMMA KubernetesType ==
  ASSUME ConstantsAssumption, TypeOK, NEW n \in Namespace, Kubernetes(n)
  PROVE  TypeOK'
<1>1. ShellType' /\ ca' = ca
  BY TypeParts DEF ShellType, Kubernetes, JobDone, NamespaceGone, PodStart,
     PodReady, PodCollected, PodGone, PodBecomes, script, outcome, call
<1>2. CASE JobDone(n)
  <2>1. OutcomeType'
    BY <1>2, Unchanged DEF JobDone, script
  <2>2. secrets' \in [Namespace -> SUBSET Generation]
    BY <1>2 DEF JobDone, TypeOK
  <2> QED BY <1>1, <1>2, <2>1, <2>2, TypeParts, TypePartsNext
          DEF JobDone, ClusterType, release
<1>3. CASE NamespaceGone(n)
  <2>1. OutcomeType'
    BY <1>1, <1>3, GenerationFacts DEF NamespaceGone, TypeOK, OutcomeType
  <2>2. ns' \in [Namespace -> {"none", "active", "terminating"}]
        /\ secrets' \in [Namespace -> SUBSET Generation]
    BY <1>3 DEF NamespaceGone, TypeOK
  <2> QED BY <1>1, <1>3, <2>1, <2>2, TypeParts, TypePartsNext
          DEF NamespaceGone, ClusterType, release
<1>4. ASSUME NEW p \in Pod, NEW pod \in PodType, PodBecomes(n, p, pod)
      PROVE  TypeOK'
  <2>1. OutcomeType'
    BY <1>4, Unchanged DEF PodBecomes, script
  <2>2. pods' \in [Namespace -> [Pod -> PodType]]
    BY <1>4, TypeParts DEF PodBecomes, ClusterType
  <2> QED BY <1>1, <1>4, <2>1, <2>2, TypeParts, TypePartsNext
          DEF PodBecomes, ClusterType, release
<1>5. ASSUME NEW p \in Pod,
             PodStart(n, p) \/ PodReady(n, p) \/ PodCollected(n, p)
               \/ PodGone(n, p)
      PROVE  \E pod \in PodType : PodBecomes(n, p, pod)
  <2>0. pods[n][p] \in PodType /\ objects[n] \in Generation
    BY TypeParts DEF ClusterType
  <2>1. [state |-> "starting", gen |-> objects[n]] \in PodType
        /\ [pods[n][p] EXCEPT !.state = "ready"] \in PodType
        /\ [pods[n][p] EXCEPT !.state = "terminating"] \in PodType
        /\ NoPod \in PodType
    BY <2>0, GenerationFacts DEF PodType, NoPod
  <2> QED BY <1>5, <2>1 DEF PodStart, PodReady, PodCollected, PodGone
<1> QED BY <1>2, <1>3, <1>4, <1>5 DEF Kubernetes

LEMMA TypeStep == ConstantsAssumption /\ TypeOK /\ [Next]_vars => TypeOK'
<1> SUFFICES ASSUME ConstantsAssumption, TypeOK, [Next]_vars
             PROVE  TypeOK'
  OBVIOUS
<1>1. CASE Script
  BY <1>1, LookType, ReadType, CommandType DEF Script, UpdateSecrets
<1>2. CASE \E t \in Target : Begin(t)
  BY <1>2, BeginType
<1>3. CASE \E n \in Namespace : Kubernetes(n)
  BY <1>3, KubernetesType
<1>4. CASE UNCHANGED vars
  BY <1>4 DEF vars, TypeOK, cluster, outcome, call, release
<1> QED BY <1>1, <1>2, <1>3, <1>4 DEF Next

LEMMA TypeInit == ConstantsAssumption /\ Init => TypeOK
<1> SUFFICES ASSUME ConstantsAssumption, Init
             PROVE  TypeOK
  OBVIOUS
<1>1. ClusterType /\ OutcomeType
  BY GenerationFacts DEF Init, ClusterType, OutcomeType, PodType, NoPod
<1>2. ShellType
  BY GenerationFacts DEF Init, ShellType, Target, Step, Ended,
     ConstantsAssumption
<1> QED BY <1>1, <1>2, TypeParts

\* However the scripts and the cluster take turns, and whichever calls fail,
\* the state is well typed: generations stay within the targets made, what
\* get_secret returns is one of them or empty, and no script leaves the steps
\* of its target's file.
THEOREM TypeCorrect == Spec => []TypeOK
<1>1. Init => TypeOK
  BY TypeInit, ConstantsAssumption
<1>2. TypeOK /\ [Next]_vars => TypeOK'
  BY TypeStep, ConstantsAssumption
<1> QED BY <1>1, <1>2, PTL DEF Spec

-----------------------------------------------------------------------------
(* Fresh installations.                                                    *)

Empty == NoPods("cf") /\ secrets["cf"] = {}

\* "make run" has created CF's namespace and has not installed CF yet.
Prepared ==
  step \in {"waitCa", "install"} \/ (step = "readCa" /\ target = "run")

\* Where no object of CF is, none can be installed but into an empty namespace.
\* (A namespace that "helm delete" has left has no release of the name, and is
\* not one that "make run" has prepared.)
FreshInv ==
  /\ ns["cf"] # "active" => objects["cf"] = None
  /\ ns["cf"] = "none" => Empty
  /\ ns["cf"] = "active" /\ objects["cf"] = None /\ named["cf"] => Empty
  /\ Prepared => ns["cf"] = "active" /\ objects["cf"] = None /\ Empty

SameCf ==
  /\ ns'["cf"] = ns["cf"] /\ named'["cf"] = named["cf"]
  /\ objects'["cf"] = objects["cf"]
  /\ secrets'["cf"] = secrets["cf"] /\ pods'["cf"] = pods["cf"]

LEMMA SameCfSameInv ==
  ASSUME FreshInv, SameCf, Prepared' => Prepared
  PROVE  FreshInv'
BY DEF FreshInv, SameCf, Empty, NoPods, Visible

\* Most steps of a script are about the UAA, or only look at CF.
LEMMA ElsewhereKeepsFresh ==
  ASSUME ConstantsAssumption, TypeOK, FreshInv, Script,
         ~HelmDelete, ~RemoveNamespace, ~CreateNamespace, ~HelmInstall, ~Upgrade
  PROVE  FreshInv' /\ objects'["cf"] = objects["cf"]
<1>1. CASE UaaRun \/ UaaInstall \/ UaaUpgrade \/ UaaStop
  <2>1. \/ UNCHANGED cluster
        \/ Install("uaa") \/ HelmUpgrade("uaa") \/ Remove("uaa")
    BY <1>1 DEF UaaRun, UaaInstall, UaaUpgrade, UaaStop, Command
  <2>2. SameCf
    BY <2>1 DEF SameCf, cluster, release, Install, HelmUpgrade, Remove,
                TypeOK, Namespace
  <2>3. ~Prepared'
    BY <1>1 DEF Prepared, UaaRun, UaaInstall, UaaUpgrade, UaaStop, Command, Goto
  <2> QED BY <2>2, <2>3, SameCfSameInv DEF SameCf
<1>2. CASE ~(UaaRun \/ UaaInstall \/ UaaUpgrade \/ UaaStop)
  <2>1. UNCHANGED cluster
    BY <1>2 DEF Script, WaitUaa, WaitCf, Wait, HasRelease, HasNamespace,
       WaitGone, WaitCa, ReadCa, UpdateSecrets, WaitForJob, ReadCert, ApplyTls
  <2>2. SameCf
    BY <2>1 DEF SameCf, cluster, release
  <2>3. Prepared' => Prepared
    <3>1. CASE WaitUaa \/ WaitCf \/ HasRelease \/ HasNamespace \/ WaitGone
      BY <3>1 DEF WaitUaa, WaitCf, Wait, HasRelease, HasNamespace, AfterStop,
         WaitGone, Goto, Prepared
    <3>2. CASE WaitCa \/ ReadCa
      BY <3>2 DEF WaitCa, ReadCa, At, Goto, Prepared
    <3>3. CASE UpdateSecrets
      BY <3>3 DEF UpdateSecrets, WaitForJob, ReadCert, ApplyTls, Goto, Prepared
    <3> QED BY <1>2, <3>1, <3>2, <3>3 DEF Script
  <2> QED BY <2>2, <2>3, SameCfSameInv DEF SameCf
<1> QED BY <1>1, <1>2

\* The steps that change what is in CF's namespace.
LEMMA CfStepKeepsFresh ==
  ASSUME ConstantsAssumption, TypeOK, FreshInv,
         \/ HelmDelete \/ RemoveNamespace \/ CreateNamespace
         \/ HelmInstall \/ Upgrade
  PROVE  /\ FreshInv'
         /\ objects["cf"] = None /\ objects'["cf"] # None => Empty
<1> "cf" \in Namespace
  BY DEF Namespace
<1>0. UNCHANGED cluster => SameCf
  BY DEF SameCf, cluster, release
<1>1. CASE HelmDelete
  <2>1. ~Prepared'
    BY <1>1 DEF HelmDelete, Command, Goto, Prepared
  <2>2. CASE UNCHANGED cluster
    BY <1>0, <2>1, <2>2, SameCfSameInv DEF SameCf
  <2>3. CASE DeleteRelease("cf")
    <3>1. objects'["cf"] = None /\ ~named'["cf"] /\ ns' = ns
          /\ pods' = pods /\ secrets' = secrets
      BY <2>3 DEF DeleteRelease, TypeOK
    <3> QED BY <2>1, <3>1 DEF FreshInv, Empty, NoPods, Visible
  <2> QED BY <1>1, <2>2, <2>3 DEF HelmDelete, Command
<1>2. CASE RemoveNamespace
  <2>1. ~Prepared'
    BY <1>2 DEF RemoveNamespace, Command, AfterStop, Goto, Prepared
  <2>2. CASE UNCHANGED cluster
    BY <1>0, <2>1, <2>2, SameCfSameInv DEF SameCf
  <2>3. CASE DeleteNamespace("cf")
    <3>1. objects'["cf"] = None /\ ns'["cf"] = "terminating"
      BY <2>3 DEF DeleteNamespace, TypeOK
    <3> QED BY <2>1, <3>1 DEF FreshInv
  <2> QED BY <1>2, <2>2, <2>3 DEF RemoveNamespace, Command
<1>3. CASE CreateNamespace
  <2>1. UNCHANGED <<named, objects, secrets, pods>>
    BY <1>3 DEF CreateNamespace, release
  <2>2. CASE ns' = ns /\ ~Prepared'
    <3>1. SameCf
      BY <2>1, <2>2 DEF SameCf
    <3> QED BY <2>2, <3>1, SameCfSameInv DEF SameCf
  <2>3. CASE ns["cf"] = "none" /\ ns' = [ns EXCEPT !["cf"] = "active"]
    <3>1. ns'["cf"] = "active"
      BY <2>3 DEF TypeOK
    <3>2. objects["cf"] = None /\ Empty
      BY <2>3 DEF FreshInv
    <3> QED BY <2>1, <3>1, <3>2 DEF FreshInv, Empty, NoPods, Visible
  <2>4. CASE ns' = ns /\ Prepared'
    BY <1>3, <2>4, <2>3 DEF CreateNamespace, Command, Goto, Prepared
  <2> QED BY <1>3, <2>2, <2>3, <2>4 DEF CreateNamespace, Command
<1>4. CASE HelmInstall
  <2>1. Empty
    BY <1>4 DEF HelmInstall, At, FreshInv, Prepared
  <2>2. ~Prepared'
    BY <1>4 DEF HelmInstall, Command, Goto, Prepared
  <2>3. CASE UNCHANGED cluster
    BY <1>0, <2>2, <2>3, SameCfSameInv DEF SameCf
  <2>4. CASE Install("cf")
    <3>1. ns'["cf"] = "active" /\ UNCHANGED <<secrets, pods>>
      BY <2>4 DEF Install, TypeOK
    <3> QED BY <2>1, <2>2, <3>1 DEF FreshInv, Empty, NoPods, Visible
  <2> QED BY <1>4, <2>1, <2>3, <2>4 DEF HelmInstall, Command
<1>5. CASE Upgrade
  <2>1. ~Prepared'
    BY <1>5 DEF Upgrade, Command, Goto, Prepared
  <2>2. CASE UNCHANGED cluster
    BY <1>0, <2>1, <2>2, SameCfSameInv DEF SameCf
  <2>3. CASE named["cf"] /\ ns["cf"] = "active" /\ HelmUpgrade("cf")
    <3>1. objects'["cf"] # None /\ ns' = ns
      BY <2>3 DEF HelmUpgrade, TypeOK
    <3>2. FreshInv'
      BY <2>1, <2>3, <3>1 DEF FreshInv
    <3> QED BY <2>3, <3>2 DEF FreshInv
  <2> QED BY <1>5, <2>2, <2>3 DEF Upgrade, Command
<1> QED BY <1>1, <1>2, <1>3, <1>4, <1>5

\* Without objects the cluster puts nothing into a namespace.
LEMMA KubernetesKeepsFresh ==
  ASSUME ConstantsAssumption, TypeOK, FreshInv,
         NEW n \in Namespace, Kubernetes(n)
  PROVE  FreshInv' /\ objects' = objects
<1>1. named' = named /\ objects' = objects /\ step' = step /\ target' = target
  BY DEF Kubernetes, JobDone, NamespaceGone, PodStart, PodReady, PodCollected,
     PodGone, PodBecomes, release, script
<1>2. Prepared' <=> Prepared
  BY <1>1 DEF Prepared
<1>3. CASE n # "cf"
  <2>1. /\ ns' = ns \/ ns' = [ns EXCEPT ![n] = "none"]
        /\ secrets' = secrets \/ \E s : secrets' = [secrets EXCEPT ![n] = s]
        /\ pods' = pods
             \/ \E p \in Pod : \E pod : pods' = [pods EXCEPT ![n][p] = pod]
    <3>1. CASE JobDone(n) \/ NamespaceGone(n)
      BY <3>1 DEF JobDone, NamespaceGone
    <3>2. CASE \E p \in Pod : PodStart(n, p) \/ PodReady(n, p)
                               \/ PodCollected(n, p) \/ PodGone(n, p)
      BY <3>2 DEF PodStart, PodReady, PodCollected, PodGone, PodBecomes
    <3> QED BY <3>1, <3>2 DEF Kubernetes
  <2>2. ns'["cf"] = ns["cf"] /\ secrets'["cf"] = secrets["cf"]
        /\ pods'["cf"] = pods["cf"]
    BY <1>3, <2>1 DEF TypeOK, Namespace
  <2>3. SameCf
    BY <1>1, <2>2 DEF SameCf
  <2> QED BY <1>1, <1>2, <2>3, SameCfSameInv
<1>4. CASE n = "cf"
  <2>1. CASE JobDone("cf")
    <3>1. ns' = ns /\ objects["cf"] # None /\ ns["cf"] = "active"
      BY <2>1 DEF JobDone
    <3> QED BY <1>1, <1>2, <3>1 DEF FreshInv
  <2>2. CASE NamespaceGone("cf")
    <3>1. ns'["cf"] = "none" /\ secrets'["cf"] = {} /\ pods' = pods
      BY <1>4, <2>2 DEF NamespaceGone, TypeOK
    <3>2. NoPods("cf") /\ ns["cf"] = "terminating"
      BY <2>2 DEF NamespaceGone
    <3> QED BY <1>1, <1>2, <3>1, <3>2 DEF FreshInv, Empty, NoPods, Visible
  <2>3. ASSUME NEW p \in Pod,
               PodStart("cf", p) \/ PodReady("cf", p) \/ PodCollected("cf", p)
                 \/ PodGone("cf", p)
        PROVE  FreshInv'
    <3>1. ns' = ns /\ secrets' = secrets
      BY <2>3 DEF PodStart, PodReady, PodCollected, PodGone, PodBecomes
    <3>2. CASE Empty
      <4>1. pods["cf"][p].state = "absent"
        BY <3>2 DEF Empty, NoPods, Visible
      <4>2. objects["cf"] # None /\ ns["cf"] = "active"
        BY <2>3, <4>1 DEF PodStart, PodReady, PodCollected, PodGone
      <4> QED BY <1>1, <1>2, <3>1, <4>2 DEF FreshInv
    <3>3. CASE ~Empty
      BY <1>1, <1>2, <3>1, <3>3 DEF FreshInv
    <3> QED BY <3>2, <3>3
  <2> QED BY <1>1, <1>4, <2>1, <2>2, <2>3 DEF Kubernetes
<1> QED BY <1>3, <1>4, <1>1

LEMMA BeginKeepsFresh ==
  ASSUME ConstantsAssumption, TypeOK, FreshInv, NEW t \in Target, Begin(t)
  PROVE  FreshInv' /\ objects' = objects
<1>1. SameCf /\ objects' = objects
  BY DEF Begin, SameCf, cluster, release
<1>2. ~Prepared'
  BY DEF Begin, First, Prepared, Target
<1> QED BY <1>1, <1>2, SameCfSameInv

LEMMA FreshStep ==
  ASSUME ConstantsAssumption, TypeOK, FreshInv, [Next]_vars
  PROVE  /\ FreshInv'
         /\ objects["cf"] = None /\ objects'["cf"] # None => Empty
<1>1. CASE Script
  BY <1>1, ElsewhereKeepsFresh, CfStepKeepsFresh
<1>2. CASE \E t \in Target : Begin(t)
  BY <1>2, BeginKeepsFresh
<1>3. CASE \E n \in Namespace : Kubernetes(n)
  BY <1>3, KubernetesKeepsFresh
<1>4. CASE UNCHANGED vars
  <2>1. SameCf /\ (Prepared' => Prepared)
    BY <1>4 DEF vars, cluster, release, SameCf, Prepared
  <2> QED BY <2>1, SameCfSameInv DEF SameCf
<1> QED BY <1>1, <1>2, <1>3, <1>4 DEF Next

\* Whatever fails and in whichever order targets are made, CF is only ever
\* installed into a namespace with no pod and no secret of a former one: the
\* loop of "make run" that waits for the namespace to go, and the creation of it
\* that fails when it has not gone, are enough.
THEOREM FreshInstallAlways == Spec => FreshInstall
<1>1. Init => FreshInv
  BY DEF Init, FreshInv, Empty, NoPods, Visible, NoPod, Prepared, Namespace
<1>2. TypeOK /\ FreshInv /\ [Next]_vars => FreshInv'
  BY FreshStep, ConstantsAssumption
<1>3. TypeOK /\ FreshInv /\ [Next]_vars
        => [objects["cf"] = None /\ objects'["cf"] # None
              => NoPods("cf") /\ secrets["cf"] = {}]_vars
  BY FreshStep, ConstantsAssumption DEF Empty
<1>4. Spec => []TypeOK
  BY TypeCorrect
<1>5. Spec => []FreshInv
  BY <1>1, <1>2, <1>4, PTL DEF Spec
<1> QED BY <1>3, <1>4, <1>5, PTL DEF Spec, FreshInstall

-----------------------------------------------------------------------------
(* The UAA's secrets.                                                      *)

AfterTls == {"jobCf", "certCf", "keyCf", "done"}
AfterInstall == {"jobUaa", "certUaa", "keyUaa"} \cup AfterTls

\* The steps of each target; one that is made has a number.
StepOfTarget ==
  /\ target = "run" =>
       step \notin {"uaaUpgrade", "uaaStop", "waitCf", "upgrade"}
         /\ made # None
  /\ target = "upgrade" =>
       step \in {"uaaUpgrade", "waitUaa", "readCa", "upgrade", "failed"}
                  \cup AfterInstall
  /\ target = "stop" =>
       step \in {"hasRelease", "helmDelete", "hasNamespace", "deleteNamespace",
                 "uaaStop", "waitCf", "waitUaa", "done", "failed"}

\* The target has installed the UAA, or upgraded it, and no call failed.
Working ==
  /\ clean /\ target # "stop"
  /\ step \notin {"uaaRun", "uaaInstall", "uaaUpgrade", "failed"}

\* A pod has told its secret's name, and the secret was there.
Asked ==
  \/ step \in {"install", "upgrade", "jobUaa", "certUaa", "keyUaa"}
  \/ step = "readCa" /\ target = "run"
Waited ==
  \/ step \in {"install", "certUaa", "keyUaa"}
  \/ step = "readCa" /\ target = "run"

\* The UAA's pods refer to the present generation, but for those that go ...
Current ==
  \A p \in Pod : pods["uaa"][p].state \in {"starting", "ready"}
                   => pods["uaa"][p].gen = objects["uaa"]
\* ... which make/wait has waited for.
NoneGoing == \A p \in Pod : pods["uaa"][p].state # "terminating"

UaaInv ==
  /\ ns["uaa"] = "active" /\ objects["uaa"] # None /\ Current
  /\ target = "run" \/ step # "waitUaa" => NoneGoing
  /\ Asked => ~NoPods("uaa")
  /\ Waited => objects["uaa"] \in secrets["uaa"]

\* What the script has read is of the present generation.
TakenInv ==
  /\ step \in {"install", "keyUaa"} => value = objects["uaa"]
  /\ step = "upgrade" => value \in {None, objects["uaa"]}
  /\ target = "run" /\ step \in AfterInstall => ca = objects["uaa"]
  /\ target = "upgrade" /\ step \in AfterInstall =>
       ca \in {None, objects["uaa"]}
  /\ step \in AfterTls =>
       tls["uaa"] = [cert |-> objects["uaa"], key |-> objects["uaa"]]

NoneIsEmpty == ns["uaa"] = "none" => NoPods("uaa")

TrustInv == StepOfTarget /\ NoneIsEmpty /\ (Working => UaaInv /\ TakenInv)

\* The pod that is listed first is one of those that are listed.
LEMMA MinOfNat ==
  ASSUME NEW S \in SUBSET Nat, S # {}
  PROVE  Min(S) \in S
<1>1. PICK x \in S : \A y \in S : ~(<<y, x>> \in OpToRel(<, Nat))
  BY NatLessThanWellFounded, WFMin
<1>2. ASSUME NEW y \in S
      PROVE  x <= y
  <2>1. ~(y < x)
    BY <1>1 DEF OpToRel
  <2> QED BY <2>1
<1> QED BY <1>2 DEF Min

\* Which pod ever answers, it tells the present generation.
LEMMA AskUaa ==
  ASSUME ConstantsAssumption, TypeOK, Current, NoneGoing,
         NEW v, NEW ok, GetSecret("uaa", v, ok), clean'
  PROVE  /\ NoPods("uaa") => v = None /\ ~ok
         /\ ~NoPods("uaa") =>
              ok /\ v = IF objects["uaa"] \in secrets["uaa"] THEN objects["uaa"]
                                                             ELSE None
<1>1. ~CallFails
  BY DEF CallFails
<1>2. CASE NoPods("uaa")
  BY <1>1, <1>2 DEF GetSecret
<1>3. CASE ~NoPods("uaa")
  <2> DEFINE q == Min(Visible("uaa"))
  <2>1. Visible("uaa") \in SUBSET Nat /\ Visible("uaa") # {}
    BY <1>3 DEF Visible, NoPods, Pod, ConstantsAssumption
  <2>2. q \in Pod /\ pods["uaa"][q].state # "absent"
    BY <2>1, MinOfNat DEF Visible
  <2>3. pods["uaa"][q].state
          \in {"absent", "starting", "ready", "terminating"}
    <3>1. pods["uaa"] \in [Pod -> PodType]
      BY DEF TypeOK, PodType, Namespace
    <3> QED BY <2>2, <3>1 DEF PodType
  <2>4. pods["uaa"][q].gen = objects["uaa"]
    BY <2>2, <2>3 DEF Current, NoneGoing
  <2> QED BY <1>1, <1>3, <2>4 DEF GetSecret
<1> QED BY <1>2, <1>3

\* No step leaves its target's file.
LEMMA StepOfTargetKept ==
  ASSUME TypeOK, StepOfTarget, [Next]_vars
  PROVE  StepOfTarget'
<1> USE DEF StepOfTarget, AfterInstall, AfterTls, At, Goto, Command
<1>1. CASE UaaRun \/ UaaInstall \/ UaaUpgrade \/ UaaStop
  BY <1>1 DEF UaaRun, UaaInstall, UaaUpgrade, UaaStop
<1>2. CASE WaitUaa \/ WaitCf
  BY <1>2 DEF WaitUaa, WaitCf, Wait, TypeOK, Target
<1>3. CASE HasRelease \/ HelmDelete \/ HasNamespace \/ RemoveNamespace
  BY <1>3 DEF HasRelease, HelmDelete, HasNamespace, RemoveNamespace,
     AfterStop, TypeOK, Target
<1>4. CASE WaitGone \/ CreateNamespace \/ WaitCa \/ ReadCa
  BY <1>4 DEF WaitGone, CreateNamespace, WaitCa, ReadCa, TypeOK, Target
<1>5. CASE HelmInstall \/ Upgrade
  BY <1>5 DEF HelmInstall, Upgrade, TypeOK, Target
<1>6. CASE UpdateSecrets
  BY <1>6 DEF UpdateSecrets, WaitForJob, ReadCert, ApplyTls, TypeOK, Target
<1>7. CASE \E t \in Target : Begin(t)
  <2>1. made' # None
    BY <1>7 DEF Begin, TypeOK, None
  <2> QED BY <1>7, <2>1 DEF Begin, First, Target
<1>8. CASE \E n \in Namespace : Kubernetes(n)
  BY <1>8 DEF Kubernetes, JobDone, NamespaceGone, PodStart, PodReady,
     PodCollected, PodGone, PodBecomes, script
<1>9. CASE UNCHANGED vars
  BY <1>9 DEF vars
<1> QED
  BY <1>1, <1>2, <1>3, <1>4, <1>5, <1>6, <1>7, <1>8, <1>9 DEF Next, Script

SameUaaNs ==
  /\ ns'["uaa"] = ns["uaa"] /\ objects'["uaa"] = objects["uaa"]
  /\ secrets'["uaa"] = secrets["uaa"] /\ pods'["uaa"] = pods["uaa"]

\* The steps that are not about the UAA leave its namespace as it is.
LEMMA ElsewhereSameUaa ==
  ASSUME TypeOK, Script, ~UaaRun, ~UaaInstall, ~UaaUpgrade, ~UaaStop
  PROVE  SameUaaNs
<1>1. \/ UNCHANGED cluster
      \/ ns' = [ns EXCEPT !["cf"] = "active"]
           /\ UNCHANGED <<objects, secrets, pods>>
      \/ Install("cf") \/ HelmUpgrade("cf")
      \/ DeleteRelease("cf") \/ DeleteNamespace("cf")
  <2>1. CASE HelmDelete \/ RemoveNamespace \/ HelmInstall \/ Upgrade
    BY <2>1 DEF HelmDelete, RemoveNamespace, HelmInstall, Upgrade, Command
  <2>2. CASE CreateNamespace
    BY <2>2 DEF CreateNamespace, Command, release, cluster
  <2>3. CASE ~(HelmDelete \/ RemoveNamespace \/ HelmInstall \/ Upgrade
                 \/ CreateNamespace)
    BY <2>3 DEF Script, WaitUaa, WaitCf, Wait, HasRelease, HasNamespace,
       WaitGone, WaitCa, ReadCa, UpdateSecrets, WaitForJob, ReadCert, ApplyTls
  <2> QED BY <2>1, <2>2, <2>3
<1> QED
  BY <1>1 DEF SameUaaNs, cluster, release, Install, HelmUpgrade, DeleteRelease,
     DeleteNamespace, TypeOK, Namespace

\* Where the UAA's namespace stays as it is, so does what is said of it, as far
\* as the step asks for no more.
LEMMA SameUaaInv ==
  ASSUME UaaInv, SameUaaNs,
         target' = "run" \/ step' # "waitUaa" => NoneGoing,
         Asked' => ~NoPods("uaa"),
         Waited' => objects["uaa"] \in secrets["uaa"]
  PROVE  UaaInv'
<1>1. Current' /\ (NoneGoing' <=> NoneGoing)
  BY DEF UaaInv, SameUaaNs, Current, NoneGoing
<1>2. NoPods("uaa")' <=> NoPods("uaa")
  BY DEF SameUaaNs, NoPods, Visible
<1> QED BY <1>1, <1>2 DEF UaaInv, SameUaaNs

\* make/uaa/run and make/uaa/upgrade: what they leave to be waited for.
LEMMA UaaBegins ==
  ASSUME ConstantsAssumption, TypeOK, TrustInv,
         UaaRun \/ UaaInstall \/ UaaUpgrade \/ UaaStop
  PROVE  NoneIsEmpty' /\ (Working' => UaaInv' /\ TakenInv')
<1> "uaa" \in Namespace
  BY DEF Namespace
<1>1. CASE UaaRun \/ UaaStop
  <2>1. ~Working'
    BY <1>1 DEF Working, UaaRun, UaaStop, Command, Goto, At, TrustInv,
       StepOfTarget, AfterInstall, AfterTls, TypeOK, Target
  <2>2. /\ ns'["uaa"] = "none" => ns["uaa"] = "none"
        /\ pods' = pods
    BY <1>1 DEF UaaRun, UaaStop, Command, Remove, cluster, TypeOK
  <2> QED BY <2>1, <2>2 DEF TrustInv, NoneIsEmpty, NoPods, Visible
<1>2. CASE UaaInstall
  <2>1. ns["uaa"] = "none" /\ NoPods("uaa")
    BY <1>2 DEF UaaInstall, TrustInv, NoneIsEmpty
  <2>2. pods' = pods
    BY <1>2 DEF UaaInstall, Command, Install, cluster
  <2>3. NoPods("uaa")'
    BY <2>1, <2>2 DEF NoPods, Visible
  <2>4. ASSUME Working'
        PROVE  UaaInv' /\ TakenInv'
    <3>1. Install("uaa") /\ step' = "waitUaa" /\ made' = made
      BY <1>2, <2>4 DEF UaaInstall, Command, CallFails, Goto, Working
    <3>2. ns'["uaa"] = "active" /\ objects'["uaa"] = made
      BY <3>1 DEF Install, TypeOK
    <3>3. Current' /\ NoneGoing'
      BY <2>3 DEF Current, NoneGoing, NoPods, Visible
    <3>4. made # None
      BY <1>2 DEF UaaInstall, At, TrustInv, StepOfTarget, AfterInstall,
         AfterTls, TypeOK, Target
    <3> QED
      BY <3>1, <3>2, <3>3, <3>4 DEF UaaInv, TakenInv, Asked, Waited,
         AfterInstall, AfterTls
  <2> QED BY <2>3, <2>4 DEF NoneIsEmpty
<1>3. CASE UaaUpgrade
  <2>1. CASE UNCHANGED cluster /\ step' = "failed"
    <3>1. ~Working'
      BY <2>1 DEF Working
    <3>2. ns' = ns /\ pods' = pods
      BY <2>1 DEF cluster
    <3> QED BY <3>1, <3>2 DEF TrustInv, NoneIsEmpty, NoPods, Visible
  <2>2. CASE HelmUpgrade("uaa") /\ ns["uaa"] = "active"
    <3>1. /\ ns'["uaa"] = "active" /\ objects'["uaa"] # None
          /\ \A p \in Pod : pods'["uaa"][p].state \in {"absent", "terminating"}
      BY <2>2 DEF HelmUpgrade, TypeOK, Visible
    <3>2. Working' => step' = "waitUaa" /\ target' = "upgrade"
      BY <1>3 DEF UaaUpgrade, Command, Goto, At, Working, CallFails, TrustInv,
         StepOfTarget, AfterInstall, AfterTls, TypeOK, Target
    <3>3. Current'
      BY <3>1 DEF Current
    <3> QED
      BY <3>1, <3>2, <3>3 DEF UaaInv, TakenInv, Asked, Waited, NoneIsEmpty,
         AfterInstall, AfterTls
  <2> QED BY <1>3, <2>1, <2>2 DEF UaaUpgrade, Command, Goto
<1> QED BY <1>1, <1>2, <1>3

\* A script that goes on without a failing call went on without one before.
LEMMA WorkingBefore ==
  ASSUME TypeOK, TrustInv, Script, ~UaaRun, ~UaaInstall, ~UaaUpgrade, ~UaaStop,
         Working'
  PROVE  Working /\ UaaInv /\ TakenInv /\ target' = target
<1>1. clean
  BY DEF Script, WaitUaa, WaitCf, Wait, HasRelease, HelmDelete, HasNamespace,
     RemoveNamespace, WaitGone, CreateNamespace, WaitCa, ReadCa, HelmInstall,
     Upgrade, UpdateSecrets, WaitForJob, ReadCert, ApplyTls, Command, Answer,
     GetSecret, CallOk, CallFails, call, Working
<1>2. target' = target
  BY DEF Script, WaitUaa, WaitCf, Wait, HasRelease, HelmDelete, HasNamespace,
     RemoveNamespace, WaitGone, CreateNamespace, WaitCa, ReadCa, HelmInstall,
     Upgrade, UpdateSecrets, WaitForJob, ReadCert, ApplyTls, Command, Goto
<1>3. step \notin {"uaaRun", "uaaInstall", "uaaUpgrade", "failed"}
  BY DEF Script, WaitUaa, WaitCf, Wait, HasRelease, HelmDelete, HasNamespace,
     RemoveNamespace, WaitGone, CreateNamespace, WaitCa, ReadCa, HelmInstall,
     Upgrade, UpdateSecrets, WaitForJob, ReadCert, ApplyTls, At
<1> QED BY <1>1, <1>2, <1>3 DEF Working, TrustInv

\* The steps up to the creation of CF's namespace.
LEMMA MakeRunKeepsTrust ==
  ASSUME ConstantsAssumption, TypeOK, TrustInv, Working', Script,
         \/ WaitUaa \/ WaitCf \/ HasRelease \/ HelmDelete \/ HasNamespace
         \/ RemoveNamespace \/ WaitGone \/ CreateNamespace
  PROVE  UaaInv' /\ TakenInv'
<1>1. /\ Working /\ UaaInv /\ TakenInv /\ target' = target /\ SameUaaNs
      /\ StepOfTarget
  <2>1. ~UaaRun /\ ~UaaInstall /\ ~UaaUpgrade /\ ~UaaStop
    BY DEF WaitUaa, WaitCf, Wait, HasRelease, HelmDelete, HasNamespace,
       RemoveNamespace, WaitGone, CreateNamespace, At, UaaRun, UaaInstall,
       UaaUpgrade, UaaStop
  <2> QED BY <2>1, WorkingBefore, ElsewhereSameUaa DEF TrustInv
<1>2. CASE WaitUaa
  <2>1. \A p \in Visible("uaa") : pods["uaa"][p].state = "ready"
    BY <1>2 DEF WaitUaa, Wait, CallFails, Working
  <2>2. NoneGoing
    BY <2>1 DEF NoneGoing, Visible
  <2>3. step' \in {"hasRelease", "readCa", "done"}
        /\ (target' = "run" => step' = "hasRelease")
        /\ (target' = "upgrade" => step' = "readCa")
    BY <1>1, <1>2 DEF WaitUaa, Wait, Goto
  <2>4. target' = "run" \/ target' = "upgrade"
    BY <1>1 DEF Working, TypeOK, Target
  <2>5. ~Asked' /\ ~Waited' /\ TakenInv'
    BY <2>3, <2>4 DEF Asked, Waited, TakenInv, AfterInstall, AfterTls
  <2> QED BY <1>1, <2>2, <2>5, SameUaaInv
<1>3. CASE ~WaitUaa
  <2>1. step # "waitUaa" /\ NoneGoing
    BY <1>1, <1>3 DEF WaitCf, Wait, HasRelease, HelmDelete, HasNamespace,
       RemoveNamespace, WaitGone, CreateNamespace, At, UaaInv
  <2>2. target = "run"
    BY <1>1, <1>3 DEF WaitCf, Wait, HasRelease, HelmDelete, HasNamespace,
       RemoveNamespace, WaitGone, CreateNamespace, At, StepOfTarget,
       AfterInstall, AfterTls, Working, TypeOK, Target
  <2>3. step' \in {"helmDelete", "hasNamespace", "deleteNamespace", "waitGone",
                   "createNamespace", "waitCa"}
    <3>1. CASE WaitCf \/ HasRelease \/ HelmDelete
      BY <1>1, <2>2, <3>1 DEF WaitCf, Wait, HasRelease, HelmDelete, Command,
         Goto, At, Working, StepOfTarget
    <3>2. CASE HasNamespace \/ RemoveNamespace
      BY <2>2, <3>2 DEF HasNamespace, RemoveNamespace, Command, Goto, AfterStop,
         Working
    <3>3. CASE WaitGone \/ CreateNamespace
      BY <3>3 DEF WaitGone, CreateNamespace, Command, Goto, Working
    <3> QED BY <1>3, <3>1, <3>2, <3>3
  <2>4. ~Asked' /\ ~Waited' /\ TakenInv'
    BY <2>3 DEF Asked, Waited, TakenInv, AfterInstall, AfterTls
  <2> QED BY <1>1, <2>1, <2>4, SameUaaInv
<1> QED BY <1>2, <1>3

\* The CA, from the UAA to CF.
LEMMA CaKeepsTrust ==
  ASSUME ConstantsAssumption, TypeOK, TrustInv, Working', Script,
         WaitCa \/ ReadCa \/ HelmInstall \/ Upgrade
  PROVE  UaaInv' /\ TakenInv'
<1>1. /\ Working /\ UaaInv /\ TakenInv /\ target' = target /\ SameUaaNs
      /\ StepOfTarget /\ clean'
  <2>1. ~UaaRun /\ ~UaaInstall /\ ~UaaUpgrade /\ ~UaaStop
    BY DEF WaitCa, ReadCa, HelmInstall, Upgrade, At, UaaRun, UaaInstall,
       UaaUpgrade, UaaStop
  <2> QED BY <2>1, WorkingBefore, ElsewhereSameUaa DEF TrustInv, Working
<1>2. step # "waitUaa" /\ Current /\ NoneGoing
  BY <1>1 DEF WaitCa, ReadCa, HelmInstall, Upgrade, At, UaaInv
<1>3. CASE WaitCa
  <2>1. PICK v \in Generation, ok \in BOOLEAN :
          GetSecret("uaa", v, ok) /\ v # None
    BY <1>3 DEF WaitCa
  <2>2. ~NoPods("uaa") /\ objects["uaa"] \in secrets["uaa"]
    BY <1>1, <1>2, <2>1, AskUaa
  <2>3. step' = "readCa"
    BY <1>3 DEF WaitCa, Goto
  <2>4. TakenInv'
    BY <2>3 DEF TakenInv, AfterInstall, AfterTls
  <2> QED BY <1>1, <1>2, <2>2, <2>4, SameUaaInv
<1>4. CASE ReadCa
  <2>1. PICK v \in Generation, ok \in BOOLEAN :
          /\ GetSecret("uaa", v, ok)
          /\ value' = IF ok THEN v ELSE value
          /\ Goto(IF ~ok THEN "failed"
                  ELSE IF target = "run" THEN "install" ELSE "upgrade")
    BY <1>4 DEF ReadCa
  <2>2. ok
    BY <2>1 DEF Goto, Working
  <2>3. ~NoPods("uaa")
    BY <1>1, <1>2, <2>1, <2>2, AskUaa
  <2>4. CASE target = "run"
    <3>1. objects["uaa"] \in secrets["uaa"] /\ step' = "install"
      BY <1>1, <1>4, <2>1, <2>2, <2>4 DEF UaaInv, Waited, ReadCa, At, Goto
    <3>2. value' = objects["uaa"]
      BY <1>1, <1>2, <2>1, <2>2, <2>3, <3>1, AskUaa
    <3>3. TakenInv'
      BY <1>1, <3>1, <3>2 DEF TakenInv, AfterInstall, AfterTls, SameUaaNs
    <3> QED BY <1>1, <1>2, <2>3, <3>1, <3>3, SameUaaInv
  <2>5. CASE target # "run"
    <3>1. step' = "upgrade"
      BY <2>1, <2>2, <2>5 DEF Goto
    <3>2. value' \in {None, objects["uaa"]}
      BY <1>1, <1>2, <2>1, <2>2, <2>3, AskUaa
    <3>3. TakenInv' /\ ~Waited'
      BY <1>1, <3>1, <3>2 DEF TakenInv, Waited, AfterInstall, AfterTls, SameUaaNs
    <3> QED BY <1>1, <1>2, <2>3, <3>1, <3>3, SameUaaInv
  <2> QED BY <2>4, <2>5
<1>5. CASE HelmInstall \/ Upgrade
  <2>1. step' = "jobUaa" /\ ~NoPods("uaa")
    BY <1>1, <1>5 DEF HelmInstall, Upgrade, Command, Goto, Working, UaaInv,
       Asked, At
  <2>2. target = "run" => ca' = objects["uaa"]
    BY <1>1, <1>5 DEF HelmInstall, Upgrade, Command, CallFails, Goto, Working,
       TakenInv, At, StepOfTarget
  <2>3. target = "upgrade" => ca' \in {None, objects["uaa"]}
    BY <1>1, <1>5 DEF HelmInstall, Upgrade, Command, CallFails, Goto, Working,
       TakenInv, At, StepOfTarget
  <2>4. TakenInv' /\ ~Waited'
    BY <1>1, <2>1, <2>2, <2>3 DEF TakenInv, Waited, AfterTls, SameUaaNs
  <2> QED BY <1>1, <1>2, <2>1, <2>4, SameUaaInv
<1> QED BY <1>3, <1>4, <1>5

\* make/ingress/update_secrets.
LEMMA SecretsKeepTrust ==
  ASSUME ConstantsAssumption, TypeOK, TrustInv, Working', Script, UpdateSecrets
  PROVE  UaaInv' /\ TakenInv'
<1>1. /\ Working /\ UaaInv /\ TakenInv /\ target' = target /\ SameUaaNs
      /\ clean'
  <2>1. ~UaaRun /\ ~UaaInstall /\ ~UaaUpgrade /\ ~UaaStop
    BY DEF UpdateSecrets, WaitForJob, ReadCert, ApplyTls, At, UaaRun,
       UaaInstall, UaaUpgrade, UaaStop
  <2> QED BY <2>1, WorkingBefore, ElsewhereSameUaa DEF Working
<1>2. step # "waitUaa" /\ Current /\ NoneGoing
  BY <1>1 DEF UpdateSecrets, WaitForJob, ReadCert, ApplyTls, At, UaaInv
<1>3. CASE WaitForJob("uaa", "jobUaa", "certUaa")
  <2>1. /\ objects["uaa"] \in secrets["uaa"] /\ ~NoPods("uaa")
        /\ step' = "certUaa" /\ ca' = ca
    BY <1>1, <1>3 DEF WaitForJob, UaaInv, Asked, At, Goto, outcome
  <2>2. TakenInv'
    BY <1>1, <1>3, <2>1 DEF TakenInv, WaitForJob, At, AfterInstall, AfterTls,
       SameUaaNs
  <2> QED BY <1>1, <1>2, <2>1, <2>2, SameUaaInv
<1>4. CASE ReadCert("uaa", "certUaa", "keyUaa")
  <2>1. PICK v \in Generation, ok \in BOOLEAN :
          GetSecret("uaa", v, ok) /\ value' = v
    BY <1>4 DEF ReadCert
  <2>2. /\ objects["uaa"] \in secrets["uaa"] /\ ~NoPods("uaa")
        /\ step' = "keyUaa" /\ ca' = ca
    BY <1>1, <1>4 DEF ReadCert, UaaInv, Asked, Waited, At, Goto, outcome
  <2>3. value' = objects["uaa"]
    BY <1>1, <1>2, <2>1, <2>2, AskUaa
  <2>4. TakenInv'
    BY <1>1, <1>4, <2>2, <2>3 DEF TakenInv, ReadCert, At, AfterInstall,
       AfterTls, SameUaaNs
  <2> QED BY <1>1, <1>2, <2>2, <2>4, SameUaaInv
<1>5. CASE ApplyTls("uaa", "keyUaa", "jobCf")
  <2>1. CASE step' = "jobCf"
    <3>1. PICK v \in Generation, ok \in BOOLEAN :
            /\ GetSecret("uaa", v, ok)
            /\ tls' = [tls EXCEPT !["uaa"] = [cert |-> value, key |-> v]]
      BY <1>5, <2>1 DEF ApplyTls, Goto
    <3>2. objects["uaa"] \in secrets["uaa"] /\ ~NoPods("uaa") /\ ca' = ca
      BY <1>1, <1>5 DEF ApplyTls, UaaInv, Asked, Waited, At
    <3>3. v = objects["uaa"] /\ value = objects["uaa"]
      BY <1>1, <1>2, <1>5, <3>1, <3>2, AskUaa DEF ApplyTls, TakenInv, At
    <3>4. tls'["uaa"] = [cert |-> objects["uaa"], key |-> objects["uaa"]]
      BY <3>1, <3>3 DEF TypeOK, Namespace
    <3>5. /\ target = "run" => ca = objects["uaa"]
          /\ target = "upgrade" => ca \in {None, objects["uaa"]}
      BY <1>1, <1>5 DEF ApplyTls, TakenInv, At, AfterInstall
    <3>6. TakenInv' /\ ~Asked' /\ ~Waited'
      BY <1>1, <2>1, <3>2, <3>4, <3>5 DEF TakenInv, Asked, Waited, SameUaaNs
    <3> QED BY <1>1, <1>2, <3>6, SameUaaInv
  <2>2. CASE step' # "jobCf"
    BY <1>5, <2>2 DEF ApplyTls, Goto, CallFails, Working
  <2> QED BY <2>1, <2>2
<1>6. CASE \/ WaitForJob("cf", "jobCf", "certCf")
           \/ ReadCert("cf", "certCf", "keyCf") \/ ApplyTls("cf", "keyCf", "done")
  <2>1. step \in AfterTls /\ step' \in {"certCf", "keyCf", "done"}
    BY <1>6 DEF WaitForJob, ReadCert, ApplyTls, At, Goto, AfterTls, Working
  <2>2. tls'["uaa"] = tls["uaa"] /\ ca' = ca
    BY <1>6 DEF WaitForJob, ReadCert, ApplyTls, outcome, TypeOK, Namespace
  <2>3. ~Asked' /\ ~Waited'
    BY <2>1 DEF Asked, Waited
  <2>4. TakenInv'
    BY <1>1, <2>1, <2>2 DEF TakenInv, AfterInstall, AfterTls, SameUaaNs
  <2> QED BY <1>1, <1>2, <2>3, <2>4, SameUaaInv
<1> QED BY <1>3, <1>4, <1>5, <1>6 DEF UpdateSecrets

LEMMA ScriptKeepsTrust ==
  ASSUME ConstantsAssumption, TypeOK, TrustInv, Script
  PROVE  NoneIsEmpty' /\ (Working' => UaaInv' /\ TakenInv')
<1>1. CASE UaaRun \/ UaaInstall \/ UaaUpgrade \/ UaaStop
  BY <1>1, UaaBegins
<1>2. CASE ~(UaaRun \/ UaaInstall \/ UaaUpgrade \/ UaaStop)
  <2>1. SameUaaNs
    BY <1>2, ElsewhereSameUaa
  <2>2. NoneIsEmpty'
    BY <2>1 DEF TrustInv, NoneIsEmpty, SameUaaNs, NoPods, Visible
  <2> QED
    BY <1>2, <2>2, MakeRunKeepsTrust, CaKeepsTrust, SecretsKeepTrust DEF Script
<1> QED BY <1>1, <1>2

\* What the cluster does meanwhile.  Where the UAA is wanted and nothing of it
\* goes, its pods only come, and come with the present generation.
LEMMA KubernetesKeepsTrust ==
  ASSUME ConstantsAssumption, TypeOK, TrustInv,
         NEW n \in Namespace, Kubernetes(n)
  PROVE  NoneIsEmpty' /\ (Working' => UaaInv' /\ TakenInv')
<1> "uaa" \in Namespace
  BY DEF Namespace
<1>0. /\ objects' = objects /\ step' = step /\ target' = target
      /\ value' = value /\ clean' = clean /\ ca' = ca
  BY DEF Kubernetes, JobDone, NamespaceGone, PodStart, PodReady, PodCollected,
     PodGone, PodBecomes, release, script, outcome, call
<1>1. /\ Working' <=> Working
      /\ Asked' <=> Asked
      /\ Waited' <=> Waited
  BY <1>0 DEF Working, Asked, Waited
<1>2. ASSUME tls'["uaa"] = tls["uaa"], TakenInv
      PROVE  TakenInv'
  BY <1>0, <1>2 DEF TakenInv
<1>3. CASE n # "uaa"
  <2>1. /\ ns' = ns \/ ns' = [ns EXCEPT ![n] = "none"]
        /\ secrets' = secrets \/ \E s : secrets' = [secrets EXCEPT ![n] = s]
        /\ pods' = pods
             \/ \E p \in Pod : \E pod : pods' = [pods EXCEPT ![n][p] = pod]
        /\ tls' = tls \/ \E c : tls' = [tls EXCEPT ![n] = c]
    <3>1. CASE JobDone(n)
      BY <3>1 DEF JobDone, script, outcome
    <3>2. CASE NamespaceGone(n)
      BY <3>2 DEF NamespaceGone
    <3>3. CASE \E p \in Pod : PodStart(n, p) \/ PodReady(n, p)
                               \/ PodCollected(n, p) \/ PodGone(n, p)
      BY <3>3 DEF PodStart, PodReady, PodCollected, PodGone, PodBecomes, script,
         outcome
    <3> QED BY <3>1, <3>2, <3>3 DEF Kubernetes
  <2>2. /\ ns'["uaa"] = ns["uaa"] /\ secrets'["uaa"] = secrets["uaa"]
        /\ pods'["uaa"] = pods["uaa"] /\ tls'["uaa"] = tls["uaa"]
    BY <1>3, <2>1 DEF TypeOK
  <2>3. SameUaaNs
    BY <1>0, <2>2 DEF SameUaaNs
  <2>4. NoneIsEmpty'
    BY <2>3 DEF TrustInv, NoneIsEmpty, SameUaaNs, NoPods, Visible
  <2>5. Working' => UaaInv'
    BY <1>0, <1>1, <2>3, SameUaaInv DEF TrustInv, UaaInv
  <2> QED BY <1>1, <1>2, <2>2, <2>4, <2>5 DEF TrustInv
<1>4. CASE JobDone("uaa")
  <2>1. /\ UNCHANGED <<ns, pods, tls>>
        /\ secrets["uaa"] \subseteq secrets'["uaa"]
    BY <1>4 DEF JobDone, script, outcome, TypeOK
  <2>2. /\ Current' <=> Current
        /\ NoneGoing' <=> NoneGoing
        /\ NoPods("uaa")' <=> NoPods("uaa")
    BY <1>0, <2>1 DEF Current, NoneGoing, NoPods, Visible
  <2>3. UaaInv => UaaInv'
    BY <1>0, <1>1, <2>1, <2>2 DEF UaaInv
  <2> QED BY <1>1, <1>2, <2>1, <2>2, <2>3 DEF TrustInv, NoneIsEmpty
<1>5. CASE NamespaceGone("uaa")
  <2>1. ~Working
    BY <1>5 DEF NamespaceGone, TrustInv, UaaInv
  <2>2. NoPods("uaa")'
    BY <1>5 DEF NamespaceGone, NoPods, Visible
  <2> QED BY <1>1, <2>1, <2>2 DEF NoneIsEmpty
<1>6. ASSUME NEW p \in Pod,
             PodStart("uaa", p) \/ PodReady("uaa", p) \/ PodCollected("uaa", p)
               \/ PodGone("uaa", p)
      PROVE  NoneIsEmpty' /\ (Working' => UaaInv' /\ TakenInv')
  <2>1. UNCHANGED <<ns, secrets, tls>>
    BY <1>6 DEF PodStart, PodReady, PodCollected, PodGone, PodBecomes, script,
       outcome
  <2>2. pods["uaa"] \in [Pod -> PodType]
    BY DEF TypeOK, PodType
  <2>3. NoneIsEmpty'
    <3>1. NoPods("uaa") => ns["uaa"] # "none"
      BY <1>6 DEF NoPods, Visible, PodStart, PodReady, PodCollected, PodGone
    <3> QED BY <2>1, <3>1 DEF TrustInv, NoneIsEmpty
  <2>4. ASSUME Working
        PROVE  UaaInv'
    <3>1. UaaInv
      BY <2>4 DEF TrustInv
    <3>2. CASE PodStart("uaa", p) \/ PodReady("uaa", p)
      <4>1. /\ pods'["uaa"][p].state \in {"starting", "ready"}
            /\ pods'["uaa"][p].gen = objects["uaa"]
            /\ \A q \in Pod : q # p => pods'["uaa"][q] = pods["uaa"][q]
        <5>1. CASE PodStart("uaa", p)
          BY <2>2, <5>1 DEF PodStart, PodBecomes, TypeOK
        <5>2. CASE PodReady("uaa", p)
          <6>1. pods["uaa"][p].gen = objects["uaa"]
            BY <3>1, <5>2 DEF PodReady, UaaInv, Current
          <6>2. pods' = [pods EXCEPT !["uaa"][p] =
                           [pods["uaa"][p] EXCEPT !.state = "ready"]]
            BY <5>2 DEF PodReady, PodBecomes
          <6> QED BY <2>2, <6>1, <6>2 DEF TypeOK, PodType
        <5> QED BY <3>2, <5>1, <5>2
      <4>2. Current' /\ (NoneGoing => NoneGoing') /\ ~NoPods("uaa")'
        BY <1>0, <3>1, <4>1 DEF UaaInv, Current, NoneGoing, NoPods, Visible
      <4> QED BY <1>0, <1>1, <2>1, <3>1, <4>2 DEF UaaInv
    <3>3. ~PodCollected("uaa", p)
      BY <3>1 DEF PodCollected, UaaInv
    <3>4. CASE PodGone("uaa", p)
      <4>1. step = "waitUaa" /\ target # "run"
        BY <3>1, <3>4 DEF PodGone, UaaInv, NoneGoing
      <4>2. pods' = [pods EXCEPT !["uaa"][p] = NoPod]
        BY <3>4 DEF PodGone, PodBecomes
      <4>3. /\ pods'["uaa"][p].state = "absent"
            /\ \A q \in Pod : q # p => pods'["uaa"][q] = pods["uaa"][q]
        BY <2>2, <4>2 DEF NoPod, TypeOK
      <4>4. Current'
        BY <1>0, <3>1, <4>3 DEF UaaInv, Current
      <4>5. ~Asked' /\ ~Waited' /\ target' # "run" /\ step' = "waitUaa"
        BY <1>0, <4>1 DEF Asked, Waited
      <4> QED BY <1>0, <2>1, <3>1, <4>4, <4>5 DEF UaaInv
    <3> QED BY <1>6, <3>2, <3>3, <3>4
  <2> QED BY <1>1, <1>2, <2>1, <2>3, <2>4 DEF TrustInv
<1> QED BY <1>3, <1>4, <1>5, <1>6 DEF Kubernetes

LEMMA TrustStep ==
  ASSUME ConstantsAssumption, TypeOK, TrustInv, [Next]_vars
  PROVE  TrustInv'
<1>1. StepOfTarget'
  BY StepOfTargetKept DEF TrustInv
<1>2. CASE Script
  BY <1>1, <1>2, ScriptKeepsTrust DEF TrustInv
<1>3. CASE \E t \in Target : Begin(t)
  <2>1. ~Working'
    BY <1>3 DEF Begin, First, Working, Target
  <2>2. ns' = ns /\ pods' = pods
    BY <1>3 DEF Begin, cluster
  <2> QED BY <1>1, <2>1, <2>2 DEF TrustInv, NoneIsEmpty, NoPods, Visible
<1>4. CASE \E n \in Namespace : Kubernetes(n)
  BY <1>1, <1>4, KubernetesKeepsTrust DEF TrustInv
<1>5. CASE UNCHANGED vars
  <2>1. SameUaaNs /\ UNCHANGED <<ca, tls, target, step, value, clean>>
    BY <1>5 DEF vars, SameUaaNs, cluster, release, outcome, call
  <2>2. /\ Working' <=> Working
        /\ Asked' <=> Asked
        /\ Waited' <=> Waited
        /\ NoneIsEmpty' <=> NoneIsEmpty
    BY <2>1 DEF Working, Asked, Waited, NoneIsEmpty, SameUaaNs, NoPods, Visible
  <2>3. TakenInv => TakenInv'
    BY <2>1 DEF TakenInv, SameUaaNs
  <2>4. UaaInv => UaaInv'
    BY <2>1, <2>2, SameUaaInv DEF UaaInv
  <2> QED BY <1>1, <2>2, <2>3, <2>4 DEF TrustInv
<1> QED BY <1>2, <1>3, <1>4, <1>5 DEF Next

LEMMA TrustInvariant == Spec => []TrustInv
<1>1. Init => TrustInv
  BY DEF Init, TrustInv, StepOfTarget, NoneIsEmpty, NoPods, Visible, NoPod,
     Namespace, Working
<1>2. TypeOK /\ TrustInv /\ [Next]_vars => TrustInv'
  BY TrustStep, ConstantsAssumption
<1> QED BY <1>1, <1>2, TypeCorrect, PTL DEF Spec

\* Once "make run" has installed CF and no call failed, CF trusts the CA of
\* the UAA beside it, whichever pod was asked for it, however many there are,
\* and whatever was there before.
THEOREM TrustsUaaAlways == Spec => []TrustsUaa
<1>1. ASSUME TrustInv
      PROVE  TrustsUaa
  BY <1>1 DEF TrustInv, TrustsUaa, Working, UaaInv, TakenInv, AfterInstall,
     AfterTls
<1> QED BY <1>1, TrustInvariant, PTL

\* An upgrade without failing calls never leaves CF with the CA of a former
\* UAA: what it reads is of the UAA's present generation, or empty.
THEOREM NoFormerCaAlways == Spec => []NoFormerCa
<1>1. ASSUME TrustInv
      PROVE  NoFormerCa
  BY <1>1 DEF TrustInv, NoFormerCa, Working, TakenInv, AfterInstall, AfterTls
<1> QED BY <1>1, TrustInvariant, PTL

\* Without a failing call the UAA's ingress gets a certificate and a key that
\* belong together and to the present UAA, after an installation and after an
\* upgrade that rotates them: the wait for the former pods comes before.
THEOREM IngressOfUaaAlways == Spec => []IngressOfUaa
<1>1. ASSUME TypeOK, TrustInv
      PROVE  IngressOfUaa
  BY <1>1 DEF TypeOK, Target, TrustInv, StepOfTarget, IngressOfUaa, Working,
     UaaInv, TakenInv, AfterInstall, AfterTls, At
<1> QED BY <1>1, TrustInvariant, TypeCorrect, PTL
=============================================================================
