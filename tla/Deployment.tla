----------------------------- MODULE Deployment -----------------------------
(***************************************************************************)
(* The make targets that a developer deploys SCF with: "make run", "make   *)
(* stop" and "make upgrade" are bash scripts under errexit, one after the  *)
(* other, that call helm and kubectl and poll what those have set going.   *)
(* The cluster works on by itself: it starts pods, collects those whose    *)
(* owner is gone, and removes a namespace once it is empty (the kubectl    *)
(* that the scripts use, 1.9, does not wait for that).  A call of kubectl  *)
(* or helm may fail at any time, before or after it had its effect; under  *)
(* "if", "while" or in a pipe the script takes that for an answer.         *)
(*                                                                         *)
(* The scripts for the uaa namespace are in a submodule: they are external *)
(* and one or two steps here.  INGRESS_CONTROLLER is set; the controller   *)
(* itself, in a namespace of its own, is left out.                         *)
(***************************************************************************)
EXTENDS Integers, FiniteSetsExt

CONSTANTS
  Replicas,    \* pods that read the secrets, in each namespace
  MaxTargets,  \* bound: how many targets are made
  MaxFaults    \* bound: how many calls fail

ASSUME ConstantsAssumption ==
  Replicas \in Nat \ {0} /\ MaxTargets \in Nat /\ MaxFaults \in Nat

Namespace == {"uaa", "cf"}
Target == {"run", "stop", "upgrade"}
Pod == 0 .. Replicas - 1

\* Generations of the secrets of a namespace; an empty string where one is
\* read is None.
None == 0
Generation == 0 .. MaxTargets

VARIABLES
  \* the cluster
  ns,        \* per namespace: "none", "active" or "terminating"
  named,     \* does tiller have a release of the name?
  objects,   \* the generation that the release's objects are of, or None
  secrets,   \* the generations that a secret-generation job has made
  pods,      \* per pod its state, and the generation its spec refers to
  \* what the scripts have put into it
  ca,        \* the generation of the UAA's CA that CF was given
  tls,       \* the certificate and the key of each namespace's ingress
  \* the developer's shell
  target, step,
  value,     \* what the script's variable holds, a CA or a certificate, until
             \* it is used
  made,      \* targets made so far; a generation is named for its target
  clean,     \* history: has no call failed since the target began?
  faults

release == <<named, objects>>
cluster == <<ns, release, secrets, pods>>
outcome == <<ca, tls>>
call == <<clean, faults>>
vars == <<cluster, outcome, target, step, value, made, call>>

Ended == {"done", "failed"}
Step ==
  {"uaaRun", "uaaInstall", "uaaUpgrade", "uaaStop", "waitUaa", "waitCf",
   "hasRelease", "helmDelete", "hasNamespace", "deleteNamespace",
   "waitGone", "createNamespace", "waitCa", "readCa", "install", "upgrade",
   "jobUaa", "certUaa", "keyUaa", "jobCf", "certCf", "keyCf"} \cup Ended

TypeOK ==
  /\ ns \in [Namespace -> {"none", "active", "terminating"}]
  /\ named \in [Namespace -> BOOLEAN]
  /\ objects \in [Namespace -> Generation]
  /\ secrets \in [Namespace -> SUBSET Generation]
  /\ pods \in [Namespace -> [Pod ->
       [state : {"absent", "starting", "ready", "terminating"},
        gen : Generation]]]
  /\ ca \in Generation
  /\ tls \in [Namespace -> [cert : Generation, key : Generation]]
  /\ target \in Target /\ step \in Step /\ value \in Generation
  /\ made \in 0 .. MaxTargets
  /\ clean \in BOOLEAN /\ faults \in 0 .. MaxFaults

NoPod == [state |-> "absent", gen |-> None]

Init ==
  /\ ns = [n \in Namespace |-> "none"]
  /\ named = [n \in Namespace |-> FALSE]
  /\ objects = [n \in Namespace |-> None]
  /\ secrets = [n \in Namespace |-> {}]
  /\ pods = [n \in Namespace |-> [p \in Pod |-> NoPod]]
  /\ ca = None
  /\ tls = [n \in Namespace |-> [cert |-> None, key |-> None]]
  /\ target = "stop" /\ step = "done" /\ value = None /\ made = 0
  /\ clean = TRUE /\ faults = 0

-----------------------------------------------------------------------------
(* Calls.                                                                  *)

At(label) == step = label
Goto(label) == step' = label /\ UNCHANGED <<target, made>>

CallOk == UNCHANGED call
CallFails ==
  /\ faults < MaxFaults
  /\ faults' = faults + 1 /\ clean' = FALSE

\* A call under "if" or "while": when it fails the answer is no.
Answer(truth, yes) ==
  \/ yes = truth /\ CallOk
  \/ ~yes /\ CallFails

\* A command that needs "possible".  Otherwise, or when it fails, errexit
\* ends the script.
Command(possible, effect, same, next) ==
  \/ CallOk /\ possible /\ effect /\ Goto(next)
  \/ CallOk /\ ~possible /\ same /\ Goto("failed")
  \/ CallFails /\ ((possible /\ effect) \/ same) /\ Goto("failed")

Visible(n) == {p \in Pod : pods[n][p].state # "absent"}
NoPods(n) == Visible(n) = {}

\* get_secret: the first pod that kubectl lists names the secret.  With no
\* pod it fails; with no such secret the output is empty, and base64, the last
\* of the pipe, succeeds.  Its calls are one step here.
GetSecret(n, v, ok) ==
  \/ /\ CallOk /\ NoPods(n)
     /\ v = None /\ ~ok
  \/ /\ CallOk /\ ~NoPods(n)
     /\ LET g == pods[n][Min(Visible(n))].gen IN
          v = IF g \in secrets[n] THEN g ELSE None
     /\ ok
  \/ /\ CallFails
     /\ v = None /\ ok \in BOOLEAN

-----------------------------------------------------------------------------
(* What helm and kubectl do to the cluster.                                *)

\* Variant: the generation counter is advanced before it is used.
InstallNext(n) ==
  /\ named' = [named EXCEPT ![n] = TRUE]
  /\ objects' = [objects EXCEPT ![n] = made + 1]
  /\ ns' = [ns EXCEPT ![n] = "active"]
  /\ UNCHANGED <<secrets, pods>>

Install(n) ==
  /\ named' = [named EXCEPT ![n] = TRUE]
  /\ objects' = [objects EXCEPT ![n] = made]
  /\ ns' = [ns EXCEPT ![n] = "active"]
  /\ UNCHANGED <<secrets, pods>>

\* helm upgrade --recreate-pods, with or without a new generation of secrets.
HelmUpgrade(n) ==
  /\ \E g \in {made, objects[n]} \ {None} : objects' = [objects EXCEPT ![n] = g]
  /\ pods' = [pods EXCEPT ![n] = [p \in Pod |->
       IF p \in Visible(n) THEN [pods[n][p] EXCEPT !.state = "terminating"]
                           ELSE pods[n][p]]]
  /\ UNCHANGED <<ns, named, secrets>>

\* Variant: "helm delete" without "--purge".
DeleteUnpurged(n) ==
  /\ objects' = [objects EXCEPT ![n] = None]
  /\ UNCHANGED <<ns, named, secrets, pods>>

\* helm delete --purge: the pods are left to the garbage collector.
DeleteRelease(n) ==
  /\ named' = [named EXCEPT ![n] = FALSE]
  /\ objects' = [objects EXCEPT ![n] = None]
  /\ UNCHANGED <<ns, secrets, pods>>

DeleteNamespace(n) ==
  /\ ns' = [ns EXCEPT ![n] = "terminating"]
  /\ objects' = [objects EXCEPT ![n] = None]
  /\ UNCHANGED <<named, secrets, pods>>

\* The submodule's stop: release and namespace.
Remove(n) ==
  /\ named' = [named EXCEPT ![n] = FALSE]
  /\ objects' = [objects EXCEPT ![n] = None]
  /\ ns' = [ns EXCEPT ![n] = IF @ = "none" THEN @ ELSE "terminating"]
  /\ UNCHANGED <<secrets, pods>>

-----------------------------------------------------------------------------
(* The targets.                                                            *)

First(t) == CASE t = "run" -> "uaaRun" [] t = "upgrade" -> "uaaUpgrade"
              [] OTHER -> "hasRelease"

Begin(t) ==
  /\ step \in Ended /\ made < MaxTargets
  /\ target' = t /\ step' = First(t) /\ made' = made + 1
  /\ clean' = TRUE /\ value' = None
  /\ UNCHANGED <<cluster, outcome, faults>>

\* make/uaa/run, in the submodule.
UaaRun ==
  /\ At("uaaRun")
  /\ Command(TRUE, Remove("uaa"), UNCHANGED cluster, "uaaInstall")
  /\ UNCHANGED <<outcome, value>>

UaaInstall ==
  /\ At("uaaInstall") /\ ns["uaa"] = "none"
  /\ Command(TRUE, Install("uaa"), UNCHANGED cluster, "waitUaa")
  /\ UNCHANGED <<outcome, value>>

\* make/uaa/upgrade
UaaUpgrade ==
  /\ At("uaaUpgrade")
  /\ Command(named["uaa"] /\ ns["uaa"] = "active", HelmUpgrade("uaa"),
             UNCHANGED cluster, "waitUaa")
  /\ UNCHANGED <<outcome, value>>

\* make/uaa/stop
UaaStop ==
  /\ At("uaaStop")
  /\ Command(TRUE, Remove("uaa"), UNCHANGED cluster, "waitCf")
  /\ UNCHANGED <<outcome, value>>

\* Variant: a pod that terminates counts as ready.
WaitNotStarting(n, label, next) ==
  /\ At(label)
  /\ \/ CallOk /\ \A p \in Visible(n) : pods[n][p].state # "starting"
     \/ CallFails
  /\ Goto(next)
  /\ UNCHANGED <<cluster, outcome, value>>

\* make/wait: no line of the list is of a pod that is not running; with no
\* pod, or with no list, that is so.
Wait(n, label, next) ==
  /\ At(label)
  /\ \/ CallOk /\ \A p \in Visible(n) : pods[n][p].state = "ready"
     \/ CallFails
  /\ Goto(next)
  /\ UNCHANGED <<cluster, outcome, value>>

WaitUaa ==
  Wait("uaa", "waitUaa", CASE target = "run" -> "hasRelease"
                           [] target = "upgrade" -> "readCa"
                           [] OTHER -> "done")
WaitCf == Wait("cf", "waitCf", "waitUaa")

\* make/stop, which make/run begins with, too.
AfterStop == IF target = "run" THEN "waitGone" ELSE "uaaStop"

HasRelease ==
  /\ At("hasRelease")
  /\ \E yes \in BOOLEAN :
       /\ Answer(named["cf"], yes)
       /\ Goto(IF yes THEN "helmDelete" ELSE "hasNamespace")
  /\ UNCHANGED <<cluster, outcome, value>>

HelmDelete ==
  /\ At("helmDelete")
  /\ Command(TRUE, DeleteRelease("cf"), UNCHANGED cluster, "hasNamespace")
  /\ UNCHANGED <<outcome, value>>

\* Variant: the release is deleted and the namespace is not.
KeepNamespace ==
  /\ At("hasNamespace")
  /\ CallOk /\ Goto(AfterStop)
  /\ UNCHANGED <<cluster, outcome, value>>

HasNamespace ==
  /\ At("hasNamespace")
  /\ \E yes \in BOOLEAN :
       /\ Answer(ns["cf"] # "none", yes)
       /\ Goto(IF yes THEN "deleteNamespace" ELSE AfterStop)
  /\ UNCHANGED <<cluster, outcome, value>>

\* A namespace that is terminating already may be refused.
RemoveNamespace ==
  /\ At("deleteNamespace")
  /\ \/ Command(ns["cf"] # "none", DeleteNamespace("cf"), UNCHANGED cluster,
                AfterStop)
     \/ /\ CallOk /\ ns["cf"] = "terminating"
        /\ Goto("failed") /\ UNCHANGED cluster
  /\ UNCHANGED <<outcome, value>>

\* make/run
WaitGone ==
  /\ At("waitGone")
  /\ Answer(ns["cf"] # "none", FALSE)
  /\ Goto("createNamespace")
  /\ UNCHANGED <<cluster, outcome, value>>

\* Variant: "kubectl create namespace || true".
CreateUnlessThere ==
  /\ At("createNamespace")
  /\ CallOk /\ Goto("waitCa")
  /\ ns' = [ns EXCEPT !["cf"] = IF @ = "none" THEN "active" ELSE @]
  /\ UNCHANGED <<release, secrets, pods, outcome, value>>

CreateNamespace ==
  /\ At("createNamespace")
  /\ Command(ns["cf"] = "none", ns' = [ns EXCEPT !["cf"] = "active"],
             UNCHANGED ns, "waitCa")
  /\ UNCHANGED <<release, secrets, pods, outcome, value>>

\* Variant: no loop, as in make/upgrade.
DoNotWaitForCa ==
  /\ At("waitCa") /\ CallOk
  /\ Goto("readCa")
  /\ UNCHANGED <<cluster, outcome, value>>

\* until has_internal_ca
WaitCa ==
  /\ At("waitCa")
  /\ \E v \in Generation, ok \in BOOLEAN : GetSecret("uaa", v, ok) /\ v # None
  /\ Goto("readCa")
  /\ UNCHANGED <<cluster, outcome, value>>

\* CA_CERT="$(get_secret ...)", also of make/upgrade
ReadCa ==
  /\ At("readCa")
  /\ \E v \in Generation, ok \in BOOLEAN :
       /\ GetSecret("uaa", v, ok)
       /\ value' = IF ok THEN v ELSE value
       /\ Goto(IF ~ok THEN "failed"
               ELSE IF target = "run" THEN "install" ELSE "upgrade")
  /\ UNCHANGED <<cluster, outcome>>

HelmInstall ==
  /\ At("install")
  /\ Command(~named["cf"] /\ ns["cf"] = "active",
             Install("cf") /\ ca' = value, UNCHANGED <<cluster, ca>>, "jobUaa")
  /\ value' = None /\ UNCHANGED tls

\* make/upgrade
Upgrade ==
  /\ At("upgrade")
  /\ Command(named["cf"] /\ ns["cf"] = "active",
             HelmUpgrade("cf") /\ ca' = value, UNCHANGED <<cluster, ca>>,
             "jobUaa")
  /\ value' = None /\ UNCHANGED tls

\* make/ingress/update_secrets: wait_for_job, ...
WaitForJob(n, label, next) ==
  /\ At(label) /\ CallOk
  /\ objects[n] # None /\ objects[n] \in secrets[n]
  /\ Goto(next)
  /\ UNCHANGED <<cluster, outcome, value>>

\* ... get_secret | base64 for the certificate, whose failure is lost ...
ReadCert(n, label, next) ==
  /\ At(label)
  /\ \E v \in Generation, ok \in BOOLEAN : GetSecret(n, v, ok) /\ value' = v
  /\ Goto(next)
  /\ UNCHANGED <<cluster, outcome>>

\* ... and for the key, and kubectl apply.
ApplyTls(n, label, next) ==
  /\ At(label)
  /\ \/ /\ \E v \in Generation, ok \in BOOLEAN :
             /\ GetSecret(n, v, ok)
             /\ tls' = [tls EXCEPT ![n] = [cert |-> value, key |-> v]]
        /\ Goto(next)
     \/ CallFails /\ UNCHANGED tls /\ Goto("failed")
  /\ value' = None /\ UNCHANGED <<cluster, ca>>

UpdateSecrets ==
  \/ WaitForJob("uaa", "jobUaa", "certUaa")
  \/ ReadCert("uaa", "certUaa", "keyUaa") \/ ApplyTls("uaa", "keyUaa", "jobCf")
  \/ WaitForJob("cf", "jobCf", "certCf")
  \/ ReadCert("cf", "certCf", "keyCf") \/ ApplyTls("cf", "keyCf", "done")

Script ==
  \/ UaaRun \/ UaaInstall \/ UaaUpgrade \/ UaaStop \/ WaitUaa \/ WaitCf
  \/ HasRelease \/ HelmDelete \/ HasNamespace \/ RemoveNamespace
  \/ WaitGone \/ CreateNamespace \/ WaitCa \/ ReadCa \/ HelmInstall \/ Upgrade
  \/ UpdateSecrets

-----------------------------------------------------------------------------
(* The cluster.                                                            *)

script == <<outcome, target, step, value, made, call>>

\* The secret-generation job of the present generation ends well.
JobDone(n) ==
  /\ ns[n] = "active" /\ objects[n] \notin secrets[n] \cup {None}
  /\ secrets' = [secrets EXCEPT ![n] = @ \cup {objects[n]}]
  /\ UNCHANGED <<ns, release, pods, script>>

PodBecomes(n, p, pod) ==
  /\ pods' = [pods EXCEPT ![n][p] = pod]
  /\ UNCHANGED <<ns, release, secrets, script>>

PodStart(n, p) ==
  /\ ns[n] = "active" /\ objects[n] # None /\ pods[n][p].state = "absent"
  /\ PodBecomes(n, p, [state |-> "starting", gen |-> objects[n]])

\* A pod waits for the secret it refers to.
PodReady(n, p) ==
  /\ pods[n][p].state = "starting" /\ pods[n][p].gen \in secrets[n]
  /\ PodBecomes(n, p, [pods[n][p] EXCEPT !.state = "ready"])

PodCollected(n, p) ==
  /\ objects[n] = None /\ pods[n][p].state \in {"starting", "ready"}
  /\ PodBecomes(n, p, [pods[n][p] EXCEPT !.state = "terminating"])

PodGone(n, p) ==
  /\ pods[n][p].state = "terminating"
  /\ PodBecomes(n, p, NoPod)

NamespaceGone(n) ==
  /\ ns[n] = "terminating" /\ NoPods(n)
  /\ ns' = [ns EXCEPT ![n] = "none"]
  /\ secrets' = [secrets EXCEPT ![n] = {}]
  /\ tls' = [tls EXCEPT ![n] = [cert |-> None, key |-> None]]
  /\ UNCHANGED <<release, pods, ca, target, step, value, made, call>>

Kubernetes(n) ==
  \/ JobDone(n) \/ NamespaceGone(n)
  \/ \E p \in Pod : PodStart(n, p) \/ PodReady(n, p) \/ PodCollected(n, p)
                      \/ PodGone(n, p)

Next ==
  \/ Script \/ \E t \in Target : Begin(t)
  \/ \E n \in Namespace : Kubernetes(n)

\* A script goes on unless it waits, by calls that do not fail; the cluster
\* does one after the other what it has to.  Nobody has to begin a target.
Fairness ==
  WF_vars(Script /\ CallOk) /\ \A n \in Namespace : WF_vars(Kubernetes(n))

Spec == Init /\ [][Next]_vars
FairSpec == Spec /\ Fairness

-----------------------------------------------------------------------------
(* Properties.                                                             *)

\* Once "make run" has installed CF, and no call of it failed, CF trusts the CA
\* of the UAA it runs with: not an empty one, not one of a former UAA.  In the
\* code: the loop before CA_CERT is read, from whatever pod is listed first.
TrustsUaa ==
  target = "run" /\ clean
    /\ step \in {"jobUaa", "certUaa", "keyUaa", "jobCf", "certCf", "keyCf",
                 "done"}
      => ca # None /\ ca = objects["uaa"]

\* After "make upgrade" without failing calls CF trusts the CA of the UAA it
\* runs with, or none at all (nothing waits for the new secret), but never the
\* CA of a former UAA, though that UAA's pods and its secret may still be there.
\* In the code: make/wait, which make/uaa/upgrade ends with, before CA_CERT is
\* read from whatever pod is listed first.
NoFormerCa ==
  target = "upgrade" /\ clean
    /\ step \in {"jobUaa", "certUaa", "keyUaa", "jobCf", "certCf", "keyCf",
                 "done"}
      => ca \in {None, objects["uaa"]}

\* The ingress of the UAA has the certificate and the key that the UAA has, after
\* an upgrade that rotates them, too, if no call failed.  In the code: the two
\* are read one after the other, from whatever pod is listed first, but behind
\* the waits for pods and job.  (For CF nothing waits for the former pods.)
IngressOfUaa ==
  clean /\ (step \in {"jobCf", "certCf", "keyCf"}
              \/ (At("done") /\ target # "stop"))
    => /\ objects["uaa"] # None
       /\ tls["uaa"] = [cert |-> objects["uaa"], key |-> objects["uaa"]]

\* CF is only ever installed where nothing of a former one is left, whichever
\* calls failed.  In the README: "make stop; make run" is how to "clear all
\* data and begin anew".
FreshInstall ==
  [][objects["cf"] = None /\ objects'["cf"] # None
       => NoPods("cf") /\ secrets["cf"] = {}]_vars

\* A target ends, well or not, unless one of its calls failed: its loops wait
\* for what its own commands and the cluster bring about.
EveryTargetEnds ==
  step \notin Ended /\ clean ~> step \in Ended \/ ~clean

\* After a "make stop" without failing calls nothing of SCF stays, though it
\* does not wait for that, unless another target is made.
StopTakesDown ==
  (target = "stop" /\ At("done") /\ clean)
    ~> \/ \A n \in Namespace : ns[n] = "none" /\ ~named[n] /\ NoPods(n)
       \/ ~At("done")
=============================================================================
