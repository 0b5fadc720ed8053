------------------------------ MODULE BrainTest ------------------------------
(***************************************************************************)
(* The machinery under the acceptance tests (testutils.rb): a test is a    *)
(* Ruby script that creates things in the deployment under test, one       *)
(* command after the other, and registers with at_exit what takes them     *)
(* down again.  A failing command raises unless errexit is off, a timeout  *)
(* is raised in the main thread wherever that is, and the runner kills the *)
(* test for good some time later.                                          *)
(*                                                                         *)
(* A script is data here: the sequence of its steps.  The tests' own       *)
(* scripts are in module BrainScripts.                                     *)
(***************************************************************************)
EXTENDS Naturals, Sequences

CONSTANTS
  Test,       \* the tests
  Handler,    \* the blocks given to at_exit
  Resource,   \* what tests create in the deployment
  Exclusive,  \* resources of which a second one is refused
  Needs,      \* per resource, those it cannot exist without
  Script,     \* per test, the steps of its body
  Cleaning,   \* per handler, the steps of the block
  Thrown,     \* tests whose timeout is a throw out of Timeout::timeout
  Before,     \* resources that former tests may have left
  MaxTries,   \* most tries of a run_with_retry (12 to 120 in the code)
  MaxFaults   \* bound: how many commands fail for a reason of their own

Op == {"arm", "disarm", "atExit", "quiet", "loud",
       "run", "wait", "delete", "deprovision"}

StepType ==
  [op : Op, on : SUBSET Resource, handler : Handler, tries : 1 .. MaxTries]

\* What the steps of a block delete.
Deletes(steps) ==
  UNION {steps[i].on : i \in {j \in DOMAIN steps :
                                steps[j].op \in {"delete", "deprovision"}}}

\* Every step that creates something comes after the at_exit that takes it
\* down again, a timeout is the first step, and the blocks of at_exit only
\* delete.
ASSUME ScriptsAssumption ==
  /\ Thrown \subseteq Test /\ Before \subseteq Resource
  /\ Needs \in [Resource -> SUBSET Resource]
  /\ MaxTries \in Nat \ {0} /\ MaxFaults \in Nat
  /\ Script \in [Test -> Seq(StepType)]
  /\ Cleaning \in [Handler -> Seq(StepType)]
  /\ \A t \in Test : \A i \in DOMAIN Script[t] :
       Script[t][i].op = "run" =>
         \A r \in Script[t][i].on : \E j \in 1 .. i - 1 :
           /\ Script[t][j].op = "atExit"
           /\ r \in Deletes(Cleaning[Script[t][j].handler])
  /\ \A t \in Test : \A i \in DOMAIN Script[t] :
       /\ Script[t][i].op = "arm" => i = 1
       /\ Script[t][i].op # "disarm"
  /\ \A h \in Handler : \A i \in DOMAIN Cleaning[h] :
       Cleaning[h][i].op \in {"disarm", "quiet", "loud", "delete",
                              "deprovision"}

\* Are the first n steps of a body in the midst of a "set" block?
Quieted(t, n) ==
  \E i \in 1 .. n : /\ Script[t][i].op = "quiet"
                    /\ \A j \in i + 1 .. n : Script[t][j].op # "loud"

\* What the first n steps of a body create.
Created(t, n) ==
  UNION {Script[t][i].on : i \in {j \in 1 .. n : Script[t][j].op = "run"}}

\* Can what is in gone be deleted while what is in kept is there?
Allows(gone, kept) == \A r \in kept : Needs[r] \cap gone = {}

\* A body creates things with errexit set, each after what it needs; what it
\* deletes is none of them, and nothing needs it.
ASSUME BodiesAssumption ==
  \A t \in Test : \A i \in DOMAIN Script[t] :
    /\ Script[t][i].op \in {"run", "quiet"} => ~Quieted(t, i - 1)
    /\ Script[t][i].op = "run" =>
         \A r \in Script[t][i].on : Needs[r] \subseteq Created(t, i)
    /\ Script[t][i].op # "run" =>
         /\ Script[t][i].on \cap Created(t, i) = {}
         /\ Allows(Script[t][i].on, Resource)

\* A block of at_exit deletes things before what they need, and a block that
\* is registered later, so that it runs earlier, nothing that is needed by
\* what one registered before it deletes.
ASSUME OrderAssumption ==
  /\ \A h \in Handler : \A i, j \in DOMAIN Cleaning[h] :
       /\ Cleaning[h][i].on \subseteq Deletes(Cleaning[h])
       /\ i <= j => Allows(Cleaning[h][i].on, Cleaning[h][j].on)
  /\ \A t \in Test : \A i, j \in DOMAIN Script[t] :
       i < j /\ Script[t][i].op = "atExit" /\ Script[t][j].op = "atExit" =>
         Allows(Deletes(Cleaning[Script[t][j].handler]),
                Deletes(Cleaning[Script[t][i].handler]))

VARIABLES
  test,       \* the test that runs
  phase,      \* "test", "exit" (the at_exit blocks), "over" or "killed"
  result,     \* how the body ended
  code,       \* the steps that the present block has left
  handlers,   \* the registered blocks, the last one first
  errexit,    \* $opts[:errexit]
  saved,      \* old_opts[:errexit] of the present "set" block
  tries,      \* failed tries of the present run_with_retry
  left,       \* what exists in the deployment
  adrift,     \* what commands still create that nobody waits for any more
  missed,     \* history: what a clean-up could not remove or never reached
  armed,      \* will the timeout be raised?
  late,       \* is the runner's timeout at most a minute away?
  swallowed,  \* history: was the timeout taken for a failed try?
  faults

control == <<phase, result, code, handlers, tries>>
options == <<errexit, saved>>
deployment == <<left, adrift, missed, faults>>
clock == <<armed, late, swallowed>>
vars == <<test, control, options, deployment, clock>>

TypeOK ==
  /\ test \in Test
  /\ phase \in {"test", "exit", "over", "killed"}
  /\ result \in {"none", "passed", "failed"}
  /\ code \in Seq(StepType)
  /\ handlers \in Seq(Handler)
  /\ errexit \in BOOLEAN /\ saved \in BOOLEAN
  /\ tries \in 0 .. MaxTries - 1
  /\ left \in SUBSET Resource /\ adrift \in SUBSET Resource
  /\ missed \in SUBSET Resource
  /\ armed \in BOOLEAN /\ late \in BOOLEAN /\ swallowed \in BOOLEAN
  /\ faults \in 0 .. MaxFaults

Init ==
  /\ test \in Test
  /\ phase = "test" /\ result = "none"
  /\ code = Script[test] /\ handlers = <<>> /\ tries = 0
  /\ errexit = TRUE /\ saved = TRUE
  /\ left \in SUBSET Before /\ missed = left /\ adrift = {}
  /\ armed = FALSE /\ late = FALSE /\ swallowed = FALSE
  /\ faults = 0

-----------------------------------------------------------------------------
(* Control flow of the script.                                             *)

Running == phase \in {"test", "exit"}

\* The present step is an op.
At(op) == Running /\ code # <<>> /\ Head(code).op = op

Continue ==
  /\ code' = Tail(code) /\ tries' = 0
  /\ UNCHANGED <<phase, result, handlers>>

\* Variant: the first exception ends the clean-up.
AbandonAll ==
  /\ phase' = "exit"
  /\ result' = IF phase = "test" THEN "failed" ELSE result
  /\ code' = <<>> /\ tries' = 0
  /\ handlers' = IF phase = "exit" THEN <<>> ELSE handlers

\* An exception ends the present block; Ruby goes on with the at_exit
\* blocks that are left.
Abandon ==
  /\ phase' = "exit"
  /\ result' = IF phase = "test" THEN "failed" ELSE result
  /\ code' = <<>> /\ tries' = 0
  /\ UNCHANGED handlers

\* What a clean-up does not reach when its block ends here.
Unreached == IF phase = "exit" THEN Deletes(code) ELSE {}

\* Leaving the block of Timeout::timeout calls its timeout off.
Raise ==
  /\ Abandon
  /\ missed' = missed \cup Unreached
  /\ armed' = (armed /\ test \notin Thrown)

\* A command fails for a reason of its own.
Fault == faults < MaxFaults /\ faults' = faults + 1

BodyEnds ==
  /\ phase = "test" /\ code = <<>>
  /\ phase' = "exit" /\ result' = "passed"
  /\ armed' = (armed /\ test \notin Thrown)
  /\ UNCHANGED <<test, code, handlers, tries, options, deployment, late,
                 swallowed>>

\* Variant: the block that was registered first is run first.
NextHandlerFifo ==
  /\ phase = "exit" /\ code = <<>> /\ handlers # <<>>
  /\ code' = Cleaning[handlers[Len(handlers)]]
  /\ handlers' = SubSeq(handlers, 1, Len(handlers) - 1)
  /\ UNCHANGED <<test, phase, result, tries, options, deployment, clock>>

\* Ruby runs the blocks of at_exit, the last one first.
NextHandler ==
  /\ phase = "exit" /\ code = <<>> /\ handlers # <<>>
  /\ code' = Cleaning[Head(handlers)]
  /\ handlers' = Tail(handlers)
  /\ UNCHANGED <<test, phase, result, tries, options, deployment, clock>>

Exit ==
  /\ phase = "exit" /\ code = <<>> /\ handlers = <<>>
  /\ phase' = "over"
  /\ UNCHANGED <<test, result, code, handlers, tries, options, deployment,
                 clock>>

-----------------------------------------------------------------------------
(* Steps that leave the deployment alone.                                  *)

\* use_global_timeout starts its thread, or Timeout::timeout begins.
Arm ==
  /\ At("arm") /\ Continue
  /\ armed' = TRUE
  /\ UNCHANGED <<test, options, deployment, late, swallowed>>

\* The at_exit block of use_global_timeout ends the thread.
Disarm ==
  /\ At("disarm") /\ Continue
  /\ armed' = FALSE
  /\ UNCHANGED <<test, options, deployment, late, swallowed>>

AtExit ==
  /\ At("atExit")
  /\ code' = Tail(code)
  /\ handlers' = <<Head(code).handler>> \o handlers
  /\ UNCHANGED <<test, phase, result, tries, options, deployment, clock>>

\* set errexit: false do ...
Quiet ==
  /\ At("quiet") /\ Continue
  /\ saved' = errexit /\ errexit' = FALSE
  /\ UNCHANGED <<test, deployment, clock>>

\* Variant: the options stay as they are after the block.
LoudForgotten ==
  /\ At("loud") /\ Continue
  /\ UNCHANGED <<test, options, deployment, clock>>

\* ... end.  An exception passes this by, there is no "ensure".
Loud ==
  /\ At("loud") /\ Continue
  /\ errexit' = saved
  /\ UNCHANGED <<test, saved, deployment, clock>>

\* wait_for_jobs, wait_for_namespace and wait_for_statefulset loop until
\* all is ready, which need not happen.  The first raises when its kubectl
\* fails.
Wait ==
  /\ At("wait")
  /\ \/ Continue /\ UNCHANGED <<missed, faults, armed>>
     \/ Fault /\ Raise
  /\ UNCHANGED <<test, options, left, adrift, late, swallowed>>

-----------------------------------------------------------------------------
(* Steps that change the deployment.                                       *)

\* A command that creates something can have created some of it when it
\* fails, though nothing before what it needs.
Partly(S) ==
  {made \in SUBSET S : \A r \in made : Needs[r] \cap S \subseteq made}

Refused == Head(code).on \cap Exclusive \cap left # {}

\* Variant: one try more than was asked for.
AgainOnceMore == tries < Head(code).tries

\* Has run_with_retry another try?
Again == tries + 1 < Head(code).tries

RunSucceeds ==
  /\ At("run") /\ ~Refused /\ Continue
  /\ left' = left \cup Head(code).on
  /\ UNCHANGED <<test, options, adrift, missed, faults, clock>>

\* The command fails: "run" raises if errexit is set, and run_with_retry
\* tries again for as long as it may.
RunFails ==
  /\ At("run")
  /\ \/ Refused /\ UNCHANGED <<left, faults>>
     \/ /\ ~Refused /\ Fault
        /\ \E made \in Partly(Head(code).on) : left' = left \cup made
  /\ \/ /\ errexit /\ Again
        /\ tries' = tries + 1
        /\ UNCHANGED <<phase, result, code, handlers, missed, armed>>
     \/ errexit /\ ~Again /\ Raise
     \/ ~errexit /\ Continue /\ UNCHANGED <<missed, armed>>
  /\ UNCHANGED <<test, options, adrift, late, swallowed>>

DeleteSucceeds ==
  /\ At("delete") \/ At("deprovision")
  /\ Continue
  /\ left' = left \ Head(code).on
  /\ UNCHANGED <<test, options, adrift, missed, faults, clock>>

\* A failed deletion counts as missed only in a clean-up.
DeleteFails ==
  /\ At("delete") \/ At("deprovision")
  /\ Fault
  /\ \/ errexit /\ Raise
     \/ /\ ~errexit /\ Continue
        /\ missed' = missed \cup
             (IF phase = "exit" THEN Head(code).on ELSE {})
        /\ UNCHANGED armed
  /\ UNCHANGED <<test, options, left, adrift, late, swallowed>>

\* "cf delete-service" is asynchronous, and parsing the answer of the
\* "cf curl" that polls it raises whatever errexit is.
PollFails ==
  /\ At("deprovision") /\ Fault /\ Raise
  /\ UNCHANGED <<test, options, left, adrift, late, swallowed>>

\* A command that nobody waits for any more has done its work after all.
\* What no clean-up will come by any more has been missed.
Pending ==
  Unreached \cup
    UNION {Deletes(Cleaning[handlers[i]]) : i \in DOMAIN handlers}

Lands ==
  /\ adrift # {}
  /\ left' = left \cup adrift /\ adrift' = {}
  /\ missed' = missed \cup (adrift \ Pending)
  /\ UNCHANGED <<test, control, options, faults, clock>>

-----------------------------------------------------------------------------
(* The timeout, a minute before the runner's.                              *)

MinuteLeft == Running /\ ~late /\ ~At("arm") /\ late' = TRUE

\* The timeout interrupts a command, which goes on as a process of its own.
Interrupted ==
  LET on == IF code = <<>> THEN {} ELSE Head(code).on IN
  \/ UNCHANGED <<left, adrift>>
  \/ At("run") /\ adrift' = adrift \cup on /\ UNCHANGED left
  \/ ~At("run") /\ left' = left \ on /\ UNCHANGED adrift

\* Timeout::Error is a RuntimeError, so run_with_retry rescues it.  The one
\* of Timeout::timeout is thrown, and passes.
Rescued == At("run") /\ Head(code).tries > 1 /\ test \notin Thrown

TimeoutSwallowed ==
  /\ armed /\ MinuteLeft
  /\ Rescued /\ Interrupted
  /\ armed' = FALSE /\ swallowed' = TRUE
  /\ \/ /\ Again /\ tries' = tries + 1
        /\ UNCHANGED <<phase, result, code, handlers>>
     \/ ~Again /\ Abandon
  /\ UNCHANGED <<test, options, missed, faults>>

\* Variant: the loops that wait for something rescue the timeout.
TimeoutRaisedUnlessWaiting ==
  /\ armed /\ MinuteLeft /\ ~At("wait")
  /\ ~Rescued \/ tries > 0
  /\ Interrupted /\ Abandon
  /\ missed' = missed \cup Unreached
  /\ armed' = FALSE
  /\ UNCHANGED <<test, options, faults, swallowed>>

\* Elsewhere the timeout is an exception like any other, in at_exit blocks
\* too.  It is not rescued in the pause between two tries.
TimeoutRaised ==
  /\ armed /\ MinuteLeft
  /\ ~Rescued \/ tries > 0
  /\ Interrupted /\ Abandon
  /\ missed' = missed \cup Unreached
  /\ armed' = FALSE
  /\ UNCHANGED <<test, options, faults, swallowed>>

\* Variant: the timeout comes no earlier than the runner's.
TimePassesAnyway ==
  /\ MinuteLeft
  /\ UNCHANGED <<test, control, options, deployment, armed, swallowed>>

\* There is no timeout, or none any more.
TimePasses ==
  /\ ~armed /\ MinuteLeft
  /\ UNCHANGED <<test, control, options, deployment, armed, swallowed>>

Kill ==
  /\ Running /\ late
  /\ phase' = "killed"
  /\ UNCHANGED <<test, result, code, handlers, tries, options, deployment,
                 clock>>

Step ==
  \/ BodyEnds \/ NextHandler \/ Exit
  \/ Arm \/ Disarm \/ AtExit \/ Quiet \/ Loud \/ Wait
  \/ RunSucceeds \/ RunFails \/ DeleteSucceeds \/ DeleteFails \/ PollFails

Timeout == TimeoutSwallowed \/ TimeoutRaised \/ TimePasses

Next == Step \/ Lands \/ Timeout \/ Kill

Spec == Init /\ [][Next]_vars

\* Commands come back, except in the loops that wait; time passes.
Fairness == WF_vars(Step /\ ~At("wait")) /\ WF_vars(Timeout)

FairSpec == Spec /\ Fairness

-----------------------------------------------------------------------------
(* Properties.                                                             *)

\* Once a test is over, all that is left of it is what a command failed to
\* delete, what the timeout or a failed poll kept a block from deleting, and
\* what came into being after it had been deleted: wherever the body failed,
\* each thing that it created is taken down (the at_exit blocks).
NothingLeft == phase = "over" => left \subseteq missed

\* The clean-up takes things down in an order that they allow: nothing
\* outlives what it needs, unless its own deletion failed (the order in
\* which the tests call at_exit).
DependentsFirst ==
  \A r \in left \ missed : Needs[r] \subseteq left

\* A test that passes has created all it wanted to: no failing command is
\* passed over because errexit was left off ("set" with a block).
PassedIsComplete ==
  [][result = "none" /\ result' = "passed" =>
       \A i \in DOMAIN Script[test] :
         Script[test][i].op = "run" => Script[test][i].on \subseteq left]_vars

\* A test with a timeout is not killed before its clean-up has begun, if no
\* run_with_retry took the timeout for a failed try (use_global_timeout).
Timed == \E i \in DOMAIN Script[test] : Script[test][i].op = "arm"

KilledInCleanUpOnly ==
  phase = "killed" /\ Timed /\ ~swallowed => result # "none"

\* What the comment of use_global_timeout promises: the timeout comes in
\* time for the clean-up.
CleanUpBeforeKill ==
  phase = "killed" /\ Timed => result # "none"

\* A test with a timeout gets to its clean-up even if what it waits for
\* never happens, if no run_with_retry took the timeout for a failed try.
CleanUpBegins == Timed => <>(phase # "test" \/ swallowed)
=============================================================================
