---------------------------- MODULE BrainTestProofs ----------------------------
(***************************************************************************)
(* Proofs about the acceptance tests' machinery, for every set of scripts  *)
(* that meets the assumptions of BrainTest: types, that clean-ups leave    *)
(* nothing that they could have removed, that a timed test is not killed   *)
(* before its clean-up, that a test passes with all it wanted in place,    *)
(* and that nothing outlives what it needs.                                *)
(***************************************************************************)
EXTENDS BrainTest, TLAPS

-----------------------------------------------------------------------------
(* Types.                                                                  *)

LEMMA StepFacts ==
  ASSUME ScriptsAssumption, NEW step \in StepType
  PROVE  /\ step.on \in SUBSET Resource /\ step.handler \in Handler
         /\ step.tries \in 1 .. MaxTries
BY DEF StepType

\* How the present block goes on, or ends, keeps the control state typed.
LEMMA ContinueType ==
  ASSUME TypeOK, ScriptsAssumption, code # <<>>, Continue
  PROVE  /\ phase' = phase /\ result' = result /\ handlers' = handlers
         /\ code' \in Seq(StepType) /\ tries' \in 0 .. MaxTries - 1
BY DEF TypeOK, ScriptsAssumption, Continue

LEMMA AbandonType ==
  ASSUME TypeOK, ScriptsAssumption, Abandon
  PROVE  /\ phase' = "exit" /\ result' \in {"none", "passed", "failed"}
         /\ handlers' = handlers
         /\ code' \in Seq(StepType) /\ tries' \in 0 .. MaxTries - 1
BY DEF TypeOK, ScriptsAssumption, Abandon

LEMMA UnreachedType ==
  ASSUME TypeOK
  PROVE  Unreached \in SUBSET Resource
<1>1. \A i \in DOMAIN code : code[i].on \in SUBSET Resource
  <2> TAKE i \in DOMAIN code
  <2>1. code[i] \in StepType
    BY DEF TypeOK
  <2> QED BY <2>1 DEF StepType
<1>2. \A r \in Deletes(code) : r \in Resource
  BY <1>1 DEF Deletes
<1> QED BY <1>2 DEF Unreached

LEMMA RaiseType ==
  ASSUME TypeOK, ScriptsAssumption, Raise
  PROVE  /\ phase' = "exit" /\ result' \in {"none", "passed", "failed"}
         /\ handlers' = handlers
         /\ code' \in Seq(StepType) /\ tries' \in 0 .. MaxTries - 1
         /\ missed' \in SUBSET Resource
         /\ armed' \in BOOLEAN
<1>1. Abandon /\ missed' = missed \cup Unreached
  BY DEF Raise
<1>2. missed' \in SUBSET Resource
  BY <1>1, UnreachedType DEF TypeOK
<1>3. armed' \in BOOLEAN
  BY Zenon DEF Raise
<1> QED BY <1>1, <1>2, <1>3, AbandonType

LEMMA FaultType ==
  ASSUME TypeOK, ScriptsAssumption, Fault
  PROVE  faults' \in 0 .. MaxFaults
BY DEF TypeOK, ScriptsAssumption, Fault

\* The present step.
LEMMA HeadType ==
  ASSUME TypeOK, ScriptsAssumption, code # <<>>
  PROVE  Head(code) \in StepType /\ Head(code) = code[1] /\ 1 \in DOMAIN code
BY DEF TypeOK

LEMMA ScriptType ==
  ASSUME TypeOK, ScriptsAssumption,
         BodyEnds \/ NextHandler \/ Exit \/ AtExit \/ Kill
  PROVE  TypeOK'
<1>1. CASE BodyEnds
  <2>1. armed' \in BOOLEAN
    BY <1>1, Zenon DEF BodyEnds
  <2> QED BY <1>1, <2>1 DEF BodyEnds, TypeOK, options, deployment
<1>2. CASE NextHandler
  <2>1. Head(handlers) \in Handler /\ Tail(handlers) \in Seq(Handler)
    BY <1>2 DEF NextHandler, TypeOK
  <2>2. code' \in Seq(StepType) /\ handlers' \in Seq(Handler)
    BY <1>2, <2>1 DEF NextHandler, ScriptsAssumption
  <2> QED BY <1>2, <2>2 DEF NextHandler, TypeOK, options, deployment, clock
<1>3. CASE Exit
  BY <1>3 DEF Exit, TypeOK, options, deployment, clock
<1>4. CASE AtExit
  <2>1. code # <<>>
    BY <1>4 DEF AtExit, At
  <2>2. Head(code).handler \in Handler
    BY <2>1, HeadType, StepFacts
  <2>3. code' \in Seq(StepType) /\ handlers' \in Seq(Handler)
    BY <1>4, <2>1, <2>2 DEF AtExit, TypeOK
  <2> QED BY <1>4, <2>3 DEF AtExit, TypeOK, options, deployment, clock
<1>5. CASE Kill
  BY <1>5 DEF Kill, TypeOK, options, deployment, clock
<1> QED BY <1>1, <1>2, <1>3, <1>4, <1>5

LEMMA QuietType ==
  ASSUME TypeOK, ScriptsAssumption,
         Arm \/ Disarm \/ Quiet \/ Loud \/ Wait
  PROVE  TypeOK'
<1>0. code # <<>>
  BY DEF Arm, Disarm, Quiet, Loud, Wait, At
<1>1. CASE Arm \/ Disarm
  BY <1>0, <1>1, ContinueType DEF Arm, Disarm, TypeOK, options, deployment
<1>2. CASE Quiet
  BY <1>0, <1>2, ContinueType DEF Quiet, TypeOK, deployment, clock
<1>3. CASE Loud
  BY <1>0, <1>3, ContinueType DEF Loud, TypeOK, deployment, clock
<1>4. CASE Wait
  <2>1. CASE Continue /\ UNCHANGED <<missed, faults, armed>>
    BY <1>0, <1>4, <2>1, ContinueType DEF Wait, TypeOK, options
  <2>2. CASE Fault /\ Raise
    BY <1>4, <2>2, RaiseType, FaultType DEF Wait, TypeOK, options
  <2> QED BY <1>4, <2>1, <2>2 DEF Wait
<1> QED BY <1>1, <1>2, <1>3, <1>4

LEMMA RunType ==
  ASSUME TypeOK, ScriptsAssumption, RunSucceeds \/ RunFails
  PROVE  TypeOK'
<1>0. code # <<>> /\ Head(code).on \in SUBSET Resource
      /\ Head(code).tries \in 1 .. MaxTries
  BY HeadType, StepFacts DEF RunSucceeds, RunFails, At
<1>1. CASE RunSucceeds
  <2>1. left' \in SUBSET Resource
    BY <1>0, <1>1 DEF RunSucceeds, TypeOK
  <2> QED BY <1>0, <1>1, <2>1, ContinueType
          DEF RunSucceeds, TypeOK, options, clock
<1>2. CASE RunFails
  <2>1. left' \in SUBSET Resource /\ faults' \in 0 .. MaxFaults
    <3>1. CASE UNCHANGED <<left, faults>>
      BY <3>1 DEF TypeOK
    <3>2. CASE /\ Fault
               /\ \E made \in Partly(Head(code).on) : left' = left \cup made
      BY <1>0, <3>2, FaultType DEF TypeOK, Partly
    <3> QED BY <1>2, <3>1, <3>2 DEF RunFails
  <2>2. CASE Again /\ tries' = tries + 1
             /\ UNCHANGED <<phase, result, code, handlers, missed, armed>>
    <3>1. tries' \in 0 .. MaxTries - 1
      BY <1>0, <2>2 DEF Again, TypeOK, ScriptsAssumption
    <3> QED BY <1>2, <2>1, <2>2, <3>1 DEF RunFails, TypeOK, options
  <2>3. CASE Raise
    BY <1>2, <2>1, <2>3, RaiseType DEF RunFails, TypeOK, options
  <2>4. CASE Continue /\ UNCHANGED <<missed, armed>>
    BY <1>0, <1>2, <2>1, <2>4, ContinueType DEF RunFails, TypeOK, options
  <2> QED BY <1>2, <2>2, <2>3, <2>4 DEF RunFails
<1> QED BY <1>1, <1>2

LEMMA DeleteType ==
  ASSUME TypeOK, ScriptsAssumption, DeleteSucceeds \/ DeleteFails \/ PollFails
  PROVE  TypeOK'
<1>0. code # <<>> /\ Head(code).on \in SUBSET Resource
  BY HeadType, StepFacts DEF DeleteSucceeds, DeleteFails, PollFails, At
<1>1. CASE DeleteSucceeds
  <2>1. left' \in SUBSET Resource
    BY <1>1 DEF DeleteSucceeds, TypeOK
  <2> QED BY <1>0, <1>1, <2>1, ContinueType
          DEF DeleteSucceeds, TypeOK, options, clock
<1>2. CASE DeleteFails
  <2>1. faults' \in 0 .. MaxFaults
    BY <1>2, FaultType DEF DeleteFails
  <2>2. CASE Raise
    BY <1>2, <2>1, <2>2, RaiseType DEF DeleteFails, TypeOK, options
  <2>3. CASE ~Raise
    <3>1. Continue /\ missed' \in SUBSET Resource /\ armed' = armed
      BY <1>0, <1>2, <2>3 DEF DeleteFails, TypeOK
    <3> QED BY <1>0, <1>2, <2>1, <3>1, ContinueType
            DEF DeleteFails, TypeOK, options
  <2> QED BY <2>2, <2>3
<1>3. CASE PollFails
  BY <1>3, FaultType, RaiseType DEF PollFails, TypeOK, options
<1> QED BY <1>1, <1>2, <1>3

\* What a timeout interrupts, or not.
LEMMA InterruptedType ==
  ASSUME TypeOK, ScriptsAssumption, Interrupted
  PROVE  left' \in SUBSET Resource /\ adrift' \in SUBSET Resource
<1>1. (IF code = <<>> THEN {} ELSE Head(code).on) \in SUBSET Resource
  BY HeadType, StepFacts
<1> QED BY <1>1 DEF Interrupted, TypeOK

LEMMA TimeoutType ==
  ASSUME TypeOK, ScriptsAssumption, Timeout \/ Lands
  PROVE  TypeOK'
<1>1. CASE TimeoutSwallowed
  <2>0. code # <<>> /\ Head(code).tries \in 1 .. MaxTries
    BY <1>1, HeadType, StepFacts DEF TimeoutSwallowed, Rescued, At
  <2>1. left' \in SUBSET Resource /\ adrift' \in SUBSET Resource
    BY <1>1, InterruptedType DEF TimeoutSwallowed
  <2>2. CASE Again /\ tries' = tries + 1
             /\ UNCHANGED <<phase, result, code, handlers>>
    <3>1. tries' \in 0 .. MaxTries - 1
      BY <2>0, <2>2 DEF Again, TypeOK, ScriptsAssumption
    <3> QED BY <1>1, <2>1, <2>2, <3>1
            DEF TimeoutSwallowed, MinuteLeft, TypeOK, options
  <2>3. CASE Abandon
    BY <1>1, <2>1, <2>3, AbandonType
       DEF TimeoutSwallowed, MinuteLeft, TypeOK, options
  <2> QED BY <1>1, <2>2, <2>3 DEF TimeoutSwallowed
<1>2. CASE TimeoutRaised
  <2>1. left' \in SUBSET Resource /\ adrift' \in SUBSET Resource
    BY <1>2, InterruptedType DEF TimeoutRaised
  <2>2. missed' \in SUBSET Resource
    BY <1>2, UnreachedType DEF TimeoutRaised, TypeOK
  <2>3. Abandon
    BY <1>2 DEF TimeoutRaised
  <2> QED BY <1>2, <2>1, <2>2, <2>3, AbandonType
          DEF TimeoutRaised, MinuteLeft, TypeOK, options
<1>3. CASE TimePasses
  BY <1>3 DEF TimePasses, MinuteLeft, TypeOK, control, options, deployment
<1>4. CASE Lands
  BY <1>4 DEF Lands, TypeOK, control, options, clock
<1> QED BY <1>1, <1>2, <1>3, <1>4 DEF Timeout

LEMMA TypeStep == ScriptsAssumption /\ TypeOK /\ [Next]_vars => TypeOK'
<1> SUFFICES ASSUME ScriptsAssumption, TypeOK, [Next]_vars
             PROVE  TypeOK'
  OBVIOUS
<1>1. CASE Next
  BY <1>1, ScriptType, QuietType, RunType, DeleteType, TimeoutType
     DEF Next, Step
<1>2. CASE UNCHANGED vars
  BY <1>2 DEF vars, TypeOK, control, options, deployment, clock
<1> QED BY <1>1, <1>2

\* Whatever the scripts are, fails or times out, the state is well typed: no
\* retry is beyond those that a step may have, and nothing is left that is not
\* a resource.
THEOREM TypeCorrect == Spec => []TypeOK
<1>1. Init => TypeOK
  <2> SUFFICES ASSUME Init
               PROVE  TypeOK
    OBVIOUS
  <2>1. Script[test] \in Seq(StepType) /\ MaxTries \in Nat \ {0}
        /\ MaxFaults \in Nat /\ Before \subseteq Resource
    BY ScriptsAssumption DEF Init, ScriptsAssumption
  <2>2. left \in SUBSET Resource /\ missed \in SUBSET Resource
    BY <2>1 DEF Init
  <2>3. code \in Seq(StepType) /\ handlers \in Seq(Handler)
    BY <2>1 DEF Init
  <2>4. tries \in 0 .. MaxTries - 1 /\ faults \in 0 .. MaxFaults
    BY <2>1 DEF Init
  <2> QED BY <2>2, <2>3, <2>4 DEF Init, TypeOK
<1>2. TypeOK /\ [Next]_vars => TypeOK'
  BY TypeStep, ScriptsAssumption
<1> QED BY <1>1, <1>2, PTL DEF Spec

-----------------------------------------------------------------------------
(* Nothing is left that could have been removed.                           *)

DeleteOps == {"delete", "deprovision"}
CleanOps == {"disarm", "quiet", "loud"} \cup DeleteOps

\* What registered blocks are going to delete.
ToClean(hs) == UNION {Deletes(Cleaning[hs[i]]) : i \in DOMAIN hs}

\* Whatever the body is still to create, a block will be registered for it.
CleanUpFirst ==
  phase = "test" =>
    \A i \in DOMAIN code : code[i].op = "run" =>
      \A r \in code[i].on :
        \/ r \in ToClean(handlers)
        \/ \E j \in 1 .. i - 1 : /\ code[j].op = "atExit"
                                 /\ r \in Deletes(Cleaning[code[j].handler])

OnlyCleans == phase = "exit" => \A i \in DOMAIN code : code[i].op \in CleanOps

\* What is there has been missed, or is still to be deleted.
Covered == phase # "killed" => left \subseteq missed \cup Pending

OverIsOver == phase = "over" => code = <<>> /\ handlers = <<>>

LeftInv == CleanUpFirst /\ OnlyCleans /\ Covered /\ OverIsOver

LEMMA DeletesMember ==
  ASSUME NEW s, NEW r
  PROVE  r \in Deletes(s) <=>
           \E i \in DOMAIN s : s[i].op \in DeleteOps /\ r \in s[i].on
BY DEF Deletes, DeleteOps

LEMMA DeletesEmpty == Deletes(<<>>) = {} /\ ToClean(<<>>) = {}
BY DEF Deletes, ToClean

\* What a block deletes, its first step or the others do.
LEMMA DeletesTail ==
  ASSUME NEW s \in Seq(StepType), s # <<>>, NEW r \in Deletes(s)
  PROVE  \/ r \in Deletes(Tail(s))
         \/ Head(s).op \in DeleteOps /\ r \in Head(s).on
<1>1. PICK i \in DOMAIN s : s[i].op \in DeleteOps /\ r \in s[i].on
  BY DeletesMember
<1>2. CASE i = 1
  <2>1. Head(s) = s[1]
    OBVIOUS
  <2> QED BY <1>1, <1>2, <2>1
<1>3. CASE i # 1
  <2>1. i - 1 \in DOMAIN Tail(s) /\ Tail(s)[i - 1] = s[i]
    BY <1>3
  <2> QED BY <1>1, <2>1, DeletesMember
<1> QED BY <1>2, <1>3

LEMMA ToCleanTail ==
  ASSUME NEW hs \in Seq(Handler), hs # <<>>, NEW r \in ToClean(hs)
  PROVE  r \in Deletes(Cleaning[Head(hs)]) \/ r \in ToClean(Tail(hs))
<1>1. PICK i \in DOMAIN hs : r \in Deletes(Cleaning[hs[i]])
  BY DEF ToClean
<1>2. CASE i = 1
  <2>1. Head(hs) = hs[1]
    OBVIOUS
  <2> QED BY <1>1, <1>2, <2>1
<1>3. CASE i # 1
  <2>1. i - 1 \in DOMAIN Tail(hs) /\ Tail(hs)[i - 1] = hs[i]
    BY <1>3
  <2> QED BY <1>1, <2>1 DEF ToClean
<1> QED BY <1>2, <1>3

LEMMA ToCleanPush ==
  ASSUME NEW hs \in Seq(Handler), NEW h \in Handler, NEW r,
         r \in ToClean(hs) \/ r \in Deletes(Cleaning[h])
  PROVE  r \in ToClean(<<h>> \o hs)
<1> DEFINE new == <<h>> \o hs
<1>1. CASE r \in ToClean(hs)
  <2>1. PICK i \in DOMAIN hs : r \in Deletes(Cleaning[hs[i]])
    BY <1>1 DEF ToClean
  <2>2. i + 1 \in DOMAIN new /\ new[i + 1] = hs[i]
    OBVIOUS
  <2> HIDE DEF new
  <2>3. r \in ToClean(new)
    BY <2>1, <2>2 DEF ToClean
  <2> QED BY <2>3 DEF new
<1>2. CASE r \in Deletes(Cleaning[h])
  <2>1. 1 \in DOMAIN new /\ new[1] = h
    OBVIOUS
  <2> HIDE DEF new
  <2>2. r \in ToClean(new)
    BY <1>2, <2>1 DEF ToClean
  <2> QED BY <2>2 DEF new
<1> QED BY <1>1, <1>2

LEMMA PendingParts == Pending = Unreached \cup ToClean(handlers)
BY DEF Pending, ToClean

\* A command that creates something is one of the body, and registered blocks
\* are going to delete what it creates.
LEMMA RunsCovered ==
  ASSUME TypeOK, LeftInv, At("run")
  PROVE  phase = "test" /\ Head(code).on \subseteq Pending
<1>1. code # <<>> /\ Head(code) = code[1] /\ 1 \in DOMAIN code
      /\ code[1].op = "run"
  BY DEF At, TypeOK
<1>2. phase = "test"
  BY <1>1 DEF At, Running, LeftInv, OnlyCleans, CleanOps, DeleteOps
<1>3. \A r \in code[1].on : r \in ToClean(handlers)
  BY <1>1, <1>2 DEF LeftInv, CleanUpFirst
<1> QED BY <1>1, <1>2, <1>3, PendingParts

\* A step that stays where it is.
LEMMA LeftStays ==
  ASSUME LeftInv, UNCHANGED <<phase, code, handlers>>,
         missed \subseteq missed',
         left' \subseteq left \cup Pending \cup missed'
  PROVE  LeftInv'
<1>1. CleanUpFirst' /\ OnlyCleans' /\ OverIsOver'
  BY DEF LeftInv, CleanUpFirst, OnlyCleans, OverIsOver
<1>2. Pending' = Pending
  BY DEF Pending, Unreached
<1>3. Covered'
  BY <1>2 DEF LeftInv, Covered
<1> QED BY <1>1, <1>3 DEF LeftInv

\* A step that goes on with the next one of its block.
LEMMA LeftContinues ==
  ASSUME TypeOK, LeftInv, Running, code # <<>>, Head(code).op # "atExit",
         phase' = phase, code' = Tail(code), handlers' = handlers,
         missed \subseteq missed',
         left' \subseteq left \cup Pending,
         phase = "exit" /\ Head(code).op \in DeleteOps
           => left' \cap Head(code).on \subseteq missed'
  PROVE  LeftInv'
<1>0. Head(code) = code[1] /\ code \in Seq(StepType)
  BY DEF TypeOK
<1>1. \A i \in DOMAIN code' : i + 1 \in DOMAIN code /\ code'[i] = code[i + 1]
  BY <1>0
<1>2. CleanUpFirst'
  <2> SUFFICES ASSUME phase' = "test", NEW i \in DOMAIN code',
                      code'[i].op = "run", NEW r \in code'[i].on,
                      r \notin ToClean(handlers)
               PROVE  \E j \in 1 .. i - 1 :
                        /\ code'[j].op = "atExit"
                        /\ r \in Deletes(Cleaning[code'[j].handler])
    BY DEF CleanUpFirst
  <2>1. PICK j \in 1 .. (i + 1) - 1 :
          code[j].op = "atExit" /\ r \in Deletes(Cleaning[code[j].handler])
    BY <1>1 DEF LeftInv, CleanUpFirst
  <2>2. i \in Nat
    BY <1>0
  <2>3. j # 1
    BY <1>0, <2>1
  <2>4. j - 1 \in 1 .. i - 1 /\ (j - 1) + 1 = j
    BY <2>1, <2>2, <2>3
  <2>5. j - 1 \in DOMAIN code'
    BY <1>0, <2>4
  <2>6. code'[j - 1] = code[j]
    BY <1>1, <2>4, <2>5
  <2> QED BY <2>1, <2>4, <2>6
<1>3. OnlyCleans'
  BY <1>1 DEF LeftInv, OnlyCleans
<1>4. OverIsOver'
  BY DEF Running, OverIsOver
<1>5. Covered'
  <2>1. ASSUME NEW r \in left', r \notin missed'
        PROVE  r \in Pending'
    <3>1. r \in Unreached \/ r \in ToClean(handlers)
      BY <2>1, PendingParts DEF LeftInv, Covered, Running
    <3>2. CASE r \in ToClean(handlers)
      BY <3>2 DEF Pending, ToClean
    <3>3. CASE r \in Unreached
      <4>1. phase = "exit" /\ r \in Deletes(code)
        BY <3>3 DEF Unreached
      <4>2. r \in Deletes(Tail(code))
        BY <1>0, <2>1, <4>1, DeletesTail
      <4> QED BY <4>1, <4>2 DEF Pending, Unreached
    <3> QED BY <3>1, <3>2, <3>3
  <2> QED BY <2>1 DEF Covered
<1> QED BY <1>2, <1>3, <1>4, <1>5 DEF LeftInv

\* A step that ends its block.
LEMMA LeftEnds ==
  ASSUME LeftInv, Running,
         phase' = "exit", code' = <<>>, handlers' = handlers,
         missed \cup Unreached \subseteq missed',
         left' \subseteq left \cup Pending
  PROVE  LeftInv'
<1>1. CleanUpFirst' /\ OnlyCleans' /\ OverIsOver'
  BY DEF CleanUpFirst, OnlyCleans, OverIsOver
<1>2. ToClean(handlers) \subseteq Pending'
  BY DEF Pending, ToClean
<1>3. Covered'
  BY <1>2, PendingParts DEF LeftInv, Covered, Running
<1> QED BY <1>1, <1>3 DEF LeftInv

\* The steps from one block to the next.
LEMMA LeftBlocks ==
  ASSUME ScriptsAssumption, TypeOK, LeftInv,
         BodyEnds \/ NextHandler \/ Exit \/ AtExit \/ Kill
  PROVE  LeftInv'
<1>1. CASE BodyEnds
  <2>1. Running /\ phase' = "exit" /\ code' = <<>> /\ handlers' = handlers
        /\ missed' = missed /\ left' = left
    BY <1>1 DEF BodyEnds, Running, deployment
  <2>2. Unreached = {}
    BY <1>1 DEF BodyEnds, Unreached
  <2> QED BY <2>1, <2>2, LeftEnds
<1>2. CASE NextHandler
  <2>1. /\ phase = "exit" /\ phase' = "exit" /\ handlers # <<>>
        /\ code = <<>> /\ code' = Cleaning[Head(handlers)]
        /\ handlers' = Tail(handlers) /\ left' = left /\ missed' = missed
    BY <1>2 DEF NextHandler, deployment
  <2>2. Head(handlers) \in Handler
    BY <2>1 DEF TypeOK
  <2>3. OnlyCleans'
    BY <2>1, <2>2 DEF OnlyCleans, CleanOps, DeleteOps, ScriptsAssumption
  <2>4. CleanUpFirst' /\ OverIsOver'
    BY <2>1 DEF CleanUpFirst, OverIsOver
  <2>5. ASSUME NEW r \in left', r \notin missed'
        PROVE  r \in Pending'
    <3>1. r \in ToClean(handlers)
      BY <2>1, <2>5, PendingParts, DeletesEmpty DEF LeftInv, Covered, Unreached
    <3>2. \/ r \in Deletes(Cleaning[Head(handlers)])
          \/ r \in ToClean(Tail(handlers))
      BY <2>1, <3>1, ToCleanTail DEF TypeOK
    <3> QED BY <2>1, <3>2 DEF Pending, Unreached, ToClean
  <2> QED BY <2>3, <2>4, <2>5 DEF LeftInv, Covered
<1>3. CASE Exit
  <2>1. /\ phase = "exit" /\ phase' = "over"
        /\ code = <<>> /\ code' = <<>> /\ handlers = <<>> /\ handlers' = <<>>
        /\ left' = left /\ missed' = missed
    BY <1>3 DEF Exit, deployment
  <2>2. left' \subseteq missed'
    BY <2>1, PendingParts, DeletesEmpty DEF LeftInv, Covered, Unreached
  <2> QED BY <2>1, <2>2
          DEF LeftInv, Covered, CleanUpFirst, OnlyCleans, OverIsOver
<1>4. CASE AtExit
  <2>1. /\ code # <<>> /\ Head(code).op = "atExit" /\ Running
        /\ phase' = phase /\ code' = Tail(code)
        /\ handlers' = <<Head(code).handler>> \o handlers
        /\ left' = left /\ missed' = missed
    BY <1>4 DEF AtExit, At, deployment
  <2>2. Head(code) = code[1] /\ 1 \in DOMAIN code /\ code \in Seq(StepType)
    BY <2>1 DEF TypeOK
  <2>3. phase = "test"
    BY <2>1, <2>2 DEF Running, LeftInv, OnlyCleans, CleanOps, DeleteOps
  <2>4. \A i \in DOMAIN code' : /\ i + 1 \in DOMAIN code /\ i \in Nat
                                /\ code'[i] = code[i + 1]
    BY <2>1, <2>2
  <2>5. \A r : r \in ToClean(handlers)
                 \/ r \in Deletes(Cleaning[Head(code).handler])
                   => r \in ToClean(handlers')
    BY <2>1, ToCleanPush, HeadType, StepFacts DEF TypeOK
  <2>6. CleanUpFirst'
    <3> SUFFICES ASSUME NEW i \in DOMAIN code', code'[i].op = "run",
                        NEW r \in code'[i].on, r \notin ToClean(handlers')
                 PROVE  \E j \in 1 .. i - 1 :
                          /\ code'[j].op = "atExit"
                          /\ r \in Deletes(Cleaning[code'[j].handler])
      BY DEF CleanUpFirst
    <3>1. PICK j \in 1 .. (i + 1) - 1 :
            code[j].op = "atExit" /\ r \in Deletes(Cleaning[code[j].handler])
      BY <2>3, <2>4, <2>5 DEF LeftInv, CleanUpFirst
    <3>2. j # 1
      BY <2>2, <2>5, <3>1
    <3>3. j - 1 \in 1 .. i - 1 /\ (j - 1) + 1 = j
      BY <2>4, <3>1, <3>2
    <3>4. j - 1 \in DOMAIN code'
      BY <2>1, <2>2, <3>3
    <3>5. code'[j - 1] = code[j]
      BY <2>4, <3>3, <3>4
    <3> QED BY <3>1, <3>3, <3>5
  <2>7. Pending \subseteq Pending'
    BY <2>1, <2>3, <2>5, PendingParts DEF Unreached, Pending, ToClean
  <2>8. Covered'
    BY <2>1, <2>3, <2>7 DEF LeftInv, Covered
  <2> QED BY <2>1, <2>3, <2>6, <2>8 DEF LeftInv, OnlyCleans, OverIsOver
<1>5. CASE Kill
  BY <1>5 DEF Kill, LeftInv, Covered, CleanUpFirst, OnlyCleans, OverIsOver
<1> QED BY <1>1, <1>2, <1>3, <1>4, <1>5

LEMMA LeftLooks ==
  ASSUME ScriptsAssumption, TypeOK, LeftInv,
         Arm \/ Disarm \/ Quiet \/ Loud \/ Wait
  PROVE  LeftInv'
<1>1. /\ Running /\ code # <<>> /\ left' = left
      /\ Head(code).op \in {"arm", "disarm", "quiet", "loud", "wait"}
  BY DEF Arm, Disarm, Quiet, Loud, Wait, At, deployment
<1>2. CASE Continue /\ missed' = missed
  BY <1>1, <1>2, LeftContinues DEF Continue, DeleteOps
<1>3. CASE Raise
  BY <1>1, <1>3, LeftEnds DEF Raise, Abandon
<1> QED BY <1>2, <1>3 DEF Arm, Disarm, Quiet, Loud, Wait, deployment

LEMMA LeftRun ==
  ASSUME ScriptsAssumption, TypeOK, LeftInv, RunSucceeds \/ RunFails
  PROVE  LeftInv'
<1>1. /\ At("run") /\ Running /\ code # <<>> /\ Head(code).op = "run"
      /\ phase = "test" /\ Head(code).on \subseteq Pending
  BY RunsCovered DEF RunSucceeds, RunFails, At
<1>2. left' \subseteq left \cup Pending
  <2>1. left' \subseteq left \cup Head(code).on
    BY DEF RunSucceeds, RunFails, Partly
  <2> QED BY <1>1, <2>1
<1>3. CASE Continue /\ missed' = missed
  BY <1>1, <1>2, <1>3, LeftContinues DEF Continue, DeleteOps
<1>4. CASE Raise
  BY <1>1, <1>2, <1>4, LeftEnds DEF Raise, Abandon
<1>5. CASE UNCHANGED <<phase, result, code, handlers, missed, armed>>
  BY <1>2, <1>5, LeftStays
<1> QED BY <1>3, <1>4, <1>5 DEF RunSucceeds, RunFails

LEMMA LeftDelete ==
  ASSUME ScriptsAssumption, TypeOK, LeftInv,
         DeleteSucceeds \/ DeleteFails \/ PollFails
  PROVE  LeftInv'
<1>1. Running /\ code # <<>> /\ Head(code).op \in DeleteOps
  BY DEF DeleteSucceeds, DeleteFails, PollFails, At, DeleteOps
<1>2. CASE DeleteSucceeds
  <2>1. Continue /\ left' = left \ Head(code).on /\ missed' = missed
    BY <1>2 DEF DeleteSucceeds
  <2> QED BY <1>1, <2>1, LeftContinues DEF Continue, DeleteOps
<1>3. CASE Raise /\ left' = left
  BY <1>1, <1>3, LeftEnds DEF Raise, Abandon
<1>4. CASE DeleteFails /\ ~Raise
  <2>1. /\ Continue /\ left' = left
        /\ missed' = missed \cup
             (IF phase = "exit" THEN Head(code).on ELSE {})
    BY <1>4 DEF DeleteFails
  <2> QED BY <1>1, <2>1, LeftContinues DEF Continue, DeleteOps
<1> QED BY <1>2, <1>3, <1>4 DEF DeleteFails, PollFails

LEMMA LeftTimeout ==
  ASSUME ScriptsAssumption, TypeOK, LeftInv, Timeout \/ Lands
  PROVE  LeftInv'
<1>0. Interrupted => left' \subseteq left
  BY DEF Interrupted
<1>1. CASE TimeoutSwallowed
  <2>1. phase = "test" /\ left' \subseteq left /\ missed' = missed /\ Running
    BY <1>0, <1>1, RunsCovered
       DEF TimeoutSwallowed, MinuteLeft, Rescued
  <2>2. Unreached = {}
    BY <2>1 DEF Unreached
  <2>3. CASE UNCHANGED <<phase, result, code, handlers>>
    BY <2>1, <2>3, LeftStays
  <2>4. CASE Abandon
    BY <2>1, <2>2, <2>4, LeftEnds DEF Abandon
  <2> QED BY <1>1, <2>3, <2>4 DEF TimeoutSwallowed
<1>2. CASE TimeoutRaised
  BY <1>0, <1>2, LeftEnds DEF TimeoutRaised, MinuteLeft, Abandon
<1>3. CASE TimePasses
  BY <1>3, LeftStays DEF TimePasses, control, deployment
<1>4. CASE Lands
  <2>1. /\ left' = left \cup adrift
        /\ missed' = missed \cup (adrift \ Pending)
        /\ UNCHANGED <<phase, code, handlers>>
    BY <1>4 DEF Lands, control
  <2> QED BY <2>1, LeftStays
<1> QED BY <1>1, <1>2, <1>3, <1>4 DEF Timeout

LEMMA LeftStep ==
  ASSUME ScriptsAssumption, TypeOK, LeftInv, [Next]_vars
  PROVE  LeftInv'
<1>1. CASE Next
  BY <1>1, LeftBlocks, LeftLooks, LeftRun, LeftDelete, LeftTimeout
     DEF Next, Step
<1>2. CASE UNCHANGED vars
  BY <1>2, LeftStays DEF vars, control, deployment
<1> QED BY <1>1, <1>2

LEMMA LeftInit ==
  ASSUME ScriptsAssumption, Init
  PROVE  LeftInv
<1>1. OnlyCleans /\ Covered /\ OverIsOver
  BY DEF Init, OnlyCleans, Covered, OverIsOver
<1>2. CleanUpFirst
  BY DEF Init, CleanUpFirst, ScriptsAssumption
<1> QED BY <1>1, <1>2 DEF LeftInv

\* However a test of whatever script ends, by itself, by a failing command or
\* by its timeout, what is left of it is only what a clean-up could not remove.
THEOREM NothingLeftAlways == Spec => []NothingLeft
<1>1. Init => LeftInv
  BY LeftInit, ScriptsAssumption
<1>2. TypeOK /\ LeftInv /\ [Next]_vars => LeftInv'
  BY LeftStep, ScriptsAssumption
<1>3. LeftInv => NothingLeft
  BY PendingParts, DeletesEmpty
     DEF LeftInv, Covered, OverIsOver, NothingLeft, Unreached
<1>4. Spec => []TypeOK
  BY TypeCorrect
<1> QED BY <1>1, <1>2, <1>3, <1>4, PTL DEF Spec

-----------------------------------------------------------------------------
(* The timeout comes before the kill.                                      *)

\* Until a timed test has armed its timeout it is at its first step, and as
\* long as its body runs nothing has disarmed it.
TimelyInv ==
  /\ phase = "test" =>
       /\ result = "none"
       /\ \A i \in DOMAIN code : code[i].op # "disarm"
       /\ Timed /\ ~swallowed => ~late /\ (armed \/ code = Script[test])
  /\ phase \in {"exit", "over"} => result # "none"
  /\ KilledInCleanUpOnly

LEMMA TimedBegins ==
  ASSUME ScriptsAssumption, TypeOK, Timed
  PROVE  Script[test] # <<>> /\ Head(Script[test]).op = "arm"
<1>1. Script[test] \in Seq(StepType) /\ test \in Test
  BY DEF TypeOK, ScriptsAssumption
<1>2. PICK i \in DOMAIN Script[test] : Script[test][i].op = "arm"
  BY DEF Timed
<1>3. i = 1
  BY <1>1, <1>2 DEF ScriptsAssumption
<1> QED BY <1>1, <1>2, <1>3

\* A body that goes on with an armed timeout, or arms it.
LEMMA TimelyContinues ==
  ASSUME TypeOK, TimelyInv, Running, code # <<>>, test' = test,
         phase' = phase, result' = result, code' = Tail(code),
         late' = late, swallowed' = swallowed,
         phase = "test" /\ Timed /\ ~swallowed => armed'
  PROVE  TimelyInv'
<1>1. \A i \in DOMAIN code' : i + 1 \in DOMAIN code /\ code'[i] = code[i + 1]
  BY DEF TypeOK
<1>2. Timed' = Timed
  BY DEF Timed
<1> QED BY <1>1, <1>2 DEF TimelyInv, Running, KilledInCleanUpOnly

LEMMA TimelyEnds ==
  ASSUME TimelyInv, Running, phase' = "exit",
         phase = "test" => result' # "none",
         phase # "test" => result' = result
  PROVE  TimelyInv'
BY DEF TimelyInv, Running, KilledInCleanUpOnly

LEMMA TimelyStays ==
  ASSUME TimelyInv, UNCHANGED <<test, phase, result, code>>,
         swallowed' = swallowed \/ swallowed',
         armed => armed' \/ phase # "test" \/ swallowed',
         late' = late \/ phase # "test" \/ swallowed' \/ ~Timed,
         swallowed => swallowed'
  PROVE  TimelyInv'
<1>1. Timed' = Timed
  BY DEF Timed
<1> QED BY <1>1 DEF TimelyInv, KilledInCleanUpOnly

LEMMA TimelyOps ==
  ASSUME ScriptsAssumption, TypeOK, TimelyInv, Running, code # <<>>,
         test' = test, phase' = phase, result' = result, code' = Tail(code),
         UNCHANGED clock, Head(code).op # "arm"
  PROVE  TimelyInv'
<1>1. phase = "test" /\ Timed /\ ~swallowed => armed'
  BY TimedBegins DEF TimelyInv, clock
<1> QED BY <1>1, TimelyContinues DEF clock

LEMMA TimelyRaise ==
  ASSUME TimelyInv, Running, Abandon
  PROVE  TimelyInv'
BY TimelyEnds DEF Abandon

LEMMA TimelyStep ==
  ASSUME ScriptsAssumption, TypeOK, TimelyInv, [Next]_vars
  PROVE  TimelyInv'
<1>1. CASE BodyEnds \/ NextHandler
  BY <1>1, TimelyEnds DEF BodyEnds, NextHandler, Running
<1>2. CASE Exit
  BY <1>2 DEF Exit, TimelyInv, KilledInCleanUpOnly
<1>3. CASE Arm
  <2>1. /\ Running /\ code # <<>> /\ Continue /\ test' = test /\ armed'
        /\ late' = late /\ swallowed' = swallowed
    BY <1>3 DEF Arm, At
  <2> QED BY <2>1, TimelyContinues DEF Continue
<1>4. CASE Disarm
  <2>1. /\ Running /\ code # <<>> /\ Continue /\ test' = test
        /\ late' = late /\ swallowed' = swallowed /\ Head(code).op = "disarm"
    BY <1>4 DEF Disarm, At
  <2>2. phase # "test"
    BY <2>1, HeadType DEF TimelyInv
  <2> QED BY <2>1, <2>2, TimelyContinues DEF Continue
<1>5. CASE \/ AtExit \/ Quiet \/ Loud \/ RunSucceeds \/ DeleteSucceeds
           \/ /\ Wait \/ RunFails \/ DeleteFails
              /\ Continue /\ armed' = armed
  <2>1. /\ Running /\ code # <<>> /\ Head(code).op # "arm"
        /\ test' = test /\ UNCHANGED clock
    BY <1>5 DEF AtExit, Quiet, Loud, RunSucceeds, DeleteSucceeds, Wait,
                RunFails, DeleteFails, At, clock
  <2>2. phase' = phase /\ result' = result /\ code' = Tail(code)
    BY <1>5 DEF AtExit, Quiet, Loud, RunSucceeds, DeleteSucceeds, Continue
  <2> QED BY <2>1, <2>2, TimelyOps
<1>6. CASE (Wait \/ RunFails \/ DeleteFails \/ PollFails) /\ Raise
  BY <1>6, TimelyRaise DEF Raise, Wait, RunFails, DeleteFails, PollFails, At
<1>7. CASE RunFails /\ UNCHANGED <<phase, result, code, handlers, missed, armed>>
  BY <1>7, TimelyStays DEF RunFails
<1>8. CASE TimeoutSwallowed
  <2>1. /\ Running /\ swallowed' /\ test' = test
    BY <1>8 DEF TimeoutSwallowed, MinuteLeft
  <2>2. CASE Abandon
    BY <2>1, <2>2, TimelyRaise
  <2>3. CASE UNCHANGED <<phase, result, code, handlers>>
    BY <2>1, <2>3, TimelyStays
  <2> QED BY <1>8, <2>2, <2>3 DEF TimeoutSwallowed
<1>9. CASE TimeoutRaised
  BY <1>9, TimelyRaise DEF TimeoutRaised, MinuteLeft
<1>10. CASE TimePasses
  <2>1. /\ Running /\ ~armed /\ ~At("arm")
        /\ UNCHANGED <<test, phase, result, code, armed, swallowed>>
    BY <1>10 DEF TimePasses, MinuteLeft, control
  <2>2. phase # "test" \/ swallowed \/ ~Timed
    BY <2>1, TimedBegins DEF TimelyInv, At
  <2> QED BY <2>1, <2>2, TimelyStays
<1>11. CASE Lands
  BY <1>11, TimelyStays DEF Lands, control, clock
<1>12. CASE Kill
  <2>1. /\ Running /\ late /\ phase' = "killed"
        /\ test' = test /\ result' = result /\ swallowed' = swallowed
    BY <1>12 DEF Kill, clock
  <2>2. Timed' = Timed
    BY <2>1 DEF Timed
  <2>3. Timed /\ ~swallowed => result # "none"
    BY <2>1 DEF TimelyInv, Running
  <2> QED BY <2>1, <2>2, <2>3 DEF TimelyInv, KilledInCleanUpOnly
<1>13. CASE UNCHANGED vars
  BY <1>13, TimelyStays DEF vars, control, clock
<1>14. Wait => Raise \/ (Continue /\ armed' = armed)
  BY DEF Wait
<1>15. RunFails => \/ Raise \/ (Continue /\ armed' = armed)
                   \/ UNCHANGED <<phase, result, code, handlers, missed, armed>>
  BY DEF RunFails
<1>16. (DeleteFails => Raise \/ (Continue /\ armed' = armed))
       /\ (PollFails => Raise)
  BY DEF DeleteFails, PollFails
<1> QED BY <1>1, <1>2, <1>3, <1>4, <1>5, <1>6, <1>7, <1>8, <1>9, <1>10, <1>11,
           <1>12, <1>13, <1>14, <1>15, <1>16 DEF Next, Step, Timeout

LEMMA TimelyInit ==
  ASSUME ScriptsAssumption, Init
  PROVE  TimelyInv
<1>1. \A i \in DOMAIN code : code[i].op # "disarm"
  BY DEF Init, ScriptsAssumption
<1> QED BY <1>1 DEF Init, TimelyInv, KilledInCleanUpOnly

\* A test whose script begins with a timeout is in its clean-up when it is
\* killed, unless a retry took the timeout for a failed try.
THEOREM KilledInCleanUpOnlyAlways == Spec => []KilledInCleanUpOnly
<1>1. Init => TimelyInv
  BY TimelyInit, ScriptsAssumption
<1>2. TypeOK /\ TimelyInv /\ [Next]_vars => TimelyInv'
  BY TimelyStep, ScriptsAssumption
<1>3. TimelyInv => KilledInCleanUpOnly
  BY DEF TimelyInv
<1>4. Spec => []TypeOK
  BY TypeCorrect
<1> QED BY <1>1, <1>2, <1>3, <1>4, PTL DEF Spec

-----------------------------------------------------------------------------
(* Where the body is.                                                      *)

Done == Len(Script[test]) - Len(code)

\* As long as the body runs, the steps it has left are the last ones of the
\* script; errexit is off in the midst of "set" only; what the steps before
\* have created is there; and the registered blocks are theirs.
InPlace ==
  phase = "test" =>
    /\ Len(code) <= Len(Script[test])
    /\ \A i \in DOMAIN code : code[i] = Script[test][Done + i]
    /\ saved /\ (errexit <=> ~Quieted(test, Done))
    /\ Created(test, Done) \subseteq left
    /\ \A a \in DOMAIN handlers : \E i \in 1 .. Done :
         /\ Script[test][i].op = "atExit"
         /\ Script[test][i].handler = handlers[a]

LEMMA CreatedNext ==
  ASSUME NEW t \in Test, NEW n \in Nat
  PROVE  /\ Script[t][n + 1].op = "run" =>
              Created(t, n + 1) = Created(t, n) \cup Script[t][n + 1].on
         /\ Script[t][n + 1].op # "run" => Created(t, n + 1) = Created(t, n)
<1>1. 1 .. n + 1 = (1 .. n) \cup {n + 1}
  OBVIOUS
<1> QED BY <1>1 DEF Created

LEMMA QuietedNext ==
  ASSUME NEW t \in Test, NEW n \in Nat
  PROVE  Quieted(t, n + 1) <=> \/ Script[t][n + 1].op = "quiet"
                               \/ /\ Quieted(t, n)
                                  /\ Script[t][n + 1].op # "loud"
<1>1. ASSUME Quieted(t, n + 1), Script[t][n + 1].op # "quiet"
      PROVE  Quieted(t, n) /\ Script[t][n + 1].op # "loud"
  <2>1. PICK i \in 1 .. n + 1 :
          /\ Script[t][i].op = "quiet"
          /\ \A j \in i + 1 .. n + 1 : Script[t][j].op # "loud"
    BY <1>1 DEF Quieted
  <2>2. i \in 1 .. n /\ n + 1 \in i + 1 .. n + 1
    BY <1>1, <2>1
  <2>3. \A j \in i + 1 .. n : j \in i + 1 .. n + 1
    OBVIOUS
  <2> QED BY <2>1, <2>2, <2>3 DEF Quieted
<1>2. ASSUME Script[t][n + 1].op = "quiet"
      PROVE  Quieted(t, n + 1)
  <2>1. n + 1 \in 1 .. n + 1 /\ (n + 1) + 1 .. n + 1 = {}
    OBVIOUS
  <2> QED BY <1>2, <2>1 DEF Quieted
<1>3. ASSUME Quieted(t, n), Script[t][n + 1].op # "loud"
      PROVE  Quieted(t, n + 1)
  <2>1. PICK i \in 1 .. n :
          /\ Script[t][i].op = "quiet"
          /\ \A j \in i + 1 .. n : Script[t][j].op # "loud"
    BY <1>3 DEF Quieted
  <2>2. \A j \in i + 1 .. n + 1 : j \in i + 1 .. n \/ j = n + 1
    OBVIOUS
  <2>3. i \in 1 .. n + 1
    OBVIOUS
  <2> QED BY <1>3, <2>1, <2>2, <2>3 DEF Quieted
<1> QED BY <1>1, <1>2, <1>3

\* The present step of a body is the one after those that are done.
LEMMA PresentStep ==
  ASSUME TypeOK, InPlace, phase = "test", code # <<>>
  PROVE  /\ test \in Test /\ Script[test] \in Seq(StepType)
         /\ Done \in Nat /\ Done + 1 \in DOMAIN Script[test]
         /\ Script[test][Done + 1] = Head(code)
         /\ code \in Seq(StepType) /\ (Done + 1) - 1 = Done
<1>1. test \in Test /\ Script[test] \in Seq(StepType) /\ code \in Seq(StepType)
  BY ScriptsAssumption DEF TypeOK
<1>2. Len(code) <= Len(Script[test]) /\ Len(code) \in Nat \ {0}
      /\ Len(Script[test]) \in Nat /\ 1 \in DOMAIN code /\ Head(code) = code[1]
  BY <1>1 DEF InPlace
<1>3. Done \in Nat /\ Done + 1 \in DOMAIN Script[test] /\ (Done + 1) - 1 = Done
  BY <1>1, <1>2 DEF Done
<1> QED BY <1>1, <1>2, <1>3 DEF InPlace

\* The body goes on with its next step.
LEMMA PlaceGoesOn ==
  ASSUME TypeOK, InPlace, phase = "test", code # <<>>,
         test' = test, code' = Tail(code),
         saved', errexit' <=> ~Quieted(test, Done + 1),
         Created(test, Done + 1) \subseteq left',
         \A a \in DOMAIN handlers' :
           \/ \E b \in DOMAIN handlers : handlers'[a] = handlers[b]
           \/ Head(code).op = "atExit" /\ handlers'[a] = Head(code).handler
  PROVE  InPlace'
<1>1. /\ test \in Test /\ Script[test] \in Seq(StepType)
      /\ Done \in Nat /\ Done + 1 \in DOMAIN Script[test]
      /\ Script[test][Done + 1] = Head(code) /\ code \in Seq(StepType)
  BY PresentStep
<1>2. Len(code) \in Nat /\ Len(Script[test]) \in Nat
      /\ Len(code') = Len(code) - 1 /\ Len(code) <= Len(Script[test])
  BY <1>1 DEF InPlace
<1>3. Done' = Done + 1
  BY <1>2 DEF Done
<1>4. \A i \in DOMAIN code' : /\ i \in Nat /\ i + 1 \in DOMAIN code
                              /\ code'[i] = code[i + 1]
  BY <1>1
<1>5. \A i \in DOMAIN code' : code'[i] = Script[test'][Done' + i]
  <2> TAKE i \in DOMAIN code'
  <2>1. code'[i] = Script[test][Done + (i + 1)]
    BY <1>4 DEF InPlace
  <2>2. Done + (i + 1) = (Done + 1) + i
    BY <1>1, <1>4
  <2> QED BY <1>3, <2>1, <2>2
<1>6. ASSUME NEW a \in DOMAIN handlers'
      PROVE  \E i \in 1 .. Done' : /\ Script[test'][i].op = "atExit"
                                   /\ Script[test'][i].handler = handlers'[a]
  <2>1. Done + 1 \in 1 .. Done' /\ 1 .. Done \subseteq 1 .. Done'
    BY <1>1, <1>3
  <2> QED BY <1>1, <1>6, <2>1 DEF InPlace
<1>7. Len(code') <= Len(Script[test'])
  BY <1>2
<1> QED BY <1>3, <1>5, <1>6, <1>7 DEF InPlace

\* The body stays where it is.
LEMMA PlaceStays ==
  ASSUME InPlace, UNCHANGED <<test, phase, code, handlers, options>>,
         phase = "test" => left \subseteq left'
  PROVE  InPlace'
<1>1. Done' = Done
  BY DEF Done
<1> QED BY <1>1 DEF InPlace, options

LEMMA PlaceLeaves ==
  ASSUME phase' # "test"
  PROVE  InPlace'
BY DEF InPlace

\* A step that neither creates anything nor sets options or a handler.
LEMMA PlaceLooks ==
  ASSUME TypeOK, InPlace, Running, code # <<>>, Continue, test' = test,
         UNCHANGED options, Head(code).op \notin {"run", "quiet", "loud"},
         left' = left \/ left' = left \ Head(code).on
  PROVE  InPlace'
<1>1. CASE phase = "test"
  <2>1. /\ test \in Test /\ Done \in Nat /\ Done + 1 \in DOMAIN Script[test]
        /\ Script[test][Done + 1] = Head(code)
    BY <1>1, PresentStep
  <2>2. Created(test, Done + 1) = Created(test, Done)
    BY <2>1, CreatedNext
  <2>3. Quieted(test, Done + 1) <=> Quieted(test, Done)
    BY <2>1, QuietedNext
  <2>4. Head(code).on \cap Created(test, Done + 1) = {}
    BY <2>1, BodiesAssumption
  <2>5. Created(test, Done + 1) \subseteq left'
    BY <1>1, <2>2, <2>4 DEF InPlace
  <2> QED BY <1>1, <2>3, <2>5, PlaceGoesOn DEF Continue, options, InPlace
<1>2. CASE phase # "test"
  BY <1>2, PlaceLeaves DEF Continue
<1> QED BY <1>1, <1>2

LEMMA PlaceOptions ==
  ASSUME TypeOK, InPlace, Quiet \/ Loud
  PROVE  InPlace'
<1>1. /\ Running /\ code # <<>> /\ Continue /\ test' = test /\ left' = left
      /\ Head(code).op \in {"quiet", "loud"}
  BY DEF Quiet, Loud, At, deployment
<1>2. CASE phase = "test"
  <2>1. /\ test \in Test /\ Done \in Nat /\ Done + 1 \in DOMAIN Script[test]
        /\ Script[test][Done + 1] = Head(code) /\ (Done + 1) - 1 = Done
    BY <1>1, <1>2, PresentStep
  <2>2. Created(test, Done + 1) \subseteq left'
    BY <1>1, <1>2, <2>1, CreatedNext DEF InPlace
  <2>3. saved' /\ (errexit' <=> ~Quieted(test, Done + 1))
    <3>1. CASE Quiet
      <4>1. Head(code).op = "quiet"
        BY <3>1 DEF Quiet, At
      <4>2. ~Quieted(test, Done)
        BY <2>1, <4>1, BodiesAssumption
      <4>3. Quieted(test, Done + 1)
        BY <2>1, <4>1, QuietedNext
      <4> QED BY <1>2, <3>1, <4>2, <4>3 DEF Quiet, InPlace
    <3>2. CASE Loud
      <4>1. Head(code).op = "loud"
        BY <3>2 DEF Loud, At
      <4>2. ~Quieted(test, Done + 1)
        BY <2>1, <4>1, QuietedNext
      <4> QED BY <1>2, <3>2, <4>2 DEF Loud, InPlace
    <3> QED BY <3>1, <3>2
  <2> QED BY <1>1, <1>2, <2>2, <2>3, PlaceGoesOn DEF Continue
<1>3. CASE phase # "test"
  BY <1>1, <1>3, PlaceLeaves DEF Continue
<1> QED BY <1>2, <1>3

LEMMA PlaceAtExit ==
  ASSUME TypeOK, InPlace, AtExit
  PROVE  InPlace'
<1>1. /\ Running /\ code # <<>> /\ Head(code).op = "atExit"
      /\ code' = Tail(code) /\ handlers' = <<Head(code).handler>> \o handlers
      /\ UNCHANGED <<test, phase, left, errexit, saved>>
  BY DEF AtExit, At, options, deployment
<1>2. CASE phase = "test"
  <2>1. /\ test \in Test /\ Done \in Nat /\ Done + 1 \in DOMAIN Script[test]
        /\ Script[test][Done + 1] = Head(code)
    BY <1>1, <1>2, PresentStep
  <2>2. Created(test, Done + 1) \subseteq left'
    BY <1>1, <1>2, <2>1, CreatedNext DEF InPlace
  <2>3. Quieted(test, Done + 1) <=> Quieted(test, Done)
    BY <1>1, <2>1, QuietedNext
  <2>4. ASSUME NEW a \in DOMAIN handlers'
        PROVE  \/ \E b \in DOMAIN handlers : handlers'[a] = handlers[b]
               \/ handlers'[a] = Head(code).handler
    <3>1. handlers \in Seq(Handler) /\ Head(code).handler \in Handler
      BY <1>1, HeadType, StepFacts, ScriptsAssumption DEF TypeOK
    <3>2. \/ a = 1
          \/ a - 1 \in DOMAIN handlers /\ handlers'[a] = handlers[a - 1]
      BY <1>1, <2>4, <3>1
    <3> QED BY <1>1, <3>1, <3>2
  <2> QED BY <1>1, <1>2, <2>2, <2>3, <2>4, PlaceGoesOn DEF InPlace
<1>3. CASE phase # "test"
  BY <1>1, <1>3, PlaceLeaves
<1> QED BY <1>2, <1>3

LEMMA PlaceRun ==
  ASSUME TypeOK, LeftInv, InPlace, RunSucceeds \/ RunFails
  PROVE  InPlace'
<1>1. /\ Running /\ code # <<>> /\ Head(code).op = "run" /\ phase = "test"
      /\ test' = test /\ UNCHANGED options /\ left \subseteq left'
  BY RunsCovered DEF RunSucceeds, RunFails, At
<1>2. /\ test \in Test /\ Done \in Nat /\ Done + 1 \in DOMAIN Script[test]
      /\ Script[test][Done + 1] = Head(code) /\ (Done + 1) - 1 = Done
  BY <1>1, PresentStep
<1>3. ~Quieted(test, Done) /\ ~Quieted(test, Done + 1)
  BY <1>1, <1>2, BodiesAssumption, QuietedNext
<1>4. errexit
  BY <1>1, <1>3 DEF InPlace
<1>5. CASE RunSucceeds
  <2>1. Created(test, Done + 1) \subseteq left'
    BY <1>1, <1>2, <1>5, CreatedNext DEF InPlace, RunSucceeds
  <2> QED BY <1>1, <1>3, <1>4, <1>5, <2>1, PlaceGoesOn
          DEF RunSucceeds, Continue, InPlace, options
<1>6. CASE RunFails
  <2>1. CASE Raise
    BY <2>1, PlaceLeaves DEF Raise, Abandon
  <2>2. CASE ~Raise
    <3>1. UNCHANGED <<phase, code, handlers>>
      BY <1>4, <1>6, <2>2 DEF RunFails
    <3> QED BY <1>1, <3>1, PlaceStays
  <2> QED BY <2>1, <2>2
<1> QED BY <1>5, <1>6

LEMMA PlaceStep ==
  ASSUME TypeOK, LeftInv, InPlace, [Next]_vars
  PROVE  InPlace'
<1>1. CASE BodyEnds \/ NextHandler \/ Exit \/ Kill
  BY <1>1, PlaceLeaves DEF BodyEnds, NextHandler, Exit, Kill
<1>2. CASE (Wait \/ DeleteFails \/ PollFails) /\ Raise
  BY <1>2, PlaceLeaves DEF Raise, Abandon
<1>3. CASE \/ Arm \/ Disarm \/ DeleteSucceeds
           \/ (Wait \/ DeleteFails) /\ Continue
  <2>1. /\ Running /\ code # <<>> /\ Continue /\ test' = test
        /\ UNCHANGED options /\ Head(code).op \notin {"run", "quiet", "loud"}
    BY <1>3 DEF Arm, Disarm, DeleteSucceeds, Wait, DeleteFails, At
  <2>2. left' = left \/ left' = left \ Head(code).on
    BY <1>3 DEF Arm, Disarm, DeleteSucceeds, Wait, DeleteFails, deployment
  <2> QED BY <2>1, <2>2, PlaceLooks
<1>4. CASE Quiet \/ Loud
  BY <1>4, PlaceOptions
<1>5. CASE AtExit
  BY <1>5, PlaceAtExit
<1>6. CASE RunSucceeds \/ RunFails
  BY <1>6, PlaceRun
<1>7. CASE TimeoutSwallowed
  <2>1. At("run") /\ Interrupted /\ UNCHANGED <<test, options>>
    BY <1>7 DEF TimeoutSwallowed, Rescued
  <2>2. left' = left
    BY <2>1 DEF Interrupted
  <2>3. CASE Abandon
    BY <2>3, PlaceLeaves DEF Abandon
  <2>4. CASE UNCHANGED <<phase, code, handlers>>
    BY <2>1, <2>2, <2>4, PlaceStays
  <2> QED BY <1>7, <2>3, <2>4 DEF TimeoutSwallowed
<1>8. CASE TimeoutRaised
  BY <1>8, PlaceLeaves DEF TimeoutRaised, Abandon
<1>9. CASE TimePasses \/ Lands \/ UNCHANGED vars
  <2>1. UNCHANGED <<test, phase, code, handlers, options>>
        /\ left \subseteq left'
    BY <1>9 DEF TimePasses, Lands, vars, control, deployment
  <2> QED BY <2>1, PlaceStays
<1>10. Wait \/ DeleteFails => Raise \/ Continue
  BY DEF Wait, DeleteFails
<1>11. PollFails => Raise
  BY DEF PollFails
<1> QED BY <1>1, <1>2, <1>3, <1>4, <1>5, <1>6, <1>7, <1>8, <1>9, <1>10, <1>11
        DEF Next, Step, Timeout

LEMMA PlaceInit ==
  ASSUME Init
  PROVE  InPlace
<1>1. /\ test \in Test /\ code = Script[test] /\ handlers = <<>>
      /\ saved /\ errexit
  BY DEF Init
<1>2. code \in Seq(StepType)
  BY <1>1, ScriptsAssumption
<1>3. Done = 0 /\ Len(code) \in Nat
  BY <1>1, <1>2 DEF Done
<1>4. ~Quieted(test, 0) /\ Created(test, 0) = {}
  BY DEF Quieted, Created
<1>5. \A i \in DOMAIN code : code[i] = Script[test][Done + i]
  BY <1>1, <1>2, <1>3
<1> QED BY <1>1, <1>3, <1>4, <1>5 DEF InPlace

\* A body that ends has created all that its steps create.
LEMMA PassComplete ==
  ASSUME TypeOK, InPlace, [Next]_vars
  PROVE  result = "none" /\ result' = "passed" =>
           \A i \in DOMAIN Script[test] :
             Script[test][i].op = "run" => Script[test][i].on \subseteq left
<1> SUFFICES ASSUME result = "none", result' = "passed"
             PROVE  \A i \in DOMAIN Script[test] : Script[test][i].op = "run"
                      => Script[test][i].on \subseteq left
  OBVIOUS
<1>1. Abandon => result' # "passed"
  BY DEF Abandon
<1>2. BodyEnds
  BY <1>1 DEF Next, Step, Timeout, NextHandler, Exit, Arm, Disarm, AtExit,
       Quiet, Loud, Wait, RunSucceeds, RunFails, DeleteSucceeds, DeleteFails,
       PollFails, TimeoutSwallowed, TimeoutRaised, TimePasses, Lands, Kill,
       Continue, Raise, vars, control
<1>3. Script[test] \in Seq(StepType)
  BY ScriptsAssumption DEF TypeOK
<1>4. phase = "test" /\ Done = Len(Script[test])
  BY <1>2, <1>3 DEF BodyEnds, Done
<1>5. Created(test, Len(Script[test])) \subseteq left
  BY <1>4 DEF InPlace
<1>6. DOMAIN Script[test] = 1 .. Len(Script[test])
  BY <1>3
<1> QED BY <1>5, <1>6 DEF Created

\* A test passes only with all it wanted to create in place, whatever its
\* retries, its own deletions and its "set" blocks: no failing command of a
\* body is passed over.
THEOREM PassedIsCompleteAlways == Spec => PassedIsComplete
<1>1. Init => LeftInv /\ InPlace
  BY LeftInit, PlaceInit, ScriptsAssumption
<1>2. TypeOK /\ LeftInv /\ InPlace /\ [Next]_vars => LeftInv' /\ InPlace'
  BY LeftStep, PlaceStep, ScriptsAssumption
<1>3. TypeOK /\ InPlace /\ [Next]_vars =>
        [result = "none" /\ result' = "passed" =>
           \A i \in DOMAIN Script[test] :
             Script[test][i].op = "run" => Script[test][i].on \subseteq left]_vars
  BY PassComplete
<1>4. Spec => []TypeOK
  BY TypeCorrect
<1> QED BY <1>1, <1>2, <1>3, <1>4, PTL DEF Spec, PassedIsComplete

-----------------------------------------------------------------------------
(* The order of the clean-up.                                              *)

\* What is deleted first is not needed by what is deleted after it.
InOrder ==
  /\ phase = "exit" =>
       /\ \A i, j \in DOMAIN code : i <= j => Allows(code[i].on, code[j].on)
       /\ \A i \in DOMAIN code : \A a \in DOMAIN handlers :
            Allows(code[i].on, Deletes(Cleaning[handlers[a]]))
  /\ \A a, b \in DOMAIN handlers :
       a < b => Allows(Deletes(Cleaning[handlers[a]]),
                       Deletes(Cleaning[handlers[b]]))

\* Nothing lacks what it needs, nor will anything that is still to come into
\* being and that a clean-up will remove.
Supported ==
  /\ DependentsFirst
  /\ \A r \in adrift :
       phase = "test" \/ r \in Pending => Needs[r] \subseteq left \cup adrift

LEMMA OrderKept ==
  ASSUME TypeOK, InOrder, handlers' = handlers,
         \/ phase' # "exit" \/ code' = <<>>
         \/ phase = "exit" /\ code' = code
         \/ phase = "exit" /\ code # <<>> /\ code' = Tail(code)
  PROVE  InOrder'
<1>1. CASE phase' # "exit" \/ code' = <<>>
  BY <1>1 DEF InOrder
<1>2. CASE phase = "exit" /\ code' = code
  BY <1>2 DEF InOrder
<1>3. CASE phase = "exit" /\ code # <<>> /\ code' = Tail(code)
  <2>1. \A i \in DOMAIN code' : /\ i \in Nat /\ i + 1 \in DOMAIN code
                                /\ code'[i] = code[i + 1]
    BY <1>3 DEF TypeOK
  <2>2. \A i, j \in DOMAIN code' : i <= j => Allows(code'[i].on, code'[j].on)
    <3> SUFFICES ASSUME NEW i \in DOMAIN code', NEW j \in DOMAIN code', i <= j
                 PROVE  Allows(code'[i].on, code'[j].on)
      OBVIOUS
    <3>1. i + 1 <= j + 1
      BY <2>1
    <3> QED BY <1>3, <2>1, <3>1 DEF InOrder
  <2>3. \A i \in DOMAIN code' : \A a \in DOMAIN handlers' :
          Allows(code'[i].on, Deletes(Cleaning[handlers'[a]]))
    BY <1>3, <2>1 DEF InOrder
  <2> QED BY <2>2, <2>3 DEF InOrder
<1> QED BY <1>1, <1>2, <1>3

LEMMA OrderNextHandler ==
  ASSUME TypeOK, InOrder, NextHandler
  PROVE  InOrder'
<1>1. /\ handlers \in Seq(Handler) /\ handlers # <<>>
      /\ code' = Cleaning[Head(handlers)] /\ handlers' = Tail(handlers)
      /\ Head(handlers) = handlers[1] /\ 1 \in DOMAIN handlers
      /\ Head(handlers) \in Handler
  BY DEF NextHandler, TypeOK
<1>2. \A a \in DOMAIN handlers' : /\ a \in Nat /\ a + 1 \in DOMAIN handlers
                                  /\ 1 < a + 1 /\ handlers'[a] = handlers[a + 1]
  BY <1>1
<1>3. Cleaning[handlers[1]] \in Seq(StepType)
  BY <1>1, ScriptsAssumption
<1>4. \A i, j \in DOMAIN code' : i <= j => Allows(code'[i].on, code'[j].on)
  BY <1>1, OrderAssumption
<1>5. ASSUME NEW i \in DOMAIN code', NEW a \in DOMAIN handlers'
      PROVE  Allows(code'[i].on, Deletes(Cleaning[handlers'[a]]))
  <2>1. Allows(Deletes(Cleaning[handlers[1]]), Deletes(Cleaning[handlers'[a]]))
    BY <1>1, <1>2 DEF InOrder
  <2>2. code'[i].on \subseteq Deletes(Cleaning[handlers[1]])
    BY <1>1, OrderAssumption
  <2> QED BY <2>1, <2>2 DEF Allows
<1>6. ASSUME NEW a \in DOMAIN handlers', NEW b \in DOMAIN handlers', a < b
      PROVE  Allows(Deletes(Cleaning[handlers'[a]]),
                    Deletes(Cleaning[handlers'[b]]))
  <2>1. a + 1 < b + 1
    BY <1>2, <1>6
  <2> QED BY <1>2, <2>1 DEF InOrder
<1> QED BY <1>4, <1>5, <1>6 DEF InOrder

LEMMA OrderAtExit ==
  ASSUME TypeOK, LeftInv, InPlace, InOrder, AtExit
  PROVE  InOrder'
<1>1. /\ Running /\ code # <<>> /\ Head(code).op = "atExit" /\ phase' = phase
      /\ handlers' = <<Head(code).handler>> \o handlers
  BY DEF AtExit, At
<1>2. Head(code) = code[1] /\ 1 \in DOMAIN code
  BY <1>1, HeadType, ScriptsAssumption
<1>3. phase = "test"
  BY <1>1, <1>2 DEF Running, LeftInv, OnlyCleans, CleanOps, DeleteOps
<1>4. /\ test \in Test /\ Done \in Nat /\ Done + 1 \in DOMAIN Script[test]
      /\ Script[test][Done + 1] = Head(code) /\ Script[test] \in Seq(StepType)
  BY <1>1, <1>3, PresentStep
<1>5. handlers \in Seq(Handler) /\ Head(code).handler \in Handler
  BY <1>1, HeadType, StepFacts, ScriptsAssumption DEF TypeOK
<1>6. /\ handlers'[1] = Head(code).handler
      /\ \A a \in DOMAIN handlers' :
           /\ a \in Nat \ {0}
           /\ a # 1 => /\ a - 1 \in DOMAIN handlers
                       /\ handlers'[a] = handlers[a - 1]
  BY <1>1, <1>5
<1>7. ASSUME NEW a \in DOMAIN handlers
      PROVE  Allows(Deletes(Cleaning[Head(code).handler]),
                    Deletes(Cleaning[handlers[a]]))
  <2>1. PICK i \in 1 .. Done : /\ Script[test][i].op = "atExit"
                               /\ Script[test][i].handler = handlers[a]
    BY <1>3 DEF InPlace
  <2>2. i \in DOMAIN Script[test] /\ i < Done + 1
    BY <1>4, <2>1
  <2> QED BY <1>1, <1>4, <2>1, <2>2, OrderAssumption
<1>8. ASSUME NEW a \in DOMAIN handlers', NEW b \in DOMAIN handlers', a < b
      PROVE  Allows(Deletes(Cleaning[handlers'[a]]),
                    Deletes(Cleaning[handlers'[b]]))
  <2>1. b # 1 /\ b - 1 \in DOMAIN handlers /\ handlers'[b] = handlers[b - 1]
    BY <1>6, <1>8
  <2>2. CASE a = 1
    BY <1>6, <1>7, <2>1, <2>2
  <2>3. CASE a # 1
    <3>1. a - 1 \in DOMAIN handlers /\ handlers'[a] = handlers[a - 1]
          /\ a - 1 < b - 1
      BY <1>6, <1>8, <2>1, <2>3
    <3> QED BY <2>1, <3>1 DEF InOrder
  <2> QED BY <2>2, <2>3
<1> QED BY <1>1, <1>3, <1>8 DEF InOrder

LEMMA OrderStep ==
  ASSUME TypeOK, LeftInv, InPlace, InOrder, [Next]_vars
  PROVE  InOrder'
<1>1. CASE NextHandler
  BY <1>1, OrderNextHandler
<1>2. CASE AtExit
  BY <1>2, OrderAtExit
<1>3. Abandon => InOrder'
  BY OrderKept DEF Abandon
<1>4. Running /\ Continue /\ code # <<>> => InOrder'
  BY OrderKept DEF Continue, Running
<1>5. UNCHANGED <<phase, code, handlers>> => InOrder'
  BY OrderKept
<1>6. CASE BodyEnds \/ Exit \/ Kill
  BY <1>6, OrderKept DEF BodyEnds, Exit, Kill
<1>7. CASE Arm \/ Disarm \/ Quiet \/ Loud \/ RunSucceeds \/ DeleteSucceeds
  BY <1>4, <1>7 DEF Arm, Disarm, Quiet, Loud, RunSucceeds, DeleteSucceeds, At
<1>8. CASE Wait \/ RunFails \/ DeleteFails \/ PollFails
  BY <1>3, <1>4, <1>5, <1>8
     DEF Wait, RunFails, DeleteFails, PollFails, At, Raise
<1>9. CASE Timeout \/ Lands \/ UNCHANGED vars
  BY <1>3, <1>5, <1>9 DEF Timeout, TimeoutSwallowed, TimeoutRaised,
                          TimePasses, Lands, vars, control
<1> QED BY <1>1, <1>2, <1>6, <1>7, <1>8, <1>9 DEF Next, Step

\* A step that removes nothing.
LEMMA NothingRemoved ==
  ASSUME Supported,
         left \subseteq left', missed \subseteq missed',
         adrift \subseteq adrift',
         \A r \in left' \ left : Needs[r] \subseteq left',
         \A r \in adrift' \ adrift : Needs[r] \subseteq left \cup adrift',
         phase = "test" \/ (phase' # "test" /\ Pending' \subseteq Pending)
  PROVE  Supported'
<1>1. \A r \in left' \ missed' : Needs[r] \subseteq left'
  BY DEF Supported, DependentsFirst
<1>2. \A r \in adrift' : phase' = "test" \/ r \in Pending'
        => Needs[r] \subseteq left' \cup adrift'
  BY DEF Supported
<1> QED BY <1>1, <1>2 DEF Supported, DependentsFirst

\* The body removes, or the timeout lets it remove, what nothing needs.
LEMMA RemovedByBody ==
  ASSUME TypeOK, Supported, phase = "test", left' \subseteq left,
         Allows(left \ left', Resource), missed \subseteq missed',
         adrift' = adrift
  PROVE  Supported'
<1>1. \A r \in left \cup adrift : Needs[r] \cap (left \ left') = {}
  BY DEF Allows, TypeOK
<1> QED BY <1>1 DEF Supported, DependentsFirst

\* What is still to be deleted when the present step is done.
LEMMA RemovedInOrder ==
  ASSUME TypeOK, InOrder, phase = "exit", code # <<>>,
         NEW r, r \in Deletes(Tail(code)) \/ r \in ToClean(handlers)
  PROVE  Needs[r] \cap Head(code).on = {}
<1>1. code \in Seq(StepType) /\ Head(code) = code[1] /\ 1 \in DOMAIN code
  BY DEF TypeOK
<1>2. CASE r \in Deletes(Tail(code))
  <2>1. PICK i \in DOMAIN Tail(code) : r \in Tail(code)[i].on
    BY <1>2, DeletesMember
  <2>2. i + 1 \in DOMAIN code /\ Tail(code)[i] = code[i + 1] /\ 1 <= i + 1
    BY <1>1, <2>1
  <2>3. Allows(code[1].on, code[i + 1].on)
    BY <1>1, <2>2 DEF InOrder
  <2> QED BY <1>1, <2>1, <2>2, <2>3 DEF Allows
<1>3. CASE r \in ToClean(handlers)
  <2>1. PICK a \in DOMAIN handlers : r \in Deletes(Cleaning[handlers[a]])
    BY <1>3 DEF ToClean
  <2> QED BY <1>1, <2>1 DEF InOrder, Allows
<1> QED BY <1>2, <1>3

\* A clean-up removes what no longer has anything that needs it.
LEMMA RemovedByCleanUp ==
  ASSUME TypeOK, LeftInv', InOrder, Supported, phase = "exit",
         phase' = "exit", code # <<>>, left' = left \ Head(code).on,
         missed \subseteq missed', adrift' = adrift,
         handlers' = handlers, code' = Tail(code) \/ code' = <<>>
  PROVE  Supported'
<1>1. \A r \in Pending' : Needs[r] \cap Head(code).on = {}
  <2> TAKE r \in Pending'
  <2>1. r \in Deletes(code') \/ r \in ToClean(handlers)
    BY DEF Pending, Unreached, ToClean
  <2>2. r \in Deletes(Tail(code)) \/ r \in ToClean(handlers)
    BY <2>1, DeletesEmpty
  <2> QED BY <2>2, RemovedInOrder
<1>2. \A r \in Pending' : r \in Pending
  <2> TAKE r \in Pending'
  <2>1. r \in Deletes(code') \/ r \in ToClean(handlers)
    BY DEF Pending, Unreached, ToClean
  <2>2. CASE code' = Tail(code) /\ r \in Deletes(code')
    <3>1. PICK i \in DOMAIN code' : /\ code'[i].op \in DeleteOps
                                    /\ r \in code'[i].on
      BY <2>2, DeletesMember
    <3>2. i + 1 \in DOMAIN code /\ code'[i] = code[i + 1]
      BY <2>2, <3>1 DEF TypeOK
    <3>3. r \in Deletes(code)
      BY <3>1, <3>2, DeletesMember
    <3> QED BY <3>3, PendingParts DEF Unreached
  <2> QED BY <2>1, <2>2, DeletesEmpty, PendingParts
<1>3. ASSUME NEW r \in left' \ missed'
      PROVE  Needs[r] \subseteq left'
  <2>1. r \in Pending'
    BY <1>3 DEF LeftInv, Covered
  <2>2. Needs[r] \subseteq left
    BY <1>3 DEF Supported, DependentsFirst
  <2> QED BY <1>1, <2>1, <2>2
<1>4. ASSUME NEW r \in adrift', r \in Pending'
      PROVE  Needs[r] \subseteq left' \cup adrift'
  <2>1. Needs[r] \subseteq left \cup adrift
    BY <1>2, <1>4 DEF Supported
  <2> QED BY <1>1, <1>4, <2>1
<1> QED BY <1>3, <1>4 DEF Supported, DependentsFirst

\* A clean-up has no more to delete after a step than it had before.
LEMMA PendingShrinks ==
  ASSUME TypeOK, phase # "test",
         \/ UNCHANGED <<phase, code, handlers>>
         \/ phase' # "test" /\ code' = <<>> /\ handlers' = handlers
         \/ phase' # "exit" /\ handlers' = handlers
         \/ phase' = phase /\ code # <<>> /\ code' = Tail(code)
              /\ handlers' = handlers
         \/ NextHandler
  PROVE  Pending' \subseteq Pending
<1>1. CASE UNCHANGED <<phase, code, handlers>>
  BY <1>1 DEF Pending, Unreached
<1>2. CASE (code' = <<>> \/ phase' # "exit") /\ handlers' = handlers
  <2>1. Unreached' = {}
    BY <1>2, DeletesEmpty DEF Unreached
  <2> QED BY <1>2, <2>1 DEF Pending
<1>3. CASE phase' = phase /\ code # <<>> /\ code' = Tail(code)
             /\ handlers' = handlers
  <2>1. \A r \in Deletes(code') : r \in Deletes(code)
    <3> TAKE r \in Deletes(code')
    <3>1. PICK i \in DOMAIN code' : /\ code'[i].op \in DeleteOps
                                    /\ r \in code'[i].on
      BY DeletesMember
    <3>2. i + 1 \in DOMAIN code /\ code'[i] = code[i + 1]
      BY <1>3, <3>1 DEF TypeOK
    <3> QED BY <3>1, <3>2, DeletesMember
  <2>2. Unreached' \subseteq Unreached
    BY <1>3, <2>1 DEF Unreached
  <2> QED BY <1>3, <2>2 DEF Pending
<1>4. CASE NextHandler
  <2>1. /\ handlers \in Seq(Handler) /\ handlers # <<>>
        /\ code' = Cleaning[Head(handlers)] /\ handlers' = Tail(handlers)
        /\ Head(handlers) = handlers[1] /\ 1 \in DOMAIN handlers
    BY <1>4 DEF NextHandler, TypeOK
  <2>2. \A a \in DOMAIN handlers' : /\ a + 1 \in DOMAIN handlers
                                    /\ handlers'[a] = handlers[a + 1]
    BY <2>1
  <2>3. ToClean(handlers') \subseteq ToClean(handlers)
    BY <2>2 DEF ToClean
  <2>4. Deletes(code') \subseteq ToClean(handlers)
    BY <2>1 DEF ToClean
  <2> QED BY <2>3, <2>4 DEF Pending, Unreached, ToClean
<1> QED BY <1>1, <1>2, <1>3, <1>4

\* A step that leaves alone what exists.
LEMMA SupportedLooks ==
  ASSUME TypeOK, Supported, left' = left, adrift' = adrift,
         missed \subseteq missed',
         phase = "test" \/ (phase' # "test" /\ Pending' \subseteq Pending)
  PROVE  Supported'
BY NothingRemoved

LEMMA SupportedAbandon ==
  ASSUME TypeOK, Supported, Abandon, left' = left, adrift' = adrift,
         missed \subseteq missed'
  PROVE  Supported'
<1>1. phase' = "exit" /\ code' = <<>> /\ handlers' = handlers
  BY DEF Abandon
<1> QED BY <1>1, SupportedLooks, PendingShrinks

LEMMA SupportedContinue ==
  ASSUME TypeOK, Supported, Continue, code # <<>>, left' = left,
         adrift' = adrift, missed \subseteq missed'
  PROVE  Supported'
<1>1. phase' = phase /\ code' = Tail(code) /\ handlers' = handlers
  BY DEF Continue
<1> QED BY <1>1, SupportedLooks, PendingShrinks

LEMMA SupportedBlocks ==
  ASSUME TypeOK, LeftInv, Supported,
         BodyEnds \/ NextHandler \/ Exit \/ AtExit \/ Kill
  PROVE  Supported'
<1>1. left' = left /\ adrift' = adrift /\ missed' = missed
  BY DEF BodyEnds, NextHandler, Exit, AtExit, Kill, deployment
<1>2. CASE BodyEnds
  BY <1>1, <1>2, SupportedLooks DEF BodyEnds
<1>3. CASE NextHandler
  BY <1>1, <1>3, SupportedLooks, PendingShrinks DEF NextHandler
<1>4. CASE Exit \/ Kill
  <2>1. phase' \in {"over", "killed"} /\ handlers' = handlers
    BY <1>4 DEF Exit, Kill
  <2> QED BY <1>1, <2>1, SupportedLooks, PendingShrinks
<1>5. CASE AtExit
  <2>1. code # <<>> /\ Head(code).op = "atExit" /\ Running
    BY <1>5 DEF AtExit, At
  <2>2. phase = "test"
    BY <2>1, HeadType, ScriptsAssumption
       DEF Running, LeftInv, OnlyCleans, CleanOps, DeleteOps
  <2> QED BY <1>1, <2>2, SupportedLooks
<1> QED BY <1>2, <1>3, <1>4, <1>5

\* What a body creates has, or gets with it, what it needs.
LEMMA RunSupported ==
  ASSUME TypeOK, LeftInv, InPlace, At("run"), NEW r \in Head(code).on
  PROVE  Needs[r] \subseteq left \cup Head(code).on
<1>1. phase = "test" /\ code # <<>> /\ Head(code).op = "run"
  BY RunsCovered DEF At
<1>2. /\ test \in Test /\ Done \in Nat /\ Done + 1 \in DOMAIN Script[test]
      /\ Script[test][Done + 1] = Head(code)
  BY <1>1, PresentStep
<1>3. Needs[r] \subseteq Created(test, Done + 1)
  BY <1>1, <1>2, BodiesAssumption
<1>4. Created(test, Done + 1) = Created(test, Done) \cup Head(code).on
  BY <1>1, <1>2, CreatedNext
<1> QED BY <1>1, <1>3, <1>4 DEF InPlace

LEMMA SupportedRun ==
  ASSUME TypeOK, LeftInv, InPlace, Supported, RunSucceeds \/ RunFails
  PROVE  Supported'
<1>1. phase = "test" /\ At("run") /\ adrift' = adrift /\ left \subseteq left'
  BY RunsCovered DEF RunSucceeds, RunFails
<1>2. missed \subseteq missed'
  BY DEF RunSucceeds, RunFails, Raise
<1>3. \A r \in left' \ left : Needs[r] \subseteq left'
  <2>1. CASE RunSucceeds
    BY <1>1, <2>1, RunSupported DEF RunSucceeds
  <2>2. CASE RunFails /\ left' # left
    <3>1. PICK made \in Partly(Head(code).on) : left' = left \cup made
      BY <2>2 DEF RunFails
    <3>2. made \subseteq Head(code).on
          /\ \A r \in made : Needs[r] \cap Head(code).on \subseteq made
      BY DEF Partly
    <3> QED BY <1>1, <3>1, <3>2, RunSupported
  <2> QED BY <2>1, <2>2
<1> QED BY <1>1, <1>2, <1>3, NothingRemoved

\* What a body deletes, nothing needs.
LEMMA BodyDeletes ==
  ASSUME TypeOK, InPlace, phase = "test", code # <<>>, Head(code).op # "run"
  PROVE  Allows(Head(code).on, Resource)
BY PresentStep, BodiesAssumption

LEMMA SupportedDelete ==
  ASSUME TypeOK, LeftInv, LeftInv', InPlace, InOrder, Supported, DeleteSucceeds
  PROVE  Supported'
<1>1. /\ Running /\ code # <<>> /\ Head(code).op # "run" /\ Continue
      /\ left' = left \ Head(code).on /\ adrift' = adrift /\ missed' = missed
  BY DEF DeleteSucceeds, At
<1>2. CASE phase = "test"
  <2>1. Allows(left \ left', Resource)
    BY <1>1, <1>2, BodyDeletes DEF Allows
  <2> QED BY <1>1, <1>2, <2>1, RemovedByBody
<1>3. CASE phase = "exit"
  BY <1>1, <1>3, RemovedByCleanUp DEF Continue
<1> QED BY <1>1, <1>2, <1>3 DEF Running

\* The timeout interrupts a step, which has its effect all the same, or not.
LEMMA SupportedTimeout ==
  ASSUME TypeOK, LeftInv, LeftInv', InPlace, InOrder, Supported,
         TimeoutSwallowed \/ TimeoutRaised
  PROVE  Supported'
<1>1. Running /\ Interrupted /\ missed \subseteq missed'
  BY DEF TimeoutSwallowed, TimeoutRaised, MinuteLeft
<1>2. \/ Abandon
      \/ At("run") /\ UNCHANGED <<phase, code, handlers>>
  BY DEF TimeoutSwallowed, TimeoutRaised, Rescued
<1>3. phase = "exit" => phase' = "exit" /\ Pending' \subseteq Pending
  <2> SUFFICES ASSUME phase = "exit"
               PROVE  phase' = "exit" /\ Pending' \subseteq Pending
    OBVIOUS
  <2>1. Abandon
    BY <1>2, RunsCovered
  <2> QED BY <2>1, PendingShrinks DEF Abandon
<1>4. CASE UNCHANGED <<left, adrift>>
  BY <1>1, <1>3, <1>4, SupportedLooks DEF Running
<1>5. CASE At("run") /\ left' = left /\ adrift' = adrift \cup Head(code).on
  <2>1. phase = "test"
    BY <1>5, RunsCovered
  <2>2. \A r \in adrift' \ adrift : Needs[r] \subseteq left \cup adrift'
    BY <1>5, RunSupported
  <2> QED BY <1>1, <1>5, <2>1, <2>2, NothingRemoved
<1>6. CASE ~At("run") /\ code # <<>> /\ left' = left \ Head(code).on
             /\ adrift' = adrift
  <2>1. CASE phase = "test"
    <3>1. Head(code).op # "run"
      BY <1>1, <1>6 DEF At
    <3>2. Allows(left \ left', Resource)
      BY <1>6, <2>1, <3>1, BodyDeletes DEF Allows
    <3> QED BY <1>1, <1>6, <2>1, <3>2, RemovedByBody
  <2>2. CASE phase = "exit"
    <3>1. code' = <<>> /\ handlers' = handlers
      BY <1>2, <1>6 DEF Abandon
    <3> QED BY <1>1, <1>3, <1>6, <2>2, <3>1, RemovedByCleanUp
  <2> QED BY <1>1, <2>1, <2>2 DEF Running
<1>7. \/ UNCHANGED <<left, adrift>>
      \/ At("run") /\ left' = left /\ adrift' = adrift \cup Head(code).on
      \/ ~At("run") /\ code # <<>> /\ left' = left \ Head(code).on
           /\ adrift' = adrift
  BY <1>1 DEF Interrupted, At
<1> QED BY <1>4, <1>5, <1>6, <1>7

LEMMA SupportedLands ==
  ASSUME TypeOK, Supported, Lands
  PROVE  Supported'
<1>1. /\ left' = left \cup adrift /\ adrift' = {}
      /\ missed' = missed \cup (adrift \ Pending)
  BY DEF Lands
<1>2. \A r \in left' \ missed' : Needs[r] \subseteq left'
  BY <1>1 DEF Supported, DependentsFirst
<1> QED BY <1>1, <1>2 DEF Supported, DependentsFirst

LEMMA SupportedStep ==
  ASSUME TypeOK, LeftInv, LeftInv', InPlace, InOrder, Supported, [Next]_vars
  PROVE  Supported'
<1>1. CASE BodyEnds \/ NextHandler \/ Exit \/ AtExit \/ Kill
  BY <1>1, SupportedBlocks
<1>2. CASE RunSucceeds \/ RunFails
  BY <1>2, SupportedRun
<1>3. CASE DeleteSucceeds
  BY <1>3, SupportedDelete
<1>4. CASE Arm \/ Disarm \/ Quiet \/ Loud \/ Wait \/ DeleteFails \/ PollFails
  <2>1. code # <<>> /\ left' = left /\ adrift' = adrift
    BY <1>4 DEF Arm, Disarm, Quiet, Loud, Wait, DeleteFails, PollFails, At,
                deployment
  <2>2. Abandon \/ Continue
    BY <1>4 DEF Arm, Disarm, Quiet, Loud, Wait, DeleteFails, PollFails, Raise
  <2>3. missed \subseteq missed'
    BY <1>4 DEF Arm, Disarm, Quiet, Loud, Wait, DeleteFails, PollFails, Raise,
                deployment
  <2> QED BY <2>1, <2>2, <2>3, SupportedAbandon, SupportedContinue
<1>5. CASE TimeoutSwallowed \/ TimeoutRaised
  BY <1>5, SupportedTimeout
<1>6. CASE Lands
  BY <1>6, SupportedLands
<1>7. CASE TimePasses \/ UNCHANGED vars
  <2>1. UNCHANGED <<phase, code, handlers, left, adrift, missed>>
    BY <1>7 DEF TimePasses, vars, control, deployment
  <2> QED BY <2>1, SupportedLooks, PendingShrinks
<1> QED BY <1>1, <1>2, <1>3, <1>4, <1>5, <1>6, <1>7 DEF Next, Step, Timeout

LEMMA OrderInit ==
  ASSUME Init
  PROVE  InOrder /\ Supported
BY DEF Init, InOrder, Supported, DependentsFirst

\* Nothing outlives what it needs unless its own deletion was missed, wherever
\* a test fails or times out, for all scripts that create things after what
\* they need and register their clean-ups accordingly.
THEOREM DependentsFirstAlways == Spec => []DependentsFirst
<1> DEFINE IInv == LeftInv /\ InPlace /\ InOrder /\ Supported
<1>1. Init => IInv
  BY LeftInit, PlaceInit, OrderInit, ScriptsAssumption
<1>2. TypeOK /\ IInv /\ [Next]_vars => IInv'
  <2> SUFFICES ASSUME TypeOK, IInv, [Next]_vars
               PROVE  IInv'
    OBVIOUS
  <2>1. LeftInv' /\ InPlace' /\ InOrder'
    BY LeftStep, PlaceStep, OrderStep, ScriptsAssumption
  <2>2. Supported'
    BY <2>1, SupportedStep
  <2> QED BY <2>1, <2>2
<1>3. IInv => DependentsFirst
  BY DEF Supported
<1>4. Spec => []TypeOK
  BY TypeCorrect
<1> QED BY <1>1, <1>2, <1>3, <1>4, PTL DEF Spec

-----------------------------------------------------------------------------
(* Which tests lose their clean-up.                                        *)

\* The test has a run_with_retry that rescues its timeout.
Retrying(t) ==
  /\ t \notin Thrown
  /\ \E i \in DOMAIN Script[t] :
       Script[t][i].op = "run" /\ Script[t][i].tries > 1

SwallowedByRetry == swallowed => Retrying(test)

LEMMA SwallowedStep ==
  ASSUME TypeOK, LeftInv, InPlace, SwallowedByRetry, [Next]_vars
  PROVE  SwallowedByRetry'
<1>1. CASE TimeoutSwallowed
  <2>1. /\ Running /\ code # <<>> /\ Head(code).op = "run"
        /\ Head(code).tries > 1 /\ test \notin Thrown /\ test' = test
    BY <1>1 DEF TimeoutSwallowed, Rescued, At
  <2>2. phase = "test"
    BY <2>1, HeadType, ScriptsAssumption
       DEF Running, LeftInv, OnlyCleans, CleanOps, DeleteOps
  <2>3. Retrying(test)
    BY <2>1, <2>2, PresentStep DEF Retrying
  <2> QED BY <2>1, <2>3 DEF SwallowedByRetry
<1>2. CASE ~TimeoutSwallowed
  <2>1. test' = test /\ swallowed' = swallowed
    BY <1>2 DEF Next, Step, Timeout, BodyEnds, NextHandler, Exit, Arm, Disarm,
       AtExit, Quiet, Loud, Wait, RunSucceeds, RunFails, DeleteSucceeds,
       DeleteFails, PollFails, TimeoutRaised, TimePasses, Lands, Kill, vars,
       clock
  <2> QED BY <2>1 DEF SwallowedByRetry
<1> QED BY <1>1, <1>2

\* The promise of use_global_timeout, which run_with_retry breaks, is kept for
\* every test that has no run_with_retry in its body, or that throws its
\* timeout: it is not killed before its clean-up, whatever it runs.
THEOREM CleanUpBeforeKillUnlessRetrying ==
  Spec => [](Retrying(test) \/ CleanUpBeforeKill)
<1> DEFINE IInv == LeftInv /\ InPlace /\ SwallowedByRetry
<1>1. Init => IInv
  BY LeftInit, PlaceInit, ScriptsAssumption DEF Init, SwallowedByRetry
<1>2. TypeOK /\ IInv /\ [Next]_vars => IInv'
  BY LeftStep, PlaceStep, SwallowedStep, ScriptsAssumption
<1>3. IInv /\ KilledInCleanUpOnly => Retrying(test) \/ CleanUpBeforeKill
  BY DEF SwallowedByRetry, KilledInCleanUpOnly, CleanUpBeforeKill
<1>4. Spec => []TypeOK /\ []KilledInCleanUpOnly
  BY TypeCorrect, KilledInCleanUpOnlyAlways
<1> QED BY <1>1, <1>2, <1>3, <1>4, PTL DEF Spec
=============================================================================
