-------------------------- MODULE LogForwarderProofs --------------------------
(* The theorems about forward_logfiles.sh, for any number of overlapping   *)
(* runs, log files and deaths of rsyslogd.                                 *)
EXTENDS LogForwarder, TLAPS

\* A step's effect on the three variables of the runs keeps their types.
LEMMA ExitOK ==
  ASSUME TypeOK, NEW r \in Run, Exit(r)
  PROVE  /\ pc' \in [Run -> {"idle", "main", "initial", "text", "search", "monit"}]
         /\ todo' \in [Run -> SUBSET Log] /\ added' \in [Run -> BOOLEAN]
         /\ target' \in [Run -> Log \cup {None}]
BY DEF TypeOK, Exit

\* One step of the system keeps the types: every action in turn.
LEMMA TypeStep ==
  ASSUME TypeOK, [Next]_vars
  PROVE  TypeOK'
<1> USE ConstantsAssumption
<1>1. CASE \E r \in Run : Script(r)
  <2>1. PICK r \in Run : Script(r)
    BY <1>1
  <2>2. CASE Begin(r)
    BY <2>2 DEF TypeOK, Begin, daemon
  <2>3. CASE TestMain(r)
    BY <2>3 DEF TypeOK, TestMain, StartSearch, daemon
  <2>4. CASE MainConfig(r)
    <3>1. CASE settings = "badProtocol"
      BY <2>4, <3>1, ExitOK DEF TypeOK, MainConfig, daemon
    <3>2. CASE settings # "badProtocol"
      BY <2>4, <3>2 DEF TypeOK, MainConfig, daemon
    <3> QED BY <3>1, <3>2
  <2>10. CASE MainText(r)
    BY <2>10 DEF TypeOK, MainText, StartSearch, daemon
  <2>8. CASE NothingAdded(r)
    BY <2>8, ExitOK DEF TypeOK, NothingAdded, daemon
  <2>9. CASE CreateTargetConf(r)
    <3>1. target[r] \in Log /\ base[target[r]] \in Base
      BY <2>9 DEF TypeOK, CreateTargetConf
    <3>2. conf' \in [Base -> Log \cup {None}]
      BY <2>9, <3>1 DEF TypeOK, CreateTargetConf
    <3> QED BY <2>9, <3>2 DEF TypeOK, CreateTargetConf, daemon
  <2>5. CASE CheckPid(r)
    <3>1. CASE rsyslogd = "up"
      BY <2>5, <3>1 DEF TypeOK, CheckPid, daemon
    <3>2. CASE rsyslogd # "up"
      <4>1. Stranded \in SUBSET Log
        BY DEF Stranded, Unread
      <4> QED BY <2>5, <3>2, <4>1, ExitOK DEF TypeOK, CheckPid, daemon
    <3> QED BY <3>1, <3>2
  <2>6. CASE Restart(r)
    <3>1. Stranded \in SUBSET Log
      BY DEF Stranded, Unread
    <3> QED BY <2>6, <3>1, ExitOK DEF TypeOK, Restart, daemon
  <2>7. CASE \E f \in Log : Search(r, f)
    <3>1. PICK f \in Log : Search(r, f)
      BY <2>7
    <3> QED BY <3>1 DEF TypeOK, Search, daemon
  <2> QED
    BY <2>1, <2>2, <2>3, <2>4, <2>5, <2>6, <2>7, <2>8, <2>9, <2>10
    DEF Script
<1>2. CASE \E f \in Log : Appear(f)
  BY <1>2 DEF TypeOK, Appear, script, daemon
<1>3. CASE Monit
  <2>1. Configured(conf) \in SUBSET Log
    BY DEF Configured
  <2> QED
    BY <1>3, <2>1 DEF TypeOK, Monit, StartDaemon, WritePid, StopDaemon,
       ActionOver, script, daemon
<1>4. CASE DaemonDies
  BY <1>4 DEF TypeOK, DaemonDies, script, daemon
<1>5. CASE UNCHANGED vars
  BY <1>5 DEF TypeOK, vars, script, daemon
<1> QED BY <1>1, <1>2, <1>3, <1>4, <1>5 DEF Next

\* The variables have their types in the beginning.
LEMMA InitType == Init => TypeOK
<1> SUFFICES ASSUME Init PROVE TypeOK
  OBVIOUS
<1>1. crashes \in 0 .. MaxCrashes
  BY ConstantsAssumption DEF Init
<1>2. conf \in [Base -> Log \cup {None}] /\ loaded \in [Base -> Log \cup {None}]
  BY DEF Init, Nothing
<1>3. /\ added \in [Run -> BOOLEAN] /\ todo \in [Run -> SUBSET Log]
      /\ target \in [Run -> Log \cup {None}]
  BY DEF Init
<1> QED BY <1>1, <1>2, <1>3 DEF Init, TypeOK

\* Every variable keeps its type, in every state of the script, of monit and
\* of rsyslogd.
THEOREM TypeCorrect == Spec => []TypeOK
<1>1. Init => TypeOK
  BY InitType
<1>2. TypeOK /\ [Next]_vars => TypeOK'
  BY TypeStep
<1> QED BY <1>1, <1>2, PTL DEF Spec

-----------------------------------------------------------------------------

\* The main configuration's file is there before any other, and whoever wrote a
\* configuration is still to come to the pid check or to monit.
MainFirst ==
  /\ Configured(conf) # {} => main # "none"
  /\ InputsHaveTarget
  /\ \A r \in Run : pc[r] \in {"text", "search", "monit"} => main # "none"
WriterGoesOn ==
  \A r \in Run : /\ added[r] => pc[r] \in {"search", "monit"}
                 /\ target[r] # None => pc[r] = "search"
IInv == TypeOK /\ MainFirst /\ WriterGoesOn /\ ReloadPending

\* What rsyslogd has still to read changes with the two configurations only.
LEMMA UnreadSame ==
  ASSUME conf' = conf, loaded' = loaded
  PROVE  Unread' = Unread
BY DEF Unread

\* A run that ends with nothing written takes no reload with it.
LEMMA IdleExit ==
  ASSUME IInv, NEW r \in Run, ~added[r], Exit(r), rsyslogd' = rsyslogd,
         action' = action, Unread' = Unread, missed' = missed
  PROVE  ReloadPending'
<1>1. \A q \in Run : added[q] => added'[q]
  BY DEF Exit, IInv, TypeOK
<1> QED BY <1>1 DEF IInv, ReloadPending

\* One step of the system keeps the strengthened invariant.
LEMMA InvStep ==
  ASSUME IInv, [Next]_vars
  PROVE  IInv'
<1> USE ConstantsAssumption
<1>0. TypeOK'
  BY TypeStep DEF IInv
<1>1. ASSUME NEW r \in Run, Script(r)
      PROVE  IInv'
  <2>1. CASE Begin(r)
    <3>1. MainFirst' /\ WriterGoesOn'
      BY <2>1 DEF IInv, TypeOK, MainFirst, WriterGoesOn, Begin, daemon,
                  InputsHaveTarget, Configured
    <3> QED BY <1>0, <3>1, <2>1, UnreadSame DEF IInv, ReloadPending, Begin, daemon
  <2>2. CASE MainConfig(r)
    <3>1. ~added[r]
      BY <2>2 DEF IInv, WriterGoesOn, MainConfig
    <3>2. CASE settings = "badProtocol"
      <4>1. MainFirst' /\ WriterGoesOn'
        BY <2>2, <3>2 DEF IInv, TypeOK, MainFirst, WriterGoesOn, MainConfig,
                          Exit, daemon, InputsHaveTarget, Configured
      <4> QED BY <1>0, <2>2, <3>1, <3>2, <4>1, IdleExit, UnreadSame
              DEF IInv, MainConfig, daemon
    <3>3. CASE settings # "badProtocol"
      <4>1. MainFirst' /\ WriterGoesOn'
        BY <2>2, <3>3 DEF IInv, TypeOK, MainFirst, WriterGoesOn, MainConfig,
                          daemon, InputsHaveTarget, Configured
      <4> QED BY <1>0, <2>2, <3>3, <4>1, UnreadSame
              DEF IInv, ReloadPending, MainConfig, daemon
    <3> QED BY <3>2, <3>3
  <2>9. CASE MainText(r)
    <3>1. MainFirst' /\ WriterGoesOn'
      BY <2>9 DEF IInv, TypeOK, MainFirst, WriterGoesOn, MainText, StartSearch,
                  daemon, InputsHaveTarget, Configured
    <3> QED BY <1>0, <2>9, <3>1, UnreadSame
            DEF IInv, ReloadPending, MainText, daemon
  <2>7. CASE TestMain(r)
    <3>1. MainFirst' /\ WriterGoesOn'
      BY <2>7 DEF IInv, TypeOK, MainFirst, WriterGoesOn, TestMain, StartSearch,
                  daemon, InputsHaveTarget, Configured
    <3> QED BY <1>0, <2>7, <3>1, UnreadSame
            DEF IInv, ReloadPending, TestMain, daemon
  <2>3. CASE NothingAdded(r)
    <3>1. MainFirst' /\ WriterGoesOn'
      BY <2>3 DEF IInv, TypeOK, MainFirst, WriterGoesOn, NothingAdded, Exit,
                  Searched, daemon, InputsHaveTarget, Configured
    <3> QED BY <1>0, <2>3, <3>1, IdleExit, UnreadSame
            DEF IInv, NothingAdded, daemon
  <2>4. CASE CheckPid(r)
    <3>1. CASE rsyslogd = "up"
      <4>1. MainFirst' /\ WriterGoesOn'
        BY <2>4, <3>1 DEF IInv, TypeOK, MainFirst, WriterGoesOn, CheckPid,
                          Searched, daemon, InputsHaveTarget, Configured
      <4> QED BY <1>0, <2>4, <3>1, <4>1, UnreadSame
              DEF IInv, ReloadPending, CheckPid, daemon
    <3>2. CASE rsyslogd # "up"
      <4>1. MainFirst' /\ WriterGoesOn'
        BY <2>4, <3>2 DEF IInv, TypeOK, MainFirst, WriterGoesOn, CheckPid,
                          Searched, Exit, daemon, InputsHaveTarget, Configured
      <4>2. Unread' = Unread
        BY <2>4, UnreadSame DEF CheckPid, daemon
      <4>3. ReloadPending'
        BY <2>4, <3>2, <4>2 DEF ReloadPending, CheckPid, daemon, Stranded
      <4> QED BY <1>0, <4>1, <4>3 DEF IInv
    <3> QED BY <3>1, <3>2
  <2>5. CASE Restart(r)
    <3>1. MainFirst' /\ WriterGoesOn'
      BY <2>5 DEF IInv, TypeOK, MainFirst, WriterGoesOn, Restart, Exit, daemon,
                  InputsHaveTarget, Configured
    <3>2. Unread' = Unread
      BY <2>5, UnreadSame DEF Restart, daemon
    <3>3. ReloadPending'
      BY <2>5, <3>2 DEF ReloadPending, Restart, daemon, Stranded
    <3> QED BY <1>0, <3>1, <3>3 DEF IInv
  <2>6. ASSUME NEW f \in Log, Search(r, f)
        PROVE  IInv'
    <3>1. MainFirst' /\ WriterGoesOn'
      BY <2>6 DEF IInv, TypeOK, MainFirst, WriterGoesOn, Search, daemon,
                  InputsHaveTarget, Configured
    <3> QED BY <1>0, <2>6, <3>1, UnreadSame DEF IInv, ReloadPending, Search,
               daemon
  <2>8. CASE CreateTargetConf(r)
    <3>1. added'[r] /\ main' = main /\ main # "none"
      BY <2>8 DEF IInv, TypeOK, MainFirst, WriterGoesOn, CreateTargetConf
    <3>2. MainFirst' /\ WriterGoesOn'
      BY <2>8, <3>1 DEF IInv, TypeOK, MainFirst, WriterGoesOn,
                        CreateTargetConf, daemon, InputsHaveTarget, Configured
    <3> QED BY <1>0, <3>1, <3>2 DEF IInv, ReloadPending
  <2> QED
    BY <1>1, <2>1, <2>2, <2>3, <2>4, <2>5, <2>6, <2>7, <2>8, <2>9
    DEF Script
<1>2. CASE \E f \in Log : Appear(f)
  BY <1>0, <1>2, UnreadSame DEF IInv, MainFirst, WriterGoesOn, ReloadPending,
     Appear, script, daemon, InputsHaveTarget, Configured
<1>3. CASE StartDaemon
  <2>1. Unread' = {}
    BY <1>3 DEF StartDaemon, Unread, script
  <2>2. Configured(loaded)' = Configured(conf)
    BY <1>3 DEF StartDaemon, Configured
  <2>3. main \in {"none", "empty", "whole"}
    BY DEF IInv, TypeOK
  <2>4. InputsHaveTarget'
    BY <1>3, <2>2, <2>3 DEF IInv, MainFirst, StartDaemon, InputsHaveTarget
  <2>5. MainFirst' /\ WriterGoesOn'
    BY <1>3, <2>4 DEF IInv, MainFirst, WriterGoesOn, StartDaemon, script,
                      Configured
  <2> QED BY <1>0, <2>1, <2>5 DEF IInv, ReloadPending
<1>4. CASE WritePid \/ ActionOver
  <2>1. MainFirst' /\ WriterGoesOn'
    BY <1>4 DEF IInv, MainFirst, WriterGoesOn, WritePid, ActionOver, script,
                daemon, InputsHaveTarget, Configured
  <2>2. ReloadPending'
    BY <1>4, UnreadSame DEF IInv, ReloadPending, WritePid, ActionOver, script,
                            daemon
  <2> QED BY <1>0, <2>1, <2>2 DEF IInv
<1>5. CASE StopDaemon \/ DaemonDies
  BY <1>0, <1>5 DEF IInv, MainFirst, WriterGoesOn, ReloadPending, StopDaemon,
                    DaemonDies, script, InputsHaveTarget, Configured
<1>6. CASE UNCHANGED vars
  BY <1>0, <1>6, UnreadSame DEF IInv, MainFirst, WriterGoesOn, ReloadPending,
                    vars, script, daemon, InputsHaveTarget, Configured
<1> QED BY <1>1, <1>2, <1>3, <1>4, <1>5, <1>6 DEF Next, Monit

\* In the beginning nothing is written and nothing runs.
LEMMA InvInit == Init => IInv
<1> SUFFICES ASSUME Init PROVE IInv
  OBVIOUS
<1>1. Configured(Nothing) = {}
  BY ConstantsAssumption DEF Configured, Nothing
<1>2. MainFirst
  BY <1>1 DEF Init, MainFirst, InputsHaveTarget
<1>3. WriterGoesOn /\ ReloadPending
  BY DEF Init, WriterGoesOn, ReloadPending
<1> QED BY <1>2, <1>3, InitType DEF IInv

\* A configuration that rsyslogd has not read will be, unless it fell into a
\* gap: rsyslogd's start, or the writing of the main configuration.  No run of
\* the script loses one otherwise.
THEOREM ReloadAlwaysPending == Spec => []ReloadPending
<1>1. IInv => ReloadPending
  BY DEF IInv
<1>2. IInv /\ [Next]_vars => IInv'
  BY InvStep
<1> QED BY <1>1, <1>2, InvInit, PTL DEF Spec

\* rsyslogd never has a log file's configuration without the main one, unless
\* it has started while a run was writing that: the script writes it first.
THEOREM InputsAlwaysHaveTarget == Spec => []InputsHaveTarget
<1>1. IInv => InputsHaveTarget
  BY DEF IInv, MainFirst, InputsHaveTarget
<1>2. IInv /\ [Next]_vars => IInv'
  BY InvStep
<1> QED BY <1>1, <1>2, InvInit, PTL DEF Spec
-----------------------------------------------------------------------------

\* A basename that is settled stays so, with the log file it has: a run that
\* comes to look finds the configuration, and one that writes is writing
\* another.
LEMMA SettledStep ==
  ASSUME TypeOK, [Next]_vars, NEW b \in Base, Settled(b)
  PROVE  Settled(b)' /\ conf'[b] = conf[b]
<1> USE ConstantsAssumption
<1>1. ASSUME UNCHANGED <<conf, target>>
      PROVE  Settled(b)' /\ conf'[b] = conf[b]
  BY <1>1 DEF Settled
<1>2. ASSUME NEW r \in Run, NEW f \in Log, Search(r, f)
      PROVE  Settled(b)' /\ conf'[b] = conf[b]
  <2>1. target'[r] # None => base[target'[r]] # b
    BY <1>2 DEF Search, TypeOK, Settled
  <2>2. \A q \in Run \ {r} : target'[q] = target[q]
    BY <1>2 DEF Search, TypeOK
  <2> QED BY <1>2, <2>1, <2>2 DEF Search, Settled
<1>3. ASSUME NEW r \in Run, CreateTargetConf(r)
      PROVE  Settled(b)' /\ conf'[b] = conf[b]
  <2>1. base[target[r]] # b
    BY <1>3 DEF CreateTargetConf, Settled
  <2>2. conf'[b] = conf[b]
    BY <1>3, <2>1 DEF CreateTargetConf, TypeOK
  <2>3. \A q \in Run : target'[q] # None => target'[q] = target[q]
    BY <1>3 DEF CreateTargetConf, TypeOK
  <2> QED BY <2>2, <2>3 DEF Settled
<1>4. ASSUME NEW r \in Run, Script(r),
             ~\E f \in Log : Search(r, f), ~CreateTargetConf(r)
      PROVE  UNCHANGED <<conf, target>>
  BY <1>4 DEF Script, Begin, TestMain, MainConfig, MainText, NothingAdded,
              CheckPid, StartSearch, Restart, Exit
<1>5. CASE ~\E r \in Run : Script(r)
  BY <1>1, <1>5 DEF Next, Monit, Appear, StartDaemon, WritePid, StopDaemon,
                    ActionOver, DaemonDies, script, vars
<1> QED BY <1>1, <1>2, <1>3, <1>4, <1>5

\* Once no run is about to write a basename's configuration, which log file it
\* names is settled for good, however many runs overlap.
THEOREM SettledStaysAlways == Spec => SettledStays
<1>1. TypeOK /\ [Next]_vars
        => [\A b \in Base : Settled(b) => Settled(b)' /\ conf'[b] = conf[b]]_vars
  BY SettledStep
<1> QED BY <1>1, TypeCorrect, PTL DEF Spec, SettledStays

=============================================================================
