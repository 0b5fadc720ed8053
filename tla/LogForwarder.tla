----------------------------- MODULE LogForwarder -----------------------------
(***************************************************************************)
(* forward_logfiles.sh makes rsyslogd forward the *.log files of the watch *)
(* directory.  The script runs once when the container boots, when it puts *)
(* itself into cron, and then every minute, whether or not its former run  *)
(* has ended.  For each log file that has no configuration file yet it     *)
(* writes one, and when it wrote any it asks monit to restart rsyslogd,    *)
(* which reads its configuration only as it starts.                        *)
(*                                                                         *)
(* Log files are those "find" reports: none below a directory gocode.  A   *)
(* configuration file is looked for in one step and written in another, so *)
(* that runs get in each other's way.  The main one is there, and empty,   *)
(* before its text is; a log file's is written in one step, since the run  *)
(* that writes it asks for the restart only when all of its text is there. *)
(***************************************************************************)
EXTENDS Naturals, FiniteSets

CONSTANTS
  Run,       \* runs of the script there can be at a time
  Log,       \* log files
  Base,      \* basenames
  base,      \* the basename of each log file
  None,      \* no log file
  MaxCrashes \* bound: how often rsyslogd dies

ASSUME ConstantsAssumption ==
  base \in [Log -> Base] /\ None \notin Log /\ MaxCrashes \in Nat

VARIABLES
  settings,  \* what SCF_LOG_HOST and SCF_LOG_PROTOCOL are
  logs,      \* the log files there are
  cron,      \* is the script in the crontab?
  main,      \* the main configuration file: "none", "empty" or "whole"
  conf,      \* per basename, the log file its configuration file names
  pc, todo, added, \* of each run: where it is, the log files "find" has still
                   \* to report, did it write a configuration (filesAdded)?
  target,    \* of each run: the log file it has found to have no configuration
  rsyslogd,  \* is it down, started but without a pid file yet, or up?
  loaded,    \* the configuration rsyslogd has read
  loadedMain, \* does that include the main one?
  action,    \* monit's pending action for rsyslogd, the restart
  missed,    \* history: log files whose restart was not made, or was for nothing
  crashes

script == <<cron, main, conf, pc, todo, added, target>>
daemon == <<rsyslogd, loaded, loadedMain>>
vars == <<settings, logs, script, daemon, action, missed, crashes>>

Nothing == [b \in Base |-> None]

\* The log files that some configuration names.
Configured(c) == {f \in Log : \E b \in Base : c[b] = f}

TypeOK ==
  /\ settings \in {"noHost", "badProtocol", "good"}
  /\ logs \in SUBSET Log
  /\ cron \in BOOLEAN /\ main \in {"none", "empty", "whole"}
  /\ conf \in [Base -> Log \cup {None}]
  /\ pc \in [Run -> {"idle", "main", "initial", "text", "search", "monit"}]
  /\ todo \in [Run -> SUBSET Log] /\ added \in [Run -> BOOLEAN]
  /\ target \in [Run -> Log \cup {None}]
  /\ rsyslogd \in {"down", "starting", "up"}
  /\ loaded \in [Base -> Log \cup {None}] /\ loadedMain \in BOOLEAN
  /\ action \in {"none", "restart", "start"}
  /\ missed \in SUBSET Log
  /\ crashes \in 0 .. MaxCrashes

Init ==
  /\ settings \in {"noHost", "badProtocol", "good"}
  /\ logs \in SUBSET Log
  /\ cron = FALSE /\ main = "none" /\ conf = Nothing
  /\ pc = [r \in Run |-> "idle"]
  /\ todo = [r \in Run |-> {}] /\ added = [r \in Run |-> FALSE]
  /\ target = [r \in Run |-> None]
  /\ rsyslogd = "down" /\ loaded = Nothing /\ loadedMain = FALSE
  /\ action = "none" /\ missed = {} /\ crashes = 0

-----------------------------------------------------------------------------
(* The script.                                                             *)

\* The run ends; it is not about to write anything.
Exit(r) ==
  /\ pc' = [pc EXCEPT ![r] = "idle"]
  /\ todo' = [todo EXCEPT ![r] = {}]
  /\ added' = [added EXCEPT ![r] = FALSE]
  /\ UNCHANGED target

\* Variant: the crontab is made up but not installed.
BeginNoCron(r) ==
  /\ pc[r] = "idle" /\ settings # "noHost"
  /\ cron \/ \A q \in Run : pc[q] = "idle"
  /\ pc' = [pc EXCEPT ![r] = "main"]
  /\ main = "none"
  /\ UNCHANGED <<settings, logs, cron, main, conf, todo, added, target, daemon,
                 action, missed, crashes>>

\* Boot, or cron's minute.  Without a host there is nothing to do.
Begin(r) ==
  /\ pc[r] = "idle" /\ settings # "noHost"
  /\ cron \/ \A q \in Run : pc[q] = "idle"
  /\ cron' = TRUE
  /\ pc' = [pc EXCEPT ![r] = "main"]
  /\ UNCHANGED <<settings, logs, main, conf, todo, added, target, daemon,
                 action, missed, crashes>>

\* searchTargetDir starts "find".
StartSearch(r) ==
  /\ pc' = [pc EXCEPT ![r] = "search"]
  /\ todo' = [todo EXCEPT ![r] = logs]

\* Is there a main configuration?
TestMain(r) ==
  /\ pc[r] = "main"
  /\ IF main # "none" THEN StartSearch(r)
     ELSE pc' = [pc EXCEPT ![r] = "initial"] /\ UNCHANGED todo
  /\ UNCHANGED <<settings, logs, cron, main, conf, added, target, daemon,
                 action, missed, crashes>>

\* Variant: a bad protocol makes initialConfig return.
MainConfigReturns(r) ==
  /\ pc[r] = "initial"
  /\ IF settings = "badProtocol"
       THEN StartSearch(r) /\ UNCHANGED main
       ELSE main' = "empty" /\ pc' = [pc EXCEPT ![r] = "text"] /\ UNCHANGED todo
  /\ UNCHANGED <<settings, logs, cron, conf, added, target, daemon, action,
                 missed, crashes>>

\* initialConfig, which exits on a bad protocol.  The shell creates the file,
\* or empties the one of another run ...
MainConfig(r) ==
  /\ pc[r] = "initial"
  /\ IF settings = "badProtocol"
       THEN Exit(r) /\ UNCHANGED main
       ELSE /\ main' = "empty" /\ pc' = [pc EXCEPT ![r] = "text"]
            /\ UNCHANGED <<todo, added, target>>
  /\ UNCHANGED <<settings, logs, cron, conf, daemon, action, missed, crashes>>

\* ... before sed writes its text.
MainText(r) ==
  /\ pc[r] = "text"
  /\ main' = "whole" /\ StartSearch(r)
  /\ UNCHANGED <<settings, logs, cron, conf, added, target, daemon, action,
                 missed, crashes>>

\* Variant: no look at what is there.
SearchAlways(r, f) ==
  /\ pc[r] = "search" /\ f \in todo[r] /\ target[r] = None
  /\ todo' = [todo EXCEPT ![r] = @ \ {f}]
  /\ target' = [target EXCEPT ![r] = f]
  /\ UNCHANGED <<settings, logs, cron, main, conf, pc, added, daemon, action,
                 missed, crashes>>

\* searchTargetDir with the next file: a configuration file of that name is
\* taken to be this log file's.
Search(r, f) ==
  /\ pc[r] = "search" /\ f \in todo[r] /\ target[r] = None
  /\ todo' = [todo EXCEPT ![r] = @ \ {f}]
  /\ target' = [target EXCEPT ![r] = IF conf[base[f]] = None THEN f ELSE None]
  /\ UNCHANGED <<settings, logs, cron, main, conf, pc, added, daemon, action,
                 missed, crashes>>

\* Variant: filesAdded tells of the last file alone.
CreateUncounted(r) ==
  /\ target[r] # None
  /\ conf' = [conf EXCEPT ![base[target[r]]] = target[r]]
  /\ added' = [added EXCEPT ![r] = todo[r] = {}]
  /\ target' = [target EXCEPT ![r] = None]
  /\ UNCHANGED <<settings, logs, cron, main, pc, todo, daemon, action, missed,
                 crashes>>

\* Variant: the configuration names the basename, not the file.
CreateBasename(r) ==
  /\ target[r] # None
  /\ conf' = [conf EXCEPT ![base[target[r]]] = base[target[r]]]
  /\ added' = [added EXCEPT ![r] = TRUE]
  /\ target' = [target EXCEPT ![r] = None]
  /\ UNCHANGED <<settings, logs, cron, main, pc, todo, daemon, action, missed,
                 crashes>>

\* createTargetConf, over what another run may have written since.
CreateTargetConf(r) ==
  /\ target[r] # None
  /\ conf' = [conf EXCEPT ![base[target[r]]] = target[r]]
  /\ added' = [added EXCEPT ![r] = TRUE]
  /\ target' = [target EXCEPT ![r] = None]
  /\ UNCHANGED <<settings, logs, cron, main, pc, todo, daemon, action, missed,
                 crashes>>

\* searchTargetDir returns, and says whether there is anything to reload.
Searched(r) == pc[r] = "search" /\ todo[r] = {} /\ target[r] = None

NothingAdded(r) ==
  /\ Searched(r) /\ ~added[r]
  /\ Exit(r)
  /\ UNCHANGED <<settings, logs, cron, main, conf, daemon, action, missed,
                 crashes>>

\* Log files that have a configuration which rsyslogd has not read.
Unread == {f \in Log : \E b \in Base : conf[b] = f /\ loaded[b] # f}

\* Those of them that no start of rsyslogd to come will read.
Stranded == IF rsyslogd = "down" \/ action = "restart" THEN {} ELSE Unread

\* test -r and test -d: rsyslogd runs and has written its pid file.
CheckPid(r) ==
  /\ Searched(r) /\ added[r]
  /\ IF rsyslogd = "up"
       THEN /\ pc' = [pc EXCEPT ![r] = "monit"]
            /\ UNCHANGED <<todo, added, target, missed>>
       ELSE Exit(r) /\ missed' = missed \cup Stranded
  /\ UNCHANGED <<settings, logs, cron, main, conf, daemon, action, crashes>>

\* monit restart: monit refuses while it has an action pending, and the
\* script ignores that.
Restart(r) ==
  /\ pc[r] = "monit"
  /\ IF action = "none"
       THEN action' = "restart" /\ UNCHANGED missed
       ELSE missed' = missed \cup Stranded /\ UNCHANGED action
  /\ Exit(r)
  /\ UNCHANGED <<settings, logs, cron, main, conf, daemon, crashes>>

Script(r) ==
  \/ Begin(r) \/ TestMain(r) \/ MainConfig(r) \/ MainText(r)
  \/ (\E f \in Log : Search(r, f)) \/ CreateTargetConf(r) \/ NothingAdded(r)
  \/ CheckPid(r) \/ Restart(r)

-----------------------------------------------------------------------------
(* rsyslogd, monit, and the jobs that log.                                 *)

\* A job creates a log file.
Appear(f) ==
  /\ f \notin logs
  /\ logs' = logs \cup {f}
  /\ UNCHANGED <<settings, script, daemon, action, missed, crashes>>

\* monit starts rsyslogd, which reads what there is.  Where that is an empty
\* main configuration, no restart is due for the log files it has read ...
StartDaemon ==
  /\ rsyslogd = "down"
  /\ rsyslogd' = "starting" /\ loaded' = conf /\ loadedMain' = (main = "whole")
  /\ missed' = IF main = "empty" THEN missed \cup Configured(conf) ELSE missed
  /\ UNCHANGED <<settings, logs, script, action, crashes>>

\* ... and then writes its pid file.
WritePid ==
  /\ rsyslogd = "starting"
  /\ rsyslogd' = "up"
  /\ UNCHANGED <<settings, logs, script, loaded, loadedMain, action, missed,
                 crashes>>

\* The restart: monit stops rsyslogd and starts it again ...
StopDaemon ==
  /\ action = "restart"
  /\ rsyslogd' = "down" /\ action' = "start"
  /\ UNCHANGED <<settings, logs, script, loaded, loadedMain, missed, crashes>>

\* ... and the action is over when monit sees it run.
ActionOver ==
  /\ action = "start" /\ rsyslogd = "up"
  /\ action' = "none"
  /\ UNCHANGED <<settings, logs, script, daemon, missed, crashes>>

DaemonDies ==
  /\ rsyslogd # "down" /\ crashes < MaxCrashes
  /\ rsyslogd' = "down" /\ crashes' = crashes + 1
  /\ UNCHANGED <<settings, logs, script, loaded, loadedMain, action, missed>>

Monit == StartDaemon \/ WritePid \/ StopDaemon \/ ActionOver

Next ==
  \/ \E r \in Run : Script(r)
  \/ \E f \in Log : Appear(f)
  \/ Monit \/ DaemonDies

\* cron runs the script again and again, a run gets on, and so do monit and
\* the rsyslogd it starts, one way or the other.  No log file has to appear and
\* rsyslogd does not have to die.
Fairness == WF_vars(Monit) /\ \A r \in Run : WF_vars(Script(r))

Spec == Init /\ [][Next]_vars
FairSpec == Spec /\ Fairness

-----------------------------------------------------------------------------
(* Properties.                                                             *)

\* A configuration that rsyslogd has not read will be: rsyslogd is down or
\* about to be restarted, or the run that wrote it has not ended, or it fell
\* into a gap: between rsyslogd's reading and the end of its start.  In the
\* code: filesAdded, the pid checks and "monit restart".
ReloadPending ==
  \/ rsyslogd = "down" \/ action = "restart"
  \/ \E r \in Run : added[r]
  \/ Unread \subseteq missed

\* Unless something falls into that gap, or rsyslogd starts while the main
\* configuration is empty, each basename has, in the end, a log file that is
\* forwarded: one, whichever was found first.  In the code: cron's "*/1",
\* searchTargetDir, monit.
Forwarded(f) == rsyslogd = "up" /\ loadedMain /\ loaded[base[f]] = f
Logged(b) == {f \in logs : base[f] = b}
EventuallyForwarded ==
  \A b \in Base :
    settings = "good" /\ Logged(b) # {}
      ~> missed # {} \/ \E f \in Logged(b) : Forwarded(f)

\* rsyslogd never has a log file's configuration without the main one, which
\* loads the module that log files need and says where messages go, unless it
\* has started while a run was writing the main one.  In the code: the main
\* configuration is written before the search.
InputsHaveTarget == Configured(loaded) \subseteq missed \/ loadedMain

\* Of the log files of one basename, runs that overlap may write one over the
\* other's; but once a basename has a configuration that no run is about to
\* write over, it keeps that one: rsyslogd is never sent from one log file to
\* another again.  In the code: checkConfigExists before createTargetConf.
Settled(b) ==
  /\ conf[b] # None
  /\ \A r \in Run : target[r] # None => base[target[r]] # b
SettledStays == [][\A b \in Base : Settled(b) => Settled(b)' /\ conf'[b] = conf[b]]_vars

\* Each log file is forwarded in the end.  In the code: "sets up rsyslog to
\* forward logs in /var/vcap/sys/log to a remote host".
EveryLogForwarded ==
  \A f \in Log : settings = "good" /\ f \in logs ~> Forwarded(f)
=============================================================================
