---------------------------- MODULE MysqlBootstrap ----------------------------
(***************************************************************************)
(* set_mysql_bootstrap_node.sh, run before an upgrade: it stops the mysqld *)
(* of every pod of a Galera cluster, one after the other, reads how far    *)
(* each had come, and marks the one that had come furthest as the node     *)
(* that will bootstrap the cluster of the new pods.                        *)
(*                                                                         *)
(* The cluster goes on meanwhile: it commits as long as it has a member,   *)
(* mysqld takes its time to stop or crashes, monit restarts it unless told *)
(* to stop it, and the new pods' cluster has the data of its bootstrap.    *)
(* Between two runs of the script a pod may be restarted, which makes its  *)
(* monit forget what it was told.                                          *)
(***************************************************************************)
EXTENDS Integers, Sequences, FiniteSets, FiniteSetsExt

CONSTANTS
  N,          \* number of mysql pods
  MaxWait,    \* checks of stop_mysql_processes (60 in the code)
  SlowStop,   \* pods whose mysqld may still run after all those checks
  FailsAt,    \* the calls of kubectl that may fail
  MaxPos      \* bound on the number of transactions

Pod == 1 .. N
Call == {"stop", "test", "read", "recover", "grep", "set"}

ASSUME ConstantsAssumption ==
  /\ N \in Nat \ {0} /\ MaxWait \in Nat /\ MaxPos \in Nat \ {0}
  /\ SlowStop \subseteq Pod /\ FailsAt \subseteq Call

VARIABLES
  \* the cluster
  up,         \* pods whose mysqld runs
  told,       \* pods whose monit was told to stop mysqld
  fresh,      \* pods that never joined: their uuid is all zeros
  pos,        \* the last transaction in each pod's data, or -1
  seqno,      \* what grastate.dat says of it: -1 unless mysqld was stopped
  logged,     \* the last "Recovered position" of each pod's log, or -2
  boot,       \* pods with NEEDS_BOOTSTRAP in state.txt
  misled,     \* history: has a run, since the last upgrade, taken a mysqld that
              \* runs to be stopped, or a former position for a pod's own?
  \* the script
  pc, i, x,   \* where it is, its present pod, its checks of that pod
  sequences, uuids, latest, best \* latest_index

data == <<up, told, fresh, pos, seqno, logged>>
cluster == <<data, boot, misled>>
script == <<pc, i, x, sequences, uuids, latest, best>>
vars == <<cluster, script>>

Position == -1 .. MaxPos

TypeOK ==
  /\ up \in SUBSET Pod /\ told \in SUBSET Pod /\ fresh \in SUBSET Pod
  /\ boot \in SUBSET Pod /\ misled \in BOOLEAN
  /\ pos \in [Pod -> Position] /\ seqno \in [Pod -> Position]
  /\ logged \in [Pod -> Position \cup {-2}]
  /\ pc \in {"idle", "stop", "test", "sequences", "uuids", "choose", "recover",
             "grep", "set", "done", "aborted"}
  /\ i \in Pod /\ x \in 0 .. MaxWait
  /\ sequences \in Seq(Position) /\ uuids \in Seq(BOOLEAN)
  /\ latest \in Position /\ best \in Pod

\* Any mixture of members, pods that are joining, and pods that are down,
\* some of which were killed before they had any data.
Init ==
  /\ up \in SUBSET Pod /\ fresh \in SUBSET Pod
  /\ pos \in {f \in [Pod -> {-1, 1}] :
                \A p \in Pod : IF p \in fresh THEN f[p] = -1
                                              ELSE p \in up => f[p] = 1}
  /\ told = {} /\ boot = {} /\ misled = FALSE
  /\ seqno = [p \in Pod |-> -1] /\ logged = [p \in Pod |-> -2]
  /\ pc = "idle" /\ i = 1 /\ x = 0
  /\ sequences = <<>> /\ uuids = <<>> /\ latest = 0 /\ best = 1

-----------------------------------------------------------------------------
(* The script.                                                             *)

Fails(call) == call \in FailsAt

Abort ==
  /\ pc' = "aborted"
  /\ i' = 1 /\ x' = 0 /\ sequences' = <<>> /\ uuids' = <<>>
  /\ latest' = 0 /\ best' = 1

\* The end of a loop's round: the next pod, or what comes after the loop.
NextPod(label, after) ==
  IF i < N THEN i' = i + 1 /\ pc' = label ELSE i' = 1 /\ pc' = after

Begin ==
  /\ pc \in {"idle", "done", "aborted"}
  /\ pc' = "stop" /\ i' = 1 /\ x' = 0
  /\ sequences' = <<>> /\ uuids' = <<>> /\ latest' = 0 /\ best' = 1
  /\ UNCHANGED cluster

\* kubectl exec ... monit stop all
StopAll ==
  /\ pc = "stop"
  /\ \/ /\ told' = told \cup {i}
        /\ pc' = "test" /\ x' = 0
        /\ UNCHANGED <<i, sequences, uuids, latest, best>>
     \/ Fails("stop") /\ Abort /\ UNCHANGED told
  /\ UNCHANGED <<up, fresh, pos, seqno, logged, boot, misled>>

\* Variant: nobody waits for mysqld.
TestNever ==
  /\ pc = "test"
  /\ NextPod("stop", "sequences")
  /\ UNCHANGED <<x, cluster, sequences, uuids, latest, best>>

\* One round of the loop that waits for the pid file to go.  A call that
\* fails looks like a missing file; the loop is left after MaxWait rounds.
Test ==
  /\ pc = "test"
  /\ \/ /\ i \in up /\ x < MaxWait
        /\ x' = x + 1
        /\ UNCHANGED <<pc, i, misled>>
     \/ /\ \/ i \notin up
           \/ i \in SlowStop /\ x = MaxWait
           \/ Fails("test") /\ x < MaxWait
        /\ NextPod("stop", "sequences")
        /\ misled' = (misled \/ i \in up)
        /\ UNCHANGED x
  /\ UNCHANGED <<data, boot, sequences, uuids, latest, best>>

\* get_sequences and get_uuids: errexit does not reach the subshell, so a
\* call that fails adds nothing to the list and the rest moves up.
ReadSequence ==
  /\ pc = "sequences"
  /\ \/ sequences' = Append(sequences, seqno[i])
     \/ Fails("read") /\ UNCHANGED sequences
  /\ NextPod("sequences", "uuids")
  /\ UNCHANGED <<x, uuids, latest, best, cluster>>

ReadUuid ==
  /\ pc = "uuids"
  /\ \/ uuids' = Append(uuids, i \notin fresh)
     \/ Fails("read") /\ UNCHANGED uuids
  /\ NextPod("uuids", "choose")
  /\ UNCHANGED <<x, sequences, latest, best, cluster>>

\* Variant: each pod that is ahead of those before it is marked.
CompareMarks(s) ==
  /\ IF s > latest THEN latest' = s /\ best' = i /\ boot' = boot \cup {i}
                   ELSE UNCHANGED <<latest, best, boot>>
  /\ NextPod("choose", "set")
  /\ UNCHANGED <<x, uuids>>

\* Variant: the index is that of the pod before.
CompareBefore(s) ==
  /\ IF s > latest THEN latest' = s /\ best' = i - 1
                   ELSE UNCHANGED <<latest, best>>
  /\ NextPod("choose", "set")
  /\ UNCHANGED <<x, uuids, boot>>

\* -gt ${latest}, and the end of the round.  "latest" begins at 0, so the
\* test of it for -1 after the loop never holds.
Compare(s) ==
  /\ IF s > latest THEN latest' = s /\ best' = i
                   ELSE UNCHANGED <<latest, best>>
  /\ NextPod("choose", "set")
  /\ UNCHANGED <<x, uuids, boot>>

\* Variant: without nounset a missing element counts as nothing.
ChooseUnset ==
  /\ pc = "choose"
  /\ IF i \in DOMAIN uuids /\ ~uuids[i] THEN Abort /\ UNCHANGED boot
     ELSE IF i \notin DOMAIN sequences
       THEN Compare(0) /\ UNCHANGED sequences
     ELSE IF sequences[i] = -1
       THEN pc' = "recover"
            /\ UNCHANGED <<i, x, sequences, uuids, latest, best, boot>>
     ELSE Compare(sequences[i]) /\ UNCHANGED sequences
  /\ UNCHANGED <<data, misled>>

\* One pod of the choice.  A list that is too short is an unbound variable,
\* which ends the script.
Choose ==
  /\ pc = "choose"
  /\ IF i \notin DOMAIN uuids \/ i \notin DOMAIN sequences \/ ~uuids[i]
       THEN Abort /\ UNCHANGED boot
     ELSE IF sequences[i] = -1
       THEN pc' = "recover"
            /\ UNCHANGED <<i, x, sequences, uuids, latest, best, boot>>
     ELSE Compare(sequences[i]) /\ UNCHANGED sequences
  /\ UNCHANGED <<data, misled>>

\* mysqld --wsrep-recover logs the position in the data, but cannot while
\* another mysqld has them open.  Its failure, too, goes unnoticed.
Recover ==
  /\ pc = "recover"
  /\ \/ logged' = IF i \in up THEN logged ELSE [logged EXCEPT ![i] = pos[i]]
     \/ Fails("recover") /\ UNCHANGED logged
  /\ misled' = (misled \/ logged'[i] # pos[i])
  /\ pc' = "grep"
  /\ UNCHANGED <<up, told, fresh, pos, seqno, boot, i, x, sequences, uuids,
                 latest, best>>

\* grep "Recovered position": the last one of the log, whoever wrote it.
Grep ==
  /\ pc = "grep"
  /\ \/ /\ logged[i] # -2
        /\ sequences' = [sequences EXCEPT ![i] = logged[i]]
        /\ Compare(logged[i])
     \/ /\ logged[i] = -2 \/ Fails("grep")
        /\ Abort /\ UNCHANGED boot
  /\ UNCHANGED <<data, misled>>

\* set_pod_as_bootstrap.  Nothing is done about the other pods' state.txt.
SetBootstrap ==
  /\ pc = "set"
  /\ \/ /\ boot' = boot \cup {best} /\ pc' = "done"
        /\ UNCHANGED <<i, x, sequences, uuids, latest, best>>
     \/ Fails("set") /\ Abort /\ UNCHANGED boot
  /\ UNCHANGED <<data, misled>>

Script ==
  \/ Begin \/ StopAll \/ Test \/ ReadSequence \/ ReadUuid \/ Choose
  \/ Recover \/ Grep \/ SetBootstrap

-----------------------------------------------------------------------------
(* The cluster.                                                            *)

Member == up \ fresh
Latest == Max({pos[p] : p \in Pod})

\* Every member has a transaction when it commits.
Commit ==
  /\ Member # {} /\ Latest < MaxPos
  /\ pos' = [p \in Pod |-> IF p \in Member THEN pos[p] + 1 ELSE pos[p]]
  /\ UNCHANGED <<up, told, fresh, seqno, logged, boot, misled, script>>

\* A pod gets the data of a member: it joins, or monit restarts its mysqld,
\* which logs the position it comes from.  One that is marked would not.
Join(p) ==
  /\ p \notin told /\ p \notin Member /\ p \notin boot
  /\ \E m \in Member : pos' = [pos EXCEPT ![p] = pos[m]]
  /\ up' = up \cup {p} /\ fresh' = fresh \ {p}
  /\ seqno' = [seqno EXCEPT ![p] = -1]
  /\ logged' = IF p \in up THEN logged ELSE [logged EXCEPT ![p] = pos[p]]
  /\ UNCHANGED <<told, boot, misled, script>>

Stopped(p) ==
  /\ p \in up \cap told
  /\ up' = up \ {p}
  /\ seqno' = [seqno EXCEPT ![p] = pos[p]]
  /\ UNCHANGED <<told, fresh, pos, logged, boot, misled, script>>

Crash(p) ==
  /\ p \in up
  /\ up' = up \ {p}
  /\ UNCHANGED <<told, fresh, pos, seqno, logged, boot, misled, script>>

\* Between two runs of the script a pod that it had stopped is restarted ...
Restart(p) ==
  /\ pc \in {"idle", "done", "aborted"} /\ p \in told
  /\ told' = told \ {p} /\ up' = up \ {p}
  /\ UNCHANGED <<fresh, pos, seqno, logged, boot, misled, script>>

\* ... and, if it is marked, makes a cluster of its own data, which it logs;
\* the mark goes.  Others then join it.
Bootstrap(p) ==
  /\ p \in boot \ told /\ Member = {} /\ pos[p] # -1
  /\ up' = up \cup {p} /\ fresh' = fresh \ {p} /\ boot' = boot \ {p}
  /\ seqno' = [seqno EXCEPT ![p] = -1]
  /\ logged' = [logged EXCEPT ![p] = pos[p]]
  /\ UNCHANGED <<told, pos, misled, script>>

\* The upgrade: the new pods form a cluster with the data of the bootstrap,
\* if it has any.  Two marks would make two clusters, of which the model goes
\* on with one, misled as the script was.
NewPods ==
  /\ pc = "done"
  /\ \E b \in boot : /\ pos[b] # -1 /\ pos' = [p \in Pod |-> pos[b]]
                    /\ misled' = (misled /\ boot # {b})
  /\ logged' = pos
  /\ up' = Pod /\ told' = {} /\ fresh' = {} /\ boot' = {}
  /\ seqno' = [p \in Pod |-> -1]
  /\ pc' = "idle" /\ i' = 1 /\ x' = 0
  /\ sequences' = <<>> /\ uuids' = <<>> /\ latest' = 0 /\ best' = 1

Next ==
  \/ Script \/ Commit \/ NewPods
  \/ \E p \in Pod :
       Join(p) \/ Stopped(p) \/ Crash(p) \/ Restart(p) \/ Bootstrap(p)

Spec == Init /\ [][Next]_vars

-----------------------------------------------------------------------------
(* Properties.                                                             *)

\* No committed transaction is ever lost: the pod that the new cluster gets
\* its data from has them all.  In the code: "Find the pod with the highest
\* sequence number".
NothingLost == [][Latest' >= Latest]_vars

\* None is lost by an upgrade unless the script was misled: by a mysqld that
\* outlasted the wait or a check that failed, or by a recovery that failed.
\* Nothing else that fails, crashes, is restarted or run again loses any.
NothingLostUnlessMisled == [][Latest' >= Latest \/ misled]_vars

\* From the first sequence that it reads to the mark that it sets no mysqld
\* runs, of pods stopped first either, unless the script was misled.  In the
\* code: "Once the processes are stopped, the sequences are written to disk".
DoneMeansStopped ==
  pc \in {"sequences", "uuids", "choose", "recover", "grep", "set"}
    => up = {} \/ misled

\* However often the script is run, and whatever is restarted in between, one
\* pod at most will bootstrap unless a run was misled: nothing clears the mark
\* of a former choice, so that a run that chooses otherwise leaves two.  In the
\* code: "When the new pods come up, only that one will have the bootstrap
\* setting in its volume", without the condition.
OneBootstrap == Cardinality(boot) > 1 => misled
=============================================================================
