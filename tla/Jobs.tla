-------------------------------- MODULE Jobs --------------------------------
(***************************************************************************)
(* lib/jobs_processing.py: keywords run in parallel, a process each, which *)
(* put their status into a shared dictionary: execute_process by pid,      *)
(* execute_process_multi_keyword by the time the keyword began.  A pid     *)
(* that has been waited for may be given away again - and starting a       *)
(* process waits for those that have ended - and two processes may read    *)
(* the same time.                                                          *)
(***************************************************************************)
EXTENDS Naturals, Sequences

CONSTANTS
  NumTasks,       (* num_process, or the number of keyword_names            *)
  Pids, Times

ASSUME JobsAssumption ==
  NumTasks \in Nat /\ Pids \subseteq Nat \ {0} /\ Times \subseteq Nat \ {0}

Task == 1..NumTasks
None == "none"

VARIABLES
  by_time,        (* execute_process_multi_keyword                          *)
  started,        (* length of process_list                                 *)
  joined,         (* tasks joined                                           *)
  task,           (* of each: none, begun, running, ended or reaped         *)
  pid, key,       (* of each: its pid, and its key in return_dict, or 0     *)
  passed,         (* of each: none, True, False, or crash (no status)       *)
  return_dict,
  after           (* history: of each, the tasks that had ended when it was *)
                  (* started                                                *)

jvars == <<by_time, started, joined, task, pid, key, passed, return_dict, after>>

JInit ==
  /\ by_time \in BOOLEAN
  /\ started = 0 /\ joined = 0
  /\ task = [t \in Task |-> None]
  /\ pid = [t \in Task |-> 0] /\ key = [t \in Task |-> 0]
  /\ passed = [t \in Task |-> None]
  /\ return_dict = <<>>
  /\ after = [t \in Task |-> {}]

(* task.start(), which first reaps what has ended.                         *)
StartTask ==
  /\ started < NumTasks
  /\ started' = started + 1
  /\ LET now == [t \in Task |-> IF task[t] = "ended" THEN "reaped" ELSE task[t]]
     IN  /\ task' = [now EXCEPT ![started'] = "begun"]
         /\ \E p \in Pids :
              /\ \A t \in 1..started : pid[t] = p => now[t] = "reaped"
              /\ pid' = [pid EXCEPT ![started'] = p]
         /\ after' = [after EXCEPT ![started'] = {t \in Task : now[t] = "reaped"}]
  /\ UNCHANGED <<by_time, joined, key, passed, return_dict>>

(* Time does not run backwards.                                            *)
Clock(c) == \A u \in Task : key[u] <= c

(* execute_keyword takes its pid, execute_keyword_args the time.           *)
TakeKey(t) ==
  /\ task[t] = "begun"
  /\ task' = [task EXCEPT ![t] = "running"]
  /\ \E k \in IF by_time THEN {c \in Times : Clock(c)} ELSE {pid[t]} :
       key' = [key EXCEPT ![t] = k]
  /\ UNCHANGED <<by_time, started, joined, pid, passed, return_dict, after>>

Record(d, k, s) == [x \in DOMAIN d \cup {k} |-> IF x = k THEN s ELSE d[x]]

(* The keyword passes or fails, and its status is recorded.                *)
Finish(t, status) ==
  /\ task[t] = "running"
  /\ task' = [task EXCEPT ![t] = "ended"]
  /\ passed' = [passed EXCEPT ![t] = status]
  /\ return_dict' = Record(return_dict, key[t], status)
  /\ UNCHANGED <<by_time, started, joined, pid, key, after>>

(* The process dies before it has recorded anything.                       *)
Crash(t) ==
  /\ task[t] \in {"begun", "running"}
  /\ task' = [task EXCEPT ![t] = "ended"]
  /\ passed' = [passed EXCEPT ![t] = "crash"]
  /\ UNCHANGED <<by_time, started, joined, pid, key, return_dict, after>>

(* task.join(), in the order of process_list.                              *)
JoinAny ==   \* mutant: join with a timeout, whose result is not looked at
  /\ started = NumTasks /\ joined < NumTasks
  /\ joined' = joined + 1
  /\ UNCHANGED <<by_time, started, task, pid, key, passed, return_dict, after>>

Join ==
  /\ started = NumTasks /\ joined < NumTasks
  /\ task[joined + 1] \in {"ended", "reaped"}
  /\ joined' = joined + 1
  /\ task' = [task EXCEPT ![joined'] = "reaped"]
  /\ UNCHANGED <<by_time, started, pid, key, passed, return_dict, after>>

TaskStep(t) == TakeKey(t) \/ Crash(t) \/ \E s \in {"True", "False"} : Finish(t, s)

JNext == StartTask \/ Join \/ \E t \in Task : TaskStep(t)
JSpec == JInit /\ [][JNext]_jvars

Returned == joined = NumTasks

-----------------------------------------------------------------------------
(* What is returned is a status under the key of each task that lived to   *)
(* record one, and nothing else.  The status under a task's key is its own *)
(* or that of another with the same key, which has overwritten it: where   *)
(* the keys are pids, only a task that was started after this one had      *)
(* ended can do that; where they are times, one that began in the same     *)
(* microsecond.  So a failure can be lost to a later success.              *)
OverwrittenBy(t, u) ==
  /\ u # t /\ key[u] = key[t] /\ return_dict[key[t]] = passed[u]
  /\ by_time \/ t \in after[u]

StatusesAreIn == Returned =>
  LET Recorders == {t \in Task : passed[t] # "crash"}
  IN  /\ DOMAIN return_dict = {key[t] : t \in Recorders}
      /\ \A t \in Recorders :
           return_dict[key[t]] # passed[t] => \E u \in Recorders : OverwrittenBy(t, u)
=============================================================================
