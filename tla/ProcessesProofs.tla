--------------------------- MODULE ProcessesProofs ---------------------------
(***************************************************************************)
(* Proofs about processes: shell_cmd, for any number of attempts and of    *)
(* calls; the end of a program, for any set of processes; its arguments;   *)
(* and keywords that run in parallel, for any number of tasks.             *)
(***************************************************************************)
EXTENDS MCProcesses, TLAPS

-----------------------------------------------------------------------------
(* shell_cmd.                                                              *)

(* While an alarm is set an attempt is under way; communicate waits for a  *)
(* shell that was started; once that has been reaped without a time-out,   *)
(* its status is known; once communicate has returned, its output is, or,  *)
(* after a time-out, at most that of an earlier attempt.                   *)
AlarmPlaced == alarm => pc \in {"wait", "reaped", "restore", "clear"}

Started == pc = "wait" => child # "none"

Reaped ==
  pc \in {"reaped", "restore", "clear", "judge"} /\ ~command_timed_out =>
    child \in {"ok", "bad"} /\ shell_rc # "none"

Collected ==
  pc \in {"restore", "clear", "judge"} => (stdout_buf = "own" <=> ~command_timed_out)

StatusIsOwn ==
  /\ shell_rc # "none" => child \in {"ok", "bad"}
  /\ shell_rc = "ok" => child = "ok"

OutputIsOf ==
  /\ pc \in {"wait", "reaped"} => stdout_buf # "own" /\ ~command_timed_out
  /\ pc = "loop" /\ stdout_buf # "unbound" => attempt >= 1
  /\ pc \notin {"idle", "loop", "killed"} => attempt >= 1
  /\ stdout_buf = "stale" => attempt > 1

Unanswered == pc \notin {"idle", "killed"} => outcome = "none"
Killed     == pc = "killed" => outcome = "none"

(* Without a time_out there is no alarm.                                   *)
Untimed == pc \notin {"idle", "killed"} /\ ~time_out => ~command_timed_out /\ ~alarm

ShInv == /\ Untimed /\ ShTypeOK /\ AlarmPlaced /\ Started /\ Reaped /\ Collected /\ Unanswered
         /\ Killed /\ AnswerIsOf /\ StatusIsOwn /\ OutputIsOf

(* The flags are kept apart: Boolean values are for Zenon.                 *)
Flags == time_out \in BOOLEAN /\ command_timed_out \in BOOLEAN /\ alarm \in BOOLEAN

LEMMA InitShInv == ShInit => ShInv
  <1> SUFFICES ASSUME ShInit PROVE ShInv
      OBVIOUS
  <1>1. Flags
        BY Zenon DEF ShInit, Flags
  <1>2. ShTypeOK
        BY <1>1, ShellAssumption DEF ShellAssumption, Flags, ShInit, ShTypeOK
  <1> QED BY <1>2 DEF ShInit, ShInv, AlarmPlaced, Started, Reaped, Collected, Unanswered,
             Killed, AnswerIsOf, StatusIsOwn, OutputIsOf, Untimed

LEMMA StepShInv == ShInv /\ [ShNext]_shvars => ShInv'
  <1> SUFFICES ASSUME ShInv, [ShNext]_shvars PROVE ShInv'
      OBVIOUS
  <1> USE ShellAssumption DEF ShellAssumption, ShInv, ShTypeOK, AlarmPlaced,
          Started, Reaped, Collected, Unanswered, Killed, AnswerIsOf, StatusIsOwn, OutputIsOf, Untimed
  <1>1. ASSUME NEW t \in BOOLEAN, shell_cmd(t) PROVE ShInv'
    <2>1. Flags'
          BY <1>1, Zenon DEF shell_cmd, Flags
    <2> QED BY <1>1, <2>1 DEF shell_cmd, Flags
  <1>2. CASE Attempt
    <2>1. CASE time_out
      <3>1. Flags'
            BY <1>2, <2>1, Zenon DEF Attempt, Flags
      <3> QED BY <1>2, <2>1, <3>1 DEF Attempt, Popen, Flags
    <2>2. CASE ~time_out
          BY <1>2, <2>2 DEF Attempt, Popen, clock
    <2> QED BY <2>1, <2>2
  <1>3. CASE Fork
        BY <1>3 DEF Fork, Popen, clock
  <1>4. CASE Reap
        BY <1>4 DEF Reap, clock
  <1>5. CASE Collect
        BY <1>5 DEF Collect, clock
  <1>6. CASE Restore
        BY <1>6 DEF Restore, proc
  <1>7. CASE ClearAlarm
        BY <1>7 DEF ClearAlarm, proc
  <1>8. CASE JudgeUnbound
        BY <1>8 DEF JudgeUnbound, Abandon, proc, clock
  <1>9. CASE JudgeSuccess
        BY <1>9 DEF JudgeSuccess, proc, clock
  <1>10. CASE JudgeFailure
    <2>1. CASE AttemptsLeft
          BY <1>10, <2>1 DEF JudgeFailure, AttemptsLeft, Abandon, clock
    <2>2. CASE ~AttemptsLeft
          BY <1>10, <2>2 DEF JudgeFailure, AttemptsLeft, Abandon, clock
    <2> QED BY <2>1, <2>2
  <1>11. CASE AlarmRings
        BY <1>11 DEF AlarmRings, proc
  <1>12. CASE AlarmRingsLate
        BY <1>12 DEF AlarmRingsLate, proc
  <1>13. CASE AlarmKills
        BY <1>13 DEF AlarmKills, proc
  <1>14. CASE kill_cmd
        BY <1>14 DEF kill_cmd, Abandon, proc, clock
  <1>15. CASE CommandEnds
        BY <1>15 DEF CommandEnds, clock
  <1>16. CASE UNCHANGED shvars
        BY <1>16 DEF shvars, proc, clock
  <1> QED
      BY <1>1, <1>2, <1>3, <1>4, <1>5, <1>6, <1>7, <1>8, <1>9, <1>10, <1>11,
         <1>12, <1>13, <1>14, <1>15, <1>16 DEF ShNext, Body, Alarm

LEMMA AlwaysShInv == ShSpec => []ShInv
  BY InitShInv, StepShInv, PTL DEF ShSpec

(* Every variable of shell_cmd keeps its type, and no attempt is made      *)
(* beyond the last.                                                        *)
THEOREM ShellTypeCorrect == ShSpec => []ShTypeOK
  <1>1. ShInv => ShTypeOK
        BY DEF ShInv
  <1> QED BY <1>1, AlwaysShInv, PTL

(* The status of an answer is the last attempt's; its output is too unless *)
(* that attempt was timed out, and then it is an earlier attempt's.        *)
THEOREM AnswersAreOfWhom == ShSpec => []AnswerIsOf
  <1>1. ShInv => AnswerIsOf
        BY DEF ShInv
  <1> QED BY <1>1, AlwaysShInv, PTL

(* No alarm is set when no call is under way.                              *)
THEOREM NoAlarmIsLeft == ShSpec => []LeavesNoAlarm
  <1>1. ShInv => LeavesNoAlarm
        BY DEF ShInv, AlarmPlaced, LeavesNoAlarm
  <1> QED BY <1>1, AlwaysShInv, PTL

(* shell_cmd leaves no alarm, and answers with its last attempt's status   *)
(* and output but for the output of an attempt that was cut short, for any *)
(* number of attempts and calls.                                           *)
THEOREM CommandAlwaysAnswers == ShSpec => []CommandAnswers
<1>1. ShTypeOK /\ AnswerIsOf /\ LeavesNoAlarm => CommandAnswers
  BY DEF CommandAnswers
<1> QED BY <1>1, ShellTypeCorrect, AnswersAreOfWhom, NoAlarmIsLeft, PTL

-----------------------------------------------------------------------------
(* The arguments.                                                          *)

(* While validate_parms runs, __builtin__ agrees with the globals but for  *)
(* the arguments that were assigned plainly.                               *)
ArgInv ==
  /\ gat \in {"options", "validate", "done", "usage"}
  /\ globals \in [Arg -> ArgValue] /\ builtins \in [Stock -> ArgValue]
  /\ gat \in {"validate", "done"} =>
       \A a \in Stock \ plain : builtins[a] = globals[a]
  /\ gat = "done" => arg_obj = globals

(* Once gen_setup is done arg_obj has the value of the global for every    *)
(* argument, and __builtin__ for every one of the stock_list that was not  *)
(* assigned plainly, for any arguments and any number of assignments.      *)
THEOREM ArgumentsAreSynced == ASpec => []StaleOnlyIfAssigned
<1>1. AInit => ArgInv
  BY DEF AInit, ArgInv
<1>2. ArgInv /\ [ANext]_avars => ArgInv'
  <2> SUFFICES ASSUME ArgInv, [ANext]_avars PROVE ArgInv'
    OBVIOUS
  <2> USE DEF ArgInv
  <2>1. CASE UsageError
    BY <2>1 DEF UsageError
  <2>2. CASE gen_get_options
    BY <2>2 DEF gen_get_options, Arg
  <2>3. CASE sync_args
    BY <2>3 DEF sync_args
  <2>4. ASSUME NEW a \in Arg, NEW v \in ArgValue, set_pgm_arg(a, v)
        PROVE  ArgInv'
    <3>1. /\ gat = "validate" /\ gat' = "validate"
          /\ globals' = [globals EXCEPT ![a] = v]
      BY <2>4 DEF set_pgm_arg
    <3>2. CASE a \in Copied
      <4>1. builtins' = [builtins EXCEPT ![a] = v] /\ plain' = plain \ {a}
        BY <2>4, <3>2 DEF set_pgm_arg
      <4> QED BY <3>1, <3>2, <4>1 DEF Arg, Copied
    <3>3. CASE a \notin Copied
      <4>1. builtins' = builtins /\ plain' = plain \cup {a}
        BY <2>4, <3>3 DEF set_pgm_arg
      <4> QED BY <3>1, <4>1 DEF Arg
    <3> QED BY <3>2, <3>3
  <2>5. ASSUME NEW a \in Arg, NEW v \in ArgValue, Assign(a, v)
        PROVE  ArgInv'
    BY <2>5 DEF Assign, Arg
  <2>6. CASE UNCHANGED avars
    BY <2>6 DEF avars
  <2> QED BY <2>1, <2>2, <2>3, <2>4, <2>5, <2>6 DEF ANext
<1>3. ArgInv => StaleOnlyIfAssigned
  BY DEF ArgInv, StaleOnlyIfAssigned
<1> QED BY <1>1, <1>2, <1>3, PTL DEF ASpec

-----------------------------------------------------------------------------
(* Keywords in parallel.                                                   *)
JTypes ==
  /\ by_time \in BOOLEAN /\ started \in 0..NumTasks /\ joined \in 0..NumTasks
  /\ task \in [Task -> {None, "begun", "running", "ended", "reaped"}]
  /\ passed \in [Task -> {None, "True", "False", "crash"}]
  /\ key = [t \in Task |-> key[t]] /\ pid = [t \in Task |-> pid[t]]
  /\ after \in [Task -> SUBSET Task]

(* A task has an outcome from the moment it ends; those joined have ended; *)
(* none is joined before all are started.                                  *)
Outcomes ==
  /\ \A t \in Task : t > started => task[t] = None
  /\ joined > 0 => started = NumTasks
  /\ \A t \in Task : passed[t] = None <=> task[t] \in {None, "begun", "running"}
  /\ \A t \in 1..joined : task[t] \in {"ended", "reaped"}

(* Of two tasks with one pid, the one had ended when the other was started.*)
Order ==
  /\ \A t, u \in Task : t \in after[u] => task[t] \in {"ended", "reaped"}
  /\ \A t, u \in 1..started : t # u /\ pid[t] = pid[u] => t \in after[u] \/ u \in after[t]

PidIsKey ==
  ~by_time => \A t \in Task :
    task[t] = "running" \/ passed[t] \in {"True", "False"} => key[t] = pid[t]

(* What is in the dictionary was recorded by a task that has the key, and  *)
(* which is the last of those that have it.                                *)
Recorder(t) == passed[t] \in {"True", "False"}
LastOfKey(u, x) ==
  /\ Recorder(u) /\ key[u] = x /\ passed[u] = return_dict[x]
  /\ \A t \in Task : Recorder(t) /\ key[t] = x /\ t # u => by_time \/ t \in after[u]
Recorded ==
  /\ DOMAIN return_dict = {key[t] : t \in {v \in Task : Recorder(v)}}
  /\ \A x \in DOMAIN return_dict : \E u \in Task : LastOfKey(u, x)

JInv == JTypes /\ Outcomes /\ Order /\ PidIsKey /\ Recorded

(* One lemma for each step.                                                *)
LEMMA StartKeeps ==
  ASSUME JInv, StartTask
  PROVE  JInv'
<1> USE JobsAssumption DEF Task, None
<1> DEFINE now == [t \in Task |-> IF task[t] = "ended" THEN "reaped" ELSE task[t]]
           n   == started + 1
<1>1. /\ started < NumTasks /\ started' = n
      /\ task' = [now EXCEPT ![n] = "begun"]
      /\ after' = [after EXCEPT ![n] = {t \in Task : now[t] = "reaped"}]
      /\ UNCHANGED <<by_time, joined, key, passed, return_dict>>
  BY DEF StartTask
<1>2. PICK p \in Pids : /\ \A t \in 1..started : pid[t] = p => now[t] = "reaped"
                        /\ pid' = [pid EXCEPT ![n] = p]
  BY DEF StartTask
<1>3. n \in Task /\ task[n] = None /\ passed[n] = None /\ joined = 0 /\ started \in Nat
  BY <1>1 DEF JInv, JTypes, Outcomes
<1>4. /\ \A t \in Task \ {n} : task'[t] = IF task[t] = "ended" THEN "reaped" ELSE task[t]
      /\ task'[n] = "begun"
      /\ task' \in [Task -> {None, "begun", "running", "ended", "reaped"}]
  BY <1>1, <1>3 DEF JInv, JTypes
<1>5. /\ \A t \in Task \ {n} : after'[t] = after[t] /\ pid'[t] = pid[t]
      /\ after'[n] = {t \in Task : now[t] = "reaped"} /\ pid'[n] = p
      /\ after' \in [Task -> SUBSET Task] /\ pid' = [t \in Task |-> pid'[t]]
  BY <1>1, <1>2, <1>3 DEF JInv, JTypes
<1>6. \A t \in Task : now[t] = "reaped" => t # n /\ task[t] \in {"ended", "reaped"}
  BY <1>3
<1> HIDE DEF now
<1>7. \A t \in Task : task[t] \in {"ended", "reaped"} => t # n /\ task'[t] \in {"ended", "reaped"}
  BY <1>3, <1>4
<1>8. JTypes'
  BY <1>1, <1>3, <1>4, <1>5 DEF JInv, JTypes
<1>9. Outcomes'
  <2>1. \A t \in Task : t > started' => task'[t] = None
    BY <1>1, <1>3, <1>4 DEF JInv, Outcomes
  <2>2. \A t \in Task : passed'[t] = None <=> task'[t] \in {None, "begun", "running"}
    BY <1>1, <1>3, <1>4 DEF JInv, Outcomes, JTypes
  <2>3. joined' = 0
    BY <1>1, <1>3
  <2> QED BY <2>1, <2>2, <2>3 DEF Outcomes
<1>10. Order'
  <2>1. ASSUME NEW t \in Task, NEW u \in Task, t \in after'[u]
        PROVE  task'[t] \in {"ended", "reaped"}
    <3>1. CASE u = n
      BY <2>1, <3>1, <1>5, <1>6, <1>7
    <3>2. CASE u # n
      BY <2>1, <3>2, <1>5, <1>7 DEF JInv, Order
    <3> QED BY <3>1, <3>2
  <2>2. ASSUME NEW t \in 1..n, NEW u \in 1..n, t # u, pid'[t] = pid'[u]
        PROVE  t \in after'[u] \/ u \in after'[t]
    <3>1. t \in Task /\ u \in Task /\ (t # n => t \in 1..started) /\ (u # n => u \in 1..started)
      BY <1>1, <1>3
    <3>2. CASE u = n
      BY <2>2, <3>1, <3>2, <1>2, <1>5
    <3>3. CASE t = n
      BY <2>2, <3>1, <3>3, <1>2, <1>5
    <3>4. CASE t # n /\ u # n
      BY <2>2, <3>1, <3>4, <1>5 DEF JInv, Order
    <3> QED BY <3>2, <3>3, <3>4
  <2> QED BY <2>1, <2>2, <1>1 DEF Order
<1>11. PidIsKey'
  <2>1. ASSUME ~by_time, NEW t \in Task, task'[t] = "running" \/ passed[t] \in {"True", "False"}
        PROVE  t # n /\ key[t] = pid[t]
    BY <2>1, <1>3, <1>4 DEF JInv, PidIsKey
  <2> QED BY <2>1, <1>1, <1>5 DEF PidIsKey
<1>12. Recorded'
  <2>1. ASSUME NEW x \in DOMAIN return_dict, NEW u \in Task, LastOfKey(u, x)
        PROVE  LastOfKey(u, x)'
    <3>1. u # n
      BY <2>1, <1>3 DEF LastOfKey, Recorder
    <3> QED BY <2>1, <3>1, <1>1, <1>5 DEF LastOfKey, Recorder
  <2> QED BY <2>1, <1>1 DEF JInv, Recorded, Recorder
<1> QED BY <1>8, <1>9, <1>10, <1>11, <1>12 DEF JInv

LEMMA TakeKeeps ==
  ASSUME JInv, NEW t \in Task, TakeKey(t)
  PROVE  JInv'
<1> USE JobsAssumption DEF Task, None
<1>1. PICK k : key' = [key EXCEPT ![t] = k] /\ (~by_time => k = pid[t])
  BY DEF TakeKey
<1>2. /\ task[t] = "begun" /\ task' = [task EXCEPT ![t] = "running"]
      /\ UNCHANGED <<by_time, started, joined, pid, passed, return_dict, after>>
  BY DEF TakeKey
<1>3. key' = [u \in Task |-> key'[u]] /\ key'[t] = k
  BY <1>1 DEF JInv, JTypes
<1>4. passed[t] = None /\ \A u \in Task \ {t} : key'[u] = key[u] /\ task'[u] = task[u]
  BY <1>1, <1>2 DEF JInv, JTypes, Outcomes
<1>5. task' \in [Task -> {None, "begun", "running", "ended", "reaped"}] /\ task'[t] = "running"
  BY <1>2 DEF JInv, JTypes
<1>6. JTypes'
  BY <1>2, <1>3, <1>5 DEF JInv, JTypes
<1>7. Outcomes'
  BY <1>2, <1>4, <1>5 DEF JInv, Outcomes, JTypes
<1>8. Order'
  BY <1>2, <1>4, <1>5 DEF JInv, Order
<1>9. PidIsKey'
  BY <1>1, <1>2, <1>3, <1>4 DEF JInv, PidIsKey
<1>10. Recorded'
  <2>1. \A u \in Task : Recorder(u) => u # t /\ key'[u] = key[u]
    BY <1>4 DEF Recorder
  <2>2. ASSUME NEW x \in DOMAIN return_dict, NEW u \in Task, LastOfKey(u, x)
        PROVE  LastOfKey(u, x)'
    BY <2>1, <2>2, <1>2 DEF LastOfKey, Recorder
  <2>3. {key'[u] : u \in {v \in Task : Recorder(v)}} = {key[u] : u \in {v \in Task : Recorder(v)}}
    BY <2>1
  <2> QED BY <2>2, <2>3, <1>2 DEF JInv, Recorded, Recorder
<1> QED BY <1>6, <1>7, <1>8, <1>9, <1>10 DEF JInv

LEMMA FinishKeeps ==
  ASSUME JInv, NEW t \in Task, NEW s \in {"True", "False"}, Finish(t, s)
  PROVE  JInv'
<1> USE JobsAssumption DEF Task, None
<1>1. /\ task[t] = "running" /\ task' = [task EXCEPT ![t] = "ended"]
      /\ passed' = [passed EXCEPT ![t] = s]
      /\ UNCHANGED <<by_time, started, joined, pid, key, after>>
  BY DEF Finish
<1>2. /\ DOMAIN return_dict' = DOMAIN return_dict \cup {key[t]}
      /\ return_dict'[key[t]] = s
      /\ \A x \in DOMAIN return_dict \ {key[t]} : return_dict'[x] = return_dict[x]
  BY DEF Finish, Record
<1>3. /\ passed[t] = None /\ ~Recorder(t) /\ Recorder(t)' /\ passed'[t] = s /\ task'[t] = "ended"
      /\ \A u \in Task \ {t} : passed'[u] = passed[u] /\ task'[u] = task[u]
  BY <1>1 DEF JInv, JTypes, Outcomes, Recorder
<1>4. \A u \in Task : Recorder(u)' <=> u = t \/ Recorder(u)
  BY <1>3 DEF Recorder
<1>5. JTypes' /\ Outcomes'
  BY <1>1 DEF JInv, JTypes, Outcomes
<1>6. Order'
  BY <1>1, <1>3 DEF JInv, Order
<1>7. PidIsKey'
  BY <1>1, <1>3 DEF JInv, PidIsKey
<1>8. LastOfKey(t, key[t])'
  <2>1. ASSUME NEW u \in Task, Recorder(u), key[u] = key[t], u # t, ~by_time
        PROVE  u \in after[t]
    <3>1. pid[u] = pid[t]
      BY <2>1, <1>1 DEF JInv, PidIsKey, Recorder
    <3>2. t \in 1..started /\ u \in 1..started
      <4>1. task[t] # None /\ task[u] # None
        BY <2>1, <1>1 DEF JInv, Outcomes, Recorder
      <4>2. started \in Nat /\ ~(t > started) /\ ~(u > started)
        BY <4>1 DEF JInv, JTypes, Outcomes
      <4> QED BY <4>2
    <3>3. t \notin after[u]
      BY <1>1 DEF JInv, Order
    <3> QED BY <2>1, <3>1, <3>2, <3>3 DEF JInv, Order
  <2>2. ASSUME NEW u \in Task, Recorder(u)', key'[u] = key[t], u # t
        PROVE  by_time' \/ u \in after'[t]
    BY <2>1, <2>2, <1>1, <1>4
  <2> QED BY <2>2, <1>1, <1>2, <1>3 DEF LastOfKey
<1>9. ASSUME NEW x \in DOMAIN return_dict, x # key[t], NEW u \in Task, LastOfKey(u, x)
      PROVE  LastOfKey(u, x)'
  <2>1. u # t /\ Recorder(u)' /\ passed'[u] = passed[u]
    BY <1>9, <1>3, <1>4 DEF LastOfKey
  <2>2. ASSUME NEW v \in Task, Recorder(v)', key'[v] = x, v # u
        PROVE  by_time' \/ v \in after'[u]
    BY <2>2, <1>1, <1>4, <1>9 DEF LastOfKey
  <2> QED BY <2>1, <2>2, <1>1, <1>2, <1>9 DEF LastOfKey
<1>10. DOMAIN return_dict' = {key'[u] : u \in {v \in Task : Recorder(v)'}}
  <2>1. {key'[u] : u \in {v \in Task : Recorder(v)'}}
          = {key[u] : u \in {v \in Task : Recorder(v)}} \cup {key[t]}
    BY <1>1, <1>4
  <2> QED BY <2>1, <1>2 DEF JInv, Recorded
<1>11. ASSUME NEW x \in DOMAIN return_dict' PROVE \E u \in Task : LastOfKey(u, x)'
  <2>1. CASE x = key[t]
    <3>1. LastOfKey(t, x)'
      BY <2>1, <1>8, <1>1 DEF LastOfKey
    <3> QED BY <3>1
  <2>2. CASE x # key[t]
    <3>1. x \in DOMAIN return_dict
      BY <2>2, <1>2, <1>11
    <3>2. PICK u \in Task : LastOfKey(u, x)
      BY <3>1 DEF JInv, Recorded
    <3> QED BY <2>2, <3>1, <3>2, <1>9
  <2> QED BY <2>1, <2>2
<1>12. Recorded'
  BY <1>10, <1>11 DEF Recorded
<1> QED BY <1>5, <1>6, <1>7, <1>12 DEF JInv

LEMMA CrashKeeps ==
  ASSUME JInv, NEW t \in Task, Crash(t)
  PROVE  JInv'
<1> USE JobsAssumption DEF Task, None
<1>1. /\ task[t] \in {"begun", "running"} /\ task' = [task EXCEPT ![t] = "ended"]
      /\ passed' = [passed EXCEPT ![t] = "crash"]
      /\ UNCHANGED <<by_time, started, joined, pid, key, return_dict, after>>
  BY DEF Crash
<1>2. JTypes' /\ Outcomes'
  BY <1>1 DEF JInv, JTypes, Outcomes
<1>3. /\ passed[t] = None /\ passed'[t] = "crash" /\ task'[t] = "ended"
      /\ \A u \in Task \ {t} : passed'[u] = passed[u] /\ task'[u] = task[u]
  BY <1>1 DEF JInv, JTypes, Outcomes
<1>4. \A u \in Task : (Recorder(u)' <=> Recorder(u)) /\ (Recorder(u) => passed'[u] = passed[u])
  BY <1>3 DEF Recorder
<1>5. Order'
  BY <1>1, <1>3 DEF JInv, Order
<1>6. PidIsKey'
  BY <1>1, <1>3 DEF JInv, PidIsKey
<1>7. ASSUME NEW x \in DOMAIN return_dict, NEW u \in Task, LastOfKey(u, x)
      PROVE  LastOfKey(u, x)'
  BY <1>1, <1>4, <1>7 DEF LastOfKey
<1>8. {v \in Task : Recorder(v)'} = {v \in Task : Recorder(v)}
  BY <1>4
<1>9. Recorded'
  BY <1>1, <1>7, <1>8 DEF JInv, Recorded
<1> QED BY <1>2, <1>5, <1>6, <1>9 DEF JInv

LEMMA JoinKeeps == ASSUME JInv, Join PROVE JInv'
<1> USE JobsAssumption DEF Task, None
<1>1. /\ started = NumTasks /\ joined < NumTasks /\ joined' = joined + 1
      /\ task[joined + 1] \in {"ended", "reaped"}
      /\ task' = [task EXCEPT ![joined + 1] = "reaped"]
      /\ UNCHANGED <<by_time, started, pid, key, passed, return_dict, after>>
  BY DEF Join
<1>2. \A t \in Task : task'[t] = IF t = joined + 1 THEN "reaped" ELSE task[t]
  BY <1>1 DEF JInv, JTypes
<1>3. JTypes' /\ Outcomes'
  <2>1. started \in Nat /\ joined \in Nat /\ NumTasks \in Nat /\ joined' \in 0..NumTasks
    BY <1>1 DEF JInv, JTypes
  <2>2. task' \in [Task -> {None, "begun", "running", "ended", "reaped"}]
    BY <1>1 DEF JInv, JTypes
  <2>3. JTypes'
    BY <1>1, <2>1, <2>2 DEF JInv, JTypes
  <2>4. joined + 1 \in Task /\ task'[joined + 1] = "reaped"
    BY <1>1, <1>2, <2>1
  <2>5. \A t \in Task : passed'[t] = None <=> task'[t] \in {None, "begun", "running"}
    BY <1>1, <1>2, <2>4 DEF JInv, Outcomes
  <2>6. \A t \in 1..joined' : t = joined + 1 \/ t \in 1..joined
    BY <1>1, <2>1
  <2>7. \A t \in 1..joined' : task'[t] \in {"ended", "reaped"}
    <3>1. 1..joined' \subseteq Task
      BY <2>1
    <3> QED BY <1>2, <2>6, <3>1 DEF JInv, Outcomes
  <2>8. \A t \in Task : ~(t > started')
    BY <1>1, <2>1
  <2> QED BY <1>1, <2>3, <2>5, <2>7, <2>8 DEF Outcomes
<1>4. Order'
  BY <1>1, <1>2 DEF JInv, Order
<1>5. PidIsKey'
  BY <1>1, <1>2 DEF JInv, PidIsKey
<1>6. Recorded'
  BY <1>1 DEF JInv, Recorded, LastOfKey, Recorder
<1> QED BY <1>3, <1>4, <1>5, <1>6 DEF JInv

LEMMA JStep == JInv /\ [JNext]_jvars => JInv'
<1> SUFFICES ASSUME JInv, [JNext]_jvars PROVE JInv'
  OBVIOUS
<1>1. CASE StartTask
  BY <1>1, StartKeeps
<1>2. CASE Join
  BY <1>2, JoinKeeps
<1>3. ASSUME NEW t \in Task, TaskStep(t) PROVE JInv'
  BY <1>3, TakeKeeps, FinishKeeps, CrashKeeps DEF TaskStep
<1>4. CASE UNCHANGED jvars
  BY <1>4 DEF jvars, JInv, JTypes, Outcomes, Order, PidIsKey, Recorded, LastOfKey, Recorder
<1> QED BY <1>1, <1>2, <1>3, <1>4 DEF JNext

(* When the statuses are returned, there is one under the key of each task *)
(* that lived to record its own, and it is its own unless another with the *)
(* same key came later, which for pids means after it had ended: for any   *)
(* number of tasks, any use of pids again and any clock that does not run  *)
(* back.                                                                   *)
THEOREM StatusesAreReturned == JSpec => []StatusesAreIn
<1>1. JInit => JInv
  <2> SUFFICES ASSUME JInit PROVE JInv
    OBVIOUS
  <2> USE JobsAssumption DEF JInit, Task, None
  <2>1. JTypes /\ Outcomes /\ Order /\ PidIsKey
    BY DEF JTypes, Outcomes, Order, PidIsKey
  <2>2. \A t \in Task : ~Recorder(t)
    BY DEF Recorder
  <2>3. Recorded
    BY <2>2 DEF Recorded
  <2> QED BY <2>1, <2>3 DEF JInv
<1>2. JInv => StatusesAreIn
  <2> SUFFICES ASSUME JInv, Returned PROVE StatusesAreIn
    BY DEF StatusesAreIn
  <2> DEFINE Recorders == {t \in Task : passed[t] # "crash"}
  <2>1. \A t \in Task : task[t] \in {"ended", "reaped"}
    BY DEF JInv, Outcomes, Returned, Task
  <2>2. \A t \in Task : passed[t] # "crash" <=> Recorder(t)
    BY <2>1 DEF JInv, JTypes, Outcomes, None, Recorder
  <2>3. Recorders = {t \in Task : Recorder(t)}
    BY <2>2
  <2>4. DOMAIN return_dict = {key[t] : t \in Recorders}
    BY <2>3 DEF JInv, Recorded
  <2>5. ASSUME NEW t \in Recorders, return_dict[key[t]] # passed[t]
        PROVE  \E u \in Recorders : OverwrittenBy(t, u)
    <3>1. PICK u \in Task : LastOfKey(u, key[t])
      BY <2>4 DEF JInv, Recorded
    <3>2. u # t /\ u \in Recorders /\ Recorder(t)
      BY <2>2, <2>5, <3>1 DEF LastOfKey
    <3> QED BY <3>1, <3>2 DEF LastOfKey, OverwrittenBy
  <2> QED BY <2>4, <2>5 DEF StatusesAreIn
<1> QED BY <1>1, <1>2, JStep, PTL DEF JSpec

-----------------------------------------------------------------------------
(* The end of a program.                                                   *)

(* T holds the children of the program and of its members.                 *)
Closed(T) == Below({"program"}) \cup Below(T) \subseteq T

(* Until the list is made, each process that runs and has not been         *)
(* orphaned is below the program.                                          *)
Reach == ~Listed =>
  \A T \in SUBSET Proc : Closed(T) => live \ lost \subseteq T

(* From then until the wait is over, what runs is on the list, was         *)
(* orphaned before it was made, or was started since; afterwards it is not *)
(* on the list.                                                            *)
OnTheList ==
  /\ xat \in {"select", "terminate", "wait"} =>
       live \subseteq descendants \cup lost \cup late
  /\ (xat = "report" \/ exit_function = "done") /\ term_options # "None" =>
       live \subseteq lost \cup late
  /\ exit_function = "done" => xat = "ended"

Births == live \cup zombies \cup unborn \subseteq Proc

ListIsUsed == xat \in {"select", "terminate", "wait", "report"} => descendants # {}

XInv == XTypeOK /\ Births /\ ListIsUsed /\ Reach /\ OnTheList

(* Steps of the exit function leave the processes as they are.             *)
LEMMA ReachSame ==
  ASSUME Reach, UNCHANGED <<live, zombies, parent, lost>>, Listed => Listed'
  PROVE  Reach'
  BY DEF Reach, Closed, Below

(* A process started by one of those reached is reached.                   *)
LEMMA ReachStart ==
  ASSUME XInv, NEW p \in Proc, NEW by \in Proc \cup {"program"}, Start(p, by)
  PROVE  Reach'
<1>1. /\ p \in unborn /\ live' = live \cup {p} /\ zombies' = zombies /\ xat' = xat
      /\ parent' = [parent EXCEPT ![p] = by]
      /\ lost' = IF by \in lost THEN lost \cup {p} ELSE lost
      /\ by = "program" \/ by \in live
  BY DEF Start, history
<1>2. /\ p \notin live /\ p \notin zombies
      /\ parent'[p] = by /\ \A q \in Proc \ {p} : parent'[q] = parent[q]
      /\ live \cup zombies \subseteq Proc
  BY <1>1 DEF XInv, XTypeOK, Births
<1> SUFFICES ASSUME ~Listed, NEW T \in SUBSET Proc, Closed(T)'
             PROVE  live' \ lost' \subseteq T
  BY <1>1 DEF Reach, Listed
<1>3. Closed(T)
  BY <1>1, <1>2 DEF Closed, Below
<1>4. live \ lost \subseteq T
  BY <1>3 DEF XInv, Reach
<1>5. CASE by \in lost
  BY <1>1, <1>4, <1>5
<1>6. CASE by \notin lost
  <2>1. by = "program" \/ by \in T
    BY <1>1, <1>4, <1>6
  <2>2. p \in T
    BY <1>1, <1>2, <2>1 DEF Closed, Below
  <2> QED BY <1>1, <1>4, <1>6, <2>2
<1> QED BY <1>5, <1>6

(* What ends orphans those below it and no other.                          *)
LEMMA ReachEnds ==
  ASSUME XInv, NEW p \in Proc, Ends(p)
  PROVE  Reach'
<1>1. /\ p \in live /\ live' = live \ {p} /\ xat' = xat
      /\ zombies' = IF parent[p] = "program" THEN zombies \cup {p} ELSE zombies
      /\ \A q \in Proc : parent'[q] = IF parent[q] = p THEN "init" ELSE parent[q]
      /\ lost' = IF Listed THEN lost ELSE lost \cup AllBelow({p})
  BY DEF Ends
<1>2. live \cup zombies \subseteq Proc /\ "program" # p
  BY ProcAssumption DEF XInv, Births
<1> SUFFICES ASSUME ~Listed, NEW T \in SUBSET Proc, Closed(T)',
                    NEW q \in live', q \notin lost'
             PROVE  q \in T
  BY <1>1 DEF Reach, Listed
<1>3. q \in live /\ q # p /\ q \notin lost /\ q \notin AllBelow({p})
  BY <1>1
<1>4. PICK U \in SUBSET Proc : Below({p}) \cup Below(U) \subseteq U /\ q \notin U
  BY <1>2, <1>3 DEF AllBelow
<1> DEFINE V == T \cup U \cup {p}
<1>5. V \in SUBSET Proc
  OBVIOUS
<1>6. Closed(V)
  <2> SUFFICES ASSUME NEW r \in live \cup zombies, parent[r] = "program" \/ parent[r] \in V
               PROVE  r \in V
    BY DEF Closed, Below
  <2>1. CASE r = p
    BY <2>1
  <2>2. CASE parent[r] = p
    BY <1>4, <2>2 DEF Below
  <2>3. CASE parent[r] \in U
    BY <1>4, <2>3 DEF Below
  <2>4. CASE r # p /\ parent[r] # p /\ (parent[r] = "program" \/ parent[r] \in T)
    <3>1. r \in live' \cup zombies' /\ parent'[r] = parent[r]
      BY <1>1, <1>2, <2>4
    <3>2. r \in T
      BY <2>4, <3>1 DEF Closed, Below
    <3> QED BY <3>2
  <2> QED BY <2>1, <2>2, <2>3, <2>4
<1>7. q \in V
  BY <1>3, <1>5, <1>6 DEF XInv, Reach
<1> QED BY <1>3, <1>4, <1>7

(* A zombie that is waited for had no children any more.                   *)
LEMMA ReachReaped ==
  ASSUME XInv, NEW Z, Z \subseteq zombies, zombies' = zombies \ Z,
         UNCHANGED <<live, parent, lost, xat>>
  PROVE  Reach'
<1> SUFFICES ASSUME ~Listed, NEW T \in SUBSET Proc, Closed(T)'
             PROVE  live \ lost \subseteq T
  BY DEF Reach, Listed
<1> DEFINE V == T \cup zombies
<1>1. V \in SUBSET Proc
  BY DEF XInv, Births
<1>2. Closed(V)
  <2> SUFFICES ASSUME NEW r \in live, parent[r] = "program" \/ parent[r] \in V
               PROVE  r \in T
    BY DEF Closed, Below
  <2>1. parent[r] = "program" \/ parent[r] \in T
    <3>1. parent[r] \in live \cup {"program", "init"}
      BY DEF XInv, XTypeOK
    <3>2. "init" \notin zombies /\ live \cap zombies = {}
      BY ProcAssumption DEF XInv, XTypeOK, Births
    <3> QED BY <3>1, <3>2
  <2> QED BY <2>1 DEF Closed, Below
<1>3. live \ lost \subseteq V /\ live \cap zombies = {}
  BY <1>1, <1>2 DEF XInv, XTypeOK, Reach
<1> QED BY <1>3

(* The steps of the processes.                                             *)
LEMMA WorldSteps ==
  ASSUME XInv,
         \/ \E p \in Proc : Ends(p) \/ \E by \in Proc \cup {"program"} : Start(p, by)
         \/ ReapEnded
  PROVE  XInv'
<1> USE DEF XInv, Births, ListIsUsed
<1>1. ASSUME NEW p \in Proc, Ends(p) PROVE XInv'
  <2>1. /\ p \in live /\ live' = live \ {p} /\ lost \subseteq lost'
        /\ zombies' = IF parent[p] = "program" THEN zombies \cup {p} ELSE zombies
        /\ parent' = [q \in Proc |-> IF parent[q] = p THEN "init" ELSE parent[q]]
        /\ UNCHANGED <<xat, term_options, unborn, descendants, term_processes,
                       sigterm, late, exit_function>>
    BY <1>1 DEF Ends, asking
  <2>2. XTypeOK'
    <3>1. \A q \in live' : parent'[q] \in live' \cup {"program", "init"}
      BY <2>1 DEF XTypeOK
    <3>2. parent' \in [Proc -> Proc \cup {"none", "program", "init"}]
      BY <2>1 DEF XTypeOK
    <3> QED BY <2>1, <3>1, <3>2 DEF XTypeOK
  <2>3. OnTheList'
    BY <2>1 DEF OnTheList
  <2> QED BY <1>1, <2>1, <2>2, <2>3, ReachEnds
<1>2. ASSUME NEW p \in Proc, NEW by \in Proc \cup {"program"}, Start(p, by)
      PROVE  XInv'
  <2>1. /\ p \in unborn /\ unborn' = unborn \ {p} /\ live' = live \cup {p}
        /\ parent' = [parent EXCEPT ![p] = by] /\ lost \subseteq lost'
        /\ late' = IF Listed THEN late \cup {p} ELSE late
        /\ IF by = "program" THEN xat = "run" ELSE by \in live /\ xat # "ended"
        /\ UNCHANGED <<xat, term_options, zombies, descendants, term_processes,
                       sigterm, exit_function>>
    BY <1>2 DEF Start, asking
  <2>2. XTypeOK'
    <3>1. parent' \in [Proc -> Proc \cup {"none", "program", "init"}]
      BY <2>1 DEF XTypeOK
    <3>2. \A q \in live' : parent'[q] \in live' \cup {"program", "init"}
      BY <2>1 DEF XTypeOK
    <3> QED BY <2>1, <3>1, <3>2 DEF XTypeOK
  <2>3. OnTheList'
    BY <2>1 DEF OnTheList, Listed
  <2> QED BY <1>2, <2>1, <2>2, <2>3, ReachStart
<1>3. CASE ReapEnded
  <2>1. /\ zombies' = zombies \ zombies
        /\ UNCHANGED <<xat, term_options, unborn, live, parent, descendants,
                       term_processes, sigterm, lost, late, exit_function>>
    BY <1>3 DEF ReapEnded, asking, history
  <2>2. Reach'
    BY <2>1, ReachReaped
  <2> QED BY <2>1, <2>2 DEF XTypeOK, OnTheList
<1> QED BY <1>1, <1>2, <1>3

(* The steps of the program leave the processes as they are but for those  *)
(* that have been waited for.                                              *)
LEMMA ProgramSteps ==
  ASSUME XInv,
         \/ gen_post_validation \/ MainEnds \/ Signal \/ ExitStep
         \/ \E r \in {"None", "children", "descendants", "pgm_names"} : set_term_options(r)
  PROVE  XInv'
<1> USE DEF XInv, Births, ListIsUsed
<1>1. CASE gen_post_validation \/ MainEnds \/ Signal
  <2>1. UNCHANGED <<term_options, unborn, live, zombies, parent, descendants,
                    term_processes, sigterm, lost, late>>
    BY <1>1 DEF gen_post_validation, MainEnds, Signal, world, asking, history
  <2>2. \/ xat = "setup" /\ xat' = "registered" /\ exit_function' = exit_function
        \/ xat \in {"registered", "run"} /\ xat' = "exit" /\ exit_function' = exit_function
        \/ xat # "ended" /\ xat' = "ended" /\ exit_function' = "skipped"
    BY <1>1 DEF gen_post_validation, MainEnds, Signal, Skips
  <2>3. Reach'
    BY <2>1, <2>2, ReachSame DEF Listed
  <2> QED BY <2>1, <2>2, <2>3 DEF XTypeOK, OnTheList
<1>2. ASSUME NEW r \in {"None", "children", "descendants", "pgm_names"},
             set_term_options(r)
      PROVE  XInv'
  <2>1. /\ xat = "registered" /\ xat' = "run" /\ term_options' = r
        /\ UNCHANGED <<unborn, live, zombies, parent, descendants,
                       term_processes, sigterm, lost, late, exit_function>>
    BY <1>2 DEF set_term_options, world, asking, history
  <2>2. Reach'
    BY <2>1, ReachSame DEF Listed
  <2> QED BY <2>1, <2>2 DEF XTypeOK, OnTheList
<1>3. CASE gen_exit_function
  <2>1. /\ xat = "exit"
        /\ UNCHANGED <<term_options, unborn, live, zombies, parent,
                       term_processes, sigterm, lost, late>>
    BY <1>3 DEF gen_exit_function, world, history
  <2>2. live \ lost \subseteq get_descendant_info
    BY <2>1 DEF Reach, Listed, Closed, get_descendant_info, AllBelow
  <2>3. get_descendant_info \subseteq Proc
    BY DEF get_descendant_info, AllBelow
  <2>4. \/ /\ term_options = "None" \/ get_descendant_info = {}
           /\ xat' = "ended" /\ exit_function' = "done" /\ descendants' = descendants
        \/ /\ get_descendant_info # {}
           /\ xat' = "select" /\ descendants' = get_descendant_info
           /\ exit_function' = exit_function
    BY <1>3 DEF gen_exit_function
  <2>5. Reach'
    BY <2>4 DEF Reach, Listed
  <2>6. OnTheList'
    BY <2>1, <2>2, <2>4 DEF OnTheList
  <2> QED BY <2>1, <2>3, <2>4, <2>5, <2>6 DEF XTypeOK
<1>4. CASE Select
  <2>1. /\ xat = "select" /\ \/ xat' = "terminate" /\ exit_function' = exit_function
                             \/ xat' = "ended" /\ exit_function' = "skipped"
        /\ UNCHANGED <<term_options, unborn, live, zombies, parent, descendants,
                       sigterm, lost, late>>
    BY <1>4 DEF Select, Skips, world, history
  <2>2. term_processes' \subseteq Proc
    <3>1. children \subseteq Proc
      BY DEF children, Below
    <3>2. \/ term_processes' = term_processes \/ term_processes' = children
          \/ term_processes' = descendants
          \/ term_processes' = {p \in descendants : cmdline[p] = "named"}
      BY <1>4, Zenon DEF Select, Skips
    <3> QED BY <3>1, <3>2 DEF XTypeOK
  <2>3. Reach'
    BY <2>1, ReachSame DEF Listed
  <2> QED BY <2>1, <2>2, <2>3 DEF XTypeOK, OnTheList
<1>5. ASSUME NEW p \in Proc, Terminate(p) PROVE XInv'
  <2>1. /\ xat = "terminate"
        /\ \/ xat' = xat /\ exit_function' = exit_function
           \/ xat' = "ended" /\ exit_function' = "skipped"
        /\ term_processes' \subseteq term_processes
        /\ sigterm' = sigterm \/ (p \in live \cup zombies /\ sigterm' = sigterm \cup {p})
        /\ UNCHANGED <<term_options, unborn, live, zombies, parent, descendants,
                       lost, late>>
    BY <1>5 DEF Terminate, Skips, world, history
  <2>2. Reach'
    BY <2>1, ReachSame DEF Listed
  <2> QED BY <2>1, <2>2 DEF XTypeOK, OnTheList
<1>6. CASE AllAsked \/ Report
  <2>1. /\ UNCHANGED <<term_options, unborn, live, zombies, parent, descendants,
                       term_processes, sigterm, lost, late>>
        /\ \/ xat = "terminate" /\ term_processes = {} /\ xat' = "wait"
                /\ exit_function' = exit_function
           \/ xat = "report" /\ xat' = "ended" /\ exit_function' = "done"
    BY <1>6 DEF AllAsked, Report, world, asking, history
  <2>2. Reach'
    BY <2>1, ReachSame DEF Listed
  <2> QED BY <2>1, <2>2 DEF XTypeOK, OnTheList
<1>7. CASE Wait
  <2>1. /\ xat = "wait" /\ xat' = "report" /\ descendants \cap live = {}
        /\ zombies' \subseteq zombies
        /\ UNCHANGED <<term_options, unborn, live, parent, descendants,
                       term_processes, sigterm, lost, late, exit_function>>
    BY <1>7 DEF Wait, asking, history
  <2>2. Reach' /\ OnTheList'
    BY <2>1 DEF Reach, Listed, OnTheList
  <2> QED BY <2>1, <2>2 DEF XTypeOK
<1> QED BY <1>1, <1>2, <1>3, <1>4, <1>5, <1>6, <1>7 DEF ExitStep

LEMMA AlwaysXInv == XSpec => []XInv
<1>1. XInit => XInv
  <2> SUFFICES ASSUME XInit PROVE XInv
    OBVIOUS
  <2>1. XTypeOK /\ Births /\ ListIsUsed
    BY DEF XInit, XTypeOK, Births, ListIsUsed
  <2>2. Reach /\ OnTheList
    BY DEF XInit, Reach, OnTheList
  <2> QED BY <2>1, <2>2 DEF XInv
<1>2. XInv /\ [XNext]_xvars => XInv'
  <2> SUFFICES ASSUME XInv, [XNext]_xvars PROVE XInv'
    OBVIOUS
  <2>1. CASE UNCHANGED xvars
    <3>1. UNCHANGED <<xat, term_options, unborn, live, zombies, parent,
                      descendants, term_processes, sigterm, lost, late,
                      exit_function>>
      BY <2>1 DEF xvars, world, asking, history
    <3>2. Reach'
      BY <3>1, ReachSame DEF XInv, Listed
    <3> QED BY <3>1, <3>2 DEF XInv, XTypeOK, Births, ListIsUsed, OnTheList
  <2> QED BY <2>1, WorldSteps, ProgramSteps DEF XNext
<1> QED BY <1>1, <1>2, PTL DEF XSpec

(* terminate_descendants forgets none: whatever still runs when a program  *)
(* that has asked for it is through with its exit function was orphaned    *)
(* before the list was made or started since.  For any set of processes.   *)
THEOREM NoneIsForgotten == XSpec => [](XTypeOK /\ NoneForgotten)
<1>1. XInv => XTypeOK /\ NoneForgotten
  BY DEF XInv, OnTheList, NoneForgotten
<1> QED BY <1>1, AlwaysXInv, PTL

-----------------------------------------------------------------------------
(* The scenes are what they are alone, so that what holds of each holds    *)
(* in the instance that is checked: of what is kept twice nothing gets     *)
(* lost but what is named.                                                 *)
THEOREM NothingElseIsLost == MCSpec => []OnlyNamedLosses
<1>1. MCInit => XInit /\ AInit /\ JInit
  BY DEF MCInit
<1>2. [MCNext]_pvars => [XNext]_xvars /\ [ANext]_avars /\ [JNext]_jvars
  BY Zenon DEF MCNext, pvars, Shell, Exit, Args, Keywords
<1>3. MCSpec => XSpec /\ ASpec /\ JSpec
  BY <1>1, <1>2, PTL DEF MCSpec, XSpec, ASpec, JSpec
<1>4. XTypeOK /\ NoneForgotten /\ StaleOnlyIfAssigned /\ StatusesAreIn => OnlyNamedLosses
  BY DEF OnlyNamedLosses
<1> QED BY <1>3, <1>4, NoneIsForgotten, ArgumentsAreSynced, StatusesAreReturned, PTL
=============================================================================
