------------------------------ MODULE ShellCmd ------------------------------
(***************************************************************************)
(* shell_cmd of lib/gen_cmd.py: runs a command in a shell, at most         *)
(* max_attempts times.  With a time_out, SIGALRM interrupts the wait for   *)
(* the command: its handler, shell_cmd_timed_out, kills the process group  *)
(* named after the shell's pid.  The shell is started without a group of   *)
(* its own, so that there is no such group: os.killpg raises, and          *)
(* shell_cmd knows of the time-out by that exception alone.                *)
(*                                                                         *)
(* With fork, shell_cmd returns the running command, for kill_cmd.         *)
(***************************************************************************)
EXTENDS Naturals

CONSTANTS
  MaxAttempts,    (* max_attempts                                           *)
  MaxCalls        (* bound: calls of shell_cmd                              *)

ASSUME ShellAssumption == MaxAttempts \in Nat \ {0} /\ MaxCalls \in Nat

VARIABLES
  pc,             (* idle, loop, wait, reaped, restore, clear, judge,       *)
                  (* forked or killed (the whole program)                   *)
  calls,          (* calls so far                                           *)
  time_out,       (* the call has a time_out                                *)
  attempt,        (* attempt_num                                            *)
  child,          (* the shell of this attempt: none, running, ok or bad    *)
  shell_rc,       (* sub_proc.returncode: none, ok or bad                   *)
  stdout_buf,     (* unbound, or the output of an earlier (stale) or of     *)
                  (* this attempt (own)                                     *)
  command_timed_out,
  alarm,          (* an alarm is set                                        *)
  handler,        (* SIGALRM handler: original or timed_out                 *)
  abandoned,      (* commands left running by attempts that timed out       *)
  outcome         (* of the last call: none, ok, failed, unbound_error or   *)
                  (* os_error                                               *)

proc  == <<child, shell_rc, stdout_buf>>
clock == <<command_timed_out, alarm, handler>>
shvars == <<pc, calls, time_out, attempt, proc, clock, abandoned, outcome>>

ShInit ==
  /\ pc = "idle" /\ calls = 0 /\ time_out = FALSE /\ attempt = 0
  /\ child = "none" /\ shell_rc = "none" /\ stdout_buf = "unbound"
  /\ command_timed_out = FALSE /\ alarm = FALSE /\ handler = "original"
  /\ abandoned = 0 /\ outcome = "none"

-----------------------------------------------------------------------------
shell_cmd(t) ==
  /\ pc = "idle" /\ calls < MaxCalls
  /\ pc' = "loop"
  /\ calls' = calls + 1
  /\ time_out' = t
  /\ attempt' = 0
  /\ stdout_buf' = "unbound"
  /\ command_timed_out' = FALSE
  /\ outcome' = "none"
  /\ UNCHANGED <<child, shell_rc, alarm, handler, abandoned>>

Popen ==
  /\ attempt' = attempt + 1
  /\ child' = "running"
  /\ shell_rc' = "none"
  /\ stdout_buf' = IF stdout_buf = "unbound" THEN "unbound" ELSE "stale"

(* An attempt: the shell is started and the alarm is set.  An alarm of at  *)
(* least a second does not ring before communicate is entered.             *)
AttemptUnlimited ==   \* mutant: signal.alarm(time_out) is missing
  /\ pc = "loop"
  /\ Popen
  /\ pc' = "wait"
  /\ UNCHANGED <<calls, time_out, clock, abandoned, outcome>>

Attempt ==
  /\ pc = "loop"
  /\ Popen
  /\ IF time_out
       THEN command_timed_out' = FALSE /\ alarm' = TRUE /\ handler' = "timed_out"
       ELSE UNCHANGED clock
  /\ pc' = "wait"
  /\ UNCHANGED <<calls, time_out, abandoned, outcome>>

(* fork is set: the Popen object is returned at once.                      *)
Fork ==
  /\ pc = "loop"
  /\ Popen
  /\ pc' = "forked"
  /\ UNCHANGED <<calls, time_out, clock, abandoned, outcome>>

CommandEnds ==
  /\ child = "running"
  /\ child' \in {"ok", "bad"}
  /\ UNCHANGED <<pc, calls, time_out, attempt, shell_rc, stdout_buf, clock,
                 abandoned, outcome>>

(* communicate reaps the shell, and then returns what it has read.         *)
Reap ==
  /\ pc = "wait" /\ child # "running"
  /\ shell_rc' = child
  /\ pc' = "reaped"
  /\ UNCHANGED <<calls, time_out, attempt, child, stdout_buf, clock, abandoned,
                 outcome>>

CollectFirstOnly ==   \* mutant: stdout_buf is assigned once per call
  /\ pc = "reaped"
  /\ stdout_buf' = IF stdout_buf = "unbound" THEN "own" ELSE stdout_buf
  /\ pc' = "restore"
  /\ UNCHANGED <<calls, time_out, attempt, child, shell_rc, clock, abandoned,
                 outcome>>

Collect ==
  /\ pc = "reaped"
  /\ stdout_buf' = "own"
  /\ pc' = "restore"
  /\ UNCHANGED <<calls, time_out, attempt, child, shell_rc, clock, abandoned,
                 outcome>>

Restore ==
  /\ pc = "restore"
  /\ handler' = "original"
  /\ pc' = "clear"
  /\ UNCHANGED <<calls, time_out, attempt, proc, command_timed_out, alarm,
                 abandoned, outcome>>

ClearNothing ==   \* mutant: signal.alarm(0) is missing
  /\ pc = "clear"
  /\ pc' = "judge"
  /\ UNCHANGED <<calls, time_out, attempt, proc, clock, abandoned, outcome>>

ClearAlarm ==
  /\ pc = "clear"
  /\ alarm' = FALSE
  /\ pc' = "judge"
  /\ UNCHANGED <<calls, time_out, attempt, proc, command_timed_out, handler,
                 abandoned, outcome>>

-----------------------------------------------------------------------------
(* The alarm rings.  In communicate: killpg raises, and communicate with   *)
(* it; shell_cmd takes the IOError for the time-out.                       *)
AlarmRings ==
  /\ alarm /\ pc \in {"wait", "reaped"}
  /\ alarm' = FALSE
  /\ command_timed_out' = TRUE
  /\ pc' = "restore"
  /\ UNCHANGED <<calls, time_out, attempt, proc, handler, abandoned, outcome>>

(* After it: nothing catches the exception.                                *)
AlarmRingsLate ==
  /\ alarm /\ pc = "restore"
  /\ alarm' = FALSE
  /\ command_timed_out' = TRUE
  /\ pc' = "idle" /\ outcome' = "os_error"
  /\ UNCHANGED <<calls, time_out, attempt, proc, handler, abandoned>>

(* After the handler has been put back, SIGALRM ends the program.          *)
AlarmKills ==
  /\ alarm /\ handler = "original" /\ pc # "killed"
  /\ alarm' = FALSE
  /\ pc' = "killed"
  /\ UNCHANGED <<calls, time_out, attempt, proc, command_timed_out, handler,
                 abandoned, outcome>>

-----------------------------------------------------------------------------
(* The attempt is judged.  The output is looked at whatever the outcome.   *)
Abandon == abandoned' = abandoned + (IF child = "running" THEN 1 ELSE 0)

JudgeUnbound ==
  /\ pc = "judge" /\ stdout_buf = "unbound"
  /\ pc' = "idle" /\ outcome' = "unbound_error"
  /\ Abandon
  /\ UNCHANGED <<calls, time_out, attempt, proc, clock>>

JudgeSuccess ==
  /\ pc = "judge" /\ stdout_buf # "unbound" /\ shell_rc = "ok"
  /\ pc' = "idle" /\ outcome' = "ok"
  /\ UNCHANGED <<calls, time_out, attempt, proc, clock, abandoned>>

OneAttemptMore == attempt <= MaxAttempts   \* mutant: range(1, max_attempts + 2)

AttemptsLeft == attempt < MaxAttempts

(* The return code is not valid, or one of error_regexes is in the output. *)
JudgeFailure ==
  /\ pc = "judge" /\ stdout_buf # "unbound"
  /\ shell_rc' = IF shell_rc = "ok" THEN "bad" ELSE shell_rc
  /\ Abandon
  /\ IF AttemptsLeft
       THEN pc' = "loop" /\ UNCHANGED outcome
       ELSE pc' = "idle" /\ outcome' = "failed"
  /\ UNCHANGED <<calls, time_out, attempt, child, stdout_buf, clock>>

(* kill_cmd: os.killpg raises here too; its caller has the exception and   *)
(* the command its life.                                                   *)
kill_cmd ==
  /\ pc = "forked"
  /\ pc' = "idle" /\ outcome' = "os_error"
  /\ Abandon
  /\ UNCHANGED <<calls, time_out, attempt, proc, clock>>

-----------------------------------------------------------------------------
Body ==
  \/ Attempt \/ Fork \/ Reap \/ Collect \/ Restore \/ ClearAlarm
  \/ JudgeUnbound \/ JudgeSuccess \/ JudgeFailure
Alarm == AlarmRings \/ AlarmRingsLate \/ AlarmKills

ShNext ==
  \/ \E t \in BOOLEAN : shell_cmd(t)
  \/ Body \/ Alarm \/ kill_cmd \/ CommandEnds

ShSpec == ShInit /\ [][ShNext]_shvars

(* Python runs, and the kernel rings alarms.  A command may hang.          *)
ShFairSpec == ShSpec /\ WF_shvars(Body) /\ WF_shvars(Alarm)

-----------------------------------------------------------------------------
ShTypeOK ==
  /\ pc \in {"idle", "loop", "wait", "reaped", "restore", "clear", "judge",
             "forked", "killed"}
  /\ calls \in 0..MaxCalls
  /\ time_out \in BOOLEAN
  /\ attempt \in 0..MaxAttempts
  /\ child \in {"none", "running", "ok", "bad"}
  /\ shell_rc \in {"none", "ok", "bad"}
  /\ stdout_buf \in {"unbound", "stale", "own"}
  /\ command_timed_out \in BOOLEAN /\ alarm \in BOOLEAN
  /\ handler \in {"original", "timed_out"}
  /\ abandoned \in Nat
  /\ outcome \in {"none", "ok", "failed", "unbound_error", "os_error"}
  /\ pc = "loop" => attempt < MaxAttempts

(* Whose status and whose output an answer has.  A status is always that of*)
(* the last attempt, whose command has then ended.  So is the output unless*)
(* the alarm cut that attempt short: then it is what an earlier attempt    *)
(* said, next to no status or to the last attempt's, and the answer mixes  *)
(* the two; if no attempt said anything the call raises an error instead.  *)
AnswerIsOf ==
  /\ outcome \in {"ok", "failed"} =>
       /\ shell_rc # "none" => child # "running"
       /\ shell_rc = "none" => command_timed_out
       /\ stdout_buf = IF command_timed_out THEN "stale" ELSE "own"
       /\ command_timed_out => attempt > 1
  /\ outcome = "ok" => child = "ok" /\ shell_rc = "ok"
  /\ outcome = "unbound_error" => command_timed_out /\ stdout_buf = "unbound"

(* No alarm outlives the call it was set for, however that call ends: it   *)
(* would kill the program while it does something else.                    *)
LeavesNoAlarm == pc = "idle" => ~alarm

(* A call with a time_out ends although each of its commands may hang.     *)
LimitedCallEnds ==
  pc = "loop" /\ time_out ~> pc \in {"idle", "forked", "killed"}

(* The time_out argument: "If the command string has not finished          *)
(* executing within <time_out> seconds, it will be halted and counted as   *)
(* an error."  Halted: no command outlives the attempt that ran it.        *)
HaltedOnTimeOut == outcome \in {"failed", "unbound_error"} => abandoned = 0

(* Counted as an error: an attempt that timed out is no success.           *)
CountedAsError == outcome = "ok" => ~command_timed_out

(* kill_cmd: "Kill the subprocess represented by the Popen object".        *)
KillKills == [][kill_cmd => child' # "running"]_shvars

(* Wherever the alarm rings, what shell_cmd answers is the last attempt's  *)
(* but for the output of an attempt cut short, and no alarm is left behind.*)
CommandAnswers == ShTypeOK /\ AnswerIsOf /\ LeavesNoAlarm
=============================================================================
