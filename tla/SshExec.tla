------------------------------ MODULE SshExec ------------------------------
(***************************************************************************)
(* Commands over SSH: execute_ssh_command and login_ssh of                 *)
(* lib/gen_robot_ssh.py, and the wrappers of lib/bmc_ssh_utils.py that give*)
(* each target its own alias.  SSHLibrary keeps a registry of connections; *)
(* open_connection enters one that is not logged in, and only              *)
(* close_all_connections takes connections out again.  A target may reboot *)
(* at any time: its logged-in connection is dead then, and an attempt to   *)
(* use it shows how: an exception execute_ssh_command has a remedy for, or *)
(* one that it hands on.                                                   *)
(***************************************************************************)
EXTENDS Naturals, Sequences

CONSTANTS
  Alias,          (* bmc_connection, os_connection, ...                     *)
  MaxLogins,      (* max_login_attempts                                     *)
  MaxAttempts,    (* max_exec_cmd_attempts                                  *)
  MaxCommandCalls (* bound: calls                                           *)

ASSUME SshAssumption ==
  /\ MaxLogins \in Nat \ {0} /\ MaxAttempts = 2
  /\ MaxCommandCalls \in Nat

(* execute, start (fork = 1) or write (the alias device_connection)        *)
Modes == {"execute", "start", "write"}

VARIABLES
  sat,        (* idle, wrapper, login, exec, hung or judge                  *)
  registry,   (* sshlib: sequence of [alias, is], is \in fresh, live, dead  *)
  target,     (* the alias of this call                                     *)
  mode,
  ignore_err,
  timed,      (* a time_out is given                                        *)
  why,        (* the login is for a new, a not_open or a reopened connection*)
  login_attempt_num, exec_cmd_attempt_num,
  rc,         (* unset, zero or nonzero                                     *)
  ssh_answer, (* of the last call, as in RemoteCall                         *)
  ssh_calls,  (* calls so far                                               *)
  runs,       (* history: times this call's command reached the target      *)
  last,       (* history: status of the command as last sent                *)
  steady      (* history: nothing was lost or refused during this call      *)

request == <<target, mode, ignore_err, timed>>
loops   == <<why, login_attempt_num, exec_cmd_attempt_num>>
seen    == <<runs, last>>
sshvars == <<sat, registry, request, loops, rc, ssh_answer, ssh_calls, seen, steady>>

SInit ==
  /\ sat = "idle" /\ registry = <<>>
  /\ target \in Alias /\ mode = "execute" /\ ignore_err = TRUE /\ timed = FALSE
  /\ why = "new" /\ login_attempt_num = 0 /\ exec_cmd_attempt_num = 0
  /\ rc = "unset" /\ ssh_answer = "none" /\ ssh_calls = 0
  /\ runs = 0 /\ last = "none" /\ steady = TRUE

Entered(a) == {i \in DOMAIN registry : registry[i].alias = a}

(* find_connection: the first that matches; timeout is not compared.       *)
found == CHOOSE i \in Entered(target) : \A j \in Entered(target) : i <= j

Became(i, s) == [registry EXCEPT ![i].is = s]

Opened(reg) == Append(reg, [alias |-> target, is |-> "fresh"])

Answers(a) == sat' = "idle" /\ ssh_answer' = a

-----------------------------------------------------------------------------
(* bmc_, os_, xcat_execute_command and device_write.                       *)
execute_command(a, m, ig, t) ==
  /\ sat = "idle" /\ ssh_calls < MaxCommandCalls
  /\ sat' = "wrapper"
  /\ target' = a /\ mode' = m /\ timed' = t
  /\ ignore_err' = (m = "write" \/ ig)
  /\ rc' = "unset" /\ ssh_answer' = "none"
  /\ ssh_calls' = ssh_calls + 1
  /\ runs' = 0 /\ last' = "none" /\ steady' = TRUE
  /\ UNCHANGED <<registry, loops>>

(* A required variable is blank: valid_value complains, and the answer is  *)
(* a return code of 1 (or valid_value raises, if exit_on_error is set).    *)
NotValid ==
  /\ sat = "wrapper"
  /\ Answers("refused")
  /\ UNCHANGED <<registry, request, loops, rc, ssh_calls, seen, steady>>

TestMode ==
  /\ sat = "wrapper"
  /\ Answers("pretended")
  /\ UNCHANGED <<registry, request, loops, rc, ssh_calls, seen, steady>>

SwitchConnection ==
  /\ sat = "wrapper" /\ Entered(target) # {}
  /\ sat' = "exec"
  /\ exec_cmd_attempt_num' = 1
  /\ UNCHANGED <<registry, request, why, login_attempt_num, rc, ssh_answer, ssh_calls,
                 seen, steady>>

OpenConnection ==
  /\ sat = "wrapper" /\ Entered(target) = {}
  /\ sat' = "login"
  /\ registry' = Opened(registry)
  /\ why' = "new" /\ login_attempt_num' = 1 /\ exec_cmd_attempt_num' = 0
  /\ UNCHANGED <<request, rc, ssh_answer, ssh_calls, seen, steady>>

-----------------------------------------------------------------------------
(* login_ssh, and how its three callers go on.                             *)
AttemptsLeftOne == exec_cmd_attempt_num < MaxAttempts - 1   \* mutant: range(1, max)
AttemptsLeft    == exec_cmd_attempt_num < MaxAttempts

(* The next iteration of the retry loop, or what follows the loop.         *)
Continue ==
  IF AttemptsLeft
    THEN sat' = "exec" /\ exec_cmd_attempt_num' = exec_cmd_attempt_num + 1
    ELSE sat' = "judge" /\ UNCHANGED exec_cmd_attempt_num

LoggedIn ==
  /\ sat = "login"
  /\ registry' = Became(found, "live")
  /\ Continue
  /\ UNCHANGED <<request, why, login_attempt_num, rc, ssh_answer, ssh_calls, seen, steady>>

(* "No existing session": login sometimes fails if the connection is new.  *)
NoSessionForever ==   \* mutant: login_attempt_num is not compared with the maximum
  /\ sat = "login" /\ login_attempt_num <= MaxLogins
  /\ login_attempt_num' = login_attempt_num + 1
  /\ UNCHANGED <<sat, registry, request, why, exec_cmd_attempt_num, rc, ssh_answer,
                 ssh_calls, seen, steady>>

NoSession ==
  /\ sat = "login" /\ login_attempt_num < MaxLogins
  /\ login_attempt_num' = login_attempt_num + 1
  /\ UNCHANGED <<sat, registry, request, why, exec_cmd_attempt_num, rc, ssh_answer,
                 ssh_calls, seen, steady>>

(* Any other failure, or the last attempt: a login for a new connection or *)
(* for one that was not open becomes the answer; a login for a connection  *)
(* opened again is outside of any try.                                     *)
LoginFails ==
  /\ sat = "login"
  /\ steady' = FALSE
  /\ IF why = "reopened"
       THEN Answers("raised") /\ UNCHANGED rc
       ELSE sat' = "judge" /\ rc' = "nonzero" /\ UNCHANGED ssh_answer
  /\ UNCHANGED <<registry, request, loops, ssh_calls, seen>>

-----------------------------------------------------------------------------
(* One attempt to run the command.                                         *)
CommandRuns(r) ==
  /\ sat = "exec" /\ registry[found].is = "live"
  /\ rc' = CASE mode = "execute" -> r [] mode = "write" -> "zero" [] OTHER -> rc
  /\ runs' = runs + 1 /\ last' = r
  /\ sat' = "judge"
  /\ UNCHANGED <<registry, request, loops, ssh_answer, ssh_calls, steady>>

(* The command hangs, for ever or until the func timer breaks it off.      *)
CommandHangsUntimed ==   \* mutant: time_out is not handed to func_timer.run
  /\ sat = "exec" /\ registry[found].is = "live" /\ mode = "execute"
  /\ sat' = "hung"
  /\ runs' = runs + 1 /\ timed' = FALSE
  /\ UNCHANGED <<registry, target, mode, ignore_err, loops, rc, ssh_answer, ssh_calls,
                 last, steady>>

CommandHangs ==
  /\ sat = "exec" /\ registry[found].is = "live" /\ mode = "execute"
  /\ sat' = "hung"
  /\ runs' = runs + 1
  /\ UNCHANGED <<registry, request, loops, rc, ssh_answer, ssh_calls, last, steady>>

TimedOut ==
  /\ sat = "hung" /\ timed
  /\ registry' = <<>>
  /\ Answers("raised")
  /\ rc' = "nonzero"
  /\ UNCHANGED <<request, loops, ssh_calls, seen, steady>>

(* "Connection not open": log in to it, and continue.                      *)
NotOpen ==
  /\ sat = "exec" /\ registry[found].is = "fresh"
  /\ rc' = "nonzero"
  /\ sat' = "login" /\ why' = "not_open" /\ login_attempt_num' = 1
  /\ UNCHANGED <<registry, request, exec_cmd_attempt_num, ssh_answer, ssh_calls, seen,
                 steady>>

(* The connection goes down while it is used, and the command may have     *)
(* started by then.                                                        *)
Interrupted(started) ==
  IF registry[found].is = "live"
    THEN steady' = FALSE /\ runs' = runs + (IF started THEN 1 ELSE 0)
    ELSE UNCHANGED <<runs, steady>>

(* "SSH session not active", "Connection reset by peer" or "Timeout opening*)
(* channel": all connections are closed, those of other targets included,  *)
(* one is opened again, and the loop continues after a login.              *)
SessionLostCloseOne ==   \* mutant: close_connection, which leaves it in the registry
  /\ sat = "exec" /\ registry[found].is # "fresh"
  /\ \E b \in BOOLEAN : Interrupted(b)
  /\ registry' = Opened(Became(found, "dead"))
  /\ rc' = "nonzero"
  /\ sat' = "login" /\ why' = "reopened" /\ login_attempt_num' = 1
  /\ UNCHANGED <<request, exec_cmd_attempt_num, ssh_answer, ssh_calls, last>>

SessionLost ==
  /\ sat = "exec" /\ registry[found].is # "fresh"
  /\ \E b \in BOOLEAN : Interrupted(b)
  /\ registry' = Opened(<<>>)
  /\ rc' = "nonzero"
  /\ sat' = "login" /\ why' = "reopened" /\ login_attempt_num' = 1
  /\ UNCHANGED <<request, exec_cmd_attempt_num, ssh_answer, ssh_calls, last>>

(* Any other exception: close all and raise.                               *)
OtherFailure ==
  /\ sat = "exec" /\ registry[found].is # "fresh"
  /\ \E b \in BOOLEAN : runs' = runs + (IF b /\ registry[found].is = "live" THEN 1 ELSE 0)
  /\ steady' = FALSE
  /\ registry' = <<>>
  /\ Answers("raised")
  /\ rc' = "nonzero"
  /\ UNCHANGED <<request, loops, ssh_calls, last>>

(* After the loop.  With fork nothing is returned, whatever happened; with *)
(* the device's alias no return code is.                                   *)
JudgeLast ==
  /\ sat = "judge"
  /\ IF mode = "start" THEN Answers("started")
     ELSE IF rc # "zero" /\ ~ignore_err THEN Answers("raised")
     ELSE Answers("zero")   \* mutant: the return code of a failed attempt is dropped
  /\ UNCHANGED <<registry, request, loops, rc, ssh_calls, seen, steady>>

Judge ==
  /\ sat = "judge"
  /\ CASE mode = "start"              -> Answers("started")
       [] mode # "start" /\ rc # "zero" /\ ~ignore_err -> Answers("raised")
       [] OTHER                       -> Answers(IF mode = "write" THEN "written" ELSE rc)
  /\ UNCHANGED <<registry, request, loops, rc, ssh_calls, seen, steady>>

-----------------------------------------------------------------------------
(* A target reboots, or its sshd ends the session.                         *)
SessionDrops ==
  /\ \E i \in DOMAIN registry :
       /\ registry[i].is = "live"
       /\ registry' = Became(i, "dead")
       /\ steady' = (steady /\ (sat = "idle" \/ registry[i].alias # target))
  /\ UNCHANGED <<sat, request, loops, rc, ssh_answer, ssh_calls, seen>>

SshStep ==
  \/ NotValid \/ TestMode \/ SwitchConnection \/ OpenConnection
  \/ LoggedIn \/ NoSession \/ LoginFails
  \/ \E r \in {"zero", "nonzero"} : CommandRuns(r)
  \/ CommandHangs \/ TimedOut \/ NotOpen \/ SessionLost \/ OtherFailure \/ Judge

SNext ==
  \/ \E a \in Alias, m \in Modes, ig, t \in BOOLEAN : execute_command(a, m, ig, t)
  \/ SshStep \/ SessionDrops

SSpec == SInit /\ [][SNext]_sshvars

(* The driver goes on and logins answer.  A command may hang.               *)
SFairSpec == SSpec /\ WF_sshvars(SshStep)

-----------------------------------------------------------------------------
(* Types of the variables of execute_ssh_command and login_ssh; what they  *)
(* use of the registry is there: a login is for a connection that is not   *)
(* logged in, within its attempts, and a command has a connection.         *)
SshTypeOK ==
  /\ sat \in {"idle", "wrapper", "login", "exec", "hung", "judge"}
  /\ registry \in Seq([alias : Alias, is : {"fresh", "live", "dead"}])
  /\ target \in Alias /\ mode \in Modes /\ ignore_err \in BOOLEAN /\ timed \in BOOLEAN
  /\ why \in {"new", "not_open", "reopened"}
  /\ login_attempt_num \in 0..MaxLogins
  /\ exec_cmd_attempt_num \in 0..MaxAttempts
  /\ rc \in {"unset", "zero", "nonzero"}
  /\ ssh_answer \in {"none", "zero", "nonzero", "raised", "started", "written",
                     "pretended", "refused"}
  /\ ssh_calls \in 0..MaxCommandCalls
  /\ runs \in Nat /\ last \in {"none", "zero", "nonzero"} /\ steady \in BOOLEAN
  /\ sat \in {"login", "exec", "hung"} => Entered(target) # {}
  /\ sat = "login" => registry[found].is = "fresh"

(* "There is a concern about over-consumption of resources": however often *)
(* connections die and are opened again, a target has at most one in the   *)
(* registry, so that the one that is found is the one that was logged in.  *)
OneConnectionEach == \A i, j \in DOMAIN registry :
  registry[i].alias = registry[j].alias => i = j

(* Whatever earlier calls - to this target or to another, that failed or   *)
(* closed everything - have left in the registry, a call during which the  *)
(* target answers sends its command, and sends it once.                    *)
SteadyRunsOnce ==
  sat = "idle" /\ steady /\ ssh_answer \notin {"none", "refused", "pretended"} => runs = 1

Remote == INSTANCE RemoteCall WITH
  busy <- sat # "idle", sent <- runs, status <- last, answer <- ssh_answer

(* Through retries, logins and reopened connections, execute_ssh_command   *)
(* keeps what RemoteCall promises of the number of commands sent and of    *)
(* the status that is returned.                                            *)
KeepsRemoteCall == Remote!RemoteSpec

(* A command with a time_out comes to an end, although it may hang, logins *)
(* may fail again and again, and the target may reboot meanwhile.          *)
TimedCommandEnds == sat = "exec" /\ timed /\ mode = "execute" ~> sat = "idle"

(* What a call finds in the registry, by alias or by index, is its one     *)
(* usable connection: none piles up, and none that an earlier call has     *)
(* left costs a command or sends it twice.                                 *)
ConnectionsServe == SshTypeOK /\ OneConnectionEach /\ SteadyRunsOnce
=============================================================================
