---------------------------- MODULE BootSignals ----------------------------
(***************************************************************************)
(* How a boot test is stopped.  A user sends SIGUSR1 to the boot test      *)
(* driver; while run_boot of lib/obmc_boot_test.py runs, the handler is    *)
(* stop_boot_test.  It raises a failure, except inside wait_state          *)
(* of lib/state.py, whose retry loop would take the failure for one more   *)
(* unsuccessful check: there it leaves exit_wait_early_message for         *)
(* wait_state to find.  The checks of that loop may run an SSH command     *)
(* under a func timer (lib/func_timer.py), which borrows the same signal.  *)
(*                                                                         *)
(* The variables and the steps of the func timer are those of FuncTimer;   *)
(* the foreign signals of FuncTimer are the user's requests.               *)
(***************************************************************************)
EXTENDS FuncTimer

CONSTANTS
  MaxBoots,     (* bound: boots of one call                                 *)
  MaxChecks,    (* bound: checks of the state that fit in one wait          *)
  MaxCommands   (* bound: SSH commands, tries included, of one check        *)

ASSUME SignalsAssumption ==
  /\ Handlers = {"default", "stop"} /\ "some" \in TimeOuts
  /\ MaxBoots \in Nat /\ MaxChecks \in Nat /\ MaxCommands \in Nat

VARIABLES
  pc,           (* between, method, wait, sample, command, judge, retry,    *)
                (* exit, leaving, waited or aborted                         *)
  message,      (* exit_wait_early_message is not blank                     *)
  waits,        (* calls of wait_state the boot has before it               *)
  bmc_reboot,   (* the boot reboots the BMC                                 *)
  checks,       (* checks that still fit in the time of this wait           *)
  commands,     (* SSH commands this check may still run                    *)
  boots,        (* boots started                                            *)
  fate,         (* of the last boot: none, running, passed or failed        *)
  asked,        (* history: a request was made while the last boot ran      *)
  stops,        (* history: times stop_boot_test ran                        *)
  stopped       (* history: boots it has failed                             *)

progress == <<waits, bmc_reboot, checks, commands>>
boot   == <<progress, boots, fate>>
record == <<asked, stops, stopped>>
bvars  == <<pc, message, boot, record>>
svars  == <<fvars, bvars>>

(* "wait_state" in gm.get_function_stack()                                 *)
InWait == pc \in {"wait", "sample", "command", "judge", "retry", "exit", "leaving"}
InBoot == pc = "method" \/ pc = "waited" \/ InWait

BInit ==
  /\ FInit /\ handler = "default"
  /\ pc = "between"
  /\ message = FALSE
  /\ waits = 0 /\ bmc_reboot = FALSE /\ checks = 0 /\ commands = 0
  /\ boots = 0
  /\ fate = "none"
  /\ asked = FALSE /\ stops = 0 /\ stopped = 0

(* set_default_siguser1, and signal.signal in general.                     *)
SetHandler(h) == pending = {} /\ handler' = h
TimerIdle == UNCHANGED <<object, timer, at, past>>

-----------------------------------------------------------------------------
(* run_boot: arms stop_boot_test, then runs the pre_boot plug-ins and the  *)
(* boot's keyword.                                                         *)
run_boot ==
  /\ pc = "between" /\ boots < MaxBoots
  /\ SetHandler("stop") /\ TimerIdle
  /\ pc' = "method"
  /\ boots' = boots + 1
  /\ fate' = "running"
  /\ asked' = FALSE
  /\ UNCHANGED <<pending, message, progress, stops, stopped>>

(* A plug-in of pre_boot, post_reboot or post_boot fails.                  *)
PlugInFails ==
  /\ \/ pc = "method"
     \/ pc = "waited" /\ (waits = 0 \/ (bmc_reboot /\ waits = 1))
  /\ SetHandler("default") /\ TimerIdle
  /\ pc' = "between"
  /\ fate' = "failed"
  /\ UNCHANGED <<pending, message, progress, boots, record>>

(* The keyword that does the boot fails: nothing restores the handler.     *)
MethodFails ==
  /\ pc = "method"
  /\ pc' = "between"
  /\ fate' = "failed"
  /\ UNCHANGED <<fvars, message, progress, boots, record>>

(* It is done: two waits follow (the state changes, the required end state *)
(* is reached), or three when the BMC reboots (wait_for_comm_cycle).       *)
MethodDone ==
  /\ pc = "method"
  /\ bmc_reboot' \in BOOLEAN
  /\ waits' = IF bmc_reboot' THEN 3 ELSE 2
  /\ pc' = "waited"
  /\ UNCHANGED <<fvars, message, checks, commands, boots, fate, record>>

-----------------------------------------------------------------------------
(* wait_state, around wait_until_keyword_succeeds.                         *)
wait_state ==
  /\ pc = "waited" /\ waits > 0
  /\ pc' = "wait"
  /\ waits' = waits - 1
  /\ checks' = MaxChecks
  /\ UNCHANGED <<fvars, message, bmc_reboot, commands, boots, fate, record>>

(* check_state begins to sample the machine.                               *)
check_state ==
  /\ pc = "wait" /\ checks > 0
  /\ pc' = "sample"
  /\ checks' = checks - 1
  /\ commands' = MaxCommands
  /\ UNCHANGED <<fvars, message, waits, bmc_reboot, boots, fate, record>>

(* get_state raises.                                                       *)
SampleFails ==
  /\ pc = "sample"
  /\ pc' = "retry"
  /\ UNCHANGED <<fvars, message, boot, record>>

(* get_state has all that was asked for.                                   *)
SampleDone ==
  /\ pc = "sample"
  /\ pc' = "judge"
  /\ UNCHANGED <<fvars, message, boot, record>>

(* A part of the state is read over SSH, with a time_out: the uptime of    *)
(* the BMC, or in get_os_state that of the operating system.               *)
Command ==
  /\ pc = "sample" /\ commands > 0
  /\ run("some")
  /\ commands' = commands - 1
  /\ pc' = "command"
  /\ UNCHANGED <<message, waits, bmc_reboot, checks, boots, fate, record>>

TimerStep ==
  /\ pc = "command"
  /\ Parent \/ Expire \/ \E r \in {"value", "raised"} : FuncEnds(r)
  /\ UNCHANGED bvars

Orphan == ExpireOrphan /\ UNCHANGED bvars

(* execute_ssh_command answers, tries again, or re-raises a time-out or an *)
(* exception it has no remedy for; get_state goes on or raises in turn.    *)
CommandAnswers ==
  /\ pc = "command" /\ at = "idle"
  /\ \/ pc' = "sample"
     \/ pc' = "retry" /\ result \in {"raised", "timed_out"}
  /\ UNCHANGED <<fvars, message, boot, record>>

(* check_state ends: early if there is a message, else by comparing states.*)
CheckSucceeds ==
  /\ pc = "judge"
  /\ pc' = "exit"
  /\ UNCHANGED <<fvars, message, boot, record>>

CheckFails ==
  /\ pc = "judge" /\ ~message
  /\ pc' = "retry"
  /\ UNCHANGED <<fvars, message, boot, record>>

Retry ==
  /\ pc = "retry" /\ checks > 0
  /\ pc' = "wait"
  /\ UNCHANGED <<fvars, message, boot, record>>

(* The time is up: wait_state raises the failure of the last check.        *)
WaitTimesOut ==
  /\ pc = "retry" /\ checks = 0
  /\ pc' = "between"
  /\ fate' = "failed"
  /\ UNCHANGED <<fvars, message, progress, boots, record>>

(* wait_state looks for a message: it clears it and fails, or goes on to   *)
(* print and return.                                                       *)
ExitEarlyKeepsMessage ==   \* mutant: the message is not cleared
  /\ pc = "exit" /\ message
  /\ pc' = "between"
  /\ fate' = "failed"
  /\ stopped' = stopped + 1
  /\ UNCHANGED <<fvars, message, progress, boots, asked, stops>>

ExitEarly ==
  /\ pc = "exit" /\ message
  /\ message' = FALSE
  /\ pc' = "between"
  /\ fate' = "failed"
  /\ stopped' = stopped + 1
  /\ UNCHANGED <<fvars, progress, boots, asked, stops>>

NoMessage ==
  /\ pc = "exit" /\ ~message
  /\ pc' = "leaving"
  /\ UNCHANGED <<fvars, message, boot, record>>

WaitReturns ==
  /\ pc = "leaving"
  /\ pc' = "waited"
  /\ UNCHANGED <<fvars, message, boot, record>>

(* The post_boot plug-ins are happy: run_boot restores the handler.        *)
PassesArmed ==   \* mutant: the handler is not restored
  /\ pc = "waited" /\ waits = 0
  /\ pc' = "between"
  /\ fate' = "passed"
  /\ UNCHANGED <<fvars, message, progress, boots, record>>

BootPasses ==
  /\ pc = "waited" /\ waits = 0
  /\ SetHandler("default") /\ TimerIdle
  /\ pc' = "between"
  /\ fate' = "passed"
  /\ UNCHANGED <<pending, message, progress, boots, record>>

-----------------------------------------------------------------------------
(* A user asks for the boot test to be stopped.                            *)
Request ==
  /\ Foreign
  /\ asked' = (asked \/ InBoot)
  /\ UNCHANGED <<pc, message, boot, stops, stopped>>

(* stop_boot_test makes default_sigusr1 the handler; inside wait_state it  *)
(* leaves the message, elsewhere it raises a failure.  run_boot fails of   *)
(* it; between two boots nobody expects it and the keyword ends.           *)
StopAlwaysRaises ==   \* mutant: no special case for wait_state
  /\ pending # {} /\ handler = "stop" /\ pc # "aborted"
  /\ pending' = {} /\ handler' = "default"
  /\ stops' = stops + 1
  /\ pc' = IF InWait THEN "retry" ELSE IF InBoot THEN "between" ELSE "aborted"
  /\ fate' = IF InBoot /\ ~InWait THEN "failed" ELSE fate
  /\ stopped' = IF InBoot /\ ~InWait THEN stopped + 1 ELSE stopped
  /\ UNCHANGED <<object, timer, at, past, message, progress, boots, asked>>

stop_boot_test ==
  /\ pending # {} /\ handler = "stop" /\ pc # "aborted"
  /\ pending' = {} /\ handler' = "default"
  /\ stops' = stops + 1
  /\ CASE InWait -> message' = TRUE /\ UNCHANGED <<pc, fate, stopped>>
       [] InBoot /\ ~InWait ->
            pc' = "between" /\ fate' = "failed" /\ stopped' = stopped + 1
            /\ UNCHANGED message
       [] OTHER -> pc' = "aborted" /\ UNCHANGED <<message, fate, stopped>>
  /\ UNCHANGED <<object, timer, at, past, progress, boots, asked>>

(* default_sigusr1 does nothing.                                           *)
default_sigusr1 ==
  /\ handler = "default"
  /\ OtherHandler
  /\ UNCHANGED bvars

(* timed_out is still the handler although no SSH command runs: its        *)
(* ValueError ends whatever is under way.                                  *)
StrayTimeOutStrikes ==
  /\ StrayTimeOut
  /\ pc' = CASE pc \in {"sample", "judge", "command"} -> "retry"
             [] pc \in {"wait", "retry", "exit", "leaving", "method", "waited"} -> "between"
             [] pc \in {"between", "aborted"} -> "aborted"
  /\ fate' = IF pc' = "between" THEN "failed" ELSE fate
  /\ UNCHANGED <<message, progress, boots, record>>

-----------------------------------------------------------------------------
wait_step ==
  \/ wait_state \/ check_state \/ SampleFails \/ SampleDone \/ Command
  \/ CommandAnswers \/ CheckSucceeds \/ CheckFails \/ Retry \/ WaitTimesOut
  \/ ExitEarly \/ NoMessage \/ WaitReturns

boot_step == PlugInFails \/ MethodFails \/ MethodDone \/ wait_step \/ BootPasses

handlers == stop_boot_test \/ default_sigusr1 \/ StrayTimeOutStrikes

BNext == run_boot \/ boot_step \/ TimerStep \/ Orphan \/ Request \/ handlers

BSpec == BInit /\ [][BNext]_svars

(* The driver goes on, Python runs the handlers, the sleeping child wakes; *)
(* the SSH command alone may hang.                                         *)
BFairSpec ==
  /\ BSpec
  /\ WF_svars(boot_step) /\ WF_svars(handlers)
  /\ WF_svars(pc = "command" /\ Parent /\ UNCHANGED bvars)
  /\ WF_svars(pc = "command" /\ Expire /\ UNCHANGED bvars)

-----------------------------------------------------------------------------
(* Types of the variables run_boot, wait_state and the handlers share.     *)
BTypeOK ==
  /\ FTypeOK
  /\ pc \in {"between", "method", "wait", "sample", "command", "judge", "retry",
             "exit", "leaving", "waited", "aborted"}
  /\ message \in BOOLEAN
  /\ waits \in 0..3 /\ bmc_reboot \in BOOLEAN
  /\ checks \in 0..MaxChecks /\ commands \in 0..MaxCommands
  /\ boots \in 0..MaxBoots
  /\ fate \in {"none", "running", "passed", "failed"}
  /\ asked \in BOOLEAN
  /\ stops \in Nat /\ stopped \in Nat
  /\ at # "idle" => pc = "command"

(* One request stops at most one boot: the message that stop_boot_test     *)
(* leaves is used once, and signals that fall together count as one.       *)
OneRequestOneBoot == stopped + (IF message THEN 1 ELSE 0) <= stops

(* A boot ends whether or not it is stopped, although the SSH command of   *)
(* a check may hang: the func timer breaks it off, wherever requests fall. *)
BootEnds == pc = "method" ~> pc \in {"between", "aborted"}

(* A request between two boots, or one that comes late from an SSH command,*)
(* can end the whole keyword only after a boot that failed: a boot that    *)
(* passes leaves neither stop_boot_test nor timed_out behind.              *)
AbortsOnlyAfterFailure == pc = "aborted" => fate = "failed"

(* stop_boot_test handles "SIGUSR1 by aborting the boot test that is       *)
(* running" (its docstring): with none running nothing is aborted.         *)
AbortsOnlyBoots == pc # "aborted"

(* "Clear the exit_wait_early_message variable for future use", says       *)
(* wait_state: no boot starts with the message of an earlier one.          *)
StartsClean == pc = "method" => ~message

(* stop_boot_test tells why it fails a boot: "The caller has asked that    *)
(* the boot test be stopped and marked as a failure."                      *)
StopsOnlyOnRequest == [][stop_boot_test => "other" \in pending]_svars

(* And with one running it is aborted: a boot that was asked to stop while *)
(* it ran does not pass.                                                   *)
RequestHonoured == fate = "passed" => ~asked
=============================================================================
