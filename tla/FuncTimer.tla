----------------------------- MODULE FuncTimer -----------------------------
(***************************************************************************)
(* The func timer of lib/func_timer.py.  run calls a function; if it was   *)
(* given a time_out it first makes timed_out the handler of SIGUSR1 and    *)
(* forks a child that sleeps for time_out seconds and then sends SIGUSR1   *)
(* to its parent.  cleanup puts the caller's handler back, kills the child *)
(* and reaps it.  Python runs a handler between two bytecodes, so a signal *)
(* is taken at any point of run and of cleanup.                            *)
(*                                                                         *)
(* SIGUSR1 does not queue: pending is the set of those who sent the one    *)
(* signal that waits to be handled.  signal.signal lets a signal that      *)
(* waits be handled before it changes the handler, hence pending = {} in   *)
(* the actions that call it.                                               *)
(***************************************************************************)
EXTENDS Naturals

CONSTANTS
  Handlers,     (* SIGUSR1 handlers of the rest of the program              *)
  TimeOuts,     (* subset of {"none", "zero", "some"}: the time_out argument*)
  MaxForeign,   (* bound: signals sent by others than the timer             *)
  MaxOrphans    (* bound: timers the object has lost                        *)

TimerHandler == "timed_out"

ASSUME TimerAssumption ==
  /\ TimerHandler \notin Handlers
  /\ TimeOuts \subseteq {"none", "zero", "some"}
  /\ MaxForeign \in Nat /\ MaxOrphans \in Nat

VARIABLES
  handler,      (* the handler of SIGUSR1                                   *)
  pending,      (* senders of the SIGUSR1 not handled yet                   *)
  original,     (* __original_SIGUSR1_handler                               *)
  time_out,     (* __time_out                                               *)
  child_pid,    (* __child_pid # 0                                          *)
  child,        (* the timer: none, sleeping or exited (not reaped)         *)
  orphans,      (* timers still asleep that the object has lost             *)
  at,           (* idle, fork, forked, func, cleanup, kill, wait, clear     *)
  result,       (* what run is about to answer                              *)
  foreign,      (* signals sent by others so far                            *)
  early         (* history: a signal was taken before the pid was stored    *)

object == <<original, time_out, child_pid, result>>
timer  == <<child, orphans>>
past   == <<foreign, early>>
fvars  == <<handler, pending, object, timer, at, past>>

FInit ==
  /\ handler \in Handlers
  /\ pending = {}
  /\ original = handler
  /\ time_out = "none"
  /\ child_pid = FALSE
  /\ child = "none" /\ orphans = 0
  /\ at = "idle"
  /\ result = "none"
  /\ foreign = 0 /\ early = FALSE

-----------------------------------------------------------------------------
(* run, up to the fork.  A negative time_out is refused before.            *)
run(t) ==
  /\ at = "idle" /\ orphans < MaxOrphans
  /\ time_out' = t
  /\ child_pid' = FALSE
  /\ result' = "none"
  /\ IF t = "none"
       THEN at' = "func" /\ UNCHANGED <<original, handler>>
       ELSE pending = {} /\ at' = "fork" /\ original' = handler /\ handler' = TimerHandler
  /\ UNCHANGED <<pending, timer, past>>

Fork ==
  /\ at = "fork"
  /\ child' = "sleeping"
  /\ at' = "forked"
  /\ UNCHANGED <<handler, pending, object, orphans, past>>

(* The pid os.fork returned is stored: from here on cleanup knows of it.   *)
StoreNothing ==   \* mutant: os.fork's value goes to a local variable
  /\ at = "forked"
  /\ at' = "func"
  /\ UNCHANGED <<handler, pending, object, timer, past>>

StorePid ==
  /\ at = "forked"
  /\ child_pid' = TRUE
  /\ at' = "func"
  /\ UNCHANGED <<handler, pending, original, time_out, result, timer, past>>

(* The function returns or raises; run calls cleanup in either case.       *)
FuncEnds(r) ==
  /\ at = "func"
  /\ result' = r
  /\ at' = "cleanup"
  /\ UNCHANGED <<handler, pending, original, time_out, child_pid, timer, past>>

(* cleanup has nothing to do: no child was forked, or none is known.       *)
NothingKnown == ~child_pid \/ time_out = "none"

CleanupReturns ==
  /\ at = "cleanup" /\ NothingKnown
  /\ at' = "idle"
  /\ UNCHANGED <<handler, pending, object, timer, past>>

RestoreNothing ==   \* mutant: the caller's handler is not put back
  /\ at = "cleanup" /\ ~NothingKnown /\ pending = {}
  /\ at' = "kill"
  /\ UNCHANGED <<handler, pending, object, timer, past>>

Restore ==
  /\ at = "cleanup" /\ ~NothingKnown /\ pending = {}
  /\ handler' = original
  /\ at' = "kill"
  /\ UNCHANGED <<pending, object, timer, past>>

(* os.kill and os.waitpid.  A child that has exited is a zombie until it   *)
(* is reaped; that there is none to kill or to reap is tolerated.          *)
KillNot ==   \* mutant: the child is left to sleep
  /\ at = "kill"
  /\ at' = "clear"
  /\ UNCHANGED <<handler, pending, object, timer, past>>

Kill ==
  /\ at = "kill"
  /\ child' = IF child = "none" THEN "none" ELSE "exited"
  /\ at' = "wait"
  /\ UNCHANGED <<handler, pending, object, orphans, past>>

Wait ==
  /\ at = "wait" /\ child # "sleeping"
  /\ child' = "none"
  /\ at' = "clear"
  /\ UNCHANGED <<handler, pending, object, orphans, past>>

(* __child_pid = 0; run then answers its caller.                           *)
Clear ==
  /\ at = "clear"
  /\ child_pid' = FALSE
  /\ at' = "idle"
  /\ UNCHANGED <<handler, pending, original, time_out, result, timer, past>>

-----------------------------------------------------------------------------
(* The child.  A time_out of at least one second does not expire while the *)
(* parent returns from os.fork; a time_out of zero may.                    *)
ExpireSilently ==   \* mutant: the signal is sent to the wrong process
  /\ child = "sleeping"
  /\ at = "forked" => time_out = "zero"
  /\ child' = "exited"
  /\ UNCHANGED <<handler, pending, object, orphans, at, past>>

Expire ==
  /\ child = "sleeping"
  /\ at = "forked" => time_out = "zero"
  /\ child' = "exited"
  /\ pending' = pending \cup {"timer"}
  /\ UNCHANGED <<handler, object, orphans, at, past>>

ExpireOrphan ==
  /\ orphans > 0
  /\ orphans' = orphans - 1
  /\ pending' = pending \cup {"orphan"}
  /\ UNCHANGED <<handler, object, child, at, past>>

Foreign ==
  /\ foreign < MaxForeign
  /\ foreign' = foreign + 1
  /\ pending' = pending \cup {"other"}
  /\ UNCHANGED <<handler, object, timer, at, early>>

(* timed_out handles the signal: it runs cleanup, then raises ValueError,  *)
(* which leaves run from wherever the signal was taken.  When it is taken  *)
(* before the pid is stored, cleanup knows of no child.                    *)
timed_out ==
  /\ pending # {} /\ handler = TimerHandler
  /\ at # "idle"
  /\ pending' = {}
  /\ result' = "timed_out"
  /\ at' = "cleanup"
  /\ early' = (early \/ at \in {"fork", "forked"})
  /\ IF at = "forked"
       THEN /\ child' = "none"
            /\ orphans' = IF child = "sleeping" THEN orphans + 1 ELSE orphans
       ELSE UNCHANGED timer
  /\ UNCHANGED <<handler, original, time_out, child_pid, foreign>>

(* timed_out is still the handler although run has ended: the ValueError   *)
(* strikes whatever the program is doing by then.                          *)
StrayTimeOut ==
  /\ pending # {} /\ handler = TimerHandler
  /\ at = "idle"
  /\ pending' = {}
  /\ UNCHANGED <<handler, object, timer, at, past>>

(* Any other handler returns to where the signal was taken.                *)
OtherHandler ==
  /\ pending # {} /\ handler # TimerHandler
  /\ pending' = {}
  /\ UNCHANGED <<handler, object, timer, at, past>>

-----------------------------------------------------------------------------
(* The rest of the program sets a handler of its own between two runs.     *)
Rearm ==
  /\ at = "idle" /\ pending = {}
  /\ handler' \in Handlers
  /\ UNCHANGED <<pending, object, timer, at, past>>

Cleanup == CleanupReturns \/ Restore \/ Kill \/ Wait \/ Clear
Parent  == Fork \/ StorePid \/ Cleanup \/ timed_out

FNext ==
  \/ \E t \in TimeOuts : run(t)
  \/ \E r \in {"value", "raised"} : FuncEnds(r)
  \/ Parent
  \/ StrayTimeOut \/ OtherHandler
  \/ Expire \/ ExpireOrphan
  \/ Foreign \/ Rearm

FSpec == FInit /\ [][FNext]_fvars

(* The parent and the sleeping child get the processor.  The function may  *)
(* hang for ever.                                                          *)
FFairSpec == FSpec /\ WF_fvars(Parent) /\ WF_fvars(Expire)

-----------------------------------------------------------------------------
(* Types of the variables of run, cleanup and timed_out; while a function  *)
(* with a time_out runs, the object knows its timer.                       *)
FTypeOK ==
  /\ handler \in Handlers \cup {TimerHandler}
  /\ original \in Handlers \cup {TimerHandler}
  /\ pending \subseteq {"timer", "orphan", "other"}
  /\ time_out \in TimeOuts \cup {"none"}
  /\ child_pid \in BOOLEAN
  /\ child \in {"none", "sleeping", "exited"}
  /\ orphans \in Nat
  /\ at \in {"idle", "fork", "forked", "func", "cleanup", "kill", "wait", "clear"}
  /\ result \in {"none", "value", "raised", "timed_out"}
  /\ foreign \in Nat
  /\ early \in BOOLEAN
  /\ at = "func" /\ time_out # "none" => child_pid /\ child # "none"

(* However run ends - value, exception or time-out - and wherever the      *)
(* signal struck, its caller gets its own handler back and no timer is     *)
(* left asleep or unreaped.  The one exception is a signal taken in run    *)
(* before the child's pid is stored.                                       *)
NothingLeftBehind ==
  at = "idle" /\ ~early =>
    handler \in Handlers /\ child = "none" /\ orphans = 0

(* A run with a time_out ends, even if its function never does.            *)
AlwaysAnswers == at # "idle" /\ time_out # "none" ~> at = "idle"

(* The refinement to TimedCall.                                            *)
Borrowed == time_out # "none" /\ at \in {"fork", "forked", "func", "cleanup"}

Promise == INSTANCE TimedCall WITH
  disposition <- IF Borrowed THEN original ELSE handler,
  timer       <- child # "none",
  call        <- CASE at = "idle" -> "idle"
                   [] at # "idle" /\ time_out = "none" -> "unlimited"
                   [] OTHER -> "limited",
  answer      <- IF at = "idle" THEN result ELSE "none"

(* run keeps the promise of TimedCall, whoever else sends SIGUSR1, up to a *)
(* signal that is taken before the child's pid is stored.                  *)
KeepsTimedCall == Promise!Init /\ [][early' \/ Promise!Next]_(Promise!callvars)
=============================================================================
