---------------------------- MODULE SignalProofs ----------------------------
(***************************************************************************)
(* Proofs about SIGUSR1, the signal that FuncTimer and BootSignals share.  *)
(*                                                                         *)
(* The first part is about FuncTimer alone, for every set of handlers and  *)
(* time-outs and any number of foreign signals.  The second is about       *)
(* BootSignals, for any number of boots, checks, commands and requests;    *)
(* where the func timer is concerned it rests on FInv, the invariant of    *)
(* the first part.                                                         *)
(***************************************************************************)
EXTENDS BootSignals, TLAPS

(* What holds at each place of run as long as no signal was taken before   *)
(* the pid was stored: whose handler is in place and what the object knows *)
(* of its timer.                                                           *)
Unlimited == time_out = "none" /\ handler \in Handlers /\ child = "none"
Limited   == /\ time_out # "none" /\ handler = TimerHandler
             /\ original \in Handlers

Placed ==
  /\ orphans = 0
  /\ at = "idle" => handler \in Handlers /\ child = "none"
  /\ at = "fork" => Limited /\ child = "none"
  /\ at = "forked" => Limited
  /\ at \in {"func", "cleanup"} => Unlimited \/ (Limited /\ child_pid)
  /\ at \in {"kill", "wait", "clear"} => handler \in Handlers /\ time_out # "none"
  /\ at = "wait" => child # "sleeping"
  /\ at = "clear" => child = "none"

FInv ==
  /\ FTypeOK
  /\ at = "forked" => child # "none"
  /\ ~early => Placed

(* Every step keeps the types.                                             *)
LEMMA FTypeStep == FInv /\ [FNext]_fvars => FTypeOK'
<1> SUFFICES ASSUME FInv, [FNext]_fvars PROVE FTypeOK'
  OBVIOUS
<1> USE TimerAssumption DEF FInv, FTypeOK, TimerHandler
<1>1. ASSUME NEW t \in TimeOuts, run(t) PROVE FTypeOK'
  BY <1>1 DEF run, timer, past
<1>2. ASSUME NEW r \in {"value", "raised"}, FuncEnds(r) PROVE FTypeOK'
  BY <1>2 DEF FuncEnds, timer, past
<1>3. CASE Fork
  BY <1>3 DEF Fork, object, past
<1>4. CASE StorePid
  BY <1>4 DEF StorePid, timer, past
<1>5. CASE Cleanup
  <2>1. CASE CleanupReturns
    BY <2>1 DEF CleanupReturns, object, timer, past
  <2>2. CASE Restore
    BY <2>2 DEF Restore, object, timer, past
  <2>3. CASE Kill
    BY <2>3 DEF Kill, object, past
  <2>4. CASE Wait
    BY <2>4 DEF Wait, object, past
  <2>5. CASE Clear
    BY <2>5 DEF Clear, timer, past
  <2> QED BY <1>5, <2>1, <2>2, <2>3, <2>4, <2>5 DEF Cleanup
<1>6. CASE timed_out
  <2>1. early' \in BOOLEAN
    BY <1>6, Zenon DEF timed_out
  <2> QED BY <1>6, <2>1 DEF timed_out, timer
<1>7. CASE StrayTimeOut \/ OtherHandler
  BY <1>7 DEF StrayTimeOut, OtherHandler, object, timer, past
<1>8. CASE Expire
  BY <1>8 DEF Expire, object, past
<1>11. CASE ExpireOrphan
  <2>1. orphans' \in Nat
    BY <1>11 DEF ExpireOrphan
  <2> QED BY <1>11, <2>1 DEF ExpireOrphan, object, past
<1>9. CASE Foreign
  BY <1>9 DEF Foreign, object, timer
<1>12. CASE Rearm
  BY <1>12 DEF Rearm, object, timer, past
<1>10. CASE UNCHANGED fvars
  BY <1>10 DEF fvars, object, timer, past
<1> QED BY <1>1, <1>2, <1>3, <1>4, <1>5, <1>6, <1>7, <1>8, <1>9, <1>10, <1>11, <1>12
   DEF FNext, Parent

(* Every step keeps what Placed says of each place.                        *)
LEMMA PlacedStep ==
  FInv /\ [FNext]_fvars =>
    /\ at' = "forked" => child' # "none"
    /\ ~early' => Placed'
<1> SUFFICES ASSUME FInv, [FNext]_fvars
             PROVE /\ at' = "forked" => child' # "none"
                   /\ ~early' => Placed'
  OBVIOUS
<1> DEFINE Goal == /\ at' = "forked" => child' # "none"
                   /\ ~early' => Placed'
<1> USE TimerAssumption
    DEF FInv, FTypeOK, Placed, Limited, Unlimited, TimerHandler
<1>1. ASSUME NEW t \in TimeOuts, run(t) PROVE Goal
  BY <1>1 DEF run, timer, past
<1>2. ASSUME NEW r \in {"value", "raised"}, FuncEnds(r) PROVE Goal
  BY <1>2 DEF FuncEnds, timer, past
<1>3. CASE Fork
  BY <1>3 DEF Fork, object, past
<1>4. CASE StorePid
  BY <1>4 DEF StorePid, timer, past
<1>5. CASE Cleanup
  <2>1. CASE CleanupReturns
    BY <2>1 DEF CleanupReturns, NothingKnown, object, timer, past
  <2>2. CASE Restore
    BY <2>2 DEF Restore, NothingKnown, object, timer, past
  <2>3. CASE Kill
    BY <2>3 DEF Kill, object, past
  <2>4. CASE Wait
    BY <2>4 DEF Wait, object, past
  <2>5. CASE Clear
    BY <2>5 DEF Clear, timer, past
  <2> QED BY <1>5, <2>1, <2>2, <2>3, <2>4, <2>5 DEF Cleanup
<1>6. CASE timed_out
  BY <1>6 DEF timed_out, timer
<1>7. CASE StrayTimeOut \/ OtherHandler
  BY <1>7 DEF StrayTimeOut, OtherHandler, object, timer, past
<1>8. CASE Expire \/ ExpireOrphan
  BY <1>8 DEF Expire, ExpireOrphan, object, past
<1>9. CASE Foreign \/ Rearm
  BY <1>9 DEF Foreign, Rearm, object, timer, past
<1>10. CASE UNCHANGED fvars
  BY <1>10 DEF fvars, object, timer, past
<1> QED BY <1>1, <1>2, <1>3, <1>4, <1>5, <1>6, <1>7, <1>8, <1>9, <1>10
   DEF FNext, Parent

(* FInv is inductive.                                                      *)
LEMMA FInductive == FSpec => []FInv
<1>1. FInit => FInv
  <2> SUFFICES ASSUME FInit PROVE FInv
    OBVIOUS
  <2>1. FTypeOK
    BY TimerAssumption DEF FInit, FTypeOK
  <2>2. at # "forked" /\ Placed
    BY DEF FInit, Placed
  <2> QED BY <2>1, <2>2 DEF FInv
<1>2. FInv /\ [FNext]_fvars => FInv'
  BY FTypeStep, PlacedStep DEF FInv
<1> QED BY <1>1, <1>2, PTL DEF FSpec

(* The variables of the func timer keep their types, and a function that   *)
(* runs with a time_out always has a timer the object knows of.            *)
THEOREM TimerTypeCorrect == FSpec => []FTypeOK
<1>1. FInv => FTypeOK
  BY DEF FInv
<1> QED BY <1>1, FInductive, PTL

(* However many signals are sent by whomever, run gives its caller the     *)
(* handler back and leaves no timer, unless one was taken before the pid   *)
(* was stored.                                                             *)
THEOREM NothingIsLeftBehind == FSpec => []NothingLeftBehind
<1>1. FInv => NothingLeftBehind
  BY DEF FInv, Placed, NothingLeftBehind
<1> QED BY <1>1, FInductive, PTL
-----------------------------------------------------------------------------
(* Once a signal was taken early, the history keeps it.                    *)
LEMMA EarlyStays ==
  ASSUME FTypeOK, early, [FNext]_fvars
  PROVE  early'
<1>1. CASE timed_out
  BY <1>1, Zenon DEF timed_out
<1>2. CASE ~timed_out
  BY <1>2 DEF FTypeOK, FNext, Parent, Cleanup, run, FuncEnds, Fork, StorePid,
     CleanupReturns, Restore, Kill, Wait, Clear, StrayTimeOut, OtherHandler,
     Expire, ExpireOrphan, Foreign, Rearm, past, fvars
<1> QED BY <1>1, <1>2

(* While no signal has been taken early, run has an answer when it cleans  *)
(* up, and it is a time-out only if there was a time_out.                  *)
Orderly ==
  /\ FInv
  /\ ~early /\ at \in {"cleanup", "kill", "wait", "clear"} => result # "none"
  /\ ~early /\ at = "cleanup" /\ time_out = "none" => result # "timed_out"

LEMMA OrderlyStep ==
  ASSUME Orderly, [FNext]_fvars
  PROVE  Orderly'
<1> USE TimerAssumption DEF Orderly
<1>1. FInv'
  BY FTypeStep, PlacedStep DEF FInv
<1>2. CASE early'
  BY <1>1, <1>2
<1>3. CASE ~early'
  <2>1. ~early
    BY <1>3, EarlyStays DEF FInv
  <2>2. timed_out => at \in {"func", "cleanup"} /\ time_out # "none"
    BY <1>3 DEF timed_out, FInv, FTypeOK, Placed, Limited, Unlimited, TimerHandler
  <2> DEFINE Rest ==
        /\ at' \in {"cleanup", "kill", "wait", "clear"} => result' # "none"
        /\ at' = "cleanup" /\ time_out' = "none" => result' # "timed_out"
  <2>3. Rest
    <3>1. ASSUME NEW t \in TimeOuts, run(t) PROVE Rest
      BY <3>1, <2>1 DEF run
    <3>2. ASSUME NEW r \in {"value", "raised"}, FuncEnds(r) PROVE Rest
      BY <3>2, <2>1 DEF FuncEnds
    <3>3. CASE Fork \/ StorePid
      BY <3>3, <2>1 DEF Fork, StorePid, object
    <3>4. CASE Cleanup
      BY <3>4, <2>1 DEF Cleanup, CleanupReturns, Restore, Kill, Wait, Clear, object
    <3>5. CASE timed_out
      BY <3>5, <2>2 DEF timed_out
    <3>6. CASE StrayTimeOut \/ OtherHandler
      BY <3>6, <2>1 DEF StrayTimeOut, OtherHandler, object
    <3>7. CASE Expire \/ ExpireOrphan \/ Foreign \/ Rearm
      BY <3>7, <2>1 DEF Expire, ExpireOrphan, Foreign, Rearm, object
    <3>8. CASE UNCHANGED fvars
      BY <3>8, <2>1 DEF fvars, object
    <3> QED BY <3>1, <3>2, <3>3, <3>4, <3>5, <3>6, <3>7, <3>8 DEF FNext, Parent
  <2> QED BY <1>1, <2>3
<1> QED BY <1>2, <1>3

(* Each step of the func timer is a step of TimedCall, or leaves what the  *)
(* caller sees as it was.                                                  *)
LEMMA PromiseStep ==
  ASSUME Orderly, [FNext]_fvars, ~early'
  PROVE  [Promise!Next]_(Promise!callvars)
<1> DEFINE Goal == [Promise!Next]_(Promise!callvars)
<1>0. ~early
  BY EarlyStays DEF Orderly, FInv
<1> USE TimerAssumption
    DEF Orderly, FInv, FTypeOK, Placed, Limited, Unlimited, TimerHandler, Borrowed,
        Promise!callvars, Promise!Next
<1>1. ASSUME NEW t \in TimeOuts, run(t) PROVE Goal
  BY <1>0, <1>1 DEF run, timer, past, Promise!Call
<1>2. ASSUME NEW r \in {"value", "raised"}, FuncEnds(r) PROVE Goal
  BY <1>0, <1>2 DEF FuncEnds, timer, past
<1>3. ASSUME Fork PROVE Goal
  BY <1>0, <1>3 DEF Fork, object, past, Promise!StartTimer
<1>4. ASSUME StorePid PROVE Goal
  BY <1>0, <1>4 DEF StorePid, timer, past
<1>5. ASSUME CleanupReturns PROVE Goal
  BY <1>0, <1>5 DEF CleanupReturns, NothingKnown, object, timer, past, Promise!Return
<1>6. ASSUME Restore PROVE Goal
  BY <1>0, <1>6 DEF Restore, NothingKnown, object, timer, past
<1>7. ASSUME Kill PROVE Goal
  BY <1>0, <1>7 DEF Kill, object, past
<1>8. ASSUME Wait PROVE Goal
  BY <1>0, <1>8 DEF Wait, object, past, Promise!StopTimer
<1>9. ASSUME Clear PROVE Goal
  BY <1>0, <1>9 DEF Clear, timer, past, Promise!Return
<1>10. ASSUME timed_out PROVE Goal
  BY <1>0, <1>10 DEF timed_out, timer
<1>11. ASSUME StrayTimeOut \/ OtherHandler PROVE Goal
  BY <1>0, <1>11 DEF StrayTimeOut, OtherHandler, object, timer, past
<1>12. ASSUME Expire \/ ExpireOrphan PROVE Goal
  BY <1>0, <1>12 DEF Expire, ExpireOrphan, object, past
<1>13. ASSUME Foreign PROVE Goal
  BY <1>0, <1>13 DEF Foreign, object, timer
<1>14. ASSUME Rearm PROVE Goal
  BY <1>0, <1>14 DEF Rearm, object, timer, past, Promise!Rearm
<1>15. ASSUME UNCHANGED fvars PROVE Goal
  BY <1>0, <1>15 DEF fvars, object, timer, past
<1> HIDE DEF Orderly, FInv, FTypeOK, Placed, Limited, Unlimited, Borrowed,
             Promise!callvars, Promise!Next, Goal
<1>16. ASSUME Cleanup PROVE Goal
  BY <1>5, <1>6, <1>7, <1>8, <1>9, <1>16 DEF Cleanup
<1>17. ASSUME Parent PROVE Goal
  BY <1>3, <1>4, <1>10, <1>16, <1>17 DEF Parent
<1>18. Goal
  BY <1>1, <1>2, <1>11, <1>12, <1>13, <1>14, <1>15, <1>17 DEF FNext
<1> QED BY <1>18 DEF Goal

(* Whoever else sends SIGUSR1, run keeps the promise of TimedCall up to a  *)
(* signal that is taken before the child's pid is stored.                  *)
THEOREM PromiseKept == FSpec => KeepsTimedCall
<1>1. FInit => Orderly
  <2> SUFFICES ASSUME FInit PROVE Orderly
    OBVIOUS
  <2>1. FTypeOK
    BY TimerAssumption DEF FInit, FTypeOK
  <2>2. at # "forked" /\ Placed
    BY DEF FInit, Placed
  <2> QED BY <2>1, <2>2 DEF FInv, FInit, Orderly
<1>2. Orderly /\ [FNext]_fvars => Orderly'
  BY OrderlyStep
<1>3. FInit => Promise!Init
  BY DEF FInit, Promise!Init, Borrowed
<1>4. Orderly /\ [FNext]_fvars => [early' \/ Promise!Next]_(Promise!callvars)
  BY PromiseStep
<1> QED BY <1>1, <1>2, <1>3, <1>4, PTL DEF FSpec, KeepsTimedCall

-----------------------------------------------------------------------------
(* The second part: BootSignals.                                           *)

BTypes ==
  /\ pc \in {"between", "method", "wait", "sample", "command", "judge", "retry",
             "exit", "leaving", "waited", "aborted"}
  /\ message \in BOOLEAN
  /\ waits \in 0..3 /\ bmc_reboot \in BOOLEAN
  /\ checks \in 0..MaxChecks /\ commands \in 0..MaxCommands
  /\ boots \in 0..MaxBoots
  /\ fate \in {"none", "running", "passed", "failed"}
  /\ asked \in BOOLEAN
  /\ stops \in Nat /\ stopped \in Nat
  /\ at # "idle" => pc = "command"

(* Whose handler is armed between two boots depends on how the last ended. *)
Disarmed ==
  /\ pc \notin {"between", "aborted"} => fate = "running"
  /\ pc = "between" => fate # "running"
  /\ pc = "between" /\ fate # "failed" => handler = "default"
  /\ pc = "aborted" => fate = "failed"

BInv == FInv /\ BTypes /\ Disarmed /\ OneRequestOneBoot

LEMMA SignalsStart == BInit => BInv
<1> SUFFICES ASSUME BInit PROVE BInv
  OBVIOUS
<1> USE SignalsAssumption DEF SignalsAssumption
<1>1. FInv
  <2>1. FTypeOK
    BY TimerAssumption DEF BInit, FInit, FTypeOK
  <2>2. at # "forked" /\ Placed
    BY DEF BInit, FInit, Placed
  <2> QED BY <2>1, <2>2 DEF FInv
<1>2. message \in BOOLEAN /\ bmc_reboot \in BOOLEAN /\ asked \in BOOLEAN /\ ~message
  BY Zenon DEF BInit
<1>3. BTypes /\ Disarmed /\ OneRequestOneBoot
  BY <1>2 DEF BInit, FInit, BTypes, Disarmed, OneRequestOneBoot
<1> QED BY <1>1, <1>3 DEF BInv

-----------------------------------------------------------------------------
(* signal.signal and the two handlers of the driver leave the func timer   *)
(* what it was: while that lends the signal to timed_out, neither is armed.*)
LEMMA HandlerStep ==
  ASSUME FInv,
         handler' \in Handlers, UNCHANGED <<object, timer, at, past>>,
         \/ at = "idle" /\ pending' = pending
         \/ handler \in Handlers /\ pending' = {}
  PROVE  FInv'
<1>1. FTypeOK'
  <2>1. pending' \subseteq {"timer", "orphan", "other"}
    BY DEF FInv, FTypeOK
  <2>2. UNCHANGED <<original, time_out, child_pid, child, orphans, at, result, foreign, early>>
    BY DEF object, timer, past
  <2> QED BY <2>1, <2>2 DEF FInv, FTypeOK
<1>2. (at = "forked" => child # "none")'
  BY DEF FInv, object, timer, past
<1>3. ~early' => Placed'
  BY TimerAssumption
  DEF FInv, FTypeOK, Placed, Limited, Unlimited, TimerHandler, TimerAssumption, object, timer, past
<1> QED BY <1>1, <1>2, <1>3 DEF FInv

LEMMA TimerKept == FInv /\ [FNext]_fvars => FInv'
BY FTypeStep, PlacedStep DEF FInv

LEMMA FInvStep == ASSUME BInv, [BNext]_svars PROVE FInv'
<1> USE SignalsAssumption DEF SignalsAssumption, BInv
<1>1. FNext => FInv'
  BY TimerKept
<1>2. UNCHANGED fvars => FInv'
  BY TimerKept
<1>3. CASE run_boot \/ PlugInFails \/ BootPasses
  <2>1. at = "idle" /\ handler' \in Handlers /\ UNCHANGED <<object, timer, at, past, pending>>
    BY <1>3 DEF run_boot, PlugInFails, BootPasses, SetHandler, TimerIdle, BTypes
  <2> QED BY <2>1, HandlerStep
<1>4. CASE stop_boot_test
  <2>1. handler \in Handlers /\ handler' \in Handlers /\ pending' = {}
        /\ UNCHANGED <<object, timer, at, past>>
    BY <1>4 DEF stop_boot_test
  <2> QED BY <2>1, HandlerStep
<1>5. CASE MethodFails \/ MethodDone
  BY <1>2, <1>5 DEF MethodFails, MethodDone
<1>6. CASE wait_step
  <2>1. CASE Command
    BY <1>1, <2>1 DEF Command, FNext
  <2>2. CASE ~Command
    BY <1>2, <1>6, <2>2 DEF wait_step, wait_state, check_state, SampleFails, SampleDone,
      CommandAnswers, CheckSucceeds, CheckFails, Retry, WaitTimesOut, ExitEarly, NoMessage,
      WaitReturns
  <2> QED BY <2>1, <2>2
<1>7. CASE TimerStep \/ Orphan \/ Request
  BY <1>1, <1>7 DEF TimerStep, Orphan, Request, FNext
<1>8. CASE default_sigusr1 \/ StrayTimeOutStrikes
  BY <1>1, <1>8 DEF default_sigusr1, StrayTimeOutStrikes, FNext
<1>9. CASE UNCHANGED svars
  BY <1>2, <1>9 DEF svars
<1> QED BY <1>3, <1>4, <1>5, <1>6, <1>7, <1>8, <1>9 DEF BNext, boot_step, handlers

-----------------------------------------------------------------------------
Rest == BTypes /\ Disarmed /\ OneRequestOneBoot

(* The steps of run_boot and of the loop in wait_state.                    *)
LEMMA BootStep == ASSUME BInv, run_boot \/ boot_step PROVE Rest'
<1> USE SignalsAssumption
    DEF SignalsAssumption, BInv, Rest, BTypes, Disarmed, OneRequestOneBoot,
        progress, boot, record, fvars, object, timer, past
<1>1. CASE run_boot
  <2>1. ~asked' /\ asked' \in BOOLEAN
    BY <1>1, Zenon DEF run_boot
  <2> QED BY <1>1, <2>1 DEF run_boot, SetHandler, TimerIdle
<1>2. CASE PlugInFails
  BY <1>2 DEF PlugInFails, SetHandler, TimerIdle
<1>3. CASE MethodFails \/ WaitTimesOut
  BY <1>3 DEF MethodFails, WaitTimesOut
<1>4. CASE MethodDone
  <2>1. waits' \in 0..3
    BY <1>4 DEF MethodDone
  <2> QED BY <1>4, <2>1 DEF MethodDone
<1>5. CASE wait_state \/ check_state
  BY <1>5 DEF wait_state, check_state
<1>6. CASE SampleFails \/ SampleDone \/ CommandAnswers \/ CheckSucceeds \/ CheckFails
  BY <1>6 DEF SampleFails, SampleDone, CommandAnswers, CheckSucceeds, CheckFails
<1>7. CASE Command
  BY <1>7 DEF Command
<1>8. CASE Retry \/ NoMessage \/ WaitReturns
  BY <1>8 DEF Retry, NoMessage, WaitReturns
<1>9. CASE ExitEarly
  <2>1. message /\ ~message' /\ message' \in BOOLEAN
    BY <1>9, Zenon DEF ExitEarly
  <2> QED BY <1>9, <2>1 DEF ExitEarly
<1>10. CASE BootPasses
  BY <1>10 DEF BootPasses, SetHandler, TimerIdle
<1> QED BY <1>1, <1>2, <1>3, <1>4, <1>5, <1>6, <1>7, <1>8, <1>9, <1>10 DEF boot_step, wait_step

(* What the handlers and the func timer do to a boot.                      *)
LEMMA SignalStep ==
  ASSUME BInv, TimerStep \/ Orphan \/ Request \/ handlers
  PROVE  Rest'
<1> USE SignalsAssumption, TimerAssumption
    DEF SignalsAssumption, TimerAssumption, BInv, Rest, BTypes, Disarmed, OneRequestOneBoot,
        progress, boot, record, bvars, object, timer, past
<1>1. CASE TimerStep
  <2>1. pc = "command" /\ UNCHANGED bvars
    BY <1>1 DEF TimerStep
  <2> QED BY <2>1
<1>2. CASE Orphan
  BY <1>2 DEF Orphan, ExpireOrphan
<1>3. CASE Request
  <2>1. asked' \in BOOLEAN
    BY <1>3, Zenon DEF Request
  <2> QED BY <1>3, <2>1 DEF Request, Foreign
<1>4. CASE stop_boot_test
  <2>1. CASE InWait
    <3>1. message' /\ message' \in BOOLEAN
      BY <1>4, <2>1, Zenon DEF stop_boot_test
    <3>2. UNCHANGED <<pc, fate, stopped>>
      BY <1>4, <2>1 DEF stop_boot_test
    <3>3. stopped <= stops /\ stops' = stops + 1
      BY <1>4 DEF stop_boot_test
    <3>4. OneRequestOneBoot'
      BY <3>1, <3>2, <3>3
    <3>5. pc \notin {"between", "aborted"}
      BY <2>1 DEF InWait
    <3>6. BTypes' /\ Disarmed'
      BY <1>4, <3>1, <3>2, <3>3, <3>5 DEF stop_boot_test
    <3> QED BY <3>4, <3>6
  <2>2. CASE InBoot /\ ~InWait
    <3>1. pc' = "between" /\ fate' = "failed" /\ stopped' = stopped + 1 /\ message' = message
      BY <1>4, <2>2 DEF stop_boot_test
    <3>2. pc # "command"
      BY <2>2 DEF InWait
    <3> QED BY <1>4, <3>1, <3>2 DEF stop_boot_test
  <2>3. CASE ~InBoot
    <3>1. pc = "between" /\ ~InWait
      BY <1>4, <2>3 DEF stop_boot_test, InBoot, InWait
    <3>2. pc' = "aborted" /\ UNCHANGED <<message, fate, stopped>>
      BY <1>4, <2>3, <3>1 DEF stop_boot_test
    <3> QED BY <1>4, <3>1, <3>2 DEF stop_boot_test
  <2> QED BY <2>1, <2>2, <2>3
<1>5. CASE default_sigusr1
  BY <1>5 DEF default_sigusr1, OtherHandler
<1>6. CASE StrayTimeOutStrikes
  <2>1. at = "idle" /\ at' = "idle" /\ handler = TimerHandler /\ handler' = handler
    BY <1>6 DEF StrayTimeOutStrikes, StrayTimeOut
  <2>2. /\ pc \in {"sample", "judge", "command"} => pc' = "retry" /\ fate' = fate
        /\ pc \in {"wait", "retry", "exit", "leaving", "method", "waited"} =>
             pc' = "between" /\ fate' = "failed"
        /\ pc \in {"between", "aborted"} => pc' = "aborted" /\ fate' = fate
    BY <1>6 DEF StrayTimeOutStrikes
  <2>3. handler # "default"
    BY <2>1 DEF TimerHandler
  <2> QED BY <1>6, <2>1, <2>2, <2>3 DEF StrayTimeOutStrikes
<1> QED BY <1>1, <1>2, <1>3, <1>4, <1>5, <1>6 DEF handlers

LEMMA SignalsInvariant == BSpec => []BInv
<1>1. BInv /\ [BNext]_svars => BInv'
  <2> SUFFICES ASSUME BInv, [BNext]_svars PROVE BInv'
    OBVIOUS
  <2>1. CASE UNCHANGED svars
    <3>1. Rest'
      BY <2>1 DEF svars, bvars, fvars, progress, boot, record, BInv, Rest, BTypes, Disarmed,
                  OneRequestOneBoot
    <3> QED BY <3>1, FInvStep DEF Rest, BInv
  <2>2. CASE BNext
    <3>1. Rest'
      BY <2>2, BootStep, SignalStep DEF BNext
    <3> QED BY <3>1, FInvStep DEF Rest, BInv
  <2> QED BY <2>1, <2>2
<1> QED BY <1>1, SignalsStart, PTL DEF BSpec

(* The types of run_boot, wait_state, the handlers and the func timer that *)
(* is composed with them.                                                  *)
THEOREM SignalsTypeCorrect == BSpec => []BTypeOK
<1>1. BInv => BTypeOK
  BY DEF BInv, FInv, BTypes, BTypeOK
<1> QED BY <1>1, SignalsInvariant, PTL

(* However many requests fall wherever, stop_boot_test and the message it  *)
(* leaves fail no more boots than it ran.                                  *)
THEOREM OneRequestStopsOne == BSpec => []OneRequestOneBoot
<1>1. BInv => OneRequestOneBoot
  BY DEF BInv
<1> QED BY <1>1, SignalsInvariant, PTL

(* A boot that passes leaves no handler that could end the keyword.        *)
THEOREM OnlyFailureAborts == BSpec => []AbortsOnlyAfterFailure
<1>1. BInv => AbortsOnlyAfterFailure
  BY DEF BInv, Disarmed, AbortsOnlyAfterFailure
<1> QED BY <1>1, SignalsInvariant, PTL
=============================================================================
