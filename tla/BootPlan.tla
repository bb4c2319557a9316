------------------------------ MODULE BootPlan ------------------------------
(***************************************************************************)
(* What "OBMC Boot Test" promises its caller, without saying how boots are *)
(* chosen.  The boots of the stack are owed in last-in first-out order.    *)
(* One is settled when it is run, or when a boot run to prepare the        *)
(* machine for it fails; nothing else removes one.  Every boot, whatever   *)
(* it was run for, adds one to exactly one of the two totals, which live   *)
(* on from call to call.  A job passes only when nothing is owed any more  *)
(* and no more boots failed than its limit allows.                         *)
(***************************************************************************)
EXTENDS Naturals, Sequences

CONSTANTS
  Jobs,       (* [stack, tests, limit]: what a caller may ask for          *)
  Pass0,      (* totals before the first job                               *)
  Fail0

VARIABLES
  todo,       (* boots of the stack not settled yet, the next one last     *)
  left,       (* boots of the list not run yet                             *)
  limit,      (* failures the job tolerates                                *)
  base,       (* total of failures when the job began                      *)
  passed,
  failed,
  outcome     (* idle, open, passed or failed                              *)

plan == <<todo, left, limit, base, passed, failed, outcome>>

Init ==
  /\ todo = << >> /\ left = 0 /\ limit = 0
  /\ base = Fail0 /\ passed = Pass0 /\ failed = Fail0
  /\ outcome = "idle"

(* A job is accepted, or turned down at once.                              *)
Begin ==
  /\ outcome = "idle"
  /\ base' = failed
  /\ \E j \in Jobs :
       /\ limit' = j.limit
       /\ \/ outcome' = "open" /\ todo' = j.stack /\ left' = j.tests
          \/ outcome' = "failed" /\ todo' = << >> /\ left' = 0
  /\ UNCHANGED <<passed, failed>>

Tally(ok) ==
  /\ passed' = IF ok THEN passed + 1 ELSE passed
  /\ failed' = IF ok THEN failed ELSE failed + 1

Settle == todo' = SubSeq(todo, 1, Len(todo) - 1)

RunRequested(ok) ==
  /\ outcome = "open" /\ todo # << >>
  /\ Settle /\ Tally(ok)
  /\ UNCHANGED <<left, limit, base, outcome>>

RunTransition(ok) ==
  /\ outcome = "open" /\ todo # << >>
  /\ IF ok THEN UNCHANGED todo ELSE Settle
  /\ Tally(ok)
  /\ UNCHANGED <<left, limit, base, outcome>>

RunListed(ok) ==
  /\ outcome = "open" /\ todo = << >> /\ left > 0
  /\ left' = left - 1
  /\ Tally(ok)
  /\ UNCHANGED <<todo, limit, base, outcome>>

Close ==
  /\ outcome = "open"
  /\ \/ outcome' = "passed" /\ todo = << >> /\ left = 0
        /\ failed - base <= limit
     \/ outcome' = "failed"
  /\ todo' = << >> /\ left' = 0
  /\ UNCHANGED <<limit, base, passed, failed>>

Return ==
  /\ outcome \in {"passed", "failed"}
  /\ outcome' = "idle"
  /\ UNCHANGED <<todo, left, limit, base, passed, failed>>

Next ==
  \/ Begin
  \/ \E ok \in BOOLEAN : RunRequested(ok) \/ RunTransition(ok) \/ RunListed(ok)
  \/ Close
  \/ Return

PlanSpec == Init /\ [][Next]_plan
=============================================================================
