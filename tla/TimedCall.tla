----------------------------- MODULE TimedCall -----------------------------
(***************************************************************************)
(* What func_timer_class.run promises its caller: the function is called   *)
(* once and its value or its exception comes back, or the call ends with a *)
(* time-out, which needs a time_out to have been given.  Whichever it is,  *)
(* the caller finds its own SIGUSR1 handler in place and no timer running. *)
(***************************************************************************)
VARIABLES
  disposition,  (* the SIGUSR1 handler the caller has set                   *)
  timer,        (* a timer process exists                                   *)
  call,         (* idle, limited (a time_out was given) or unlimited        *)
  answer        (* what the last call came to                               *)

callvars == <<disposition, timer, call, answer>>

CONSTANT Handlers

Init == disposition \in Handlers /\ timer = FALSE /\ call = "idle" /\ answer = "none"

Call ==
  /\ call = "idle"
  /\ call' \in {"limited", "unlimited"}
  /\ answer' = "none"
  /\ UNCHANGED <<disposition, timer>>

StartTimer ==
  /\ call = "limited" /\ ~timer
  /\ timer' = TRUE
  /\ UNCHANGED <<disposition, call, answer>>

StopTimer ==
  /\ call = "limited" /\ timer
  /\ timer' = FALSE
  /\ UNCHANGED <<disposition, call, answer>>

Return ==
  /\ call # "idle" /\ ~timer
  /\ call' = "idle"
  /\ answer' \in {"value", "raised"} \cup (IF call = "limited" THEN {"timed_out"} ELSE {})
  /\ UNCHANGED <<disposition, timer>>

Rearm ==
  /\ call = "idle"
  /\ disposition' \in Handlers
  /\ UNCHANGED <<timer, call, answer>>

Next == Call \/ StartTimer \/ StopTimer \/ Return \/ Rearm

CallSpec == Init /\ [][Next]_callvars
=============================================================================
