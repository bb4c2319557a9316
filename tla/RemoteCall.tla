----------------------------- MODULE RemoteCall -----------------------------
(***************************************************************************)
(* What execute_ssh_command of lib/gen_robot_ssh.py promises its caller: a *)
(* command is sent at most twice, a status that comes back is that of the  *)
(* command as it was sent last, and "it worked" is said only of a command  *)
(* that was sent.                                                          *)
(***************************************************************************)
EXTENDS Naturals

VARIABLES
  busy,     (* a call is under way                                          *)
  sent,     (* times the command of this call has been sent                 *)
  status,   (* of the command as it was sent last: zero, nonzero or none    *)
  answer    (* to the last call: none, zero, nonzero, raised, started       *)
            (* (forked), written, pretended (test mode) or refused          *)

rvars == <<busy, sent, status, answer>>

Init == busy = FALSE /\ sent = 0 /\ status = "none" /\ answer = "none"

Call ==
  /\ ~busy
  /\ busy' = TRUE
  /\ sent' = 0 /\ status' = "none" /\ answer' = "none"

Send ==
  /\ busy /\ sent < 2 /\ status = "none"
  /\ sent' = sent + 1
  /\ status' \in {"none", "zero", "nonzero"}
  /\ UNCHANGED <<busy, answer>>

Answer(a) ==
  /\ busy
  /\ a = "zero" => status = "zero"
  /\ a \in {"pretended", "refused"} => sent = 0
  /\ busy' = FALSE
  /\ answer' = a
  /\ UNCHANGED <<sent, status>>

(* A command that was under way when the call was given up.                *)
Abandon ==
  /\ busy /\ sent < 2
  /\ busy' = FALSE
  /\ sent' = sent + 1
  /\ answer' = "raised"
  /\ UNCHANGED status

Next ==
  \/ Call \/ Send \/ Abandon
  \/ \E a \in {"zero", "nonzero", "raised", "started",
               "written", "pretended", "refused"} : Answer(a)

RemoteSpec == Init /\ [][Next]_rvars
=============================================================================
