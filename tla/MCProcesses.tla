----------------------------- MODULE MCProcesses -----------------------------
(***************************************************************************)
(* Processes, for TLC: shell_cmd and the command it runs, a program and    *)
(* its descendants at its end, its arguments at its beginning, and the     *)
(* keywords that run in parallel.  These share no variable, so what one    *)
(* does beside another is what it does alone: scene is the one that is     *)
(* looked at in this behaviour.                                            *)
(***************************************************************************)
EXTENDS ShellCmd, ProgramExit, ProgramArgs, Jobs, TLC

CONSTANTS p1, p2, p3

VARIABLE scene
pvars == <<scene, shvars, xvars, avars, jvars>>

MCInit ==
  /\ scene \in {"shell", "exit", "args", "jobs"}
  /\ ShInit /\ XInit /\ AInit /\ JInit
  /\ cmdline = (p1 :> "named") @@ (p2 :> "word") @@ (p3 :> "plain")
  /\ IF scene = "exit" THEN TRUE ELSE deaf = {}
  /\ IF scene = "args" THEN TRUE ELSE arg_obj = [a \in Arg |-> 0]
  /\ IF scene = "jobs" THEN TRUE ELSE by_time

Shell == scene = "shell" /\ ShNext /\ UNCHANGED <<scene, xvars, avars, jvars>>
Exit  == scene = "exit"  /\ XNext  /\ UNCHANGED <<scene, shvars, avars, jvars>>
Args  == scene = "args"  /\ ANext  /\ UNCHANGED <<scene, shvars, xvars, jvars>>
Keywords == scene = "jobs" /\ JNext /\ UNCHANGED <<scene, shvars, xvars, avars>>

MCNext == Shell \/ Exit \/ Args \/ Keywords

(* The fairness of the parts; what it is about happens in their scene only. *)
MCSpec ==
  /\ MCInit /\ [][MCNext]_pvars
  /\ WF_shvars(Body) /\ WF_shvars(Alarm)
  /\ WF_xvars(ExitStep) /\ \A p \in Proc : WF_xvars(Obeys(p))

(* What is kept twice agrees at the end, but for what is named: the exit   *)
(* function forgets only descendants that were orphaned before its list was*)
(* made or started after; of the arguments, __builtin__ keeps an old value *)
(* only of those assigned plainly; and of the statuses of parallel keywords*)
(* only one whose key another keyword takes over is lost.                  *)
OnlyNamedLosses == XTypeOK /\ NoneForgotten /\ StaleOnlyIfAssigned /\ StatusesAreIn

(* A call of shell_cmd with a time-out ends, and so does the exit function *)
(* when it only waits for what it has asked to end.                        *)
ProcessesEnd == LimitedCallEnds /\ ExitEnds
=============================================================================
