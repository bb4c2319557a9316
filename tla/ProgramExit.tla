----------------------------- MODULE ProgramExit -----------------------------
(***************************************************************************)
(* How a program built on lib/gen_arg.py ends: gen_post_validation         *)
(* registers the exit function and the signal handlers; the exit function  *)
(* calls terminate_descendants if set_term_options was called, and then    *)
(* the program's own exit_function.                                        *)
(*                                                                         *)
(* terminate_descendants takes a list of the descendants, asks some of     *)
(* them to end, and waits without limit for all on the list.  Meanwhile    *)
(* the descendants go on: they end, which makes orphans of their children, *)
(* and start others.                                                       *)
(***************************************************************************)
CONSTANTS Proc      (* the processes the program and its descendants start  *)

ASSUME ProcAssumption == {"none", "program", "init"} \cap Proc = {}

VARIABLES
  xat,              (* setup, registered, run, exit, select, terminate,     *)
                    (* wait, report or ended                                *)
  term_options,     (* None, or the term_requests                           *)
  unborn, live,     (* processes not yet started, and running               *)
  zombies,          (* children of the program that ended, not yet waited for *)
  parent,           (* the parent of each process, or program or init       *)
  deaf,             (* those that ignore SIGTERM                            *)
  cmdline,          (* of each: named (matches pgm_names), word (a single   *)
                    (* word that does not), plain                           *)
  descendants,      (* the list terminate_descendants waits for             *)
  term_processes,   (* those still to be asked                              *)
  sigterm,          (* those asked                                          *)
  lost,             (* history: orphaned before the list was made           *)
  late,             (* history: started after that                          *)
  exit_function     (* due, done, or skipped by an exception or a signal    *)

world  == <<unborn, live, zombies, parent>>
nature == <<deaf, cmdline>>
asking == <<descendants, term_processes, sigterm>>
history == <<lost, late>>
xvars  == <<xat, term_options, world, nature, asking, history, exit_function>>

XInit ==
  /\ xat = "setup" /\ term_options = "None"
  /\ unborn = Proc /\ live = {} /\ zombies = {}
  /\ parent = [p \in Proc |-> "none"]
  /\ deaf \in SUBSET Proc /\ cmdline \in [Proc -> {"named", "word", "plain"}]
  /\ descendants = {} /\ term_processes = {} /\ sigterm = {}
  /\ lost = {} /\ late = {}
  /\ exit_function = "due"

(* Process.children: those whose parent is the program, and with recursive *)
(* those below them: the least set that holds the children of its members. *)
Below(S) == {p \in live \cup zombies : parent[p] \in S}
children == Below({"program"})

AllBelow(S) ==
  {p \in Proc : \A T \in SUBSET Proc : Below(S) \cup Below(T) \subseteq T => p \in T}

get_descendant_info == AllBelow({"program"})

(* The rest of the exit function does not happen.                          *)
Skips == xat' = "ended" /\ exit_function' = "skipped"

Listed == xat \in {"select", "terminate", "wait", "report", "ended"}

-----------------------------------------------------------------------------
gen_post_validation ==
  /\ xat = "setup"
  /\ xat' = "registered"
  /\ UNCHANGED <<term_options, world, nature, asking, history, exit_function>>

set_term_options(requests) ==
  /\ xat = "registered"
  /\ term_options' = requests
  /\ xat' = "run"
  /\ UNCHANGED <<world, nature, asking, history, exit_function>>

MainEnds ==
  /\ xat = "run"
  /\ xat' = "exit"
  /\ UNCHANGED <<term_options, world, nature, asking, history, exit_function>>

(* SIGTERM or SIGINT: the default action before the handlers are set.      *)
(* gen_signal_handler calls exit: from main this leads to the exit         *)
(* function, within the exit function it ends that.                        *)
Signal ==
  /\ xat # "ended"
  /\ IF xat \in {"registered", "run"}
       THEN xat' = "exit" /\ UNCHANGED exit_function
       ELSE Skips
  /\ UNCHANGED <<term_options, world, nature, asking, history>>

(* The descendants are listed; without term_options, or without any, there *)
(* is nothing to do but call the program's exit_function.                  *)
gen_exit_function ==
  /\ xat = "exit"
  /\ IF term_options = "None" \/ get_descendant_info = {}
       THEN xat' = "ended" /\ exit_function' = "done" /\ UNCHANGED descendants
       ELSE xat' = "select" /\ descendants' = get_descendant_info /\ UNCHANGED exit_function
  /\ UNCHANGED <<term_options, world, nature, term_processes, sigterm, history>>

(* match_process_by_pgm_name looks at words 0 and 1: it fails for a process*)
(* that is gone or a zombie, and for a single word that is not the name.   *)
MatchFails(p) == p \notin live \/ cmdline[p] = "word"

SelectChildren ==   \* mutant: descendants means the children, too
  /\ xat = "select"
  /\ IF term_options = "pgm_names" /\ \E p \in descendants : MatchFails(p)
       THEN Skips /\ UNCHANGED term_processes
       ELSE /\ xat' = "terminate" /\ UNCHANGED exit_function
            /\ term_processes' =
                 CASE term_options = "pgm_names" -> {p \in descendants : cmdline[p] = "named"}
                   [] OTHER                      -> children
  /\ UNCHANGED <<term_options, world, nature, descendants, sigterm, history>>

Select ==
  /\ xat = "select"
  /\ IF term_options = "pgm_names" /\ \E p \in descendants : MatchFails(p)
       THEN Skips /\ UNCHANGED term_processes
       ELSE /\ xat' = "terminate" /\ UNCHANGED exit_function
            /\ term_processes' =
                 CASE term_options = "children"    -> children
                   [] term_options = "descendants" -> descendants
                   [] OTHER -> {p \in descendants : cmdline[p] = "named"}
  /\ UNCHANGED <<term_options, world, nature, descendants, sigterm, history>>

(* process.terminate raises NoSuchProcess if it is gone; a zombie is not.  *)
Terminate(p) ==
  /\ xat = "terminate" /\ p \in term_processes
  /\ IF p \in live \cup zombies
       THEN /\ term_processes' = term_processes \ {p}
            /\ sigterm' = sigterm \cup {p}
            /\ UNCHANGED <<xat, exit_function>>
       ELSE Skips /\ UNCHANGED <<term_processes, sigterm>>
  /\ UNCHANGED <<term_options, world, nature, descendants, history>>

AllAskedFirst ==   \* mutant: the loop ends after its first process
  /\ xat = "terminate" /\ (term_processes = {} \/ sigterm # {})
  /\ xat' = "wait"
  /\ UNCHANGED <<term_options, world, nature, asking, history, exit_function>>

AllAsked ==
  /\ xat = "terminate" /\ term_processes = {}
  /\ xat' = "wait"
  /\ UNCHANGED <<term_options, world, nature, asking, history, exit_function>>

(* psutil.wait_procs(descendants), which also waits for the zombies.       *)
WaitAgain ==   \* mutant: the descendants are listed again for the wait
  /\ xat = "wait" /\ get_descendant_info \cap live = {}
  /\ zombies' = zombies \ descendants
  /\ xat' = "report"
  /\ UNCHANGED <<term_options, unborn, live, parent, nature, asking, history, exit_function>>

Wait ==
  /\ xat = "wait" /\ descendants \cap live = {}
  /\ zombies' = zombies \ descendants
  /\ xat' = "report"
  /\ UNCHANGED <<term_options, unborn, live, parent, nature, asking, history, exit_function>>

Report ==
  /\ xat = "report"
  /\ xat' = "ended" /\ exit_function' = "done"
  /\ UNCHANGED <<term_options, world, nature, asking, history>>

ExitStep ==
  \/ gen_exit_function \/ Select \/ AllAsked \/ Wait \/ Report
  \/ \E p \in Proc : Terminate(p)

-----------------------------------------------------------------------------
(* The program starts a process in its main part, a descendant any time.   *)
Start(p, by) ==
  /\ p \in unborn
  /\ IF by = "program" THEN xat = "run" ELSE by \in live /\ xat # "ended"
  /\ unborn' = unborn \ {p} /\ live' = live \cup {p}
  /\ parent' = [parent EXCEPT ![p] = by]
  /\ late' = IF Listed THEN late \cup {p} ELSE late
  /\ lost' = IF by \in lost THEN lost \cup {p} ELSE lost
  /\ UNCHANGED <<xat, term_options, zombies, nature, asking, exit_function>>

(* A process ends: its children are handed to init; it stays as a zombie   *)
(* if the program is to wait for it, any other parent does so at once.     *)
Ends(p) ==
  /\ p \in live
  /\ live' = live \ {p}
  /\ zombies' = IF parent[p] = "program" THEN zombies \cup {p} ELSE zombies
  /\ parent' = [q \in Proc |-> IF parent[q] = p THEN "init" ELSE parent[q]]
  /\ lost' = IF Listed THEN lost ELSE lost \cup AllBelow({p})
  /\ UNCHANGED <<xat, term_options, unborn, nature, asking, late, exit_function>>

Obeys(p) == p \in sigterm \ deaf /\ Ends(p)

(* subprocess reaps the children that have ended when it starts another.   *)
ReapEnded ==
  /\ xat = "run" /\ zombies # {}
  /\ zombies' = {}
  /\ UNCHANGED <<xat, term_options, unborn, live, parent, nature, asking, history, exit_function>>

XNext ==
  \/ gen_post_validation \/ MainEnds \/ Signal \/ ReapEnded
  \/ \E r \in {"None", "children", "descendants", "pgm_names"} : set_term_options(r)
  \/ ExitStep
  \/ \E p \in Proc :
       \/ Ends(p)
       \/ \E by \in Proc \cup {"program"} : Start(p, by)

XSpec == XInit /\ [][XNext]_xvars
XFairSpec ==
  XSpec /\ WF_xvars(ExitStep) /\ \A p \in Proc : WF_xvars(Obeys(p))

-----------------------------------------------------------------------------
(* Types of the variables of terminate_descendants.  Every process is in   *)
(* one state, no running process has a parent that has ended, and the wait *)
(* begins when all are asked.                                              *)
XTypeOK ==
  /\ xat \in {"setup", "registered", "run", "exit", "select", "terminate", "wait",
             "report", "ended"}
  /\ term_options \in {"None", "children", "descendants", "pgm_names"}
  /\ unborn \cap live = {} /\ zombies \cap live = {} /\ unborn \cap zombies = {}
  /\ parent \in [Proc -> Proc \cup {"none", "program", "init"}]
  /\ \A p \in live : parent[p] \in live \cup {"program", "init"}
  /\ descendants \subseteq Proc /\ term_processes \subseteq Proc
  /\ sigterm \cap unborn = {}
  /\ xat \in {"wait", "report"} => term_processes = {} /\ descendants # {}
  /\ exit_function \in {"due", "done", "skipped"}

(* When a program that has asked for it comes to the end of its exit       *)
(* function, a process that still runs was orphaned before terminate_      *)
(* descendants made its list, or started afterwards: one that was orphaned *)
(* by the termination itself has been waited for.                          *)
NoneForgotten ==
  exit_function = "done" /\ term_options # "None" => live \subseteq lost \cup late

(* If all descendants are asked and none ignores it, the exit function     *)
(* comes to an end, although the descendants may still start others.       *)
ExitEnds ==
  xat = "exit" /\ deaf = {} /\ term_options \in {"None", "descendants"} ~> xat = "ended"
=============================================================================
