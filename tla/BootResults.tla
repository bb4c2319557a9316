----------------------------- MODULE BootResults -----------------------------
(***************************************************************************)
(* The boot results of lib/boot_data.py and lib/tally_sheet.py, and how    *)
(* lib/obmc_boot_test.py keeps them from one call of its keyword to the    *)
(* next, in this process or another: in a file named for the pid of the    *)
(* master program.  A call reads the file when it begins and its teardown  *)
(* writes it.  Processes may be killed at any point, and pids are used     *)
(* again.                                                                  *)
(***************************************************************************)
EXTENDS Integers, FiniteSets, Sequences, Functions

CONSTANTS
  Pid,                    (* process ids                                    *)
  Boot,                   (* boot types                                     *)
  boot_pass,              (* the parameter: passes before this program      *)
  boot_fail_threshold,    (* the parameter                                  *)
  max_boot_history,
  MaxProcesses,           (* bound: processes                               *)
  MaxBoots                (* bound: boots and post_stack plug-ins over all  *)

ASSUME ResultsAssumption ==
  /\ boot_pass \in Nat /\ boot_fail_threshold \in Nat /\ max_boot_history \in Nat
  /\ MaxProcesses \in Nat /\ MaxBoots \in Nat
  /\ IsFiniteSet(Boot) /\ Boot # {}   (* there is a boot table                *)

VARIABLES
  active,          (* the pids of running processes                         *)
  phase,           (* of the test process: none, idle, call, saving, or     *)
                   (* raised: the call has ended with an exception          *)
  pid, master_pid,
  boot_results,    (* in the process: Class, or [rows, totals_line]         *)
  boot_history,
  init_boot_fail,
  stage,           (* of a call: stack, post_stack, list                    *)
  booting,         (* the boot that runs, or "none"                         *)
  file,            (* [pid] NoFile, Torn, or <<boot_results, boot_history>> *)
  verdict,         (* of the last call: none, over (the threshold), good    *)
  processes, boots,
  kept,            (* history: [pid] what the calls of this master's life   *)
                   (* that were saved have done                             *)
  done,            (* history: boots of this call, <<boot, status>>         *)
  kept_messages,   (* history: like kept and done, of what was announced:   *)
  messages,        (* boots, and the programs of post_stack plug-ins        *)
  stale            (* history: pids that were given to a process while      *)
                   (* there were results of an older one of that pid        *)

results == <<boot_results, boot_history, init_boot_fail>>
progress == <<stage, booting>>
accounts == <<kept, done, kept_messages, messages>>
rvars == <<active, phase, pid, master_pid, results, progress, file, verdict, processes, boots,
           accounts, stale>>

PlugInMessage == "plug_in"
Message == Boot \cup {PlugInMessage}

NoFile == <<>>
Torn == <<"torn">>

Zero == [total |-> 0, pass |-> 0, fail |-> 0]
Class == [rows |-> [b \in {} |-> Zero], totals_line |-> Zero]   (* not an object *)
Fresh == [rows |-> [b \in Boot |-> Zero], totals_line |-> Zero]

RInit ==
  /\ active = {} /\ phase = "none" /\ pid = "none" /\ master_pid = "none"
  /\ boot_results = Class /\ boot_history = <<>> /\ init_boot_fail = 0
  /\ file = [p \in Pid |-> NoFile] /\ stage = "stack" /\ booting = "none"
  /\ verdict = "none" /\ processes = 0 /\ boots = 0
  /\ kept = [p \in Pid |-> <<>>] /\ done = <<>> /\ stale = {}
  /\ kept_messages = [p \in Pid |-> <<>>] /\ messages = <<>>

-----------------------------------------------------------------------------
(* tally_sheet.calc: the totals are built up from zeroes.                  *)
Column(rows, field) == FoldFunction(LAMBDA r, s : r[field] + s, 0, rows)
AddUp(rows, from) ==
  LET total(field) == from[field] + Column(rows, field)
  IN [total |-> total("total"), pass |-> total("pass"), fail |-> total("fail")]

CalcOnto(r) ==   \* mutant: the totals line is not copied from the zeroes
  LET rows == [b \in Boot |-> [r.rows[b] EXCEPT !.total = r.rows[b].pass + r.rows[b].fail]]
  IN [rows |-> rows, totals_line |-> AddUp(rows, r.totals_line)]

calc(r) ==
  LET rows == [b \in Boot |-> [r.rows[b] EXCEPT !.total = r.rows[b].pass + r.rows[b].fail]]
  IN [rows |-> rows, totals_line |-> AddUp(rows, Zero)]

inc_row_field(r, boot, field) == [r EXCEPT !.rows[boot][field] = @ + 1]

(* boot_results.return_total_pass_fail.                                    *)
total_pass(r) == calc(r).totals_line.pass + boot_pass
total_fail(r) == calc(r).totals_line.fail

TrimFront(history, message) ==   \* mutant: the newest are deleted
  IF Len(history) < max_boot_history THEN Append(history, message) ELSE history

update_boot_history(history, message) ==
  LET longer == Append(history, message)
      over   == Len(longer) - max_boot_history
  IN IF over > 0 THEN SubSeq(longer, over + 1, Len(longer)) ELSE longer

-----------------------------------------------------------------------------
Lives(p) ==
  /\ processes < MaxProcesses /\ processes' = processes + 1
  /\ p \notin active /\ active' = active \cup {p}
  /\ kept' = [kept EXCEPT ![p] = <<>>]
  /\ kept_messages' = [kept_messages EXCEPT ![p] = <<>>]
  /\ stale' = IF file[p] = NoFile /\ p # master_pid THEN stale \ {p} ELSE stale \cup {p}

(* A master program begins, or ends.                                       *)
MasterBegins(p) ==
  /\ Lives(p)
  /\ UNCHANGED <<phase, pid, master_pid, results, progress, file, verdict, boots, done, messages>>

MasterEnds(p) ==
  /\ p \in active /\ p # pid /\ active' = active \ {p}
  /\ UNCHANGED <<phase, pid, master_pid, results, progress, file, verdict, processes, boots,
                 accounts, stale>>

(* The test process begins, under a master or as its own.                  *)
ProcessBegins(p, m) ==
  /\ phase = "none" /\ Lives(p)
  /\ phase' = "idle"
  /\ pid' = p
  /\ m \in active' /\ master_pid' = m
  /\ boot_results' = Class /\ boot_history' = <<>> /\ init_boot_fail' = 0
  /\ verdict' = "none" /\ done' = <<>> /\ messages' = <<>>
  /\ UNCHANGED <<progress, file, boots>>

(* It ends, or is killed.                                                  *)
ProcessEnds ==
  /\ phase # "none" /\ phase' = "none"
  /\ active' = active \ {pid} /\ pid' = "none" /\ master_pid' = "none"
  /\ boot_results' = Class /\ boot_history' = <<>> /\ init_boot_fail' = 0
  /\ done' = <<>> /\ messages' = <<>> /\ stage' = "stack" /\ booting' = "none"
  /\ UNCHANGED <<file, verdict, processes, boots, kept, kept_messages, stale>>

(* What cleanup_boot_results_file leaves.                                  *)
OwnOnly == [p \in Pid |-> IF p = pid THEN file[p] ELSE NoFile]   \* mutant: not by master pid

cleaned_up == [p \in Pid |-> IF p \in active THEN file[p] ELSE NoFile]

(* A call begins: process_pgm_parms cleans up and loads the file, if there *)
(* is one.  If not, boot_results is called to make an object of the class; *)
(* a process that has one already does not have the class any more.        *)
Begins ==
  /\ phase = "idle"
  /\ file' = cleaned_up
  /\ done' = <<>> /\ messages' = <<>> /\ verdict' = "none"
  /\ stage' = "stack" /\ booting' = "none"
  /\ kept' = [p \in Pid |-> IF p \in active THEN kept[p] ELSE <<>>]
  /\ kept_messages' = [p \in Pid |-> IF p \in active THEN kept_messages[p] ELSE <<>>]
  /\ UNCHANGED <<active, pid, master_pid, processes, boots, stale>>

CallAfresh ==   \* mutant: the file is not loaded
  /\ Begins
  /\ phase' = "call" /\ boot_results' = Fresh
  /\ init_boot_fail' = 0
  /\ UNCHANGED boot_history

Call ==
  /\ Begins
  /\ LET own == cleaned_up[master_pid] IN
     \/ /\ own \notin {NoFile, Torn}
        /\ boot_results' = own[1] /\ boot_history' = own[2]
        /\ phase' = IF own[1] = Class THEN "raised" ELSE "call"
     \/ /\ own = NoFile /\ boot_results = Class
        /\ boot_results' = Fresh /\ UNCHANGED boot_history
        /\ phase' = "call"
     \/ /\ own = Torn \/ (own = NoFile /\ boot_results # Class)
        /\ UNCHANGED <<boot_results, boot_history>>
        /\ phase' = "raised"
  /\ init_boot_fail' = IF phase' = "call" THEN total_fail(boot_results') ELSE init_boot_fail

(* A boot is announced and runs.  It ends with a status, or else, by an    *)
(* abort of the test or the time-out of its keyword, with the call, whose  *)
(* teardown comes next.                                                    *)
RunBoot(boot) ==
  /\ phase = "call" /\ verdict = "none" /\ booting = "none" /\ stage \in {"stack", "list"}
  /\ boots < MaxBoots /\ boots' = boots + 1
  /\ boot_history' = update_boot_history(boot_history, boot)
  /\ messages' = Append(messages, boot)
  /\ booting' = boot
  /\ UNCHANGED <<active, phase, pid, master_pid, boot_results, init_boot_fail, stage, file,
                 verdict, processes, kept, done, kept_messages, stale>>

BootEnds(boot, status) ==
  /\ phase = "call" /\ verdict = "none" /\ booting = boot
  /\ boot_results' = calc(inc_row_field(boot_results, boot, status))
  /\ done' = Append(done, <<boot, status>>)
  /\ booting' = "none"
  /\ UNCHANGED <<active, phase, pid, master_pid, boot_history, init_boot_fail, stage, file,
                 verdict, processes, boots, kept, kept_messages, messages, stale>>

(* Between the boots of the stack and those of the list, post_stack enters *)
(* what its plug-ins have announced, if the caller wants any.              *)
PostStack ==
  /\ phase = "call" /\ booting = "none" /\ stage \in {"stack", "post_stack"}
  /\ boots < MaxBoots /\ boots' = boots + 1
  /\ stage' = "post_stack"
  /\ boot_history' = update_boot_history(boot_history, PlugInMessage)
  /\ messages' = Append(messages, PlugInMessage)
  /\ UNCHANGED <<active, phase, pid, master_pid, boot_results, init_boot_fail, booting, file,
                 verdict, processes, kept, done, kept_messages, stale>>

PostStackReturns ==
  /\ phase = "call" /\ booting = "none" /\ stage \in {"stack", "post_stack"}
  /\ stage' = "list"
  /\ UNCHANGED <<active, phase, pid, master_pid, results, booting, file, verdict, processes,
                 boots, accounts, stale>>

(* The boots are done: are there too many new failures?                    *)
JudgeAll ==   \* mutant: failures of earlier calls count
  /\ phase = "call" /\ verdict = "none" /\ booting = "none" /\ stage = "list"
  /\ verdict' = IF total_fail(boot_results) > boot_fail_threshold THEN "over" ELSE "good"
  /\ UNCHANGED <<active, phase, pid, master_pid, results, progress, file, processes, boots,
                 accounts, stale>>

Judge ==
  /\ phase = "call" /\ verdict = "none" /\ booting = "none" /\ stage = "list"
  /\ LET new_fail == total_fail(boot_results) - init_boot_fail
     IN verdict' = IF new_fail > boot_fail_threshold THEN "over" ELSE "good"
  /\ UNCHANGED <<active, phase, pid, master_pid, results, progress, file, processes, boots,
                 accounts, stale>>

(* The teardown, also of a call that was ended or has raised, opens the    *)
(* file, which empties it, and then writes it.  A process that has no      *)
(* object writes the class.                                                *)
OpenFile ==
  /\ phase \in {"call", "raised"} /\ phase' = "saving"
  /\ file' = [file EXCEPT ![master_pid] = Torn]
  /\ UNCHANGED <<active, pid, master_pid, results, progress, verdict, processes, boots, accounts,
                 stale>>

WriteFile ==
  /\ phase = "saving" /\ phase' = "idle"
  /\ file' = [file EXCEPT ![master_pid] = <<boot_results, boot_history>>]
  /\ kept' = [kept EXCEPT ![master_pid] = @ \o done] /\ done' = <<>>
  /\ kept_messages' = [kept_messages EXCEPT ![master_pid] = @ \o messages] /\ messages' = <<>>
  /\ stage' = "stack" /\ booting' = "none"
  /\ UNCHANGED <<active, pid, master_pid, results, verdict, processes, boots, stale>>

RNext ==
  \/ \E p \in Pid : MasterBegins(p) \/ MasterEnds(p) \/ \E m \in Pid : ProcessBegins(p, m)
  \/ ProcessEnds \/ Call \/ Judge \/ OpenFile \/ WriteFile
  \/ PostStack \/ PostStackReturns
  \/ \E b \in Boot : RunBoot(b) \/ \E s \in {"pass", "fail"} : BootEnds(b, s)

RSpec == RInit /\ [][RNext]_rvars

-----------------------------------------------------------------------------
OfThisMaster == kept[master_pid] \o done
Announced == kept_messages[master_pid] \o messages
Count(boot, status) ==
  Cardinality({ i \in DOMAIN OfThisMaster : OfThisMaster[i] = <<boot, status>> })

(* During a call each row counts every boot that has ended in this call or *)
(* in the calls under the same master whose results were saved, in this    *)
(* process and in others, each once; unless the pid of the master is that  *)
(* of an older one of which a file was left.  A boot that ended with its   *)
(* call, aborted or timed out, is in no row.                               *)
RowsCountAll == phase = "call" /\ master_pid \notin stale =>
  \A b \in Boot : /\ boot_results.rows[b].pass = Count(b, "pass")
                  /\ boot_results.rows[b].fail = Count(b, "fail")

(* The totals agree with the rows, and the passes that plug-ins are told   *)
(* of are those before this program and those of the table, however often  *)
(* they are calculated or read from the file.                              *)
TotalsAgree == phase = "call" =>
  LET r == boot_results
  IN /\ \A b \in Boot : r.rows[b].total = r.rows[b].pass + r.rows[b].fail
     /\ \A f \in {"total", "pass", "fail"} : r.totals_line[f] = Column(r.rows, f)
     /\ total_pass(r) = boot_pass + Column(r.rows, "pass")

(* The history holds the last max_boot_history entries under this master,  *)
(* in order.  They are not its last boots, as print_boot_history has it:   *)
(* the programs of post_stack plug-ins take places of the boots before     *)
(* them.  A boot keeps its entry though it ended with its call.            *)
HistoryIsRecent == phase = "call" /\ master_pid \notin stale =>
  LET all == Announced
      n   == IF Len(all) < max_boot_history THEN Len(all) ELSE max_boot_history
  IN boot_history = [i \in 1..n |-> all[Len(all) - n + i]]

(* The last boots done are all in the history, max_boot_history of them,   *)
(* for print_boot_history of lib/boot_data.py to print as the last ten.    *)
(* Refuted: a program of a post_stack plug-in takes the place of one.      *)
LastBootsAreKept == phase = "call" /\ master_pid \notin stale =>
  LET begun == SelectSeq(Announced, LAMBDA m : m \in Boot)
      listed == {i \in DOMAIN boot_history : boot_history[i] \in Boot}
  IN Cardinality(listed) >= Len(begun) \/ Cardinality(listed) >= max_boot_history

(* A call fails for exceeding the threshold exactly if the boots of this   *)
(* call do, whatever the calls before it have left in the table.           *)
ThresholdIsOfThisCall == phase = "call" /\ verdict # "none" =>
  (verdict = "over" <=>
     Cardinality({ i \in DOMAIN done : done[i][2] = "fail" }) > boot_fail_threshold)

(* A call can read its results and go on, unless the master is gone or its *)
(* pid has passed to another process, or a process that was killed while   *)
(* it wrote left a file that is not whole.                                 *)
CallStarts == phase = "raised" =>
  \/ master_pid \notin active \/ master_pid \in stale
  \/ file[master_pid] = Torn
  \/ file[master_pid] # NoFile /\ file[master_pid][1] = Class

(* Table, totals and verdict agree with the boots that have ended in this  *)
(* call and in those before it under its master, and the history with what *)
(* these calls have announced, in whichever processes they ran and wherever*)
(* one was killed.                                                         *)
ResultsAddUp ==
  /\ RowsCountAll
  /\ TotalsAgree
  /\ HistoryIsRecent
  /\ ThresholdIsOfThisCall
=============================================================================
