------------------------------ MODULE BootTest ------------------------------
(***************************************************************************)
(* The boot test driver of lib/obmc_boot_test.py: "OBMC Boot Test" runs    *)
(* the boots of the caller's boot_stack, then boots picked at random from  *)
(* the caller's boot_list, against a BMC whose state it samples before     *)
(* each choice.  The keyword may be called several times in one process;   *)
(* the totals travel from one call to the next through the results file.   *)
(*                                                                         *)
(* boot_stack is the Python list: the top of the stack is its last         *)
(* element.  A required "start" or "end" entry of the boot table is the    *)
(* set of machine states that satisfy it.                                  *)
(***************************************************************************)
EXTENDS Naturals, Sequences

CONSTANTS
  Boot,           (* names of the boot table                                *)
  MState,         (* states the machine can be in                           *)
  Start,          (* Start[b]: states that satisfy boot_table[b]["start"]   *)
  End,            (* End[b]: states that satisfy boot_table[b]["end"]       *)
  EndState,       (* EndState[b]: strip_anchor_state(boot_table[b]["end"])  *)
  EndMeetsStart,  (* pairs <<b, t>> for which compare_states applied to the *)
                  (* end entry of b and the start entry of t returns True   *)
  PowerOn,        (* default_power_on                                       *)
  PowerOff,       (* default_power_off                                      *)
  DefaultState,   (* st.default_state                                       *)
  Parms,          (* program parameters a call may come with                *)
  PriorPass,      (* the boot_pass parameter: boots passed before we began  *)
  PriorFail,      (* the boot_fail parameter                                *)
  MaxCalls,       (* bound: calls of the keyword in one process             *)
  MaxDrift,       (* bound: changes of the machine nobody asked for         *)
  NoBoot,         (* the empty boot name ""                                 *)
  NoFile          (* the results file does not exist                        *)

ParmRec == [boot_list : SUBSET Boot, boot_stack : Seq(Boot),
            stack_mode : {"normal", "skip"}, max_num_tests : Nat,
            boot_fail_threshold : Nat, call_post_stack_plug : BOOLEAN,
            test_mode : BOOLEAN]

ASSUME TableAssumption ==
  /\ Start \in [Boot -> SUBSET MState]
  /\ End \in [Boot -> SUBSET MState]
  /\ EndState \in [Boot -> MState]
  /\ EndMeetsStart \subseteq Boot \X Boot
  /\ PowerOn \in Boot /\ PowerOff \in Boot
  /\ DefaultState \in MState
  /\ NoBoot \notin Boot

ASSUME ParmAssumption ==
  /\ \A p \in Parms : p \in ParmRec
  /\ PriorPass \in Nat /\ PriorFail \in Nat
  /\ MaxCalls \in Nat /\ MaxDrift \in Nat
  /\ NoFile \notin [pass : Nat, fail : Nat]

VARIABLES
  machine,      (* the state the machine is really in                       *)
  drift,        (* number of spontaneous changes so far                     *)
  calls,        (* number of calls of "OBMC Boot Test" so far               *)
  parms,        (* parameters of the current call                           *)
  pc,           (* idle, select, run, check or teardown                     *)
  phase,        (* stack or list: which loop of obmc_boot_test_py we are in *)
  ix,           (* iterations of the boot_list loop started                 *)
  state,        (* global state: the last sample of the machine             *)
  boot_stack,
  transitional_boot_selected,
  boot_success,
  next_boot,
  boot_count,
  boot_pass,    (* the totals return_total_pass_fail would report           *)
  boot_fail,
  init_boot_pass,
  init_boot_fail,
  results_file, (* the pickled totals                                       *)
  verdict       (* how the call ended                                       *)

env     == <<machine, drift>>
call    == <<calls, parms>>
totals  == <<boot_count, boot_pass, boot_fail>>
initial == <<init_boot_pass, init_boot_fail>>
choice  == <<state, boot_stack, transitional_boot_selected, next_boot>>
vars    == <<env, call, pc, phase, ix, choice, boot_success, totals, initial,
             results_file, verdict>>

Pop(s)  == SubSeq(s, 1, Len(s) - 1)
Top(s)  == s[Len(s)]

NoParms == [boot_list |-> {}, boot_stack |-> << >>, stack_mode |-> "normal",
            max_num_tests |-> 0, boot_fail_threshold |-> 0,
            call_post_stack_plug |-> FALSE, test_mode |-> FALSE]

Init ==
  /\ machine \in MState
  /\ drift = 0
  /\ calls = 0
  /\ parms = NoParms
  /\ pc = "idle"
  /\ phase = "stack"
  /\ ix = 0
  /\ state = DefaultState
  /\ boot_stack = << >>
  /\ transitional_boot_selected = FALSE
  /\ boot_success = FALSE
  /\ next_boot = NoBoot
  /\ boot_count = 0
  /\ boot_pass = PriorPass /\ boot_fail = PriorFail
  /\ init_boot_pass = PriorPass /\ init_boot_fail = PriorFail
  /\ results_file = NoFile
  /\ verdict = "none"

-----------------------------------------------------------------------------
(* The machine.  It may change while nobody asks it to: a host that        *)
(* crashes, an operator at the power button.                               *)
Drift ==
  /\ drift < MaxDrift
  /\ machine' \in MState \ {machine}
  /\ drift' = drift + 1
  /\ UNCHANGED <<call, pc, phase, ix, choice, boot_success, totals, initial,
                 results_file, verdict>>

-----------------------------------------------------------------------------
(* process_pgm_parms: the totals come from the results file if an earlier  *)
(* call left one, and from the boot_pass and boot_fail parameters if not.  *)
LoadParmsOnly ==   \* mutant: the results file is never read
  /\ boot_pass' = PriorPass /\ boot_fail' = PriorFail
  /\ init_boot_pass' = PriorPass /\ init_boot_fail' = PriorFail

LoadResults ==
  LET r == IF results_file = NoFile
             THEN [pass |-> PriorPass, fail |-> PriorFail]
             ELSE results_file
  IN  /\ boot_pass' = r.pass
      /\ boot_fail' = r.fail
      /\ init_boot_pass' = r.pass
      /\ init_boot_fail' = r.fail

(* The keyword is called and its setup succeeds.                           *)
Setup(p) ==
  /\ pc = "idle" /\ calls < MaxCalls
  /\ p.boot_list # {} \/ p.boot_stack # << >>
  /\ calls' = calls + 1
  /\ parms' = p
  /\ boot_stack' = p.boot_stack
  /\ transitional_boot_selected' = FALSE
  /\ LoadResults
  /\ pc' = "select" /\ phase' = "stack" /\ ix' = 0
  /\ verdict' = "none"
  /\ UNCHANGED <<env, state, boot_success, next_boot, boot_count, results_file>>

(* The keyword is called and its setup fails after process_pgm_parms: a    *)
(* parameter is not valid, neither boot_list nor boot_stack was given, or  *)
(* a plug-in's setup call point fails.  A failure before that, of the      *)
(* Redfish login, changes nothing here and is left out.                    *)
SetupFails(p) ==
  /\ pc = "idle" /\ calls < MaxCalls
  /\ calls' = calls + 1
  /\ parms' = p
  /\ boot_stack' = p.boot_stack
  /\ transitional_boot_selected' = FALSE
  /\ LoadResults
  /\ pc' = "teardown" /\ phase' = "stack" /\ ix' = 0
  /\ verdict' = "setup_failed"
  /\ UNCHANGED <<env, state, boot_success, next_boot, boot_count, results_file>>

-----------------------------------------------------------------------------
(* test_loop_body starts: either loop of obmc_boot_test_py has work left.  *)
LoopStopsOneEarly ==   \* mutant: range(1, max_num_tests)
  /\ pc = "select"
  /\ \/ phase = "stack" /\ boot_stack # << >>
     \/ phase = "list" /\ parms.boot_list # {} /\ ix + 1 < parms.max_num_tests

LoopContinues ==
  /\ pc = "select"
  /\ \/ phase = "stack" /\ boot_stack # << >>
     \/ phase = "list" /\ parms.boot_list # {} /\ ix < parms.max_num_tests

NextIx == ix' = IF phase = "list" THEN ix + 1 ELSE ix

(* The boot that was to bring the machine to a valid state has failed.     *)
TransitionFailed == transitional_boot_selected /\ ~boot_success

(* What select_boot has left of the stack after it has given up the entry  *)
(* the failed transition was for.                                          *)
StackKept == boot_stack   \* mutant: the entry is not given up
StackLeftBottom ==        \* mutant: pop(0) instead of pop()
  IF TransitionFailed THEN Tail(boot_stack) ELSE boot_stack

StackLeft == IF TransitionFailed THEN Pop(boot_stack) ELSE boot_stack

(* my_get_state: in test mode the state is pretended.                      *)
Sampled == IF parms.test_mode THEN state ELSE machine

(* compare_states(s, boot_table[b]["start"])                               *)
CanAlways(s, b) == b \in Boot   \* mutant: the start entry is not looked at

CanStart(s, b) == s \in Start[b]

DefaultBoot(s) == IF s \in Start[PowerOn] THEN PowerOn ELSE PowerOff

OrNone(candidates, s) ==   \* mutant: no default boot
  IF candidates = {} THEN {NoBoot} ELSE candidates

OrDefault(candidates, s) ==
  IF candidates = {} THEN {DefaultBoot(s)} ELSE candidates

ListCandidates(s) == {b \in parms.boot_list : CanStart(s, b)}

TransitionCandidates(s, target) ==
  {b \in ListCandidates(s) : <<b, target>> \in EndMeetsStart}

(* select_boot pops an entry although the stack is empty: the IndexError   *)
(* ends the call.                                                          *)
SelectPopsEmptyStack ==
  /\ LoopContinues
  /\ TransitionFailed /\ boot_stack = << >>
  /\ pc' = "teardown" /\ verdict' = "index_error"
  /\ NextIx
  /\ UNCHANGED <<env, call, phase, choice, boot_success, totals, initial,
                 results_file>>

(* The entry given up was the last one: select_boot returns "" at once.    *)
SelectGivesUpLast ==
  /\ LoopContinues
  /\ TransitionFailed /\ Len(boot_stack) = 1
  /\ boot_stack' = StackLeft
  /\ next_boot' = NoBoot
  /\ NextIx
  /\ UNCHANGED <<env, call, pc, phase, state, transitional_boot_selected,
                 boot_success, totals, initial, results_file, verdict>>

(* select_boot goes on to sample the machine.                              *)
SelectSamples ==
  /\ LoopContinues
  /\ ~(TransitionFailed /\ Len(boot_stack) <= 1)

(* get_state raises, or a field of the sample is blank (valid_state).      *)
SelectBadState ==
  /\ SelectSamples
  /\ ~parms.test_mode
  /\ boot_stack' = StackLeft
  /\ pc' = "teardown" /\ verdict' = "bad_state"
  /\ NextIx
  /\ UNCHANGED <<env, call, phase, state, transitional_boot_selected,
                 next_boot, boot_success, totals, initial, results_file>>

(* The while loop of select_boot leaves one candidate.  In normal mode the *)
(* loop pops one entry; in skip mode nothing stops it before the stack is  *)
(* empty, so that the entry at the bottom decides.                         *)
CandidateUnskipped(s) ==   \* mutant: the end entry is not looked at
  IF parms.stack_mode = "normal" THEN Top(StackLeft) ELSE StackLeft[1]

Candidate(s) ==
  CASE parms.stack_mode = "normal" -> Top(StackLeft)
    [] parms.stack_mode = "skip"   -> IF s \in End[StackLeft[1]]
                                        THEN NoBoot ELSE StackLeft[1]

AfterPops == IF parms.stack_mode = "normal" THEN Pop(StackLeft) ELSE << >>

(* Every entry popped was unnecessary: select_boot returns "".             *)
SelectSkipsAll ==
  /\ SelectSamples
  /\ StackLeft # << >>
  /\ state' = Sampled
  /\ Candidate(state') = NoBoot
  /\ boot_stack' = AfterPops
  /\ transitional_boot_selected' = FALSE
  /\ next_boot' = NoBoot
  /\ NextIx
  /\ UNCHANGED <<env, call, pc, phase, boot_success, totals, initial,
                 results_file, verdict>>

(* The machine state is valid for the candidate.                           *)
SelectFromStack ==
  /\ SelectSamples
  /\ StackLeft # << >>
  /\ state' = Sampled
  /\ LET boot == Candidate(state')
     IN  /\ boot # NoBoot
         /\ CanStart(state', boot)
         /\ next_boot' = boot
  /\ boot_stack' = AfterPops
  /\ transitional_boot_selected' = FALSE
  /\ pc' = "run"
  /\ NextIx
  /\ UNCHANGED <<env, call, phase, boot_success, totals, initial,
                 results_file, verdict>>

(* It is not: the candidate goes back on the stack and a boot is chosen    *)
(* that should bring the machine to a state the candidate can start from.  *)
SelectTransition ==
  /\ SelectSamples
  /\ StackLeft # << >>
  /\ state' = Sampled
  /\ LET boot == Candidate(state')
     IN  /\ boot # NoBoot
         /\ ~CanStart(state', boot)
         /\ boot_stack' = Append(AfterPops, boot)
         /\ next_boot' \in OrDefault(TransitionCandidates(state', boot), state')
  /\ transitional_boot_selected' = TRUE
  /\ pc' = "run"
  /\ NextIx
  /\ UNCHANGED <<env, call, phase, boot_success, totals, initial,
                 results_file, verdict>>

(* The stack is empty: any boot of the list that can start now.            *)
SelectFromList ==
  /\ SelectSamples
  /\ StackLeft = << >>
  /\ state' = Sampled
  /\ next_boot' \in OrDefault(ListCandidates(state'), state')
  /\ transitional_boot_selected' = FALSE
  /\ pc' = "run"
  /\ NextIx
  /\ UNCHANGED <<env, call, phase, boot_stack, boot_success, totals, initial,
                 results_file, verdict>>

select_boot ==
  \/ SelectPopsEmptyStack
  \/ SelectGivesUpLast
  \/ SelectBadState
  \/ SelectSkipsAll
  \/ SelectFromStack
  \/ SelectTransition
  \/ SelectFromList

-----------------------------------------------------------------------------
(* run_boot returns: the machine was seen in the required end state.  In   *)
(* test mode the end state is assigned to the sample instead.              *)
RunBootPasses ==
  /\ pc = "run"
  /\ IF parms.test_mode
       THEN state' = EndState[next_boot] /\ UNCHANGED machine
       ELSE machine' \in End[next_boot] /\ UNCHANGED state
  /\ boot_success' = TRUE
  /\ boot_count' = boot_count + 1
  /\ boot_pass' = boot_pass + 1
  /\ pc' = "check"
  /\ UNCHANGED <<drift, call, phase, ix, boot_stack, transitional_boot_selected,
                 next_boot, boot_fail, initial, results_file, verdict>>

(* run_boot fails: a plug-in, the boot's keyword or one of the waits       *)
(* failed, or SIGUSR1 stopped it.  The machine can be anywhere.  In test   *)
(* mode only a plug-in can fail, before or after the state is assigned.    *)
RunBootFails ==
  /\ pc = "run"
  /\ IF parms.test_mode
       THEN state' \in {state, EndState[next_boot]} /\ UNCHANGED machine
       ELSE machine' \in MState /\ UNCHANGED state
  /\ boot_success' = FALSE
  /\ boot_count' = boot_count + 1
  /\ boot_fail' = boot_fail + 1
  /\ pc' = "check"
  /\ UNCHANGED <<drift, call, phase, ix, boot_stack, transitional_boot_selected,
                 next_boot, boot_pass, initial, results_file, verdict>>

(* The stop_check plug-ins let the loop go on.                             *)
StopCheckContinues ==
  /\ pc = "check"
  /\ pc' = "select"
  /\ UNCHANGED <<env, call, phase, ix, choice, boot_success, totals, initial,
                 results_file, verdict>>

(* A stop_check plug-in returns stop_test_rc.                              *)
StopCheckStops ==
  /\ pc = "check"
  /\ pc' = "teardown" /\ verdict' = "stopped"
  /\ UNCHANGED <<env, call, phase, ix, choice, boot_success, totals, initial,
                 results_file>>

-----------------------------------------------------------------------------
(* post_stack: boot_success becomes the outcome of the post_stack plug-ins *)
(* and a stop_check may end the call.                                      *)
PostStack ==
  /\ pc = "select" /\ phase = "stack" /\ boot_stack = << >>
  /\ phase' = "list"
  /\ \/ /\ ~parms.call_post_stack_plug
        /\ UNCHANGED <<boot_success, pc, verdict>>
     \/ /\ parms.call_post_stack_plug
        /\ boot_success' \in BOOLEAN
        /\ \/ UNCHANGED <<pc, verdict>>
           \/ pc' = "teardown" /\ verdict' = "stopped"
  /\ UNCHANGED <<env, call, ix, choice, totals, initial, results_file>>

(* All requested boots are done: the verdict.                              *)
Complete ==
  /\ pc = "select" /\ phase = "list" /\ ~LoopContinues
  /\ pc' = "teardown"
  /\ verdict' = IF boot_fail - init_boot_fail > parms.boot_fail_threshold
                  THEN "threshold" ELSE "pass"
  /\ UNCHANGED <<env, call, phase, ix, choice, boot_success, totals, initial,
                 results_file>>

(* obmc_boot_test_teardown saves the totals for the next call.             *)
Teardown ==
  /\ pc = "teardown"
  /\ pc' = "idle"
  /\ results_file' = [pass |-> boot_pass, fail |-> boot_fail]
  /\ UNCHANGED <<env, call, phase, ix, choice, boot_success, totals, initial,
                 verdict>>

-----------------------------------------------------------------------------
Driver ==
  \/ select_boot
  \/ RunBootPasses \/ RunBootFails
  \/ StopCheckContinues \/ StopCheckStops
  \/ PostStack \/ Complete \/ Teardown

Call == \E p \in Parms : Setup(p) \/ SetupFails(p)

Next == Driver \/ Call \/ Drift

Spec == Init /\ [][Next]_vars

(* The driver is one thread that never blocks for ever: each of its waits  *)
(* has a time-out.  Nobody promises that the machine drifts or that the    *)
(* keyword is called again.                                                *)
FairSpec == Spec /\ WF_vars(Driver)

-----------------------------------------------------------------------------
(* Types: the stack holds names of the boot table, a boot that is about to *)
(* run is one of them, counters are natural numbers.                       *)
TypeOK ==
  /\ machine \in MState /\ drift \in Nat
  /\ calls \in Nat
  /\ parms \in ParmRec
  /\ pc \in {"idle", "select", "run", "check", "teardown"}
  /\ phase \in {"stack", "list"}
  /\ ix \in Nat
  /\ state \in MState
  /\ boot_stack \in Seq(Boot)
  /\ transitional_boot_selected \in BOOLEAN
  /\ boot_success \in BOOLEAN
  /\ next_boot \in Boot \cup {NoBoot}
  /\ pc = "run" => next_boot \in Boot
  /\ boot_count \in Nat
  /\ boot_pass \in Nat /\ boot_fail \in Nat
  /\ init_boot_pass \in Nat /\ init_boot_fail \in Nat
  /\ results_file \in [pass : Nat, fail : Nat] \cup {NoFile}
  /\ verdict \in {"none", "pass", "threshold", "stopped", "setup_failed",
                  "bad_state", "index_error"}

(* The boot select_boot settles on is justified by the sample it took: a   *)
(* transitional boot has the entry it is for on top of the stack, and that *)
(* entry cannot start now; an entry of the stack that is run can; in the   *)
(* list phase nothing is owed any more.                                    *)
ChoiceJustified ==
  pc = "run" =>
    /\ transitional_boot_selected =>
         boot_stack # << >> /\ state \notin Start[Top(boot_stack)]
    /\ phase = "stack" /\ ~transitional_boot_selected =>
         state \in Start[next_boot]
    /\ phase = "list" => ~transitional_boot_selected /\ boot_stack = << >>

(* No boot is counted twice or lost, within a call and from one call of    *)
(* the keyword to the next: the totals are what the caller brought plus    *)
(* one for each boot started in this process.                              *)
TallyAgrees == boot_pass + boot_fail = PriorPass + PriorFail + boot_count

(* Boots run by the current call.                                          *)
Ran == (boot_pass + boot_fail) - (init_boot_pass + init_boot_fail)

(* What BoundedEffort asks of the boot table: a boot ends in its end       *)
(* entry; one whose end entry matches the start entry of another leads     *)
(* there; and where an entry cannot start, at most two default boots lead  *)
(* to a state in which it can.                                             *)
TableSettles ==
  /\ \A b \in Boot : EndState[b] \in End[b]
  /\ \A m \in EndMeetsStart : End[m[1]] \subseteq Start[m[2]]
  /\ \A t \in Boot, s \in MState :
       s \notin Start[t] =>
         \A n \in End[DefaultBoot(s)] :
           n \in Start[t] \/ End[DefaultBoot(n)] \subseteq Start[t]

(* The stack is finished with a bounded number of boots whatever fails:    *)
(* an entry costs itself, and at most two boots that bring the machine to  *)
(* a state it can start from; each spontaneous change of the machine costs *)
(* at most two more.  This is the endless failure loop select_boot guards  *)
(* against, as a bound.                                                    *)
BoundedEffort ==
  Ran <= 3 * Len(parms.boot_stack) + parms.max_num_tests + 2 * drift

(* A call passes only when the stack is used up, every boot of the list    *)
(* that was asked for has been run, and the failures since the call began  *)
(* do not exceed the threshold.                                            *)
PassIsEarned ==
  verdict = "pass" =>
    /\ boot_stack = << >>
    /\ parms.boot_list # {} => Ran >= parms.max_num_tests
    /\ boot_fail <= init_boot_fail + parms.boot_fail_threshold

(* In skip mode an entry whose end state the machine is already in is not  *)
(* run.                                                                    *)
SkipRunsOnlyNeeded ==
  pc = "run" /\ parms.stack_mode = "skip" /\ phase = "stack"
    /\ ~transitional_boot_selected => state \notin End[next_boot]

(* Every call of the keyword returns, if the machine changes on its own    *)
(* only finitely often.                                                    *)
CallReturns == pc # "idle" ~> pc = "idle"

(* Skip mode, as the message of select_boot puts it ("Skipping the         *)
(* following boot tests which are unnecessary since their required end     *)
(* states match the current machine state"): an entry select_boot removes  *)
(* without choosing it has its end state in the sample.                    *)
SkipsOnlyUnnecessary ==
  [][\A i \in DOMAIN StackLeft :
       /\ SelectSamples /\ parms.stack_mode = "skip" /\ pc' # "teardown"
       /\ i > Len(boot_stack') + (IF pc' = "run" /\ ~transitional_boot_selected'
                                    THEN 1 ELSE 0)
       => state' \in End[StackLeft[i]]]_vars

(* Select_boot turns to a default boot for the reason its message gives    *)
(* ("The user's boot list contained no boot tests which are valid for the  *)
(* current machine state"), never while the list has a boot that can start *)
(* now and ends in a state the awaited entry can start from.               *)
Prepares(b, s, target) == s \in Start[b] /\ End[b] \subseteq Start[target]

DefaultOnlyIfListHasNone ==
  [][SelectSamples /\ pc' = "run" /\ transitional_boot_selected'
       /\ next_boot' \notin parms.boot_list
       => ~\E b \in parms.boot_list : Prepares(b, state', Top(boot_stack'))]_vars

(* The program returns non-zero for a cause: the failures exceed the       *)
(* threshold, a plug-in asked it to stop, its setup failed or the machine  *)
(* could not be read.                                                      *)
FailsOnlyForCause == verdict # "index_error"

-----------------------------------------------------------------------------
(* The refinement to BootPlan, in normal stack mode.  An entry that        *)
(* select_boot has popped to run it is still owed; one whose transitional  *)
(* boot failed is settled although it leaves boot_stack only at the next   *)
(* selection.                                                              *)
Ended == pc \in {"idle", "teardown"}

Owed ==
  CASE Ended -> << >>
    [] ~Ended /\ pc = "run" ->
         IF phase = "stack" /\ ~transitional_boot_selected
           THEN Append(boot_stack, next_boot) ELSE boot_stack
    [] OTHER -> IF TransitionFailed /\ boot_stack # << >>
                  THEN Pop(boot_stack) ELSE boot_stack

Tests(p) == IF p.boot_list = {} THEN 0 ELSE p.max_num_tests

ListLeft ==
  IF Ended THEN 0
  ELSE Tests(parms) - ix + (IF phase = "list" /\ pc = "run" THEN 1 ELSE 0)

Outcome ==
  CASE pc = "idle" -> "idle"
    [] pc = "teardown" -> IF verdict = "pass" THEN "passed" ELSE "failed"
    [] OTHER -> "open"

Plan == INSTANCE BootPlan WITH
          Jobs    <- {[stack |-> p.boot_stack, tests |-> Tests(p),
                       limit |-> p.boot_fail_threshold] : p \in Parms},
          Pass0   <- PriorPass,
          Fail0   <- PriorFail,
          todo    <- Owed,
          left    <- ListLeft,
          limit   <- parms.boot_fail_threshold,
          base    <- init_boot_fail,
          passed  <- boot_pass,
          failed  <- boot_fail,
          outcome <- Outcome

(* The driver keeps the promise of BootPlan.                               *)
KeepsPlan == Plan!PlanSpec
=============================================================================
