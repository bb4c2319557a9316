--------------------------- MODULE BootTestProofs ---------------------------
(***************************************************************************)
(* Proofs about BootTest for every boot table, every set of parameters and *)
(* every number of calls.                                                  *)
(***************************************************************************)
EXTENDS BootTest, SequenceTheorems, TLAPS

(* Taking the top off a stack of boots leaves a stack of boots.            *)
LEMMA PopType ==
  ASSUME NEW s \in Seq(Boot)
  PROVE  Pop(s) \in Seq(Boot)
<1>1. CASE s = << >>
  <2>1. Pop(s) = << >>
    BY <1>1, SubSeqEmpty DEF Pop
  <2> QED BY <2>1
<1>2. CASE s # << >>
  <2>1. Len(s) \in Nat /\ Len(s) >= 1
    BY <1>2, LenProperties
  <2>2. \A i \in 1 .. Len(s) - 1 : s[i] \in Boot
    BY <2>1, ElementOfSeq
  <2>3. 1 \in Int /\ Len(s) - 1 \in Int
    BY <2>1
  <2>4. SubSeq(s, 1, Len(s) - 1) \in Seq(Boot)
    BY <2>2, <2>3, SubSeqProperties
  <2> QED BY <2>4 DEF Pop
<1> QED BY <1>1, <1>2

(* The top of a stack that is not empty is a boot of the table, and so is  *)
(* its bottom.                                                             *)
LEMMA TopType ==
  ASSUME NEW s \in Seq(Boot), s # << >>
  PROVE  Top(s) \in Boot /\ s[1] \in Boot
<1>1. Len(s) \in Nat /\ Len(s) >= 1
  BY LenProperties
<1> QED BY <1>1, ElementOfSeq DEF Top

(* What select_boot works on is a stack of boots.                          *)
LEMMA StackLeftType ==
  ASSUME TypeOK
  PROVE  StackLeft \in Seq(Boot)
BY PopType DEF StackLeft, TypeOK

(* The candidate the pops leave is a boot of the table or none.            *)
LEMMA CandidateType ==
  ASSUME TypeOK, StackLeft # << >>, NEW s
  PROVE  /\ Candidate(s) \in Boot \cup {NoBoot}
         /\ AfterPops \in Seq(Boot)
<1>1. StackLeft \in Seq(Boot)
  BY StackLeftType
<1>2. Top(StackLeft) \in Boot /\ StackLeft[1] \in Boot
  BY <1>1, TopType
<1>3. parms.stack_mode \in {"normal", "skip"}
  BY DEF TypeOK, ParmRec
<1>4. Pop(StackLeft) \in Seq(Boot)
  BY <1>1, PopType
<1>5. AfterPops \in Seq(Boot)
  BY <1>4 DEF AfterPops
<1>6. CASE parms.stack_mode = "normal"
  BY <1>2, <1>5, <1>6 DEF Candidate
<1>7. CASE parms.stack_mode = "skip"
  BY <1>2, <1>5, <1>7 DEF Candidate
<1> QED BY <1>3, <1>6, <1>7

(* The boot chosen instead is always one of the table.                     *)
LEMMA OrDefaultType ==
  ASSUME TypeOK, NEW s, NEW C, C \subseteq Boot
  PROVE  OrDefault(C, s) \subseteq Boot
BY TableAssumption DEF OrDefault, DefaultBoot

(* Candidates for selection are boots of the list, hence of the table.     *)
LEMMA CandidatesType ==
  ASSUME TypeOK, NEW s, NEW t
  PROVE  ListCandidates(s) \subseteq Boot /\ TransitionCandidates(s, t) \subseteq Boot
BY DEF ListCandidates, TransitionCandidates, TypeOK, ParmRec

-----------------------------------------------------------------------------
(* The program starts in a well typed state.                              *)
LEMMA InitType == Init => TypeOK
<1> SUFFICES ASSUME Init PROVE TypeOK
  OBVIOUS
<1>1. << >> \in Seq(Boot)
  BY EmptySeq
<1>2. NoParms \in ParmRec
  BY <1>1 DEF NoParms, ParmRec
<1>3. parms \in ParmRec /\ boot_stack \in Seq(Boot)
  BY <1>1, <1>2 DEF Init
<1>4. machine \in MState /\ state \in MState
  BY TableAssumption DEF Init
<1>5. /\ boot_pass \in Nat /\ boot_fail \in Nat
      /\ init_boot_pass \in Nat /\ init_boot_fail \in Nat
  BY ParmAssumption DEF Init
<1> QED BY <1>3, <1>4, <1>5 DEF Init, TypeOK

(* Every reachable state is well typed: in particular the boot about to be *)
(* run is one of the boot table, whatever the stack, the list and the      *)
(* outcomes of earlier boots were.                                         *)
THEOREM TypeCorrect == Spec => []TypeOK
<1>1. Init => TypeOK
  BY InitType
<1>2. TypeOK /\ [Next]_vars => TypeOK'
  <2> SUFFICES ASSUME TypeOK, [Next]_vars PROVE TypeOK'
    OBVIOUS
  <2> USE DEF TypeOK
  <2>s. Sampled \in MState
    BY DEF Sampled
  <2>n. NextIx => ix' \in Nat
    BY DEF NextIx
  <2>1. CASE Drift
    BY <2>1 DEF Drift, call, choice, totals, initial
  <2>2. CASE \E p \in Parms : Setup(p) \/ SetupFails(p)
    <3> PICK p \in Parms : Setup(p) \/ SetupFails(p)
      BY <2>2
    <3>1. p \in ParmRec /\ p.boot_stack \in Seq(Boot)
      BY ParmAssumption DEF ParmRec
    <3>2. /\ boot_pass' \in Nat /\ boot_fail' \in Nat
          /\ init_boot_pass' \in Nat /\ init_boot_fail' \in Nat
      BY ParmAssumption DEF Setup, SetupFails, LoadResults
    <3>3. transitional_boot_selected' \in BOOLEAN
      BY Zenon DEF Setup, SetupFails
    <3>4. CASE Setup(p)
      BY <3>1, <3>2, <3>3, <3>4 DEF Setup, env
    <3>5. CASE SetupFails(p)
      BY <3>1, <3>2, <3>3, <3>5 DEF SetupFails, env
    <3> QED BY <3>4, <3>5
  <2>3. CASE SelectPopsEmptyStack
    BY <2>3, <2>n DEF SelectPopsEmptyStack, env, call, choice, totals, initial
  <2>4. CASE SelectGivesUpLast
    BY <2>4, <2>n, StackLeftType, TableAssumption
       DEF SelectGivesUpLast, LoopContinues, env, call, totals, initial
  <2>5. CASE SelectBadState
    BY <2>5, <2>n, StackLeftType DEF SelectBadState, env, call, totals, initial
  <2>6. CASE SelectSkipsAll
    <3>1. AfterPops \in Seq(Boot)
      BY <2>6, CandidateType DEF SelectSkipsAll
    <3> QED BY <2>6, <2>n, <2>s, <3>1
            DEF SelectSkipsAll, SelectSamples, LoopContinues, env, call, totals, initial
  <2>7. CASE SelectFromStack
    <3>1. Candidate(state') \in Boot \cup {NoBoot} /\ AfterPops \in Seq(Boot)
      BY <2>7, CandidateType DEF SelectFromStack
    <3>2. next_boot' \in Boot
      BY <2>7, <3>1 DEF SelectFromStack
    <3> QED BY <2>7, <2>n, <2>s, <3>1, <3>2
            DEF SelectFromStack, env, call, totals, initial
  <2>8. CASE SelectTransition
    <3>1. Candidate(state') \in Boot \cup {NoBoot} /\ AfterPops \in Seq(Boot)
      BY <2>8, CandidateType DEF SelectTransition
    <3>2. next_boot' \in Boot
      BY <2>8, OrDefaultType, CandidatesType DEF SelectTransition
    <3>3. boot_stack' \in Seq(Boot)
      BY <2>8, <3>1, AppendProperties DEF SelectTransition
    <3> QED BY <2>8, <2>n, <2>s, <3>2, <3>3
            DEF SelectTransition, env, call, totals, initial
  <2>9. CASE SelectFromList
    <3>1. next_boot' \in Boot
      BY <2>9, OrDefaultType, CandidatesType DEF SelectFromList
    <3> QED BY <2>9, <2>n, <2>s, <3>1
            DEF SelectFromList, env, call, totals, initial
  <2>10. CASE RunBootPasses
    <3>1. next_boot \in Boot
      BY <2>10 DEF RunBootPasses
    <3>2. machine' \in MState /\ state' \in MState
      BY <2>10, <3>1, TableAssumption DEF RunBootPasses
    <3> QED BY <2>10, <3>2 DEF RunBootPasses, call, initial
  <2>11. CASE RunBootFails
    <3>1. next_boot \in Boot
      BY <2>11 DEF RunBootFails
    <3>2. machine' \in MState /\ state' \in MState
      BY <2>11, <3>1, TableAssumption DEF RunBootFails
    <3>3. boot_success' \in BOOLEAN
      BY <2>11, Zenon DEF RunBootFails
    <3> QED BY <2>11, <3>2, <3>3 DEF RunBootFails, call, initial
  <2>12. CASE StopCheckContinues
    BY <2>12 DEF StopCheckContinues, env, call, choice, totals, initial
  <2>13. CASE StopCheckStops
    BY <2>13 DEF StopCheckStops, env, call, choice, totals, initial
  <2>14. CASE PostStack
    BY <2>14 DEF PostStack, env, call, choice, totals, initial
  <2>15. CASE Complete
    BY <2>15 DEF Complete, env, call, choice, totals, initial
  <2>16. CASE Teardown
    BY <2>16 DEF Teardown, env, call, choice, totals, initial
  <2>17. CASE UNCHANGED vars
    BY <2>17 DEF vars, env, call, choice, totals, initial
  <2> QED
    BY <2>1, <2>2, <2>3, <2>4, <2>5, <2>6, <2>7, <2>8, <2>9, <2>10, <2>11,
       <2>12, <2>13, <2>14, <2>15, <2>16, <2>17
       DEF Next, Driver, Call, select_boot
<1> QED BY <1>1, <1>2, PTL DEF Spec

-----------------------------------------------------------------------------
(* In the list phase nothing is left on the stack.                         *)
ListHasNoStack == phase = "list" => boot_stack = << >>

(* Between calls the results file holds the totals.                        *)
SavedTotals ==
  pc = "idle" =>
    \/ results_file = NoFile /\ boot_pass = PriorPass /\ boot_fail = PriorFail
    \/ results_file # NoFile
         /\ results_file.pass = boot_pass /\ results_file.fail = boot_fail

(* Every iteration of the list loop that is over has run a boot.           *)
ListProgress ==
  /\ phase = "stack" => ix = 0
  /\ phase = "list" =>
       /\ pc \in {"select", "check"} => Ran >= ix
       /\ pc = "run" => Ran + 1 >= ix

NeverNegative == boot_pass >= init_boot_pass /\ boot_fail >= init_boot_fail

(* A call has no verdict before it ends.                                   *)
NoVerdictYet == pc \in {"select", "run", "check"} => verdict = "none"

(* The inductive invariant: TallyAgrees needs SavedTotals, because a call  *)
(* takes its totals from the file; ChoiceJustified needs ListHasNoStack;   *)
(* PassIsEarned needs ListProgress, NeverNegative and NoVerdictYet.        *)
Counting == /\ SavedTotals /\ TallyAgrees
            /\ NeverNegative /\ ListProgress
            /\ NoVerdictYet /\ PassIsEarned

IInv == TypeOK /\ ListHasNoStack /\ ChoiceJustified /\ Counting

(* In the list phase select_boot works on an empty stack.                  *)
LEMMA NothingLeft ==
  ASSUME TypeOK, ListHasNoStack, SelectSamples, phase = "list"
  PROVE  StackLeft = << >>
<1>1. boot_stack = << >>
  BY DEF ListHasNoStack
<1>2. Len(boot_stack) = 0
  BY <1>1
<1>3. ~TransitionFailed
  BY <1>2 DEF SelectSamples
<1> QED BY <1>1, <1>3 DEF StackLeft

(* What was pushed back is on top.                                         *)
LEMMA PushedIsTop ==
  ASSUME NEW s \in Seq(Boot), NEW b \in Boot
  PROVE  Append(s, b) # << >> /\ Top(Append(s, b)) = b
<1>1. Len(Append(s, b)) = Len(s) + 1 /\ Append(s, b)[Len(s) + 1] = b
  BY AppendProperties
<1>2. Append(s, b) # << >>
  BY AppendProperties
<1> QED BY <1>1, <1>2 DEF Top

(* A boot of the list is chosen in the list phase only: when a boot has     *)
(* failed and an entry been given up, another was below it.                *)
LEMMA FromListInListPhase ==
  ASSUME TypeOK, SelectFromList
  PROVE  boot_stack = << >> /\ phase = "list"
<1>1. boot_stack = << >>
  <2>1. ASSUME TransitionFailed PROVE FALSE
    <3>1. Len(boot_stack) \in Nat /\ Len(boot_stack) > 1
      BY <2>1, LenProperties DEF SelectFromList, SelectSamples, TypeOK
    <3>2. /\ Len(boot_stack) - 1 \in Int /\ 1 \in Int
          /\ \A i \in 1 .. Len(boot_stack) - 1 : boot_stack[i] \in Boot
      BY <3>1, ElementOfSeq DEF TypeOK
    <3>3. Len(SubSeq(boot_stack, 1, Len(boot_stack) - 1)) = Len(boot_stack) - 1
      BY <3>1, <3>2, SubSeqProperties
    <3>4. StackLeft = SubSeq(boot_stack, 1, Len(boot_stack) - 1)
      BY <2>1 DEF StackLeft, Pop
    <3>5. StackLeft = << >> /\ boot_stack \in Seq(Boot)
      BY DEF SelectFromList, TypeOK
    <3>6. Len(SubSeq(boot_stack, 1, Len(boot_stack) - 1)) = 0
      <4>1. SubSeq(boot_stack, 1, Len(boot_stack) - 1) = << >>
        BY <3>4, <3>5, Zenon
      <4>2. Len(<< >>) = 0
        OBVIOUS
      <4> QED BY <4>1, <4>2, Zenon
    <3>7. Len(boot_stack) - 1 = 0
      BY <3>3, <3>6, Zenon
    <3>8. \A n \in Nat : n > 1 => n - 1 # 0
      OBVIOUS
    <3> QED BY <3>1, <3>7, <3>8, Zenon
  <2> QED BY <2>1 DEF SelectFromList, StackLeft
<1>2. phase = "list"
  BY <1>1 DEF SelectFromList, SelectSamples, LoopContinues
<1> QED BY <1>1, <1>2

(* A step keeps the stack empty in the list phase and justifies the boot   *)
(* it selects.                                                             *)
LEMMA StepChoice ==
  ASSUME TypeOK, ListHasNoStack, ChoiceJustified, [Next]_vars
  PROVE  ListHasNoStack' /\ ChoiceJustified'
<1> USE DEF ListHasNoStack, ChoiceJustified
<1>1. CASE Drift
  BY <1>1 DEF Drift, call, choice, totals, initial
<1>2. CASE \E p \in Parms : Setup(p) \/ SetupFails(p)
  BY <1>2 DEF Setup, SetupFails
<1>3. CASE SelectPopsEmptyStack
  BY <1>3 DEF SelectPopsEmptyStack, choice
<1>4. CASE SelectGivesUpLast
  <2>1. boot_stack # << >>
    BY <1>4 DEF SelectGivesUpLast
  <2>2. phase # "list"
    BY <2>1
  <2>3. phase' # "list" /\ pc' # "run"
    BY <1>4, <2>2 DEF SelectGivesUpLast, LoopContinues
  <2> QED BY <2>3
<1>5. CASE SelectBadState
  <2>1. phase = "list" => StackLeft = << >>
    BY <1>5, NothingLeft DEF SelectBadState
  <2> QED BY <1>5, <2>1 DEF SelectBadState
<1>6. CASE SelectSkipsAll
  <2>1. phase # "list"
    BY <1>6, NothingLeft DEF SelectSkipsAll
  <2> QED BY <1>6, <2>1 DEF SelectSkipsAll, SelectSamples, LoopContinues
<1>7. CASE SelectFromStack
  <2>1. phase' # "list"
    BY <1>7, NothingLeft DEF SelectFromStack
  <2>2. ~transitional_boot_selected' /\ state' \in Start[next_boot']
    BY <1>7 DEF SelectFromStack, CanStart
  <2> QED BY <2>1, <2>2
<1>8. CASE SelectTransition
  <2>1. phase' # "list" /\ transitional_boot_selected'
    BY <1>8, NothingLeft DEF SelectTransition
  <2>2. PICK boot : /\ boot = Candidate(state') /\ boot # NoBoot
                    /\ ~CanStart(state', boot)
                    /\ boot_stack' = Append(AfterPops, boot)
    BY <1>8 DEF SelectTransition
  <2>3. boot \in Boot /\ AfterPops \in Seq(Boot)
    BY <1>8, <2>2, CandidateType DEF SelectTransition
  <2>4. boot_stack' # << >> /\ Top(boot_stack)' = boot
    BY <2>2, <2>3, PushedIsTop DEF Top
  <2>5. state' \notin Start[Top(boot_stack)']
    BY <2>2, <2>4 DEF CanStart
  <2> QED BY <2>1, <2>4, <2>5 DEF Top
<1>9. CASE SelectFromList
  <2>1. ~transitional_boot_selected' /\ phase' = phase /\ boot_stack' = boot_stack
    BY <1>9 DEF SelectFromList
  <2>2. boot_stack = << >> /\ phase = "list"
    BY <1>9, FromListInListPhase
  <2> QED BY <2>1, <2>2
<1>10. CASE RunBootPasses \/ RunBootFails
  BY <1>10 DEF RunBootPasses, RunBootFails
<1>11. CASE StopCheckContinues \/ StopCheckStops
  BY <1>11 DEF StopCheckContinues, StopCheckStops, choice
<1>12. CASE PostStack
  BY <1>12 DEF PostStack, choice
<1>13. CASE Complete \/ Teardown
  BY <1>13 DEF Complete, Teardown, choice
<1>14. CASE UNCHANGED vars
  BY <1>14 DEF vars, choice, Top
<1> QED
  BY <1>1, <1>2, <1>3, <1>4, <1>5, <1>6, <1>7, <1>8, <1>9, <1>10, <1>11,
     <1>12, <1>13, <1>14
     DEF Next, Driver, Call, select_boot

(* A call of the keyword takes up the totals the last one left.            *)
LEMMA StepCall ==
  ASSUME TypeOK, ListHasNoStack, Counting,
         NEW p \in Parms, Setup(p) \/ SetupFails(p)
  PROVE  Counting'
<1>1. /\ boot_pass' = boot_pass /\ boot_fail' = boot_fail
      /\ init_boot_pass' = boot_pass /\ init_boot_fail' = boot_fail
  <2>1. pc = "idle" /\ LoadResults
    BY DEF Setup, SetupFails
  <2>2. CASE results_file = NoFile
    BY <2>1, <2>2 DEF Counting, SavedTotals, LoadResults
  <2>3. CASE results_file # NoFile
    BY <2>1, <2>3 DEF Counting, SavedTotals, LoadResults
  <2> QED BY <2>2, <2>3
<1>2. boot_count' = boot_count /\ phase' = "stack" /\ ix' = 0 /\ pc' # "idle"
        /\ verdict' # "pass"
  BY DEF Setup, SetupFails
<1>3. TallyAgrees'
  BY <1>1, <1>2 DEF Counting, TallyAgrees
<1>4. NeverNegative'
  BY <1>1 DEF TypeOK, NeverNegative
<1>5. SavedTotals' /\ ListProgress' /\ NoVerdictYet' /\ PassIsEarned'
  <2>1. \/ verdict' # "pass" /\ pc' \notin {"select", "run", "check"}
       \/ verdict' = "none"
    BY DEF Setup, SetupFails
  <2> QED BY <1>2, <2>1 DEF SavedTotals, ListProgress, NoVerdictYet, PassIsEarned
<1> QED BY <1>3, <1>4, <1>5 DEF Counting

(* Choosing a boot changes no total.                                       *)
LEMMA StepSelect ==
  ASSUME TypeOK, ListHasNoStack, Counting, select_boot
  PROVE  Counting'
<1>1. /\ UNCHANGED <<boot_count, boot_pass, boot_fail, init_boot_pass, init_boot_fail>>
      /\ UNCHANGED <<results_file, phase>>
  BY DEF select_boot, SelectPopsEmptyStack, SelectGivesUpLast, SelectBadState,
         SelectSkipsAll, SelectFromStack, SelectTransition, SelectFromList,
         totals, initial
<1>2. pc = "select" /\ NextIx
  BY DEF select_boot, SelectPopsEmptyStack, SelectGivesUpLast, SelectBadState,
         SelectSkipsAll, SelectFromStack, SelectTransition, SelectFromList,
         SelectSamples, LoopContinues
<1>3. \/ pc' = "teardown" /\ verdict' \in {"bad_state", "index_error"}
      \/ pc' = "run" /\ verdict' = verdict
      \/ pc' = "select" /\ phase # "list" /\ verdict' = verdict
  <2>1. CASE SelectPopsEmptyStack
    BY <2>1 DEF SelectPopsEmptyStack
  <2>2. CASE SelectGivesUpLast
    <3>1. boot_stack # << >>
      BY <2>2 DEF SelectGivesUpLast
    <3> QED BY <2>2, <3>1, <1>2 DEF SelectGivesUpLast, ListHasNoStack
  <2>3. CASE SelectBadState
    BY <2>3 DEF SelectBadState
  <2>4. CASE SelectSkipsAll
    BY <2>4, <1>2, NothingLeft DEF SelectSkipsAll
  <2>5. CASE SelectFromStack \/ SelectTransition \/ SelectFromList
    BY <2>5 DEF SelectFromStack, SelectTransition, SelectFromList
  <2> QED BY <2>1, <2>2, <2>3, <2>4, <2>5 DEF select_boot
<1>4. SavedTotals' /\ TallyAgrees' /\ NeverNegative'
  BY <1>1, <1>3 DEF Counting, SavedTotals, TallyAgrees, NeverNegative
<1>5. Ran' = Ran
  BY <1>1 DEF Ran
<1>6. ListProgress'
  <2>1. ASSUME phase = "list", pc' = "run" PROVE Ran + 1 >= ix'
    <3>1. Ran >= ix
      BY <2>1, <1>2 DEF Counting, ListProgress
    <3>2. ix' = ix + 1
      BY <2>1, <1>2 DEF NextIx
    <3>3. Ran \in Int /\ ix \in Nat
      BY DEF TypeOK, Ran
    <3> QED BY <3>1, <3>2, <3>3
  <2>2. phase = "stack" => ix' = 0
    BY <1>2 DEF NextIx, Counting, ListProgress
  <2> QED BY <2>1, <2>2, <1>1, <1>3, <1>5 DEF ListProgress
<1>7. NoVerdictYet' /\ PassIsEarned'
  BY <1>2, <1>3 DEF Counting, NoVerdictYet, PassIsEarned
<1> QED BY <1>4, <1>6, <1>7 DEF Counting

(* A boot that ends adds one to one total and to boot_count.               *)
LEMMA StepRun ==
  ASSUME TypeOK, Counting, RunBootPasses \/ RunBootFails
  PROVE  Counting'
<1>1. /\ pc = "run" /\ pc' = "check"
      /\ UNCHANGED <<phase, ix, init_boot_pass, init_boot_fail, verdict, results_file>>
      /\ boot_count' = boot_count + 1
      /\ \/ boot_pass' = boot_pass + 1 /\ boot_fail' = boot_fail
         \/ boot_pass' = boot_pass /\ boot_fail' = boot_fail + 1
  BY DEF RunBootPasses, RunBootFails, initial
<1>2. TallyAgrees' /\ NeverNegative'
  BY <1>1, ParmAssumption DEF Counting, TallyAgrees, NeverNegative, TypeOK
<1>3. Ran' = Ran + 1
  BY <1>1 DEF Ran, TypeOK
<1>4. ListProgress'
  BY <1>1, <1>3 DEF Counting, ListProgress, TypeOK
<1>5. SavedTotals' /\ NoVerdictYet' /\ PassIsEarned'
  BY <1>1 DEF Counting, SavedTotals, NoVerdictYet, PassIsEarned
<1> QED BY <1>2, <1>4, <1>5 DEF Counting

(* The verdict is given when the list is done.                             *)
LEMMA StepComplete ==
  ASSUME TypeOK, ListHasNoStack, Counting, Complete
  PROVE  Counting'
<1>1. /\ pc = "select" /\ phase = "list" /\ ~LoopContinues /\ pc' = "teardown"
      /\ UNCHANGED <<phase, ix, parms, boot_stack, boot_count, boot_pass, boot_fail,
                     init_boot_pass, init_boot_fail, results_file>>
      /\ verdict' = IF boot_fail - init_boot_fail > parms.boot_fail_threshold
                      THEN "threshold" ELSE "pass"
  BY DEF Complete, call, choice, totals, initial
<1>2. SavedTotals' /\ TallyAgrees' /\ NeverNegative' /\ NoVerdictYet'
  BY <1>1 DEF Counting, SavedTotals, TallyAgrees, NeverNegative, NoVerdictYet
<1>3. Ran' = Ran
  BY <1>1 DEF Ran
<1>4. ListProgress'
  BY <1>1 DEF ListProgress
<1>5. ASSUME verdict' = "pass" PROVE PassIsEarned'
  <2>1. boot_stack' = << >>
    BY <1>1 DEF ListHasNoStack
  <2>2. boot_fail' <= init_boot_fail' + parms'.boot_fail_threshold
    BY <1>1, <1>5 DEF TypeOK, ParmRec
  <2>3. ASSUME parms.boot_list # {} PROVE Ran >= parms.max_num_tests
    <3>1. ~(ix < parms.max_num_tests)
      BY <1>1, <2>3 DEF LoopContinues
    <3>2. Ran >= ix
      BY <1>1 DEF Counting, ListProgress
    <3>3. Ran \in Int /\ ix \in Nat /\ parms.max_num_tests \in Nat
      BY DEF TypeOK, Ran, ParmRec
    <3> QED BY <3>1, <3>2, <3>3
  <2> QED BY <1>1, <1>3, <2>1, <2>2, <2>3 DEF PassIsEarned
<1>6. PassIsEarned'
  BY <1>5 DEF PassIsEarned
<1> QED BY <1>2, <1>4, <1>6 DEF Counting

(* No other step of the driver touches a total.                            *)
LEMMA StepOther ==
  ASSUME TypeOK, Counting,
         \/ Drift \/ StopCheckContinues \/ StopCheckStops
         \/ PostStack \/ Teardown \/ UNCHANGED vars
  PROVE  Counting'
<1>1. UNCHANGED <<ix, parms, boot_stack, boot_count, boot_pass, boot_fail,
                  init_boot_pass, init_boot_fail>>
  BY DEF Drift, StopCheckContinues, StopCheckStops, PostStack, Teardown, vars,
         call, choice, totals, initial
<1>2. Ran' = Ran
  BY <1>1 DEF Ran
<1>3. TallyAgrees' /\ NeverNegative'
  BY <1>1 DEF Counting, TallyAgrees, NeverNegative
<1>4. CASE Drift \/ UNCHANGED vars
  BY <1>1, <1>2, <1>3, <1>4
     DEF Drift, vars, Counting, SavedTotals, ListProgress, NoVerdictYet, PassIsEarned
<1>5. CASE StopCheckContinues \/ StopCheckStops
  BY <1>1, <1>2, <1>3, <1>5
     DEF StopCheckContinues, StopCheckStops, Counting, SavedTotals, ListProgress,
         NoVerdictYet, PassIsEarned
<1>6. CASE PostStack
  <2>1. ix = 0 /\ Ran >= 0
    BY <1>6 DEF PostStack, Counting, ListProgress, NeverNegative, Ran, TypeOK
  <2> QED BY <2>1, <1>1, <1>2, <1>3, <1>6
     DEF PostStack, Counting, SavedTotals, ListProgress, NoVerdictYet, PassIsEarned
<1>7. CASE Teardown
  BY <1>1, <1>2, <1>3, <1>7, ParmAssumption
     DEF Teardown, TypeOK, Counting, SavedTotals, ListProgress, NoVerdictYet,
         PassIsEarned
<1> QED BY <1>4, <1>5, <1>6, <1>7

(* The inductive invariant holds in every reachable state.                 *)
LEMMA Inductive == Spec => []IInv
<1>1. Init => IInv
  <2> SUFFICES ASSUME Init PROVE IInv
    OBVIOUS
  <2>1. TypeOK
    <3>1. Init => TypeOK
      BY InitType
    <3> QED BY <3>1
  <2>2. ListHasNoStack /\ ChoiceJustified
    BY DEF Init, ListHasNoStack, ChoiceJustified
  <2>3. Counting
    BY ParmAssumption
       DEF Init, Counting, SavedTotals, TallyAgrees, NeverNegative, ListProgress,
           NoVerdictYet, PassIsEarned
  <2> QED BY <2>1, <2>2, <2>3 DEF IInv
<1>2. IInv /\ TypeOK' /\ [Next]_vars => IInv'
  <2> SUFFICES ASSUME IInv, TypeOK', [Next]_vars PROVE IInv'
    OBVIOUS
  <2> USE DEF IInv
  <2>1. ListHasNoStack' /\ ChoiceJustified'
    BY StepChoice
  <2>2. Counting'
    BY StepCall, StepSelect, StepRun, StepComplete, StepOther
       DEF Next, Driver, Call
  <2> QED BY <2>1, <2>2
<1> QED BY <1>1, <1>2, TypeCorrect, PTL DEF Spec

(* The boot select_boot settles on is justified by the sample it took,     *)
(* for every boot table and every set of parameters.                       *)
THEOREM ChoiceIsJustified == Spec => []ChoiceJustified
<1>1. IInv => ChoiceJustified
  BY DEF IInv
<1> QED BY <1>1, Inductive, PTL

(* No boot is counted twice or lost, however often the keyword is called.  *)
THEOREM TotalsAreRight == Spec => []TallyAgrees
<1>1. IInv => TallyAgrees
  BY DEF IInv, Counting
<1> QED BY <1>1, Inductive, PTL

(* A call that passes has used up its stack, run every boot asked of the   *)
(* list and seen no more failures than its threshold.                      *)
THEOREM PassEarned == Spec => []PassIsEarned
<1>1. IInv => PassIsEarned
  BY DEF IInv, Counting
<1> QED BY <1>1, Inductive, PTL

-----------------------------------------------------------------------------
(* In skip mode an entry that is run has its end state not yet reached,    *)
(* since select_boot has looked at both entries in the same sample.        *)
THEOREM SkipsTheUnneeded == Spec => []SkipRunsOnlyNeeded
<1>1. Init => SkipRunsOnlyNeeded
  BY DEF Init, SkipRunsOnlyNeeded
<1>2. IInv /\ SkipRunsOnlyNeeded /\ [Next]_vars => SkipRunsOnlyNeeded'
  <2> SUFFICES ASSUME IInv, SkipRunsOnlyNeeded, [Next]_vars
               PROVE  SkipRunsOnlyNeeded'
    OBVIOUS
  <2> USE DEF SkipRunsOnlyNeeded
  <2>1. CASE SelectFromStack
    <3>1. next_boot' = Candidate(state') /\ next_boot' # NoBoot /\ parms' = parms
      BY <2>1 DEF SelectFromStack, call
    <3>2. parms.stack_mode = "skip" => state' \notin End[next_boot']
      BY <3>1 DEF Candidate
    <3> QED BY <3>1, <3>2
  <2>2. CASE SelectFromList
    BY <2>2, FromListInListPhase DEF SelectFromList, IInv
  <2>3. CASE SelectTransition
    BY <2>3 DEF SelectTransition
  <2>4. CASE Drift \/ UNCHANGED vars
    BY <2>4 DEF Drift, vars, call, choice
  <2>5. CASE \/ SelectPopsEmptyStack \/ SelectGivesUpLast \/ SelectBadState
             \/ SelectSkipsAll \/ RunBootPasses \/ RunBootFails
             \/ StopCheckContinues \/ StopCheckStops \/ PostStack \/ Complete
             \/ Teardown \/ Call
    <3>1. pc' # "run"
      BY <2>5 DEF SelectPopsEmptyStack, SelectGivesUpLast, SelectBadState,
         SelectSkipsAll, SelectSamples, LoopContinues, RunBootPasses,
         RunBootFails, StopCheckContinues, StopCheckStops, PostStack, Complete,
         Teardown, Call, Setup, SetupFails
    <3> QED BY <3>1
  <2> QED BY <2>1, <2>2, <2>3, <2>4, <2>5 DEF Next, Driver, select_boot
<1> QED BY <1>1, <1>2, Inductive, PTL DEF Spec

-----------------------------------------------------------------------------
LEMMA TestsType == ASSUME NEW p \in ParmRec PROVE Tests(p) \in Nat
  BY DEF Tests, ParmRec

(* Only a call brings parameters.                                          *)
LEMMA ParmsChange ==
  ASSUME [Next]_vars PROVE parms' = parms \/ (parms' \in Parms /\ ix' = 0)
<1>1. CASE Call
  BY <1>1 DEF Call, Setup, SetupFails
<1>2. CASE select_boot
  BY <1>2 DEF select_boot, SelectPopsEmptyStack, SelectGivesUpLast,
     SelectBadState, SelectSkipsAll, SelectFromStack, SelectTransition,
     SelectFromList, call
<1>3. CASE \/ RunBootPasses \/ RunBootFails \/ StopCheckContinues
           \/ StopCheckStops \/ PostStack \/ Complete \/ Teardown
           \/ Drift \/ UNCHANGED vars
  BY <1>3 DEF RunBootPasses, RunBootFails, StopCheckContinues, StopCheckStops,
     PostStack, Complete, Teardown, Drift, vars, call
<1> QED BY <1>1, <1>2, <1>3 DEF Next, Driver

(* The list loop starts no more iterations than were asked for.            *)
LEMMA ListBound == Spec => [](ix <= Tests(parms))
<1>1. Init => ix <= Tests(parms)
  BY DEF Init, NoParms, Tests
<1>2. TypeOK /\ TypeOK' /\ ix <= Tests(parms) /\ [Next]_vars => (ix <= Tests(parms))'
  <2> SUFFICES ASSUME TypeOK, TypeOK', ix <= Tests(parms), [Next]_vars
               PROVE  ix' <= Tests(parms')
    BY DEF Tests
  <2>1. CASE select_boot
    <3>1. LoopContinues /\ NextIx /\ parms' = parms
      BY <2>1 DEF select_boot, SelectPopsEmptyStack, SelectGivesUpLast,
             SelectBadState, SelectSkipsAll, SelectFromStack, SelectTransition,
             SelectFromList, SelectSamples, call
    <3>2. parms.max_num_tests \in Nat /\ ix \in Nat
      BY DEF TypeOK, ParmRec
    <3> QED BY <3>1, <3>2 DEF NextIx, LoopContinues, Tests
  <2>2. CASE ix' = ix
    BY <2>2, ParmsChange, TestsType, ParmAssumption DEF TypeOK
  <2>3. CASE ix' = 0
    BY <2>3, TestsType DEF TypeOK
  <2>4. select_boot \/ ix' = ix \/ ix' = 0
    BY DEF Next, Driver, Call, Setup, SetupFails, RunBootPasses, RunBootFails,
           StopCheckContinues, StopCheckStops, PostStack, Complete, Teardown,
           Drift, vars
  <2> QED BY <2>1, <2>2, <2>3, <2>4
<1> QED BY <1>1, <1>2, TypeCorrect, PTL DEF Spec

(* The refinement to BootPlan.  Skip mode is outside it: it drops entries  *)
(* nobody has run.                                                         *)
NormalMode == \A p \in Parms : p.stack_mode = "normal"

(* Beside IInv the refinement needs that the list loop never starts more   *)
(* iterations than were asked for.                                         *)
PlanInv == /\ IInv
           /\ ix <= Tests(parms)
           /\ parms.stack_mode = "normal"

LEMMA Prefix ==
  ASSUME NEW s \in Seq(Boot), NEW n \in Nat, n <= Len(s)
  PROVE  /\ SubSeq(s, 1, n) \in Seq(Boot) /\ Len(SubSeq(s, 1, n)) = n
         /\ \A i \in 1 .. n : SubSeq(s, 1, n)[i] = s[i]
<1>1. Len(s) \in Nat /\ \A i \in 1 .. Len(s) : s[i] \in Boot
  BY LenProperties, ElementOfSeq
<1>2. n \in Int /\ 1 \in Int /\ \A i \in 1 .. n : s[i] \in Boot
  BY <1>1
<1>3. SubSeq(s, 1, n) \in Seq(Boot) /\ Len(SubSeq(s, 1, n)) = n
  BY <1>2, SubSeqProperties
<1>4. \A i \in 1 .. n : SubSeq(s, 1, n)[i] = s[i]
  OBVIOUS
<1> QED BY <1>3, <1>4

(* What Pop and Top take apart, Append puts together, and the converse.    *)
LEMMA PopTop ==
  ASSUME NEW s \in Seq(Boot), s # << >>
  PROVE  /\ Pop(s) \in Seq(Boot) /\ Top(s) \in Boot
         /\ Len(Pop(s)) = Len(s) - 1
         /\ Append(Pop(s), Top(s)) = s
         /\ Len(s) \in Nat /\ Len(s) >= 1
<1>1. Len(s) \in Nat /\ Len(s) >= 1
  BY LenProperties, EmptySeq
<1>2. \A i \in 1 .. Len(s) : s[i] \in Boot
  BY ElementOfSeq
<1>3. Top(s) \in Boot
  BY <1>1, <1>2 DEF Top
<1>4. /\ Pop(s) \in Seq(Boot) /\ Len(Pop(s)) = Len(s) - 1
      /\ \A i \in 1 .. Len(s) - 1 : Pop(s)[i] = s[i]
  <2>1. Len(s) - 1 \in Nat /\ Len(s) - 1 <= Len(s)
    BY <1>1
  <2> QED BY <2>1, Prefix DEF Pop
<1>5. /\ Append(Pop(s), Top(s)) \in Seq(Boot)
      /\ Len(Append(Pop(s), Top(s))) = Len(s)
      /\ \A i \in 1 .. Len(s) - 1 : Append(Pop(s), Top(s))[i] = s[i]
      /\ Append(Pop(s), Top(s))[Len(s)] = s[Len(s)]
  <2>1. /\ Append(Pop(s), Top(s)) \in Seq(Boot)
        /\ Len(Append(Pop(s), Top(s))) = Len(Pop(s)) + 1
        /\ \A i \in 1 .. Len(Pop(s)) : Append(Pop(s), Top(s))[i] = Pop(s)[i]
        /\ Append(Pop(s), Top(s))[Len(Pop(s)) + 1] = Top(s)
    BY <1>3, <1>4, AppendProperties
  <2> QED BY <1>1, <1>4, <2>1 DEF Top
<1>6. Append(Pop(s), Top(s)) = s
  <2>1. \A i \in 1 .. Len(s) : Append(Pop(s), Top(s))[i] = s[i]
    BY <1>1, <1>5
  <2> QED BY <1>5, <2>1, SeqEqual
<1> QED BY <1>1, <1>3, <1>4, <1>6

LEMMA PopAppend ==
  ASSUME NEW s \in Seq(Boot), NEW b \in Boot
  PROVE  Append(s, b) # << >> /\ Pop(Append(s, b)) = s
<1> DEFINE a == Append(s, b)
<1>1. /\ a \in Seq(Boot) /\ a # << >> /\ Len(a) = Len(s) + 1
      /\ \A i \in 1 .. Len(s) : a[i] = s[i]
  BY AppendProperties
<1>2. Len(s) \in Nat
  BY LenProperties
<1> HIDE DEF a
<1>3. /\ Pop(a) \in Seq(Boot) /\ Len(Pop(a)) = Len(s)
      /\ \A i \in 1 .. Len(s) : Pop(a)[i] = s[i]
  <2>1. Len(a) - 1 = Len(s)
    BY <1>1, <1>2
  <2>2. /\ SubSeq(a, 1, Len(s)) \in Seq(Boot) /\ Len(SubSeq(a, 1, Len(s))) = Len(s)
        /\ \A i \in 1 .. Len(s) : SubSeq(a, 1, Len(s))[i] = a[i]
    BY <1>1, <1>2, Prefix
  <2> QED BY <1>1, <2>1, <2>2, Zenon DEF Pop
<1>4. Pop(a) = s
  BY <1>3, SeqEqual
<1> QED BY <1>1, <1>4 DEF a

LEMMA PopLast ==
  ASSUME NEW s \in Seq(Boot), Len(s) = 1 PROVE s # << >> /\ Pop(s) = << >>
<1>1. s # << >>
  OBVIOUS
<1>2. Pop(s) \in Seq(Boot) /\ Len(Pop(s)) = 0
  BY <1>1, PopTop
<1> QED BY <1>1, <1>2, EmptySeq

(* Owed, Outcome and ListLeft, case by case.                               *)
OwedCases ==
  /\ Ended => Owed = << >>
  /\ pc = "run" => Owed = IF phase = "stack" /\ ~transitional_boot_selected
                            THEN Append(boot_stack, next_boot) ELSE boot_stack
  /\ pc \in {"select", "check"} =>
       Owed = IF TransitionFailed /\ boot_stack # << >>
                THEN Pop(boot_stack) ELSE boot_stack

OutcomeCases ==
  /\ pc = "idle" => Outcome = "idle"
  /\ pc = "teardown" => Outcome = IF verdict = "pass" THEN "passed" ELSE "failed"
  /\ ~Ended => Outcome = "open"

(* The refinement mapping, phase by phase.                                 *)
LEMMA MappingCases ==
  OwedCases /\ OwedCases' /\ OutcomeCases /\ OutcomeCases'
<1>1. OwedCases /\ OwedCases'
  BY DEF OwedCases, Owed, Ended
<1>2. OutcomeCases /\ OutcomeCases'
  BY DEF OutcomeCases, Outcome, Ended
<1> QED BY <1>1, <1>2

(* When the machine is sampled, what is owed is what is left of the stack. *)
LEMMA OwedSampled ==
  ASSUME TypeOK, SelectSamples
  PROVE  Owed = StackLeft /\ StackLeft \in Seq(Boot) /\ Outcome = "open"
<1>1. pc = "select"
  BY DEF SelectSamples, LoopContinues
<1>2. Outcome = "open"
  BY <1>1, MappingCases DEF OutcomeCases, Ended
<1>3. CASE TransitionFailed
  <2>1. boot_stack \in Seq(Boot) /\ ~(Len(boot_stack) <= 1)
    BY <1>3 DEF SelectSamples, TypeOK
  <2>2. boot_stack # << >>
    <3>1. Len(<< >>) <= 1
      OBVIOUS
    <3> QED BY <2>1, <3>1, Zenon
  <2> QED BY <1>1, <1>2, <1>3, <2>1, <2>2, PopTop, MappingCases
         DEF OwedCases, StackLeft
<1>4. CASE ~TransitionFailed
  BY <1>1, <1>2, <1>4, MappingCases DEF OwedCases, StackLeft, TypeOK
<1> QED BY <1>3, <1>4

(* A choice of select_boot, from the caller's view, settles nothing, or    *)
(* ends the call.                                                          *)
LEMMA PlanSelect ==
  ASSUME PlanInv, select_boot
  PROVE  [Plan!Next]_Plan!plan
<1> USE DEF PlanInv, IInv
<1>1. /\ pc = "select" /\ NextIx /\ parms' = parms /\ phase' = phase
      /\ UNCHANGED <<boot_pass, boot_fail, init_boot_fail>>
  BY DEF select_boot, SelectPopsEmptyStack, SelectGivesUpLast, SelectBadState,
         SelectSkipsAll, SelectFromStack, SelectTransition, SelectFromList,
         SelectSamples, LoopContinues, call, totals, initial
<1>2. Outcome = "open"
  BY <1>1, MappingCases DEF OutcomeCases, Ended
<1>3. ASSUME pc' = "teardown", verdict' # "pass"
      PROVE  Plan!Close
  <2>1. Owed' = << >> /\ ListLeft' = 0 /\ Outcome' = "failed"
    BY <1>3, MappingCases DEF OwedCases, OutcomeCases, ListLeft, Ended
  <2> QED BY <1>1, <1>2, <2>1 DEF Plan!Close
<1>4. ASSUME phase = "stack", pc' \in {"select", "run"}
      PROVE  ListLeft' = ListLeft
  BY <1>1, <1>4 DEF ListLeft, Ended, NextIx, Tests
<1>5. ASSUME Owed' = Owed, ListLeft' = ListLeft, pc' \in {"select", "run"}
      PROVE  UNCHANGED Plan!plan
  <2>1. Outcome' = "open"
    BY <1>5, MappingCases DEF OutcomeCases, Ended
  <2> QED BY <1>1, <1>2, <1>5, <2>1 DEF Plan!plan
<1>6. CASE SelectPopsEmptyStack
  BY <1>3, <1>6 DEF SelectPopsEmptyStack, Plan!Next
<1>7. CASE SelectBadState
  BY <1>3, <1>7 DEF SelectBadState, Plan!Next
<1>8. CASE SelectGivesUpLast
  <2>1. /\ TransitionFailed /\ boot_stack # << >> /\ Pop(boot_stack) = << >>
        /\ boot_stack' = Pop(boot_stack)
    BY <1>8, PopLast DEF SelectGivesUpLast, StackLeft, TypeOK
  <2>2. phase = "stack" /\ pc' = "select"
    BY <1>1, <1>8, <2>1 DEF SelectGivesUpLast, ListHasNoStack, TypeOK
  <2>3. Owed = << >> /\ Owed' = << >>
    BY <1>1, <2>1, <2>2, MappingCases DEF OwedCases
  <2> QED BY <1>4, <1>5, <2>2, <2>3
<1>9. CASE SelectSkipsAll
  <2>1. StackLeft \in Seq(Boot) /\ StackLeft # << >> /\ Candidate(state') = NoBoot
    BY <1>9, OwedSampled DEF SelectSkipsAll
  <2>2. Candidate(state') = Top(StackLeft)
    BY DEF Candidate
  <2> QED BY <2>1, <2>2, PopTop, TableAssumption
<1>10. ASSUME SelectSamples, StackLeft # << >>
       PROVE  /\ phase = "stack" /\ AfterPops = Pop(StackLeft)
              /\ Candidate(state') = Top(StackLeft)
              /\ Append(AfterPops, Top(StackLeft)) = Owed
  <2>1. phase = "stack"
    BY <1>10, NothingLeft DEF TypeOK
  <2>2. AfterPops = Pop(StackLeft) /\ Candidate(state') = Top(StackLeft)
    BY DEF AfterPops, Candidate
  <2>3. Append(Pop(StackLeft), Top(StackLeft)) = Owed
    BY <1>10, OwedSampled, PopTop
  <2> QED BY <2>1, <2>2, <2>3
<1>11. CASE SelectFromStack
  <2>1. /\ pc' = "run" /\ ~transitional_boot_selected'
        /\ boot_stack' = AfterPops /\ next_boot' = Top(StackLeft)
    BY <1>10, <1>11 DEF SelectFromStack
  <2>2. phase = "stack"
    BY <1>10, <1>11 DEF SelectFromStack
  <2>3. Owed' = Owed
    BY <1>1, <1>10, <1>11, <2>1, <2>2, MappingCases DEF OwedCases, SelectFromStack
  <2> QED BY <1>4, <1>5, <2>1, <2>2, <2>3
<1>12. CASE SelectTransition
  <2>1. /\ pc' = "run" /\ transitional_boot_selected'
        /\ boot_stack' = Append(AfterPops, Top(StackLeft))
    BY <1>10, <1>12 DEF SelectTransition
  <2>2. phase = "stack"
    BY <1>10, <1>12 DEF SelectTransition
  <2>3. Owed' = Owed
    BY <1>1, <1>10, <1>12, <2>1, <2>2, MappingCases DEF OwedCases, SelectTransition
  <2> QED BY <1>4, <1>5, <2>1, <2>2, <2>3
<1>13. CASE SelectFromList
  <2>1. phase = "list" /\ pc' = "run" /\ boot_stack' = StackLeft
    BY <1>13, FromListInListPhase DEF SelectFromList
  <2>2. Owed' = Owed
    BY <1>1, <1>13, <2>1, OwedSampled, MappingCases DEF OwedCases, SelectFromList
  <2>3. Tests(parms) \in Nat /\ ix \in Nat
    BY TestsType DEF TypeOK
  <2>4. ListLeft' = ListLeft
    <3>1. ListLeft = Tests(parms) - ix + 0
      BY <1>1 DEF ListLeft, Ended
    <3>2. ListLeft' = Tests(parms) - (ix + 1) + 1
      BY <1>1, <2>1 DEF ListLeft, Ended, NextIx
    <3> QED BY <3>1, <3>2, <2>3
  <2> QED BY <1>5, <2>1, <2>2, <2>4
<1> QED BY <1>6, <1>7, <1>8, <1>9, <1>11, <1>12, <1>13 DEF select_boot

(* A boot that ends settles the entry it was, or that it failed to prepare *)
(* the machine for, or is one of the list.                                 *)
LEMMA PlanRun ==
  ASSUME PlanInv, RunBootPasses \/ RunBootFails
  PROVE  Plan!Next
<1> USE DEF PlanInv, IInv
<1> DEFINE ok == boot_success'
<1>1. /\ pc = "run" /\ pc' = "check" /\ ok \in BOOLEAN
      /\ UNCHANGED <<parms, phase, ix, boot_stack, transitional_boot_selected,
                     next_boot, init_boot_fail>>
      /\ boot_pass' = IF ok THEN boot_pass + 1 ELSE boot_pass
      /\ boot_fail' = IF ok THEN boot_fail ELSE boot_fail + 1
  <2>1. CASE RunBootPasses
    BY <2>1 DEF RunBootPasses, call, initial
  <2>2. CASE RunBootFails
    BY <2>2 DEF RunBootFails, call, initial
  <2> QED BY <2>1, <2>2
<1>2. Outcome = "open" /\ Outcome' = "open"
  BY <1>1, MappingCases DEF OutcomeCases, Ended
<1>3. Plan!Tally(ok)
  BY <1>1 DEF Plan!Tally
<1>4. boot_stack \in Seq(Boot) /\ next_boot \in Boot
  BY <1>1 DEF TypeOK
<1>5. TransitionFailed' <=> transitional_boot_selected /\ ~ok
  BY <1>1 DEF TransitionFailed
<1> HIDE DEF ok
<1>6. phase = "stack" => ListLeft' = ListLeft
  BY <1>1 DEF ListLeft, Ended
<1>7. CASE phase = "stack" /\ ~transitional_boot_selected
  <2>1. Owed = Append(boot_stack, next_boot) /\ Owed' = boot_stack
    BY <1>1, <1>5, <1>7, MappingCases DEF OwedCases
  <2>2. Owed # << >> /\ Pop(Owed) = boot_stack
    BY <1>4, <2>1, PopAppend
  <2>3. Plan!RunRequested(ok)
    BY <1>1, <1>2, <1>3, <1>6, <1>7, <2>1, <2>2
       DEF Plan!RunRequested, Plan!Settle, Pop
  <2> QED BY <1>1, <2>3 DEF Plan!Next
<1>8. CASE phase = "stack" /\ transitional_boot_selected
  <2>1. Owed = boot_stack /\ Owed # << >>
    BY <1>1, <1>8, MappingCases DEF OwedCases, ChoiceJustified
  <2>2. Owed' = IF ok THEN Owed ELSE Pop(Owed)
    BY <1>1, <1>5, <1>8, <2>1, MappingCases DEF OwedCases
  <2>3. Plan!RunTransition(ok)
    BY <1>1, <1>2, <1>3, <1>6, <1>8, <2>1, <2>2
       DEF Plan!RunTransition, Plan!Settle, Pop
  <2> QED BY <1>1, <2>3 DEF Plan!Next
<1>9. CASE phase = "list"
  <2>1. boot_stack = << >>
    BY <1>1, <1>9 DEF ChoiceJustified
  <2>2. Owed = << >> /\ Owed' = << >>
    BY <1>1, <1>9, <2>1, MappingCases DEF OwedCases
  <2>3. Tests(parms) \in Nat /\ ix \in Nat
    BY TestsType DEF TypeOK
  <2>4. ListLeft = Tests(parms) - ix + 1 /\ ListLeft' = Tests(parms) - ix + 0
    BY <1>1, <1>9 DEF ListLeft, Ended
  <2>5. ListLeft > 0 /\ ListLeft' = ListLeft - 1
    BY <2>3, <2>4
  <2>6. Plan!RunListed(ok)
    BY <1>1, <1>2, <1>3, <2>2, <2>5 DEF Plan!RunListed
  <2> QED BY <1>1, <2>6 DEF Plan!Next
<1> QED BY <1>7, <1>8, <1>9 DEF TypeOK

(* A call is accepted, or turned down at once.                             *)
LEMMA PlanCall ==
  ASSUME PlanInv, NEW p \in Parms, Setup(p) \/ SetupFails(p)
  PROVE  Plan!Next
<1> USE DEF PlanInv, IInv
<1>1. /\ pc = "idle" /\ LoadResults /\ ix' = 0 /\ parms' = p
      /\ boot_stack' = p.boot_stack /\ ~transitional_boot_selected'
      /\ \/ pc' = "select" /\ phase' = "stack"
         \/ pc' = "teardown" /\ verdict' = "setup_failed"
  BY DEF Setup, SetupFails
<1>2. /\ boot_pass' = boot_pass /\ boot_fail' = boot_fail
      /\ init_boot_fail' = boot_fail
  <2>1. CASE results_file = NoFile
    BY <1>1, <2>1 DEF Counting, SavedTotals, LoadResults
  <2>2. CASE results_file # NoFile
    BY <1>1, <2>2 DEF Counting, SavedTotals, LoadResults
  <2> QED BY <2>1, <2>2
<1>3. Outcome = "idle"
  BY <1>1, MappingCases DEF OutcomeCases
<1>4. ASSUME pc' = "select", phase' = "stack"
      PROVE  Outcome' = "open" /\ Owed' = p.boot_stack /\ ListLeft' = Tests(p)
  <2>1. Outcome' = "open" /\ Owed' = p.boot_stack
    BY <1>1, <1>4, MappingCases
       DEF OwedCases, OutcomeCases, Ended, TransitionFailed
  <2>2. Tests(p) \in Nat
    BY TestsType, ParmAssumption
  <2>3. ListLeft' = Tests(p) - 0 + 0
    BY <1>1, <1>4 DEF ListLeft, Ended, Tests
  <2> QED BY <2>1, <2>2, <2>3
<1>5. ASSUME pc' = "teardown", verdict' = "setup_failed"
      PROVE  Outcome' = "failed" /\ Owed' = << >> /\ ListLeft' = 0
  BY <1>5, MappingCases DEF OwedCases, OutcomeCases, ListLeft, Ended
<1> DEFINE j == [stack |-> p.boot_stack, tests |-> Tests(p),
                 limit |-> p.boot_fail_threshold]
<1>6. Plan!Begin
  <2>1. /\ parms.boot_fail_threshold' = j.limit
        /\ \/ Outcome' = "open" /\ Owed' = j.stack /\ ListLeft' = j.tests
           \/ Outcome' = "failed" /\ Owed' = << >> /\ ListLeft' = 0
    BY <1>1, <1>4, <1>5
  <2>2. j \in {[stack |-> q.boot_stack, tests |-> Tests(q),
                limit |-> q.boot_fail_threshold] : q \in Parms}
    OBVIOUS
  <2> HIDE DEF j
  <2> QED BY <1>2, <1>3, <2>1, <2>2 DEF Plan!Begin
<1> QED BY <1>6 DEF Plan!Next

(* The call goes on after a stop_check, and ends.                          *)
LEMMA PlanRest ==
  ASSUME PlanInv,
         \/ StopCheckContinues \/ StopCheckStops \/ PostStack
         \/ Complete \/ Teardown
  PROVE  [Plan!Next]_Plan!plan
<1> USE DEF PlanInv, IInv
<1>1. CASE StopCheckContinues
  <2>1. /\ pc = "check" /\ pc' = "select"
        /\ UNCHANGED <<parms, phase, ix, boot_stack, transitional_boot_selected,
                       boot_success, boot_pass, boot_fail, init_boot_fail>>
    BY <1>1 DEF StopCheckContinues, call, choice, totals, initial
  <2>2. Owed' = Owed /\ Outcome' = Outcome
    BY <2>1, MappingCases DEF OwedCases, OutcomeCases, Ended, TransitionFailed
  <2>3. ListLeft' = ListLeft
    BY <2>1 DEF ListLeft, Ended
  <2> QED BY <2>1, <2>2, <2>3 DEF Plan!plan
<1>2. ASSUME ~Ended, pc' = "teardown", verdict' # "pass",
             UNCHANGED <<parms, boot_pass, boot_fail, init_boot_fail>>
      PROVE  Plan!Close
  <2>1. /\ Owed' = << >> /\ ListLeft' = 0 /\ Outcome' = "failed"
        /\ Outcome = "open"
    BY <1>2, MappingCases DEF OwedCases, OutcomeCases, ListLeft, Ended
  <2> QED BY <1>2, <2>1 DEF Plan!Close
<1>3. CASE StopCheckStops
  BY <1>2, <1>3 DEF StopCheckStops, Ended, Plan!Next, call, totals, initial
<1>4. CASE PostStack
  <2>1. /\ pc = "select" /\ phase = "stack" /\ phase' = "list" /\ boot_stack = << >>
        /\ UNCHANGED <<parms, ix, boot_stack, boot_pass, boot_fail, init_boot_fail>>
        /\ \/ pc' = "select"
           \/ pc' = "teardown" /\ verdict' = "stopped"
    BY <1>4 DEF PostStack, call, choice, totals, initial
  <2>2. CASE pc' = "select"
    <3>1. Owed = << >> /\ Owed' = << >> /\ Outcome' = Outcome
      BY <2>1, <2>2, MappingCases DEF OwedCases, OutcomeCases, Ended
    <3>2. ListLeft' = ListLeft
      BY <2>1, <2>2 DEF ListLeft, Ended
    <3> QED BY <2>1, <3>1, <3>2 DEF Plan!plan
  <2> QED BY <1>2, <2>1, <2>2 DEF Ended, Plan!Next
<1>5. CASE Complete
  <2>1. /\ pc = "select" /\ phase = "list" /\ ~LoopContinues /\ pc' = "teardown"
        /\ UNCHANGED <<parms, boot_pass, boot_fail, init_boot_fail>>
        /\ verdict' = IF boot_fail - init_boot_fail > parms.boot_fail_threshold
                        THEN "threshold" ELSE "pass"
    BY <1>5 DEF Complete, call, totals, initial
  <2>2. CASE boot_fail - init_boot_fail > parms.boot_fail_threshold
    BY <1>2, <2>1, <2>2 DEF Ended, Plan!Next
  <2>3. CASE ~(boot_fail - init_boot_fail > parms.boot_fail_threshold)
    <3>1. boot_fail - init_boot_fail <= parms.boot_fail_threshold
      BY <2>3 DEF TypeOK, ParmRec
    <3>2. Owed' = << >> /\ ListLeft' = 0 /\ Outcome' = "passed" /\ Outcome = "open"
      BY <2>1, <2>3, MappingCases DEF OwedCases, OutcomeCases, ListLeft, Ended
    <3>3. Owed = << >>
      <4>1. boot_stack = << >>
        BY <2>1 DEF ListHasNoStack
      <4> QED BY <2>1, <4>1, MappingCases DEF OwedCases
    <3>4. ListLeft = 0
      <4>1. parms.max_num_tests \in Nat /\ ix \in Nat
        BY DEF TypeOK, ParmRec
      <4>2. Tests(parms) - ix = 0
        BY <2>1, <4>1 DEF LoopContinues, Tests
      <4> QED BY <2>1, <4>2 DEF ListLeft, Ended
    <3>5. Plan!Close
      BY <2>1, <3>1, <3>2, <3>3, <3>4 DEF Plan!Close
    <3> QED BY <3>5 DEF Plan!Next
  <2> QED BY <2>2, <2>3
<1>6. CASE Teardown
  <2>1. /\ pc = "teardown" /\ pc' = "idle"
        /\ UNCHANGED <<parms, boot_pass, boot_fail, init_boot_fail>>
    BY <1>6 DEF Teardown, call, totals, initial
  <2>2. /\ Owed = << >> /\ Owed' = << >> /\ Outcome' = "idle"
        /\ Outcome \in {"passed", "failed"} /\ ListLeft = 0 /\ ListLeft' = 0
    BY <2>1, MappingCases DEF OwedCases, OutcomeCases, ListLeft, Ended
  <2> QED BY <2>1, <2>2 DEF Plan!Return, Plan!Next
<1> QED BY <1>1, <1>3, <1>4, <1>5, <1>6

(* The mode is normal throughout.                                          *)
LEMMA PlanInvariant == ASSUME NormalMode PROVE Spec => []PlanInv
<1> DEFINE M == parms.stack_mode = "normal"
<1>1. Init => M
  BY DEF Init, NoParms
<1>2. M /\ [Next]_vars => M'
  <2> SUFFICES ASSUME M, [Next]_vars PROVE M'
    OBVIOUS
  <2>1. parms' = parms \/ parms' \in Parms
    BY ParmsChange
  <2> QED BY <2>1 DEF NormalMode
<1>3. IInv /\ ix <= Tests(parms) /\ M => PlanInv
  BY DEF PlanInv
<1> QED BY <1>1, <1>2, <1>3, Inductive, ListBound, PTL DEF Spec

(* The driver keeps what BootPlan promises its caller: boots of the stack  *)
(* are settled one at a time, last in first out, each boot adds one to one *)
(* of the totals, and a call that passes owes nothing.  For every boot     *)
(* table, machine and set of parameters in normal stack mode.              *)
THEOREM PlanIsKept == ASSUME NormalMode PROVE Spec => KeepsPlan
<1>1. Init => Plan!Init
  <2> SUFFICES ASSUME Init PROVE Plan!Init
    OBVIOUS
  <2>1. Owed = << >> /\ ListLeft = 0 /\ Outcome = "idle"
    BY MappingCases DEF Init, OwedCases, OutcomeCases, ListLeft, Ended
  <2> QED BY <2>1 DEF Init, NoParms, Plan!Init
<1>2. PlanInv /\ [Next]_vars => [Plan!Next]_Plan!plan
  <2> SUFFICES ASSUME PlanInv, [Next]_vars PROVE [Plan!Next]_Plan!plan
    OBVIOUS
  <2>1. CASE Drift \/ UNCHANGED vars
    <3>1. UNCHANGED <<parms, pc, phase, ix, boot_stack, next_boot, boot_success,
                      transitional_boot_selected, boot_pass, boot_fail,
                      init_boot_fail, verdict>>
      BY <2>1 DEF Drift, vars, call, choice, totals, initial
    <3>2. UNCHANGED <<Owed, ListLeft, Outcome>>
      BY <3>1 DEF Owed, ListLeft, Outcome, Ended, TransitionFailed, Tests
    <3> QED BY <3>1, <3>2 DEF Plan!plan
  <2> QED BY <2>1, PlanSelect, PlanCall, PlanRun, PlanRest DEF Next, Driver, Call
<1> QED BY <1>1, <1>2, PlanInvariant, PTL DEF Spec, KeepsPlan, Plan!PlanSpec

-----------------------------------------------------------------------------
(* The bound on the boots of a call.  Prepared(s, t): the default boot of  *)
(* state s leads to a state entry t can start from.  Needs(s, t): boots    *)
(* that have to be run, from state s, before t can be.                     *)
Prepared(s, t) == End[DefaultBoot(s)] \subseteq Start[t]

Needs(s, t) == IF s \in Start[t] THEN 0 ELSE IF Prepared(s, t) THEN 1 ELSE 2

(* The most boots a stack k costs when it is looked at in state s: three   *)
(* for each entry, less for the top one the closer the machine is to it.   *)
StackCost(k, s) ==
  IF k = << >> THEN 0 ELSE 3 * Len(k) - 2 + Needs(s, Top(k))

(* The same while boot b runs to prepare the top entry of k, b included.   *)
PrepareCost(k, b) ==
  3 * Len(k) - 2 + (IF End[b] \subseteq Start[Top(k)] THEN 1 ELSE 2)

(* Boots a call has still to run at the most.                              *)
Effort ==
  IF phase = "list" THEN Tests(parms) - ix + (IF pc = "run" THEN 1 ELSE 0)
  ELSE Tests(parms) +
         (IF pc # "run" THEN StackCost(StackLeft, Sampled)
          ELSE IF transitional_boot_selected THEN PrepareCost(boot_stack, next_boot)
          ELSE 3 * Len(boot_stack) + 1)

Allowed == 3 * Len(parms.boot_stack) + Tests(parms) + 2 * drift

(* A boot that runs to prepare an entry leads to a state from which one    *)
(* more boot is enough.                                                    *)
TransitionHelps ==
  pc = "run" /\ transitional_boot_selected =>
    \A n \in End[next_boot] :
      n \in Start[Top(boot_stack)] \/ Prepared(n, Top(boot_stack))

EffortBounded ==
  IF Ended THEN Ran <= Allowed ELSE Ran + Effort <= Allowed

BoundInv == /\ IInv
            /\ ix <= Tests(parms)
            /\ TransitionHelps
            /\ EffortBounded

(* What a stack may still cost is near three boots for each entry.         *)
LEMMA CostBounds ==
  ASSUME NEW k \in Seq(Boot), NEW s
  PROVE  /\ Len(k) \in Nat
         /\ StackCost(k, s) \in Nat /\ StackCost(k, s) <= 3 * Len(k)
         /\ k # << >> => StackCost(k, s) >= 3 * Len(k) - 2 /\ Len(k) >= 1
         /\ \A b \in Boot : k # << >> =>
              /\ PrepareCost(k, b) \in Nat
              /\ PrepareCost(k, b) >= 3 * Len(k) - 1
<1>1. Len(k) \in Nat /\ (k # << >> => Len(k) >= 1)
  BY LenProperties, EmptySeq
<1>2. Needs(s, Top(k)) \in {0, 1, 2}
  BY DEF Needs
<1>3. StackCost(k, s) = IF k = << >> THEN 0 ELSE 3 * Len(k) - 2 + Needs(s, Top(k))
  BY DEF StackCost
<1>4. \A b \in Boot : PrepareCost(k, b) \in {3 * Len(k) - 1, 3 * Len(k)}
  BY <1>1 DEF PrepareCost
<1> QED BY <1>1, <1>2, <1>3, <1>4

(* Drift takes the machine two boots farther at the most.                  *)
LEMMA DriftCost ==
  ASSUME NEW k \in Seq(Boot), NEW s, NEW n
  PROVE  StackCost(k, n) <= StackCost(k, s) + 2
<1>1. Needs(s, Top(k)) \in {0, 1, 2} /\ Needs(n, Top(k)) \in {0, 1, 2}
  BY DEF Needs
<1>2. Len(k) \in Nat
  BY LenProperties
<1> QED BY <1>1, <1>2 DEF StackCost

(* Selecting a boot to prepare t costs no more than had been set aside.    *)
LEMMA PrepareStep ==
  ASSUME TableSettles, NEW k \in Seq(Boot), k # << >>, NEW s \in MState,
         NEW b \in OrDefault(TransitionCandidates(s, Top(k)), s),
         s \notin Start[Top(k)]
  PROVE  /\ PrepareCost(k, b) <= StackCost(k, s)
         /\ \A n \in End[b] : n \in Start[Top(k)] \/ Prepared(n, Top(k))
<1>1. Top(k) \in Boot /\ Len(k) \in Nat
  BY PopTop
<1>2. CASE b = DefaultBoot(s)
  <2>1. PrepareCost(k, b) = StackCost(k, s)
    BY <1>1, <1>2 DEF PrepareCost, StackCost, Needs, Prepared
  <2> QED BY <1>1, <1>2, <2>1 DEF TableSettles, Prepared, StackCost, PrepareCost
<1>3. CASE b \in TransitionCandidates(s, Top(k))
  <2>1. End[b] \subseteq Start[Top(k)]
    BY <1>3 DEF TransitionCandidates, TableSettles
  <2> QED BY <1>1, <2>1 DEF PrepareCost, StackCost, Needs
<1> QED BY <1>2, <1>3 DEF OrDefault

(* When the boot has passed, the machine is one boot closer.               *)
LEMMA PrepareEnds ==
  ASSUME NEW k \in Seq(Boot), k # << >>, NEW b \in Boot, NEW n \in End[b],
         n \in Start[Top(k)] \/ Prepared(n, Top(k))
  PROVE  StackCost(k, n) + 1 <= PrepareCost(k, b)
<1>1. Len(k) \in Nat
  BY LenProperties
<1> QED BY <1>1 DEF StackCost, PrepareCost, Needs

(* Effort, case by case.                                                   *)
EffortCases ==
  /\ phase = "list" =>
       Effort = Tests(parms) - ix + (IF pc = "run" THEN 1 ELSE 0)
  /\ phase = "stack" /\ pc # "run" =>
       Effort = Tests(parms) + StackCost(StackLeft, Sampled)
  /\ phase = "stack" /\ pc = "run" /\ transitional_boot_selected =>
       Effort = Tests(parms) + PrepareCost(boot_stack, next_boot)
  /\ phase = "stack" /\ pc = "run" /\ ~transitional_boot_selected =>
       Effort = Tests(parms) + (3 * Len(boot_stack) + 1)

LEMMA EffortIs == EffortCases /\ EffortCases'
  BY DEF EffortCases, Effort

LEMMA PopEmpty == Pop(<< >>) = << >>
<1>1. Len(<< >>) - 1 < 1 /\ Len(<< >>) - 1 \in Int /\ 1 \in Int
  OBVIOUS
<1> QED BY <1>1, SubSeqEmpty DEF Pop

LEMMA EmptyStackLeft ==
  boot_stack = << >> => StackLeft = << >>
  BY PopEmpty DEF StackLeft

LEMMA EffortType ==
  ASSUME TypeOK, ChoiceJustified, ix <= Tests(parms)
  PROVE  Effort \in Nat /\ Tests(parms) \in Nat /\ Ran \in Int /\ Allowed \in Nat
<1>1. /\ Tests(parms) \in Nat /\ ix \in Nat /\ Ran \in Int /\ drift \in Nat
      /\ parms.boot_stack \in Seq(Boot)
  BY TestsType DEF TypeOK, Ran, ParmRec
<1>2. Allowed \in Nat
  <2>1. Len(parms.boot_stack) \in Nat
    BY <1>1, LenProperties
  <2> QED BY <1>1, <2>1 DEF Allowed
<1>3. CASE phase = "list"
  BY <1>1, <1>2, <1>3, EffortIs DEF EffortCases
<1>4. CASE phase = "stack" /\ pc # "run"
  <2>1. StackCost(StackLeft, Sampled) \in Nat
    BY StackLeftType, CostBounds
  <2> QED BY <1>1, <1>2, <1>4, <2>1, EffortIs DEF EffortCases
<1>5. CASE phase = "stack" /\ pc = "run"
  <2>1. /\ boot_stack \in Seq(Boot) /\ Len(boot_stack) \in Nat /\ next_boot \in Boot
        /\ transitional_boot_selected => boot_stack # << >>
    BY <1>5, LenProperties DEF TypeOK, ChoiceJustified
  <2>2. transitional_boot_selected => PrepareCost(boot_stack, next_boot) \in Nat
    BY <2>1, CostBounds
  <2> QED BY <1>1, <1>2, <1>5, <2>1, <2>2, EffortIs DEF EffortCases
<1> QED BY <1>3, <1>4, <1>5 DEF TypeOK

(* A call starts with nothing run and its whole stack ahead of it.         *)
LEMMA BoundCall ==
  ASSUME BoundInv, IInv', (ix <= Tests(parms))', NEW p \in Parms,
         Setup(p) \/ SetupFails(p)
  PROVE  EffortBounded'
<1> USE DEF BoundInv, IInv
<1>1. /\ pc = "idle" /\ LoadResults /\ ix' = 0 /\ parms' = p
      /\ boot_stack' = p.boot_stack /\ ~transitional_boot_selected'
      /\ UNCHANGED drift
      /\ \/ pc' = "select" /\ phase' = "stack"
         \/ pc' = "teardown"
  BY DEF Setup, SetupFails, env
<1>2. Ran' = 0
  BY <1>1 DEF LoadResults, Ran, TypeOK
<1>3. Allowed' \in Nat /\ Tests(p) \in Nat
  <2>1. p \in ParmRec /\ drift \in Nat
    BY ParmAssumption DEF TypeOK
  <2>2. Tests(p) \in Nat /\ Len(p.boot_stack) \in Nat
    BY <2>1, TestsType, LenProperties DEF ParmRec
  <2> QED BY <1>1, <2>1, <2>2 DEF Allowed, Tests
<1>4. CASE pc' = "teardown"
  BY <1>2, <1>3, <1>4 DEF EffortBounded, Ended
<1>5. CASE pc' = "select" /\ phase' = "stack"
  <2>1. StackLeft' = p.boot_stack /\ p.boot_stack \in Seq(Boot)
    BY <1>1, ParmAssumption DEF StackLeft, TransitionFailed, ParmRec
  <2>2. Effort' = Tests(p) + StackCost(p.boot_stack, Sampled')
    BY <1>1, <1>5, <2>1, EffortIs DEF EffortCases, Tests
  <2>3. /\ StackCost(p.boot_stack, Sampled') <= 3 * Len(p.boot_stack)
        /\ StackCost(p.boot_stack, Sampled') \in Nat
        /\ Len(p.boot_stack) \in Nat
    BY <2>1, CostBounds
  <2>4. Allowed' = 3 * Len(p.boot_stack) + Tests(p) + 2 * drift /\ drift \in Nat
    BY <1>1 DEF Allowed, Tests, TypeOK
  <2>5. Ran' + Effort' <= Allowed'
    BY <1>2, <1>3, <2>2, <2>3, <2>4
  <2> QED BY <1>5, <2>5 DEF EffortBounded, Ended
<1> QED BY <1>1, <1>4, <1>5

(* A call that ends had room left.                                         *)
LEMMA BoundEnd ==
  ASSUME BoundInv, ~Ended, Ended',
         UNCHANGED <<drift, parms, boot_pass, boot_fail, init_boot_pass, init_boot_fail>>
  PROVE  EffortBounded'
<1>1. Ran' = Ran /\ Allowed' = Allowed
  BY DEF Ran, Allowed, Tests
<1>2. Ran + Effort <= Allowed /\ Effort \in Nat /\ Ran \in Int /\ Allowed \in Nat
  BY EffortType DEF BoundInv, IInv, EffortBounded
<1> QED BY <1>1, <1>2 DEF EffortBounded

(* A step that runs no boot and costs nothing.                             *)
LEMMA BoundKeep ==
  ASSUME BoundInv, ~Ended, ~Ended', BoundInv => Effort' \in Nat, Effort' <= Effort,
         UNCHANGED <<drift, parms, boot_pass, boot_fail, init_boot_pass, init_boot_fail>>
  PROVE  EffortBounded'
<1>1. Ran' = Ran /\ Allowed' = Allowed
  BY DEF Ran, Allowed, Tests
<1>2. Ran + Effort <= Allowed /\ Effort \in Nat /\ Ran \in Int /\ Allowed \in Nat
  BY EffortType DEF BoundInv, IInv, EffortBounded
<1> QED BY <1>1, <1>2 DEF EffortBounded

(* Selecting a boot costs nothing that was not set aside for it.           *)
LEMMA BoundSelect ==
  ASSUME TableSettles, BoundInv, IInv', (ix <= Tests(parms))', select_boot
  PROVE  EffortBounded' /\ TransitionHelps'
<1> USE DEF BoundInv, IInv
<1>1. /\ pc = "select" /\ NextIx /\ phase' = phase
      /\ UNCHANGED <<drift, parms, boot_pass, boot_fail, init_boot_pass, init_boot_fail>>
  BY DEF select_boot, SelectPopsEmptyStack, SelectGivesUpLast, SelectBadState,
         SelectSkipsAll, SelectFromStack, SelectTransition, SelectFromList,
         SelectSamples, LoopContinues, env, call, totals, initial
<1>2. Effort' \in Nat
  <2>1. (TypeOK /\ ChoiceJustified /\ ix <= Tests(parms) => Effort \in Nat)'
    BY EffortType, PTL
  <2> QED BY <2>1
<1>3. ASSUME pc' = "teardown" PROVE EffortBounded' /\ TransitionHelps'
  BY <1>1, <1>3, BoundEnd DEF Ended, TransitionHelps
<1>4. ASSUME pc' \in {"select", "run"}, Effort' <= Effort PROVE EffortBounded'
  BY <1>1, <1>2, <1>4, BoundKeep DEF Ended
<1>5. Tests(parms') = Tests(parms) /\ Tests(parms) \in Nat /\ ix \in Nat
  BY <1>1, TestsType DEF TypeOK
<1>6. StackLeft \in Seq(Boot) /\ Sampled \in MState
  BY StackLeftType DEF Sampled, TypeOK
<1>7. CASE SelectPopsEmptyStack \/ SelectBadState
  BY <1>3, <1>7 DEF SelectPopsEmptyStack, SelectBadState
<1>8. ASSUME pc' = "select", phase = "stack", StackLeft' = << >>
      PROVE  EffortBounded' /\ TransitionHelps'
  <2>1. Effort' = Tests(parms) + 0
    BY <1>1, <1>5, <1>8, EffortIs DEF EffortCases, StackCost, Tests
  <2>2. Effort = Tests(parms) + StackCost(StackLeft, Sampled)
    BY <1>1, <1>8, EffortIs DEF EffortCases
  <2>3. StackCost(StackLeft, Sampled) \in Nat
    BY <1>6, CostBounds
  <2>4. Effort' <= Effort
    BY <1>5, <2>1, <2>2, <2>3
  <2> QED BY <1>4, <1>8, <2>4 DEF TransitionHelps
<1>9. CASE SelectGivesUpLast
  <2>1. TransitionFailed /\ boot_stack # << >> /\ boot_stack' = << >>
    BY <1>9, PopLast DEF SelectGivesUpLast, StackLeft, TypeOK
  <2>2. phase = "stack" /\ pc' = "select"
    BY <1>1, <1>9, <2>1 DEF SelectGivesUpLast, ListHasNoStack, TypeOK
  <2>3. StackLeft' = << >>
    BY <2>1, PopEmpty DEF StackLeft, Pop
  <2> QED BY <1>8, <2>2, <2>3
<1>10. ASSUME SelectSamples, StackLeft # << >>
       PROVE  /\ phase = "stack" /\ Len(StackLeft) \in Nat /\ Len(StackLeft) >= 1
              /\ Effort = Tests(parms) + StackCost(StackLeft, Sampled)
              /\ StackCost(StackLeft, Sampled) \in Nat
              /\ StackCost(StackLeft, Sampled) >= 3 * Len(StackLeft) - 2
  <2>1. phase = "stack"
    BY <1>10, NothingLeft DEF TypeOK
  <2> QED BY <1>1, <1>6, <1>10, <2>1, CostBounds, EffortIs DEF EffortCases
<1>11. CASE SelectSkipsAll
  <2>1. parms.stack_mode = "skip"
    <3>1. Top(StackLeft) \in Boot
      BY <1>6, <1>11, TopType DEF SelectSkipsAll
    <3>2. parms.stack_mode = "normal" => Candidate(state') = Top(StackLeft)
      BY DEF Candidate
    <3>3. Candidate(state') = NoBoot /\ NoBoot \notin Boot
      BY <1>11, TableAssumption DEF SelectSkipsAll
    <3> QED BY <3>1, <3>2, <3>3 DEF TypeOK, ParmRec
  <2>2. boot_stack' = << >> /\ ~transitional_boot_selected' /\ pc' = "select"
    BY <1>1, <1>11, <2>1 DEF SelectSkipsAll, AfterPops
  <2>3. StackLeft' = << >>
    BY <2>2 DEF StackLeft, TransitionFailed
  <2> QED BY <1>8, <1>10, <1>11, <2>2, <2>3 DEF SelectSkipsAll
<1>12. CASE SelectFromStack
  <2>1. /\ pc' = "run" /\ ~transitional_boot_selected' /\ boot_stack' = AfterPops
        /\ SelectSamples /\ StackLeft # << >>
    BY <1>12 DEF SelectFromStack
  <2>2. Len(AfterPops) \in Nat /\ Len(AfterPops) <= Len(StackLeft) - 1
    <3>1. CASE AfterPops = Pop(StackLeft)
      BY <1>6, <1>10, <2>1, <3>1, PopTop
    <3>2. CASE AfterPops = << >>
      <4>1. Len(AfterPops) = 0
        BY <3>2
      <4> QED BY <1>10, <2>1, <4>1
    <3> QED BY <3>1, <3>2 DEF AfterPops
  <2>3. Effort' = Tests(parms) + (3 * Len(AfterPops) + 1)
    BY <1>1, <1>10, <2>1, EffortIs DEF EffortCases, Tests
  <2>4. Effort' <= Effort
    BY <1>5, <1>10, <2>1, <2>2, <2>3
  <2> QED BY <1>4, <2>1, <2>4 DEF TransitionHelps
<1>13. CASE SelectTransition
  <2> DEFINE boot == Candidate(state')
  <2>1. /\ pc' = "run" /\ transitional_boot_selected' /\ state' = Sampled
        /\ SelectSamples /\ StackLeft # << >>
        /\ boot # NoBoot /\ state' \notin Start[boot]
        /\ boot_stack' = Append(AfterPops, boot)
        /\ next_boot' \in OrDefault(TransitionCandidates(state', boot), state')
    BY <1>13 DEF SelectTransition, CanStart
  <2>2. boot \in Boot /\ AfterPops \in Seq(Boot)
    BY <2>1, CandidateType
  <2>3. /\ boot_stack' \in Seq(Boot) /\ boot_stack' # << >>
        /\ Top(boot_stack') = boot /\ next_boot' \in Boot
    BY <1>1, <2>1, <2>2, PushedIsTop, AppendProperties DEF TypeOK
  <2>4. /\ PrepareCost(boot_stack', next_boot') <= StackCost(boot_stack', Sampled)
        /\ \A n \in End[next_boot'] : n \in Start[boot] \/ Prepared(n, boot)
    BY <1>6, <2>1, <2>3, PrepareStep
  <2>5. TransitionHelps'
    BY <2>3, <2>4 DEF TransitionHelps, Top
  <2>6. StackCost(boot_stack', Sampled) <= StackCost(StackLeft, Sampled)
    <3>1. CASE boot_stack' = StackLeft
      BY <1>10, <2>1, <3>1
    <3>2. CASE Len(boot_stack') = 1 /\ Len(StackLeft) > 1
      <4>1. /\ StackCost(boot_stack', Sampled) \in Nat
            /\ StackCost(boot_stack', Sampled) <= 3 * Len(boot_stack')
        BY <2>3, CostBounds
      <4>2. 3 * Len(boot_stack') = 3
        BY <3>2
      <4>3. StackCost(boot_stack', Sampled) <= 3
        BY <4>1, <4>2, Zenon
      <4> QED BY <1>10, <2>1, <3>2, <4>1, <4>3
    <3>3. CASE parms.stack_mode = "normal"
      <4>1. boot_stack' = StackLeft
        BY <1>6, <2>1, <3>3, PopTop DEF Candidate, AfterPops
      <4> QED BY <3>1, <4>1
    <3>4. CASE parms.stack_mode = "skip"
      <4>1. AfterPops = << >> /\ boot = StackLeft[1]
        BY <2>1, <3>4 DEF Candidate, AfterPops
      <4>2. Len(boot_stack') = 1 /\ boot_stack'[1] = boot
        BY <2>1, <2>2, <4>1
      <4>3. Len(StackLeft) = 1 => boot_stack' = StackLeft
        BY <1>6, <2>3, <4>1, <4>2, SeqEqual
      <4>4. Len(StackLeft) = 1 \/ Len(StackLeft) > 1
        <5>1. \A n \in Nat : n >= 1 => n = 1 \/ n > 1
          OBVIOUS
        <5> QED BY <1>10, <2>1, <5>1, Zenon
      <4> QED BY <3>1, <3>2, <4>2, <4>3, <4>4, Zenon
    <3> QED BY <3>3, <3>4 DEF TypeOK, ParmRec
  <2>7. Effort' = Tests(parms) + PrepareCost(boot_stack', next_boot')
    BY <1>1, <1>10, <2>1, EffortIs DEF EffortCases, Tests, PrepareCost, Top
  <2>8. PrepareCost(boot_stack', next_boot') \in Nat /\ StackCost(boot_stack', Sampled) \in Nat
    BY <2>3, CostBounds
  <2>9. Effort' <= Effort
    BY <1>5, <1>10, <2>1, <2>4, <2>6, <2>7, <2>8
  <2> QED BY <1>4, <2>1, <2>5, <2>9
<1>14. CASE SelectFromList
  <2>1. phase = "list" /\ pc' = "run" /\ ~transitional_boot_selected'
    BY <1>14, FromListInListPhase DEF SelectFromList
  <2>2. Effort = Tests(parms) - ix + 0 /\ Effort' = Tests(parms) - (ix + 1) + 1
    BY <1>1, <1>5, <2>1, EffortIs DEF EffortCases, NextIx
  <2>3. Effort' <= Effort
    BY <1>5, <2>2
  <2> QED BY <1>4, <2>1, <2>3 DEF TransitionHelps
<1> QED BY <1>7, <1>9, <1>11, <1>12, <1>13, <1>14 DEF select_boot

(* A boot that ends takes one from what was set aside; what it leads to    *)
(* has been counted.                                                       *)
LEMMA BoundRun ==
  ASSUME TableSettles, BoundInv, IInv', (ix <= Tests(parms))',
         RunBootPasses \/ RunBootFails
  PROVE  EffortBounded' /\ TransitionHelps'
<1> USE DEF BoundInv, IInv
<1>1. /\ pc = "run" /\ pc' = "check"
      /\ UNCHANGED <<drift, parms, phase, ix, boot_stack, next_boot,
                     transitional_boot_selected, init_boot_pass, init_boot_fail>>
      /\ \/ boot_pass' = boot_pass + 1 /\ boot_fail' = boot_fail
         \/ boot_fail' = boot_fail + 1 /\ boot_pass' = boot_pass
      /\ boot_success' => RunBootPasses
  BY DEF RunBootPasses, RunBootFails, call, initial
<1>2. Ran' = Ran + 1 /\ Allowed' = Allowed
  <2>1. Ran' = Ran + 1
    <3>1. /\ boot_pass \in Nat /\ boot_fail \in Nat
          /\ init_boot_pass \in Nat /\ init_boot_fail \in Nat
      BY DEF TypeOK
    <3>2. \/ boot_pass' + boot_fail' = (boot_pass + 1) + boot_fail
          \/ boot_pass' + boot_fail' = boot_pass + (boot_fail + 1)
      BY <1>1, Zenon
    <3>3. init_boot_pass' + init_boot_fail' = init_boot_pass + init_boot_fail
      BY <1>1, Zenon
    <3> QED BY <3>1, <3>2, <3>3 DEF Ran
  <2>2. Allowed' = Allowed
    BY <1>1 DEF Allowed, Tests
  <2> QED BY <2>1, <2>2
<1>3. /\ Tests(parms') = Tests(parms) /\ Tests(parms) \in Nat /\ ix \in Nat
      /\ boot_stack \in Seq(Boot) /\ Len(boot_stack) \in Nat /\ next_boot \in Boot
  BY <1>1, TestsType, LenProperties DEF TypeOK
<1>4. Effort' + 1 <= Effort /\ Effort' \in Int
  <2>1. CASE phase = "list"
    <3>1. Effort = Tests(parms) - ix + 1 /\ Effort' = Tests(parms) - ix + 0
      BY <1>1, <1>3, <2>1, EffortIs DEF EffortCases
    <3> QED BY <1>3, <3>1
  <2>2. CASE phase = "stack" /\ ~transitional_boot_selected
    <3>1. StackLeft' = boot_stack
      BY <1>1, <2>2 DEF StackLeft, TransitionFailed
    <3>2. /\ Effort = Tests(parms) + (3 * Len(boot_stack) + 1)
          /\ Effort' = Tests(parms) + StackCost(boot_stack, Sampled')
      BY <1>1, <1>3, <2>2, <3>1, EffortIs DEF EffortCases
    <3>3. /\ StackCost(boot_stack, Sampled') \in Nat
          /\ StackCost(boot_stack, Sampled') <= 3 * Len(boot_stack)
      BY <1>3, CostBounds
    <3> QED BY <1>3, <3>2, <3>3
  <2>3. CASE phase = "stack" /\ transitional_boot_selected
    <3>1. /\ boot_stack # << >>
          /\ Effort = Tests(parms) + PrepareCost(boot_stack, next_boot)
          /\ Effort' = Tests(parms) + StackCost(StackLeft', Sampled')
      BY <1>1, <1>3, <2>3, EffortIs DEF EffortCases, ChoiceJustified
    <3>2. /\ StackCost(StackLeft', Sampled') \in Nat
          /\ PrepareCost(boot_stack, next_boot) \in Nat
          /\ StackCost(StackLeft', Sampled') + 1 <= PrepareCost(boot_stack, next_boot)
      <4>1. CASE boot_success'
        <5>1. StackLeft' = boot_stack
          BY <1>1, <4>1 DEF StackLeft, TransitionFailed
        <5>2. Sampled' \in End[next_boot]
          BY <1>1, <1>3, <4>1 DEF RunBootPasses, Sampled, TableSettles
        <5>3. StackCost(boot_stack, Sampled') + 1 <= PrepareCost(boot_stack, next_boot)
          BY <1>1, <1>3, <2>3, <3>1, <5>2, PrepareEnds DEF TransitionHelps
        <5> QED BY <1>3, <3>1, <5>1, <5>3, CostBounds
      <4>2. CASE ~boot_success'
        <5>1. StackLeft' = Pop(boot_stack)
          BY <1>1, <2>3, <4>2 DEF StackLeft, TransitionFailed
        <5>2. Pop(boot_stack) \in Seq(Boot) /\ Len(Pop(boot_stack)) = Len(boot_stack) - 1
          BY <1>3, <3>1, PopTop
        <5>3. /\ StackCost(Pop(boot_stack), Sampled') \in Nat
              /\ StackCost(Pop(boot_stack), Sampled') <= 3 * Len(Pop(boot_stack))
          BY <5>2, CostBounds
        <5>4. /\ PrepareCost(boot_stack, next_boot) \in Nat
              /\ PrepareCost(boot_stack, next_boot) >= 3 * Len(boot_stack) - 1
          BY <1>3, <3>1, CostBounds
        <5> QED BY <1>3, <5>1, <5>2, <5>3, <5>4
      <4> QED BY <4>1, <4>2
    <3> QED BY <1>3, <3>1, <3>2
  <2> QED BY <2>1, <2>2, <2>3 DEF TypeOK
<1>5. Ran + Effort <= Allowed /\ Effort \in Nat /\ Ran \in Int /\ Allowed \in Nat
  BY <1>1, EffortType DEF EffortBounded, Ended
<1>6. Ran' + Effort' <= Allowed'
  <2>1. \A r, e, f, a \in Int : f + 1 <= e /\ r + e <= a => r + 1 + f <= a
    OBVIOUS
  <2>2. Effort \in Int /\ Allowed \in Int
    BY <1>5
  <2>3. Ran + 1 + Effort' <= Allowed
    BY <1>4, <1>5, <2>1, <2>2, Zenon
  <2> QED BY <1>2, <2>3, Zenon
<1> QED BY <1>1, <1>6 DEF EffortBounded, Ended, TransitionHelps

(* The steps that neither choose nor run a boot.                           *)
LEMMA BoundOther ==
  ASSUME BoundInv, IInv', (ix <= Tests(parms))',
         \/ StopCheckContinues \/ StopCheckStops \/ PostStack
         \/ Complete \/ Teardown \/ UNCHANGED vars
  PROVE  EffortBounded' /\ TransitionHelps'
<1> USE DEF BoundInv, IInv
<1>1. UNCHANGED <<drift, parms, ix, boot_stack, next_boot, state, machine,
                  transitional_boot_selected, boot_pass, boot_fail,
                  init_boot_pass, init_boot_fail>>
  BY DEF StopCheckContinues, StopCheckStops, PostStack, Complete, Teardown, vars,
         env, call, choice, totals, initial
<1>2. /\ Tests(parms') = Tests(parms) /\ Tests(parms) \in Nat /\ ix \in Nat
      /\ Sampled' = Sampled
  BY <1>1, TestsType DEF TypeOK, Sampled
<1>3. Effort' \in Nat /\ Effort \in Nat
  <2>1. (TypeOK /\ ChoiceJustified /\ ix <= Tests(parms) => Effort \in Nat)'
    BY EffortType, PTL
  <2> QED BY <2>1, EffortType
<1>4. CASE StopCheckContinues
  <2>1. /\ pc = "check" /\ pc' = "select" /\ phase' = phase
        /\ StackLeft' = StackLeft
    BY <1>1, <1>4 DEF StopCheckContinues, StackLeft, TransitionFailed
  <2>2. Effort' = Effort
    BY <1>2, <1>1, <2>1, EffortIs DEF EffortCases, TypeOK
  <2> QED BY <1>1, <1>3, <2>1, <2>2, BoundKeep DEF Ended, TransitionHelps
<1>5. CASE StopCheckStops \/ Complete
  BY <1>1, <1>5, BoundEnd DEF StopCheckStops, Complete, Ended, TransitionHelps
<1>6. CASE PostStack
  <2>1. /\ pc = "select" /\ phase = "stack" /\ boot_stack = << >> /\ phase' = "list"
        /\ pc' \in {"select", "teardown"}
    BY <1>6 DEF PostStack
  <2>2. CASE pc' = "teardown"
    BY <1>1, <2>1, <2>2, BoundEnd DEF Ended, TransitionHelps
  <2>3. CASE pc' = "select"
    <3>1. StackLeft = << >> /\ ix = 0
      BY <2>1, EmptyStackLeft DEF Counting, ListProgress
    <3>2. Effort = Tests(parms) + 0 /\ Effort' = Tests(parms) - 0 + 0
      BY <1>1, <1>2, <2>1, <2>3, <3>1, EffortIs DEF EffortCases, StackCost
    <3>3. Effort' <= Effort
      BY <1>2, <3>2
    <3> QED BY <1>1, <1>3, <2>1, <2>3, <3>3, BoundKeep DEF Ended, TransitionHelps
  <2> QED BY <2>1, <2>2, <2>3
<1>7. CASE Teardown
  <2>1. Ran' = Ran /\ Allowed' = Allowed /\ Ended /\ Ended' /\ pc' # "run"
    BY <1>1, <1>7 DEF Teardown, Ran, Allowed, Tests, Ended
  <2> QED BY <2>1 DEF EffortBounded, TransitionHelps
<1>8. CASE UNCHANGED vars
  <2>1. UNCHANGED <<pc, phase, boot_success>>
    BY <1>8 DEF vars
  <2>2. Ran' = Ran /\ Allowed' = Allowed /\ (Ended' <=> Ended)
    BY <1>1, <2>1 DEF Ran, Allowed, Tests, Ended
  <2>3. Effort' = Effort
    BY <1>1, <1>2, <2>1 DEF Effort, StackLeft, TransitionFailed
  <2> QED BY <1>1, <2>1, <2>2, <2>3 DEF EffortBounded, TransitionHelps, Top
<1> QED BY <1>4, <1>5, <1>6, <1>7, <1>8

(* A change of the machine nobody asked for is allowed for.                *)
LEMMA BoundDrift ==
  ASSUME BoundInv, Drift
  PROVE  EffortBounded' /\ TransitionHelps'
<1> USE DEF BoundInv, IInv
<1>1. /\ drift' = drift + 1 /\ drift \in Nat
      /\ UNCHANGED <<parms, pc, phase, ix, boot_stack, next_boot, boot_success,
                     transitional_boot_selected, boot_pass, boot_fail,
                     init_boot_pass, init_boot_fail>>
  BY DEF Drift, call, choice, totals, initial, TypeOK
<1>2. /\ Tests(parms) \in Nat /\ ix \in Nat /\ Ran \in Int /\ Effort \in Nat
      /\ Allowed \in Nat
  BY EffortType, TestsType DEF TypeOK
<1>3. Ran' = Ran /\ Tests(parms') = Tests(parms) /\ StackLeft' = StackLeft
      /\ (Ended' <=> Ended)
  BY <1>1 DEF Ran, Ended, StackLeft, TransitionFailed
<1>4. Allowed' = Allowed + 2
  <2>1. Len(parms.boot_stack) \in Nat
    BY LenProperties DEF TypeOK, ParmRec
  <2>2. Allowed' = 3 * Len(parms.boot_stack) + Tests(parms) + 2 * (drift + 1)
    BY <1>1, <1>3 DEF Allowed
  <2> QED BY <1>1, <1>2, <2>1, <2>2 DEF Allowed
<1>5. Effort' <= Effort + 2 /\ Effort' \in Int
  <2>1. CASE phase = "stack" /\ pc # "run"
    <3>1. /\ Effort = Tests(parms) + StackCost(StackLeft, Sampled)
          /\ Effort' = Tests(parms) + StackCost(StackLeft, Sampled')
      BY <1>1, <1>3, <2>1, EffortIs DEF EffortCases
    <3>2. /\ StackCost(StackLeft, Sampled') <= StackCost(StackLeft, Sampled) + 2
          /\ StackCost(StackLeft, Sampled') \in Nat
          /\ StackCost(StackLeft, Sampled) \in Nat
      BY StackLeftType, DriftCost, CostBounds
    <3> QED BY <1>2, <3>1, <3>2
  <2>2. CASE phase = "list" \/ pc = "run"
    <3>1. Effort' = Effort
      BY <1>1, <1>3, <2>2 DEF Effort
    <3> QED BY <1>2, <3>1
  <2> QED BY <2>1, <2>2 DEF TypeOK
<1>6. EffortBounded'
  <2>1. CASE Ended
    BY <1>2, <1>3, <1>4, <2>1 DEF EffortBounded
  <2>2. CASE ~Ended
    <3>1. \A r, e, f, a \in Int : f <= e + 2 /\ r + e <= a => r + f <= a + 2
      OBVIOUS
    <3>2. Effort \in Int /\ Allowed \in Int /\ Ran + Effort <= Allowed
      BY <1>2, <2>2 DEF EffortBounded
    <3>3. Ran + Effort' <= Allowed + 2
      BY <1>2, <1>5, <3>1, <3>2, Zenon
    <3> QED BY <1>3, <1>4, <2>2, <3>3, Zenon DEF EffortBounded
  <2> QED BY <2>1, <2>2
<1>7. TransitionHelps'
  BY <1>1 DEF TransitionHelps, Top
<1> QED BY <1>6, <1>7

(* A call runs a bounded number of boots whatever fails: three for each    *)
(* entry of the stack, those of the list, and two for each change of the   *)
(* machine nobody asked for.  For every table that settles.                *)
THEOREM EffortIsBounded == ASSUME TableSettles PROVE Spec => []BoundedEffort
<1>1. Init => EffortBounded /\ TransitionHelps
  <2> SUFFICES ASSUME Init PROVE EffortBounded /\ TransitionHelps
    OBVIOUS
  <2>1. Ran = 0 /\ Tests(parms) = 0 /\ Len(parms.boot_stack) = 0 /\ drift = 0
    BY ParmAssumption DEF Init, Ran, NoParms, Tests
  <2> QED BY <2>1 DEF Init, EffortBounded, TransitionHelps, Ended, Allowed
<1>2. /\ IInv /\ IInv' /\ ix <= Tests(parms) /\ (ix <= Tests(parms))'
      /\ EffortBounded /\ TransitionHelps /\ [Next]_vars
      => EffortBounded' /\ TransitionHelps'
  <2> SUFFICES ASSUME BoundInv, IInv', (ix <= Tests(parms))', [Next]_vars
               PROVE  EffortBounded' /\ TransitionHelps'
    BY DEF BoundInv
  <2>1. CASE Call
    <3>1. PICK p \in Parms : Setup(p) \/ SetupFails(p)
      BY <2>1 DEF Call
    <3>2. pc' # "run"
      BY <3>1 DEF Setup, SetupFails
    <3> QED BY <3>1, <3>2, BoundCall DEF TransitionHelps
  <2> QED BY <2>1, BoundSelect, BoundRun, BoundOther, BoundDrift DEF Next, Driver
<1>3. BoundInv => BoundedEffort
  <2> SUFFICES ASSUME BoundInv PROVE BoundedEffort
    OBVIOUS
  <2>1. Ran <= Allowed /\ Ran \in Int
    BY EffortType DEF BoundInv, IInv, EffortBounded
  <2>2. /\ Tests(parms) <= parms.max_num_tests /\ Tests(parms) \in Nat
        /\ parms.max_num_tests \in Nat /\ Len(parms.boot_stack) \in Nat
        /\ drift \in Nat
    BY LenProperties DEF BoundInv, IInv, TypeOK, ParmRec, Tests
  <2> QED BY <2>1, <2>2 DEF BoundedEffort, Allowed
<1>4. IInv /\ ix <= Tests(parms) /\ EffortBounded /\ TransitionHelps => BoundInv
  BY DEF BoundInv
<1> QED BY <1>1, <1>2, <1>3, <1>4, Inductive, ListBound, PTL DEF Spec
=============================================================================
