---------------------------- MODULE ValuesProofs ----------------------------
(***************************************************************************)
(* Proofs about what MCValues composes: Validation, for any values of any  *)
(* of the parameters; PlugVars, for any texts that are exported; Verdicts, *)
(* for any numbers, lists and dictionaries; BootTable, for any table and   *)
(* any list of names; KeyValues and Structures, for any key names, any     *)
(* number of lines and entries and any width.                              *)
(*                                                                         *)
(* The loops of KeyValues and Structures are folds.  What they return for  *)
(* any sequence is proved by counting: the function that defines a fold is *)
(* shown to exist for every length, and what holds of no element and of    *)
(* one element more holds of all, or there were a least length for which   *)
(* it does not.                                                            *)
(***************************************************************************)
EXTENDS MCValues, FiniteSetTheorems, SequenceTheorems, WellFoundedInduction, TLAPS

(* exit_on_error is set exactly from the start of the checks to their end, *)
(* and so after checks that were cut short.                                *)
Invalid(i) == Checks[i].parm \in Parm /\ Applies(Checks[i]) /\ ParmError(Checks[i])

(* A parameter that is not valid is still to be checked.                   *)
NothingIsDropped == at = "validate_parms" =>
  /\ checks \subseteq 1..Len(Checks)
  /\ \A i \in 1..Len(Checks) : Invalid(i) => i \in checks

LInv ==
  /\ exit_on_error \in BOOLEAN /\ cut_short \in BOOLEAN /\ exit_on_error = cut_short
  /\ at = "validate_parms" => cut_short
  /\ NothingIsDropped
  /\ ChecksAreComplete
  /\ ValidHostIsServed
  /\ RobotIsToldTheTruth

LEMMA NoneIsCommand == \A i \in 1..Len(Checks) : Checks[i].parm # "command"
BY DEF Checks, Check

LEMMA SameParms == ASSUME parm' = parm
                   PROVE  \A i : /\ Applies(Checks[i])' = Applies(Checks[i])
                                /\ ParmError(Checks[i])' = ParmError(Checks[i])
                                /\ Invalid(i)' = Invalid(i)
BY DEF Applies, ParmError, Invalid

(* What the answers are told by is left alone.                             *)
LEMMA ChecksStay ==
  ASSUME ChecksAreComplete, UNCHANGED <<parm, cut_short, returned, cause, asked, at>>
  PROVE  ChecksAreComplete'
BY SameParms DEF ChecksAreComplete, EndHasCause, ReturnsOnlyIfValid

LEMMA ValidationStarts == LInit => LInv
<1> SUFFICES ASSUME LInit PROVE LInv
  OBVIOUS
<1>1. exit_on_error \in BOOLEAN /\ cut_short \in BOOLEAN /\ exit_on_error = cut_short
  BY Zenon DEF LInit
<1>2. ChecksAreComplete
  BY DEF LInit, ChecksAreComplete, EndHasCause, ReturnsOnlyIfValid
<1> QED BY <1>1, <1>2 DEF LInit, LInv, ValidHostIsServed, RobotIsToldTheTruth, NothingIsDropped

LEMMA ValidationStays == LInv /\ [LNext]_lvars => LInv'
<1> SUFFICES ASSUME LInv, [LNext]_lvars PROVE LInv'
  OBVIOUS
<1> USE DEF LInv
<1>1. ASSUME NEW values \in [Parm -> Text], BeginValidate(values) PROVE LInv'
  <2>1. exit_on_error' = TRUE /\ cut_short' = TRUE /\ asked' = asked
    BY <1>1, Zenon DEF BeginValidate
  <2>2. /\ at' = "validate_parms"
        /\ checks' = {i \in 1..Len(Checks) : Checks[i].parm \in Parm \cup {"plug_ins"}}
    BY <1>1 DEF BeginValidate
  <2>3. NothingIsDropped'
    BY <2>2 DEF NothingIsDropped, Invalid
  <2>4. ChecksAreComplete'
    <3>1. returned' = FALSE
      BY <1>1, Zenon DEF BeginValidate
    <3> QED BY <2>1, <2>2, <3>1 DEF ChecksAreComplete, EndHasCause, ReturnsOnlyIfValid
  <2> QED BY <2>1, <2>3, <2>4 DEF ValidHostIsServed, RobotIsToldTheTruth
<1>2. CASE NextCheck
  <2>1. UNCHANGED <<exit_on_error, cut_short, returned, asked, parm>> /\ at = "validate_parms"
    BY <1>2 DEF NextCheck
  <2>2. exit_on_error = TRUE /\ cut_short = TRUE
    BY <2>1
  <2>3. process_error_message(TRUE, FALSE) = "exit"
    BY <2>2 DEF process_error_message
  <2> DEFINE bad(i) == Applies(Checks[i]) /\ ParmError(Checks[i])
  <2>4. PICK i \in checks : /\ checks' = checks \ {i}
                            /\ at' = IF bad(i) THEN "ended" ELSE at
                            /\ cause' = IF bad(i) THEN Checks[i].parm ELSE cause
    BY <1>2, <2>3 DEF NextCheck
  <2>5. i \in 1..Len(Checks)
    BY <2>1 DEF NothingIsDropped
  <2>6. NothingIsDropped'
    BY <2>1, <2>4, SameParms DEF NothingIsDropped, Invalid
  <2>7. ChecksAreComplete'
    <3>1. CASE bad(i)
      BY <2>1, <2>4, <2>5, <3>1, SameParms, NoneIsCommand
         DEF ChecksAreComplete, EndHasCause, ReturnsOnlyIfValid
    <3>2. CASE ~bad(i)
      <4>1. at' = at /\ cause' = cause
        BY <2>4, <3>2
      <4> QED BY <2>1, <4>1, ChecksStay
    <3> QED BY <3>1, <3>2
  <2>8. at' = "validate_parms" => cut_short'
    BY <2>1, <2>2
  <2> QED BY <2>1, <2>6, <2>7, <2>8 DEF ValidHostIsServed, RobotIsToldTheTruth
<1>3. CASE PlugInsAreInvalid
  <2>1. /\ UNCHANGED <<exit_on_error, cut_short, returned, asked, parm>>
        /\ at = "validate_parms" /\ at' = "idle"
    BY <1>3 DEF PlugInsAreInvalid
  <2>2. NothingIsDropped' /\ ChecksAreComplete'
    BY <2>1, SameParms DEF NothingIsDropped, ChecksAreComplete, EndHasCause, ReturnsOnlyIfValid
  <2> QED BY <2>1, <2>2 DEF ValidHostIsServed, RobotIsToldTheTruth
<1>4. CASE EndValidate
  <2>1. exit_on_error' = FALSE /\ cut_short' = FALSE /\ asked' = asked /\ at' = "idle"
    BY <1>4, Zenon DEF EndValidate
  <2>2. parm' = parm /\ at = "validate_parms" /\ checks = {}
    BY <1>4 DEF EndValidate
  <2>3. \A i \in 1..Len(Checks) : ~Invalid(i)
    BY <2>2 DEF NothingIsDropped
  <2>4. NothingIsDropped' /\ ChecksAreComplete'
    BY <2>1, <2>2, <2>3, SameParms
       DEF NothingIsDropped, ChecksAreComplete, EndHasCause, ReturnsOnlyIfValid, Invalid
  <2> QED BY <2>1, <2>4 DEF ValidHostIsServed, RobotIsToldTheTruth
<1>5. ASSUME NEW host \in Text, AskForCommand(host) PROVE LInv'
  <2> DEFINE error == ValueError(host, {}, {})
  <2>0. error \in BOOLEAN
    BY Zenon DEF ValueError
  <2>1. UNCHANGED <<exit_on_error, cut_short, returned, parm>> /\ at' # "validate_parms" /\ at = "idle"
    BY <1>5 DEF AskForCommand
  <2>2. asked' = [by |-> "command", error |-> error,
                  answer |-> IF process_error_message(error, FALSE) = "True" THEN "runs" ELSE "refuses",
                  cut |-> cut_short]
    BY <1>5, Zenon DEF AskForCommand
  <2> HIDE DEF error
  <2>3. asked'.by = "command" /\ asked'.error = error /\ asked'.cut = cut_short
    BY <2>2
  <2>4. asked'.answer = "runs" => ~error
    BY <2>0, <2>2 DEF process_error_message
  <2>5. asked'.answer = "refuses" => error \/ cut_short
    BY <2>0, <2>2 DEF process_error_message
  <2>6. /\ at' = IF process_error_message(error, FALSE) = "exit" THEN "ended" ELSE "idle"
        /\ cause' = IF process_error_message(error, FALSE) = "exit" THEN "command" ELSE cause
    BY <1>5, Zenon DEF AskForCommand, error
  <2>7. process_error_message(error, FALSE) = "exit" => error /\ cut_short
    BY <2>0 DEF process_error_message
  <2>8. NothingIsDropped' /\ ChecksAreComplete'
    BY <2>1, <2>3, <2>6, <2>7, SameParms
       DEF NothingIsDropped, ChecksAreComplete, EndHasCause, ReturnsOnlyIfValid
  <2> QED BY <2>1, <2>3, <2>4, <2>5, <2>8 DEF ValidHostIsServed, RobotIsToldTheTruth
<1>6. ASSUME NEW value \in Text, AskFromRobot(value) PROVE LInv'
  <2> DEFINE error == ValueError(value, {}, {})
  <2>0. error \in BOOLEAN
    BY Zenon DEF ValueError
  <2>1. UNCHANGED <<exit_on_error, cut_short, returned, at, parm, cause>> /\ at = "idle"
    BY <1>6 DEF AskFromRobot
  <2>2. asked' = [by |-> "robot", error |-> error,
                  answer |-> IF process_error_message(error, TRUE) = Blank THEN "passes" ELSE "fails",
                  cut |-> cut_short]
    BY <1>6, Zenon DEF AskFromRobot
  <2> HIDE DEF error
  <2>3. asked'.by = "robot" /\ asked'.error = error
    BY <2>2
  <2>4. asked'.answer = "fails" <=> error
    BY <2>0, <2>2, Zenon DEF process_error_message, Blank
  <2>5. NothingIsDropped' /\ ChecksAreComplete'
    BY <2>1, SameParms DEF NothingIsDropped, ChecksAreComplete, EndHasCause, ReturnsOnlyIfValid
  <2> QED BY <2>1, <2>3, <2>4, <2>5 DEF ValidHostIsServed, RobotIsToldTheTruth
<1>7. CASE UNCHANGED lvars
  <2>1. UNCHANGED <<exit_on_error, parm, checks, at, asked, cut_short, returned, cause>>
    BY <1>7 DEF lvars
  <2>2. NothingIsDropped' /\ ChecksAreComplete'
    BY <2>1, SameParms, ChecksStay DEF NothingIsDropped
  <2> QED BY <2>1, <2>2 DEF ValidHostIsServed, RobotIsToldTheTruth
<1>8. ASSUME NEW values \in [Parm -> Text], ParmsRaise(values) PROVE LInv'
  <2>1. /\ UNCHANGED <<exit_on_error, at, asked, cut_short, cause>>
        /\ at = "idle" /\ returned' = FALSE
    BY <1>8, Zenon DEF ParmsRaise
  <2>2. NothingIsDropped' /\ ChecksAreComplete'
    BY <2>1 DEF NothingIsDropped, ChecksAreComplete, EndHasCause, ReturnsOnlyIfValid
  <2> QED BY <2>1, <2>2 DEF ValidHostIsServed, RobotIsToldTheTruth
<1> QED BY <1>1, <1>2, <1>3, <1>4, <1>5, <1>6, <1>7, <1>8 DEF LNext

(* A command is refused only for an invalid host, or because an earlier    *)
(* validate_parms was cut short in its checks.                             *)
THEOREM ValidHostServed == LSpec => []ValidHostIsServed
<1>1. LInv => ValidHostIsServed
  BY DEF LInv
<1> QED BY <1>1, ValidationStarts, ValidationStays, PTL DEF LSpec

(* A validation whose message is assigned does not depend on exit_on_error.*)
THEOREM RobotToldTheTruth == LSpec => []RobotIsToldTheTruth
<1>1. LInv => RobotIsToldTheTruth
  BY DEF LInv
<1> QED BY <1>1, ValidationStarts, ValidationStays, PTL DEF LSpec

(* Both kinds of questions are answered by what the validation found.      *)
THEOREM AnswersTrue == LSpec => []AnswersAreTrue
<1>1. ValidHostIsServed /\ RobotIsToldTheTruth => AnswersAreTrue
  BY DEF AnswersAreTrue
<1> QED BY <1>1, ValidHostServed, RobotToldTheTruth, PTL

(* validate_parms ends the program for a parameter that is to blame, and   *)
(* returns only if none is.                                                *)
THEOREM ValidationIsComplete == LSpec => []ChecksAreComplete
<1>1. LInv => ChecksAreComplete
  BY DEF LInv
<1> QED BY <1>1, ValidationStarts, ValidationStays, PTL DEF LSpec
-----------------------------------------------------------------------------
(* Before a program gets its variables nothing has changed; then its       *)
(* variable is set, to what the user exported or to the first default.     *)
InPlace == IF of_user \in {"unset", NoText} THEN first ELSE of_user
WInv ==
  /\ env = [p \in Place |-> env[p]] /\ was \in Defaults
  /\ of_user \notin {"unset", NoText} => env["package"] = of_user
  /\ of_user \in {"unset", NoText} =>
       IF first = NoText THEN env["package"] \in {"unset", NoText} ELSE env["package"] = first
  /\ first # "unset"
  /\ ~gotten /\ ~failed => env = started /\ global = was
  /\ gotten => /\ ~failed /\ env["package"] = InPlace
               /\ InPlace = NoText => was = Typed("str", NoText)
               /\ global = Convert(was.type, InPlace)
  /\ OverrideIsHeard

LEMMA DefaultIs == ASSUME NEW d \in Defaults
                   PROVE  /\ d = Typed(d.type, d.text) /\ d.text # "unset"
                          /\ d.text = NoText => d = Typed("str", NoText)
                          /\ d.type = "bool" => d \in {Typed("bool", "True"), Typed("bool", "False")}
<1>1. "True" # NoText /\ "False" # NoText /\ "on" # NoText /\ "5" # NoText /\ NoText # "unset"
  BY Zenon DEF NoText
<1> QED BY <1>1 DEF Defaults, Typed

LEMMA ConvertIs == ASSUME NEW type, NEW text
                   PROVE  /\ Convert(type, text).type = type
                          /\ type # "bool" => Convert(type, text) = Typed(type, text)
                          /\ type = "bool" /\ text # NoText => Convert(type, text) = Typed("bool", "True")
BY DEF Convert, Typed

LEMMA VarsStart == WInit => WInv
<1> SUFFICES ASSUME WInit PROVE WInv
  OBVIOUS
<1>1. /\ ~gotten /\ heard = "not asked" /\ env = started /\ global = was /\ was \in Defaults
      /\ of_user = env["package"] /\ first = NoText
  BY DEF WInit
<1>2. env = [p \in Place |-> env[p]]
  BY DEF WInit
<1>3. NoText # "unset"
  BY DEF NoText
<1> QED BY <1>1, <1>2, <1>3 DEF WInv, OverrideIsHeard

LEMMA VarsStep == WInv /\ [WNext]_wvars => WInv'
<1> SUFFICES ASSUME WInv, [WNext]_wvars PROVE WInv'
  OBVIOUS
<1>1. ASSUME NEW d \in Defaults, ChildBegins(d) PROVE WInv'
  <2>1. /\ global' = d /\ was' = d /\ started' = env' /\ heard' = "not asked" /\ ~gotten'
        /\ env' = env /\ of_user' = of_user /\ first' = first
    BY <1>1 DEF ChildBegins, Begin
  <2> QED BY <2>1 DEF WInv, OverrideIsHeard
<1>2. ASSUME NEW d \in Defaults, NEW exported \in [Place -> Export \cup {"unset"}], UserBegins(exported, d)
      PROVE  WInv'
  <2>1. /\ global' = d /\ was' = d /\ started' = env' /\ heard' = "not asked" /\ ~gotten'
        /\ env' = exported /\ of_user' = exported["package"] /\ first' = NoText
    BY <1>2 DEF UserBegins, Begin
  <2>2. exported = [p \in Place |-> exported[p]]
    BY <1>2
  <2>3. NoText # "unset"
    BY DEF NoText
  <2> QED BY <2>1, <2>2, <2>3 DEF WInv, OverrideIsHeard
<1>3. CASE get_plug_vars
  <2>0. /\ ~failed /\ was' = was /\ started' = started /\ heard' = "not asked"
        /\ env' = [env EXCEPT !["package"] = InEnv(global)]
        /\ failed' = (global.type = "int" /\ env'["package"] \notin IsInt)
        /\ global' = IF failed' THEN global ELSE Convert(global.type, env'["package"])
        /\ gotten' = ~failed' /\ of_user' = of_user
        /\ first' = IF first = NoText THEN was.text ELSE first
    BY <1>3, Zenon DEF get_plug_vars
  <2>1. env = [p \in Place |-> env[p]] /\ "package" \in Place /\ was \in Defaults
    BY DEF WInv, Place
  <2>2. env' = [p \in Place |-> env'[p]] /\ env'["package"] = InEnv(global)
    BY <2>0, <2>1
  <2>3. was.text # "unset" /\ (was.text = NoText => was = Typed("str", NoText))
    BY <2>1, DefaultIs
  <2>4. global.type = was.type /\ InEnv(global) = InPlace'
    <3>1. CASE gotten
      <4>1. /\ env["package"] = InPlace /\ global = Convert(was.type, InPlace)
            /\ InPlace = NoText => was = Typed("str", NoText)
        BY <3>1 DEF WInv
      <4>2. InPlace' = InPlace
        <5>1. CASE InPlace = NoText
          <6>1. was.text = NoText
            BY <4>1, <5>1 DEF Typed
          <6> QED BY <2>0, <6>1, <5>1 DEF InPlace
        <5>2. CASE InPlace # NoText
          BY <2>0, <5>2 DEF InPlace
        <5> QED BY <5>1, <5>2
      <4>3. InPlace # "unset"
        BY DEF InPlace, WInv
      <4>4. InPlace = NoText => global.text = NoText
        BY <4>1, ConvertIs DEF Typed
      <4> QED BY <4>1, <4>2, <4>3, <4>4, ConvertIs DEF InEnv
    <3>2. CASE ~gotten
      <4>1. global = was
        BY <2>0, <3>2 DEF WInv
      <4>2. CASE of_user \notin {"unset", NoText}
        BY <2>0, <4>1, <4>2 DEF InEnv, InPlace, WInv
      <4>3. CASE of_user \in {"unset", NoText} /\ first = NoText
        BY <2>0, <4>1, <4>3 DEF InEnv, InPlace, WInv
      <4>4. CASE of_user \in {"unset", NoText} /\ first # NoText
        BY <2>0, <4>1, <4>4 DEF InEnv, InPlace, WInv
      <4> QED BY <4>1, <4>2, <4>3, <4>4
    <3> QED BY <3>1, <3>2
  <2>5. InPlace' = NoText => was = Typed("str", NoText)
    BY <2>0, <2>3 DEF InPlace
  <2>6. gotten' => ~failed' /\ env'["package"] = InPlace' /\ global' = Convert(was.type, InPlace')
    BY <2>0, <2>2, <2>4
  <2>7. gotten' \/ failed'
    BY <2>0, Zenon
  <2>8. first' # "unset" /\ env'["package"] = InPlace'
    BY <2>0, <2>2, <2>3, <2>4 DEF WInv
  <2>9. /\ of_user' \notin {"unset", NoText} => env'["package"] = of_user'
        /\ of_user' \in {"unset", NoText} =>
             IF first' = NoText THEN env'["package"] \in {"unset", NoText} ELSE env'["package"] = first'
    BY <2>8 DEF InPlace
  <2> QED BY <2>0, <2>1, <2>2, <2>5, <2>6, <2>7, <2>8, <2>9 DEF WInv, OverrideIsHeard
<1>4. CASE get_plug_default
  <2>1. ~failed /\ heard' = FirstSet /\ UNCHANGED <<env, global, gotten, failed, was, started, of_user, first>>
    BY <1>4 DEF get_plug_default
  <2>2. OverrideIsHeard'
    <3>1. env["package"] # "unset" => gotten \/ started["package"] # "unset"
      BY <2>1 DEF WInv
    <3> QED BY <2>1, <3>1 DEF OverrideIsHeard, FirstSet
  <2> QED BY <2>1, <2>2 DEF WInv, InPlace
<1>5. CASE UNCHANGED wvars
  BY <1>5 DEF wvars, WInv, InPlace, OverrideIsHeard
<1> QED BY <1>1, <1>2, <1>3, <1>4, <1>5 DEF WNext

LEMMA HeardInPlace == WInv => VariablesAreHeard
<1> SUFFICES ASSUME WInv, gotten PROVE ValueIsTold
  BY DEF WInv, VariablesAreHeard, ValueIsTold
<1>1. /\ was \in Defaults /\ global = Convert(was.type, InPlace)
      /\ InPlace = NoText => was = Typed("str", NoText)
  BY DEF WInv
<1>2. global.type = was.type
  BY <1>1, ConvertIs
<1>3. was.type # "bool" => global.text = InPlace
  BY <1>1, ConvertIs DEF Typed
<1>4. was.type = "bool" => global.text = "True"
  <2>1. was.type = "bool" => InPlace # NoText
    BY <1>1 DEF Typed
  <2> QED BY <1>1, <2>1, ConvertIs DEF Typed
<1> QED BY <1>2, <1>3, <1>4 DEF ValueIsTold, InPlace

(* What the user has exported for the package is told, else the first      *)
(* default of the programs that call each other, in the type of the own    *)
(* default; a bool is told as True whatever it is.  An override is heard   *)
(* unless the variable of the package was set before.                      *)
THEOREM VariablesHeard == WSpec => []VariablesAreHeard
BY HeardInPlace, VarsStart, VarsStep, PTL DEF WSpec

-----------------------------------------------------------------------------
(* Verdicts.  Numbers: only a number, a text of one, a word, a blank or    *)
(* None is given.                                                          *)
LEMMA OperandIs ==
  ASSUME NEW b \in Operand
  PROVE  /\ b.half \in Int
         /\ b.form \in {"number", "text", "word", "", "None"}
         /\ b = NoNumber <=> b.form = "None"
<1>1. CASE b \in [form : {"number", "text"}, half : Half]
  <2>1. b.form \in {"number", "text"} /\ b.half \in Half
    BY <1>1
  <2>2. NoNumber.form = "None"
    BY DEF NoNumber
  <2>3. b # NoNumber
    BY <2>1, <2>2
  <2>4. b.half \in Int
    BY <2>1, HalfAssumption
  <2> QED BY <2>1, <2>3, <2>4
<1>2. CASE b = NoNumber
  BY <1>2 DEF NoNumber
<1>3. CASE b = [form |-> "word", half |-> 0]
  BY <1>3 DEF NoNumber
<1>4. CASE b = [form |-> "", half |-> 0]
  <2>1. b.form = "" /\ b.half = 0
    BY <1>4
  <2>2. NoNumber.form = "None" /\ "" # "None"
    BY DEF NoNumber
  <2>3. b # NoNumber /\ b.form # "None"
    BY <2>1, <2>2
  <2>4. b.half \in Int
    <3>1. 0 \in Int
      OBVIOUS
    <3> QED BY <2>1, <3>1, Zenon
  <2>5. b.form \in {"number", "text", "word", "", "None"}
    BY <2>1
  <2> QED BY <2>3, <2>4, <2>5
<1> QED BY <1>1, <1>2, <1>3, <1>4 DEF Operand

(* n is no less than the lower bound and no more than the upper one.       *)
Within(n, lower, upper) ==
  (lower # NoNumber => ~(n < lower.half)) /\ (upper # NoNumber => ~(n > upper.half))

LEMMA RangeHolds ==
  ASSUME NEW n \in Int, NEW lower \in Operand, NEW upper \in Operand
  PROVE  valid_range(n, lower, upper) <=> Within(n, lower, upper)
<1>1. lower.half \in Int /\ upper.half \in Int
  BY OperandIs
<1>2. n <= upper.half <=> ~(n > upper.half)
  BY <1>1
<1>3. lower.half <= n <=> ~(n < lower.half)
  BY <1>1
<1>4. n >= lower.half <=> ~(n < lower.half)
  BY <1>1
<1> QED BY <1>2, <1>3, <1>4, Zenon DEF valid_range, Within

LEMMA NumbersAreMeant ==
  ASSUME NEW kind \in {"integer", "float"}, NEW v \in Operand, NEW lower \in Operand,
         NEW upper \in Operand, JudgeNumber(kind, v, lower, upper)
  PROVE  RangeIsMeant'
<1>1. /\ call'.f = "number" /\ call'.kind = kind /\ call'.v = v /\ call'.lower = lower /\ call'.upper = upper
      /\ verdict' = valid_number(kind, v, lower, upper)
  BY DEF JudgeNumber
<1>2. v.half \in Int /\ lower.half \in Int /\ upper.half \in Int
  BY OperandIs
<1>3. CASE ~Reads(kind, v)
  <2>1. verdict' = "invalid"
    BY <1>1, <1>3 DEF valid_number
  <2>2. v.form \notin {"number", "text"} \/ (kind = "integer" /\ v.half % 2 # 0)
    BY <1>3 DEF Reads
  <2> QED BY <1>1, <2>1, <2>2 DEF RangeIsMeant
<1>4. CASE Reads(kind, v) /\ \E b \in {lower, upper} : b.form = "" \/ (Truthy(b) /\ ~Reads(kind, b))
  <2>1. verdict' = "raises"
    BY <1>1, <1>4 DEF valid_number
  <2>2. PICK b \in {lower, upper} : b.form = "" \/ (Truthy(b) /\ ~Reads(kind, b))
    BY <1>4
  <2>3. b.form \in {"word", ""} \/ b.half % 2 # 0
    BY <2>2, OperandIs DEF Truthy, Reads
  <2> QED BY <1>1, <2>1, <2>2, <2>3 DEF RangeIsMeant
<1>5. CASE Reads(kind, v) /\ ~\E b \in {lower, upper} : b.form = "" \/ (Truthy(b) /\ ~Reads(kind, b))
  <2>1. verdict' = IF valid_range(v.half, lower, upper) THEN "valid" ELSE "invalid"
    BY <1>1, <1>5 DEF valid_number
  <2>2. /\ lower.form \in {"number", "text"} => lower # NoNumber
        /\ upper.form \in {"number", "text"} => upper # NoNumber
    BY OperandIs
  <2>3. valid_range(v.half, lower, upper) <=> Within(v.half, lower, upper)
    BY <1>2, RangeHolds
  <2>4. CASE Within(v.half, lower, upper)
    <3>1. verdict' = "valid"
      BY <2>1, <2>3, <2>4
    <3>2. /\ lower.form \in {"number", "text"} => lower.half <= v.half
          /\ upper.form \in {"number", "text"} => v.half <= upper.half
      BY <1>2, <2>2, <2>4 DEF Within
    <3> QED BY <1>1, <3>1, <3>2 DEF RangeIsMeant
  <2>5. CASE ~Within(v.half, lower, upper)
    <3>1. verdict' = "invalid"
      BY <2>1, <2>3, <2>5
    <3>2. \/ lower # NoNumber /\ v.half < lower.half
          \/ upper # NoNumber /\ v.half > upper.half
      BY <2>5 DEF Within
    <3> QED BY <1>1, <3>1, <3>2 DEF RangeIsMeant
  <2> QED BY <2>4, <2>5
<1> QED BY <1>3, <1>4, <1>5

LEMMA LengthsAreMeant ==
  ASSUME NEW v \in Lists, NEW lower \in Bound, NEW upper \in Bound, JudgeLength(v, lower, upper)
  PROVE  RangeIsMeant'
<1>1. /\ call'.f = "length" /\ call'.v = v /\ call'.lower = lower /\ call'.upper = upper
      /\ verdict' = Say(valid_range(2 * Len(v), lower, upper))
  BY DEF JudgeLength, valid_length
<1>2. lower \in Operand /\ upper \in Operand
  BY DEF Bound
<1>3. 2 * Len(v) \in Int
  <2>1. PICK m \in 0..2 : v \in [1..m -> Item]
    BY DEF Lists, SeqOf
  <2>2. Len(v) = m
    BY <2>1
  <2> QED BY <2>1, <2>2
<1>4. /\ lower.form \in {"number", "text"} => lower # NoNumber
      /\ upper.form \in {"number", "text"} => upper # NoNumber
  BY <1>2, OperandIs
<1>5. ASSUME verdict' = "valid"
      PROVE  /\ lower.form \in {"number", "text"} => lower.half <= 2 * Len(v)
             /\ upper.form \in {"number", "text"} => 2 * Len(v) <= upper.half
  <2>1. valid_range(2 * Len(v), lower, upper)
    BY <1>1, <1>5 DEF Say
  <2>2. Within(2 * Len(v), lower, upper)
    BY <1>2, <1>3, <2>1, RangeHolds
  <2>3. lower.half \in Int /\ upper.half \in Int
    BY <1>2, OperandIs
  <2> QED BY <1>3, <1>4, <2>2, <2>3 DEF Within
<1>6. verdict' \in {"valid", "invalid"}
  BY <1>1 DEF Say
<1> QED BY <1>1, <1>5, <1>6 DEF RangeIsMeant

-----------------------------------------------------------------------------
(* Lists: how many of three are given.                                     *)
N(p) == IF p THEN 1 ELSE 0

LEMMA OneMore == ASSUME NEW S, IsFiniteSet(S), NEW x, x \notin S, NEW b \in BOOLEAN
                 PROVE  LET T == IF b THEN S \cup {x} ELSE S
                        IN  IsFiniteSet(T) /\ Cardinality(T) = Cardinality(S) + N(b)
<1>1. Cardinality(S) \in Nat
  BY FS_CardinalityType
<1>2. CASE b
  BY <1>2, FS_AddElement DEF N
<1>3. CASE ~b
  BY <1>1, <1>3 DEF N
<1> QED BY <1>2, <1>3

LEMMA HowManyGiven ==
  ASSUME NEW a, NEW b, NEW c
  PROVE  LET n == Cardinality({i \in 1..3 : <<a, b, c>>[i] # <<>>})
         IN  /\ n \in {0, 2} <=> ~Odd(Given(a), Given(b), Given(c))
             /\ n \in 0..3
<1> DEFINE T1 == IF Given(a) THEN {1} ELSE {}
           T2 == IF Given(b) THEN T1 \cup {2} ELSE T1
           T3 == IF Given(c) THEN T2 \cup {3} ELSE T2
<1>0. Given(a) \in BOOLEAN /\ Given(b) \in BOOLEAN /\ Given(c) \in BOOLEAN
  BY DEF Given
<1>1. IsFiniteSet(T1) /\ Cardinality(T1) = N(Given(a)) /\ 2 \notin T1 /\ 3 \notin T1
  <2>1. CASE Given(a)
    <3>1. IsFiniteSet({1}) /\ Cardinality({1}) = 1
      BY FS_Singleton
    <3> QED BY <2>1, <3>1 DEF N
  <2>2. CASE ~Given(a)
    BY <2>2, FS_EmptySet DEF N
  <2> QED BY <2>1, <2>2
<1> HIDE DEF T1
<1>2. IsFiniteSet(T2) /\ Cardinality(T2) = Cardinality(T1) + N(Given(b)) /\ 3 \notin T2
  <2>1. 3 \notin T2
    BY <1>1
  <2> QED BY <1>0, <1>1, <2>1, OneMore
<1> HIDE DEF T2
<1>3. Cardinality(T3) = Cardinality(T2) + N(Given(c))
  BY <1>0, <1>2, OneMore
<1>4. {i \in 1..3 : <<a, b, c>>[i] # <<>>} = T3
  BY DEF T1, T2, T3, Given
<1> HIDE DEF T3
<1>5. Cardinality(T3) = N(Given(a)) + N(Given(b)) + N(Given(c))
  BY <1>1, <1>2, <1>3
<1> DEFINE n == Cardinality({i \in 1..3 : <<a, b, c>>[i] # <<>>})
<1>6. n = N(Given(a)) + N(Given(b)) + N(Given(c))
  BY <1>4, <1>5
<1> HIDE DEF n
<1> DEFINE k(p) == N(Given(p))
<1>9. ASSUME NEW p PROVE (Given(p) => k(p) = 1) /\ (~Given(p) => k(p) = 0)
  BY DEF N
<1>10. n = k(a) + k(b) + k(c)
  BY <1>6
<1> HIDE DEF k
<1>7. n \in 0..3
  BY <1>9, <1>10
<1>8. n \in {0, 2} <=> ~Odd(Given(a), Given(b), Given(c))
  <2>1. CASE Given(a) /\ Given(b)
    <3>1. Odd(Given(a), Given(b), Given(c)) <=> Given(c)
      BY <2>1, <1>0, Zenon DEF Odd
    <3>2. n \in {0, 2} <=> ~Given(c)
      BY <2>1, <1>9, <1>10
    <3> QED BY <3>1, <3>2, Zenon
  <2>2. CASE Given(a) /\ ~Given(b)
    <3>1. Odd(Given(a), Given(b), Given(c)) <=> ~Given(c)
      BY <2>2, <1>0, Zenon DEF Odd
    <3>2. n \in {0, 2} <=> ~~Given(c)
      BY <2>2, <1>9, <1>10
    <3> QED BY <3>1, <3>2, Zenon
  <2>3. CASE ~Given(a) /\ Given(b)
    <3>1. Odd(Given(a), Given(b), Given(c)) <=> ~Given(c)
      BY <2>3, <1>0, Zenon DEF Odd
    <3>2. n \in {0, 2} <=> ~~Given(c)
      BY <2>3, <1>9, <1>10
    <3> QED BY <3>1, <3>2, Zenon
  <2>4. CASE ~Given(a) /\ ~Given(b)
    <3>1. Odd(Given(a), Given(b), Given(c)) <=> Given(c)
      BY <2>4, <1>0, Zenon DEF Odd
    <3>2. n \in {0, 2} <=> ~Given(c)
      BY <2>4, <1>9, <1>10
    <3> QED BY <3>1, <3>2, Zenon
  <2> QED BY <2>1, <2>2, <2>3, <2>4
<1> QED BY <1>7, <1>8 DEF n

Elements(l) == {l[i] : i \in 1..Len(l)}

(* ListIsMeant of a call and its verdict.                                  *)
ListMeant(c, said) ==
  LET given_lists == Cardinality({i \in 1..3 : <<c.yes, c.no, c.required>>[i] # <<>>})
  IN  c.f = "list" /\ given_lists # 3 =>
        (said = "valid" <=>
           /\ given_lists = 1 /\ (c.fail => c.v # <<>>)
           /\ IF c.required # <<>> THEN Elements(c.required) \subseteq Elements(c.v)
              ELSE IF c.no # <<>> THEN Elements(c.no) \cap Elements(c.v) = {}
              ELSE Elements(c.v) \subseteq Elements(c.yes))

LEMMA ListMeantIs == /\ ListIsMeant <=> ListMeant(call, verdict)
                     /\ ListIsMeant' <=> ListMeant(call', verdict')
<1>1. ListIsMeant <=> ListMeant(call, verdict)
  BY Zenon DEF ListIsMeant, ListsGiven, ListMeant, Elements
<1>2. ListIsMeant' <=> ListMeant(call', verdict')
  BY Zenon DEF ListIsMeant, ListsGiven, ListMeant, Elements
<1> QED BY <1>1, <1>2

LEMMA SaidValid == ASSUME NEW b \in BOOLEAN PROVE Say(b) = "valid" <=> b
BY DEF Say

LEMMA ListsAreMeant ==
  ASSUME NEW v, NEW yes, NEW no, NEW required, NEW fail \in BOOLEAN,
         JudgeList(v, yes, no, required, fail)
  PROVE  ListIsMeant'
<1> DEFINE n == Cardinality({i \in 1..3 : <<yes, no, required>>[i] # <<>>})
           full == fail => v # <<>>
           judged == valid_list(v, yes, no, required, fail)
           fits == IF required # <<>> THEN Elements(required) \subseteq Elements(v)
                   ELSE IF no # <<>> THEN Elements(no) \cap Elements(v) = {} ELSE Elements(v) \subseteq Elements(yes)
<1>1. /\ call' = [f |-> "list", v |-> v, yes |-> yes, no |-> no, required |-> required, fail |-> fail]
      /\ verdict' = Say(judged)
  BY DEF JudgeList
<1>2. /\ n \in {0, 2} <=> ~Odd(Given(yes), Given(no), Given(required))
      /\ n \in 0..3
  BY HowManyGiven
<1> HIDE DEF n
<1>3. /\ AllIn(required, v) <=> Elements(required) \subseteq Elements(v)
      /\ AllIn(v, yes) <=> Elements(v) \subseteq Elements(yes)
      /\ NoneIn(v, no) <=> Elements(no) \cap Elements(v) = {}
  BY DEF AllIn, NoneIn, Elements
<1>4. /\ yes # <<>> <=> Given(yes)
      /\ no # <<>> <=> Given(no)
      /\ required # <<>> <=> Given(required)
  BY DEF Given
<1>5. judged \in BOOLEAN
  BY DEF valid_list
<1>6. judged <=> n \notin {0, 2} /\ full /\ fits
  <2>1. CASE ~Odd(Given(yes), Given(no), Given(required))
    <3>1. ~judged
      BY <2>1 DEF valid_list
    <3> QED BY <3>1, <1>2, <2>1
  <2>2. CASE Odd(Given(yes), Given(no), Given(required))
    <3>1. n \notin {0, 2}
      BY <1>2, <2>2
    <3>2. CASE Given(required)
      <4>1. judged <=> full /\ AllIn(required, v)
        BY <2>2, <3>2 DEF valid_list
      <4> QED BY <4>1, <3>1, <3>2, <1>3, <1>4
    <3>3. CASE ~Given(required) /\ Given(no)
      <4>1. judged <=> full /\ NoneIn(v, no)
        BY <2>2, <3>3 DEF valid_list
      <4> QED BY <4>1, <3>1, <3>3, <1>3, <1>4
    <3>4. CASE ~Given(required) /\ ~Given(no)
      <4>1. judged <=> full /\ AllIn(v, yes)
        BY <2>2, <3>4 DEF valid_list
      <4> QED BY <4>1, <3>1, <3>4, <1>3, <1>4
    <3> QED BY <3>2, <3>3, <3>4
  <2> QED BY <2>1, <2>2
<1> HIDE DEF judged
<1>7. verdict' = "valid" <=> n \notin {0, 2} /\ full /\ fits
  BY <1>1, <1>5, <1>6, SaidValid
<1>8. /\ call'.v = v /\ call'.yes = yes /\ call'.no = no /\ call'.required = required /\ call'.fail = fail
  BY <1>1
<1>9. n # 3 => (n \notin {0, 2} <=> n = 1)
  BY <1>2
<1>10. ListMeant(call', verdict')
  BY <1>7, <1>8, <1>9 DEF ListMeant, n
<1> QED BY <1>10, ListMeantIs

(* Dictionaries.                                                           *)
LEMMA DictsAreMeant ==
  ASSUME NEW v, NEW keys, NEW yes, NEW no, JudgeDict(v, keys, yes, no)
  PROVE  DictIsMeant'
<1>1. /\ call' = [f |-> "dict", v |-> v, keys |-> keys, yes |-> yes, no |-> no]
      /\ verdict' = Say(valid_dict(v, keys, yes, no))
  BY DEF JudgeDict
<1>2. valid_dict(v, keys, yes, no) \in BOOLEAN
  BY DEF valid_dict
<1> SUFFICES ASSUME valid_dict(v, keys, yes, no)
             PROVE  /\ keys \subseteq DOMAIN v
                    /\ \A k \in DOMAIN yes : k \in DOMAIN v
                         /\ (yes[k] # {} => v[k] \in yes[k]) /\ (yes[k] = {} => v[k] # "")
                    /\ \A k \in DOMAIN v \cap DOMAIN no : v[k] \notin no[k]
  BY <1>1, <1>2, SaidValid DEF DictIsMeant
<1>3. keys \subseteq DOMAIN v /\ DOMAIN yes \subseteq DOMAIN v
  BY DEF valid_dict
<1>4. ASSUME NEW k \in DOMAIN yes
      PROVE  (yes[k] # {} => v[k] \in yes[k]) /\ (yes[k] = {} => v[k] # "")
  <2>1. valid_entry(v[k], yes[k], {})
    BY DEF valid_dict
  <2> QED BY <2>1 DEF valid_entry
<1>5. ASSUME NEW k \in DOMAIN v \cap DOMAIN no
      PROVE  v[k] \notin no[k]
  <2>1. valid_entry(v[k], {}, no[k])
    BY DEF valid_dict
  <2> QED BY <2>1 DEF valid_entry
<1> QED BY <1>3, <1>4, <1>5

VerdictsMean == RangeIsMeant /\ ListIsMeant /\ DictIsMeant

LEMMA VerdictsStart == YInit => VerdictsMean
BY DEF YInit, VerdictsMean, RangeIsMeant, ListIsMeant, DictIsMeant

LEMMA VerdictsStay == VerdictsMean /\ [YNext]_yvars => VerdictsMean'
<1> SUFFICES ASSUME VerdictsMean, [YNext]_yvars PROVE VerdictsMean'
  OBVIOUS
<1>1. ASSUME NEW kind \in {"integer", "float"}, NEW v \in Operand, NEW lower \in Operand,
             NEW upper \in Operand, JudgeNumber(kind, v, lower, upper)
      PROVE  VerdictsMean'
  <2>1. call'.f = "number"
    BY <1>1 DEF JudgeNumber
  <2>2. RangeIsMeant'
    BY <1>1, NumbersAreMeant
  <2> QED BY <2>1, <2>2 DEF VerdictsMean, ListIsMeant, DictIsMeant
<1>2. ASSUME NEW v \in Lists, NEW yes \in Few, NEW no \in Few, NEW required \in Few,
             NEW fail \in BOOLEAN, JudgeList(v, yes, no, required, fail)
      PROVE  VerdictsMean'
  <2>1. call'.f = "list"
    BY <1>2 DEF JudgeList
  <2>2. ListIsMeant'
    BY <1>2, ListsAreMeant
  <2> QED BY <2>1, <2>2 DEF VerdictsMean, RangeIsMeant, DictIsMeant
<1>3. ASSUME NEW v \in Dicts(Item), NEW keys \in SUBSET Key, NEW yes \in Dicts(SUBSET Item),
             NEW no \in Dicts(SUBSET Item), JudgeDict(v, keys, yes, no)
      PROVE  VerdictsMean'
  <2>1. call'.f = "dict"
    BY <1>3 DEF JudgeDict
  <2>2. DictIsMeant'
    BY <1>3, DictsAreMeant
  <2> QED BY <2>1, <2>2 DEF VerdictsMean, RangeIsMeant, ListIsMeant
<1>4. ASSUME NEW v \in Lists, NEW lower \in Bound, NEW upper \in Bound, JudgeLength(v, lower, upper)
      PROVE  VerdictsMean'
  <2>1. call'.f = "length"
    BY <1>4 DEF JudgeLength
  <2>2. RangeIsMeant'
    BY <1>4, LengthsAreMeant
  <2> QED BY <2>1, <2>2 DEF VerdictsMean, ListIsMeant, DictIsMeant
<1>5. CASE UNCHANGED yvars
  <2>1. call' = call /\ verdict' = verdict
    BY <1>5 DEF yvars
  <2>2. RangeIsMeant'
    BY <2>1 DEF VerdictsMean, RangeIsMeant
  <2>3. ListIsMeant'
    BY <2>1, ListMeantIs DEF VerdictsMean
  <2>4. DictIsMeant'
    BY <2>1 DEF VerdictsMean, DictIsMeant
  <2> QED BY <2>2, <2>3, <2>4 DEF VerdictsMean
<1> QED BY <1>1, <1>2, <1>3, <1>4, <1>5 DEF YNext

(* What is found to be a valid number, length or dictionary lies in the    *)
(* bounds that were given, has what it must have and nothing that it must  *)
(* not; a list is valid exactly if it fits the one list it is judged by.   *)
(* Of a call that gives all three lists nothing is said.                   *)
THEOREM VerdictsAreMeant == YSpec => []VerdictsMean
BY VerdictsStart, VerdictsStay, PTL DEF YSpec

-----------------------------------------------------------------------------
(* The boot table is that of the file, for the host, once there is one, and *)
(* a list of boots goes on only after it was found valid.                  *)
TInv ==
  /\ boot_table = <<>> \/ boot_table = create_boot_table(file, os_host)
  /\ phase # "begun" => boot_table = create_boot_table(file, os_host)
  /\ phase \in {"accepted", "found", "KeyError"} => valid_boot_list(boot_list)
  /\ phase = "failed" => ~valid_boot_list(boot_list)
  /\ phase = "found" => \A i \in DOMAIN boot_list : boot_list[i] \in DOMAIN boot_table
  /\ phase = "KeyError" => \E i \in DOMAIN boot_list : boot_list[i] \notin DOMAIN boot_table
  /\ boot_list = <<>> \/ boot_list \in SeqOf(BootName, MaxNames)

LEMMA TableStarts == TInit => TInv
BY DEF TInit, TInv

LEMMA TableSteps == TInv /\ [TNext]_tvars => TInv'
<1> SUFFICES ASSUME TInv, [TNext]_tvars PROVE TInv'
  OBVIOUS
<1>1. CASE CreateTable
  BY <1>1 DEF TInv, CreateTable
<1>2. CASE LookUp
  BY <1>2 DEF TInv, LookUp, valid_boot_list
<1>3. ASSUME phase = "table", NEW names \in SeqOf(BootName, MaxNames), ValidateList(names) PROVE TInv'
  BY <1>3 DEF TInv, ValidateList, valid_boot_list
<1>4. CASE UNCHANGED tvars
  BY <1>4 DEF TInv, tvars, valid_boot_list
<1> QED BY <1>1, <1>2, <1>3, <1>4 DEF TNext

LEMMA TableIs == DOMAIN create_boot_table(file, os_host) = [boot : Boot, mfg : BOOLEAN, blanks : {FALSE}]
BY DEF create_boot_table

LEMMA TableFits == TInv => RequirementsFitHost
<1>1. ASSUME TInv, boot_table # <<>>, NEW name \in DOMAIN boot_table
      PROVE  LET now == boot_table[name]
                 read == file[name.boot]
             IN  /\ now.start \ OsState = read.start \ OsState /\ now.end \ OsState = read.end \ OsState
                 /\ IF os_host = "" THEN (now.start \cup now.end) \cap OsState = {} ELSE now = read
  <2>1. name \in [boot : Boot, mfg : BOOLEAN, blanks : {FALSE}]
    BY <1>1, TableIs DEF TInv
  <2>2. boot_table[name] = IF os_host = "" THEN WithoutOs(file[name.boot]) ELSE file[name.boot]
    BY <1>1, <2>1 DEF TInv, create_boot_table
  <2>3. CASE os_host = ""
    <3>1. /\ boot_table[name].start = file[name.boot].start \ OsState
          /\ boot_table[name].end = file[name.boot].end \ OsState
      <4>1. boot_table[name] = WithoutOs(file[name.boot])
        BY <2>2, <2>3
      <4> QED BY <4>1 DEF WithoutOs
    <3> QED BY <3>1, <2>3
  <2>4. CASE os_host # ""
    BY <2>2, <2>4
  <2> QED BY <2>3, <2>4
<1> QED BY <1>1 DEF RequirementsFitHost

(* Without a host nothing is asked of its system; with one the table is    *)
(* that of the file.                                                       *)
THEOREM TableFitsHost == TSpec => []RequirementsFitHost
BY TableFits, TableStarts, TableSteps, PTL DEF TSpec

LEMMA NamesAre ==
  ASSUME TInv, boot_table = create_boot_table(file, os_host), NEW i \in DOMAIN boot_list
  PROVE  /\ strip(boot_list[i]) \in DOMAIN boot_table <=> boot_list[i].boot \in Boot
         /\ boot_list[i] \in DOMAIN boot_table =>
              boot_list[i].boot \in Boot /\ ~boot_list[i].blanks
         /\ boot_list[i] \notin DOMAIN boot_table =>
              boot_list[i].boot \notin Boot \/ boot_list[i].blanks
<1> DEFINE b == boot_list[i]
<1>1. DOMAIN boot_table = [boot : Boot, mfg : BOOLEAN, blanks : {FALSE}]
  BY TableIs
<1>2. b \in BootName
  <2>1. CASE boot_list = <<>>
    BY <2>1
  <2>2. CASE boot_list \in SeqOf(BootName, MaxNames)
    <3>1. PICK m \in 0..MaxNames : boot_list \in [1..m -> BootName]
      BY <2>2 DEF SeqOf
    <3> QED BY <3>1
  <2> QED BY <2>1, <2>2 DEF TInv
<1> HIDE DEF b
<1>3. b = [boot |-> b.boot, mfg |-> b.mfg, blanks |-> b.blanks] /\ b.blanks \in BOOLEAN /\ b.mfg \in BOOLEAN
  BY <1>2 DEF BootName
<1>4. strip(b) = [boot |-> b.boot, mfg |-> b.mfg, blanks |-> FALSE]
  BY DEF strip
<1>5. strip(b) \in DOMAIN boot_table <=> b.boot \in Boot
  BY <1>1, <1>3, <1>4
<1>6. b \in DOMAIN boot_table => b.boot \in Boot /\ ~b.blanks
  <2>1. ASSUME NEW c \in [boot : Boot, mfg : BOOLEAN, blanks : {FALSE}]
        PROVE  c.boot \in Boot /\ c.blanks = FALSE
    OBVIOUS
  <2> QED BY <1>1, <2>1
<1>7. b \notin DOMAIN boot_table => b.boot \notin Boot \/ b.blanks
  BY <1>1, <1>3
<1> QED BY <1>5, <1>6, <1>7 DEF b

LEMMA NamesInPlace == TInv => NamesAreJudged
<1> SUFFICES ASSUME TInv PROVE NamesAreJudged
  OBVIOUS
<1>1. ASSUME phase \in {"accepted", "found", "KeyError"}, NEW i \in DOMAIN boot_list
      PROVE  boot_list[i].boot \in Boot
  <2>1. boot_table = create_boot_table(file, os_host) /\ valid_boot_list(boot_list)
    BY <1>1 DEF TInv
  <2>2. strip(boot_list[i]) \in DOMAIN boot_table
    BY <1>1, <2>1 DEF valid_boot_list
  <2> QED BY <1>1, <2>1, <2>2, NamesAre
<1>2. ASSUME phase = "failed" PROVE \E i \in DOMAIN boot_list : boot_list[i].boot \notin Boot
  <2>1. boot_table = create_boot_table(file, os_host) /\ ~valid_boot_list(boot_list)
    BY <1>2 DEF TInv
  <2>2. PICK i \in DOMAIN boot_list : strip(boot_list[i]) \notin DOMAIN boot_table
    BY <2>1 DEF valid_boot_list
  <2>3. boot_list[i].boot \notin Boot
    BY <2>1, <2>2, NamesAre
  <2> QED BY <2>3
<1>3. ASSUME phase = "found", NEW i \in DOMAIN boot_list PROVE ~boot_list[i].blanks
  <2>1. boot_table = create_boot_table(file, os_host) /\ boot_list[i] \in DOMAIN boot_table
    BY <1>3 DEF TInv
  <2> QED BY <1>3, <2>1, NamesAre
<1>4. ASSUME phase = "KeyError" PROVE \E i \in DOMAIN boot_list : boot_list[i].blanks
  <2>1. boot_table = create_boot_table(file, os_host)
    BY <1>4 DEF TInv
  <2>2. PICK i \in DOMAIN boot_list : boot_list[i] \notin DOMAIN boot_table
    BY <1>4 DEF TInv
  <2>3. boot_list[i].blanks
    BY <1>1, <1>4, <2>1, <2>2, NamesAre
  <2> QED BY <2>3
<1> QED BY <1>1, <1>2, <1>3, <1>4 DEF NamesAreJudged

(* A list of names passes if each is that of a boot; with no blanks it is  *)
(* then found, and one that raises all the same has blanks in it.          *)
THEOREM BootNamesAreJudged == TSpec => []NamesAreJudged
BY NamesInPlace, TableStarts, TableSteps, PTL DEF TSpec

-----------------------------------------------------------------------------
(* Loops.  What a fold of KeyValues and Structures returns is known one    *)
(* element at a time: what it returns for no element, and what for one     *)
(* element more.                                                           *)
LEMMA LeastNatural == ASSUME NEW T, T \subseteq Nat, T # {}
                      PROVE  \E n \in T : \A m \in T : ~(m < n)
<1>1. PICK x \in T : \A y \in T : ~(<<y, x>> \in OpToRel(<, Nat))
  BY NatLessThanWellFounded, WFMin
<1>2. \A y \in T : y < x => <<y, x>> \in OpToRel(<, Nat)
  BY DEF OpToRel
<1> QED BY <1>1, <1>2

(* What holds of none, and of one more whenever it holds, holds of all.    *)
LEMMA CountsUp == ASSUME NEW n \in Nat, NEW G, 0 \in G,
                         \A k \in 1..n : k - 1 \in G => k \in G
                  PROVE  n \in G /\ \A k \in 0..n : k \in G
<1> DEFINE T == {k \in 0..n : k \notin G}
<1>1. SUFFICES ASSUME T # {} PROVE FALSE
  <2> HIDE DEF T
  <2> QED BY DEF T
<1>2. PICK k \in T : \A m \in T : ~(m < k)
  <2> HIDE DEF T
  <2>1. T \subseteq Nat
    BY DEF T
  <2> QED BY <2>1, <1>1, LeastNatural
<1>3. k \in 1..n /\ k - 1 \in 0..n /\ k - 1 \notin T
  BY <1>2
<1> QED BY <1>2, <1>3

(* What is done with an element: SplitOn, join_dict and filter_struct.     *)
Cut(r, x, delim) == IF x = delim THEN Append(r, <<>>) ELSE [r EXCEPT ![Len(r)] = Append(@, x)]
Joined(r, x) == r \o (IF r = <<>> THEN <<>> ELSE <<":">>) \o <<x[1], ".">> \o x[2]
Kept(r, x, f, b) == IF match_struct(x, f) # b THEN Append(r, x) ELSE r

(* The body of each of the loops: what becomes of the result so far.       *)
Body(loop, arg, r, x) ==
  CASE loop = "flat" -> Put(r, x.word, Plain(x.value))
    [] loop = "indented" -> NextLine(r, x)
    [] loop = "split" -> Cut(r, x, arg)
    [] loop = "dict" -> LET kv == SplitOn(x, ".")
                        IN Put(r, kv[1], IF Len(kv) = 1 THEN <<>> ELSE kv[2])
    [] loop = "join" -> Joined(r, x)
    [] loop = "filter" -> Kept(r, x, arg[1], arg[2])

(* A set of the numbers up to n with n in it is folded from n.             *)
LEMMA LastOf == ASSUME NEW n \in Nat, NEW s \in SUBSET (1..n), n \in s
                PROVE  Max(s) = n
<1>1. \A y \in s : n >= y
  OBVIOUS
<1>2. \A x \in s : (\A y \in s : x >= y) => x = n
  BY <1>1
<1> QED BY <1>1, <1>2 DEF Max

(* The function by which MapThenFoldSet defines the result.                *)
Runs(loop, arg, base, s, n, g) ==
  g = [S \in SUBSET (1..n) |->
         IF S = {} THEN base ELSE Body(loop, arg, g[S \ {Max(S)}], s[Max(S)])]

(* There is such a function for every length.                              *)
LEMMA LoopRuns == ASSUME NEW loop, NEW arg, NEW base, NEW s, NEW n \in Nat
                  PROVE  \E g : Runs(loop, arg, base, s, n, g)
<1> DEFINE T == {k \in Nat : ~ \E g : Runs(loop, arg, base, s, k, g)}
<1>1. SUFFICES ASSUME T # {} PROVE FALSE
  OBVIOUS
<1>2. PICK k \in T : \A m \in T : ~(m < k)
  <2> HIDE DEF T
  <2>1. T \subseteq Nat
    BY DEF T
  <2> QED BY <2>1, <1>1, LeastNatural
<1>3. k # 0
  <2> DEFINE g == [S \in SUBSET (1..0) |-> base]
  <2>1. \A S \in SUBSET (1..0) : S = {}
    OBVIOUS
  <2>2. Runs(loop, arg, base, s, 0, g)
    BY <2>1 DEF Runs
  <2> QED BY <2>2, <1>2
<1>4. k \in Nat /\ k - 1 \in Nat /\ k - 1 < k
  BY <1>2, <1>3
<1>5. PICK g : Runs(loop, arg, base, s, k - 1, g)
  BY <1>2, <1>4
<1> DEFINE h == [S \in SUBSET (1..k) |-> IF k \in S THEN Body(loop, arg, g[S \ {k}], s[k]) ELSE g[S]]
<1>6. ASSUME NEW S \in SUBSET (1..k)
      PROVE  h[S] = IF S = {} THEN base ELSE Body(loop, arg, h[S \ {Max(S)}], s[Max(S)])
  <2>1. CASE k \in S
    <3>1. S \ {k} \in SUBSET (1..k) /\ Max(S) = k
      BY <2>1, <1>4, LastOf
    <3>2. h[S] = Body(loop, arg, g[S \ {k}], s[k]) /\ h[S \ {k}] = g[S \ {k}]
      BY <2>1, <3>1
    <3> QED BY <3>1, <3>2, <2>1
  <2>2. CASE k \notin S
    <3>1. S \in SUBSET (1..k - 1)
      BY <2>2, <1>4
    <3>2. S \ {Max(S)} \in SUBSET (1..k) /\ k \notin S \ {Max(S)}
      BY <2>2
    <3>3. h[S] = g[S] /\ h[S \ {Max(S)}] = g[S \ {Max(S)}]
      BY <2>2, <3>2
    <3>4. g[S] = IF S = {} THEN base ELSE Body(loop, arg, g[S \ {Max(S)}], s[Max(S)])
      BY <1>5, <3>1 DEF Runs
    <3> QED BY <3>3, <3>4
  <2> QED BY <2>1, <2>2
<1>7. Runs(loop, arg, base, s, k, h)
  BY <1>6 DEF Runs
<1> QED BY <1>2, <1>7

(* The result of a loop, as a relation: r is what the loop returns.        *)
Returns(loop, arg, base, s, r) ==
  \E h : /\ h[0] = base /\ r = h[Len(s)]
         /\ \A n \in 1..Len(s) : h[n] = Body(loop, arg, h[n - 1], s[n])

(* With that function the loop takes one element of the sequence in each   *)
(* turn, from the first to the last.                                       *)
LEMMA LoopReturns ==
  ASSUME NEW loop, NEW arg, NEW base, NEW s, Len(s) \in Nat,
         NEW g, Runs(loop, arg, base, s, Len(s), g)
  PROVE  Returns(loop, arg, base, s, g[1..Len(s)])
<1> DEFINE h == [n \in 0..Len(s) |-> g[1..n]]
<1>1. h[0] = base
  <2>1. 1..0 = {} /\ {} \in SUBSET (1..Len(s))
    OBVIOUS
  <2>2. g[{}] = base
    BY <2>1 DEF Runs
  <2> QED BY <2>1, <2>2
<1>2. ASSUME NEW n \in 1..Len(s) PROVE h[n] = Body(loop, arg, h[n - 1], s[n])
  <2>1. 1..n \in SUBSET (1..Len(s)) /\ 1..n # {} /\ (1..n) \ {n} = 1..n - 1
    OBVIOUS
  <2>2. Max(1..n) = n
    <3>1. n \in Nat /\ n \in 1..n
      OBVIOUS
    <3> QED BY <3>1, LastOf
  <2>3. g[1..n] = Body(loop, arg, g[1..n - 1], s[n])
    BY <2>1, <2>2 DEF Runs
  <2> QED BY <2>3
<1>3. h[Len(s)] = g[1..Len(s)]
  OBVIOUS
<1> HIDE DEF h
<1> QED BY <1>1, <1>2, <1>3 DEF Returns

(* A loop returns one thing.                                               *)
LEMMA OneResult ==
  ASSUME NEW loop, NEW arg, NEW base, NEW s, Len(s) \in Nat, NEW q, NEW r,
         Returns(loop, arg, base, s, q), Returns(loop, arg, base, s, r)
  PROVE  q = r
<1>1. PICK h : /\ h[0] = base /\ q = h[Len(s)]
               /\ \A n \in 1..Len(s) : h[n] = Body(loop, arg, h[n - 1], s[n])
  BY DEF Returns
<1>2. PICK i : /\ i[0] = base /\ r = i[Len(s)]
               /\ \A n \in 1..Len(s) : i[n] = Body(loop, arg, i[n - 1], s[n])
  BY DEF Returns
<1> DEFINE G == {n \in 0..Len(s) : h[n] = i[n]}
<1>3. 0 \in G
  BY <1>1, <1>2
<1>4. \A n \in 1..Len(s) : n - 1 \in G => n \in G
  BY <1>1, <1>2
<1>5. \A n \in 0..Len(s) : n \in G
  <2> HIDE DEF G
  <2> QED BY <1>3, <1>4, CountsUp
<1> QED BY <1>1, <1>2, <1>5

(* One element more is one turn more.                                      *)
LEMMA OneTurnMore ==
  ASSUME NEW loop, NEW arg, NEW base, NEW X, NEW s \in Seq(X), NEW x \in X, NEW r,
         Returns(loop, arg, base, s, r)
  PROVE  Returns(loop, arg, base, Append(s, x), Body(loop, arg, r, x))
<1>1. PICK h : /\ h[0] = base /\ r = h[Len(s)]
               /\ \A n \in 1..Len(s) : h[n] = Body(loop, arg, h[n - 1], s[n])
  BY DEF Returns
<1> DEFINE t == Append(s, x)
           i == [n \in 0..Len(s) + 1 |-> IF n = Len(s) + 1 THEN Body(loop, arg, r, x) ELSE h[n]]
<1>2. Len(s) \in Nat /\ Len(t) = Len(s) + 1 /\ t[Len(s) + 1] = x /\ \A n \in 1..Len(s) : t[n] = s[n]
  OBVIOUS
<1> HIDE DEF t
<1>3. i[0] = base /\ i[Len(t)] = Body(loop, arg, r, x)
  BY <1>1, <1>2
<1>4. ASSUME NEW n \in 1..Len(t) PROVE i[n] = Body(loop, arg, i[n - 1], t[n])
  <2>1. CASE n = Len(s) + 1
    BY <2>1, <1>1, <1>2
  <2>2. CASE n # Len(s) + 1
    <3>1. n \in 1..Len(s)
      BY <2>2, <1>2
    <3> QED BY <3>1, <1>1, <1>2
  <2> QED BY <2>1, <2>2
<1> HIDE DEF i
<1>5. Returns(loop, arg, base, t, Body(loop, arg, r, x))
  BY <1>3, <1>4 DEF Returns
<1> QED BY <1>5 DEF t

(* Without an element nothing is done.                                     *)
LEMMA NoTurn == ASSUME NEW loop, NEW arg, NEW base, NEW r, Returns(loop, arg, base, <<>>, r)
                PROVE  r = base
BY DEF Returns

(* What it returns for the elements up to the last, for one more, for none.*)
LEMMA TurnByTurn ==
  ASSUME NEW loop, NEW arg, NEW base, NEW X, NEW s \in Seq(X), NEW x \in X, NEW q, NEW r,
         Returns(loop, arg, base, s, q), Returns(loop, arg, base, Append(s, x), r)
  PROVE  r = Body(loop, arg, q, x)
<1>1. Len(Append(s, x)) \in Nat
  OBVIOUS
<1>2. Returns(loop, arg, base, Append(s, x), Body(loop, arg, q, x))
  BY OneTurnMore
<1> QED BY <1>1, <1>2, OneResult

LEMMA Nothing == ASSUME NEW X PROVE <<>> \in Seq(X)
OBVIOUS

(* FlatDict.                                                               *)
LEMMA FlatReturns ==
  ASSUME NEW X, NEW s \in Seq(X)
  PROVE  Returns("flat", 0, <<>>, s, FlatDict(s))
<1> DEFINE It(g) == g = [S \in SUBSET (1..Len(s)) |->
                           IF S = {} THEN <<>> ELSE Put(g[S \ {Max(S)}], s[Max(S)].word, Plain(s[Max(S)].value))]
           run == CHOOSE g : It(g)
<1>1. DOMAIN s = 1..Len(s) /\ Len(s) \in Nat
  OBVIOUS
<1>2. \A r, x : Body("flat", 0, r, x) = Put(r, x.word, Plain(x.value))
  BY DEF Body
<1>3. \E g : It(g)
  <2>1. PICK g : Runs("flat", 0, <<>>, s, Len(s), g)
    BY <1>1, LoopRuns
  <2>2. It(g)
    BY <2>1, <1>2 DEF Runs
  <2> QED BY <2>2
<1>4. FlatDict(s) = run[1..Len(s)]
  BY <1>1 DEF FlatDict, FoldLeft, MapThenFoldSet
<1>5. It(run)
  BY <1>3
<1> HIDE DEF run
<1>6. Runs("flat", 0, <<>>, s, Len(s), run)
  <2>1. \A S \in SUBSET (1..Len(s)) : Body("flat", 0, run[S \ {Max(S)}], s[Max(S)])
                                         = Put(run[S \ {Max(S)}], s[Max(S)].word, Plain(s[Max(S)].value))
    BY <1>2
  <2> QED BY <1>5, <2>1 DEF Runs
<1> QED BY <1>1, <1>4, <1>6, LoopReturns

LEMMA FlatTurn ==
  ASSUME NEW X, NEW s \in Seq(X), NEW x \in X
  PROVE  FlatDict(Append(s, x)) = Put(FlatDict(s), x.word, Plain(x.value))
<1>1. Append(s, x) \in Seq(X)
  OBVIOUS
<1>2. FlatDict(Append(s, x)) = Body("flat", 0, FlatDict(s), x)
  <2>1. /\ Returns("flat", 0, <<>>, s, FlatDict(s))
        /\ Returns("flat", 0, <<>>, Append(s, x), FlatDict(Append(s, x)))
    BY <1>1, FlatReturns
  <2> QED BY <2>1, TurnByTurn
<1> QED BY <1>2 DEF Body

(* The lines below the first, as key_value_list_to_dict goes through them. *)
Below(b, ls) == FoldLeft(NextLine, b, ls)

LEMMA BelowReturns ==
  ASSUME NEW b, NEW X, NEW s \in Seq(X)
  PROVE  Returns("indented", 0, b, s, Below(b, s))
<1> DEFINE It(g) == g = [S \in SUBSET (1..Len(s)) |->
                           IF S = {} THEN b ELSE NextLine(g[S \ {Max(S)}], s[Max(S)])]
           run == CHOOSE g : It(g)
<1>1. DOMAIN s = 1..Len(s) /\ Len(s) \in Nat
  OBVIOUS
<1>2. \A r, x : Body("indented", 0, r, x) = NextLine(r, x)
  BY DEF Body
<1>3. \E g : It(g)
  <2>1. PICK g : Runs("indented", 0, b, s, Len(s), g)
    BY <1>1, LoopRuns
  <2>2. It(g)
    BY <2>1, <1>2 DEF Runs
  <2> QED BY <2>2
<1>4. Below(b, s) = run[1..Len(s)]
  BY <1>1 DEF Below, FoldLeft, MapThenFoldSet
<1>5. It(run)
  BY <1>3
<1> HIDE DEF run
<1>6. Runs("indented", 0, b, s, Len(s), run)
  BY <1>5, <1>2 DEF Runs
<1> QED BY <1>1, <1>4, <1>6, LoopReturns

LEMMA BelowNone == ASSUME NEW b PROVE Below(b, <<>>) = b
BY BelowReturns, Nothing, NoTurn

LEMMA BelowTurn ==
  ASSUME NEW b, NEW X, NEW s \in Seq(X), NEW x \in X
  PROVE  Below(b, Append(s, x)) = NextLine(Below(b, s), x)
<1>1. Append(s, x) \in Seq(X)
  OBVIOUS
<1>2. Below(b, Append(s, x)) = Body("indented", 0, Below(b, s), x)
  <2>1. /\ Returns("indented", 0, b, s, Below(b, s))
        /\ Returns("indented", 0, b, Append(s, x), Below(b, Append(s, x)))
    BY <1>1, BelowReturns
  <2> QED BY <2>1, TurnByTurn
<1> QED BY <1>2 DEF Body

(* SplitOn.                                                                *)
LEMMA SplitReturns ==
  ASSUME NEW delim, NEW X, NEW s \in Seq(X)
  PROVE  Returns("split", delim, << <<>> >>, s, SplitOn(s, delim))
<1> DEFINE It(g) == g = [S \in SUBSET (1..Len(s)) |->
                           IF S = {} THEN << <<>> >> ELSE Cut(g[S \ {Max(S)}], s[Max(S)], delim)]
           run == CHOOSE g : It(g)
<1>1. DOMAIN s = 1..Len(s) /\ Len(s) \in Nat
  OBVIOUS
<1>2. \A r, x : Body("split", delim, r, x) = Cut(r, x, delim)
  BY DEF Body
<1>3. \E g : It(g)
  <2>1. PICK g : Runs("split", delim, << <<>> >>, s, Len(s), g)
    BY <1>1, LoopRuns
  <2>2. It(g)
    BY <2>1, <1>2 DEF Runs
  <2> QED BY <2>2
<1>4. SplitOn(s, delim) = run[1..Len(s)]
  BY <1>1 DEF SplitOn, FoldLeft, MapThenFoldSet, Cut
<1>5. It(run)
  BY <1>3
<1> HIDE DEF run
<1>6. Runs("split", delim, << <<>> >>, s, Len(s), run)
  BY <1>5, <1>2 DEF Runs
<1> QED BY <1>1, <1>4, <1>6, LoopReturns

LEMMA SplitNone == ASSUME NEW delim PROVE SplitOn(<<>>, delim) = << <<>> >>
BY SplitReturns, Nothing, NoTurn

LEMMA SplitTurn ==
  ASSUME NEW delim, NEW X, NEW s \in Seq(X), NEW x \in X
  PROVE  SplitOn(Append(s, x), delim) =
           IF x = delim THEN Append(SplitOn(s, delim), <<>>)
           ELSE [SplitOn(s, delim) EXCEPT ![Len(SplitOn(s, delim))] = Append(@, x)]
<1>1. Append(s, x) \in Seq(X)
  OBVIOUS
<1>2. SplitOn(Append(s, x), delim) = Body("split", delim, SplitOn(s, delim), x)
  <2>1. /\ Returns("split", delim, << <<>> >>, s, SplitOn(s, delim))
        /\ Returns("split", delim, << <<>> >>, Append(s, x), SplitOn(Append(s, x), delim))
    BY <1>1, SplitReturns
  <2> QED BY <2>1, TurnByTurn
<1> QED BY <1>2 DEF Body, Cut

(* The entries of split_to_dict, for records that are split from a name.   *)
Value(r) == IF Len(SplitOn(r, ".")) = 1 THEN <<>> ELSE SplitOn(r, ".")[2]
Dict(records) == FoldLeft(LAMBDA d, r : LET kv == SplitOn(r, ".")
                                        IN Put(d, kv[1], IF Len(kv) = 1 THEN <<>> ELSE kv[2]), <<>>, records)

LEMMA DictReturns ==
  ASSUME NEW X, NEW s \in Seq(X)
  PROVE  Returns("dict", 0, <<>>, s, Dict(s))
<1> DEFINE It(g) == g = [S \in SUBSET (1..Len(s)) |->
                           IF S = {} THEN <<>> ELSE Put(g[S \ {Max(S)}], SplitOn(s[Max(S)], ".")[1], Value(s[Max(S)]))]
           run == CHOOSE g : It(g)
<1>1. DOMAIN s = 1..Len(s) /\ Len(s) \in Nat
  OBVIOUS
<1>2. \A r, x : Body("dict", 0, r, x) = Put(r, SplitOn(x, ".")[1], Value(x))
  BY DEF Body, Value
<1>3. \E g : It(g)
  <2>1. PICK g : Runs("dict", 0, <<>>, s, Len(s), g)
    BY <1>1, LoopRuns
  <2>2. It(g)
    BY <2>1, <1>2 DEF Runs
  <2> QED BY <2>2
<1>4. Dict(s) = run[1..Len(s)]
  BY <1>1 DEF Dict, Value, FoldLeft, MapThenFoldSet
<1>5. It(run)
  BY <1>3
<1> HIDE DEF run
<1>6. Runs("dict", 0, <<>>, s, Len(s), run)
  BY <1>5, <1>2 DEF Runs
<1> QED BY <1>1, <1>4, <1>6, LoopReturns

LEMMA DictNone == Dict(<<>>) = <<>>
BY DictReturns, Nothing, NoTurn

LEMMA DictTurn ==
  ASSUME NEW X, NEW s \in Seq(X), NEW x \in X
  PROVE  Dict(Append(s, x)) = Put(Dict(s), SplitOn(x, ".")[1], Value(x))
<1>1. Append(s, x) \in Seq(X)
  OBVIOUS
<1>2. Dict(Append(s, x)) = Body("dict", 0, Dict(s), x)
  <2>1. /\ Returns("dict", 0, <<>>, s, Dict(s))
        /\ Returns("dict", 0, <<>>, Append(s, x), Dict(Append(s, x)))
    BY <1>1, DictReturns
  <2> QED BY <2>1, TurnByTurn
<1> QED BY <1>2 DEF Body, Value

(* join_dict.                                                              *)
LEMMA JoinReturns ==
  ASSUME NEW X, NEW s \in Seq(X)
  PROVE  Returns("join", 0, <<>>, s, join_dict(s))
<1> DEFINE It(g) == g = [S \in SUBSET (1..Len(s)) |->
                           IF S = {} THEN <<>> ELSE Joined(g[S \ {Max(S)}], s[Max(S)])]
           run == CHOOSE g : It(g)
<1>1. DOMAIN s = 1..Len(s) /\ Len(s) \in Nat
  OBVIOUS
<1>2. \A r, x : Body("join", 0, r, x) = Joined(r, x)
  BY DEF Body
<1>3. \E g : It(g)
  <2>1. PICK g : Runs("join", 0, <<>>, s, Len(s), g)
    BY <1>1, LoopRuns
  <2>2. It(g)
    BY <2>1, <1>2 DEF Runs
  <2> QED BY <2>2
<1>4. join_dict(s) = run[1..Len(s)]
  BY <1>1 DEF join_dict, Joined, FoldLeft, MapThenFoldSet
<1>5. It(run)
  BY <1>3
<1> HIDE DEF run
<1>6. Runs("join", 0, <<>>, s, Len(s), run)
  BY <1>5, <1>2 DEF Runs
<1> QED BY <1>1, <1>4, <1>6, LoopReturns

LEMMA JoinNone == join_dict(<<>>) = <<>>
BY JoinReturns, Nothing, NoTurn

LEMMA JoinTurn ==
  ASSUME NEW X, NEW s \in Seq(X), NEW x \in X
  PROVE  join_dict(Append(s, x)) = Joined(join_dict(s), x)
<1>1. Append(s, x) \in Seq(X)
  OBVIOUS
<1>2. join_dict(Append(s, x)) = Body("join", 0, join_dict(s), x)
  <2>1. /\ Returns("join", 0, <<>>, s, join_dict(s))
        /\ Returns("join", 0, <<>>, Append(s, x), join_dict(Append(s, x)))
    BY <1>1, JoinReturns
  <2> QED BY <2>1, TurnByTurn
<1> QED BY <1>2 DEF Body

(* filter_struct.                                                          *)
LEMMA FilterReturns ==
  ASSUME NEW f, NEW b, NEW X, NEW s \in Seq(X)
  PROVE  Returns("filter", <<f, b>>, <<>>, s, filter_struct(s, f, b))
<1> DEFINE It(g) == g = [S \in SUBSET (1..Len(s)) |->
                           IF S = {} THEN <<>> ELSE Kept(g[S \ {Max(S)}], s[Max(S)], f, b)]
           run == CHOOSE g : It(g)
<1>1. DOMAIN s = 1..Len(s) /\ Len(s) \in Nat
  OBVIOUS
<1>2. \A r, x : Body("filter", <<f, b>>, r, x) = Kept(r, x, f, b)
  BY DEF Body
<1>3. \E g : It(g)
  <2>1. PICK g : Runs("filter", <<f, b>>, <<>>, s, Len(s), g)
    BY <1>1, LoopRuns
  <2>2. It(g)
    BY <2>1, <1>2 DEF Runs
  <2> QED BY <2>2
<1>4. filter_struct(s, f, b) = run[1..Len(s)]
  BY <1>1 DEF filter_struct, Kept, FoldLeft, MapThenFoldSet
<1>5. It(run)
  BY <1>3
<1> HIDE DEF run
<1>6. Runs("filter", <<f, b>>, <<>>, s, Len(s), run)
  BY <1>5, <1>2 DEF Runs
<1> QED BY <1>1, <1>4, <1>6, LoopReturns

LEMMA FilterTurns ==
  ASSUME NEW f, NEW b
  PROVE  /\ filter_struct(<<>>, f, b) = <<>>
         /\ \A X : \A s \in Seq(X), x \in X : filter_struct(Append(s, x), f, b) = Kept(filter_struct(s, f, b), x, f, b)
<1>1. filter_struct(<<>>, f, b) = <<>>
  BY FilterReturns, Nothing, NoTurn
<1>2. ASSUME NEW X, NEW s \in Seq(X), NEW x \in X
      PROVE  filter_struct(Append(s, x), f, b) = Kept(filter_struct(s, f, b), x, f, b)
  <2>1. Append(s, x) \in Seq(X)
    OBVIOUS
  <2>2. filter_struct(Append(s, x), f, b) = Body("filter", <<f, b>>, filter_struct(s, f, b), x)
    <3>1. /\ Returns("filter", <<f, b>>, <<>>, s, filter_struct(s, f, b))
          /\ Returns("filter", <<f, b>>, <<>>, Append(s, x), filter_struct(Append(s, x), f, b))
      BY <2>1, FilterReturns
    <3> QED BY <3>1, TurnByTurn
  <2> QED BY <2>2 DEF Body
<1> QED BY <1>1, <1>2

(* A sequence is built from its beginnings, one element after the other.   *)
LEMMA Beginnings ==
  ASSUME NEW X, NEW s \in Seq(X)
  PROVE  \E p : /\ p[0] = <<>> /\ p[Len(s)] = s
                /\ \A n \in 1..Len(s) : p[n] = Append(p[n - 1], s[n]) /\ p[n - 1] \in Seq(X) /\ s[n] \in X
<1> DEFINE p == [n \in 0..Len(s) |-> SubSeq(s, 1, n)]
<1>1. Len(s) \in Nat
  OBVIOUS
<1>2. p[0] = <<>> /\ p[Len(s)] = s
  BY <1>1
<1>3. ASSUME NEW n \in 1..Len(s) PROVE p[n] = Append(p[n - 1], s[n]) /\ p[n - 1] \in Seq(X) /\ s[n] \in X
  <2>1. p[n] = SubSeq(s, 1, n) /\ p[n - 1] = SubSeq(s, 1, n - 1)
    BY <1>1
  <2>2. SubSeq(s, 1, n) = Append(SubSeq(s, 1, n - 1), s[n]) /\ SubSeq(s, 1, n - 1) \in Seq(X) /\ s[n] \in X
    OBVIOUS
  <2> QED BY <2>1, <2>2
<1> HIDE DEF p
<1> QED BY <1>2, <1>3

-----------------------------------------------------------------------------
(* filter_struct: what it keeps, and what it leaves when it is inverted.   *)
Keep(s, f) == filter_struct(s, f, FALSE)
Leave(s, f) == filter_struct(s, f, TRUE)

LEMMA KeepTurns ==
  ASSUME NEW f
  PROVE  /\ Keep(<<>>, f) = <<>> /\ Leave(<<>>, f) = <<>>
         /\ \A X : \A s \in Seq(X), x \in X :
              /\ match_struct(x, f) => Keep(Append(s, x), f) = Append(Keep(s, f), x)
                                       /\ Leave(Append(s, x), f) = Leave(s, f)
              /\ ~match_struct(x, f) => Keep(Append(s, x), f) = Keep(s, f)
                                        /\ Leave(Append(s, x), f) = Append(Leave(s, f), x)
<1>1. Keep(<<>>, f) = <<>> /\ Leave(<<>>, f) = <<>>
  BY FilterTurns DEF Keep, Leave
<1>2. ASSUME NEW X, NEW s \in Seq(X), NEW x \in X
      PROVE  /\ Keep(Append(s, x), f) = Kept(Keep(s, f), x, f, FALSE)
             /\ Leave(Append(s, x), f) = Kept(Leave(s, f), x, f, TRUE)
  BY FilterTurns DEF Keep, Leave
<1>3. ASSUME NEW r, NEW x
      PROVE  /\ match_struct(x, f) => Kept(r, x, f, FALSE) = Append(r, x) /\ Kept(r, x, f, TRUE) = r
             /\ ~match_struct(x, f) => Kept(r, x, f, FALSE) = r /\ Kept(r, x, f, TRUE) = Append(r, x)
  BY DEF Kept, match_struct
<1>4. ASSUME NEW X, NEW s \in Seq(X), NEW x \in X
      PROVE  /\ match_struct(x, f) => Keep(Append(s, x), f) = Append(Keep(s, f), x)
                                      /\ Leave(Append(s, x), f) = Leave(s, f)
             /\ ~match_struct(x, f) => Keep(Append(s, x), f) = Keep(s, f)
                                       /\ Leave(Append(s, x), f) = Append(Leave(s, f), x)
  <2>a. Keep(Append(s, x), f) = Kept(Keep(s, f), x, f, FALSE)
    BY <1>2
  <2>b. Leave(Append(s, x), f) = Kept(Leave(s, f), x, f, TRUE)
    BY <1>2
  <2>1. CASE match_struct(x, f)
    <3>1. Kept(Keep(s, f), x, f, FALSE) = Append(Keep(s, f), x) /\ Kept(Leave(s, f), x, f, TRUE) = Leave(s, f)
      BY <1>3, <2>1
    <3> QED BY <2>a, <2>b, <2>1, <3>1, Zenon
  <2>2. CASE ~match_struct(x, f)
    <3>1. Kept(Keep(s, f), x, f, FALSE) = Keep(s, f) /\ Kept(Leave(s, f), x, f, TRUE) = Append(Leave(s, f), x)
      BY <1>3, <2>2
    <3> QED BY <2>a, <2>b, <2>2, <3>1, Zenon
  <2> QED BY <2>1, <2>2
<1> QED BY <1>1, <1>4

LEMMA KeepIsSeq ==
  ASSUME NEW X, NEW s \in Seq(X), NEW f
  PROVE  Keep(s, f) \in Seq(X) /\ Leave(s, f) \in Seq(X)
<1>p. PICK p : /\ p[0] = <<>> /\ p[Len(s)] = s
               /\ \A n \in 1..Len(s) : p[n] = Append(p[n - 1], s[n]) /\ p[n - 1] \in Seq(X) /\ s[n] \in X
  BY Beginnings
<1> DEFINE G == {n \in 0..Len(s) : Keep(p[n], f) \in Seq(X) /\ Leave(p[n], f) \in Seq(X)}
<1>0. Len(s) \in Nat
  OBVIOUS
<1>1. 0 \in G
  BY <1>0, KeepTurns, <1>p
<1>2. ASSUME NEW n \in 1..Len(s), n - 1 \in G PROVE n \in G
  <2> DEFINE t == p[n - 1]
             x == s[n]
  <2>1. p[n] = Append(t, x) /\ t \in Seq(X) /\ x \in X
    BY <1>p
  <2>2. Keep(t, f) \in Seq(X) /\ Leave(t, f) \in Seq(X)
    BY <1>2
  <2> HIDE DEF t, x
  <2>3. Append(Keep(t, f), x) \in Seq(X) /\ Append(Leave(t, f), x) \in Seq(X)
    BY <2>1, <2>2
  <2>4. Keep(Append(t, x), f) \in Seq(X) /\ Leave(Append(t, x), f) \in Seq(X)
    <3>1. CASE match_struct(x, f)
      BY <2>1, <2>2, <2>3, <3>1, KeepTurns
    <3>2. CASE ~match_struct(x, f)
      BY <2>1, <2>2, <2>3, <3>2, KeepTurns
    <3> QED BY <3>1, <3>2
  <2>5. Keep(p[n], f) \in Seq(X) /\ Leave(p[n], f) \in Seq(X)
    BY <2>1, <2>4
  <2> QED BY <1>0, <2>5
<1>4. Len(s) \in G
  <2>1. \A n \in 1..Len(s) : n - 1 \in G => n \in G
    BY <1>2
  <2> HIDE DEF G
  <2> QED BY <1>0, <1>1, <2>1, CountsUp
<1> QED BY <1>4, <1>p

(* How often an element is in a sequence.                                  *)
LEMMA OneMoreTime ==
  ASSUME NEW X, NEW s \in Seq(X), NEW x \in X, NEW e
  PROVE  /\ Times(s, e) \in Nat
         /\ x = e => Times(Append(s, x), e) = Times(s, e) + 1
         /\ x # e => Times(Append(s, x), e) = Times(s, e)
<1> DEFINE A == {i \in DOMAIN s : s[i] = e}
           B == {i \in DOMAIN Append(s, x) : Append(s, x)[i] = e}
<1>1. DOMAIN s = 1..Len(s) /\ Len(s) \in Nat /\ DOMAIN Append(s, x) = 1..Len(s) + 1
  OBVIOUS
<1>2. IsFiniteSet(A) /\ Cardinality(A) \in Nat
  <2>1. IsFiniteSet(1..Len(s)) /\ A \subseteq 1..Len(s)
    BY <1>1, FS_Interval
  <2> QED BY <2>1, FS_Subset, FS_CardinalityType
<1>3. x = e => B = A \cup {Len(s) + 1} /\ Len(s) + 1 \notin A
  BY <1>1
<1>4. x # e => B = A
  BY <1>1
<1>5. Times(s, e) = Cardinality(A) /\ Times(Append(s, x), e) = Cardinality(B)
  BY DEF Times
<1> HIDE DEF A, B
<1>6. x = e => Cardinality(B) = Cardinality(A) + 1
  BY <1>2, <1>3, FS_AddElement
<1> QED BY <1>2, <1>4, <1>5, <1>6

LEMMA NoTimes == \A e : Times(<<>>, e) = 0
<1>1. \A e : {i \in DOMAIN <<>> : <<>>[i] = e} = {}
  OBVIOUS
<1>2. Cardinality({}) = 0
  BY FS_EmptySet
<1> QED BY <1>1, <1>2 DEF Times

(* Each entry is kept or left, and an entry is in one of the two as often  *)
(* as it is in the structure.                                              *)
Divided(t, k, r) == Len(t) = Len(k) + Len(r) /\ \A e : Times(t, e) = Times(k, e) + Times(r, e)

LEMMA OneMoreDivided ==
  ASSUME NEW X, NEW t \in Seq(X), NEW k \in Seq(X), NEW r \in Seq(X), NEW x \in X, Divided(t, k, r)
  PROVE  Divided(Append(t, x), Append(k, x), r) /\ Divided(Append(t, x), k, Append(r, x))
<1>1. /\ Len(Append(t, x)) = Len(t) + 1 /\ Len(Append(k, x)) = Len(k) + 1 /\ Len(Append(r, x)) = Len(r) + 1
      /\ Len(t) \in Nat /\ Len(k) \in Nat /\ Len(r) \in Nat
  OBVIOUS
<1>2. ASSUME NEW e
      PROVE  /\ Times(Append(t, x), e) = Times(Append(k, x), e) + Times(r, e)
             /\ Times(Append(t, x), e) = Times(k, e) + Times(Append(r, x), e)
  <2>1. Times(t, e) = Times(k, e) + Times(r, e)
    BY DEF Divided
  <2>2. Times(t, e) \in Nat /\ Times(k, e) \in Nat /\ Times(r, e) \in Nat
    BY OneMoreTime
  <2>3. CASE x = e
    BY <2>1, <2>2, <2>3, OneMoreTime
  <2>4. CASE x # e
    BY <2>1, <2>2, <2>4, OneMoreTime
  <2> QED BY <2>3, <2>4
<1> QED BY <1>1, <1>2 DEF Divided

LEMMA FilterDivides ==
  ASSUME NEW X, NEW s \in Seq(X), NEW f
  PROVE  Divided(s, Keep(s, f), Leave(s, f))
<1>p. PICK p : /\ p[0] = <<>> /\ p[Len(s)] = s
               /\ \A n \in 1..Len(s) : p[n] = Append(p[n - 1], s[n]) /\ p[n - 1] \in Seq(X) /\ s[n] \in X
  BY Beginnings
<1> DEFINE G == {n \in 0..Len(s) : Divided(p[n], Keep(p[n], f), Leave(p[n], f))}
<1>0. Len(s) \in Nat
  OBVIOUS
<1>1. 0 \in G
  <2>1. Keep(<<>>, f) = <<>> /\ Leave(<<>>, f) = <<>> /\ p[0] = <<>>
    BY KeepTurns, <1>p
  <2>2. Divided(<<>>, <<>>, <<>>)
    BY NoTimes DEF Divided
  <2> QED BY <1>0, <2>1, <2>2
<1>2. ASSUME NEW n \in 1..Len(s), n - 1 \in G PROVE n \in G
  <2> DEFINE t == p[n - 1]
  <2>1. p[n] = Append(t, s[n]) /\ t \in Seq(X) /\ s[n] \in X
    BY <1>p
  <2>2. Keep(t, f) \in Seq(X) /\ Leave(t, f) \in Seq(X)
    BY <2>1, KeepIsSeq
  <2>3. Divided(t, Keep(t, f), Leave(t, f))
    BY <1>2
  <2> HIDE DEF t
  <2>4. /\ Divided(Append(t, s[n]), Append(Keep(t, f), s[n]), Leave(t, f))
        /\ Divided(Append(t, s[n]), Keep(t, f), Append(Leave(t, f), s[n]))
    BY <2>1, <2>2, <2>3, OneMoreDivided
  <2>5. Divided(Append(t, s[n]), Keep(Append(t, s[n]), f), Leave(Append(t, s[n]), f))
    <3>1. CASE match_struct(s[n], f)
      BY <2>1, <2>4, <3>1, KeepTurns
    <3>2. CASE ~match_struct(s[n], f)
      BY <2>1, <2>4, <3>2, KeepTurns
    <3> QED BY <3>1, <3>2
  <2>6. n \in 0..Len(s)
    BY <1>0
  <2>7. Divided(p[n], Keep(p[n], f), Leave(p[n], f))
    BY <2>1, <2>5
  <2> QED BY <2>6, <2>7
<1>4. Len(s) \in G
  <2>1. \A n \in 1..Len(s) : n - 1 \in G => n \in G
    BY <1>2
  <2> HIDE DEF G
  <2> QED BY <1>0, <1>1, <2>1, CountsUp
<1> QED BY <1>4, <1>p

(* The conditions of two filters hold together when each does.             *)
LEMMA JointMatches ==
  ASSUME NEW e, NEW f, NEW g, DOMAIN f \cap DOMAIN g = {}
  PROVE  match_struct(e, Joint(f, g)) <=> match_struct(e, f) /\ match_struct(e, g)
<1>1. DOMAIN Joint(f, g) = DOMAIN f \cup DOMAIN g
  BY DEF Joint
<1>2. \A k \in DOMAIN f : Joint(f, g)[k] = f[k]
  BY DEF Joint
<1>3. \A k \in DOMAIN g : Joint(f, g)[k] = g[k]
  BY DEF Joint
<1> QED BY <1>1, <1>2, <1>3 DEF match_struct

(* To filter twice is to filter by the conditions of both.                 *)
LEMMA FilterTwice ==
  ASSUME NEW X, NEW s \in Seq(X), NEW f, NEW g, DOMAIN f \cap DOMAIN g = {}
  PROVE  Keep(Keep(s, f), g) = Keep(s, Joint(f, g))
<1>p. PICK p : /\ p[0] = <<>> /\ p[Len(s)] = s
               /\ \A n \in 1..Len(s) : p[n] = Append(p[n - 1], s[n]) /\ p[n - 1] \in Seq(X) /\ s[n] \in X
  BY Beginnings
<1> DEFINE G == {n \in 0..Len(s) : Keep(Keep(p[n], f), g) = Keep(p[n], Joint(f, g))}
<1>0. Len(s) \in Nat
  OBVIOUS
<1>1. 0 \in G
  BY <1>0, KeepTurns, <1>p
<1>2. ASSUME NEW n \in 1..Len(s), n - 1 \in G PROVE n \in G
  <2> DEFINE t == p[n - 1]
             x == s[n]
  <2>1. p[n] = Append(t, x) /\ t \in Seq(X) /\ x \in X
    BY <1>p
  <2>2. Keep(t, f) \in Seq(X)
    BY <2>1, KeepIsSeq
  <2>3. Keep(Keep(t, f), g) = Keep(t, Joint(f, g))
    BY <1>2
  <2> HIDE DEF t, x
  <2>4. match_struct(x, Joint(f, g)) <=> match_struct(x, f) /\ match_struct(x, g)
    BY JointMatches
  <2>5. Keep(Keep(Append(t, x), f), g) = Keep(Append(t, x), Joint(f, g))
    <3>1. CASE match_struct(x, f) /\ match_struct(x, g)
      <4>1. Keep(Append(t, x), f) = Append(Keep(t, f), x)
        BY <2>1, <3>1, KeepTurns
      <4>2. Keep(Append(Keep(t, f), x), g) = Append(Keep(Keep(t, f), g), x)
        BY <2>1, <2>2, <3>1, KeepTurns
      <4>3. Keep(Append(t, x), Joint(f, g)) = Append(Keep(t, Joint(f, g)), x)
        BY <2>1, <2>4, <3>1, KeepTurns
      <4> QED BY <4>1, <4>2, <4>3, <2>3
    <3>2. CASE match_struct(x, f) /\ ~match_struct(x, g)
      <4>1. Keep(Append(t, x), f) = Append(Keep(t, f), x)
        BY <2>1, <3>2, KeepTurns
      <4>2. Keep(Append(Keep(t, f), x), g) = Keep(Keep(t, f), g)
        BY <2>1, <2>2, <3>2, KeepTurns
      <4>3. Keep(Append(t, x), Joint(f, g)) = Keep(t, Joint(f, g))
        BY <2>1, <2>4, <3>2, KeepTurns
      <4> QED BY <4>1, <4>2, <4>3, <2>3
    <3>3. CASE ~match_struct(x, f)
      <4>1. Keep(Append(t, x), f) = Keep(t, f)
        BY <2>1, <3>3, KeepTurns
      <4>2. Keep(Append(t, x), Joint(f, g)) = Keep(t, Joint(f, g))
        BY <2>1, <2>4, <3>3, KeepTurns
      <4> QED BY <4>1, <4>2, <2>3
    <3> QED BY <3>1, <3>2, <3>3
  <2>6. n \in 0..Len(s)
    BY <1>0
  <2>7. Keep(Keep(p[n], f), g) = Keep(p[n], Joint(f, g))
    BY <2>1, <2>5
  <2> QED BY <2>6, <2>7
<1>4. Len(s) \in G
  <2>1. \A n \in 1..Len(s) : n - 1 \in G => n \in G
    BY <1>2
  <2> HIDE DEF G
  <2> QED BY <1>0, <1>1, <2>1, CountsUp
<1> QED BY <1>4, <1>p

-----------------------------------------------------------------------------
(* split_dict_on_key.                                                      *)
LEMMA SplitBefore ==
  ASSUME NEW X, NEW keys \in Seq(X), NEW k
  PROVE  LET r == split_dict_on_key(k, keys)
         IN  /\ r[1] \o r[2] = keys
             /\ (\E i \in DOMAIN keys : keys[i] = k) => r[2] # <<>> /\ r[2][1] = k
<1> DEFINE found == {i \in DOMAIN keys : keys[i] = k}
           i == CHOOSE i \in found : TRUE
           n == IF found = {} THEN Len(keys) ELSE i - 1
           a == SubSeq(keys, 1, n)
           z == SubSeq(keys, n + 1, Len(keys))
<1>1. split_dict_on_key(k, keys) = <<a, z>>
  BY DEF split_dict_on_key
<1>2. DOMAIN keys = 1..Len(keys) /\ Len(keys) \in Nat
  OBVIOUS
<1>3. found # {} => i \in found
  <2> HIDE DEF found
  <2> QED OBVIOUS
<1>4. n \in 0..Len(keys) /\ (found # {} => n + 1 \in 1..Len(keys) /\ keys[n + 1] = k)
  BY <1>2, <1>3
<1> HIDE DEF n, i
<1>5. a \o z = keys
  <2>1. 1 \in 1..Len(keys) + 1 /\ n \in 1 - 1..Len(keys) /\ Len(keys) \in n..Len(keys)
    BY <1>2, <1>4
  <2>2. a \o z = SubSeq(keys, 1, Len(keys))
    BY <2>1, ConcatAdjacentSubSeq
  <2> QED BY <2>2, SubSeqFull
<1>6. found # {} => z # <<>> /\ z[1] = k
  BY <1>2, <1>4
<1> HIDE DEF a, z
<1> QED BY <1>1, <1>5, <1>6

-----------------------------------------------------------------------------
(* to_signed.  The powers of two, up to each number, are what they should  *)
(* be, and so Power is.                                                    *)
PowersTo(n, g) == g \in [0..n -> Nat] /\ g[0] = 1 /\ \A k \in 1..n : g[k] = 2 * g[k - 1]

LEMMA PowersExist == ASSUME NEW n \in Nat PROVE \E g : PowersTo(n, g)
<1> DEFINE G == {k \in 0..n : \E g : PowersTo(k, g)}
<1>1. 0 \in G
  <2> DEFINE g == [k \in 0..0 |-> 1]
  <2>1. PowersTo(0, g)
    BY DEF PowersTo
  <2> HIDE DEF g
  <2> QED BY <2>1
<1>2. ASSUME NEW k \in 1..n, k - 1 \in G PROVE k \in G
  <2>1. PICK g : PowersTo(k - 1, g)
    BY <1>2
  <2> DEFINE h == [i \in 0..k |-> IF i = k THEN 2 * g[k - 1] ELSE g[i]]
  <2>2. PowersTo(k, h)
    <3>1. g \in [0..k - 1 -> Nat] /\ g[0] = 1 /\ \A i \in 1..k - 1 : g[i] = 2 * g[i - 1]
      BY <2>1 DEF PowersTo
    <3>2. h \in [0..k -> Nat]
      <4>1. ASSUME NEW i \in 0..k PROVE (IF i = k THEN 2 * g[k - 1] ELSE g[i]) \in Nat
        <5>1. i # k => i \in 0..k - 1
          OBVIOUS
        <5>2. g[k - 1] \in Nat
          BY <3>1
        <5> QED BY <5>1, <5>2, <3>1
      <4> QED BY <4>1
    <3>3. h[0] = 1
      BY <3>1
    <3>4. ASSUME NEW i \in 1..k PROVE h[i] = 2 * h[i - 1]
      <4>1. h[i - 1] = g[i - 1]
        OBVIOUS
      <4>2. CASE i = k
        BY <4>1, <4>2
      <4>3. CASE i # k
        BY <4>1, <4>3, <3>1
      <4> QED BY <4>2, <4>3
    <3> HIDE DEF h
    <3> QED BY <3>2, <3>3, <3>4 DEF PowersTo
  <2> HIDE DEF h
  <2> QED BY <2>2
<1>3. n \in G
  <2>1. \A k \in 1..n : k - 1 \in G => k \in G
    BY <1>2
  <2> HIDE DEF G
  <2> QED BY <1>1, <2>1, CountsUp
<1> QED BY <1>3

LEMMA PowersAgree ==
  ASSUME NEW m \in Nat, NEW n \in Nat, NEW g, NEW h, PowersTo(m, g), PowersTo(n, h), m <= n
  PROVE  g[m] = h[m]
<1> DEFINE G == {k \in 0..m : g[k] = h[k]}
<1>1. 0 \in G
  BY DEF PowersTo
<1>2. ASSUME NEW k \in 1..m, k - 1 \in G PROVE k \in G
  BY <1>2 DEF PowersTo
<1>3. m \in G
  <2>1. \A k \in 1..m : k - 1 \in G => k \in G
    BY <1>2
  <2> HIDE DEF G
  <2> QED BY <1>1, <2>1, CountsUp
<1> QED BY <1>3

LEMMA PowerIs ==
  /\ Power[0] = 1
  /\ \A n \in Nat : Power[n] \in Nat \ {0} /\ Power[n + 1] = 2 * Power[n]
<1> DEFINE To(n) == CHOOSE g : PowersTo(n, g)
           P == [n \in Nat |-> To(n)[n]]
<1>1. \A n \in Nat : PowersTo(n, To(n))
  BY PowersExist
<1> HIDE DEF To
<1>2. P[0] = 1
  <2>1. To(0)[0] = 1
    BY <1>1 DEF PowersTo
  <2> QED BY <2>1
<1>3. ASSUME NEW n \in Nat, n # 0 PROVE P[n] = 2 * P[n - 1]
  <2>1. n - 1 \in Nat /\ n \in 1..n
    BY <1>3
  <2>2. To(n)[n] = 2 * To(n)[n - 1]
    BY <2>1, <1>1 DEF PowersTo
  <2>3. To(n)[n - 1] = To(n - 1)[n - 1]
    BY <2>1, <1>1, PowersAgree
  <2> QED BY <2>1, <2>2, <2>3
<1>4. \E g : g = [n \in Nat |-> IF n = 0 THEN 1 ELSE 2 * g[n - 1]]
  <2>1. P = [n \in Nat |-> IF n = 0 THEN 1 ELSE 2 * P[n - 1]]
    <3>1. \A n \in Nat : P[n] = IF n = 0 THEN 1 ELSE 2 * P[n - 1]
      BY <1>2, <1>3
    <3>2. P = [n \in Nat |-> P[n]]
      OBVIOUS
    <3> HIDE DEF P
    <3> QED BY <3>1, <3>2
  <2> HIDE DEF P
  <2> QED BY <2>1
<1>5. Power = [n \in Nat |-> IF n = 0 THEN 1 ELSE 2 * Power[n - 1]]
  BY <1>4 DEF Power
<1>6. Power[0] = 1 /\ \A n \in Nat : Power[n + 1] = 2 * Power[n]
  <2>1. ASSUME NEW n \in Nat PROVE Power[n + 1] = 2 * Power[n]
    <3>1. n + 1 \in Nat /\ n + 1 # 0 /\ (n + 1) - 1 = n
      OBVIOUS
    <3> QED BY <3>1, <1>5
  <2>2. Power[0] = 1
    BY <1>5
  <2> QED BY <2>1, <2>2
<1>7. ASSUME NEW n \in Nat PROVE Power[n] \in Nat \ {0}
  <2> DEFINE G == {k \in 0..n : Power[k] \in Nat \ {0}}
  <2>1. 0 \in G
    BY <1>6
  <2>2. ASSUME NEW k \in 1..n, k - 1 \in G PROVE k \in G
    <3>1. k - 1 \in Nat /\ (k - 1) + 1 = k
      OBVIOUS
    <3>2. Power[k] = 2 * Power[k - 1]
      BY <3>1, <1>6
    <3> QED BY <2>2, <3>2
  <2>3. n \in G
    <3>1. \A k \in 1..n : k - 1 \in G => k \in G
      BY <2>2
    <3> HIDE DEF G
    <3> QED BY <2>1, <3>1, CountsUp
  <2> QED BY <2>3
<1> QED BY <1>6, <1>7

(* A number below four times x is in one of four quarters, and by that it  *)
(* is known whether its bit of weight x is set.                            *)
LEMMA Quarters ==
  ASSUME NEW p \in Nat \ {0}, NEW n \in 0..4 * p - 1
  PROVE  /\ n < p => n \div p = 0
         /\ n >= p /\ n < 2 * p => n \div p = 1
         /\ n >= 2 * p /\ n < 3 * p => n \div p = 2
         /\ n >= 3 * p => n \div p = 3
OBVIOUS

(* What is read as signed has the code of the number, and is in the range  *)
(* when the number is in that of the codes.                                *)
LEMMA SignedIs ==
  ASSUME NEW n \in -Power[Width - 1]..Power[Width + 1] - 1
  PROVE  /\ n < Power[Width] => to_signed(n, Width) \in -Power[Width - 1]..Power[Width - 1] - 1
         /\ (to_signed(n, Width) - n) % Power[Width] = 0
<1> DEFINE p == Power[Width - 1]
           r == to_signed(n, Width)
<1>1. p \in Nat \ {0} /\ Power[Width] = 2 * p /\ Power[Width + 1] = 4 * p
  <2>1. Width - 1 \in Nat /\ (Width - 1) + 1 = Width /\ Width \in Nat
    BY WidthAssumption
  <2>2. p \in Nat \ {0} /\ Power[Width] = 2 * p
    BY <2>1, PowerIs
  <2>3. Power[Width + 1] = 2 * Power[Width]
    BY <2>1, PowerIs
  <2> QED BY <2>2, <2>3
<1>2. r = IF n < 0 THEN n ELSE IF (n \div p) % 2 = 1 THEN -(2 * p - n) ELSE n
  BY <1>1 DEF to_signed
<1> HIDE DEF p, r
<1>3. n \in -p..4 * p - 1
  BY <1>1 DEF p
<1>4. 0 % (2 * p) = 0 /\ (-(2 * p)) % (2 * p) = 0
  BY <1>1
<1>5. CASE n < 0 \/ n < p \/ (n >= 2 * p /\ n < 3 * p)
  <2>1. r = n
    <3>1. CASE n < 0
      BY <1>2, <3>1
    <3>2. CASE n >= 0
      <4>1. n \in 0..4 * p - 1
        BY <1>1, <1>3, <3>2
      <4>2. n \div p = 0 \/ n \div p = 2
        <5>1. CASE n < p
          BY <1>1, <4>1, <5>1, Quarters
        <5>2. CASE n >= 2 * p /\ n < 3 * p
          BY <1>1, <4>1, <5>2, Quarters
        <5> QED BY <1>5, <3>2, <5>1, <5>2
      <4> QED BY <1>2, <3>2, <4>2
    <3> QED BY <1>3, <3>1, <3>2
  <2> QED BY <2>1, <1>1, <1>3, <1>4, <1>5 DEF p, r
<1>6. CASE n >= 0 /\ ((n >= p /\ n < 2 * p) \/ n >= 3 * p)
  <2>1. r = -(2 * p - n)
    <3>1. n \in 0..4 * p - 1
      BY <1>1, <1>3, <1>6
    <3>2. n \div p = 1 \/ n \div p = 3
      <4>1. CASE n >= p /\ n < 2 * p
        BY <1>1, <3>1, <4>1, Quarters
      <4>2. CASE n >= 3 * p
        BY <1>1, <3>1, <4>2, Quarters
      <4> QED BY <1>6, <4>1, <4>2
    <3> QED BY <1>2, <3>1, <3>2
  <2>2. r - n = -(2 * p)
    BY <2>1, <1>1, <1>3
  <2>3. n < 2 * p => r \in -p..p - 1
    BY <2>1, <1>1, <1>3, <1>6
  <2> QED BY <2>2, <2>3, <1>1, <1>4 DEF p, r
<1> QED BY <1>1, <1>3, <1>5, <1>6

-----------------------------------------------------------------------------
(* The four selections: each is asked for once, and the answers stay.      *)
AskedInv ==
  /\ FilterParts /\ FiltersCompose /\ SplitsBefore /\ SignedIsSameCode

LEMMA AskedStarts == ZInit => AskedInv
BY DEF ZInit, AskedInv, FilterParts, FiltersCompose, SplitsBefore, SignedIsSameCode

LEMMA AskedStays == AskedInv /\ [ZNext]_zvars => AskedInv'
<1> SUFFICES ASSUME AskedInv, [ZNext]_zvars PROVE AskedInv'
  OBVIOUS
<1>1. ASSUME NEW n \in 0..MaxEntries, NEW entries \in [1..n -> Entry], NEW f \in Filter, NEW g \in Filter,
             DOMAIN f \cap DOMAIN g = {}, AskFilter(entries, f, g)
      PROVE  AskedInv'
  <2>1. entries \in Seq(Entry) /\ DOMAIN entries = 1..n
    OBVIOUS
  <2>2. /\ query' = [f |-> "filter", entries |-> entries, by |-> f, also |-> g]
        /\ reply' = [kept |-> Keep(entries, f), rest |-> Leave(entries, f),
                     both |-> Keep(Keep(entries, f), g), joint |-> Keep(entries, Joint(f, g))]
    BY <1>1 DEF AskFilter, Keep, Leave
  <2>3. Divided(entries, Keep(entries, f), Leave(entries, f))
    BY <2>1, FilterDivides
  <2>4. Keep(Keep(entries, f), g) = Keep(entries, Joint(f, g))
    BY <1>1, <2>1, FilterTwice
  <2>5. FilterParts'
    BY <2>2, <2>3 DEF FilterParts, Divided
  <2> QED BY <2>2, <2>4, <2>5 DEF AskedInv, FiltersCompose, SplitsBefore, SignedIsSameCode
<1>2. ASSUME NEW keys \in SeqOf(Field, MaxEntries), NEW k \in Field, AskSplit(keys, k)
      PROVE  AskedInv'
  <2>1. keys \in Seq(Field)
    BY DEF SeqOf
  <2>2. query' = [f |-> "split", keys |-> keys, key |-> k] /\ reply' = split_dict_on_key(k, keys)
    BY <1>2 DEF AskSplit
  <2>3. SplitsBefore'
    <3> DEFINE r == split_dict_on_key(k, keys)
    <3>1. /\ r[1] \o r[2] = keys
          /\ (\E i \in DOMAIN keys : keys[i] = k) => r[2] # <<>> /\ r[2][1] = k
      BY <2>1, SplitBefore
    <3>2. query'.keys = keys /\ query'.key = k /\ reply' = r
      BY <2>2
    <3> HIDE DEF r
    <3> QED BY <3>1, <3>2 DEF SplitsBefore
  <2> QED BY <2>2, <2>3 DEF AskedInv, FilterParts, FiltersCompose, SignedIsSameCode
<1>3. ASSUME NEW n \in -Power[Width - 1]..Power[Width + 1] - 1, AskSigned(n)
      PROVE  AskedInv'
  <2>1. query' = [f |-> "signed", n |-> n] /\ reply' = to_signed(n, Width)
    BY <1>3 DEF AskSigned
  <2>2. SignedIsSameCode'
    BY <2>1, SignedIs DEF SignedIsSameCode
  <2> QED BY <2>1, <2>2 DEF AskedInv, FilterParts, FiltersCompose, SplitsBefore
<1>4. CASE UNCHANGED zvars
  BY <1>4 DEF zvars, AskedInv, FilterParts, FiltersCompose, SplitsBefore, SignedIsSameCode
<1> QED BY <1>1, <1>2, <1>3, <1>4 DEF ZNext

(* A filter and its inverse part the entries between them, filters compose,*)
(* a dictionary is split before its key, and a signed number has the same  *)
(* code: for any entries, filters and keys, and numbers of any width.      *)
THEOREM PartsAreSelected == ZSpec => [](FilterParts /\ FiltersCompose /\ SplitsBefore /\ SignedIsSameCode)
<1>1. AskedInv => FilterParts /\ FiltersCompose /\ SplitsBefore /\ SignedIsSameCode
  BY DEF AskedInv
<1> QED BY <1>1, AskedStarts, AskedStays, PTL DEF ZSpec

-----------------------------------------------------------------------------
(* list_to_report.  A line as it is printed has the dashes' length, and    *)
(* all of its cells' places are told by the dashes.                        *)
LEMMA Extremes ==
  ASSUME NEW n \in Nat, NEW S \in SUBSET (1..n), S # {}
  PROVE  (\E i \in S : \A j \in S : i <= j) /\ (\E i \in S : \A j \in S : j <= i)
<1>1. \E i \in S : \A j \in S : i <= j
  <2>1. S \subseteq Nat
    OBVIOUS
  <2>2. PICK i \in S : \A j \in S : ~(j < i)
    BY <2>1, LeastNatural
  <2> QED BY <2>1, <2>2
<1>2. \E i \in S : \A j \in S : j <= i
  <2> DEFINE T == {n - i : i \in S}
  <2>1. T \subseteq Nat /\ T # {}
    <3>1. ASSUME NEW i \in S PROVE n - i \in Nat
      OBVIOUS
    <3>2. T # {}
      OBVIOUS
    <3> QED BY <3>1, <3>2
  <2>2. PICK k \in T : \A m \in T : ~(m < k)
    <3> HIDE DEF T
    <3> QED BY <2>1, LeastNatural
  <2>3. PICK i \in S : k = n - i
    OBVIOUS
  <2>4. ASSUME NEW j \in S PROVE j <= i
    <3>1. ~(n - j < k)
      BY <2>2
    <3> QED BY <3>1, <2>3
  <2> QED BY <2>4
<1> QED BY <1>1, <1>2

LEMMA PadIs ==
  ASSUME NEW X, Space \in X, NEW s \in Seq(X), NEW n \in Nat
  PROVE  /\ Pad(s, n) \in Seq(X)
         /\ Len(Pad(s, n)) = IF n > Len(s) THEN n ELSE Len(s)
         /\ \A i \in 1..Len(Pad(s, n)) : Pad(s, n)[i] = IF i <= Len(s) THEN s[i] ELSE Space
<1> DEFINE m == IF n > Len(s) THEN n - Len(s) ELSE 0
           b == [i \in 1..m |-> Space]
<1>0. Len(s) \in Nat
  OBVIOUS
<1>1. m \in Nat /\ Len(s) \in Nat /\ Pad(s, n) = s \o b
  BY <1>0 DEF Pad
<1>5. Len(s) + m = IF n > Len(s) THEN n ELSE Len(s)
  BY <1>0
<1> HIDE DEF m
<1>2. b \in Seq(X) /\ Len(b) = m /\ \A i \in 1..m : b[i] = Space
  <2>2. b \in [1..m -> X] /\ \A i \in 1..m : b[i] = Space
    OBVIOUS
  <2>3. b \in Seq(X)
    BY <1>1, <2>2
  <2>4. DOMAIN b = 1..m
    BY <2>2
  <2>5. Len(b) = m
    <3> HIDE DEF b
    <3>1. DOMAIN b = 1..Len(b) /\ Len(b) \in Nat
      BY <2>3, LenProperties
    <3> QED BY <1>1, <2>4, <3>1
  <2> QED BY <2>2, <2>3, <2>5
<1> HIDE DEF b
<1>3. /\ s \o b \in Seq(X) /\ Len(s \o b) = Len(s) + m
      /\ \A i \in 1..Len(s) + m : (s \o b)[i] = IF i <= Len(s) THEN s[i] ELSE b[i - Len(s)]
  BY <1>2, ConcatProperties
<1>4. ASSUME NEW i \in 1..Len(s) + m PROVE (s \o b)[i] = IF i <= Len(s) THEN s[i] ELSE Space
  <2>1. ~(i <= Len(s)) => i - Len(s) \in 1..m
    BY <1>1
  <2> QED BY <2>1, <1>2, <1>3
<1> QED BY <1>1, <1>3, <1>4, <1>5

(* Blanks at the end are none of what Strip leaves.                        *)
LEMMA StripPadded ==
  ASSUME NEW X, Space \in X, NEW s \in Seq(X), NEW n \in Nat
  PROVE  Strip(Pad(s, n)) = Strip(s)
<1> DEFINE t == Pad(s, n)
           full(u) == {i \in 1..Len(u) : u[i] # Space}
           a(S) == CHOOSE i \in S : \A j \in S : i <= j
           z(S) == CHOOSE i \in S : \A j \in S : j <= i
<1>0. Len(s) \in Nat /\ Len(t) \in Nat /\ Len(t) >= Len(s) /\ t \in Seq(X)
  BY PadIs
<1>1. \A i \in 1..Len(t) : t[i] = IF i <= Len(s) THEN s[i] ELSE Space
  BY PadIs
<1> HIDE DEF t
<1>2. full(t) = full(s)
  <2>1. ASSUME NEW i \in full(t) PROVE i \in full(s)
    <3>1. i \in 1..Len(t) /\ t[i] # Space
      OBVIOUS
    <3>2. i <= Len(s) /\ s[i] = t[i]
      BY <1>1, <3>1
    <3> QED BY <1>0, <3>1, <3>2
  <2>2. ASSUME NEW i \in full(s) PROVE i \in full(t)
    <3>1. i \in 1..Len(s) /\ s[i] # Space
      OBVIOUS
    <3>2. i \in 1..Len(t) /\ t[i] = s[i]
      BY <1>0, <1>1, <3>1
    <3> QED BY <3>1, <3>2
  <2> QED BY <2>1, <2>2
<1>3. CASE full(s) = {}
  BY <1>2, <1>3 DEF Strip, t
<1>4. CASE full(s) # {}
  <2>1. Strip(t) = SubSeq(t, a(full(t)), z(full(t))) /\ Strip(s) = SubSeq(s, a(full(s)), z(full(s)))
    BY <1>2, <1>4 DEF Strip
  <2> DEFINE S == full(s)
  <2>2. S \in SUBSET (1..Len(s)) /\ S # {}
    BY <1>4
  <2> HIDE DEF S
  <2>3. a(S) \in S /\ z(S) \in S
    BY <1>0, <2>2, Extremes
  <2>4. a(S) \in 1..Len(s) /\ z(S) \in 1..Len(s)
    BY <2>2, <2>3
  <2> HIDE DEF a, z
  <2>5. SubSeq(t, a(S), z(S)) = SubSeq(s, a(S), z(S))
    <3>1. \A i \in a(S)..z(S) : t[i] = s[i] /\ s[i] \in X
      BY <1>0, <1>1, <2>4
    <3> QED BY <1>0, <2>4, <3>1, SubSeqProperties, SeqEqual
  <2> QED BY <1>2, <2>1, <2>5 DEF S, t
<1> QED BY <1>3, <1>4

LEMMA SubIs ==
  ASSUME NEW X, NEW s \in Seq(X), NEW m \in Nat \ {0}, NEW k \in Nat, m + k <= Len(s) + 1
  PROVE  LET u == SubSeq(s, m, m + k - 1)
         IN  u \in Seq(X) /\ Len(u) = k /\ \A i \in 1..k : u[i] = s[m + i - 1]
<1>1. Len(s) \in Nat
  OBVIOUS
<1>2. ASSUME NEW i \in m..m + k - 1 PROVE s[i] \in X
  <2>1. i \in 1..Len(s)
    BY <1>1
  <2> QED BY <2>1, ElementOfSeq
<1> DEFINE u == SubSeq(s, m, m + k - 1)
<1>3. /\ u \in Seq(X) /\ Len(u) = (IF m <= m + k - 1 THEN m + k - 1 - m + 1 ELSE 0)
      /\ \A i \in 1..m + k - 1 - m + 1 : u[i] = s[m + i - 1]
  <2>1. m \in Int /\ m + k - 1 \in Int
    OBVIOUS
  <2> QED BY <1>2, <2>1, SubSeqProperties
<1> HIDE DEF u
<1>4. u \in Seq(X) /\ Len(u) = k /\ \A i \in 1..k : u[i] = s[m + i - 1]
  <2>1. m + k - 1 - m + 1 = k /\ (~(m <= m + k - 1) => k = 0)
    OBVIOUS
  <2> QED BY <1>3, <2>1
<1> QED BY <1>4 DEF u

(* Two cells in their columns.                                             *)
Row(a, b) == a \o <<Space>> \o b

LEMMA PrintedIs ==
  ASSUME NEW X, Space \in X, NEW a \in Seq(X), NEW b \in Seq(X)
  PROVE  /\ Row(a, b) \in Seq(X) /\ Len(Row(a, b)) = Len(a) + 1 + Len(b)
         /\ \A i \in 1..Len(a) : Row(a, b)[i] = a[i]
         /\ Row(a, b)[Len(a) + 1] = Space
         /\ \A i \in 1..Len(b) : Row(a, b)[Len(a) + 1 + i] = b[i]
         /\ SubSeq(Row(a, b), 1, Len(a)) = a
         /\ SubSeq(Row(a, b), Len(a) + 2, Len(a) + 1 + Len(b)) = b
<1> DEFINE s == a \o <<Space>>
           r == Row(a, b)
<1>1. <<Space>> \in Seq(X) /\ Len(<<Space>>) = 1 /\ <<Space>>[1] = Space /\ Len(a) \in Nat /\ Len(b) \in Nat
  OBVIOUS
<1>2. /\ s \in Seq(X) /\ Len(s) = Len(a) + 1 /\ s[Len(a) + 1] = Space
      /\ \A i \in 1..Len(a) : s[i] = a[i]
  BY <1>1, ConcatProperties
<1>s. r = s \o b
  BY DEF Row
<1> HIDE DEF s
<1>3. /\ r \in Seq(X) /\ Len(r) = Len(s) + Len(b)
      /\ \A i \in 1..Len(s) + Len(b) : r[i] = IF i <= Len(s) THEN s[i] ELSE b[i - Len(s)]
  <2>1. s \o b \in Seq(X) /\ Len(s \o b) = Len(s) + Len(b)
        /\ \A i \in 1..Len(s) + Len(b) : (s \o b)[i] = IF i <= Len(s) THEN s[i] ELSE b[i - Len(s)]
    BY <1>2, ConcatProperties
  <2> QED BY <2>1, <1>s
<1> HIDE DEF r
<1>4. \A i \in 1..Len(a) : r[i] = a[i]
  BY <1>1, <1>2, <1>3
<1>5. r[Len(a) + 1] = Space
  BY <1>1, <1>2, <1>3
<1>6. ASSUME NEW i \in 1..Len(b) PROVE r[Len(a) + 1 + i] = b[i]
  <2>1. /\ Len(a) + 1 + i \in 1..Len(s) + Len(b) /\ ~(Len(a) + 1 + i <= Len(s))
        /\ Len(a) + 1 + i - Len(s) = i
    BY <1>1, <1>2
  <2> QED BY <2>1, <1>3
<1>7. Len(r) = Len(a) + 1 + Len(b)
  BY <1>1, <1>2, <1>3
<1>8. SubSeq(r, 1, Len(a)) = a
  <2>1. \A i \in 1..Len(a) : r[i] \in X
    BY <1>4, ElementOfSeq
  <2> QED BY <1>1, <1>4, <2>1, SubSeqProperties, SeqEqual
<1>9. SubSeq(r, Len(a) + 2, Len(a) + 1 + Len(b)) = b
  <2> DEFINE u == SubSeq(r, Len(a) + 2, Len(a) + 1 + Len(b))
  <2>1. ASSUME NEW i \in Len(a) + 2..Len(a) + 1 + Len(b) PROVE r[i] \in X
    <3>1. i \in 1..Len(r)
      BY <1>1, <1>7
    <3> QED BY <3>1, <1>3, ElementOfSeq
  <2>2. u \in Seq(X) /\ Len(u) = Len(b) /\ \A i \in 1..Len(b) : u[i] = r[Len(a) + 1 + i]
    <3>1. /\ u \in Seq(X)
          /\ Len(u) = IF Len(a) + 2 <= Len(a) + 1 + Len(b) THEN Len(a) + 1 + Len(b) - (Len(a) + 2) + 1 ELSE 0
          /\ \A i \in 1..Len(a) + 1 + Len(b) - (Len(a) + 2) + 1 : u[i] = r[Len(a) + 2 + i - 1]
      BY <1>1, <2>1, SubSeqProperties
    <3> HIDE DEF u
    <3> QED BY <1>1, <3>1
  <2> HIDE DEF u
  <2>3. u = b
    BY <1>6, <2>2, SeqEqual
  <2> QED BY <2>3 DEF u
<1> QED BY <1>3, <1>4, <1>5, <1>6, <1>7, <1>8, <1>9 DEF r, s
LEMMA RowLength ==
  ASSUME NEW X, Space \in X, NEW a \in Seq(X), NEW b \in Seq(X)
  PROVE  Row(a, b) \in Seq(X) /\ Len(Row(a, b)) = Len(a) + 1 + Len(b)
BY PrintedIs

LEMMA RowCells ==
  ASSUME NEW X, Space \in X, NEW a \in Seq(X), NEW b \in Seq(X)
  PROVE  SubSeq(Row(a, b), 1, Len(a)) = a /\ SubSeq(Row(a, b), Len(a) + 2, Len(a) + 1 + Len(b)) = b
<1>1. SubSeq(Row(a, b), 1, Len(a)) = a
  BY PrintedIs
<1>2. SubSeq(Row(a, b), Len(a) + 2, Len(a) + 1 + Len(b)) = b
  BY PrintedIs
<1> QED BY <1>1, <1>2

(* A line that lost the blanks at its end is filled up to what it was.     *)
LEMMA FilledUp ==
  ASSUME NEW X, Space \in X, NEW a \in Seq(X), NEW b \in Seq(X), NEW n \in 0..Len(a),
         \A i \in n + 1..Len(a) : a[i] = Space, \A i \in 1..Len(b) : b[i] = Space
  PROVE  LET r == Row(a, b) IN Pad(SubSeq(r, 1, n), Len(r)) = r
<1> DEFINE r == Row(a, b)
           t == SubSeq(r, 1, n)
<1>1. /\ r \in Seq(X) /\ Len(r) = Len(a) + 1 + Len(b) /\ \A i \in 1..Len(a) : r[i] = a[i]
      /\ r[Len(a) + 1] = Space /\ \A i \in 1..Len(b) : r[Len(a) + 1 + i] = b[i]
  <2>1. r \in Seq(X) /\ Len(r) = Len(a) + 1 + Len(b)
    BY PrintedIs
  <2>2. \A i \in 1..Len(a) : r[i] = a[i]
    BY PrintedIs
  <2>3. r[Len(a) + 1] = Space
    BY PrintedIs
  <2>4. \A i \in 1..Len(b) : r[Len(a) + 1 + i] = b[i]
    BY PrintedIs
  <2> QED BY <2>1, <2>2, <2>3, <2>4
<1>2. Len(a) \in Nat /\ Len(b) \in Nat /\ n \in Nat
  OBVIOUS
<1> HIDE DEF r
<1>3. t \in Seq(X) /\ Len(t) = n /\ \A i \in 1..n : t[i] = r[i]
  <2>1. n + 1 <= Len(r) + 1 /\ 1 + n - 1 = n /\ 1 \in Nat \ {0}
    BY <1>1, <1>2
  <2>2. t \in Seq(X) /\ Len(t) = n /\ \A i \in 1..n : t[i] = r[1 + i - 1]
    BY <1>1, <1>2, <2>1, SubIs
  <2> HIDE DEF t
  <2>3. \A i \in 1..n : 1 + i - 1 = i
    BY <1>2
  <2> QED BY <2>2, <2>3
<1> HIDE DEF t
<1>4. \A i \in n + 1..Len(r) : r[i] = Space
  <2>1. ASSUME NEW i \in n + 1..Len(r) PROVE r[i] = Space
    <3>1. CASE i <= Len(a)
      <4>1. i \in 1..Len(a) /\ i \in n + 1..Len(a)
        BY <1>2, <3>1
      <4>2. r[i] = a[i]
        BY <1>1, <4>1
      <4> QED BY <4>1, <4>2
    <3>2. CASE i = Len(a) + 1
      <4>1. r[Len(a) + 1] = Space
        BY <1>1
      <4> QED BY <3>2, <4>1
    <3>3. CASE i > Len(a) + 1
      <4>1. i - (Len(a) + 1) \in 1..Len(b) /\ Len(a) + 1 + (i - (Len(a) + 1)) = i
        BY <1>1, <1>2, <3>3
      <4> QED BY <1>1, <4>1
    <3> QED BY <1>2, <3>1, <3>2, <3>3
  <2> QED BY <2>1
<1>5. Len(r) \in Nat /\ n <= Len(r)
  BY <1>1, <1>2
<1>6. /\ Pad(t, Len(r)) \in Seq(X) /\ Len(Pad(t, Len(r))) = Len(r)
      /\ \A i \in 1..Len(r) : Pad(t, Len(r))[i] = IF i <= n THEN t[i] ELSE Space
  <2>1. /\ Pad(t, Len(r)) \in Seq(X) /\ Len(Pad(t, Len(r))) = (IF Len(r) > n THEN Len(r) ELSE n)
        /\ \A i \in 1..Len(Pad(t, Len(r))) : Pad(t, Len(r))[i] = IF i <= n THEN t[i] ELSE Space
    BY <1>3, <1>5, PadIs
  <2>2. (IF Len(r) > n THEN Len(r) ELSE n) = Len(r)
    BY <1>2, <1>5
  <2> QED BY <2>1, <2>2
<1>7. ASSUME NEW i \in 1..Len(r) PROVE Pad(t, Len(r))[i] = r[i]
  BY <1>2, <1>3, <1>4, <1>6
<1>8. Pad(t, Len(r)) = r
  BY <1>1, <1>6, <1>7, SeqEqual
<1> QED BY <1>8 DEF t, r

(* The dashes of two columns, and where they are.                          *)
LEMMA RuleIs ==
  ASSUME NEW v \in Nat \ {0}, NEW w \in Nat \ {0}
  PROVE  /\ Len(Row(Rule(v), Rule(w))) = v + 1 + w
         /\ \A i \in 1..v + 1 + w : Row(Rule(v), Rule(w))[i] = Space <=> i = v + 1
         /\ \A i \in 1..v + 1 + w : Row(Rule(v), Rule(w))[i] = "-" <=> i # v + 1
         /\ Fields(Row(Rule(v), Rule(w))) = {<<1, v>>, <<v + 2, v + 1 + w>>}
<1> DEFINE d == Row(Rule(v), Rule(w))
           X == {"-", Space}
<1>1. \A n \in Nat : Rule(n) \in Seq(X) /\ Len(Rule(n)) = n /\ \A i \in 1..n : Rule(n)[i] = "-"
  BY DEF Rule
<1>2. /\ Len(d) = v + 1 + w /\ \A i \in 1..v : d[i] = "-"
      /\ d[v + 1] = Space /\ \A i \in 1..w : d[v + 1 + i] = "-"
  <2> DEFINE a == Rule(v)
             b == Rule(w)
  <2>1. /\ a \in Seq(X) /\ Len(a) = v /\ \A i \in 1..v : a[i] = "-"
        /\ b \in Seq(X) /\ Len(b) = w /\ \A i \in 1..w : b[i] = "-"
    BY <1>1
  <2>0. Space \in X
    OBVIOUS
  <2> HIDE DEF a, b, X
  <2>3. a \in Seq(X) /\ b \in Seq(X)
    BY <2>1
  <2>2. /\ Len(Row(a, b)) = Len(a) + 1 + Len(b)
        /\ \A i \in 1..Len(a) : Row(a, b)[i] = a[i]
        /\ Row(a, b)[Len(a) + 1] = Space
        /\ \A i \in 1..Len(b) : Row(a, b)[Len(a) + 1 + i] = b[i]
    <3>1. Len(Row(a, b)) = Len(a) + 1 + Len(b)
      BY <2>0, <2>3, PrintedIs
    <3>2. \A i \in 1..Len(a) : Row(a, b)[i] = a[i]
      BY <2>0, <2>3, PrintedIs
    <3>3. Row(a, b)[Len(a) + 1] = Space
      BY <2>0, <2>3, PrintedIs
    <3>4. \A i \in 1..Len(b) : Row(a, b)[Len(a) + 1 + i] = b[i]
      BY <2>0, <2>3, PrintedIs
    <3> QED BY <3>1, <3>2, <3>3, <3>4
  <2> QED BY <2>1, <2>2 DEF a, b
<1> HIDE DEF d
<1>3. Space # "-"
  BY Zenon DEF Space
<1>4. ASSUME NEW i \in 1..v + 1 + w
      PROVE  (d[i] = Space <=> i = v + 1) /\ (d[i] = "-" <=> i # v + 1)
  <2>1. CASE i <= v
    BY <1>2, <1>3, <2>1
  <2>2. CASE i = v + 1
    BY <1>2, <1>3, <2>2
  <2>3. CASE i > v + 1
    <3>1. i - (v + 1) \in 1..w /\ v + 1 + (i - (v + 1)) = i
      BY <2>3
    <3> QED BY <1>2, <1>3, <2>3, <3>1
  <2> QED BY <2>1, <2>2, <2>3
<1>5. ASSUME NEW f \in Fields(d) PROVE f \in {<<1, v>>, <<v + 2, v + 1 + w>>}
  <2>1. PICK p \in 1..v + 1 + w, q \in 1..v + 1 + w :
          /\ f = <<p, q>> /\ p <= q /\ \A i \in p..q : d[i] = "-"
          /\ p = 1 \/ d[p - 1] = Space
          /\ q = v + 1 + w \/ d[q + 1] = Space
    <3>1. /\ f \in (1..Len(d)) \X (1..Len(d))
          /\ f[1] <= f[2] /\ \A i \in f[1]..f[2] : d[i] = "-"
          /\ f[1] = 1 \/ d[f[1] - 1] = Space
          /\ f[2] = Len(d) \/ d[f[2] + 1] = Space
      BY DEF Fields
    <3>2. PICK p \in 1..Len(d), q \in 1..Len(d) : f = <<p, q>>
      BY <3>1
    <3>3. Len(d) = v + 1 + w /\ f[1] = p /\ f[2] = q
      BY <1>2, <3>2
    <3> QED BY <3>1, <3>2, <3>3
  <2>2. p = 1 \/ p = v + 2
    <3>1. p # 1 => p - 1 \in 1..v + 1 + w
      OBVIOUS
    <3> QED BY <2>1, <3>1, <1>4
  <2>3. q = v + 1 + w \/ q = v
    <3>1. q # v + 1 + w => q + 1 \in 1..v + 1 + w
      OBVIOUS
    <3> QED BY <2>1, <3>1, <1>4
  <2>4. ~(p <= v + 1 /\ v + 1 <= q)
    BY <2>1, <1>4
  <2> QED BY <2>1, <2>2, <2>3, <2>4
<1>6. <<1, v>> \in Fields(d)
  <2>1. 1 \in 1..Len(d) /\ v \in 1..Len(d) /\ 1 <= v /\ v + 1 \in 1..v + 1 + w /\ \A i \in 1..v : d[i] = "-"
    BY <1>2
  <2> QED BY <2>1, <1>2 DEF Fields
<1>7. <<v + 2, v + 1 + w>> \in Fields(d)
  <2>1. /\ v + 2 \in 1..Len(d) /\ v + 1 + w \in 1..Len(d) /\ v + 2 <= v + 1 + w
        /\ v + 2 - 1 = v + 1 /\ \A i \in v + 2..v + 1 + w : d[i] = "-"
    BY <1>2, <1>4
  <2> QED BY <2>1, <1>2 DEF Fields
<1>8. Fields(d) = {<<1, v>>, <<v + 2, v + 1 + w>>}
  BY <1>5, <1>6, <1>7
<1> QED BY <1>2, <1>4, <1>8 DEF d

(* ReadLine of a line that is long enough.                                 *)
ReadFrom(dashes, s) ==
  LET fits == {o \in 0..Len(s) - Len(dashes) :
                 \A i \in 1..Len(dashes) : dashes[i] = Space => s[o + i] = Space}
      o == CHOOSE n \in fits : \A m \in fits : n <= m
  IN IF fits = {} THEN {"IndexError"} ELSE {<<f[1], Strip(SubSeq(s, o + f[1], o + f[2]))>> : f \in Fields(dashes)}

(* Such a line is read where it begins, a cell for each of the fields.     *)
LEMMA ReadIs ==
  ASSUME NEW v \in Nat \ {0}, NEW w \in Nat \ {0}, NEW X, Space \in X, NEW a \in Seq(X), NEW b \in Seq(X),
         Len(a) = v, Len(b) = w, NEW line, Pad(line, v + 1 + w) = Row(a, b)
  PROVE  ReadLine(Row(Rule(v), Rule(w)), line) = {<<1, Strip(a)>>, <<v + 2, Strip(b)>>}
<1> DEFINE d == Row(Rule(v), Rule(w))
           r == Row(a, b)
           fits == {o \in 0..Len(r) - Len(d) : \A i \in 1..Len(d) : d[i] = Space => r[o + i] = Space}
           o == CHOOSE n \in fits : \A m \in fits : n <= m
           cell(f) == <<f[1], Strip(SubSeq(r, o + f[1], o + f[2]))>>
<1>1. /\ Len(d) = v + 1 + w /\ \A i \in 1..v + 1 + w : d[i] = Space <=> i = v + 1
      /\ Fields(d) = {<<1, v>>, <<v + 2, v + 1 + w>>}
  <2>1. Len(d) = v + 1 + w
    BY RuleIs
  <2>2. \A i \in 1..v + 1 + w : d[i] = Space <=> i = v + 1
    BY RuleIs
  <2>3. Fields(d) = {<<1, v>>, <<v + 2, v + 1 + w>>}
    BY RuleIs
  <2> QED BY <2>1, <2>2, <2>3
<1>2. /\ Len(r) = v + 1 + w /\ r[v + 1] = Space
      /\ SubSeq(r, 1, v) = a /\ SubSeq(r, v + 2, v + 1 + w) = b
  <2>1. Len(r) = v + 1 + w
    BY RowLength
  <2>2. r[v + 1] = Space
    BY PrintedIs
  <2>3. SubSeq(r, 1, Len(a)) = a /\ SubSeq(r, Len(a) + 2, Len(a) + 1 + Len(b)) = b
    BY RowCells
  <2> QED BY <2>1, <2>2, <2>3
<1> HIDE DEF d, r
<1>3. fits = {0}
  <2>1. Len(r) - Len(d) = 0
    BY <1>1, <1>2
  <2>2. \A i \in 1..Len(d) : d[i] = Space => r[0 + i] = Space
    BY <1>1, <1>2
  <2> QED BY <2>1, <2>2
<1>4. ReadLine(d, line) = IF fits = {} THEN {"IndexError"} ELSE {cell(f) : f \in Fields(d)}
  <2>1. Pad(line, Len(d)) = r
    BY <1>1 DEF r
  <2>2. ReadLine(d, line) = ReadFrom(d, Pad(line, Len(d)))
    BY DEF ReadLine, ReadFrom
  <2>3. ReadFrom(d, r) = IF fits = {} THEN {"IndexError"} ELSE {cell(f) : f \in Fields(d)}
    BY DEF ReadFrom
  <2> QED BY <2>1, <2>2, <2>3
<1> HIDE DEF fits
<1>5. o = 0
  BY <1>3
<1> HIDE DEF o
<1>6. cell(<<1, v>>) = <<1, Strip(a)>> /\ cell(<<v + 2, v + 1 + w>>) = <<v + 2, Strip(b)>>
  <2>1. 0 + 1 = 1 /\ 0 + v = v /\ 0 + (v + 2) = v + 2 /\ 0 + (v + 1 + w) = v + 1 + w
    OBVIOUS
  <2>2. cell(<<1, v>>) = <<1, Strip(SubSeq(r, 1, v))>>
    BY <1>5, <2>1
  <2>3. cell(<<v + 2, v + 1 + w>>) = <<v + 2, Strip(SubSeq(r, v + 2, v + 1 + w))>>
    BY <1>5, <2>1
  <2> QED BY <1>2, <2>2, <2>3
<1> HIDE DEF cell
<1>7. ReadLine(d, line) = {cell(<<1, v>>), cell(<<v + 2, v + 1 + w>>)}
  BY <1>1, <1>3, <1>4
<1> QED BY <1>6, <1>7 DEF d

(* Nothing is left of blanks alone.                                        *)
LEMMA NothingLeft ==
  ASSUME NEW X, NEW s \in Seq(X), Strip(s) = <<>>
  PROVE  \A i \in 1..Len(s) : s[i] = Space
<1> DEFINE full == {i \in 1..Len(s) : s[i] # Space}
           a == CHOOSE i \in full : \A j \in full : i <= j
           z == CHOOSE i \in full : \A j \in full : j <= i
<1>1. SUFFICES ASSUME full # {} PROVE FALSE
  OBVIOUS
<1>2. Len(s) \in Nat /\ full \in SUBSET (1..Len(s))
  OBVIOUS
<1>3. Strip(s) = SubSeq(s, a, z)
  BY <1>1 DEF Strip
<1> HIDE DEF full
<1>4. a \in full /\ z \in full /\ a <= z
  BY <1>1, <1>2, Extremes
<1>5. a \in 1..Len(s) /\ z \in 1..Len(s)
  BY <1>2, <1>4
<1> HIDE DEF a, z
<1>6. \A i \in a..z : s[i] \in X
  BY <1>2, <1>5
<1>7. Len(SubSeq(s, a, z)) = z - a + 1
  BY <1>4, <1>5, <1>6, SubSeqProperties
<1> QED BY <1>3, <1>4, <1>5, <1>7

(* What ReadReport reads of cells no wider than their columns.             *)
LEMMA CellsRead ==
  ASSUME NEW v \in Nat \ {0}, NEW w \in Nat \ {0}, NEW c1 \in Seq({"x", Space}), NEW c2 \in Seq({"x", Space}),
         Len(c1) <= v, Len(c2) <= w, NEW trim, trim => Strip(c2) = <<>>
  PROVE  ReadLine(Row(Rule(v), Rule(w)), IF trim THEN SubSeq(Row(Pad(c1, v), Pad(c2, w)), 1, Len(c1))
                                         ELSE Row(Pad(c1, v), Pad(c2, w)))
           = {<<1, Strip(c1)>>, <<v + 2, Strip(c2)>>}
<1> DEFINE X == {"x", Space}
           a == Pad(c1, v)
           b == Pad(c2, w)
           line == Row(a, b)
<1>0. Space \in X /\ c1 \in Seq(X) /\ c2 \in Seq(X) /\ Len(c1) \in Nat /\ Len(c2) \in Nat
  OBVIOUS
<1> HIDE DEF X
<1>1. a \in Seq(X) /\ b \in Seq(X) /\ Len(a) = v /\ Len(b) = w
  BY <1>0, PadIs
<1>2. Strip(a) = Strip(c1) /\ Strip(b) = Strip(c2)
  BY <1>0, StripPadded
<1>3. /\ \A i \in Len(c1) + 1..v : a[i] = Space
      /\ \A i \in 1..w : b[i] = IF i <= Len(c2) THEN c2[i] ELSE Space
  <2>1. /\ \A i \in 1..Len(a) : a[i] = IF i <= Len(c1) THEN c1[i] ELSE Space
        /\ \A i \in 1..Len(b) : b[i] = IF i <= Len(c2) THEN c2[i] ELSE Space
    BY <1>0, PadIs
  <2> HIDE DEF a, b
  <2> QED BY <1>0, <1>1, <2>1
<1> HIDE DEF a, b
<1>4. line \in Seq(X) /\ Len(line) = v + 1 + w
  <2>1. Row(a, b) \in Seq(X) /\ Len(Row(a, b)) = Len(a) + 1 + Len(b)
    BY <1>0, <1>1, RowLength
  <2> QED BY <1>1, <2>1
<1>5. CASE trim
  <2>1. \A i \in 1..w : b[i] = Space
    <3>1. \A i \in 1..Len(c2) : c2[i] = Space
      BY <1>0, <1>5, NothingLeft
    <3> QED BY <3>1, <1>0, <1>3
  <2>2. Pad(SubSeq(line, 1, Len(c1)), Len(line)) = line
    <3>1. Len(c1) \in 0..Len(a)
      BY <1>0, <1>1
    <3>2. \A i \in Len(c1) + 1..Len(a) : a[i] = Space
      BY <1>1, <1>3
    <3>3. \A i \in 1..Len(b) : b[i] = Space
      BY <1>1, <2>1
    <3> QED BY <1>0, <1>1, <3>1, <3>2, <3>3, FilledUp
  <2>3. Len(line) = v + 1 + w
    BY <1>4
  <2>4. Pad(SubSeq(line, 1, Len(c1)), v + 1 + w) = Row(a, b)
    BY <2>2, <2>3
  <2>5. ReadLine(Row(Rule(v), Rule(w)), SubSeq(line, 1, Len(c1))) = {<<1, Strip(a)>>, <<v + 2, Strip(b)>>}
    <3> DEFINE t == SubSeq(line, 1, Len(c1))
    <3>1. Pad(t, v + 1 + w) = Row(a, b)
      BY <2>4
    <3> HIDE DEF t
    <3>2. ReadLine(Row(Rule(v), Rule(w)), t) = {<<1, Strip(a)>>, <<v + 2, Strip(b)>>}
      BY <3>1, <1>0, <1>1, ReadIs
    <3> QED BY <3>2 DEF t
  <2> QED BY <2>5, <1>2, <1>5 DEF a, b
<1>6. CASE ~trim
  <2>1. line \in Seq(X) /\ Len(line) = v + 1 + w
    BY <1>4
  <2>2. Pad(line, v + 1 + w) = line
    <3> HIDE DEF line
    <3> DEFINE u == Pad(line, v + 1 + w)
    <3>1. /\ v + 1 + w \in Nat /\ ~(v + 1 + w > Len(line))
      BY <2>1
    <3>2. u \in Seq(X) /\ Len(u) = Len(line) /\ \A i \in 1..Len(u) : u[i] = IF i <= Len(line) THEN line[i] ELSE Space
      BY <1>0, <2>1, <3>1, PadIs
    <3> HIDE DEF u
    <3>3. \A i \in 1..Len(u) : u[i] = line[i]
      BY <2>1, <3>2
    <3>4. u = line
      BY <2>1, <3>2, <3>3, SeqEqual
    <3> QED BY <3>4 DEF u
  <2>3. ReadLine(Row(Rule(v), Rule(w)), line) = {<<1, Strip(a)>>, <<v + 2, Strip(b)>>}
    BY <2>2, <1>0, <1>1, ReadIs
  <2> QED BY <2>3, <1>2, <1>6 DEF a, b
<1> QED BY <1>5, <1>6

LEMMA SeqOfIsSeq == ASSUME NEW X, NEW n, NEW s \in SeqOf(X, n) PROVE s \in Seq(X)
BY DEF SeqOf

(* What ReadReport reads.                                                  *)
LEMMA CellsCame ==
  ASSUME NEW w \in (1..2) \X (1..2), NEW cells \in Cell \X Cell, NEW trim \in BOOLEAN,
         trim => Strip(cells[2]) = <<>>, ReadReport(w, cells, trim)
  PROVE  CellsComeBack'
<1>1. PICK v \in 1..2, u \in 1..2 : w = <<v, u>>
  OBVIOUS
<1>2. PICK c1 \in Cell, c2 \in Cell : cells = <<c1, c2>>
  OBVIOUS
<1>3. c1 \in Seq({"x", Space}) /\ c2 \in Seq({"x", Space})
  BY <1>2, SeqOfIsSeq DEF Cell
<1>4. /\ given' = [f |-> "report", w |-> w, cells |-> cells]
      /\ result' = ReadLine(Row(Rule(v), Rule(u)),
                            IF trim THEN SubSeq(Row(Pad(c1, v), Pad(c2, u)), 1, Len(c1))
                            ELSE Row(Pad(c1, v), Pad(c2, u)))
  BY <1>1, <1>2 DEF ReadReport, Printed, Row
<1>5. ASSUME Len(c1) <= v, Len(c2) <= u
      PROVE  result' = {<<1, Strip(c1)>>, <<v + 2, Strip(c2)>>}
  <2>1. v \in Nat \ {0} /\ u \in Nat \ {0} /\ trim => Strip(c2) = <<>>
    BY <1>2
  <2>2. ReadLine(Row(Rule(v), Rule(u)), IF trim THEN SubSeq(Row(Pad(c1, v), Pad(c2, u)), 1, Len(c1))
                                        ELSE Row(Pad(c1, v), Pad(c2, u)))
          = {<<1, Strip(c1)>>, <<v + 2, Strip(c2)>>}
    BY <2>1, <1>3, <1>5, CellsRead
  <2> QED BY <2>2, <1>4
<1>6. /\ given'.f = "report" /\ given'.w = w /\ given'.cells = cells
  BY <1>4
<1>7. SUFFICES ASSUME \A i \in 1..2 : Len(cells[i]) <= w[i]
               PROVE  result' = {<<1, Strip(cells[1])>>, <<w[1] + 2, Strip(cells[2])>>}
  BY <1>6 DEF CellsComeBack
<1>8. Len(c1) <= v /\ Len(c2) <= u
  BY <1>1, <1>2, <1>7
<1> QED BY <1>1, <1>2, <1>5, <1>8

-----------------------------------------------------------------------------
(* key_value_list_to_dict.  An entry is put beside the others.             *)
LEMMA PutDomain == ASSUME NEW d, NEW k, NEW v PROVE DOMAIN Put(d, k, v) = DOMAIN d \cup {k}
BY DEF Put

LEMMA PutHas == ASSUME NEW d, NEW k, NEW v PROVE Put(d, k, v)[k] = v
BY DEF Put

LEMMA PutKeeps == ASSUME NEW d, NEW k, NEW v, NEW j \in DOMAIN d, j # k PROVE Put(d, k, v)[j] = d[j]
BY DEF Put

Distinct(ls) == \A i, j \in 1..Len(ls) : ls[i].word = ls[j].word => i = j

(* Without indentation every line of its own key has its value.            *)
LEMMA FlatHas ==
  ASSUME NEW s \in Seq(Lines), Distinct(s)
  PROVE  \A j \in 1..Len(s) : s[j].word \in DOMAIN FlatDict(s) /\ FlatDict(s)[s[j].word] = Plain(s[j].value)
<1>p. PICK p : /\ p[0] = <<>> /\ p[Len(s)] = s
               /\ \A n \in 1..Len(s) : p[n] = Append(p[n - 1], s[n]) /\ p[n - 1] \in Seq(Lines) /\ s[n] \in Lines
  BY Beginnings
<1> DEFINE Has(n, j) == s[j].word \in DOMAIN FlatDict(p[n]) /\ FlatDict(p[n])[s[j].word] = Plain(s[j].value)
           G == {n \in 0..Len(s) : \A j \in 1..n : Has(n, j)}
<1>0. Len(s) \in Nat
  OBVIOUS
<1>1. 0 \in G
  BY <1>0
<1>2. ASSUME NEW n \in 1..Len(s), n - 1 \in G PROVE n \in G
  <2>1. FlatDict(p[n]) = Put(FlatDict(p[n - 1]), s[n].word, Plain(s[n].value))
    <3>1. p[n] = Append(p[n - 1], s[n]) /\ p[n - 1] \in Seq(Lines) /\ s[n] \in Lines
      BY <1>p
    <3>2. FlatDict(Append(p[n - 1], s[n])) = Put(FlatDict(p[n - 1]), s[n].word, Plain(s[n].value))
      BY <3>1, FlatTurn
    <3> QED BY <3>1, <3>2
  <2>5. DOMAIN FlatDict(p[n]) = DOMAIN FlatDict(p[n - 1]) \cup {s[n].word}
    <3>1. DOMAIN Put(FlatDict(p[n - 1]), s[n].word, Plain(s[n].value)) = DOMAIN FlatDict(p[n - 1]) \cup {s[n].word}
      BY PutDomain
    <3> QED BY <2>1, <3>1
  <2>2. Has(n, n)
    <3>1. s[n].word \in DOMAIN FlatDict(p[n])
      BY <2>5
    <3>2. FlatDict(p[n])[s[n].word] = Plain(s[n].value)
      BY <2>1, PutHas
    <3> QED BY <3>1, <3>2
  <2>3. ASSUME NEW j \in 1..n, j # n PROVE Has(n, j)
    <3>1. j \in 1..n - 1 /\ Has(n - 1, j)
      BY <1>2, <2>3
    <3>2. s[j].word # s[n].word
      BY <1>0, <2>3 DEF Distinct
    <3>3. s[j].word \in DOMAIN FlatDict(p[n])
      BY <2>5, <3>1
    <3>4. FlatDict(p[n])[s[j].word] = Plain(s[j].value)
      BY <2>1, <3>1, <3>2, PutKeeps
    <3> QED BY <3>3, <3>4
  <2>4. n \in 0..Len(s)
    BY <1>0
  <2> HIDE DEF Has
  <2> QED BY <2>2, <2>3, <2>4
<1>3. Len(s) \in G
  <2> HIDE DEF G
  <2> QED BY <1>0, <1>1, <1>2, CountsUp
<1> QED BY <1>0, <1>3, <1>p

(* What an entry k of value x holds of a line.                             *)
Holds(x, k, l) ==
  \/ k = l.word /\ (l.value # NoValue => x = Plain(l.value))
  \/ "dict" \in DOMAIN x /\ l.word \in DOMAIN x.dict /\ x.dict[l.word] = Plain(l.value)
  \/ "list" \in DOMAIN x /\ l.value = NoValue /\ \E i \in DOMAIN x.list : x.list[i] = l.word

(* The entry of a parent holds each of the lines below it.                 *)
LEMMA SubHolds ==
  ASSUME NEW s \in Seq(Lines), Distinct(s), NEW j \in 1..Len(s), NEW k
  PROVE  Holds(SubResult(s), k, s[j])
<1>1. CASE \E i \in 1..Len(s) : s[i].delim
  <2>1. SubResult(s) = [dict |-> FlatDict(s)]
    BY <1>1 DEF SubResult
  <2>2. s[j].word \in DOMAIN FlatDict(s) /\ FlatDict(s)[s[j].word] = Plain(s[j].value)
    BY FlatHas
  <2> QED BY <2>1, <2>2 DEF Holds
<1>2. CASE \A i \in 1..Len(s) : ~s[i].delim
  <2>1. SubResult(s) = [list |-> [i \in 1..Len(s) |-> s[i].word]]
    BY <1>2 DEF SubResult
  <2>2. s[j] \in Lines /\ ~s[j].delim
    BY <1>2
  <2>3. s[j].value = NoValue
    BY <2>2 DEF Lines
  <2> QED BY <2>1, <2>3 DEF Holds
<1> QED BY <1>1, <1>2

(* The lines below a parent become its entry.                              *)
Shut(d, q, s) == IF s = <<>> THEN d ELSE Put(d, q.word, SubResult(s))

(* Close and NextLine by what they do to the three fields.                 *)
LEMMA ClosesIs ==
  ASSUME NEW d, NEW q, NEW s
  PROVE  Close([dict |-> d, parent |-> q, sub |-> s]) = Shut(d, q, s)
BY DEF Close, Shut

LEMMA GoesBelow ==
  ASSUME NEW d, NEW q, NEW s, NEW l, l.indent > q.indent, q.value = NoValue
  PROVE  NextLine([dict |-> d, parent |-> q, sub |-> s], l) = [dict |-> d, parent |-> q, sub |-> Append(s, l)]
BY DEF NextLine

LEMMA GoesBeside ==
  ASSUME NEW d, NEW q, NEW s, NEW l, ~(l.indent > q.indent /\ q.value = NoValue)
  PROVE  NextLine([dict |-> d, parent |-> q, sub |-> s], l)
           = [dict |-> Put(Shut(d, q, s), l.word, Plain(l.value)), parent |-> l, sub |-> <<>>]
BY ClosesIs DEF NextLine

(* A dictionary of the lines up to the mth, the last of which is parent of *)
(* all that follow up to the nth; and one of all the lines to the nth.     *)
Outer(ls, n, m, d) ==
  /\ n > m => ls[m].value = NoValue
  /\ \A k \in DOMAIN d : \E i \in 1..m : k = ls[i].word
  /\ ls[m].word \in DOMAIN d /\ d[ls[m].word] = Plain(ls[m].value)
  /\ \A i \in 1..m - 1 : \E k \in DOMAIN d : k # ls[m].word /\ Holds(d[k], k, ls[i])

Inner(ls, n, m, s) ==
  s \in Seq(Lines) /\ Len(s) = n - m /\ \A j \in 1..n - m : s[j] = ls[m + j]

Whole(ls, n, d) ==
  /\ \A k \in DOMAIN d : \E i \in 1..n : k = ls[i].word
  /\ \A i \in 1..n : \E k \in DOMAIN d : Holds(d[k], k, ls[i])

(* The lines up to the parent and those below it, closed, are all there.   *)
LEMMA ShutIsWhole ==
  ASSUME NEW ls \in Seq(Lines), Distinct(ls), NEW n \in 1..Len(ls), NEW m \in 1..n,
         NEW d, NEW s, Outer(ls, n, m, d), Inner(ls, n, m, s)
  PROVE  Whole(ls, n, Shut(d, ls[m], s))
<1>0. Len(ls) \in Nat /\ n \in Nat /\ m \in Nat /\ ls[m] \in Lines
  OBVIOUS
<1>1. CASE s = <<>>
  <2>1. n = m
    BY <1>0, <1>1 DEF Inner
  <2>2. Shut(d, ls[m], s) = d
    BY <1>1 DEF Shut
  <2>3. \A k \in DOMAIN d : \E i \in 1..n : k = ls[i].word
    BY <2>1 DEF Outer
  <2>4. ASSUME NEW i \in 1..n PROVE \E k \in DOMAIN d : Holds(d[k], k, ls[i])
    <3>1. CASE i = m
      <4>1. ls[m].word \in DOMAIN d /\ d[ls[m].word] = Plain(ls[m].value)
        BY DEF Outer
      <4> QED BY <3>1, <4>1 DEF Holds
    <3>2. CASE i # m
      <4>1. i \in 1..m - 1
        BY <1>0, <2>1, <3>2
      <4> QED BY <4>1 DEF Outer
    <3> QED BY <3>1, <3>2
  <2> QED BY <2>2, <2>3, <2>4 DEF Whole
<1>2. CASE s # <<>>
  <2> DEFINE q == ls[m].word
             x == SubResult(s)
             e == Put(d, q, x)
  <2>1. Shut(d, ls[m], s) = e
    BY <1>2 DEF Shut
  <2>2. n > m /\ ls[m].value = NoValue
    <3>1. s \in Seq(Lines) /\ Len(s) = n - m
      BY DEF Inner
    <3>2. Len(s) # 0
      BY <3>1, <1>2
    <3> QED BY <1>0, <3>1, <3>2 DEF Outer
  <2>3. DOMAIN e = DOMAIN d \cup {q} /\ e[q] = x /\ \A j \in DOMAIN d : j # q => e[j] = d[j]
    <3>1. DOMAIN e = DOMAIN d \cup {q}
      BY PutDomain
    <3>2. e[q] = x
      BY PutHas
    <3>3. \A j \in DOMAIN d : j # q => e[j] = d[j]
      BY PutKeeps
    <3> QED BY <3>1, <3>2, <3>3
  <2>4. Distinct(s)
    <3>1. s \in Seq(Lines) /\ Len(s) = n - m /\ \A j \in 1..n - m : s[j] = ls[m + j]
      BY DEF Inner
    <3>2. ASSUME NEW i \in 1..Len(s), NEW j \in 1..Len(s), s[i].word = s[j].word PROVE i = j
      <4>1. m + i \in 1..Len(ls) /\ m + j \in 1..Len(ls) /\ s[i] = ls[m + i] /\ s[j] = ls[m + j]
        BY <1>0, <3>1
      <4>2. m + i = m + j
        BY <4>1, <3>2 DEF Distinct
      <4> QED BY <1>0, <4>2, <3>1
    <3> QED BY <3>2 DEF Distinct
  <2> HIDE DEF e, x
  <2>5. ASSUME NEW k \in DOMAIN e PROVE \E i \in 1..n : k = ls[i].word
    <3>1. CASE k = q
      BY <1>0, <3>1
    <3>2. CASE k # q
      <4>1. k \in DOMAIN d
        BY <2>3, <3>2
      <4>2. PICK i \in 1..m : k = ls[i].word
        BY <4>1 DEF Outer
      <4> QED BY <1>0, <4>2
    <3> QED BY <3>1, <3>2
  <2>6. ASSUME NEW i \in 1..n PROVE \E k \in DOMAIN e : Holds(e[k], k, ls[i])
    <3>1. CASE i = m
      <4>1. q \in DOMAIN e /\ Holds(e[q], q, ls[i])
        BY <2>2, <2>3, <3>1 DEF Holds
      <4> QED BY <4>1
    <3>2. CASE i < m
      <4>1. i \in 1..m - 1
        BY <1>0, <3>2
      <4>2. PICK k \in DOMAIN d : k # q /\ Holds(d[k], k, ls[i])
        BY <4>1 DEF Outer
      <4>3. k \in DOMAIN e /\ e[k] = d[k]
        BY <2>3, <4>2
      <4> QED BY <4>2, <4>3
    <3>3. CASE i > m
      <4>1. s \in Seq(Lines) /\ i - m \in 1..Len(s) /\ s[i - m] = ls[i]
        <5>1. i - m \in 1..n - m /\ m + (i - m) = i
          BY <1>0, <3>3
        <5> QED BY <5>1 DEF Inner
      <4>2. Holds(x, q, s[i - m])
        BY <4>1, <2>4, SubHolds DEF x
      <4> QED BY <2>3, <4>1, <4>2
    <3> QED BY <1>0, <3>1, <3>2, <3>3
  <2> QED BY <2>1, <2>5, <2>6 DEF Whole
<1> QED BY <1>1, <1>2

(* A line more is the parent of those that follow.                         *)
LEMMA WholeGrows ==
  ASSUME NEW ls \in Seq(Lines), Distinct(ls), NEW n \in 1..Len(ls), NEW d, Whole(ls, n - 1, d)
  PROVE  Outer(ls, n, n, Put(d, ls[n].word, Plain(ls[n].value)))
<1> DEFINE q == ls[n].word
           x == Plain(ls[n].value)
           e == Put(d, q, x)
<1>0. Len(ls) \in Nat /\ n \in Nat
  OBVIOUS
<1>1. DOMAIN e = DOMAIN d \cup {q} /\ e[q] = x /\ \A j \in DOMAIN d : j # q => e[j] = d[j]
  <2>1. DOMAIN e = DOMAIN d \cup {q}
    BY PutDomain
  <2>2. e[q] = x
    BY PutHas
  <2>3. \A j \in DOMAIN d : j # q => e[j] = d[j]
    BY PutKeeps
  <2> QED BY <2>1, <2>2, <2>3
<1> HIDE DEF e
<1>2. ASSUME NEW k \in DOMAIN d PROVE k # q /\ \E i \in 1..n : k = ls[i].word
  <2>1. PICK i \in 1..n - 1 : k = ls[i].word
    BY <1>2 DEF Whole
  <2>2. i \in 1..Len(ls) /\ i # n /\ i \in 1..n
    BY <1>0, <2>1
  <2> QED BY <2>1, <2>2 DEF Distinct
<1>3. ASSUME NEW i \in 1..n - 1 PROVE \E k \in DOMAIN e : k # q /\ Holds(e[k], k, ls[i])
  <2>1. PICK k \in DOMAIN d : Holds(d[k], k, ls[i])
    BY <1>3 DEF Whole
  <2>2. k \in DOMAIN e /\ e[k] = d[k] /\ k # q
    BY <1>1, <1>2
  <2> QED BY <2>1, <2>2
<1>4. \A k \in DOMAIN e : \E i \in 1..n : k = ls[i].word
  <2>1. n \in 1..n
    BY <1>0
  <2> QED BY <2>1, <1>1, <1>2
<1>5. Outer(ls, n, n, e)
  BY <1>0, <1>1, <1>3, <1>4 DEF Outer
<1> QED BY <1>5 DEF e

(* However they are indented, no line of its own key is lost.              *)
LEMMA LinesAreWhole ==
  ASSUME NEW ls \in Seq(Lines), Distinct(ls), Len(ls) > 0
  PROVE  Whole(ls, Len(ls), key_value_list_to_dict(ls))
<1>p. PICK p : /\ p[0] = <<>> /\ p[Len(ls)] = ls
               /\ \A n \in 1..Len(ls) : p[n] = Append(p[n - 1], ls[n]) /\ p[n - 1] \in Seq(Lines) /\ ls[n] \in Lines
  BY Beginnings
<1> DEFINE acc(n) == Below(First(ls), p[n])
           At(n, m, d, s) == /\ acc(n) = [dict |-> d, parent |-> ls[m], sub |-> s]
                             /\ Outer(ls, n, m, d) /\ Inner(ls, n, m, s)
           G == {n \in 0..Len(ls) : n = 0 \/ \E m \in 1..n : \E d, s : At(n, m, d, s)}
<1>0. Len(ls) \in Nat /\ 1 \in 1..Len(ls)
  OBVIOUS
<1>1. acc(0) = [dict |-> <<>>, parent |-> ls[1], sub |-> <<>>]
  BY <1>p, BelowNone DEF First
<1>2. ASSUME NEW n \in 1..Len(ls) PROVE acc(n) = NextLine(acc(n - 1), ls[n])
  <2>1. p[n] = Append(p[n - 1], ls[n]) /\ p[n - 1] \in Seq(Lines) /\ ls[n] \in Lines
    BY <1>p
  <2>2. Below(First(ls), Append(p[n - 1], ls[n])) = NextLine(Below(First(ls), p[n - 1]), ls[n])
    BY <2>1, BelowTurn
  <2> QED BY <2>1, <2>2
<1> HIDE DEF acc
<1>3. ASSUME NEW n \in 1..Len(ls), NEW d, Whole(ls, n - 1, d),
             acc(n) = [dict |-> Put(d, ls[n].word, Plain(ls[n].value)), parent |-> ls[n], sub |-> <<>>]
      PROVE  n \in G
  <2>1. Outer(ls, n, n, Put(d, ls[n].word, Plain(ls[n].value)))
    BY <1>3, WholeGrows
  <2>2. Inner(ls, n, n, <<>>)
    BY <1>0 DEF Inner
  <2>3. At(n, n, Put(d, ls[n].word, Plain(ls[n].value)), <<>>)
    BY <1>3, <2>1, <2>2
  <2>4. n \in 0..Len(ls) /\ n \in 1..n
    BY <1>0
  <2> HIDE DEF At
  <2> QED BY <2>3, <2>4
<1>4. 0 \in G
  BY <1>0
<1>5. ASSUME NEW n \in 1..Len(ls), n - 1 \in G PROVE n \in G
  <2>1. CASE n = 1
    <3>1. acc(1) = [dict |-> Put(<<>>, ls[1].word, Plain(ls[1].value)), parent |-> ls[1], sub |-> <<>>]
      <4>1. ~(ls[1].indent > ls[1].indent)
        <5>1. ls[1] \in Lines
          BY <1>0
        <5> QED BY <5>1 DEF Lines, Line
      <4>2. acc(1) = NextLine([dict |-> <<>>, parent |-> ls[1], sub |-> <<>>], ls[1])
        BY <1>0, <1>1, <1>2
      <4>3. Shut(<<>>, ls[1], <<>>) = <<>>
        BY DEF Shut
      <4> DEFINE l == ls[1]
      <4>4. NextLine([dict |-> <<>>, parent |-> l, sub |-> <<>>], l)
              = [dict |-> Put(Shut(<<>>, l, <<>>), l.word, Plain(l.value)), parent |-> l, sub |-> <<>>]
        <5>1. ~(l.indent > l.indent /\ l.value = NoValue)
          BY <4>1
        <5> HIDE DEF l
        <5> QED BY <5>1, GoesBeside
      <4> QED BY <4>2, <4>3, <4>4
    <3>2. Whole(ls, 0, <<>>)
      BY DEF Whole
    <3> HIDE DEF G
    <3> QED BY <1>3, <2>1, <3>1, <3>2
  <2>2. CASE n # 1
    <3>0. n - 1 \in 1..Len(ls) /\ n - 1 # 0
      BY <1>0, <2>2
    <3>1. PICK m \in 1..n - 1 : \E d, s : At(n - 1, m, d, s)
      <4> HIDE DEF At
      <4> QED BY <1>5, <3>0
    <3>2. PICK d, s : At(n - 1, m, d, s)
      <4> HIDE DEF At
      <4> QED BY <3>1
    <3>3. acc(n) = NextLine([dict |-> d, parent |-> ls[m], sub |-> s], ls[n])
      BY <1>2, <3>2
    <3>4. CASE ls[n].indent > ls[m].indent /\ ls[m].value = NoValue
      <4>1. acc(n) = [dict |-> d, parent |-> ls[m], sub |-> Append(s, ls[n])]
        <5> DEFINE q == ls[m]
                   l == ls[n]
        <5>1. l.indent > q.indent /\ q.value = NoValue
          BY <3>4
        <5> HIDE DEF q, l
        <5>2. NextLine([dict |-> d, parent |-> q, sub |-> s], l) = [dict |-> d, parent |-> q, sub |-> Append(s, l)]
          BY <5>1, GoesBelow
        <5> QED BY <3>3, <5>2 DEF q, l
      <4>2. Outer(ls, n, m, d)
        BY <3>2, <3>4 DEF Outer
      <4>3. Inner(ls, n, m, Append(s, ls[n]))
        <5>1. /\ s \in Seq(Lines) /\ Len(s) = n - 1 - m /\ \A j \in 1..n - 1 - m : s[j] = ls[m + j]
              /\ ls[n] \in Lines
          BY <1>p, <3>2 DEF Inner
        <5>2. /\ Append(s, ls[n]) \in Seq(Lines) /\ Len(Append(s, ls[n])) = n - m
              /\ \A j \in 1..n - 1 - m : Append(s, ls[n])[j] = s[j]
              /\ Append(s, ls[n])[n - m] = ls[n]
          BY <5>1
        <5>3. ASSUME NEW j \in 1..n - m PROVE Append(s, ls[n])[j] = ls[m + j]
          <6>1. j = n - m \/ j \in 1..n - 1 - m
            OBVIOUS
          <6> QED BY <5>1, <5>2, <6>1
        <5> QED BY <5>2, <5>3 DEF Inner
      <4>4. At(n, m, d, Append(s, ls[n]))
        BY <4>1, <4>2, <4>3
      <4>5. n \in 0..Len(ls) /\ m \in 1..n
        BY <1>0
      <4> HIDE DEF At
      <4> QED BY <4>4, <4>5
    <3>5. CASE ~(ls[n].indent > ls[m].indent /\ ls[m].value = NoValue)
      <4>1. acc(n) = [dict |-> Put(Shut(d, ls[m], s), ls[n].word, Plain(ls[n].value)), parent |-> ls[n], sub |-> <<>>]
        <5>2. NextLine([dict |-> d, parent |-> ls[m], sub |-> s], ls[n])
                = [dict |-> Put(Shut(d, ls[m], s), ls[n].word, Plain(ls[n].value)), parent |-> ls[n], sub |-> <<>>]
          BY <3>5, GoesBeside
        <5> QED BY <3>3, <5>2
      <4>2. Whole(ls, n - 1, Shut(d, ls[m], s))
        BY <3>0, <3>2, ShutIsWhole
      <4> HIDE DEF G
      <4> QED BY <1>3, <4>1, <4>2
    <3> QED BY <3>4, <3>5
  <2> QED BY <2>1, <2>2
<1>6. Len(ls) \in G
  <2> HIDE DEF G
  <2> QED BY <1>0, <1>4, <1>5, CountsUp
<1>7. PICK m \in 1..Len(ls) : \E d, s : At(Len(ls), m, d, s)
  <2> HIDE DEF At
  <2> QED BY <1>0, <1>6
<1>8. PICK d, s : At(Len(ls), m, d, s)
  <2> HIDE DEF At
  <2> QED BY <1>7
<1>9. key_value_list_to_dict(ls) = Shut(d, ls[m], s)
  <2>1. key_value_list_to_dict(ls) = Close(acc(Len(ls)))
    BY <1>p DEF key_value_list_to_dict, Below, acc
  <2> QED BY <2>1, <1>8, ClosesIs
<1>10. Len(ls) \in 1..Len(ls)
  BY <1>0
<1> QED BY <1>8, <1>9, <1>10, ShutIsWhole

(* Lines of one indentation are put beside each other, one after the other.*)
LEMMA LevelIsFlat ==
  ASSUME NEW ls \in Seq(Lines), Len(ls) > 0, \A i, j \in 1..Len(ls) : ls[i].indent = ls[j].indent
  PROVE  /\ \A k \in DOMAIN key_value_list_to_dict(ls) : "text" \in DOMAIN key_value_list_to_dict(ls)[k]
         /\ DOMAIN key_value_list_to_dict(ls) = {ls[i].word : i \in 1..Len(ls)}
<1>p. PICK p : /\ p[0] = <<>> /\ p[Len(ls)] = ls
               /\ \A n \in 1..Len(ls) : p[n] = Append(p[n - 1], ls[n]) /\ p[n - 1] \in Seq(Lines) /\ ls[n] \in Lines
  BY Beginnings
<1> DEFINE acc(n) == Below(First(ls), p[n])
           Flat(n, d) == /\ \A k \in DOMAIN d : "text" \in DOMAIN d[k]
                         /\ DOMAIN d = {ls[i].word : i \in 1..n}
           At(n, d, q) == acc(n) = [dict |-> d, parent |-> q, sub |-> <<>>] /\ q.indent = ls[1].indent /\ Flat(n, d)
           G == {n \in 0..Len(ls) : \E d, q : At(n, d, q)}
<1>0. Len(ls) \in Nat /\ 1 \in 1..Len(ls)
  OBVIOUS
<1>1. acc(0) = [dict |-> <<>>, parent |-> ls[1], sub |-> <<>>]
  BY <1>p, BelowNone DEF First
<1>2. ASSUME NEW n \in 1..Len(ls) PROVE acc(n) = NextLine(acc(n - 1), ls[n])
  <2>1. p[n] = Append(p[n - 1], ls[n]) /\ p[n - 1] \in Seq(Lines) /\ ls[n] \in Lines
    BY <1>p
  <2>2. Below(First(ls), Append(p[n - 1], ls[n])) = NextLine(Below(First(ls), p[n - 1]), ls[n])
    BY <2>1, BelowTurn
  <2> QED BY <2>1, <2>2
<1>a. key_value_list_to_dict(ls) = Close(acc(Len(ls)))
  BY <1>p DEF key_value_list_to_dict, Below
<1> HIDE DEF acc
<1>3. 0 \in G
  <2>1. Flat(0, <<>>)
    OBVIOUS
  <2>2. At(0, <<>>, ls[1])
    BY <1>1, <2>1
  <2>3. 0 \in 0..Len(ls)
    BY <1>0
  <2> HIDE DEF At
  <2> QED BY <2>2, <2>3
<1>4. ASSUME NEW n \in 1..Len(ls), n - 1 \in G PROVE n \in G
  <2>1. PICK d, q : At(n - 1, d, q)
    <3> HIDE DEF At
    <3> QED BY <1>4
  <2> DEFINE w == ls[n].word
             x == Plain(ls[n].value)
             e == Put(d, w, x)
  <2>2. ~(ls[n].indent > q.indent /\ q.value = NoValue)
    <3>1. ls[n] \in Lines /\ ls[n].indent = q.indent
      BY <1>0, <1>p, <2>1
    <3>2. ls[n].indent \in 0..2
      BY <3>1 DEF Lines, Line
    <3> QED BY <3>1, <3>2
  <2>3. acc(n) = [dict |-> e, parent |-> ls[n], sub |-> <<>>]
    <3>1. acc(n) = NextLine([dict |-> d, parent |-> q, sub |-> <<>>], ls[n])
      BY <1>2, <2>1
    <3>2. NextLine([dict |-> d, parent |-> q, sub |-> <<>>], ls[n])
            = [dict |-> Put(Shut(d, q, <<>>), ls[n].word, Plain(ls[n].value)), parent |-> ls[n], sub |-> <<>>]
      BY <2>2, GoesBeside
    <3>3. Shut(d, q, <<>>) = d
      BY DEF Shut
    <3> QED BY <3>1, <3>2, <3>3
  <2>4. DOMAIN e = DOMAIN d \cup {w}
    BY PutDomain
  <2>5. e[w] = x
    BY PutHas
  <2>6. \A j \in DOMAIN d : j # w => e[j] = d[j]
    BY PutKeeps
  <2>7. "text" \in DOMAIN x
    BY DEF Plain
  <2>8. DOMAIN d = {ls[i].word : i \in 1..n - 1} /\ \A k \in DOMAIN d : "text" \in DOMAIN d[k]
    BY <2>1
  <2> HIDE DEF e, x
  <2>9. DOMAIN e = {ls[i].word : i \in 1..n}
    <3>1. 1..n = (1..n - 1) \cup {n}
      BY <1>0
    <3> QED BY <2>4, <2>8, <3>1
  <2>10. \A k \in DOMAIN e : "text" \in DOMAIN e[k]
    BY <2>4, <2>5, <2>6, <2>7, <2>8
  <2>11. At(n, e, ls[n])
    BY <2>3, <2>9, <2>10, <1>0
  <2>12. n \in 0..Len(ls)
    BY <1>0
  <2> HIDE DEF At
  <2> QED BY <2>11, <2>12
<1>5. Len(ls) \in G
  <2> HIDE DEF G
  <2> QED BY <1>0, <1>3, <1>4, CountsUp
<1>6. PICK d, q : At(Len(ls), d, q)
  <2> HIDE DEF At
  <2> QED BY <1>5
<1>7. key_value_list_to_dict(ls) = d
  <2>1. Close([dict |-> d, parent |-> q, sub |-> <<>>]) = Shut(d, q, <<>>)
    BY ClosesIs
  <2> QED BY <1>6, <1>a, <2>1 DEF Shut
<1> QED BY <1>6, <1>7

(* What ReadLines reads.                                                   *)
LEMMA LinesCame ==
  ASSUME NEW n \in 1..MaxLines, NEW ls \in [1..n -> Lines], ReadLines(ls)
  PROVE  NoLineIsLost' /\ LevelStaysLevel'
<1>1. ls \in Seq(Lines) /\ Len(ls) = n /\ Len(ls) > 0
  OBVIOUS
<1>2. given' = [f |-> "lines", ls |-> ls] /\ result' = key_value_list_to_dict(ls)
  BY DEF ReadLines
<1>3. given'.f = "lines" /\ given'.ls = ls
  BY <1>2
<1>4. LevelStaysLevel'
  <2>1. SUFFICES ASSUME \A i, j \in 1..Len(ls) : ls[i].indent = ls[j].indent
                 PROVE  /\ \A k \in DOMAIN result' : "text" \in DOMAIN result'[k]
                        /\ DOMAIN result' = {ls[i].word : i \in 1..Len(ls)}
    BY <1>3 DEF LevelStaysLevel
  <2> QED BY <1>1, <1>2, <2>1, LevelIsFlat
<1>5. NoLineIsLost'
  <2> DEFINE r == result'
             inner == {r[k].dict : k \in {k \in DOMAIN r : "dict" \in DOMAIN r[k]}}
             in(d, l) == l.word \in DOMAIN d /\ d[l.word] = Plain(l.value)
  <2>1. SUFFICES ASSUME Distinct(ls), NEW i \in 1..Len(ls)
                 PROVE  Found(r, ls[i]) /\ (ls[i].value # NoValue => \E d \in {r} \cup inner : in(d, ls[i]))
    BY <1>3 DEF NoLineIsLost, Distinct
  <2>2. Whole(ls, Len(ls), r)
    BY <1>1, <1>2, <2>1, LinesAreWhole
  <2>3. PICK k \in DOMAIN r : Holds(r[k], k, ls[i])
    BY <2>2 DEF Whole
  <2> HIDE DEF r
  <2>4. CASE k = ls[i].word /\ (ls[i].value # NoValue => r[k] = Plain(ls[i].value))
    <3>1. Found(r, ls[i])
      BY <2>4 DEF Found
    <3>2. ls[i].value # NoValue => in(r, ls[i])
      BY <2>4
    <3> QED BY <3>1, <3>2
  <2>5. CASE "dict" \in DOMAIN r[k] /\ ls[i].word \in DOMAIN r[k].dict /\ r[k].dict[ls[i].word] = Plain(ls[i].value)
    <3>1. Found(r, ls[i])
      BY <2>5 DEF Found
    <3>2. r[k].dict \in inner /\ in(r[k].dict, ls[i])
      BY <2>5
    <3> HIDE DEF inner, in
    <3> QED BY <3>1, <3>2
  <2>6. CASE "list" \in DOMAIN r[k] /\ ls[i].value = NoValue /\ \E j \in DOMAIN r[k].list : r[k].list[j] = ls[i].word
    BY <2>6 DEF Found
  <2> QED BY <2>3, <2>4, <2>5, <2>6 DEF Holds
<1> QED BY <1>4, <1>5

-----------------------------------------------------------------------------
(* File names.  A text is split one character after the other: what has no *)
(* delimiter is added to the last part, a delimiter begins an empty one.   *)
LEMMA LastGrows ==
  ASSUME NEW X, NEW F \in Seq(Seq(X)), NEW t \in Seq(X), NEW x \in X
  PROVE  [Append(F, t) EXCEPT ![Len(Append(F, t))] = Append(@, x)] = Append(F, Append(t, x))
<1> DEFINE n == Len(F) + 1
           u == Append(F, t)
           v == Append(F, Append(t, x))
           w == [u EXCEPT ![n] = Append(@, x)]
<1>1. n \in Nat /\ Append(t, x) \in Seq(X)
  OBVIOUS
<1>2. u \in Seq(Seq(X)) /\ v \in Seq(Seq(X)) /\ Len(u) = n /\ Len(v) = n
  OBVIOUS
<1>3. u[n] = t /\ v[n] = Append(t, x)
  OBVIOUS
<1>4. \A i \in 1..Len(F) : u[i] = v[i]
  OBVIOUS
<1>5. DOMAIN u = 1..n /\ DOMAIN v = 1..n
  BY <1>1, <1>2, LenProperties
<1> HIDE DEF u, v
<1>6. w = [i \in 1..n |-> v[i]]
  <2>1. DOMAIN w = 1..n
    BY <1>5
  <2>2. ASSUME NEW i \in 1..n PROVE w[i] = v[i]
    BY <1>1, <1>3, <1>4, <1>5
  <2>3. w = [i \in 1..n |-> w[i]]
    BY <2>1
  <2> HIDE DEF w
  <2> QED BY <2>2, <2>3
<1>7. v = [i \in 1..n |-> v[i]]
  BY <1>2, <1>5
<1> QED BY <1>2, <1>6, <1>7 DEF u, v

LEMMA OneNearer == ASSUME NEW X, NEW a \in Seq(X), NEW b \in Seq(X), NEW x \in X
                   PROVE  a \o Append(b, x) = Append(a \o b, x)
OBVIOUS

(* s is split into the parts F and, at the end of it, t.                   *)
Parts(s, d, X, F, t) == F \in Seq(Seq(X)) /\ t \in Seq(X) /\ SplitOn(s, d) = Append(F, t)

LEMMA NoParts == ASSUME NEW d, NEW X PROVE Parts(<<>>, d, X, <<>>, <<>>)
BY SplitNone DEF Parts

LEMMA PartEnds ==
  ASSUME NEW d, NEW X, d \in X, NEW s \in Seq(X), NEW F, NEW t, Parts(s, d, X, F, t)
  PROVE  Parts(Append(s, d), d, X, Append(F, t), <<>>)
<1>1. SplitOn(Append(s, d), d) = Append(SplitOn(s, d), <<>>)
  BY SplitTurn
<1>2. Append(F, t) \in Seq(Seq(X)) /\ <<>> \in Seq(X)
  BY DEF Parts
<1> QED BY <1>1, <1>2 DEF Parts

LEMMA PartGrows ==
  ASSUME NEW d, NEW X, NEW s \in Seq(X), NEW F, NEW t, Parts(s, d, X, F, t), NEW x \in X, x # d
  PROVE  Parts(Append(s, x), d, X, F, Append(t, x))
<1>1. SplitOn(Append(s, x), d) = [SplitOn(s, d) EXCEPT ![Len(SplitOn(s, d))] = Append(@, x)]
  BY SplitTurn
<1>2. F \in Seq(Seq(X)) /\ t \in Seq(X) /\ SplitOn(s, d) = Append(F, t)
  BY DEF Parts
<1>3. SplitOn(Append(s, x), d) = Append(F, Append(t, x))
  BY <1>1, <1>2, LastGrows
<1>4. Append(t, x) \in Seq(X)
  BY <1>2
<1> QED BY <1>2, <1>3, <1>4 DEF Parts

(* Every text is split into parts, the last of them what is after the last *)
(* delimiter.                                                              *)
LEMMA HasParts == ASSUME NEW d, NEW X, NEW s \in Seq(X)
                  PROVE  \E F, t : Parts(s, d, X, F, t)
<1>p. PICK p : /\ p[0] = <<>> /\ p[Len(s)] = s
               /\ \A n \in 1..Len(s) : p[n] = Append(p[n - 1], s[n]) /\ p[n - 1] \in Seq(X) /\ s[n] \in X
  BY Beginnings
<1> DEFINE G == {n \in 0..Len(s) : \E F, t : Parts(p[n], d, X, F, t)}
<1>0. Len(s) \in Nat
  OBVIOUS
<1>1. 0 \in G
  <2>1. Parts(p[0], d, X, <<>>, <<>>)
    BY <1>p, NoParts
  <2>2. 0 \in 0..Len(s)
    BY <1>0
  <2> QED BY <2>1, <2>2
<1>2. ASSUME NEW n \in 1..Len(s), n - 1 \in G PROVE n \in G
  <2>1. PICK F, t : Parts(p[n - 1], d, X, F, t)
    BY <1>2
  <2>2. p[n] = Append(p[n - 1], s[n]) /\ p[n - 1] \in Seq(X) /\ s[n] \in X
    BY <1>p
  <2>3. \E E, u : Parts(p[n], d, X, E, u)
    <3>1. CASE s[n] = d
      <4>1. Parts(p[n], d, X, Append(F, t), <<>>)
        BY <2>1, <2>2, <3>1, PartEnds
      <4> QED BY <4>1
    <3>2. CASE s[n] # d
      <4>1. Parts(p[n], d, X, F, Append(t, s[n]))
        BY <2>1, <2>2, <3>2, PartGrows
      <4> QED BY <4>1
    <3> QED BY <3>1, <3>2
  <2>4. n \in 0..Len(s)
    BY <1>0
  <2> QED BY <2>3, <2>4
<1>3. Len(s) \in G
  <2> HIDE DEF G
  <2> QED BY <1>0, <1>1, <1>2, CountsUp
<1> QED BY <1>3, <1>p

(* Text without the delimiter goes to the last part.                       *)
LEMMA TextIsAdded ==
  ASSUME NEW d, NEW X, NEW s \in Seq(X), NEW F, NEW t, Parts(s, d, X, F, t),
         NEW r \in Seq(X), \A i \in 1..Len(r) : r[i] # d
  PROVE  Parts(s \o r, d, X, F, t \o r)
<1>p. PICK p : /\ p[0] = <<>> /\ p[Len(r)] = r
               /\ \A n \in 1..Len(r) : p[n] = Append(p[n - 1], r[n]) /\ p[n - 1] \in Seq(X) /\ r[n] \in X
  BY Beginnings
<1> DEFINE G == {n \in 0..Len(r) : Parts(s \o p[n], d, X, F, t \o p[n])}
<1>0. Len(r) \in Nat /\ F \in Seq(Seq(X)) /\ t \in Seq(X)
  BY DEF Parts
<1>1. 0 \in G
  <2>1. s \o <<>> = s /\ t \o <<>> = t
    BY <1>0
  <2>2. Parts(s \o p[0], d, X, F, t \o p[0])
    BY <1>p, <2>1
  <2>3. 0 \in 0..Len(r)
    BY <1>0
  <2> QED BY <2>2, <2>3
<1>2. ASSUME NEW n \in 1..Len(r), n - 1 \in G PROVE n \in G
  <2>1. p[n] = Append(p[n - 1], r[n]) /\ p[n - 1] \in Seq(X) /\ r[n] \in X
    BY <1>p
  <2> DEFINE q == p[n - 1]
             x == r[n]
  <2>2. s \o p[n] = Append(s \o q, x) /\ t \o p[n] = Append(t \o q, x)
    <3>1. q \in Seq(X) /\ x \in X /\ p[n] = Append(q, x)
      BY <2>1
    <3> HIDE DEF q, x
    <3>2. s \o Append(q, x) = Append(s \o q, x)
      BY <3>1, OneNearer
    <3>3. t \o Append(q, x) = Append(t \o q, x)
      BY <1>0, <3>1, OneNearer
    <3> QED BY <3>1, <3>2, <3>3
  <2>4. Parts(s \o p[n - 1], d, X, F, t \o p[n - 1])
    BY <1>2
  <2>5. s \o p[n - 1] \in Seq(X)
    BY <2>1
  <2>6. Parts(Append(s \o p[n - 1], r[n]), d, X, F, Append(t \o p[n - 1], r[n]))
    BY <2>1, <2>4, <2>5, PartGrows
  <2>7. n \in 0..Len(r)
    BY <1>0
  <2> QED BY <2>2, <2>6, <2>7
<1>3. Len(r) \in G
  <2> HIDE DEF G
  <2> QED BY <1>0, <1>1, <1>2, CountsUp
<1> QED BY <1>3, <1>p

(* A part more, behind a delimiter.                                        *)
LEMMA PartIsAdded ==
  ASSUME NEW d, NEW X, d \in X, NEW s \in Seq(X), NEW r \in Seq(X), \A i \in 1..Len(r) : r[i] # d
  PROVE  SplitOn(s \o <<d>> \o r, d) = Append(SplitOn(s, d), r) /\ SplitOn(s, d) \in Seq(Seq(X))
<1>1. PICK F, t : Parts(s, d, X, F, t)
  BY HasParts
<1>2. Parts(Append(s, d), d, X, Append(F, t), <<>>)
  BY <1>1, PartEnds
<1>3. Append(s, d) \in Seq(X) /\ Append(s, d) = s \o <<d>> /\ <<>> \o r = r
  OBVIOUS
<1>4. Parts(Append(s, d) \o r, d, X, Append(F, t), <<>> \o r)
  BY <1>2, <1>3, TextIsAdded
<1> QED BY <1>1, <1>3, <1>4 DEF Parts

LEMMA OnePart ==
  ASSUME NEW d, NEW X, NEW r \in Seq(X), \A i \in 1..Len(r) : r[i] # d
  PROVE  SplitOn(r, d) = <<r>>
<1>1. Parts(<<>> \o r, d, X, <<>>, <<>> \o r)
  BY NoParts, Nothing, TextIsAdded
<1>2. <<>> \o r = r /\ Append(<<>>, r) = <<r>>
  OBVIOUS
<1> QED BY <1>1, <1>2 DEF Parts

LEMMA TwoParts ==
  ASSUME NEW d, NEW X, d \in X, NEW s \in Seq(X), NEW r \in Seq(X),
         \A i \in 1..Len(s) : s[i] # d, \A i \in 1..Len(r) : r[i] # d
  PROVE  SplitOn(s \o <<d>> \o r, d) = <<s, r>>
<1>1. SplitOn(s, d) = <<s>>
  BY OnePart
<1>2. SplitOn(s \o <<d>> \o r, d) = Append(SplitOn(s, d), r)
  BY PartIsAdded
<1> QED BY <1>1, <1>2

(* The characters and words of which the names are made.                   *)
Char == {"x", "master_pid", ".", ":", "/", "pgm_name", "bmc_nickname", "boot_results"}
Records(nickname, pid) ==
  << <<"pgm_name", <<"x">>>>, <<"bmc_nickname", nickname>>, <<"master_pid", pid>> >>

(* The name that is made: what is before the pid, and the pid in its place.*)
Before(nickname) == <<"/">> \o (<<"pgm_name", ".", "x">> \o <<":">> \o <<"bmc_nickname", ".">> \o nickname)
After(pid) == <<"master_pid", ".">> \o pid

LEMMA ShortSeqs ==
  ASSUME NEW X, NEW k \in X, NEW l \in X, NEW m \in X
  PROVE  <<k>> \in Seq(X) /\ <<k, l>> \in Seq(X) /\ <<k, l, m>> \in Seq(X)
OBVIOUS

(* Short sequences, element by element.                                    *)
LEMMA AppendsIs ==
  ASSUME NEW X, NEW s \in Seq(X), NEW x \in X, NEW t \in Seq(X), Len(t) = Len(s) + 1,
         \A i \in 1..Len(s) : t[i] = s[i], t[Len(s) + 1] = x
  PROVE  Append(s, x) = t
<1> DEFINE u == Append(s, x)
<1>1. u \in Seq(X) /\ Len(u) = Len(s) + 1
  BY AppendProperties
<1>2. \A i \in 1..Len(s) : u[i] = s[i]
  BY AppendProperties
<1>3. u[Len(s) + 1] = x
  BY AppendProperties
<1>4. Len(s) \in Nat
  OBVIOUS
<1> HIDE DEF u
<1>5. \A i \in 1..Len(u) : u[i] = t[i]
  BY <1>1, <1>2, <1>3, <1>4
<1>6. u = t
  BY <1>1, <1>5, SeqEqual
<1> QED BY <1>6 DEF u

LEMMA TwoAppended == ASSUME NEW k, NEW l PROVE Append(<<k>>, l) = <<k, l>>
<1> DEFINE X == {k, l}
           s == <<k>>
           t == <<k, l>>
<1>1. s \in Seq(X) /\ Len(s) = 1 /\ s[1] = k
  OBVIOUS
<1>2. t \in Seq(X) /\ Len(t) = 2 /\ t[1] = k /\ t[2] = l /\ l \in X
  OBVIOUS
<1> HIDE DEF s, t, X
<1>3. Append(s, l) = t
  <2>1. \A i \in 1..Len(s) : t[i] = s[i]
    BY <1>1, <1>2
  <2>2. Len(t) = Len(s) + 1 /\ t[Len(s) + 1] = l
    BY <1>1, <1>2
  <2> QED BY <1>1, <1>2, <2>1, <2>2, AppendsIs
<1> QED BY <1>3 DEF s, t

LEMMA ThreeAppended == ASSUME NEW k, NEW l, NEW m PROVE Append(<<k, l>>, m) = <<k, l, m>>
<1> DEFINE X == {k, l, m}
           s == <<k, l>>
           t == <<k, l, m>>
<1>1. s \in Seq(X) /\ Len(s) = 2 /\ s[1] = k /\ s[2] = l
  OBVIOUS
<1>2. t \in Seq(X) /\ Len(t) = 3 /\ t[1] = k /\ t[2] = l /\ t[3] = m /\ m \in X
  OBVIOUS
<1> HIDE DEF s, t, X
<1>3. Append(s, m) = t
  <2>1. \A i \in 1..Len(s) : t[i] = s[i]
    BY <1>1, <1>2
  <2>2. Len(t) = Len(s) + 1 /\ t[Len(s) + 1] = m
    BY <1>1, <1>2
  <2> QED BY <1>1, <1>2, <2>1, <2>2, AppendsIs
<1> QED BY <1>3 DEF s, t

LEMMA JoinsOne == ASSUME NEW X, NEW s \in Seq(X), NEW x \in X PROVE s \o <<x>> = Append(s, x)
BY AppendIsConcat

(* The three records, joined.                                              *)
LEMMA ThreeJoined ==
  ASSUME NEW a, NEW b, NEW c
  PROVE  join_dict(<<a, b, c>>) = Joined(Joined(Joined(<<>>, a), b), c)
<1> DEFINE X == {a, b, c}
<1>0. a \in X /\ b \in X /\ c \in X
  OBVIOUS
<1> HIDE DEF X
<1>1. <<>> \in Seq(X) /\ <<a>> \in Seq(X) /\ <<a, b>> \in Seq(X) /\ a \in X /\ b \in X /\ c \in X
  BY <1>0, ShortSeqs
<1>2. Append(<<>>, a) = <<a>> /\ Append(<<a>>, b) = <<a, b>> /\ Append(<<a, b>>, c) = <<a, b, c>>
  <2>1. Append(<<>>, a) = <<a>>
    OBVIOUS
  <2>2. Append(<<a>>, b) = <<a, b>>
    BY TwoAppended
  <2>3. Append(<<a, b>>, c) = <<a, b, c>>
    BY ThreeAppended
  <2> QED BY <2>1, <2>2, <2>3
<1>3. join_dict(Append(<<>>, a)) = Joined(join_dict(<<>>), a)
  BY <1>1, JoinTurn
<1>4. join_dict(Append(<<a>>, b)) = Joined(join_dict(<<a>>), b)
  BY <1>1, JoinTurn
<1>5. join_dict(Append(<<a, b>>, c)) = Joined(join_dict(<<a, b>>), c)
  BY <1>1, JoinTurn
<1> QED BY <1>2, <1>3, <1>4, <1>5, JoinNone

LEMMA JoinsFirst == ASSUME NEW k, NEW v PROVE Joined(<<>>, <<k, v>>) = <<k, ".">> \o v
<1>1. (<<>> \o <<>>) \o <<k, ".">> = <<k, ".">>
  OBVIOUS
<1> QED BY <1>1 DEF Joined

LEMMA JoinsNext == ASSUME NEW s, s # <<>>, NEW k, NEW v
                   PROVE  Joined(s, <<k, v>>) = ((s \o <<":">>) \o <<k, ".">>) \o v
BY DEF Joined

LEMMA TwoJoined == ASSUME NEW k, NEW l PROVE <<k>> \o <<l>> = <<k, l>>
<1> DEFINE X == {k, l}
<1>1. <<k>> \in Seq(X) /\ l \in X
  OBVIOUS
<1> HIDE DEF X
<1>2. <<k>> \o <<l>> = Append(<<k>>, l)
  BY <1>1, JoinsOne
<1> QED BY <1>2, TwoAppended

LEMMA ThirdJoined == ASSUME NEW k, NEW l, NEW m PROVE <<k, l>> \o <<m>> = <<k, l, m>>
<1> DEFINE X == {k, l, m}
<1>1. <<k, l>> \in Seq(X) /\ m \in X
  OBVIOUS
<1> HIDE DEF X
<1>2. <<k, l>> \o <<m>> = Append(<<k, l>>, m)
  BY <1>1, JoinsOne
<1> QED BY <1>2, ThreeAppended

(* Three texts, joined in one order and in the other.                      *)
Either(a, b, c) == a \o (b \o c) = (a \o b) \o c

LEMMA EitherWay == ASSUME NEW X, NEW a \in Seq(X), NEW b \in Seq(X), NEW c \in Seq(X) PROVE Either(a, b, c)
<1>1. (a \o b) \o c = a \o (b \o c)
  BY ConcatAssociative
<1> QED BY <1>1 DEF Either

Regroups(e, j, c, m, p, w) ==
  (e \o (((j \o c) \o m) \o p)) \o (c \o w) = ((((e \o j) \o c) \o (m \o p)) \o c) \o w

(* The parts of the name, joined as they are made and as they are read.    *)
LEMMA Regrouped ==
  ASSUME NEW X, NEW e \in Seq(X), NEW j \in Seq(X), NEW c \in Seq(X),
         NEW m \in Seq(X), NEW p \in Seq(X), NEW w \in Seq(X)
  PROVE  Regroups(e, j, c, m, p, w)
<1> DEFINE u == j \o c
           v == m \o p
           q == (e \o u) \o v
<1>1. u \in Seq(X) /\ v \in Seq(X) /\ q \in Seq(X)
  OBVIOUS
<1> HIDE DEF u, v, q
<1>2. Either(u, m, p) /\ Either(e, u, v) /\ Either(e, j, c) /\ Either(q, c, w)
  <2>1. Either(u, m, p)
    BY <1>1, EitherWay
  <2>2. Either(e, u, v)
    BY <1>1, EitherWay
  <2>3. Either(e, j, c)
    BY <1>1, EitherWay
  <2>4. Either(q, c, w)
    BY <1>1, EitherWay
  <2> QED BY <2>1, <2>2, <2>3, <2>4
<1>3. (u \o m) \o p = u \o v
  BY <1>2, Zenon DEF Either, v
<1>4. e \o ((u \o m) \o p) = q
  BY <1>2, <1>3, Zenon DEF Either, q
<1>5. q \o (c \o w) = (q \o c) \o w
  BY <1>2, Zenon DEF Either
<1>6. q = ((e \o j) \o c) \o (m \o p)
  BY <1>2, Zenon DEF Either, q, u, v
<1> QED BY <1>4, <1>5, <1>6, Zenon DEF u, Regroups

LEMMA CharsAre ==
  /\ "x" \in Char /\ "master_pid" \in Char /\ "." \in Char /\ ":" \in Char /\ "/" \in Char
  /\ "pgm_name" \in Char /\ "bmc_nickname" \in Char /\ "boot_results" \in Char
BY DEF Char

(* The name that create_file_path makes of the records.                    *)
LEMMA PathIs ==
  ASSUME NEW nick \in Seq(Char), NEW P \in Seq(Char)
  PROVE  /\ Before(nick) \in Seq(Char) /\ After(P) \in Seq(Char)
         /\ create_file_path(Records(nick, P), <<":", "boot_results">>)
              = (((Before(nick) \o <<":">>) \o After(P)) \o <<":">>) \o <<"boot_results">>
<1> DEFINE c == <<":">>
           a == <<"pgm_name", ".", "x">>
           b == <<"bmc_nickname", ".">>
           m == <<"master_pid", ".">>
           e == <<"/">>
           w == <<"boot_results">>
           J2 == a \o c \o b \o nick
           J3 == J2 \o c \o m \o P
<1>1. /\ c \in Seq(Char) /\ a \in Seq(Char) /\ b \in Seq(Char) /\ m \in Seq(Char)
      /\ e \in Seq(Char) /\ w \in Seq(Char)
  BY CharsAre, ShortSeqs
<1>2. join_dict(Records(nick, P)) = J3
  <2>1. join_dict(Records(nick, P)) =
          Joined(Joined(Joined(<<>>, <<"pgm_name", <<"x">>>>), <<"bmc_nickname", nick>>), <<"master_pid", P>>)
    <3> DEFINE r1 == <<"pgm_name", <<"x">>>>
               r2 == <<"bmc_nickname", nick>>
               r3 == <<"master_pid", P>>
    <3>1. Records(nick, P) = <<r1, r2, r3>>
      BY DEF Records
    <3> HIDE DEF r1, r2, r3
    <3>2. join_dict(<<r1, r2, r3>>) = Joined(Joined(Joined(<<>>, r1), r2), r3)
      BY ThreeJoined
    <3> QED BY <3>1, <3>2 DEF r1, r2, r3
  <2>3. Joined(<<>>, <<"pgm_name", <<"x">>>>) = a
    <3> DEFINE k == "pgm_name"
               v == <<"x">>
    <3>1. <<k, ".">> \o v = a
      BY ThirdJoined
    <3> HIDE DEF k, v
    <3>2. Joined(<<>>, <<k, v>>) = <<k, ".">> \o v
      BY JoinsFirst
    <3> QED BY <3>1, <3>2 DEF k, v
  <2>4. Joined(a, <<"bmc_nickname", nick>>) = J2
    <3>1. a # <<>>
      OBVIOUS
    <3> HIDE DEF a
    <3>2. Joined(a, <<"bmc_nickname", nick>>) = ((a \o <<":">>) \o <<"bmc_nickname", ".">>) \o nick
      BY <3>1, JoinsNext
    <3> QED BY <3>2
  <2>5. Joined(J2, <<"master_pid", P>>) = J3
    <3>1. J2 \in Seq(Char)
      <4> HIDE DEF a, b, c
      <4> QED BY <1>1
    <3>2. J2 # <<>>
      <4>1. Len(a) = 3
        OBVIOUS
      <4> HIDE DEF a, b, c
      <4>2. Len(J2) = Len(a) + Len(c) + Len(b) + Len(nick)
        BY <1>1
      <4>3. Len(c) \in Nat /\ Len(b) \in Nat /\ Len(nick) \in Nat
        BY <1>1
      <4> QED BY <4>1, <4>2, <4>3
    <3> HIDE DEF J2
    <3>3. Joined(J2, <<"master_pid", P>>) = ((J2 \o <<":">>) \o <<"master_pid", ".">>) \o P
      BY <3>2, JoinsNext
    <3> QED BY <3>3
  <2> QED BY <2>1, <2>3, <2>4, <2>5
<1>3. create_file_path(Records(nick, P), <<":", "boot_results">>) = (e \o J3) \o (c \o w)
  <2>1. c \o w = <<":", "boot_results">>
    BY TwoJoined
  <2> HIDE DEF J3
  <2> QED BY <1>2, <2>1 DEF create_file_path
<1>4. Before(nick) = e \o J2 /\ After(P) = m \o P
  BY DEF Before, After
<1>5. J2 \in Seq(Char) /\ m \o P \in Seq(Char) /\ e \o J2 \in Seq(Char)
  <2> HIDE DEF a, b, c, m, e, w
  <2> QED BY <1>1
<1> HIDE DEF c, m, e, w, J2
<1>6. Regroups(e, J2, c, m, P, w)
  BY <1>1, <1>5, Regrouped
<1> QED BY <1>3, <1>4, <1>5, <1>6, Zenon DEF c, w, Regroups

(* The text has no such character.                                         *)
Without(r, d) == \A i \in 1..Len(r) : r[i] # d

LEMMA BothWithout == ASSUME NEW X, NEW s \in Seq(X), NEW r \in Seq(X), NEW d, Without(s, d), Without(r, d)
                     PROVE  Without(s \o r, d)
<1>1. /\ Len(s \o r) = Len(s) + Len(r) /\ Len(s) \in Nat /\ Len(r) \in Nat
      /\ \A i \in 1..Len(s) + Len(r) : (s \o r)[i] = IF i <= Len(s) THEN s[i] ELSE r[i - Len(s)]
  BY ConcatProperties
<1>2. ASSUME NEW i \in 1..Len(s) + Len(r) PROVE (s \o r)[i] # d
  <2>1. CASE i <= Len(s)
    BY <1>1, <2>1 DEF Without
  <2>2. CASE ~(i <= Len(s))
    <3>1. i - Len(s) \in 1..Len(r)
      BY <1>1, <2>2
    <3> QED BY <1>1, <2>2, <3>1 DEF Without
  <2> QED BY <2>1, <2>2
<1> QED BY <1>1, <1>2 DEF Without

LEMMA OneWithout == ASSUME NEW k, NEW d, k # d PROVE Without(<<k>>, d)
BY DEF Without

(* One entry of a name: its key, a point and its value.                    *)
LEMMA EntryIs ==
  ASSUME NEW k \in Char, k # ".", NEW v \in Seq(Char), Without(v, ".")
  PROVE  SplitOn(<<k, ".">> \o v, ".") = <<<<k>>, v>> /\ Value(<<k, ".">> \o v) = v
<1>1. <<k, ".">> = <<k>> \o <<".">>
  BY TwoJoined
<1>2. <<k>> \in Seq(Char) /\ "." \in Char
  BY CharsAre
<1>3. SplitOn((<<k>> \o <<".">>) \o v, ".") = <<<<k>>, v>>
  <2> DEFINE s == <<k>>
  <2>1. \A i \in 1..Len(s) : s[i] # "."
    BY OneWithout DEF Without
  <2>2. \A i \in 1..Len(v) : v[i] # "."
    BY DEF Without
  <2>3. s \in Seq(Char)
    BY <1>2
  <2> HIDE DEF s
  <2>4. SplitOn(s \o <<".">> \o v, ".") = <<s, v>>
    BY <1>2, <2>1, <2>2, <2>3, TwoParts
  <2> QED BY <2>4 DEF s
<1>4. SplitOn(<<k, ".">> \o v, ".") = <<<<k>>, v>>
  BY <1>1, <1>3
<1>5. Len(<<<<k>>, v>>) = 2 /\ <<<<k>>, v>>[2] = v
  OBVIOUS
<1> QED BY <1>4, <1>5 DEF Value

(* The suffix is a key without a value.                                    *)
LEMMA ResultsIs == SplitOn(<<"boot_results">>, ".") = <<<<"boot_results">>>> /\ Value(<<"boot_results">>) = <<>>
<1> DEFINE w == <<"boot_results">>
<1>1. w \in Seq(Char) /\ \A i \in 1..Len(w) : w[i] # "."
  BY CharsAre
<1> HIDE DEF w
<1>2. SplitOn(w, ".") = <<w>>
  BY <1>1, OnePart
<1>3. Len(<<w>>) = 1
  OBVIOUS
<1> QED BY <1>2, <1>3 DEF Value, w

(* A parsed name has the entries of its last part.                         *)
LEMMA ParsedIs ==
  ASSUME NEW path, NEW X, NEW F, NEW last, Parts(path, "/", X, F, last),
         NEW k \in DOMAIN split_to_dict(last)
  PROVE  k \in DOMAIN parse_file_path(path) /\ parse_file_path(path)[k] = split_to_dict(last)[k]
<1> DEFINE parts == SplitOn(path, "/")
<1>1. parts[Len(parts)] = last
  <2>1. F \in Seq(Seq(X)) /\ last \in Seq(X) /\ parts = Append(F, last)
    BY DEF Parts
  <2> HIDE DEF parts
  <2>2. Len(Append(F, last)) = Len(F) + 1 /\ Append(F, last)[Len(F) + 1] = last
    BY <2>1
  <2> QED BY <2>1, <2>2
<1> DEFINE d == split_to_dict(parts[Len(parts)])
           dir == SubSeq(path, 1, Len(path) - Len(parts[Len(parts)]))
<1>2. parse_file_path(path) = [j \in DOMAIN d \cup {<<"dir_path">>} |-> IF j \in DOMAIN d THEN d[j] ELSE dir]
  BY DEF parse_file_path
<1>3. d = split_to_dict(last)
  BY <1>1
<1> HIDE DEF d, dir, parts
<1> QED BY <1>2, <1>3

LEMMA DictIs == ASSUME NEW s PROVE split_to_dict(s) = Dict(SplitOn(s, ":"))
BY DEF split_to_dict, Dict

(* The path ends in a part with the entries d, the pid and the suffix.     *)
EndsIn(path, F, last, d, P) ==
  /\ Parts(path, "/", Char, F, last)
  /\ split_to_dict(last) = Put(Put(d, <<"master_pid">>, P), <<"boot_results">>, <<>>)

(* Whatever is before it, the pid and the suffix are parts of their own.   *)
LEMMA PathHas ==
  ASSUME NEW nick \in Seq(Char), NEW P \in Seq(Char), Without(P, "."), Without(P, ":"), Without(P, "/"),
         NEW F, NEW t, Parts(Before(nick), "/", Char, F, t), NEW path,
         path = (((Before(nick) \o <<":">>) \o After(P)) \o <<":">>) \o <<"boot_results">>
  PROVE  \E last : EndsIn(path, F, last, Dict(SplitOn(t, ":")), P)
<1> DEFINE B == Before(nick)
           M == After(P)
           m == <<"master_pid", ".">>
           c == <<":">>
           w == <<"boot_results">>
           last == ((t \o c) \o M) \o c \o w
           S == SplitOn(t, ":")
<1>1. /\ B \in Seq(Char) /\ M \in Seq(Char) /\ t \in Seq(Char) /\ c \in Seq(Char) /\ w \in Seq(Char)
      /\ ":" \in Char
  BY PathIs, CharsAre, ShortSeqs DEF Parts
<1>2. Without(c, "/") /\ Without(w, "/") /\ Without(w, ":")
  BY OneWithout
<1>3. Without(M, "/") /\ Without(M, ":")
  <2>1. m = <<"master_pid">> \o <<".">> /\ M = m \o P
    BY TwoJoined DEF After
  <2>2. <<"master_pid">> \in Seq(Char) /\ <<".">> \in Seq(Char) /\ m \in Seq(Char)
    BY CharsAre, ShortSeqs
  <2>3. /\ Without(<<"master_pid">>, "/") /\ Without(<<".">>, "/")
        /\ Without(<<"master_pid">>, ":") /\ Without(<<".">>, ":")
    BY OneWithout
  <2> HIDE DEF m, M
  <2>4. Without(m, "/")
    BY <2>1, <2>2, <2>3, BothWithout
  <2>5. Without(m, ":")
    BY <2>1, <2>2, <2>3, BothWithout
  <2>6. Without(M, "/")
    BY <2>1, <2>2, <2>4, BothWithout
  <2>7. Without(M, ":")
    BY <2>1, <2>2, <2>5, BothWithout
  <2> QED BY <2>6, <2>7
<1>4. path = ((B \o c) \o M) \o c \o w
  OBVIOUS
<1> HIDE DEF B, M, m, c, w
<1>5. Parts(path, "/", Char, F, last)
  <2>1. Parts(B \o c, "/", Char, F, t \o c)
    BY <1>1, <1>2, TextIsAdded DEF B, Without
  <2>2. Parts((B \o c) \o M, "/", Char, F, (t \o c) \o M)
    <3>1. B \o c \in Seq(Char)
      BY <1>1
    <3> QED BY <1>1, <1>3, <2>1, <3>1, TextIsAdded DEF Without
  <2>3. Parts(((B \o c) \o M) \o c, "/", Char, F, ((t \o c) \o M) \o c)
    <3>1. (B \o c) \o M \in Seq(Char)
      BY <1>1
    <3> QED BY <1>1, <1>2, <2>2, <3>1, TextIsAdded DEF Without
  <2>4. Parts((((B \o c) \o M) \o c) \o w, "/", Char, F, (((t \o c) \o M) \o c) \o w)
    <3>1. ((B \o c) \o M) \o c \in Seq(Char)
      BY <1>1
    <3> QED BY <1>1, <1>2, <2>3, <3>1, TextIsAdded DEF Without
  <2> QED BY <1>4, <2>4
<1>6. SplitOn(last, ":") = Append(Append(S, M), w) /\ S \in Seq(Seq(Char))
  <2>1. SplitOn(t \o <<":">> \o M, ":") = Append(S, M) /\ S \in Seq(Seq(Char))
    BY <1>1, <1>3, PartIsAdded DEF Without
  <2> DEFINE u == t \o <<":">> \o M
  <2>2. u \in Seq(Char)
    BY <1>1 DEF c
  <2> HIDE DEF u
  <2>3. SplitOn(u \o <<":">> \o w, ":") = Append(SplitOn(u, ":"), w)
    BY <1>1, <1>2, <2>2, PartIsAdded DEF Without
  <2> QED BY <2>1, <2>3 DEF u, c
<1>7. split_to_dict(last) = Dict(Append(Append(S, M), w))
  BY <1>6, DictIs
<1> HIDE DEF last, S
<1>8. Append(S, M) \in Seq(Seq(Char))
  BY <1>1, <1>6
<1>9. Dict(Append(Append(S, M), w)) = Put(Dict(Append(S, M)), SplitOn(w, ".")[1], Value(w))
  BY <1>1, <1>8, DictTurn
<1>10. Dict(Append(S, M)) = Put(Dict(S), SplitOn(M, ".")[1], Value(M))
  BY <1>1, <1>6, DictTurn
<1>11. SplitOn(M, ".")[1] = <<"master_pid">> /\ Value(M) = P
  <2>1. SplitOn(M, ".") = <<<<"master_pid">>, P>> /\ Value(M) = P
    BY CharsAre, EntryIs DEF M, After
  <2> QED BY <2>1
<1>12. SplitOn(w, ".")[1] = <<"boot_results">> /\ Value(w) = <<>>
  BY ResultsIs DEF w
<1>13. split_to_dict(last) = Put(Put(Dict(S), <<"master_pid">>, P), <<"boot_results">>, <<>>)
  BY <1>7, <1>9, <1>10, <1>11, <1>12
<1> QED BY <1>5, <1>13 DEF S, EndsIn

(* A name made of these records has the pid in its last part.              *)
LEMMA HasPid ==
  ASSUME NEW nick \in Seq(Char), NEW P \in Seq(Char), Without(P, "."), Without(P, ":"), Without(P, "/"),
         NEW F, NEW t, Parts(Before(nick), "/", Char, F, t)
  PROVE  \E p : /\ p = parse_file_path(create_file_path(Records(nick, P), <<":", "boot_results">>))
                /\ <<"master_pid">> \in DOMAIN p
                /\ p[<<"master_pid">>] = P
                /\ \A k \in DOMAIN Dict(SplitOn(t, ":")) :
                     k \notin {<<"master_pid">>, <<"boot_results">>} =>
                       k \in DOMAIN p /\ p[k] = Dict(SplitOn(t, ":"))[k]
<1> DEFINE path == create_file_path(Records(nick, P), <<":", "boot_results">>)
           d == Dict(SplitOn(t, ":"))
           m == <<"master_pid">>
           w == <<"boot_results">>
           e == Put(d, m, P)
           q == Put(e, w, <<>>)
<1>1. path = (((Before(nick) \o <<":">>) \o After(P)) \o <<":">>) \o <<"boot_results">>
  BY PathIs
<1>2. PICK last : Parts(path, "/", Char, F, last) /\ split_to_dict(last) = q
  <2> HIDE DEF path
  <2>1. \E last : EndsIn(path, F, last, Dict(SplitOn(t, ":")), P)
    BY <1>1, PathHas
  <2> QED BY <2>1 DEF EndsIn
<1>3. \A k \in DOMAIN q : k \in DOMAIN parse_file_path(path) /\ parse_file_path(path)[k] = q[k]
  <2> HIDE DEF path, q
  <2>1. ASSUME NEW k \in DOMAIN q
        PROVE  k \in DOMAIN parse_file_path(path) /\ parse_file_path(path)[k] = q[k]
    <3>1. k \in DOMAIN split_to_dict(last)
      BY <1>2
    <3> QED BY <1>2, <3>1, ParsedIs
  <2> QED BY <2>1
<1>4. m # w
  OBVIOUS
<1> HIDE DEF path, d, m, w
<1>5. DOMAIN e = DOMAIN d \cup {m} /\ DOMAIN q = DOMAIN e \cup {w}
  BY PutDomain
<1>6. m \in DOMAIN q /\ q[m] = P
  <2>1. m \in DOMAIN e /\ e[m] = P
    BY <1>5, PutHas
  <2> HIDE DEF e
  <2>2. q[m] = e[m]
    BY <1>4, <2>1, PutKeeps
  <2> QED BY <1>5, <2>1, <2>2
<1>7. ASSUME NEW k \in DOMAIN d, k \notin {m, w} PROVE k \in DOMAIN q /\ q[k] = d[k]
  <2>1. e[k] = d[k] /\ k \in DOMAIN e
    BY <1>5, <1>7, PutKeeps
  <2> HIDE DEF e
  <2>2. q[k] = e[k]
    BY <1>7, <2>1, PutKeeps
  <2> QED BY <1>5, <2>1, <2>2
<1> HIDE DEF q
<1> DEFINE p == parse_file_path(path)
<1>8. m \in DOMAIN p /\ p[m] = P
  BY <1>3, <1>6
<1>9. ASSUME NEW k \in DOMAIN d, k \notin {m, w} PROVE k \in DOMAIN p /\ p[k] = d[k]
  BY <1>3, <1>7, <1>9
<1> HIDE DEF p
<1>10. \E r : r = p /\ m \in DOMAIN r /\ r[m] = P
               /\ \A k \in DOMAIN d : k \notin {m, w} => k \in DOMAIN r /\ r[k] = d[k]
  BY <1>8, <1>9
<1> QED BY <1>10, Zenon DEF p, path, m, w, d

(* The entries before the pid, when the nickname has no delimiter.         *)
Named(nick) == <<"pgm_name", ".", "x">> \o <<":">> \o <<"bmc_nickname", ".">> \o nick

(* They are the last part of what is before the pid.                       *)
LEMMA NameEnds ==
  ASSUME NEW nick \in Seq(Char), Without(nick, "."), Without(nick, ":"), Without(nick, "/")
  PROVE  Parts(Before(nick), "/", Char, <<<<>>>>, Named(nick))
<1> DEFINE a == <<"pgm_name", ".", "x">>
           c == <<":">>
           b == <<"bmc_nickname", ".">>
           R == a \o c \o b \o nick
           s == <<"/">>
<1>1. a \in Seq(Char) /\ c \in Seq(Char) /\ b \in Seq(Char) /\ s \in Seq(Char)
  BY CharsAre, ShortSeqs
<1>2. Without(a, "/") /\ Without(c, "/") /\ Without(b, "/")
  BY DEF Without
<1>3. Parts(s, "/", Char, <<<<>>>>, <<>>)
  <2>1. Parts(<<>>, "/", Char, <<>>, <<>>) /\ <<>> \in Seq(Char) /\ "/" \in Char
    BY NoParts, Nothing, CharsAre
  <2>2. Parts(Append(<<>>, "/"), "/", Char, Append(<<>>, <<>>), <<>>)
    BY <2>1, PartEnds
  <2>3. Append(<<>>, "/") = s /\ Append(<<>>, <<>>) = <<<<>>>>
    OBVIOUS
  <2> QED BY <2>2, <2>3
<1> HIDE DEF a, b, c, s
<1>4. R \in Seq(Char) /\ a \o c \in Seq(Char) /\ (a \o c) \o b \in Seq(Char)
  BY <1>1
<1>5. Without(R, "/")
  <2>1. Without(a \o c, "/")
    BY <1>1, <1>2, BothWithout
  <2>2. Without((a \o c) \o b, "/")
    BY <1>1, <1>2, <1>4, <2>1, BothWithout
  <2> QED BY <1>4, <2>2, BothWithout
<1>6. Before(nick) = s \o R /\ Named(nick) = R
  BY DEF Before, Named, s, a, b, c
<1> HIDE DEF R
<1>7. Parts(s \o R, "/", Char, <<<<>>>>, <<>> \o R)
  BY <1>1, <1>3, <1>4, <1>5, TextIsAdded DEF Without
<1>8. <<>> \o R = R
  BY <1>4
<1> QED BY <1>6, <1>7, <1>8

(* They give the program and the nickname.                                 *)
LEMMA NameHas ==
  ASSUME NEW nick \in Seq(Char), Without(nick, "."), Without(nick, ":"), Without(nick, "/")
  PROVE  Dict(SplitOn(Named(nick), ":")) = Put(Put(<<>>, <<"pgm_name">>, <<"x">>), <<"bmc_nickname">>, nick)
<1> DEFINE a == <<"pgm_name", ".", "x">>
           c == <<":">>
           b == <<"bmc_nickname", ".">>
           n == b \o nick
<1>1. a \in Seq(Char) /\ c \in Seq(Char) /\ b \in Seq(Char) /\ ":" \in Char
  BY CharsAre, ShortSeqs
<1>2. Without(a, ":") /\ Without(b, ":")
  BY DEF Without
<1>3. SplitOn(a, ".")[1] = <<"pgm_name">> /\ Value(a) = <<"x">>
  <2> DEFINE v == <<"x">>
  <2>1. a = <<"pgm_name", ".">> \o v
    BY ThirdJoined
  <2>2. v \in Seq(Char) /\ Without(v, ".") /\ "pgm_name" \in Char /\ "pgm_name" # "."
    BY CharsAre DEF Without
  <2> HIDE DEF a, v
  <2>3. SplitOn(a, ".") = <<<<"pgm_name">>, v>> /\ Value(a) = v
    BY <2>1, <2>2, EntryIs
  <2> QED BY <2>3 DEF v
<1>4. SplitOn(n, ".")[1] = <<"bmc_nickname">> /\ Value(n) = nick
  <2>1. SplitOn(n, ".") = <<<<"bmc_nickname">>, nick>> /\ Value(n) = nick
    BY CharsAre, EntryIs
  <2> QED BY <2>1
<1> HIDE DEF a, b
<1>5. Without(n, ":") /\ n \in Seq(Char) /\ a \o c \in Seq(Char)
  BY <1>1, <1>2, BothWithout
<1>6. Named(nick) = (a \o c) \o n
  <2>1. Named(nick) = ((a \o c) \o b) \o nick
    BY DEF Named, a, b, c
  <2>2. Either(a \o c, b, nick)
    BY <1>1, <1>5, EitherWay
  <2> QED BY <2>1, <2>2, Zenon DEF Either
<1> HIDE DEF n
<1>7. SplitOn(a \o <<":">> \o n, ":") = <<a, n>>
  BY <1>1, <1>2, <1>5, TwoParts DEF Without
<1>8. Dict(<<a, n>>) = Put(Put(<<>>, <<"pgm_name">>, <<"x">>), <<"bmc_nickname">>, nick)
  <2>1. <<a>> \in Seq(Seq(Char)) /\ <<>> \in Seq(Seq(Char)) /\ Append(<<>>, a) = <<a>> /\ Append(<<a>>, n) = <<a, n>>
    BY <1>1, TwoAppended
  <2>2. Dict(Append(<<>>, a)) = Put(Dict(<<>>), SplitOn(a, ".")[1], Value(a))
    BY <1>1, <2>1, DictTurn
  <2>3. Dict(Append(<<a>>, n)) = Put(Dict(<<a>>), SplitOn(n, ".")[1], Value(n))
    BY <1>5, <2>1, DictTurn
  <2> QED BY <1>3, <1>4, <2>1, <2>2, <2>3, DictNone
<1> QED BY <1>6, <1>7, <1>8 DEF c

(* What ReadPath reads.                                                    *)
LEMMA PathCame ==
  ASSUME NEW nickname \in Name, NEW pid \in {<<"x">>, <<"x", "x">>}, ReadPath(nickname, pid)
  PROVE  PidComesBack'
<1> DEFINE nick == nickname
           P == pid
<1>1. nick \in Seq(Char)
  <2>1. nick \in Seq({"x", "master_pid", ".", ":", "/"})
    BY SeqOfIsSeq DEF Name
  <2>2. {"x", "master_pid", ".", ":", "/"} \subseteq Char
    BY DEF Char
  <2> QED BY <2>1, <2>2
<1>2. P \in Seq(Char) /\ Without(P, ".") /\ Without(P, ":") /\ Without(P, "/")
  <2>1. P \in Seq(Char)
    BY CharsAre, ShortSeqs
  <2> QED BY <2>1 DEF Without
<1>3. /\ given' = [f |-> "path", nickname |-> nick, pid |-> P]
      /\ result' = parse_file_path(create_file_path(Records(nick, P), <<":", "boot_results">>))
  BY DEF ReadPath, Records
<1> HIDE DEF nick, P
<1>4. <<"master_pid">> \in DOMAIN result' /\ result'[<<"master_pid">>] = P
  <2>1. Before(nick) \in Seq(Char)
    BY <1>1, <1>2, PathIs
  <2>2. PICK F, t : Parts(Before(nick), "/", Char, F, t)
    BY <2>1, HasParts
  <2> QED BY <1>1, <1>2, <1>3, <2>2, HasPid
<1>5. ASSUME Without(nick, "."), Without(nick, ":"), Without(nick, "/")
      PROVE  result'[<<"bmc_nickname">>] = nick /\ result'[<<"pgm_name">>] = <<"x">>
  <2> DEFINE g == <<"pgm_name">>
             b == <<"bmc_nickname">>
             x == <<"x">>
             e == Put(<<>>, g, x)
             d == Put(e, b, nick)
             D == Dict(SplitOn(Named(nick), ":"))
  <2>1. Parts(Before(nick), "/", Char, <<<<>>>>, Named(nick))
    BY <1>1, <1>5, NameEnds
  <2>2. D = d
    BY <1>1, <1>5, NameHas
  <2>3. ASSUME NEW k \in DOMAIN D, k \notin {<<"master_pid">>, <<"boot_results">>} PROVE result'[k] = D[k]
    BY <1>1, <1>2, <1>3, <2>1, <2>3, HasPid
  <2>4. g # b /\ g \notin {<<"master_pid">>, <<"boot_results">>} /\ b \notin {<<"master_pid">>, <<"boot_results">>}
    OBVIOUS
  <2> HIDE DEF D, g, b, x
  <2>5. g \in DOMAIN e /\ e[g] = x /\ DOMAIN d = DOMAIN e \cup {b}
    <3>1. DOMAIN e = DOMAIN <<>> \cup {g}
      BY PutDomain
    <3>2. e[g] = x
      BY PutHas
    <3>3. DOMAIN d = DOMAIN e \cup {b}
      <4> HIDE DEF e
      <4> QED BY PutDomain
    <3> QED BY <3>1, <3>2, <3>3
  <2> HIDE DEF e
  <2>6. d[g] = e[g]
    BY <2>4, <2>5, PutKeeps
  <2>7. d[b] = nick
    BY PutHas
  <2> HIDE DEF d
  <2>8. result'[b] = nick
    BY <2>2, <2>3, <2>4, <2>5, <2>7
  <2>9. result'[g] = x
    BY <2>2, <2>3, <2>4, <2>5, <2>6
  <2> QED BY <2>8, <2>9 DEF b, g, x
<1>6. (\A i \in 1..Len(nick) : nick[i] \notin {".", ":", "/"}) =>
        Without(nick, ".") /\ Without(nick, ":") /\ Without(nick, "/")
  BY DEF Without
<1>7. given'.f = "path" /\ given'.nickname = nick /\ given'.pid = P
  BY <1>3
<1> QED BY <1>4, <1>5, <1>6, <1>7 DEF PidComesBack

-----------------------------------------------------------------------------
(* The reading of lines, names and reports: each is done once.             *)
ReadInv ==
  /\ NoLineIsLost /\ LevelStaysLevel /\ PidComesBack /\ CellsComeBack

LEMMA ReadStarts == XvInit => ReadInv
BY DEF XvInit, ReadInv, NoLineIsLost, LevelStaysLevel, PidComesBack, CellsComeBack

LEMMA ReadStays == ReadInv /\ [XvNext]_xvars => ReadInv'
<1> SUFFICES ASSUME ReadInv, [XvNext]_xvars PROVE ReadInv'
  OBVIOUS
<1>1. ASSUME NEW n \in 1..MaxLines, NEW ls \in [1..n -> Lines], ReadLines(ls)
      PROVE  ReadInv'
  <2>1. NoLineIsLost' /\ LevelStaysLevel'
    BY <1>1, LinesCame
  <2>2. given'.f = "lines"
    BY <1>1 DEF ReadLines
  <2>3. PidComesBack' /\ CellsComeBack'
    BY <2>2 DEF PidComesBack, CellsComeBack
  <2> QED BY <2>1, <2>3 DEF ReadInv
<1>2. ASSUME NEW nickname \in Name, NEW pid \in {<<"x">>, <<"x", "x">>}, ReadPath(nickname, pid)
      PROVE  ReadInv'
  <2>1. PidComesBack'
    BY <1>2, PathCame
  <2>2. given'.f = "path"
    BY <1>2 DEF ReadPath
  <2>3. NoLineIsLost' /\ LevelStaysLevel' /\ CellsComeBack'
    BY <2>2 DEF NoLineIsLost, LevelStaysLevel, CellsComeBack
  <2> QED BY <2>1, <2>3 DEF ReadInv
<1>3. ASSUME NEW w \in (1..2) \X (1..2), NEW cells \in Cell \X Cell,
             NEW trim \in IF Strip(cells[2]) = <<>> THEN BOOLEAN ELSE {FALSE}, ReadReport(w, cells, trim)
      PROVE  ReadInv'
  <2>1. CellsComeBack'
    <3>1. trim \in BOOLEAN /\ (trim => Strip(cells[2]) = <<>>)
      OBVIOUS
    <3> QED BY <1>3, <3>1, CellsCame
  <2>2. given'.f = "report"
    BY <1>3 DEF ReadReport
  <2>3. NoLineIsLost' /\ LevelStaysLevel' /\ PidComesBack'
    BY <2>2 DEF NoLineIsLost, LevelStaysLevel, PidComesBack
  <2> QED BY <2>1, <2>3 DEF ReadInv
<1>4. CASE UNCHANGED xvars
  BY <1>4 DEF xvars, ReadInv, NoLineIsLost, LevelStaysLevel, PidComesBack, CellsComeBack
<1> QED BY <1>1, <1>2, <1>3, <1>4 DEF XvNext

(* No line of a text is lost, lines of one indentation stay on one level,  *)
(* the pid comes back from its name and the cells from their columns: for  *)
(* any key names, texts of any length, nicknames and cells of any width.   *)
THEOREM TextsAreRead == XvSpec => [](NoLineIsLost /\ LevelStaysLevel /\ PidComesBack /\ CellsComeBack)
<1>1. ReadInv => NoLineIsLost /\ LevelStaysLevel /\ PidComesBack /\ CellsComeBack
  BY DEF ReadInv
<1> QED BY <1>1, ReadStarts, ReadStays, PTL DEF XvSpec

-----------------------------------------------------------------------------
(* The checks, verdicts, tables and variables are what they are alone, so  *)
(* that what holds of each holds in the instance that is checked.          *)
THEOREM ValuesAreMeant ==
  MCSpec => [](AnswersAreTrue /\ ChecksAreComplete /\ VariablesAreHeard /\ InputsAreJudged)
<1>1. ASSUME MCInit PROVE LInit /\ YInit /\ WInit /\ TInv
  <2>1. LInit /\ YInit
    BY <1>1 DEF MCInit
  <2>2. WInit
    <3>1. CASE part = "plug_vars"
      BY <1>1, <3>1 DEF MCInit
    <3>2. CASE part # "plug_vars"
      <4>1. /\ env = [p \in Place |-> "unset"] /\ started = env
            /\ global = Typed("str", NoText) /\ was = global
            /\ gotten = FALSE /\ failed = FALSE /\ heard = "not asked"
        BY <1>1, <3>2, Zenon DEF MCInit, NoText
      <4>4. of_user = "unset" /\ first = NoText
        BY <1>1, <3>2, Zenon DEF MCInit, NoText
      <4>5. of_user = env["package"]
        BY <4>1, <4>4 DEF Place
      <4>2. Typed("str", NoText) \in Defaults
        BY DEF Defaults
      <4>3. env \in [Place -> Export \cup {"unset"}]
        BY <4>1
      <4> QED BY <4>1, <4>2, <4>3, <4>4, <4>5 DEF WInit
    <3> QED BY <3>1, <3>2
  <2>3. TInv
    <3>1. CASE TInit
      BY <3>1, TableStarts
    <3>2. CASE ~TInit
      BY <1>1, <3>2, Zenon DEF MCInit, TInv
    <3> QED BY <3>1, <3>2
  <2> QED BY <2>1, <2>2, <2>3
<1>2. [MCNext]_<<lvars, yvars, xvars, zvars, wvars, tvars, part>> =>
        [LNext]_lvars /\ [YNext]_yvars /\ [WNext]_wvars /\ [TNext]_tvars
  BY Zenon DEF MCNext
<1>3. LInv => AnswersAreTrue /\ ChecksAreComplete
  BY DEF LInv, AnswersAreTrue
<1>4. VerdictsMean /\ TInv => InputsAreJudged
  BY TableFits, NamesInPlace DEF VerdictsMean, InputsAreJudged
<1> QED BY <1>1, <1>2, <1>3, <1>4, ValidationStarts, ValidationStays, VerdictsStart, VerdictsStay,
            HeardInPlace, VarsStart, VarsStep, TableSteps, PTL DEF MCSpec

(* What is read and what is selected stays what it is in the instance that *)
(* is checked, whatever else it goes through.                              *)
THEOREM PartsAreWhole == MCSpec => []PartsComeBack
<1>1. MCInit => XvInit /\ ZInit
  BY Zenon DEF MCInit
<1>2. [MCNext]_<<lvars, yvars, xvars, zvars, wvars, tvars, part>> => [XvNext]_xvars /\ [ZNext]_zvars
  BY Zenon DEF MCNext
<1>3. ReadInv /\ AskedInv => PartsComeBack
  BY DEF ReadInv, AskedInv, PartsComeBack
<1> QED BY <1>1, <1>2, <1>3, ReadStarts, ReadStays, AskedStarts, AskedStays, PTL DEF MCSpec
=============================================================================
