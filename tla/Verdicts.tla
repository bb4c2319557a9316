------------------------------ MODULE Verdicts ------------------------------
(***************************************************************************)
(* What the validations of lib/gen_valid.py find, one call after another:  *)
(* numbers and their ranges, lists, dictionaries.  A verdict is valid,     *)
(* invalid (there is an error message) or raises (Python's own exception). *)
(***************************************************************************)
EXTENDS Integers, Sequences, SequencesExt

CONSTANTS Half,    (* numbers, in halves: the even ones are integers        *)
          Item,    (* what lists and dictionaries hold, "" among them       *)
          Key      (* keys of dictionaries                                  *)

ASSUME HalfAssumption == Half \subseteq Int

VARIABLES call, verdict
yvars == <<call, verdict>>

NoNumber == [form |-> "None", half |-> 0]
(* A number, its text, a text that is no number, the blank one, or None.   *)
Operand == [form : {"number", "text"}, half : Half]
             \cup {NoNumber, [form |-> "word", half |-> 0], [form |-> "", half |-> 0]}

(* int(str(v), 0) and float(str(v)) raise ValueError for the others.       *)
Reads(kind, v) == v.form \in {"number", "text"} /\ (kind = "integer" => v.half % 2 = 0)
Truthy(v) == ~(v.form \in {"None", ""} \/ (v.form = "number" /\ v.half = 0))

StrictRange(v, lower, upper) ==   \* mutant: the upper end is excluded
  \/ lower = NoNumber /\ upper = NoNumber
  \/ lower = NoNumber /\ upper # NoNumber /\ v < upper.half
  \/ upper = NoNumber /\ lower # NoNumber /\ v >= lower.half
  \/ lower # NoNumber /\ upper # NoNumber /\ lower.half <= v /\ v < upper.half

valid_range(v, lower, upper) ==
  \/ lower = NoNumber /\ upper = NoNumber
  \/ lower = NoNumber /\ upper # NoNumber /\ v <= upper.half
  \/ upper = NoNumber /\ lower # NoNumber /\ v >= lower.half
  \/ lower # NoNumber /\ upper # NoNumber /\ lower.half <= v /\ v <= upper.half

(* valid_integer and valid_float: a bound is converted if it is truthy; a  *)
(* blank one is left as it is and cannot be compared with a number.        *)
valid_number(kind, v, lower, upper) ==
  CASE ~Reads(kind, v) -> "invalid"
    [] OTHER -> IF \E b \in {lower, upper} : b.form = "" \/ (Truthy(b) /\ ~Reads(kind, b))
                THEN "raises"
                ELSE IF valid_range(v.half, lower, upper) THEN "valid" ELSE "invalid"

Odd(a, b, c) == ((a /= b) /= c)
Given(list) == list # <<>>
AllIn(list, others) == \A i \in 1..Len(list) : \E j \in 1..Len(others) : others[j] = list[i]
NoneIn(list, others) == \A i \in 1..Len(list) : \A j \in 1..Len(others) : others[j] # list[i]

RequiredLast(v, valid_values, invalid_values, required_values, fail_on_empty) ==   \* mutant: required the wrong way round
  /\ Odd(Given(valid_values), Given(invalid_values), Given(required_values))
  /\ ~(fail_on_empty /\ v = <<>>)
  /\ CASE Given(required_values) -> AllIn(v, required_values)
       [] ~Given(required_values) /\ Given(invalid_values) -> NoneIn(v, invalid_values)
       [] OTHER -> AllIn(v, valid_values)

valid_list(v, valid_values, invalid_values, required_values, fail_on_empty) ==
  /\ Odd(Given(valid_values), Given(invalid_values), Given(required_values))
  /\ ~(fail_on_empty /\ v = <<>>)
  /\ CASE Given(required_values) -> AllIn(required_values, v)
       [] ~Given(required_values) /\ Given(invalid_values) -> NoneIn(v, invalid_values)
       [] OTHER -> AllIn(v, valid_values)

(* valid_value for an entry; the lists are those of that key.              *)
valid_entry(v, valid_values, invalid_values) ==
  CASE valid_values # {} /\ invalid_values # {} -> FALSE
    [] valid_values # {} /\ invalid_values = {} -> v \in valid_values
    [] OTHER -> v \notin IF invalid_values = {} THEN {""} ELSE invalid_values

SkipsMissing(v, required_keys, valid_values, invalid_values) ==   \* mutant: valid_values of a missing key are passed over
  /\ required_keys \subseteq DOMAIN v
  /\ \A k \in DOMAIN valid_values \cap DOMAIN v : valid_entry(v[k], valid_values[k], {})
  /\ \A k \in DOMAIN invalid_values \cap DOMAIN v : valid_entry(v[k], {}, invalid_values[k])

(* The keys of valid_values are required by a call of valid_dict itself.   *)
valid_dict(v, required_keys, valid_values, invalid_values) ==
  /\ required_keys \cup DOMAIN valid_values \subseteq DOMAIN v
  /\ \A k \in DOMAIN valid_values : valid_entry(v[k], valid_values[k], {})
  /\ \A k \in DOMAIN invalid_values \cap DOMAIN v : valid_entry(v[k], {}, invalid_values[k])

valid_length(v, min_length, max_length) == valid_range(2 * Len(v), min_length, max_length)

Say(b) == IF b THEN "valid" ELSE "invalid"
Lists == SeqOf(Item, 2)
Few == SeqOf(Item, 1)
Dicts(S) == UNION {[K -> S] : K \in SUBSET Key}

YInit == call = [f |-> "none"] /\ verdict = "valid"

JudgeNumber(kind, v, lower, upper) ==
  /\ call' = [f |-> "number", kind |-> kind, v |-> v, lower |-> lower, upper |-> upper]
  /\ verdict' = valid_number(kind, v, lower, upper)
JudgeList(v, yes, no, required, fail) ==
  /\ call' = [f |-> "list", v |-> v, yes |-> yes, no |-> no, required |-> required, fail |-> fail]
  /\ verdict' = Say(valid_list(v, yes, no, required, fail))
JudgeDict(v, keys, yes, no) ==
  /\ call' = [f |-> "dict", v |-> v, keys |-> keys, yes |-> yes, no |-> no]
  /\ verdict' = Say(valid_dict(v, keys, yes, no))
JudgeLength(v, lower, upper) ==
  /\ call' = [f |-> "length", v |-> v, lower |-> lower, upper |-> upper]
  /\ verdict' = Say(valid_length(v, lower, upper))

Bound == {b \in Operand : b.form \in {"number", "None"}}
YNext ==
  /\ call.f = "none"
  /\ \/ \E kind \in {"integer", "float"}, v \in Operand, lower, upper \in Operand : JudgeNumber(kind, v, lower, upper)
     \/ \E v \in Lists, yes, no, required \in Few, fail \in BOOLEAN : JudgeList(v, yes, no, required, fail)
     \/ \E v \in Dicts(Item), keys \in SUBSET Key, yes, no \in Dicts(SUBSET Item) : JudgeDict(v, keys, yes, no)
     \/ \E v \in Lists, lower, upper \in Bound : JudgeLength(v, lower, upper)

YSpec == YInit /\ [][YNext]_yvars

-----------------------------------------------------------------------------
(* A number or length that is found valid lies within the bounds that are  *)
(* given, whether they are numbers or texts, and an empty range holds      *)
(* none; only bounds that are no numbers raise.                            *)
RangeIsMeant == call.f \in {"number", "length"} =>
  LET half == IF call.f = "length" THEN 2 * Len(call.v) ELSE call.v.half
      Holds(b, ok) == b.form \in {"number", "text"} => ok
  IN /\ verdict = "valid" => /\ Holds(call.lower, call.lower.half <= half)
                             /\ Holds(call.upper, half <= call.upper.half)
     /\ verdict = "raises" => \E b \in {call.lower, call.upper} :
                                b.form \in {"word", ""} \/ b.half % 2 # 0
     /\ verdict = "invalid" /\ call.f = "number" =>
          \/ call.v.form \notin {"number", "text"} \/ (call.kind = "integer" /\ half % 2 # 0)
          \/ call.lower # NoNumber /\ half < call.lower.half
          \/ call.upper # NoNumber /\ half > call.upper.half

(* How many of the three lists are given: a caller may give one of them.   *)
ListsGiven == Cardinality({i \in 1..3 : <<call.yes, call.no, call.required>>[i] # <<>>})

(* With one of the three lists a list is judged by it, and an empty one is *)
(* refused on demand; with none or two it is refused.  Nothing is said of  *)
(* a call with all three, which is to be refused too and is not.           *)
ListIsMeant == call.f = "list" /\ ListsGiven # 3 =>
  LET In(l) == {l[i] : i \in 1..Len(l)}
  IN verdict = "valid" <=>
       /\ ListsGiven = 1 /\ (call.fail => call.v # <<>>)
       /\ IF call.required # <<>> THEN In(call.required) \subseteq In(call.v)
          ELSE IF call.no # <<>> THEN In(call.no) \cap In(call.v) = {} ELSE In(call.v) \subseteq In(call.yes)

(* The caller may give only one of the lists (the docstring of valid_list, *)
(* line 494, and its message, line 516).  The code tests an exclusive or,  *)
(* which three satisfy as well as one: refuted.                            *)
OneListOnly == call.f = "list" /\ verdict = "valid" => ListsGiven = 1

(* A dictionary that is found valid has each required key and, for each    *)
(* key of valid_values, an entry that one of them is; a blank entry of a   *)
(* key that is named is valid only if it is asked for, or not refused.     *)
DictIsMeant == call.f = "dict" /\ verdict = "valid" =>
  /\ call.keys \subseteq DOMAIN call.v
  /\ \A k \in DOMAIN call.yes : k \in DOMAIN call.v
       /\ (call.yes[k] # {} => call.v[k] \in call.yes[k]) /\ (call.yes[k] = {} => call.v[k] # "")
  /\ \A k \in DOMAIN call.v \cap DOMAIN call.no : call.v[k] \notin call.no[k]
=============================================================================
