------------------------------ MODULE MCValues ------------------------------
(***************************************************************************)
(* Validation, the reading of values and the plug-in variables on small    *)
(* inputs: one of them in each behaviour, part says which.                 *)
(***************************************************************************)
EXTENDS Validation, Verdicts, KeyValues, Structures, PlugVars, BootTable

VARIABLE part

MCInit ==
  /\ LInit /\ YInit /\ XvInit /\ ZInit
  /\ \/ part = "plug_vars" /\ WInit
     \/ /\ part \in {"validation", "verdicts", "texts", "structures", "table"}
        /\ env = [p \in Place |-> "unset"] /\ started = env
        /\ global = Typed("str", "") /\ was = global
        /\ gotten = FALSE /\ failed = FALSE /\ heard = "not asked"
        /\ of_user = "unset" /\ first = ""
  /\ \/ part = "table" /\ TInit
     \/ /\ part # "table"
        /\ file = <<>> /\ boot_table = <<>> /\ os_host = "" /\ boot_list = <<>> /\ phase = "begun"

MCNext ==
  \/ part = "validation" /\ LNext /\ UNCHANGED <<yvars, xvars, zvars, wvars, tvars, part>>
  \/ part = "verdicts" /\ YNext /\ UNCHANGED <<lvars, xvars, zvars, wvars, tvars, part>>
  \/ part = "texts" /\ XvNext /\ UNCHANGED <<lvars, yvars, zvars, wvars, tvars, part>>
  \/ part = "structures" /\ ZNext /\ UNCHANGED <<lvars, yvars, xvars, wvars, tvars, part>>
  \/ part = "plug_vars" /\ WNext /\ UNCHANGED <<lvars, yvars, xvars, zvars, tvars, part>>
  \/ part = "table" /\ TNext /\ UNCHANGED <<lvars, yvars, xvars, zvars, wvars, part>>

MCSpec == MCInit /\ [][MCNext]_<<lvars, yvars, xvars, zvars, wvars, tvars, part>>

(* What passes for a valid range, list (judged by the one list given),     *)
(* dictionary or list of boots has what is asked of it, at zero and blank  *)
(* bounds and with blanks around names; the table of boots fits the host.  *)
InputsAreJudged ==
  /\ RangeIsMeant
  /\ ListIsMeant
  /\ DictIsMeant
  /\ NamesAreJudged
  /\ RequirementsFitHost

(* What is read, split or filtered has all the parts of the text or        *)
(* structure it was made from, each in its place.                          *)
PartsComeBack ==
  /\ NoLineIsLost
  /\ LevelStaysLevel
  /\ PidComesBack
  /\ CellsComeBack
  /\ FilterParts
  /\ FiltersCompose
  /\ SplitsBefore
  /\ SignedIsSameCode
=============================================================================
