------------------------------ MODULE PlugVars ------------------------------
(***************************************************************************)
(* The variables of a plug-in, lib/gen_plug_in_utils.py.  return_plug_vars *)
(* puts the default of each parameter of the package, a global of the      *)
(* calling program, into the environment where it is not set; it gives     *)
(* what is set the type of the default; get_plug_vars makes that the       *)
(* global.  get_plug_default asks the environment for an option's default. *)
(***************************************************************************)
EXTENDS Naturals

CONSTANTS Export,    (* texts that users export                             *)
          IsInt      (* those that int(text, 0) reads                       *)

VARIABLES
  env,      (* [variable] its text, or unset; inherited by child programs   *)
  global,   (* the global of the program: its type and its text             *)
  gotten,   (* get_plug_vars has been called                                *)
  failed,   (* a value is not of the type of the default                    *)
  heard,    (* what get_plug_default answered, or "not asked"               *)
  was, started,   (* history: global and env when the program began         *)
  of_user,  (* history: the text of the package's variable that the user    *)
            (* has exported, or unset                                       *)
  first     (* history: the first default that is not blank of the programs *)
            (* since, of which each is called by the one before             *)

wvars == <<env, global, gotten, failed, heard, was, started, of_user, first>>

NoText == ""

(* <PACKAGE>_<var>, AUTOBOOT_OVERRIDE_<var> and AUTOBOOT_<var>.            *)
Place == {"package", "override", "general"}
Typed(type, text) == [type |-> type, text |-> text]
Defaults == {Typed("str", NoText), Typed("str", "on"), Typed("int", "5"),
             Typed("bool", "True"), Typed("bool", "False")}

(* bool("False") is True: every text but the blank one is.                 *)
Convert(type, text) ==
  CASE type = "bool" -> Typed("bool", IF text = NoText THEN "False" ELSE "True")
    [] OTHER -> Typed(type, text)

UnsetOnly(default) ==   \* mutant: a blank one is not defaulted
  IF env["package"] = "unset" THEN default.text ELSE env["package"]
InEnv(default) ==
  IF env["package"] \in {"unset", NoText} THEN default.text ELSE env["package"]

Begin(default) ==
  /\ global' = default /\ was' = default /\ started' = env'
  /\ gotten' = FALSE /\ failed' = FALSE /\ heard' = "not asked"

WInit ==
  /\ env \in [Place -> Export \cup {"unset"}] /\ started = env
  /\ global \in Defaults /\ was = global
  /\ of_user = env["package"] /\ first = NoText
  /\ gotten = FALSE /\ failed = FALSE /\ heard = "not asked"

(* A program of the package calls another, with a default of its own; or   *)
(* one is started anew by the user.                                        *)
ChildBegins(default) ==
  /\ ~failed /\ env' = env /\ Begin(default)
  /\ UNCHANGED <<of_user, first>>
UserBegins(exported, default) ==
  /\ env' = exported /\ Begin(default)
  /\ of_user' = exported["package"] /\ first' = NoText

get_plug_vars ==
  /\ ~failed /\ env' = [env EXCEPT !["package"] = InEnv(global)]
  /\ failed' = (global.type = "int" /\ env'["package"] \notin IsInt)
  /\ global' = IF failed' THEN global ELSE Convert(global.type, env'["package"])
  /\ gotten' = ~failed' /\ heard' = "not asked"
  /\ first' = IF first = NoText THEN was.text ELSE first
  /\ UNCHANGED <<was, started, of_user>>

GeneralFirst ==   \* mutant: the general variable before the override
  IF env["package"] # "unset" THEN env["package"]
  ELSE IF env["general"] # "unset" THEN env["general"] ELSE env["override"]
FirstSet ==
  IF env["package"] # "unset" THEN env["package"]
  ELSE IF env["override"] # "unset" THEN env["override"] ELSE env["general"]

get_plug_default ==
  /\ ~failed /\ heard' = FirstSet
  /\ UNCHANGED <<env, global, gotten, failed, was, started, of_user, first>>

WNext ==
  \/ \E default \in Defaults : ChildBegins(default)
  \/ \E exported \in [Place -> Export \cup {"unset"}], default \in Defaults : UserBegins(exported, default)
  \/ get_plug_vars \/ get_plug_default

WSpec == WInit /\ [][WNext]_wvars

-----------------------------------------------------------------------------
(* However often a program gets its variables, each has the type of its    *)
(* default and, if it is no bool, the text that the user has exported.  If *)
(* there is none, it has the first default of the programs that led to this*)
(* one by calling each other, which goes before its own.  A bool is True,  *)
(* whatever was exported, "False" too, and whatever its default: bool() of *)
(* a text that is not blank is.                                            *)
ValueIsTold == gotten =>
  /\ global.type = was.type
  /\ was.type # "bool" =>
       global.text = IF of_user \in {"unset", NoText} THEN first ELSE of_user
  /\ was.type = "bool" => global.text = "True"

(* An override is heard unless the package's own variable is set, by the   *)
(* user or because a program has gotten its variables: a default, a blank  *)
(* one too, then comes before the override.                                *)
OverrideIsHeard == heard # "not asked" /\ env["override"] # "unset" =>
  \/ heard = env["override"]
  \/ heard = env["package"] /\ (gotten \/ started["package"] # "unset")

(* What a user has exported reaches each program of the plug-in as it is,  *)
(* if it is no bool, past their defaults; so does an override, if none of  *)
(* them has taken its default first.                                       *)
VariablesAreHeard == ValueIsTold /\ OverrideIsHeard
=============================================================================
