----------------------------- MODULE ProgramArgs -----------------------------
(***************************************************************************)
(* The arguments of a program built on lib/gen_arg.py.  The value of each  *)
(* is kept in arg_obj and in a global of the main module; those of the     *)
(* stock_list also in __builtin__, where gen_print and gen_cmd look.       *)
(* gen_setup parses the command line into all three, lets the program's    *)
(* validate_parms change globals, and brings arg_obj up to date.           *)
(***************************************************************************)
EXTENDS Naturals

CONSTANTS
  Stock,          (* quiet, test_mode, debug, loglevel: the stock_list asks *)
  Own,            (* the program's own arguments                            *)
  ArgValue,
  MaxChanges      (* bound: assignments by validate_parms                   *)

Arg == Stock \cup Own

(* What set_pgm_arg copies to __builtin__: not loglevel.                   *)
Copied == Stock \ {"loglevel"}

VARIABLES
  gat,            (* options, validate, done, or usage (the parser has ended *)
                  (* the program)                                           *)
  arg_obj, globals, builtins,
  changes,        (* assignments so far                                     *)
  plain           (* history: arguments changed by a plain assignment, or   *)
                  (* by set_pgm_arg for a name it does not copy             *)

avars == <<gat, arg_obj, globals, builtins, changes, plain>>

AInit ==
  /\ gat = "options"
  /\ \E v \in ArgValue :
       /\ arg_obj = [a \in Arg |-> v] /\ globals = [a \in Arg |-> v]
       /\ builtins = [a \in Stock |-> v]
  /\ changes = 0 /\ plain = {}

(* A choice that the parser does not know ends the program.                *)
UsageError ==
  /\ gat = "options"
  /\ gat' = "usage"
  /\ UNCHANGED <<arg_obj, globals, builtins, changes, plain>>

gen_get_options ==
  /\ gat = "options"
  /\ arg_obj' \in [Arg -> ArgValue]
  /\ builtins' = [a \in Stock |-> arg_obj'[a]]
  /\ globals' = arg_obj'
  /\ gat' = "validate"
  /\ UNCHANGED <<changes, plain>>

set_pgm_arg(a, v) ==
  /\ gat = "validate" /\ changes < MaxChanges
  /\ changes' = changes + 1
  /\ arg_obj' = [arg_obj EXCEPT ![a] = v]
  /\ globals' = [globals EXCEPT ![a] = v]
  /\ builtins' = IF a \in Copied THEN [builtins EXCEPT ![a] = v] ELSE builtins
  /\ plain' = IF a \in Copied THEN plain \ {a} ELSE plain \cup {a}
  /\ UNCHANGED gat

(* validate_parms assigns to a global.                                     *)
Assign(a, v) ==
  /\ gat = "validate" /\ changes < MaxChanges
  /\ changes' = changes + 1
  /\ globals' = [globals EXCEPT ![a] = v]
  /\ plain' = plain \cup {a}
  /\ UNCHANGED <<gat, arg_obj, builtins>>

SyncNothing ==   \* mutant: gen_setup does not call sync_args
  /\ gat = "validate"
  /\ gat' = "done"
  /\ UNCHANGED <<arg_obj, globals, builtins, changes, plain>>

sync_args ==
  /\ gat = "validate"
  /\ arg_obj' = globals
  /\ gat' = "done"
  /\ UNCHANGED <<globals, builtins, changes, plain>>

ANext ==
  \/ UsageError \/ gen_get_options \/ sync_args
  \/ \E a \in Arg, v \in ArgValue : set_pgm_arg(a, v) \/ Assign(a, v)

ASpec == AInit /\ [][ANext]_avars

-----------------------------------------------------------------------------
(* Once gen_setup is done, arg_obj, which the header is printed from, has  *)
(* for every argument the value of the global that the program uses,       *)
(* however it was set.  __builtin__, where the printing and the command    *)
(* functions look, may differ from the global for just those arguments     *)
(* that validate_parms assigned to without set_pgm_arg, or whose name      *)
(* set_pgm_arg does not copy: it has their value from before.               *)
StaleOnlyIfAssigned == gat = "done" =>
  /\ arg_obj = globals
  /\ {a \in Stock : builtins[a] # globals[a]} \subseteq plain
=============================================================================
