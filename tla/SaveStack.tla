------------------------------ MODULE SaveStack ------------------------------
(***************************************************************************)
(* The keyword of lib/obmc_boot_test.py has parameters that stand in for   *)
(* global variables while it runs.  Their values are saved on a stack      *)
(* (lib/var_stack.py), one parameter after the other, and the teardown,    *)
(* which runs however the keyword ended, takes them from there.  The       *)
(* object stays from one call to the next.                                 *)
(***************************************************************************)
EXTENDS Naturals, Sequences

CONSTANTS main_func_parm,   (* the parameters of main_func_parm_list        *)
          Val,              (* their values                                 *)
          MaxCalls          (* bound: calls of the keyword                  *)

ASSUME StackAssumption == MaxCalls \in Nat /\ "None" \notin Val

VARIABLES
  in_call, calls,
  robot_var,      (* [parameter] the global variables                       *)
  stack_dict,     (* [parameter] the values saved, the newest last          *)
  todo,           (* [parameter] what is still to be done: save, set or no  *)
  given,          (* [parameter] the arguments, or None                     *)
  was             (* history: robot_var when the call began                 *)

kvars == <<in_call, calls, robot_var, stack_dict, todo, given, was>>

KInit ==
  /\ in_call = FALSE /\ calls = 0
  /\ robot_var \in [main_func_parm -> Val]
  /\ stack_dict = [p \in main_func_parm |-> <<>>]
  /\ todo = [p \in main_func_parm |-> "no"] /\ given = [p \in main_func_parm |-> "None"] /\ was = robot_var

CallWith(args) ==
  /\ ~in_call /\ in_call' = TRUE
  /\ calls < MaxCalls /\ calls' = calls + 1
  /\ given' = args
  /\ todo' = [p \in main_func_parm |-> IF args[p] = "None" THEN "no" ELSE "save"]
  /\ was' = robot_var
  /\ UNCHANGED <<robot_var, stack_dict>>

push(parm_name, value) == [stack_dict EXCEPT ![parm_name] = Append(@, value)]
pop(parm_name) == SubSeq(stack_dict[parm_name], 1, Len(stack_dict[parm_name]) - 1)

(* One parameter: first Save, then Set; the keyword may end in between.    *)
SaveParm(p) ==
  /\ in_call /\ todo[p] = "save" /\ todo' = [todo EXCEPT ![p] = "set"]
  /\ stack_dict' = push(p, robot_var[p])
  /\ UNCHANGED <<in_call, calls, robot_var, given, was>>

SetParm(p) ==
  /\ in_call /\ todo[p] = "set" /\ todo' = [todo EXCEPT ![p] = "no"]
  /\ robot_var' = [robot_var EXCEPT ![p] = given[p]]
  /\ UNCHANGED <<in_call, calls, stack_dict, given, was>>

(* obmc_boot_test_teardown: what is not on the stack stays as it is.       *)
TeardownPeeks ==   \* mutant: the value stays on the stack
  /\ in_call /\ in_call' = FALSE /\ todo' = [p \in main_func_parm |-> "no"]
  /\ robot_var' = [p \in main_func_parm |->
       IF stack_dict[p] = <<>> THEN robot_var[p] ELSE stack_dict[p][Len(stack_dict[p])]]
  /\ UNCHANGED <<calls, stack_dict, given, was>>

TeardownRestores ==
  /\ in_call /\ in_call' = FALSE /\ todo' = [p \in main_func_parm |-> "no"]
  /\ robot_var' = [p \in main_func_parm |->
       IF stack_dict[p] = <<>> THEN robot_var[p] ELSE stack_dict[p][Len(stack_dict[p])]]
  /\ stack_dict' = [p \in main_func_parm |->
       IF stack_dict[p] = <<>> THEN <<>> ELSE pop(p)]
  /\ UNCHANGED <<calls, given, was>>

(* Between calls the user of the keyword sets the variables.               *)
UserSets(p, v) ==
  /\ ~in_call
  /\ robot_var' = [robot_var EXCEPT ![p] = v] /\ was' = [was EXCEPT ![p] = v]
  /\ UNCHANGED <<in_call, calls, stack_dict, todo, given>>

KNext ==
  \/ \E args \in [main_func_parm -> Val \cup {"None"}] : CallWith(args)
  \/ \E p \in main_func_parm : SaveParm(p) \/ SetParm(p)
  \/ TeardownRestores
  \/ \E p \in main_func_parm, v \in Val : UserSets(p, v)

KSpec == KInit /\ [][KNext]_kvars

-----------------------------------------------------------------------------
(* After every call, whole or cut short while it set its parameters, the   *)
(* globals are what they were, and no value of it is left to overwrite one *)
(* that is set later.                                                      *)
GlobalsAreRestored == ~in_call =>
  robot_var = was /\ \A p \in main_func_parm : stack_dict[p] = <<>>
=============================================================================
