------------------------------ MODULE MCResults ------------------------------
(***************************************************************************)
(* The boot results and the save stack of a boot test, one of the two in   *)
(* each behaviour: they share no state.                                    *)
(***************************************************************************)
EXTENDS BootResults, SaveStack

VARIABLE part

MCInit ==
  /\ RInit /\ KInit
  /\ \/ part = "stack"
     \/ part = "results" /\ robot_var = [p \in main_func_parm |-> CHOOSE v \in Val : TRUE]

MCNext ==
  \/ part = "results" /\ RNext /\ UNCHANGED <<kvars, part>>
  \/ part = "stack" /\ KNext /\ UNCHANGED <<rvars, part>>

MCSpec == MCInit /\ [][MCNext]_<<rvars, kvars, part>>
=============================================================================
