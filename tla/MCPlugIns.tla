------------------------------ MODULE MCPlugIns ------------------------------
(***************************************************************************)
(* The call points of a boot test, the selection of packages and what      *)
(* plug-ins save: one of the three in each behaviour, part says which.     *)
(***************************************************************************)
EXTENDS PlugIns, PlugInPackages, PlugInValues

VARIABLE part

MCInit ==
  /\ GInit /\ VInit
  /\ \/ part = "packages" /\ PInit
     \/ /\ part \in {"calls", "values"}
        /\ disk = [p \in Path |-> "absent"] /\ was = disk /\ touched = 0
        /\ asked = {} /\ selected = {} /\ before = {} /\ round = 0

MCNext ==
  \/ part = "calls" /\ GNext /\ UNCHANGED <<pvars, vvars, part>>
  \/ part = "packages" /\ PNext /\ UNCHANGED <<gvars, vvars, part>>
  \/ part = "values" /\ VNext /\ UNCHANGED <<gvars, pvars, part>>

MCSpec == MCInit /\ [][MCNext]_<<gvars, pvars, vvars, part>>
=============================================================================
