----------------------------- MODULE MCBootTest -----------------------------
(***************************************************************************)
(* Instances of BootTest for TLC.  The table is the shape of               *)
(* data/boot_table_redfish.json: a machine is off, on (the host enabled    *)
(* and booted) or odd (chassis on, but not booted: a hang in between), and *)
(* one boot of each kind of entry is kept.                                 *)
(***************************************************************************)
EXTENDS BootTest, FiniteSets

PowerOnB  == "Redfish Power On"
PowerOffB == "Redfish Hard Power Off"
Cycle     == "Redfish Power Cycle"
ResetOff  == "IPMI MC Reset Cold (off)"
SoftOff   == "IPMI Power Soft"

MCBoot   == {PowerOnB, PowerOffB, Cycle, ResetOff, SoftOff}
MCMState == {"off", "on", "odd"}

MCStart ==
  [b \in MCBoot |-> CASE b = PowerOnB  -> {"off"}
                      [] b \in {PowerOffB, SoftOff} -> {"on", "odd"}
                      [] b = Cycle     -> {"on"}
                      [] b = ResetOff  -> {"off"}]
MCEndState ==
  [b \in MCBoot |-> IF b \in {PowerOnB, Cycle} THEN "on" ELSE "off"]
MCEnd == [b \in MCBoot |-> {MCEndState[b]}]

(* What line 625 finds with the entries of the shipped table: an entry's   *)
(* text begins with an anchor, which no word of a pattern matches.         *)
ShippedMeets == {}

(* What the relation would be if end states were compared as states.       *)
IntendedMeets == {m \in MCBoot \X MCBoot : MCEndState[m[1]] \in MCStart[m[2]]}

Stacks == {<< >>, <<Cycle>>, <<PowerOnB, ResetOff>>, <<Cycle, PowerOffB>>,
           <<ResetOff, Cycle, PowerOnB>>}
Lists  == {{}, {Cycle}, {PowerOnB, SoftOff}}

ParmsOf(modes, stacks, lists, tests, thresholds) ==
  [boot_list : lists, boot_stack : stacks, stack_mode : modes,
   max_num_tests : tests, boot_fail_threshold : thresholds,
   call_post_stack_plug : BOOLEAN, test_mode : {FALSE}]

Pretend(ps) == {[p EXCEPT !.test_mode = TRUE] : p \in ps}

NormalParms == ParmsOf({"normal"}, Stacks, Lists, {2}, {1})
SkipParms   == ParmsOf({"skip"}, Stacks, {{}, {PowerOnB, SoftOff}}, {1}, {0})
AllParms    == LET ps == NormalParms \cup SkipParms IN ps \cup Pretend(ps)

TwoCallParms == ParmsOf({"normal"}, {<< >>, <<Cycle>>, <<PowerOnB, ResetOff>>},
                        {{}, {Cycle}}, {1}, {0, 1})

(* The shape of the shipped table lets two default boots prepare any entry. *)
ASSUME TableIsSettling == TableSettles
=============================================================================
