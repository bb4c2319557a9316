--------------------------- MODULE PlugInPackages ---------------------------
(***************************************************************************)
(* The selection of plug-in packages (lib/gen_plug_in.py).  It is made     *)
(* anew by each program that needs it: bin/validate_plug_ins.py turns what *)
(* the user asks for into full paths, and bin/process_plug_in_packages.py, *)
(* run at each call point, is given these paths and selects from them      *)
(* again.  It looks at the directories each time, and they may have changed*)
(* since.  Every call point is given the paths of the first selection, so  *)
(* that one later selection, after any of the changes, stands for each.    *)
(***************************************************************************)
EXTENDS Naturals

CONSTANTS Base,      (* plug_in_base_path_list has Base directories, 1..Base *)
          Package,   (* the names that package directories have             *)
          MaxTouched (* bound: paths changed between the selections         *)

ASSUME PackageAssumption ==
  Base \in Nat /\ {"refused", "none"} \cap Package = {} /\ MaxTouched \in Nat

(* What a directory is: absent, one that does not support the class of     *)
(* machine, one that does, one that does and is integrated.                *)
Kind == {"absent", "other", "supports", "integrated"}
Path == (1..Base) \X Package

VARIABLES
  disk,      (* what there is at each path                                  *)
  was,       (* history: what there was at the first selection              *)
  touched,   (* changes since then                                          *)
  asked,     (* entries of plug_in_dir_paths: names or full paths           *)
  selected,  (* what is returned; {<<"refused">>} for exit(1)               *)
  round,     (* selections made                                             *)
  before     (* the first selection, which the driver keeps                 *)

pvars == <<disk, was, touched, asked, selected, round, before>>

Refused == {<<"refused">>}

(* find_plug_in_package: the paths at which a directory is found, of which *)
(* the first counts.                                                       *)
LastOf(name) == { <<b, name>> : b \in {c \in 1..Base :   \* mutant: the search goes on
  disk[<<c, name>>] # "absent" /\ \A d \in (c + 1)..Base : disk[<<d, name>>] = "absent"} }

InFirstBase(name) == { p \in {<<1, name>>} \cap Path : disk[p] # "absent" }   \* mutant: no search

find_plug_in_package(name) == { <<b, name>> : b \in {c \in 1..Base :
  disk[<<c, name>>] # "absent" /\ \A d \in 1..(c - 1) : disk[<<d, name>>] = "absent"} }

NameOnly(entry) == entry \in {<<n>> : n \in Package}

(* validate_plug_in_package, Refused for exit(1).                          *)
validate_plug_in_package(entry) ==
  LET candidate == IF NameOnly(entry) THEN find_plug_in_package(entry[1])
                   ELSE {p \in {entry} : disk[p] # "absent"}
  IN IF \E p \in candidate : disk[p] # "other" THEN candidate ELSE Refused

IntegratedPaths == { p \in Path : disk[p] = "integrated" }   \* mutant: not their names

return_integrated_plug_ins == { <<p[2]>> : p \in { q \in Path : disk[q] = "integrated" } }

return_plug_in_packages_list(entries) ==
  LET all == UNION { validate_plug_in_package(e) : e \in entries \cup return_integrated_plug_ins }
  IN IF Refused \subseteq all THEN Refused ELSE all

PInit ==
  /\ disk \in [Path -> Kind] /\ was = disk /\ touched = 0
  /\ asked \in SUBSET ({ <<n>> : n \in Package } \cup Path)
  /\ selected = {} /\ before = {} /\ round = 0

(* validate_plug_ins.py, whose failure ends the test.                      *)
Validate ==
  /\ round = 0
  /\ selected' = return_plug_in_packages_list(asked)
  /\ before' = selected'
  /\ round' = 1
  /\ UNCHANGED <<disk, was, touched, asked>>

(* Somebody installs, removes or marks a package while the test runs.      *)
PackageChanges(p, k) ==
  /\ round = 1 /\ touched < MaxTouched /\ touched' = touched + 1
  /\ disk' = [disk EXCEPT ![p] = k]
  /\ UNCHANGED <<was, asked, selected, round, before>>

(* process_plug_in_packages.py, given the paths of the first selection; it *)
(* is not run at all if there are none.                                    *)
ReselectNames ==   \* mutant: given the names of the packages
  /\ round = 1 /\ before \notin {Refused, {}}
  /\ selected' = return_plug_in_packages_list({ <<p[2]>> : p \in before })
  /\ round' = 2
  /\ UNCHANGED <<disk, was, touched, asked, before>>

Reselect ==
  /\ round = 1 /\ before \notin {Refused, {}}
  /\ selected' = return_plug_in_packages_list(before)
  /\ round' = 2
  /\ UNCHANGED <<disk, was, touched, asked, before>>

PNext == Validate \/ Reselect \/ \E p \in Path, k \in Kind : PackageChanges(p, k)

PSpec == PInit /\ [][PNext]_pvars

-----------------------------------------------------------------------------
(* The first directory of a name, and whether there is an integrated one;  *)
(* what has changed of that name since the first selection.                *)
First(d, name) ==
  { p \in Path : p[2] = name /\ d[p] # "absent" /\ \A q \in Path :
                 (q[2] = name /\ q[1] < p[1]) => d[q] = "absent" }
Integrated(d, name) == \E p \in Path : p[2] = name /\ d[p] = "integrated"
Changed(name) == \E p \in Path : p[2] = name /\ disk[p] # was[p]

(* A call point runs every package that the driver was told of, or is      *)
(* refused: none is dropped silently.  It runs others too if, since the    *)
(* driver was told, something of their name has changed and there is an    *)
(* integrated directory of it now.  Without a change nothing differs.      *)
SelectionFollowsDisk == round = 2 =>
  /\ selected # Refused => before \subseteq selected
  /\ selected = Refused => \E n \in Package : Changed(n)
  /\ \A p \in selected \ (before \cup Refused) :
       p \in First(disk, p[2]) /\ Integrated(disk, p[2]) /\ Changed(p[2])

(* No two packages of one name, whose programs would both run, unless the  *)
(* user gave the path of one of them, or the directories of that name have *)
(* changed: integration alone does not select the package of a later       *)
(* directory beside that of an earlier one.                                *)
OneOfEachName == selected # Refused =>
  \A p, q \in selected : p[2] = q[2] /\ p # q =>
    p \in asked \/ q \in asked \/ (round = 2 /\ Changed(p[2]))

(* Everything that is asked for by name, and every name with an integrated *)
(* package, is there as what was the first directory of that name; and at  *)
(* a call point every name that has an integrated package now.             *)
AllAreSelected == round > 0 /\ selected # Refused =>
  /\ asked \cap Path \subseteq selected
  /\ \A n \in Package : <<n>> \in asked \/ Integrated(was, n) =>
       First(was, n) # {} /\ First(was, n) \subseteq selected
  /\ round = 2 => \A n \in Package : Integrated(disk, n) =>
       First(disk, n) # {} /\ First(disk, n) \subseteq selected

(* A refusal has a cause: something that is to be selected is not there or *)
(* does not support the class of machine, or hides an integrated package.  *)
HasCause(d, entries) ==
  \/ \E p \in entries \cap Path : d[p] \in {"absent", "other"}
  \/ \E n \in Package :
       /\ <<n>> \in entries \/ Integrated(d, n)
       /\ \A p \in First(d, n) : d[p] = "other"

RefusalHasCause == selected = Refused =>
  IF round = 2 THEN HasCause(disk, before) ELSE HasCause(was, asked)

(* What the user asked for and what is integrated is selected, each once,  *)
(* by the driver and again at the call points; or refused for a cause; and *)
(* what changes in between shows at the call points and nowhere else.      *)
SelectionIsExact ==
  /\ SelectionFollowsDisk
  /\ OneOfEachName
  /\ AllAreSelected
  /\ RefusalHasCause
=============================================================================
