------------------------------ MODULE BootTable ------------------------------
(***************************************************************************)
(* The table of boots, made when the keyword of lib/obmc_boot_test.py is   *)
(* called, and the check of the boots that the user names: create_boot_    *)
(* table, create_valid_boot_list and valid_boot_list of lib/boot_data.py.  *)
(***************************************************************************)
EXTENDS Naturals, Sequences, SequencesExt

CONSTANTS Boot,      (* boots of the file data/boot_table_redfish.json      *)
          MaxNames   (* bound: boots that the user names                    *)

VARIABLES file, boot_table, os_host, boot_list, phase
tvars == <<file, boot_table, os_host, boot_list, phase>>

(* Fields of a start or end state; two of them are the operating system's. *)
SubState == {"chassis", "os_ping", "os_login"}
OsState == {"os_ping", "os_login"}

(* A name as the user writes it: of a boot, of its manufacturing mode or   *)
(* of none, with blanks around it or not.                                  *)
BootName == [boot : Boot \cup {"none"}, mfg : BOOLEAN, blanks : BOOLEAN]
strip(name) == [boot |-> name.boot, mfg |-> name.mfg, blanks |-> FALSE]

KeepsEnd(states) ==   \* mutant: the end state keeps what it requires of the system
  [states EXCEPT !.start = @ \ OsState]
WithoutOs(states) == [start |-> states.start \ OsState, end |-> states.end \ OsState]

create_boot_table(entries, host) ==
  [name \in [boot : Boot, mfg : BOOLEAN, blanks : {FALSE}] |->
     IF host = "" THEN WithoutOs(entries[name.boot]) ELSE entries[name.boot]]

TInit ==
  /\ file \in [Boot -> [start : SUBSET SubState, end : SUBSET SubState]]
  /\ boot_table = <<>> /\ os_host \in {"", "host"} /\ boot_list = <<>> /\ phase = "begun"

CreateTable ==
  /\ phase = "begun" /\ phase' = "table"
  /\ boot_table' = create_boot_table(file, os_host)
  /\ UNCHANGED <<file, os_host, boot_list>>

OneOfThem(names) ==   \* mutant: one valid name is enough
  names = <<>> \/ \E i \in DOMAIN names : strip(names[i]) \in DOMAIN boot_table
valid_boot_list(names) ==
  \A i \in DOMAIN names : strip(names[i]) \in DOMAIN boot_table

ValidateList(names) ==
  /\ phase' = IF valid_boot_list(names) THEN "accepted" ELSE "failed"
  /\ boot_list' = names
  /\ UNCHANGED <<file, boot_table, os_host>>

(* The boots are looked up by their names as they were given.              *)
LookUp ==
  /\ phase = "accepted"
  /\ phase' = IF \A i \in DOMAIN boot_list : boot_list[i] \in DOMAIN boot_table
              THEN "found" ELSE "KeyError"
  /\ UNCHANGED <<file, boot_table, os_host, boot_list>>

TNext ==
  \/ CreateTable \/ LookUp
  \/ phase = "table" /\ \E names \in SeqOf(BootName, MaxNames) : ValidateList(names)

TSpec == TInit /\ [][TNext]_tvars

-----------------------------------------------------------------------------
(* Without a host nothing is required of its operating system, in normal   *)
(* or manufacturing mode, at the start or the end; what is required of the *)
(* machine stays.  With one the table is the file's.                       *)
RequirementsFitHost == boot_table # <<>> => \A name \in DOMAIN boot_table :
  LET now == boot_table[name] was == file[name.boot]
  IN /\ now.start \ OsState = was.start \ OsState /\ now.end \ OsState = was.end \ OsState
     /\ IF os_host = "" THEN (now.start \cup now.end) \cap OsState = {} ELSE now = was

(* A list of names passes if each is that of a boot, and fails if one is   *)
(* not.  That is not to say that it can be used: the blanks around a name  *)
(* are taken off for the check and not when it is looked up, so that a list*)
(* that has passed is found if no name has any, and raises if one has.     *)
NamesAreJudged ==
  /\ phase \in {"accepted", "found", "KeyError"} =>
       \A i \in DOMAIN boot_list : boot_list[i].boot \in Boot
  /\ phase = "failed" => \E i \in DOMAIN boot_list : boot_list[i].boot \notin Boot
  /\ phase = "found" => \A i \in DOMAIN boot_list : ~boot_list[i].blanks
  /\ phase = "KeyError" => \E i \in DOMAIN boot_list : boot_list[i].blanks
=============================================================================
