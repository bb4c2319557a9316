----------------------------- MODULE StateCheck -----------------------------
(***************************************************************************)
(* How the boot test driver reads the machine and compares what it read:   *)
(* get_state, get_os_state and check_state of lib/state.py, my_get_state   *)
(* and valid_state of lib/obmc_boot_test.py, and the boot table's required *)
(* start and end states.                                                   *)
(***************************************************************************)
EXTENDS StateMatch

CONSTANTS
  Machines,   (* what a machine may show: a record of redfish (the Redfish  *)
              (* service answers), the RfFields, os_ping and os_ssh         *)
  Word,       (* the words of texts, the anchors and the bar are none       *)
  OsHost,     (* an os_host was given                                       *)
  Table       (* boot_table: a function to [start, end] match states        *)

(* A text of a machine is one or more words; an entry of the table is ^, a *)
(* text or several with bars between them, and $.                          *)
Token == Word \cup Anchors \cup {"|"}
IsEntry(p) ==
  /\ p \in Seq(Token) /\ Len(p) >= 3 /\ p[1] = "^" /\ p[Len(p)] = "$"
  /\ \A i \in 2..Len(p) - 1 :
       \/ p[i] \in Word
       \/ p[i] = "|" /\ p[i - 1] \in Word /\ p[i + 1] \in Word
AreEntries(states) ==
  states = [key \in DOMAIN states |-> states[key]] /\ \A key \in DOMAIN states : IsEntry(states[key])

ASSUME StateAssumption ==
  /\ {"0", "1", "NA"} \subseteq Word /\ Word \cap (Anchors \cup {"|"}) = {}
  /\ \A m \in Machines :
       /\ {m.redfish, m.os_ping, m.os_ssh} \subseteq BOOLEAN
       /\ \A field \in RfFields : m[field] \in Seq(Word) \ {Blank}
  /\ OsHost \in BOOLEAN
  /\ "none" \notin DOMAIN Table
  /\ \A b \in DOMAIN Table : /\ AreEntries(Table[b].start) /\ DOMAIN Table[b].start # {}
                            /\ AreEntries(Table[b].end)

VARIABLES
  machine,    (* what the machine shows now                                 *)
  state,      (* the global state dictionary of obmc_boot_test              *)
  boot,       (* the boot last pretended in test mode, or "none"            *)
  checked     (* the last check_state: none, succeeded or failed            *)

scvars == <<machine, state, boot, checked>>

-----------------------------------------------------------------------------
Bit(b) == IF b THEN <<"1">> ELSE <<"0">>

read_if_up(m, req, up) ==   \* mutant: no values at all if the os is not up
  [field \in IF up THEN req ELSE {} |->
     IF field = "os_ping" THEN Bit(m.os_ping) ELSE Bit(m.os_ssh)]

get_os_state(m, req, up) ==
  [field \in req |->
     CASE field = "os_ping" -> Bit(up /\ m.os_ping)
       [] field \in {"os_login", "os_run_cmd"} -> Bit(up /\ m.os_ssh)]

(* The Redfish service is asked only if a field in master_req_rf is wanted;*)
(* when it answers, all RfFields are taken over, wanted or not.  What has  *)
(* not been read keeps its initial value.                                  *)
bmc_state(m, req) ==
  LET need_rf == req \cap master_req_rf # {}
      answered == need_rf /\ m.redfish
      Unread(field) == IF field = "boot_progress" THEN <<"NA">> ELSE Blank
  IN  [field \in (req \ OsFields) \cup (IF need_rf THEN {"redfish"} ELSE {})
                  \cup (IF answered THEN RfFields ELSE {}) |->
         CASE field = "redfish" /\ need_rf -> Bit(m.redfish)
           [] field \in RfFields /\ answered -> m[field]
           [] OTHER -> Unread(field)]

os_up(s, req) ==
  LET up == [field \in DOMAIN master_os_up_match \cap req |->
               master_os_up_match[field]]
  IN  compare_states(s, up, "and")

get_state(m, req) ==
  LET s == bmc_state(m, req)
      os == get_os_state(m, req \cap OsFields, os_up(s, req))
  IN  IF OsHost /\ req \cap OsFields # {}
        THEN [field \in DOMAIN s \cup DOMAIN os |-> IF field \in DOMAIN os THEN os[field] ELSE s[field]]
        ELSE s

(* check_state asks for the fields of the match state.                     *)
check_ignores_invert(m, match_state, invert) ==   \* mutant
  compare_states(get_state(m, DOMAIN match_state), match_state, "and")

check_state(m, match_state, invert) ==
  compare_states(get_state(m, DOMAIN match_state), match_state, "and") # invert

(* How long run_boot waits for the required end state.                     *)
boot_timeout(b) == IF Table[b].end["chassis"] = <<"Off">>
                     THEN "power_off_timeout" ELSE "power_on_timeout"

-----------------------------------------------------------------------------
ScInit ==
  /\ machine \in Machines
  /\ state = get_state(machine, default_req_states)
  /\ boot = "none"
  /\ checked = "none"

MachineChanges ==
  /\ machine' \in Machines
  /\ checked' = "none"
  /\ UNCHANGED <<state, boot>>

my_get_state ==
  /\ state' = get_state(machine, default_req_states)
  /\ boot' = "none"
  /\ checked' = "none"
  /\ UNCHANGED machine

(* run_boot waits for the state to change in any way.                      *)
CheckChange ==
  /\ boot = "none"
  /\ checked' = IF check_state(machine, anchor_state(state), TRUE)
                  THEN "succeeded" ELSE "failed"
  /\ UNCHANGED <<machine, state, boot>>

(* In test mode run_boot pretends that the required end state was reached. *)
Pretend(b) ==
  /\ state' = strip_anchor_state(Table[b].end)
  /\ boot' = b
  /\ checked' = "none"
  /\ UNCHANGED machine

ScNext ==
  \/ MachineChanges \/ my_get_state \/ CheckChange
  \/ \E b \in DOMAIN Table : Pretend(b)

ScSpec == ScInit /\ [][ScNext]_scvars

-----------------------------------------------------------------------------
(* Types: a state has one text for each field; the fields read from the    *)
(* operating system are there only if there is one.                        *)
ScTypeOK ==
  /\ machine \in Machines
  /\ boot \in DOMAIN Table \cup {"none"}
  /\ checked \in {"none", "succeeded", "failed"}
  /\ boot = "none" =>
       DOMAIN state = {"redfish"} \cup RfFields \cup (IF OsHost THEN OsFields ELSE {})

(* The wait for a change sees every change of the fields it was given, a   *)
(* field that has become readable or unreadable included, and nothing else:*)
(* anchoring makes a blank value a value and not a "don't care".           *)
ChangeIsSeen ==
  /\ checked = "succeeded" => get_state(machine, DOMAIN state) # state
  /\ checked = "failed" => get_state(machine, DOMAIN state) = state

(* valid_state refuses a sample if and only if the Redfish service did not *)
(* answer when it was taken.                                               *)
RefusesUnread ==
  boot = "none" =>
    (compare_states(state, invalid_state_match, "or") <=> state["redfish"] = <<"0">>)

(* In test mode the pretended state satisfies the end entry it was made    *)
(* from, and is valid, so that the next boot of the stack can be chosen.   *)
PretendedEndHolds ==
  boot # "none" => /\ compare_states(state, Table[boot].end, "and")
                   /\ ~compare_states(state, invalid_state_match, "or")

(* What a sample has to show to be found in a boot's start or end state:   *)
(* where it has no more than one word in a field, each field of the entry  *)
(* was read and shows one of the alternatives of the entry, anchors off.   *)
(* A field that could not be read is blank and satisfies nothing, while a  *)
(* blank field of an entry would ask for nothing.                          *)
MetByAlternatives ==
  \A b \in DOMAIN Table : \A entry \in {Table[b].start, Table[b].end} :
    (\A k \in DOMAIN entry \cap DOMAIN state : Len(state[k]) <= 1) =>
      (compare_states(state, entry, "and") <=>
         \A k \in DOMAIN entry :
           k \in DOMAIN state /\ \E a \in Alternatives(entry[k]) : state[k] = strip(a))

(* power_off_timeout is for boots that end with the chassis off: the sample*)
(* that ends the wait shows it so.                                         *)
OffIsTimedAsOff ==
  \A b \in DOMAIN Table :
    compare_states(state, Table[b].end, "and") /\ state["chassis"] = <<"Off">> =>
      boot_timeout(b) = "power_off_timeout"

(* "valid_req_states is a list of sub states supported by the get_state    *)
(* function": a supported field can be asked for by itself.                *)
SupportedFieldsAreRead ==
  machine.redfish =>
    \A field \in RfFields : get_state(machine, {field})[field] = machine[field]

(* An end entry, made into a sample in test mode, is met by itself and     *)
(* found valid; and any sample, read or made so, meets the entries whose   *)
(* alternatives it shows and no others.                                    *)
EntriesHold == ScTypeOK /\ PretendedEndHolds /\ MetByAlternatives
=============================================================================
