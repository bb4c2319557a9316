----------------------------- MODULE StateMatch -----------------------------
(***************************************************************************)
(* The state dictionaries of lib/state.py and how they are compared.       *)
(*                                                                         *)
(* A dictionary is a function from field names to texts.  A text is a      *)
(* sequence of tokens: a word of a Redfish enumeration, a bar, or one of   *)
(* the anchors ^ and $.  No word is a prefix of another, so that a pattern *)
(* can be matched token by token.  The "<expressions>" entry a match state *)
(* may have is left out: no match state of the boot table has one.         *)
(***************************************************************************)
EXTENDS Integers, Sequences, FiniteSets, FiniteSetsExt, TLC

Blank == << >>
Anchors == {"^", "$"}
NotAnchor(token) == token \notin Anchors

-----------------------------------------------------------------------------
(* str.strip("^$") takes anchors off both ends, however many there are.    *)
strip(text) ==
  LET kept == {i \in DOMAIN text : NotAnchor(text[i])}
  IN  IF kept = {} THEN Blank ELSE SubSeq(text, Min(kept), Max(kept))

-----------------------------------------------------------------------------
(* re.match(pattern, text): an alternative of the pattern matches the head *)
(* of the text.  The bar binds weaker than the anchors do: ^A|B$ is ^A or  *)
(* B$.                                                                     *)
Bars(p) == {0, Len(p) + 1} \cup {i \in DOMAIN p : p[i] = "|"}

Alternatives(p) ==
  {SubSeq(p, i + 1, Min({j \in Bars(p) : j > i}) - 1) :
     i \in Bars(p) \ {Len(p) + 1}}

(* Where the anchors of an alternative hold, its words stand between them. *)
matches_head(alternative, text) ==
  LET words == strip(alternative)
      Before(i) == {j \in DOMAIN alternative : j < i /\ NotAnchor(alternative[j])}
      After(i)  == {j \in DOMAIN alternative : j > i /\ NotAnchor(alternative[j])}
  IN  /\ Len(words) <= Len(text) /\ words = SubSeq(text, 1, Len(words))
      /\ \A i \in DOMAIN alternative :
           /\ alternative[i] = "^" => Before(i) = {}
           /\ alternative[i] = "$" => After(i) = {} /\ words = text

re_match(p, text) == \E a \in Alternatives(p) : matches_head(a, text)

-----------------------------------------------------------------------------
anchor_state(state) ==
  [key \in DOMAIN state |-> <<"^">> \o state[key] \o <<"$">>]

StripHead(state) ==   \* mutant: lstrip("^$")
  [key \in DOMAIN state |->
     IF state[key] # Blank /\ Head(state[key]) = "^" THEN Tail(state[key])
     ELSE state[key]]

strip_anchor_state(state) == [key \in DOMAIN state |-> strip(state[key])]

(* A blank entry of the match state says "don't care"; an entry the state  *)
(* does not have is no match.                                              *)
considered(match_state) == {k \in DOMAIN match_state : match_state[k] # Blank}

entry_matches(state, match_state, key) ==
  key \in DOMAIN state /\ re_match(match_state[key], state[key])

compare_all(state, match_state, match_type) ==   \* mutant: "or" is ignored
  \A key \in considered(match_state) : entry_matches(state, match_state, key)

compare_any(state, match_state, match_type) ==   \* mutant: "and" is ignored
  \E key \in considered(match_state) : entry_matches(state, match_state, key)

compare_states(state, match_state, match_type) ==
  IF match_type = "and"
    THEN \A key \in considered(match_state) : entry_matches(state, match_state, key)
    ELSE \E key \in considered(match_state) : entry_matches(state, match_state, key)

-----------------------------------------------------------------------------
(* The constants of the module.                                            *)
OsUpProgress == <<"SystemHardwareInitializationComplete", "|", "OSBootStarted",
                  "|", "OSRunning">>
RfFields == {"chassis", "bmc", "boot_progress", "host"}
OsFields == {"os_ping", "os_login", "os_run_cmd"}

default_req_states == {"redfish"} \cup RfFields \cup OsFields

(* Of valid_req_states, these are read from the machine; the others are    *)
(* the time-related ones, ping and packet_loss.                            *)
master_req_rf == {"redfish", "host", "boot_progress", "chassis"}

Exactly(word) == <<"^", word, "$">>

master_os_up_match ==
  [chassis |-> Exactly("On"), bmc |-> Exactly("Enabled"),
   boot_progress |-> OsUpProgress, host |-> Exactly("Enabled")]

invalid_state_match ==
  [field \in {"redfish"} \cup RfFields |-> <<"^", "$">>]
=============================================================================
