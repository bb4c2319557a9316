----------------------------- MODULE Structures -----------------------------
(***************************************************************************)
(* Selecting from nested lists and dictionaries: nested_get, match_struct, *)
(* filter_struct and split_dict_on_key of lib/var_funcs.py, with which the *)
(* answers of the Redfish service are searched, and to_signed of           *)
(* lib/gen_misc.py, by which the valid return codes of a command are read. *)
(***************************************************************************)
EXTENDS Integers, Sequences, SequencesExt

CONSTANTS Field,     (* key names                                           *)
          Leaf,      (* values that hold no others                          *)
          MaxEntries,(* bound: entries of what is filtered or split         *)
          Width      (* bound: bits of a number                             *)

ASSUME WidthAssumption == Width \in Nat \ {0}

VARIABLES query, reply
zvars == <<query, reply>>

AsLeaf(v) == [leaf |-> v]
AsList(s) == [list |-> s]
AsDict(d) == [dict |-> d]
None == AsLeaf("None")

Partial(D, S) == UNION {[K -> S] : K \in SUBSET D}
Level(S) == {AsDict(d) : d \in Partial(Field, S)} \cup {AsList(s) : s \in SeqOf(S, 1)}
Leaves == {AsLeaf(v) : v \in Leaf}
(* Dictionaries and lists, also of lists, and a dictionary in a list: with *)
(* each of them all its parts.                                             *)
Entry == Leaves \cup Level(Leaves) \cup {AsList(<<t>>) : t \in Level(Leaves)}
           \cup {AsDict((k :> AsDict(d))) : k \in Field, d \in Partial(Field, Leaves)}
Filter == Partial(Field, Leaves \cup {None})

(* The values of the key at every level, as a set.                         *)
nested_get[key \in Field, structure \in Entry] ==
  CASE "leaf" \in DOMAIN structure -> {}
    [] "list" \in DOMAIN structure -> UNION {nested_get[key, structure.list[i]] : i \in DOMAIN structure.list}
    [] "dict" \in DOMAIN structure ->
         {structure.dict[k] : k \in DOMAIN structure.dict \cap {key}}
           \cup UNION {nested_get[key, structure.dict[k]] : k \in DOMAIN structure.dict}

MatchesSome(structure, match_dict) ==   \* mutant: one key is enough
  \E key \in DOMAIN match_dict :
    LET values == nested_get[key, structure]
    IN IF match_dict[key] = None THEN values = {} ELSE match_dict[key] \in values

match_struct(structure, match_dict) ==
  \A key \in DOMAIN match_dict :
    LET values == nested_get[key, structure]
    IN IF match_dict[key] = None THEN values = {} ELSE match_dict[key] \in values

InvertsKeys(entries, filter_dict, invert) ==   \* mutant: an inverted filter wants no key to match
  FoldLeft(LAMBDA result, e :
             IF IF invert THEN \A k \in DOMAIN filter_dict : ~match_struct(e, (k :> filter_dict[k]))
                ELSE match_struct(e, filter_dict)
             THEN Append(result, e) ELSE result, <<>>, entries)

filter_struct(entries, filter_dict, invert) ==
  FoldLeft(LAMBDA result, e : IF match_struct(e, filter_dict) # invert THEN Append(result, e) ELSE result,
           <<>>, entries)

(* The conditions of two filters in one.                                   *)
Joint(f, g) == [k \in DOMAIN f \cup DOMAIN g |-> IF k \in DOMAIN g THEN g[k] ELSE f[k]]

SplitsAfter(split_key, keys) ==   \* mutant: the key goes to the first part
  LET at == {i \in DOMAIN keys : keys[i] = split_key}
      n == IF at = {} THEN Len(keys) ELSE CHOOSE i \in at : TRUE
  IN <<SubSeq(keys, 1, n), SubSeq(keys, n + 1, Len(keys))>>

split_dict_on_key(split_key, keys) ==
  LET at == {i \in DOMAIN keys : keys[i] = split_key}
      n == IF at = {} THEN Len(keys) ELSE (CHOOSE i \in at : TRUE) - 1
  IN <<SubSeq(keys, 1, n), SubSeq(keys, n + 1, Len(keys))>>

Power[n \in Nat] == IF n = 0 THEN 1 ELSE 2 * Power[n - 1]

Mirrored(number, bit_width) ==   \* mutant: the complement of the number
  IF number < 0 THEN number
  ELSE IF (number \div Power[bit_width - 1]) % 2 = 1 THEN -(Power[bit_width] - 1 - number) ELSE number

to_signed(number, bit_width) ==
  IF number < 0 THEN number
  ELSE IF (number \div Power[bit_width - 1]) % 2 = 1 THEN -(Power[bit_width] - number) ELSE number

-----------------------------------------------------------------------------
ZInit == query = [f |-> "none"] /\ reply = <<>>

AskFilter(entries, f, g) ==
  /\ query' = [f |-> "filter", entries |-> entries, by |-> f, also |-> g]
  /\ reply' = [kept |-> filter_struct(entries, f, FALSE), rest |-> filter_struct(entries, f, TRUE),
               both |-> filter_struct(filter_struct(entries, f, FALSE), g, FALSE),
               joint |-> filter_struct(entries, Joint(f, g), FALSE)]
AskSplit(keys, k) ==
  /\ query' = [f |-> "split", keys |-> keys, key |-> k]
  /\ reply' = split_dict_on_key(k, keys)
AskSigned(n) ==
  /\ query' = [f |-> "signed", n |-> n] /\ reply' = to_signed(n, Width)

ZNext ==
  /\ query.f = "none"
  /\ \/ \E n \in 0..MaxEntries : \E entries \in [1..n -> Entry], f, g \in Filter :
          DOMAIN f \cap DOMAIN g = {} /\ AskFilter(entries, f, g)
     \/ \E keys \in SeqOf(Field, MaxEntries), k \in Field :
          (\A i, j \in DOMAIN keys : keys[i] = keys[j] => i = j) /\ AskSplit(keys, k)
     \/ \E n \in -Power[Width - 1]..Power[Width + 1] - 1 : AskSigned(n)

ZSpec == ZInit /\ [][ZNext]_zvars

-----------------------------------------------------------------------------
Times(s, e) == Cardinality({i \in DOMAIN s : s[i] = e})

(* A filter and its inverse part the entries: each is in one of the two    *)
(* results, as often as it was there.                                      *)
FilterParts == query.f = "filter" =>
  /\ \A i \in DOMAIN query.entries : LET e == query.entries[i] IN
        Times(query.entries, e) = Times(reply.kept, e) + Times(reply.rest, e)
  /\ Len(query.entries) = Len(reply.kept) + Len(reply.rest)

(* To filter by two conditions is to filter by one and then by the other.  *)
FiltersCompose == query.f = "filter" => reply.both = reply.joint

(* The parts make up the dictionary and the second begins with the key.    *)
SplitsBefore == query.f = "split" =>
  /\ reply[1] \o reply[2] = query.keys
  /\ (\E i \in DOMAIN query.keys : query.keys[i] = query.key) =>
        reply[2] # <<>> /\ reply[2][1] = query.key

(* A code of Width bits is read as its two's complement: the same code, in *)
(* the signed range.  A negative one, given as such, stays.                *)
SignedIsSameCode == query.f = "signed" =>
  /\ query.n < Power[Width] => reply \in -Power[Width - 1]..Power[Width - 1] - 1
  /\ (reply - query.n) % Power[Width] = 0
=============================================================================
