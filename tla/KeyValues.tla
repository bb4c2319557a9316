----------------------------- MODULE KeyValues ------------------------------
(***************************************************************************)
(* Text that commands print, turned into dictionaries, lists and reports   *)
(* by lib/var_funcs.py, and the file names that are made of dictionaries.  *)
(* A text is a sequence of characters and words; of a line of keys and     *)
(* values only its indentation, its key and its value are told apart.      *)
(***************************************************************************)
EXTENDS Naturals, Sequences, SequencesExt

CONSTANTS Word,      (* key names, after lower case and underscores         *)
          MaxLines,  (* bound: lines of a text                              *)
          MaxWidth   (* bound: characters of a cell or name                 *)

VARIABLES given, result
xvars == <<given, result>>

Space == " "
NoValue == ""

-----------------------------------------------------------------------------
(* key_value_list_to_dict.  A line without the delimiter is all key.  Keys *)
(* are told apart after parse_key_value has made them lower case.          *)
Line == [indent : 0..2, word : Word, delim : BOOLEAN, value : {NoValue, "v"}]
Lines == {l \in Line : ~l.delim => l.value = NoValue}
Plain(v) == [text |-> v]
(* d[key] = value: a new entry, or a new value for an old one.             *)
Put(d, key, value) == [k \in DOMAIN d \cup {key} |-> IF k = key THEN value ELSE d[k]]

(* Without process_indent.  The last of two lines with one key stays.      *)
FlatDict(ls) == FoldLeft(LAMBDA d, l : Put(d, l.word, Plain(l.value)), <<>>, ls)

SubResult(sub) ==
  IF \E i \in 1..Len(sub) : sub[i].delim
  THEN [dict |-> FlatDict(sub)]
  ELSE [list |-> [i \in 1..Len(sub) |-> sub[i].word]]

Close(acc) == IF acc.sub = <<>> THEN acc.dict
              ELSE Put(acc.dict, acc.parent.word, SubResult(acc.sub))

First(ls) == [dict |-> <<>>, parent |-> Head(ls), sub |-> <<>>]

(* With it: what is indented below a parent without a value is its own.    *)
NextLine(acc, l) ==
  IF l.indent > acc.parent.indent /\ acc.parent.value = NoValue
  THEN [acc EXCEPT !.sub = Append(@, l)]
  ELSE [dict |-> Put(Close(acc), l.word, Plain(l.value)), parent |-> l, sub |-> <<>>]

ForgetsLast(ls) ==   \* mutant: the outstanding sub_list is not processed
  FoldLeft(NextLine, First(ls), ls).dict

OfEqualIndent(ls) ==   \* mutant: >= for >
  LET Step(acc, l) ==
        IF l.indent >= acc.parent.indent /\ acc.parent.value = NoValue
        THEN [acc EXCEPT !.sub = Append(@, l)]
        ELSE [dict |-> Put(Close(acc), l.word, Plain(l.value)), parent |-> l, sub |-> <<>>]
  IN Close(FoldLeft(Step, First(ls), ls))

key_value_list_to_dict(ls) ==
  Close(FoldLeft(NextLine, First(ls), ls))

-----------------------------------------------------------------------------
(* split_to_dict and what is built on it.                                  *)
SplitOn(s, delim) ==
  FoldLeft(LAMBDA acc, c : IF c = delim THEN Append(acc, <<>>)
                           ELSE [acc EXCEPT ![Len(acc)] = Append(@, c)], << <<>> >>, s)

KeyAndRest(s) ==   \* mutant: the first record wins
  FoldLeft(LAMBDA d, r : LET kv == SplitOn(r, ".")
                         IN IF kv[1] \in DOMAIN d THEN d
                            ELSE Put(d, kv[1], IF Len(kv) = 1 THEN <<>> ELSE kv[2]),
           <<>>, SplitOn(s, ":"))

split_to_dict(s) ==
  FoldLeft(LAMBDA d, r : LET kv == SplitOn(r, ".")
                         IN Put(d, kv[1], IF Len(kv) = 1 THEN <<>> ELSE kv[2]),
           <<>>, SplitOn(s, ":"))

join_dict(records) ==
  FoldLeft(LAMBDA s, r : s \o (IF s = <<>> THEN <<>> ELSE <<":">>) \o <<r[1], ".">> \o r[2], <<>>, records)

create_file_path(records, file_suffix) == <<"/">> \o join_dict(records) \o file_suffix

parse_file_path(path) ==
  LET parts == SplitOn(path, "/")
      dir == Len(path) - Len(parts[Len(parts)])
      d == split_to_dict(parts[Len(parts)])
  IN [k \in DOMAIN d \cup {<<"dir_path">>} |-> IF k \in DOMAIN d THEN d[k] ELSE SubSeq(path, 1, dir)]

-----------------------------------------------------------------------------
(* list_to_report, for reports whose second line is dashes.  The regular   *)
(* expression of create_field_desc_regex wants blanks between the fields   *)
(* and findall takes the first place where it fits.                        *)
Pad(s, n) == s \o [i \in 1..IF n > Len(s) THEN n - Len(s) ELSE 0 |-> Space]
Strip(s) ==
  LET full == {i \in 1..Len(s) : s[i] # Space}
  IN IF full = {} THEN <<>>
     ELSE SubSeq(s, CHOOSE i \in full : \A j \in full : i <= j,
                    CHOOSE i \in full : \A j \in full : j <= i)

Fields(dashes) ==   (* the fields of the line of dashes: first and last     *)
  {f \in (1..Len(dashes)) \X (1..Len(dashes)) :
    /\ f[1] <= f[2] /\ \A i \in f[1]..f[2] : dashes[i] = "-"
    /\ f[1] = 1 \/ dashes[f[1] - 1] = Space
    /\ f[2] = Len(dashes) \/ dashes[f[2] + 1] = Space}

Unpadded(dashes, s) ==   \* mutant: the line is not filled up with blanks
  LET fits == {o \in 0..Len(s) - Len(dashes) :
                 \A i \in 1..Len(dashes) : dashes[i] = Space => s[o + i] = Space}
      o == CHOOSE n \in fits : \A m \in fits : n <= m
  IN IF fits = {} THEN {"IndexError"} ELSE {<<f[1], Strip(SubSeq(s, o + f[1], o + f[2]))>> : f \in Fields(dashes)}

ReadLine(dashes, line) ==
  LET s == Pad(line, Len(dashes))
      fits == {o \in 0..Len(s) - Len(dashes) :
                 \A i \in 1..Len(dashes) : dashes[i] = Space => s[o + i] = Space}
      o == CHOOSE n \in fits : \A m \in fits : n <= m
  IN IF fits = {} THEN {"IndexError"} ELSE {<<f[1], Strip(SubSeq(s, o + f[1], o + f[2]))>> : f \in Fields(dashes)}

-----------------------------------------------------------------------------
Name == SeqOf({"x", "master_pid", ".", ":", "/"}, MaxWidth)
Cell == SeqOf({"x", Space}, MaxWidth)
Rule(n) == [i \in 1..n |-> "-"]
(* Two columns: the cells as a program prints them below the dashes.       *)
Printed(w, cells) == Pad(cells[1], w[1]) \o <<Space>> \o Pad(cells[2], w[2])

XvInit == given = [f |-> "none"] /\ result = <<>>

ReadLines(ls) ==
  /\ given' = [f |-> "lines", ls |-> ls]
  /\ result' = key_value_list_to_dict(ls)
ReadPath(nickname, pid) ==
  /\ given' = [f |-> "path", nickname |-> nickname, pid |-> pid]
  /\ result' = parse_file_path(create_file_path(
       << <<"pgm_name", <<"x">>>>, <<"bmc_nickname", nickname>>, <<"master_pid", pid>> >>, <<":", "boot_results">>))
ReadReport(w, cells, trim) ==
  /\ given' = [f |-> "report", w |-> w, cells |-> cells]
  /\ result' = LET line == Printed(w, cells)
               IN ReadLine(Rule(w[1]) \o <<Space>> \o Rule(w[2]),
                           IF trim THEN SubSeq(line, 1, Len(cells[1])) ELSE line)

XvNext ==
  /\ given.f = "none"
  /\ \/ \E n \in 1..MaxLines : \E ls \in [1..n -> Lines] : ReadLines(ls)
     \/ \E nickname \in Name, pid \in {<<"x">>, <<"x", "x">>} : ReadPath(nickname, pid)
     \/ \E w \in (1..2) \X (1..2), cells \in Cell \X Cell :
          \E trim \in IF Strip(cells[2]) = <<>> THEN BOOLEAN ELSE {FALSE} : ReadReport(w, cells, trim)

XvSpec == XvInit /\ [][XvNext]_xvars

-----------------------------------------------------------------------------
Found(d, l) ==   (* the line is somewhere in the dictionary                 *)
  \/ l.word \in DOMAIN d
  \/ \E k \in DOMAIN d :
       \/ "dict" \in DOMAIN d[k] /\ l.word \in DOMAIN d[k].dict
       \/ "list" \in DOMAIN d[k] /\ \E i \in DOMAIN d[k].list : d[k].list[i] = l.word

(* No line is lost, however the lines are indented, as long as no two have *)
(* the same key once it is in lower case; and a value is under its key.    *)
NoLineIsLost == given.f = "lines" =>
  LET ls == given.ls
      distinct == \A i, j \in 1..Len(ls) : ls[i].word = ls[j].word => i = j
  IN distinct => \A i \in 1..Len(ls) : Found(result, ls[i]) /\
       (ls[i].value # NoValue => \E d \in {result} \cup {result[k].dict : k \in {k \in DOMAIN result : "dict" \in DOMAIN result[k]}} :
                              ls[i].word \in DOMAIN d /\ d[ls[i].word] = Plain(ls[i].value))

(* Lines of one indentation are the entries of one dictionary, none below  *)
(* another.                                                                *)
LevelStaysLevel ==
  given.f = "lines" /\ (\A i, j \in 1..Len(given.ls) : given.ls[i].indent = given.ls[j].indent) =>
     /\ \A k \in DOMAIN result : "text" \in DOMAIN result[k]
     /\ DOMAIN result = {given.ls[i].word : i \in 1..Len(given.ls)}

(* Whatever the nickname holds, the pid of the master is read from the     *)
(* name of its results file; the nickname comes back if it holds no        *)
(* delimiter.                                                              *)
PidComesBack == given.f = "path" =>
  /\ <<"master_pid">> \in DOMAIN result /\ result[<<"master_pid">>] = given.pid
  /\ (\A i \in 1..Len(given.nickname) : given.nickname[i] \notin {".", ":", "/"}) =>
       result[<<"bmc_nickname">>] = given.nickname /\ result[<<"pgm_name">>] = <<"x">>

(* Each cell of a report with dashes comes back, blanks inside it and      *)
(* empty cells too, unless one is wider than its column.                   *)
CellsComeBack ==
  given.f = "report" /\ (\A i \in 1..2 : Len(given.cells[i]) <= given.w[i]) =>
    result = {<<1, Strip(given.cells[1])>>, <<given.w[1] + 2, Strip(given.cells[2])>>}
=============================================================================
