---------------------------- MODULE PlugInValues ----------------------------
(***************************************************************************)
(* What plug-in programs keep from one call point to the next: the save    *)
(* files of lib/gen_plug_in_utils.py, which are in a directory named for   *)
(* the plug-in package and the pid of the master program.  A file holds    *)
(* text, so that a value comes back as the type of the default says.       *)
(* Directories stay when a test run ends, and pids are used again.         *)
(*                                                                         *)
(* A value is [type, text]: its type and str() of it.  A slash in a text   *)
(* stands for the end of a line.  One variable name stands for the files of*)
(* a directory, which do not affect each other.                            *)
(***************************************************************************)
EXTENDS Naturals

CONSTANTS Pkg,        (* plug-in packages                                   *)
          Pid,        (* process ids of master programs                     *)
          MaxRuns,    (* bound: test runs                                   *)
          MaxSaves    (* bound: saves in one run                            *)

ASSUME ValueAssumption == MaxRuns \in Nat /\ MaxSaves \in Nat /\ "none" \notin Pkg

Value == { [type |-> "bool", text |-> t] : t \in {"True", "False"} }
    \cup { [type |-> "int", text |-> t] : t \in {"5"} }
    \cup { [type |-> "str", text |-> t] :
             t \in {"word", "5", "# 5", " word ", "'word'", "word/5", "it's"} }

Nothing == [type |-> "none", text |-> ""]
Raised  == [type |-> "raised", text |-> ""]

(* What bash makes of echo '<text>': the text is not escaped, so that quotes*)
(* in it end the quoting and begin it.  A pair of them is gone; an odd one *)
(* makes the command a syntax error.                                       *)
OddQuotes(text) == text = "it's"
Echoed(text) == IF text = "'word'" THEN "word" ELSE text

(* What file_to_list, with comments=0 and trim=1, makes of a file: blank   *)
(* lines and comments are left out and the others trimmed; [0] is the first*)
(* of them.  "# 5" stands for every text of which no line is left, as the  *)
(* empty one.                                                              *)
Unread(content) == content = "# 5"
FirstLine(content) == IF content \in {" word ", "word/5"} THEN "word" ELSE content

VARIABLES
  runs, saves,
  MASTER_PID,
  file,              (* [pid, package]: what the file holds, "none" if there*)
                     (* is no file                                          *)
  saved, left_over,  (* history: [package], the value written last in this  *)
                     (* run; the [pid, package] older runs left files for   *)
  answer             (* of restore_plug_in_value: [package, default, value] *)

vvars == <<runs, saves, MASTER_PID, file, saved, left_over, answer>>

NoAnswer == [package |-> "none", default |-> Nothing, value |-> Nothing]

VInit ==
  /\ runs = 0 /\ saves = 0 /\ MASTER_PID = "none"
  /\ file = [d \in Pid \X Pkg |-> "none"]
  /\ saved = [k \in Pkg |-> Nothing] /\ left_over = {} /\ answer = NoAnswer

(* A test run begins, after the one before it has ended somehow.           *)
Begin(pid) ==
  /\ runs < MaxRuns /\ runs' = runs + 1
  /\ saves' = 0
  /\ MASTER_PID' = pid
  /\ saved' = [k \in Pkg |-> Nothing]
  /\ left_over' = { d \in Pid \X Pkg : file[d] # "none" }
  /\ answer' = NoAnswer
  /\ UNCHANGED file

PidOnly(package) == <<MASTER_PID, CHOOSE k \in Pkg : TRUE>>   \* mutant: no package name
PackageOnly(package) == <<CHOOSE p \in Pid : TRUE, package>>  \* mutant: no pid

compose_plug_in_save_dir_path(package) == <<MASTER_PID, package>>

(* A plug-in saves under its own name.  What the shell refuses to run      *)
(* leaves the file as it was, and the plug-in is not told: ignore_err of   *)
(* shell_cmd is 1 unless a caller says otherwise.                          *)
save_plug_in_value(package, value) ==
  /\ runs > 0 /\ saves < MaxSaves /\ saves' = saves + 1
  /\ IF OddQuotes(value.text) THEN UNCHANGED <<file, saved>>
     ELSE /\ file' = [file EXCEPT ![compose_plug_in_save_dir_path(package)] = Echoed(value.text)]
          /\ saved' = [saved EXCEPT ![package] = value]
  /\ answer' = NoAnswer
  /\ UNCHANGED <<runs, MASTER_PID, left_over>>

delete_plug_in_save_dir(package) ==
  /\ runs > 0
  /\ file' = [file EXCEPT ![compose_plug_in_save_dir_path(package)] = "none"]
  /\ saved' = [saved EXCEPT ![package] = Nothing]
  /\ left_over' = left_over \ {compose_plug_in_save_dir_path(package)}
  /\ answer' = NoAnswer
  /\ UNCHANGED <<runs, saves, MASTER_PID>>

(* A value of the default's type from the text.  int() takes only numbers. *)
TypedText(default, text) == [type |-> "str", text |-> text]   \* mutant: not converted

Typed(default, text) ==
  IF default.type = "int" /\ text # "5" THEN Raised
  ELSE IF default.type = "bool"
    THEN [type |-> "bool", text |-> IF text = "True" THEN "True" ELSE "False"]
  ELSE [type |-> default.type, text |-> text]

(* A plug-in restores its own value, or that of another package.           *)
restore_plug_in_value(package, default) ==
  LET text == file[compose_plug_in_save_dir_path(package)] IN
  /\ runs > 0
  /\ answer' = [package |-> package, default |-> default,
                value |-> IF text = "none" THEN default
                          ELSE IF Unread(text) THEN Raised     (* no line [0] *)
                          ELSE Typed(default, FirstLine(text))]
  /\ UNCHANGED <<runs, saves, MASTER_PID, file, saved, left_over>>

VNext ==
  \/ \E p \in Pid : Begin(p)
  \/ \E k \in Pkg : \E v \in Value :
       save_plug_in_value(k, v) \/ restore_plug_in_value(k, v)
  \/ \E k \in Pkg : delete_plug_in_save_dir(k)

VSpec == VInit /\ [][VNext]_vvars

-----------------------------------------------------------------------------
Answered == answer # NoAnswer
Old == answer.package # "none" /\ <<MASTER_PID, answer.package>> \in left_over

(* A value comes back as it was last written in this run for the package   *)
(* asked for, with its type if the default is of that type: not one of     *)
(* another package, of an earlier save, or of another run.  Its text comes *)
(* back whole if it is one line without quotes, outer blanks and "#";      *)
(* without them, or cut to its first line, if not.  A save that the shell  *)
(* refused counts for nothing: the value before it comes back.             *)
WholeText == {"word", "True", "False", "5"}
PartText  == {" word ", "'word'", "word/5"}

SavedComesBack ==
  LET written == saved[answer.package] IN
  Answered /\ written # Nothing /\ written.type = answer.default.type =>
    /\ written.text \in WholeText => answer.value = written
    /\ written.text \in PartText => answer.value = [type |-> "str", text |-> "word"]
    /\ written.text = "# 5" => answer.value = Raised

(* Where nothing was written, or it was deleted, the default is returned;  *)
(* but a run that has the pid of an older one that did not delete its      *)
(* directory is given the older run's value.                               *)
ElseTheDefault ==
  Answered /\ saved[answer.package] = Nothing /\ ~Old => answer.value = answer.default

(* What is returned always has the type of the default, and only a text    *)
(* that is not of that type, or that file_to_list leaves out, raises.      *)
TypeIsKept == Answered =>
  \/ answer.value.type = answer.default.type
  \/ /\ answer.value = Raised
     /\ Old \/ saved[answer.package].text = "# 5"
          \/ (saved[answer.package].type # "int" /\ answer.default.type = "int")

(* What a plug-in has last had written comes back, whole or in the part    *)
(* that its text allows, else the default, in the type of the default and  *)
(* through pids that are used again.                                       *)
ValuesComeBack == SavedComesBack /\ ElseTheDefault /\ TypeIsKept
=============================================================================
