----------------------------- MODULE Validation -----------------------------
(***************************************************************************)
(* lib/gen_valid.py.  A validation whose result is assigned answers with   *)
(* an error message.  One that is not answers True or False or, while      *)
(* exit_on_error is set, None or not at all: the program exits.            *)
(* validate_parms of lib/obmc_boot_test.py sets exit_on_error, a global of *)
(* the module, around its checks; lib/bmc_ssh_utils.py asks valid_value    *)
(* before it issues a command, lib/gen_robot_valid.py for robot programs.  *)
(***************************************************************************)
EXTENDS Naturals, Sequences

CONSTANTS Parm,      (* the parameters followed, names of Checks            *)
          Text,      (* their values, "" the blank one                      *)
          Integral   (* those that int() reads                              *)

Blank == ""

ASSUME ValidationAssumption == Blank \in Text /\ Integral \subseteq Text \ {Blank}

VARIABLES
  exit_on_error,  (* the global of gen_valid                                *)
  parm,           (* [Parm -> Text]                                         *)
  checks,         (* which of Checks validate_parms has still to do         *)
  at,             (* "idle", "validate_parms" or "ended"                    *)
  asked,          (* the last validation outside it: who, what, answer,     *)
                  (* and whether validate_parms had been cut short        *)
  cut_short,      (* history: the last checks were begun and not ended      *)
  returned,       (* history: the last validate_parms has returned          *)
  cause           (* history: why the program exited                        *)

lvars == <<exit_on_error, parm, checks, at, asked, cut_short, returned, cause>>

ExitsEither(error, assigned) ==   \* mutant: a blank message exits too
  CASE assigned -> IF error THEN "message" ELSE Blank
    [] ~assigned -> IF exit_on_error THEN "exit" ELSE IF error THEN "False" ELSE "True"

AnswersAlike(error, assigned) ==   \* mutant: it does not see that it is assigned
  CASE error -> IF exit_on_error THEN "exit" ELSE "False"
    [] ~error -> IF exit_on_error THEN "None" ELSE "True"

process_error_message(error, assigned) ==
  CASE assigned -> IF error THEN "message" ELSE Blank
    [] ~assigned /\ ~error -> IF exit_on_error THEN "None" ELSE "True"
    [] ~assigned /\ error -> IF exit_on_error THEN "exit" ELSE "False"

(* The error of valid_value(v, valid_values, invalid_values), with sets.   *)
ValueError(v, valid_values, invalid_values) ==
  \/ valid_values # {} /\ invalid_values # {}
  \/ valid_values # {} /\ invalid_values = {} /\ v \notin valid_values
  \/ valid_values = {} /\ v \in IF invalid_values = {} THEN {Blank, "None"} ELSE invalid_values

(* The checks of validate_parms, in order, some for want of a condition:   *)
(* a host that is not blank.                                               *)
Check(p, kind, host) == [parm |-> p, kind |-> kind, host |-> host]
Checks ==
  << Check("bmc_host", "value", Blank), Check("bmc_username", "value", Blank),
     Check("bmc_password", "value", Blank), Check("ipmi_username", "value", Blank),
     Check("ipmi_password", "value", Blank),
     Check("os_username", "value", "os_host"), Check("os_password", "value", "os_host"),
     Check("pdu_username", "value", "pdu_host"), Check("pdu_password", "value", "pdu_host"),
     Check("pdu_slot_no", "integer", "pdu_host"),
     Check("bmc_serial_port", "integer", "bmc_serial_host"),
     Check("max_num_tests", "integer", Blank), Check("boot_pass", "integer", Blank),
     Check("boot_fail", "integer", Blank), Check("plug_ins", "plug_ins", Blank),
     Check("stack_mode", "mode", Blank) >>

Applies(c) == c.host = Blank \/ parm[c.host] # Blank
ParmError(c) == CASE c.kind = "value" -> ValueError(parm[c.parm], {}, {})
                  [] c.kind = "integer" -> parm[c.parm] \notin Integral
                  [] c.kind = "mode" -> ValueError(parm[c.parm], {"normal", "skip"}, {})
                  [] c.kind = "plug_ins" -> FALSE

LInit ==
  /\ exit_on_error = FALSE /\ parm = [p \in Parm |-> Blank] /\ checks = {} /\ at = "idle"
  /\ asked = [by |-> "none", error |-> FALSE, answer |-> Blank, cut |-> FALSE]
  /\ cut_short = FALSE /\ returned = FALSE /\ cause = "none"

(* process_pgm_parms assigns the parameters in the order of parm_list of   *)
(* extended/obmc_boot_test_resource.robot, those of them that are followed.*)
(* It applies int() to some, before exit_on_error is set, and looks up     *)
(* each host.                                                              *)
ParmList ==
  << "bmc_host", "bmc_username", "bmc_password", "ipmi_username", "ipmi_password", "os_host",
     "os_username", "os_password", "pdu_host", "pdu_username", "pdu_password", "pdu_slot_no",
     "bmc_serial_host", "bmc_serial_port", "stack_mode", "max_num_tests", "boot_pass", "boot_fail" >>
int_list == {"max_num_tests", "boot_pass", "boot_fail"}
Hosts == {"bmc_host", "os_host", "pdu_host", "bmc_serial_host"}
Converts(p, values) == p \in Parm \cap int_list => values[p] \in Integral

(* One that does not convert, or a host that is not known, raises: the     *)
(* parameters before it are assigned by then, and so is the host.          *)
ParmsRaise(values) ==
  /\ at = "idle"
  /\ \E n \in 1..Len(ParmList) :
       LET p == ParmList[n]
           done == {ParmList[m] : m \in 1..(n - 1)} \cup (Hosts \cap {p})
       IN /\ p \in Parm /\ (p \in Hosts \/ ~Converts(p, values))
          /\ \A m \in 1..(n - 1) : Converts(ParmList[m], values)
          /\ parm' = [q \in Parm |-> IF q \in done THEN values[q] ELSE parm[q]]
  /\ returned' = FALSE
  /\ UNCHANGED <<exit_on_error, checks, at, asked, cut_short, cause>>

BeginValidate(values) ==
  /\ at = "idle" /\ at' = "validate_parms" /\ parm' = values
  /\ \A p \in Parm : Converts(p, values)
  /\ exit_on_error' = TRUE
  /\ checks' = {i \in 1..Len(Checks) : Checks[i].parm \in Parm \cup {"plug_ins"}}
  /\ cut_short' = TRUE /\ returned' = FALSE
  /\ UNCHANGED <<asked, cause>>

IsFirst(i) == \A j \in checks : i <= j

SkipsHosted ==   \* mutant: what depends on a host is not checked
  /\ at = "validate_parms"
  /\ \E i \in checks :
     LET c == Checks[i]
         bad == c.host = Blank /\ ParmError(c)
         ends == bad /\ process_error_message(TRUE, FALSE) = "exit"
     IN /\ IsFirst(i) /\ checks' = checks \ {i}
        /\ at' = IF ends THEN "ended" ELSE at
        /\ cause' = IF ends THEN c.parm ELSE cause
  /\ UNCHANGED <<exit_on_error, parm, asked, cut_short, returned>>

NextCheck ==
  /\ at = "validate_parms"
  /\ \E i \in checks :
     LET c == Checks[i]
         bad == Applies(c) /\ ParmError(c)
         ends == bad /\ process_error_message(TRUE, FALSE) = "exit"
     IN /\ IsFirst(i) /\ checks' = checks \ {i}
        /\ at' = IF ends THEN "ended" ELSE at
        /\ cause' = IF ends THEN c.parm ELSE cause
  /\ UNCHANGED <<exit_on_error, parm, asked, cut_short, returned>>

(* rvalidate_plug_ins fails: the keyword fails, robot goes on.             *)
PlugInsAreInvalid ==
  /\ at = "validate_parms" /\ \E i \in checks : IsFirst(i) /\ Checks[i].kind = "plug_ins"
  /\ at' = "idle" /\ checks' = {}
  /\ UNCHANGED <<exit_on_error, parm, asked, cut_short, returned, cause>>

NeverReset ==   \* mutant: set_exit_on_error(False) is missing
  /\ at = "validate_parms" /\ checks = {}
  /\ at' = "idle" /\ cut_short' = FALSE /\ returned' \in BOOLEAN
  /\ UNCHANGED <<exit_on_error, parm, checks, asked, cause>>

(* exit_on_error is reset; then the boot lists may fail the keyword: they  *)
(* are blank, name what is no boot, or need the PDU of no host.            *)
EndValidate ==
  /\ at = "validate_parms" /\ checks = {}
  /\ exit_on_error' = FALSE /\ at' = "idle" /\ cut_short' = FALSE /\ returned' \in BOOLEAN
  /\ UNCHANGED <<parm, checks, asked, cause>>

(* if not gv.valid_value(bmc_host): return "", "", 1                       *)
AskForCommand(host) ==
  LET error == ValueError(host, {}, {})
      answer == process_error_message(error, FALSE)
  IN /\ at = "idle" /\ at' = IF answer = "exit" THEN "ended" ELSE "idle"
     /\ cause' = IF answer = "exit" THEN "command" ELSE cause
     /\ asked' = [by |-> "command", error |-> error,
                  answer |-> IF answer = "True" THEN "runs" ELSE "refuses",
                  cut |-> cut_short]
     /\ UNCHANGED <<exit_on_error, parm, checks, cut_short, returned>>

(* The keywords of gen_robot_valid assign the message and fail for it.     *)
AskFromRobot(value) ==
  LET error == ValueError(value, {}, {})
  IN /\ at = "idle"
     /\ asked' = [by |-> "robot", error |-> error,
                  answer |-> IF process_error_message(error, TRUE) = Blank THEN "passes" ELSE "fails",
                  cut |-> cut_short]
     /\ UNCHANGED <<exit_on_error, parm, checks, at, cut_short, returned, cause>>

LNext ==
  \/ \E values \in [Parm -> Text] : ParmsRaise(values) \/ BeginValidate(values)
  \/ NextCheck \/ PlugInsAreInvalid \/ EndValidate
  \/ \E value \in Text : AskForCommand(value) \/ AskFromRobot(value)

LSpec == LInit /\ [][LNext]_lvars

-----------------------------------------------------------------------------
(* A command is issued for every host that is valid, or else the checks of *)
(* a validate_parms were cut short and left exit_on_error set: then None is   *)
(* taken for False and each command refused without a message.  None is    *)
(* issued for an invalid host.                                             *)
ValidHostIsServed == asked.by = "command" =>
  (asked.answer = "runs" => ~asked.error) /\ (asked.answer = "refuses" => asked.error \/ asked.cut)

(* What a robot program learns does not depend on exit_on_error.           *)
RobotIsToldTheTruth == asked.by = "robot" => (asked.answer = "fails" <=> asked.error)

(* The program is ended for a parameter that applies and is not valid, or, *)
(* after a validate_parms that was cut short, for a command.               *)
EndHasCause == at = "ended" =>
  IF cause = "command" THEN cut_short /\ asked.error
  ELSE \E i \in 1..Len(Checks) : Checks[i].parm = cause /\ Applies(Checks[i]) /\ ParmError(Checks[i])

(* When validate_parms returns, each parameter that applies is valid.      *)
ReturnsOnlyIfValid == returned =>
  \A i \in 1..Len(Checks) :
    Checks[i].parm \in Parm /\ Applies(Checks[i]) => ~ParmError(Checks[i])

(* Who asks for a validation is answered by what it found, except for a    *)
(* command after a validate_parms that was cut short.                      *)
AnswersAreTrue == ValidHostIsServed /\ RobotIsToldTheTruth

(* validate_parms ends the program for a parameter that is to blame, and   *)
(* returns only if none is.                                                *)
ChecksAreComplete == EndHasCause /\ ReturnsOnlyIfValid
=============================================================================
