------------------------------- MODULE PlugIns -------------------------------
(***************************************************************************)
(* Plug-in call points: at fixed points of a boot test the driver          *)
(* (lib/obmc_boot_test.py) has the call point program of every plug-in     *)
(* package run, through rprocess_plug_in_packages of                       *)
(* lib/gen_robot_plug_in.py, which starts bin/process_plug_in_packages.py. *)
(* That program makes a set of the packages, so that each time they come   *)
(* in another order.  What comes back are its return code and the values   *)
(* of shell_rc and failed_plug_in_name that were printed last.             *)
(*                                                                         *)
(* shell_rc is counted in units of 0x100: stop_test_rc, 0x200, is 2.       *)
(***************************************************************************)
EXTENDS Naturals, FiniteSets

CONSTANTS
  PlugIn,         (* plug_in_packages_list                                  *)
  MaxTests,       (* bound: calls of the keyword                            *)
  MaxBoots        (* bound: boots of one call                               *)

ASSUME PlugInAssumption == MaxTests \in Nat /\ MaxBoots \in Nat /\ "" \notin PlugIn

stop_test_rc == 2

(* The options that each call point is called with.                        *)
allow_shell_rc(cp) == IF cp = "stop_check" THEN stop_test_rc ELSE 0
stop_on_plug_in_failure(cp) == cp \notin {"post_test_case", "post_stack", "cleanup"}
stop_on_non_zero_rc(cp) == cp = "stop_check"

VARIABLES
  dat,              (* out, loop, boot, wait, teardown, or the call point   *)
                    (* being processed                                      *)
  tests, boots,     (* calls of the keyword, boots of this call             *)
  cp_setup_called,
  boot_status,      (* of the last boot: none, PASS or FAIL                 *)
  boot_success,
  stopped,          (* stop_check has ended the test                        *)
  packages,         (* packages whose program is still to be run            *)
  ret_code, shell_rc, failed_plug_in_name,
  reached, exits,   (* history of this call point: packages dealt with, and *)
                    (* <<package, exit code>> of the programs that ran      *)
  vanished,         (* history: a package was not valid any more            *)
  set_up, cleaned,  (* history: setup succeeded, cleanup was called (this   *)
                    (* call of the keyword)                                 *)
  spoiled           (* history: a program of this boot failed               *)

driver  == <<tests, boots, cp_setup_called, boot_status, boot_success, stopped>>
process == <<packages, ret_code, shell_rc, failed_plug_in_name>>
story   == <<reached, exits, vanished, set_up, cleaned, spoiled>>
gvars   == <<dat, driver, process, story>>

CallPoints == {"setup", "pre_boot", "post_reboot", "post_boot", "post_test_case",
               "stop_check", "post_stack", "cleanup"}

GInit ==
  /\ dat = "out" /\ tests = 0 /\ boots = 0 /\ cp_setup_called = FALSE
  /\ boot_status = "none" /\ boot_success = FALSE /\ stopped = FALSE
  /\ packages = {} /\ ret_code = 0 /\ shell_rc = 0 /\ failed_plug_in_name = ""
  /\ reached = {} /\ exits = {} /\ vanished = FALSE
  /\ set_up = FALSE /\ cleaned = FALSE /\ spoiled = FALSE

-----------------------------------------------------------------------------
(* rprocess_plug_in_packages begins.                                       *)
Process(cp) ==
  /\ dat' = cp
  /\ packages' = PlugIn
  /\ ret_code' = 0 /\ shell_rc' = 0 /\ failed_plug_in_name' = ""
  /\ reached' = {} /\ exits' = {} /\ vanished' = FALSE

Bad(e) == e # 0 /\ e # allow_shell_rc(dat)

(* run_pgm: one more program, and its exit code.                           *)
RanNamed(p, e) ==   \* mutant: the name is printed whatever the exit code
  /\ dat \in CallPoints /\ p \in packages
  /\ reached' = reached \cup {p} /\ exits' = exits \cup {<<p, e>>}
  /\ shell_rc' = e
  /\ failed_plug_in_name' = p
  /\ spoiled' = (spoiled \/ e # 0)
  /\ UNCHANGED <<dat, driver, vanished, set_up, cleaned>>

Ran(p, e) ==
  /\ dat \in CallPoints /\ p \in packages
  /\ reached' = reached \cup {p} /\ exits' = exits \cup {<<p, e>>}
  /\ shell_rc' = e
  /\ failed_plug_in_name' = IF e # 0 THEN p ELSE failed_plug_in_name
  /\ spoiled' = (spoiled \/ e # 0)
  /\ UNCHANGED <<dat, driver, vanished, set_up, cleaned>>

(* What the loop of process_plug_in_packages makes of it.                  *)
RunPgmLastRc(p, e) ==   \* mutant: ret_code = rc
  /\ Ran(p, e)
  /\ ret_code' = IF Bad(e) THEN 1 ELSE 0
  /\ packages' = IF \/ (Bad(e) /\ stop_on_plug_in_failure(dat))
                    \/ (e # 0 /\ stop_on_non_zero_rc(dat))
                   THEN {} ELSE packages \ {p}

RunPgmGoesOn(p, e) ==   \* mutant: stop_on_non_zero_rc is not looked at
  /\ Ran(p, e)
  /\ ret_code' = IF Bad(e) THEN 1 ELSE ret_code
  /\ packages' = IF Bad(e) /\ stop_on_plug_in_failure(dat) THEN {} ELSE packages \ {p}

RunPgmStops(p, e) ==   \* mutant: stop_on_plug_in_failure is not looked at
  /\ Ran(p, e)
  /\ ret_code' = IF Bad(e) THEN 1 ELSE ret_code
  /\ packages' = IF Bad(e) \/ (e # 0 /\ stop_on_non_zero_rc(dat))
                   THEN {} ELSE packages \ {p}

RunPgm(p, e) ==
  /\ Ran(p, e)
  /\ ret_code' = IF Bad(e) THEN 1 ELSE ret_code
  /\ packages' = IF \/ (Bad(e) /\ stop_on_plug_in_failure(dat))
                    \/ (e # 0 /\ stop_on_non_zero_rc(dat))
                   THEN {} ELSE packages \ {p}

NoPgm(p) ==
  /\ dat \in CallPoints /\ p \in packages
  /\ reached' = reached \cup {p}
  /\ packages' = packages \ {p}
  /\ UNCHANGED <<dat, driver, ret_code, shell_rc, failed_plug_in_name, exits, vanished,
                 set_up, cleaned, spoiled>>

(* The packages are validated each time: one that is not a directory, or   *)
(* does not support the machine any more, ends the program.                *)
Vanished ==
  /\ dat \in CallPoints /\ packages = PlugIn /\ PlugIn # {}
  /\ packages' = {} /\ ret_code' = 1
  /\ vanished' = TRUE /\ spoiled' = TRUE
  /\ UNCHANGED <<dat, driver, shell_rc, failed_plug_in_name, reached, exits, set_up, cleaned>>

Returns(cp) == dat = cp /\ packages = {}

-----------------------------------------------------------------------------
(* The driver, from one call point to the next.                            *)
Goes(to) == dat' = to /\ UNCHANGED <<process, reached, exits, vanished>>

BeginTest ==
  /\ dat = "out" /\ tests < MaxTests
  /\ tests' = tests + 1 /\ boots' = 0 /\ stopped' = FALSE
  /\ set_up' = FALSE /\ cleaned' = FALSE
  /\ Process("setup")
  /\ UNCHANGED <<cp_setup_called, boot_status, boot_success, spoiled>>

SetupReturnsLocal ==   \* mutant: the global statement is missing
  /\ Returns("setup")
  /\ Goes(IF ret_code = 0 THEN "loop" ELSE "teardown")
  /\ set_up' = (ret_code = 0)
  /\ UNCHANGED <<driver, cleaned, spoiled>>

SetupReturns ==
  /\ Returns("setup")
  /\ Goes(IF ret_code = 0 THEN "loop" ELSE "teardown")
  /\ cp_setup_called' = (cp_setup_called \/ ret_code = 0)
  /\ set_up' = (ret_code = 0)
  /\ UNCHANGED <<tests, boots, boot_status, boot_success, stopped, cleaned, spoiled>>

(* test_loop_body selects a boot, run_boot begins.                         *)
BeginBoot ==
  /\ dat = "loop" /\ boots < MaxBoots
  /\ boots' = boots + 1
  /\ spoiled' = FALSE
  /\ Process("pre_boot")
  /\ UNCHANGED <<tests, cp_setup_called, boot_status, boot_success, stopped, set_up, cleaned>>

(* A boot has failed or passed: the post_test_case programs are run.       *)
BootIs(status) ==
  /\ boot_status' = status /\ boot_success' = (status = "PASS")
  /\ Process("post_test_case")
  /\ UNCHANGED <<tests, boots, cp_setup_called, stopped, set_up, cleaned, spoiled>>

PreBootReturnsOn ==   \* mutant: rc is not looked at
  /\ Returns("pre_boot")
  /\ Goes("boot") /\ UNCHANGED <<driver, set_up, cleaned, spoiled>>

PreBootReturns ==
  /\ Returns("pre_boot")
  /\ IF ret_code # 0
       THEN BootIs("FAIL")
       ELSE Goes("boot") /\ UNCHANGED <<driver, set_up, cleaned, spoiled>>

(* The keyword that boots, and the wait for communication or for a change: *)
(* either fails the boot.  A boot that reboots the BMC has another call    *)
(* point here; in test mode there is neither.                              *)
Boot ==
  /\ dat = "boot"
  /\ \/ BootIs("FAIL")
     \/ /\ Process("post_reboot")
        /\ UNCHANGED <<driver, set_up, cleaned, spoiled>>
     \/ Goes("wait") /\ UNCHANGED <<driver, set_up, cleaned, spoiled>>

PostRebootReturns ==
  /\ Returns("post_reboot")
  /\ IF ret_code # 0
       THEN BootIs("FAIL")
       ELSE Goes("wait") /\ UNCHANGED <<driver, set_up, cleaned, spoiled>>

WaitForEnd ==
  /\ dat = "wait"
  /\ \/ BootIs("FAIL")
     \/ Process("post_boot") /\ UNCHANGED <<driver, set_up, cleaned, spoiled>>

PostBootReturns ==
  /\ Returns("post_boot")
  /\ BootIs(IF ret_code # 0 THEN "FAIL" ELSE "PASS")

PostTestCaseReturns ==
  /\ Returns("post_test_case")
  /\ Process("stop_check")
  /\ UNCHANGED <<driver, set_up, cleaned, spoiled>>

StopCheckReturns ==
  /\ Returns("stop_check")
  /\ stopped' = (shell_rc = stop_test_rc)
  /\ Goes(IF stopped' THEN "teardown" ELSE "loop")
  /\ UNCHANGED <<tests, boots, cp_setup_called, boot_status, boot_success, set_up, cleaned,
                 spoiled>>

(* post_stack, whose stop_check is the one above.                          *)
BeginPostStack ==
  /\ dat = "loop"
  /\ boot_success' = TRUE
  /\ spoiled' = FALSE
  /\ Process("post_stack")
  /\ UNCHANGED <<tests, boots, cp_setup_called, boot_status, stopped, set_up, cleaned>>

PostStackReturns ==
  /\ Returns("post_stack")
  /\ boot_success' = (boot_success /\ ret_code = 0)
  /\ Process("stop_check")
  /\ UNCHANGED <<tests, boots, cp_setup_called, boot_status, stopped, set_up, cleaned, spoiled>>

(* All boots are done, or something else ends the keyword.                 *)
TestEnds ==
  /\ dat \in {"loop", "boot", "wait"}
  /\ Goes("teardown")
  /\ UNCHANGED <<driver, set_up, cleaned, spoiled>>

(* obmc_boot_test_teardown.                                                *)
Teardown ==
  /\ dat = "teardown"
  /\ IF cp_setup_called
       THEN Process("cleanup") /\ cleaned' = TRUE
       ELSE Goes("out") /\ UNCHANGED cleaned
  /\ UNCHANGED <<driver, set_up, spoiled>>

CleanupReturns ==
  /\ Returns("cleanup")
  /\ Goes("out")
  /\ UNCHANGED <<driver, set_up, cleaned, spoiled>>

GNext ==
  \/ \E p \in PlugIn : NoPgm(p) \/ \E e \in 0..2 : RunPgm(p, e)
  \/ Vanished \/ BeginTest \/ SetupReturns \/ BeginBoot \/ PreBootReturns \/ Boot
  \/ PostRebootReturns \/ WaitForEnd \/ PostBootReturns \/ PostTestCaseReturns
  \/ StopCheckReturns \/ BeginPostStack \/ PostStackReturns \/ TestEnds \/ Teardown
  \/ CleanupReturns

GSpec == GInit /\ [][GNext]_gvars

-----------------------------------------------------------------------------
(* Types, and what holds of the name that is shown: it is that of a        *)
(* package whose program ran in this call point and did not exit with 0.   *)
GTypeOK ==
  /\ dat \in CallPoints \cup {"out", "loop", "boot", "wait", "teardown"}
  /\ tests \in 0..MaxTests /\ boots \in 0..MaxBoots
  /\ cp_setup_called \in BOOLEAN /\ boot_success \in BOOLEAN /\ stopped \in BOOLEAN
  /\ boot_status \in {"none", "PASS", "FAIL"}
  /\ packages \subseteq PlugIn /\ reached \subseteq PlugIn \ packages
  /\ ret_code \in 0..1 /\ shell_rc \in 0..2
  /\ failed_plug_in_name # "" =>
       <<failed_plug_in_name, 1>> \in exits \/ <<failed_plug_in_name, 2>> \in exits
  /\ exits \subseteq PlugIn \X (0..2)

(* One of several programs fails and later ones work: whatever the order   *)
(* they come in, the failure is in the return code; and a return code of 1 *)
(* has a cause.                                                            *)
FailureIsCounted == dat \in CallPoints =>
  (ret_code = 1 <=> vanished \/ \E x \in exits : Bad(x[2]))

(* No boot passes when a plug-in program of one of its call points failed, *)
(* and none fails because of what a later call point did.                  *)
PassIsUnspoiled ==
  /\ boot_status = "PASS" /\ dat = "post_test_case" /\ reached = {} /\ ~vanished => ~spoiled
  /\ dat \in {"wait", "post_boot"} /\ reached = {} /\ ~vanished => ~spoiled

(* The test goes on or is stopped by what the stop_check programs said: it *)
(* is stopped exactly if one of those that ran exited with 2.              *)
StopIsHeard == [][StopCheckReturns =>
  (stopped' <=> \E p \in PlugIn : <<p, stop_test_rc>> \in exits)]_gvars

(* The call points that are for tidying up and collecting data reach every *)
(* package, whatever the others do.                                        *)
AllAreReached ==
  \A cp \in {"post_test_case", "post_stack", "cleanup"} :
    Returns(cp) /\ ~vanished => reached = PlugIn

(* A test whose setup succeeded does not end without the cleanup call      *)
(* point, however it ended.                                                *)
CleanupFollows == dat = "out" /\ set_up => cleaned

(* The failure of one of several plug-ins is not lost, spoils the boot it  *)
(* belongs to and no other, and keeps no package from what tidies up, in   *)
(* whatever order the packages come.                                       *)
FailuresAreHandled ==
  /\ GTypeOK
  /\ FailureIsCounted
  /\ PassIsUnspoiled
  /\ AllAreReached
  /\ CleanupFollows
=============================================================================
