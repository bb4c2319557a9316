---------------------------- MODULE PlugInProofs ----------------------------
(***************************************************************************)
(* Proofs about what MCPlugIns composes: the call points of any set of     *)
(* plug-in packages, for any number of tests and boots; the selection of   *)
(* packages, for any directories; and the values plug-ins save, for any    *)
(* packages, pids and numbers of runs and saves.                           *)
(***************************************************************************)
EXTENDS MCPlugIns, Integers, Sequences, TLAPS

(* What is known of the failures of a boot on the way to its verdict: in a *)
(* call point whose return code counts for the boot, a failed program has  *)
(* made that 1; between two of them none has failed.                       *)
Counting == dat \in {"pre_boot", "post_reboot", "post_boot"}

SpoiledIsKnown ==
  /\ Counting /\ spoiled => ret_code = 1
  /\ dat \in {"boot", "wait"} => ~spoiled

(* stop_check goes on only while every program has exited with 0.          *)
StopIsKnown == dat = "stop_check" =>
  /\ shell_rc = stop_test_rc <=> \E p \in PlugIn : <<p, stop_test_rc>> \in exits
  /\ shell_rc # 0 => packages = {}

(* The call points for tidying up have dealt with every package that is    *)
(* not still to come.                                                      *)
NoneIsSkipped ==
  dat \in {"post_test_case", "post_stack", "cleanup"} /\ ~vanished => PlugIn \subseteq reached \cup packages

(* A setup that succeeded is remembered until cleanup is called.           *)
SetupIsKnown ==
  /\ set_up => cp_setup_called
  /\ dat = "cleanup" => cleaned

Flags ==
  /\ cp_setup_called \in BOOLEAN /\ boot_success \in BOOLEAN /\ stopped \in BOOLEAN
  /\ vanished \in BOOLEAN /\ spoiled \in BOOLEAN /\ set_up \in BOOLEAN /\ cleaned \in BOOLEAN

Counters ==
  /\ tests \in 0..MaxTests /\ boots \in 0..MaxBoots
  /\ boot_status \in {"none", "PASS", "FAIL"}

Plain ==
  /\ dat \in CallPoints \cup {"out", "loop", "boot", "wait", "teardown"}
  /\ Counters
  /\ packages \subseteq PlugIn /\ reached \subseteq PlugIn \ packages
  /\ ret_code \in 0..1 /\ shell_rc \in 0..2
  /\ failed_plug_in_name # "" =>
       <<failed_plug_in_name, 1>> \in exits \/ <<failed_plug_in_name, 2>> \in exits
  /\ exits \subseteq PlugIn \X (0..2)

GInv ==
  /\ Flags /\ Plain /\ FailureIsCounted /\ SpoiledIsKnown /\ PassIsUnspoiled
  /\ StopIsKnown /\ NoneIsSkipped /\ SetupIsKnown /\ CleanupFollows

Programs == (\E p \in PlugIn : NoPgm(p) \/ \E e \in 0..2 : RunPgm(p, e)) \/ Vanished

Driver ==
  \/ BeginTest \/ SetupReturns \/ BeginBoot \/ PreBootReturns \/ Boot
  \/ PostRebootReturns \/ WaitForEnd \/ PostBootReturns \/ PostTestCaseReturns
  \/ StopCheckReturns \/ BeginPostStack \/ PostStackReturns \/ TestEnds \/ Teardown
  \/ CleanupReturns

-----------------------------------------------------------------------------
(* What a program that is run does.                                        *)
LEMMA RunKeeps ==
  ASSUME GInv, NEW p \in PlugIn, NEW e \in 0..2, RunPgm(p, e)
  PROVE  GInv'
<1>1. /\ dat \in CallPoints /\ p \in packages
      /\ reached' = reached \cup {p} /\ exits' = exits \cup {<<p, e>>}
      /\ shell_rc' = e
      /\ failed_plug_in_name' = IF e # 0 THEN p ELSE failed_plug_in_name
      /\ UNCHANGED <<dat, driver, vanished, set_up, cleaned>>
  BY DEF RunPgm, Ran
<1>10. /\ ret_code' = IF Bad(e) THEN 1 ELSE ret_code
      /\ packages' = IF \/ (Bad(e) /\ stop_on_plug_in_failure(dat))
                        \/ (e # 0 /\ stop_on_non_zero_rc(dat))
                       THEN {} ELSE packages \ {p}
  BY DEF RunPgm
<1>11. e \in {0, 1, 2} /\ <<p, e>> \in PlugIn \X (0..2) /\ <<p, e>>[2] = e
  OBVIOUS
<1>2. spoiled' \in BOOLEAN /\ (spoiled' => spoiled \/ e # 0)
  BY Zenon DEF RunPgm, Ran, GInv, Flags
<1>3. Flags'
  BY <1>1, <1>2 DEF GInv, Flags, driver
<1>4. Plain'
  <2>2. failed_plug_in_name' # "" =>
          <<failed_plug_in_name', 1>> \in exits' \/ <<failed_plug_in_name', 2>> \in exits'
    BY <1>1, <1>11 DEF GInv, Plain
  <2>3. exits' \subseteq PlugIn \X (0..2)
    <3>1. exits \subseteq PlugIn \X (0..2)
      BY DEF GInv, Plain
    <3> QED BY <1>1, <1>11, <3>1, Zenon
  <2>4. packages' \subseteq packages \ {p}
    BY <1>10
  <2>5. ret_code' \in 0..1
    <3>1. ret_code \in 0..1
      BY DEF GInv, Plain
    <3> QED BY <1>10, <3>1
  <2>6. packages \subseteq PlugIn /\ reached \subseteq PlugIn \ packages
    BY DEF GInv, Plain
  <2>7. packages' \subseteq PlugIn /\ reached' \subseteq PlugIn \ packages'
    BY <1>1, <2>4, <2>6
  <2> QED BY <1>1, <1>11, <2>2, <2>3, <2>5, <2>7 DEF GInv, Plain, Counters, driver
<1>5. FailureIsCounted'
  <2>1. \A r : Bad(r)' <=> Bad(r)
    BY <1>1 DEF Bad
  <2>2. (\E x \in exits' : Bad(x[2])') <=> Bad(e) \/ \E x \in exits : Bad(x[2])
    BY <1>1, <1>11, <2>1, Zenon
  <2>3. FailureIsCounted' <=> (ret_code' = 1 <=> vanished' \/ \E x \in exits' : Bad(x[2])')
    BY <1>1 DEF FailureIsCounted
  <2>4. ret_code = 1 <=> vanished \/ \E x \in exits : Bad(x[2])
    BY <1>1 DEF GInv, FailureIsCounted
  <2>5. ret_code' = 1 <=> Bad(e) \/ ret_code = 1
    BY <1>10
  <2>6. vanished' <=> vanished
    BY <1>1, Zenon
  <2> QED BY <2>2, <2>3, <2>4, <2>5, <2>6, Zenon
<1>6. SpoiledIsKnown' /\ PassIsUnspoiled'
  <2>1. Counting' /\ spoiled' => ret_code' = 1
    <3>1. Counting /\ e # 0 => Bad(e)
      BY DEF Counting, Bad, allow_shell_rc
    <3>2. Counting /\ spoiled => ret_code = 1
      BY DEF GInv, SpoiledIsKnown
    <3> QED BY <1>1, <1>10, <1>2, <3>1, <3>2 DEF Counting
  <2>2. dat' \notin {"boot", "wait"} /\ reached' # {}
    BY <1>1 DEF CallPoints
  <2> QED BY <2>1, <2>2 DEF SpoiledIsKnown, PassIsUnspoiled
<1>7. StopIsKnown'
  <2> SUFFICES ASSUME dat = "stop_check"
               PROVE  /\ shell_rc' = 2 <=> \E q \in PlugIn : <<q, 2>> \in exits'
                      /\ shell_rc' # 0 => packages' = {}
    BY <1>1 DEF StopIsKnown, stop_test_rc
  <2>1. \A q \in PlugIn : <<q, 2>> \notin exits
    <3>1. shell_rc = 0
      BY <1>1 DEF GInv, StopIsKnown
    <3>2. 0 # 2
      OBVIOUS
    <3> QED BY <3>1, <3>2, Zenon DEF GInv, StopIsKnown, stop_test_rc
  <2>2. <<p, e>> = <<p, 2>> <=> e = 2
    OBVIOUS
  <2>3. (\E q \in PlugIn : <<q, 2>> \in exits') <=> e = 2
    BY <1>1, <2>1, <2>2
  <2> QED BY <1>1, <1>10, <2>3 DEF stop_on_non_zero_rc
<1>8. NoneIsSkipped'
  BY <1>1, <1>10 DEF GInv, NoneIsSkipped, stop_on_plug_in_failure, stop_on_non_zero_rc
<1>9. SetupIsKnown' /\ CleanupFollows'
  BY <1>1 DEF GInv, SetupIsKnown, CleanupFollows, driver, CallPoints
<1> QED BY <1>3, <1>4, <1>5, <1>6, <1>7, <1>8, <1>9 DEF GInv

(* A package without a program for the call point, and one that is gone.   *)
LEMMA NoPgmKeeps == ASSUME GInv, NEW p \in PlugIn, NoPgm(p) PROVE GInv'
<1> USE DEF GInv
<1>1. Flags' /\ Plain'
  BY DEF NoPgm, Flags, Plain, Counters, driver
<1>2. FailureIsCounted'
  BY DEF NoPgm, FailureIsCounted, Bad, allow_shell_rc
<1>3. SpoiledIsKnown' /\ PassIsUnspoiled' /\ StopIsKnown'
  BY DEF NoPgm, SpoiledIsKnown, PassIsUnspoiled, StopIsKnown, Counting, driver
<1>4. NoneIsSkipped' /\ SetupIsKnown' /\ CleanupFollows'
  BY DEF NoPgm, NoneIsSkipped, SetupIsKnown, CleanupFollows, CallPoints, driver
<1> QED BY <1>1, <1>2, <1>3, <1>4

LEMMA VanishedKeeps == ASSUME GInv, Vanished PROVE GInv'
<1> USE DEF GInv
<1>1. /\ dat \in CallPoints /\ packages = PlugIn /\ PlugIn # {}
      /\ packages' = {} /\ ret_code' = 1
      /\ UNCHANGED <<dat, driver, shell_rc, failed_plug_in_name, reached, exits, set_up, cleaned>>
  BY DEF Vanished
<1>2. vanished' /\ spoiled' /\ vanished' \in BOOLEAN /\ spoiled' \in BOOLEAN
  BY Zenon DEF Vanished
<1>3. Flags'
  BY <1>1, <1>2 DEF Flags, driver
<1>7. Plain'
  <2>1. ret_code' \in 0..1 /\ packages' \subseteq PlugIn /\ reached' \subseteq PlugIn \ packages'
    <3>1. reached \subseteq PlugIn \ packages
      BY DEF Plain
    <3> QED BY <1>1, <3>1
  <2> QED BY <1>1, <2>1 DEF Plain, Counters, driver
<1>4. FailureIsCounted'
  BY <1>1, <1>2 DEF FailureIsCounted
<1>5. SpoiledIsKnown' /\ PassIsUnspoiled' /\ StopIsKnown'
  <2>1. dat = "stop_check" => shell_rc = 0
    BY <1>1 DEF StopIsKnown
  <2>2. dat \notin {"boot", "wait"}
    BY <1>1 DEF CallPoints
  <2> QED BY <1>1, <1>2, <2>1, <2>2 DEF SpoiledIsKnown, PassIsUnspoiled, StopIsKnown, Counting, driver
<1>6. NoneIsSkipped' /\ SetupIsKnown' /\ CleanupFollows'
  BY <1>1, <1>2 DEF NoneIsSkipped, SetupIsKnown, CleanupFollows, CallPoints, driver
<1> QED BY <1>3, <1>4, <1>5, <1>6, <1>7

-----------------------------------------------------------------------------
(* A call point begins; and the driver is between two of them.             *)
LEMMA ProcessKeeps ==
  ASSUME GInv, NEW cp \in CallPoints, Process(cp),
         Flags', Counters',
         cp \in {"pre_boot", "post_reboot", "post_boot"} => ~spoiled',
         cp = "post_test_case" /\ boot_status' = "PASS" => ~spoiled',
         set_up' => cp_setup_called',
         cp = "cleanup" => cleaned'
  PROVE  GInv'
<1>1. /\ dat' = cp /\ packages' = PlugIn
      /\ ret_code' = 0 /\ shell_rc' = 0
      /\ reached' = {} /\ exits' = {}
  BY Zenon DEF Process
<1>2. ~vanished' /\ failed_plug_in_name' = ""
  BY Zenon DEF Process
<1>0. \A x : x \notin exits'
  BY <1>1, Zenon
<1>3. Plain'
  <2>1. packages' \subseteq PlugIn /\ reached' \subseteq PlugIn \ packages' /\ exits' \subseteq PlugIn \X (0..2)
    BY <1>1, <1>0, Zenon
  <2>2. dat' \in CallPoints /\ ret_code' \in 0..1 /\ shell_rc' \in 0..2
    BY <1>1
  <2> QED BY <1>1, <1>2, <2>1, <2>2, Zenon DEF Plain
<1>4. FailureIsCounted'
  <2>1. ret_code' # 1
    BY <1>1
  <2> QED BY <1>0, <1>2, <2>1, Zenon DEF FailureIsCounted
<1>5. SpoiledIsKnown' /\ PassIsUnspoiled'
  BY <1>1 DEF SpoiledIsKnown, PassIsUnspoiled, Counting, CallPoints
<1>6. StopIsKnown'
  <2>1. shell_rc' # 2 /\ (shell_rc' = 0)
    BY <1>1
  <2> QED BY <1>0, <2>1, Zenon DEF StopIsKnown, stop_test_rc
<1>7. NoneIsSkipped' /\ SetupIsKnown' /\ CleanupFollows'
  BY <1>1 DEF NoneIsSkipped, SetupIsKnown, CleanupFollows, CallPoints
<1> QED BY <1>3, <1>4, <1>5, <1>6, <1>7 DEF GInv

LEMMA GoesKeeps ==
  ASSUME GInv, NEW to \in {"out", "loop", "boot", "wait", "teardown"}, Goes(to),
         Flags', Counters',
         to \in {"boot", "wait"} => ~spoiled',
         set_up' => cp_setup_called',
         to = "out" /\ set_up' => cleaned'
  PROVE  GInv'
<1>1. dat' = to /\ UNCHANGED <<packages, ret_code, shell_rc, failed_plug_in_name, reached, exits>>
  BY DEF Goes, process
<1>2. Plain'
  BY <1>1 DEF GInv, Plain
<1>3. FailureIsCounted' /\ SpoiledIsKnown' /\ PassIsUnspoiled'
  BY <1>1 DEF FailureIsCounted, SpoiledIsKnown, PassIsUnspoiled, Counting, CallPoints
<1>4. StopIsKnown' /\ NoneIsSkipped' /\ SetupIsKnown' /\ CleanupFollows'
  BY <1>1 DEF StopIsKnown, NoneIsSkipped, SetupIsKnown, CleanupFollows
<1> QED BY <1>2, <1>3, <1>4 DEF GInv

(* What the driver leaves alone keeps its type.                            *)
LEMMA DriverKept == ASSUME GInv, UNCHANGED driver PROVE
  /\ Counters'
  /\ cp_setup_called' = cp_setup_called /\ boot_status' = boot_status
  /\ cp_setup_called' \in BOOLEAN /\ boot_success' \in BOOLEAN /\ stopped' \in BOOLEAN
<1>1. UNCHANGED <<tests, boots, cp_setup_called, boot_status, boot_success, stopped>>
  BY DEF driver
<1> QED BY <1>1 DEF GInv, Flags, Plain, Counters

(* A boot has its verdict: it passes only if nothing failed on its way.    *)
LEMMA VerdictKeeps ==
  ASSUME GInv, NEW status \in {"PASS", "FAIL"}, BootIs(status), status = "PASS" => ~spoiled
  PROVE  GInv'
<1>1. /\ boot_status' = status /\ Process("post_test_case")
      /\ UNCHANGED <<tests, boots, cp_setup_called, stopped, set_up, cleaned, spoiled>>
  BY DEF BootIs
<1>2. boot_success' \in BOOLEAN /\ vanished' \in BOOLEAN
  BY Zenon DEF BootIs, Process
<1>3. Flags' /\ Counters'
  BY <1>1, <1>2 DEF GInv, Flags, Plain, Counters
<1> QED BY <1>1, <1>3, ProcessKeeps DEF GInv, SetupIsKnown, CallPoints

(* A call point begins, or the driver goes on, and nothing else is touched.*)
LEMMA QuietFlags ==
  ASSUME GInv, UNCHANGED <<driver, set_up, cleaned, spoiled>>, vanished' \in BOOLEAN
  PROVE  Flags' /\ Counters' /\ (set_up' => cp_setup_called')
BY DriverKept DEF GInv, Flags, SetupIsKnown

LEMMA QuietProcess ==
  ASSUME GInv, UNCHANGED <<driver, set_up, cleaned, spoiled>>,
         NEW cp \in CallPoints \ {"post_test_case", "cleanup"}, Process(cp),
         cp \in {"pre_boot", "post_reboot", "post_boot"} => ~spoiled
  PROVE  GInv'
<1>1. vanished' \in BOOLEAN
  BY Zenon DEF Process
<1>2. cp # "post_test_case" /\ cp # "cleanup"
  OBVIOUS
<1> QED BY <1>1, <1>2, QuietFlags, ProcessKeeps

LEMMA QuietGoes ==
  ASSUME GInv, UNCHANGED <<driver, set_up, cleaned, spoiled>>,
         NEW to \in {"out", "loop", "boot", "wait", "teardown"}, Goes(to),
         to \in {"boot", "wait"} => ~spoiled,
         to = "out" /\ set_up => cleaned
  PROVE  GInv'
<1>1. vanished' \in BOOLEAN
  BY Zenon DEF Goes, GInv, Flags
<1> QED BY <1>1, QuietFlags, GoesKeeps

LEMMA BoundsAreNat == MaxTests \in Nat /\ MaxBoots \in Nat
BY PlugInAssumption, Zenon

LEMMA DriverKeeps == ASSUME GInv, Driver PROVE GInv'
<1>0. /\ Counting /\ ret_code = 0 => ~spoiled
      /\ dat \in {"boot", "wait"} => ~spoiled
  BY DEF GInv, SpoiledIsKnown
<1>16. Counters
  BY Zenon DEF GInv, Plain
<1>1. CASE BeginTest
  <2>1. /\ Process("setup") /\ tests < MaxTests /\ tests' = tests + 1 /\ boots' = 0
        /\ UNCHANGED <<cp_setup_called, boot_status, boot_success, spoiled>>
    BY <1>1 DEF BeginTest
  <2>2. ~set_up' /\ Flags'
    BY <1>1, Zenon DEF BeginTest, Process, GInv, Flags
  <2>3. Counters'
    BY <1>16, <2>1, BoundsAreNat DEF Counters
  <2> QED BY <2>1, <2>2, <2>3, ProcessKeeps DEF CallPoints
<1>2. CASE SetupReturns
  <2>1. PICK to \in {"loop", "teardown"} : Goes(to)
    BY <1>2 DEF SetupReturns
  <2>2. /\ UNCHANGED <<tests, boots, boot_status, boot_success, stopped, cleaned, spoiled>>
        /\ set_up' => cp_setup_called'
    BY <1>2 DEF SetupReturns
  <2>3. vanished' = vanished
    BY <2>1 DEF Goes
  <2>4. cp_setup_called' \in BOOLEAN /\ set_up' \in BOOLEAN
    BY <1>2, Zenon DEF SetupReturns
  <2>5. Flags' /\ Counters'
    BY <2>2, <2>3, <2>4 DEF GInv, Flags, Plain, Counters
  <2> QED BY <2>1, <2>2, <2>5, GoesKeeps
<1>3. CASE BeginBoot
  <2>1. /\ Process("pre_boot") /\ boots < MaxBoots /\ boots' = boots + 1
        /\ UNCHANGED <<tests, cp_setup_called, boot_status, boot_success, stopped, set_up, cleaned>>
    BY <1>3 DEF BeginBoot
  <2>2. ~spoiled' /\ vanished' \in BOOLEAN /\ spoiled' \in BOOLEAN
    BY <1>3, Zenon DEF BeginBoot, Process
  <2>3. Flags' /\ Counters'
    BY <1>16, <2>1, <2>2, BoundsAreNat DEF GInv, Flags, Counters
  <2> QED BY <2>1, <2>2, <2>3, ProcessKeeps DEF GInv, SetupIsKnown, CallPoints
<1>4. CASE PreBootReturns
  BY <1>0, <1>4, VerdictKeeps, QuietProcess, QuietGoes DEF PreBootReturns, Returns, Counting
<1>5. CASE Boot
  BY <1>0, <1>5, VerdictKeeps, QuietProcess, QuietGoes DEF Boot, CallPoints
<1>6. CASE PostRebootReturns
  BY <1>0, <1>6, VerdictKeeps, QuietProcess, QuietGoes DEF PostRebootReturns, Returns, Counting
<1>7. CASE WaitForEnd
  BY <1>0, <1>7, VerdictKeeps, QuietProcess, QuietGoes DEF WaitForEnd, CallPoints
<1>8. CASE PostBootReturns
  BY <1>0, <1>8, VerdictKeeps DEF PostBootReturns, Returns, Counting
<1>9. CASE PostTestCaseReturns
  BY <1>9, QuietProcess, QuietGoes DEF PostTestCaseReturns, CallPoints
<1>10. CASE StopCheckReturns
  <2>1. PICK to \in {"loop", "teardown"} : Goes(to)
    BY <1>10, Zenon DEF StopCheckReturns
  <2>2. UNCHANGED <<tests, boots, cp_setup_called, boot_status, boot_success, set_up, cleaned,
                    spoiled>>
    BY <1>10 DEF StopCheckReturns
  <2>3. vanished' = vanished
    BY <2>1 DEF Goes
  <2>4. stopped' \in BOOLEAN
    BY <1>10, Zenon DEF StopCheckReturns
  <2>5. Flags' /\ Counters'
    BY <2>2, <2>3, <2>4 DEF GInv, Flags, Plain, Counters
  <2> QED BY <2>1, <2>2, <2>5, GoesKeeps DEF GInv, SetupIsKnown
<1>11. CASE BeginPostStack
  <2>1. /\ Process("post_stack")
        /\ UNCHANGED <<tests, boots, cp_setup_called, boot_status, stopped, set_up, cleaned>>
    BY <1>11 DEF BeginPostStack
  <2>2. vanished' \in BOOLEAN /\ spoiled' \in BOOLEAN /\ boot_success' \in BOOLEAN
    BY <1>11, Zenon DEF BeginPostStack, Process
  <2>3. Flags' /\ Counters'
    BY <2>1, <2>2 DEF GInv, Flags, Plain, Counters
  <2> QED BY <2>1, <2>3, ProcessKeeps DEF GInv, SetupIsKnown, CallPoints
<1>12. CASE PostStackReturns
  <2>1. /\ Process("stop_check")
        /\ UNCHANGED <<tests, boots, cp_setup_called, boot_status, stopped, set_up, cleaned, spoiled>>
    BY <1>12 DEF PostStackReturns
  <2>2. vanished' \in BOOLEAN /\ boot_success' \in BOOLEAN
    BY <1>12, Zenon DEF PostStackReturns, Process
  <2>3. Flags' /\ Counters'
    BY <2>1, <2>2 DEF GInv, Flags, Plain, Counters
  <2> QED BY <2>1, <2>3, ProcessKeeps DEF GInv, SetupIsKnown, CallPoints
<1>13. CASE TestEnds
  BY <1>13, QuietProcess, QuietGoes DEF TestEnds
<1>14. CASE Teardown
  <2>1. CASE cp_setup_called
    <3>1. Process("cleanup") /\ UNCHANGED <<driver, set_up, spoiled>>
      BY <1>14, <2>1 DEF Teardown
    <3>2. cleaned' /\ cleaned' \in BOOLEAN /\ vanished' \in BOOLEAN
      BY <1>14, <2>1, Zenon DEF Teardown, Process
    <3>3. Flags' /\ Counters'
      BY <3>1, <3>2, DriverKept DEF GInv, Flags
    <3>4. cp_setup_called'
      BY <2>1, <3>1, DriverKept
    <3> QED BY <3>1, <3>2, <3>3, <3>4, ProcessKeeps DEF CallPoints
  <2>2. CASE ~cp_setup_called
    <3>1. ~set_up
      BY <2>2 DEF GInv, SetupIsKnown
    <3> QED BY <1>14, <2>2, <3>1, QuietProcess, QuietGoes DEF Teardown
  <2> QED BY <2>1, <2>2
<1>15. CASE CleanupReturns
  BY <1>15, QuietProcess, QuietGoes DEF CleanupReturns, Returns, GInv, SetupIsKnown
<1> QED BY <1>1, <1>2, <1>3, <1>4, <1>5, <1>6, <1>7, <1>8, <1>9, <1>10, <1>11, <1>12,
           <1>13, <1>14, <1>15 DEF Driver

-----------------------------------------------------------------------------
LEMMA AlwaysGInv == GSpec => []GInv
<1>1. GInit => GInv
  <2> SUFFICES ASSUME GInit PROVE GInv
    OBVIOUS
  <2>1. Flags /\ ~vanished /\ ~spoiled /\ ~set_up /\ failed_plug_in_name = ""
    BY Zenon DEF GInit, Flags
  <2>2. /\ dat = "out" /\ tests = 0 /\ boots = 0 /\ boot_status = "none"
        /\ packages = {} /\ ret_code = 0 /\ shell_rc = 0 /\ reached = {} /\ exits = {}
    BY Zenon DEF GInit
  <2>3. Counters
    BY <2>2, BoundsAreNat DEF Counters
  <2>4. Plain
    <3>1. ret_code \in 0..1 /\ shell_rc \in 0..2 /\ packages \subseteq PlugIn
          /\ reached \subseteq PlugIn \ packages /\ exits \subseteq PlugIn \X (0..2)
          /\ dat \in {"out", "loop", "boot", "wait", "teardown"}
      BY <2>2
    <3> QED BY <2>1, <2>3, <3>1, Zenon DEF Plain
  <2>5. FailureIsCounted /\ SpoiledIsKnown /\ PassIsUnspoiled /\ StopIsKnown /\ NoneIsSkipped
        /\ SetupIsKnown /\ CleanupFollows
    BY <2>1, <2>2 DEF FailureIsCounted, SpoiledIsKnown, PassIsUnspoiled, StopIsKnown,
       NoneIsSkipped, SetupIsKnown, CleanupFollows, Counting, CallPoints
  <2> QED BY <2>1, <2>4, <2>5 DEF GInv
<1>2. GInv /\ [GNext]_gvars => GInv'
  <2> SUFFICES ASSUME GInv, [GNext]_gvars PROVE GInv'
    OBVIOUS
  <2>1. CASE UNCHANGED gvars
    <3>1. UNCHANGED <<dat, tests, boots, cp_setup_called, boot_status, boot_success, stopped,
                      packages, ret_code, shell_rc, failed_plug_in_name, reached, exits,
                      vanished, set_up, cleaned, spoiled>>
      BY <2>1 DEF gvars, driver, process, story
    <3>2. Flags' /\ Counters'
      <4>1. Counters
        BY Zenon DEF GInv, Plain
      <4> QED BY <3>1, <4>1 DEF GInv, Flags, Counters
    <3>6. Plain'
      <4>1. Plain
        BY Zenon DEF GInv
      <4>2. Plain' <=> Plain
        BY <3>1 DEF Plain, Counters
      <4> QED BY <4>1, <4>2, Zenon
    <3>3. FailureIsCounted'
      BY <3>1 DEF GInv, FailureIsCounted, Bad, allow_shell_rc
    <3>4. SpoiledIsKnown' /\ PassIsUnspoiled' /\ StopIsKnown'
      BY <3>1 DEF GInv, SpoiledIsKnown, PassIsUnspoiled, StopIsKnown, Counting
    <3>5. NoneIsSkipped' /\ SetupIsKnown' /\ CleanupFollows'
      BY <3>1 DEF GInv, NoneIsSkipped, SetupIsKnown, CleanupFollows
    <3> QED BY <3>2, <3>3, <3>4, <3>5, <3>6 DEF GInv
  <2>2. GNext => (\E p \in PlugIn : NoPgm(p) \/ \E e \in 0..2 : RunPgm(p, e)) \/ Vanished \/ Driver
    BY Zenon DEF GNext, Driver
  <2> QED BY <2>1, <2>2, RunKeeps, NoPgmKeeps, VanishedKeeps, DriverKeeps
<1> QED BY <1>1, <1>2, PTL DEF GSpec

(* The failure of one of several plug-ins is not lost, spoils the boot it  *)
(* belongs to and no other, and keeps no package from what tidies up, for  *)
(* any packages in whatever order they come.                               *)
THEOREM NoFailureIsLost == GSpec => []FailuresAreHandled
<1>1. GInv => FailuresAreHandled
  <2> SUFFICES ASSUME GInv PROVE FailuresAreHandled
    OBVIOUS
  <2>1. GTypeOK
    BY Zenon DEF GInv, Flags, Plain, Counters, GTypeOK
  <2>2. AllAreReached
    BY DEF GInv, NoneIsSkipped, Plain, AllAreReached, Returns
  <2> QED BY <2>1, <2>2 DEF GInv, FailuresAreHandled
<1> QED BY <1>1, AlwaysGInv, PTL

(* After stop_check the test is stopped exactly if one of the programs     *)
(* that ran asked for it by exiting with 2.                                *)
THEOREM StopIsNotMissed == GSpec => StopIsHeard
<1>1. GInv /\ [GNext]_gvars =>
        [StopCheckReturns => (stopped' <=> \E p \in PlugIn : <<p, stop_test_rc>> \in exits)]_gvars
  BY DEF GInv, StopIsKnown, StopCheckReturns, Returns
<1> QED BY <1>1, AlwaysGInv, PTL DEF GSpec, StopIsHeard

-----------------------------------------------------------------------------
(* The selection of packages.                                              *)
Names == { <<n>> : n \in Package }

-----------------------------------------------------------------------------
(* A path, the name of a package and a refusal are never mistaken for each *)
(* other.                                                                  *)
LEMMA Shapes ==
  /\ \A p \in Path : p = <<p[1], p[2]>> /\ p[1] \in 1..Base /\ p[2] \in Package
  /\ \A p \in Path : p # <<"refused">> /\ p \notin Names
  /\ \A n \in Package : <<n>> # <<"refused">> /\ <<n>>[1] = n
  /\ \A p \in Path : ~NameOnly(p)
  /\ \A n \in Package : NameOnly(<<n>>)
<1>1. \A p \in Path : p = <<p[1], p[2]>> /\ p[1] \in 1..Base /\ p[2] \in Package
  BY DEF Path
<1>2. \A n : Len(<<n>>) = 1
  OBVIOUS
<1>3. \A p \in Path : Len(p) = 2
  BY DEF Path
<1>4. \A p \in Path : p # <<"refused">> /\ p \notin Names
  BY <1>2, <1>3 DEF Names
<1>5. \A n \in Package : <<n>>[1] = n /\ n # "refused"
  BY PackageAssumption
<1>6. \A n \in Package : <<n>> # <<"refused">>
  BY <1>5
<1> QED BY <1>1, <1>4, <1>5, <1>6 DEF NameOnly, Names

(* find_plug_in_package finds the first directory of a name, if there is   *)
(* one, and no other.                                                      *)
LEMMA FindsFirst ==
  ASSUME NEW n \in Package
  PROVE  /\ find_plug_in_package(n) = First(disk, n)
         /\ \A p, q \in find_plug_in_package(n) : p = q
<1>1. ASSUME NEW p \in Path, NEW q \in Path, p \in First(disk, n), q \in First(disk, n) PROVE p = q
  <2>1. ~(q[1] < p[1]) /\ ~(p[1] < q[1]) /\ p[2] = q[2]
    BY <1>1 DEF First
  <2>2. p[1] \in Int /\ q[1] \in Int
    BY Shapes, PackageAssumption
  <2> QED BY <2>1, <2>2, Shapes
<1>2. ASSUME NEW p \in find_plug_in_package(n) PROVE p \in First(disk, n)
  <2>1. PICK b \in 1..Base : /\ p = <<b, n>> /\ disk[<<b, n>>] # "absent"
                             /\ \A d \in 1..(b - 1) : disk[<<d, n>>] = "absent"
    BY <1>2 DEF find_plug_in_package
  <2>2. p \in Path /\ p[1] = b /\ p[2] = n
    BY <2>1 DEF Path
  <2>3. ASSUME NEW q \in Path, q[2] = n, q[1] < p[1] PROVE disk[q] = "absent"
    <3>1. q[1] \in 1..(b - 1) /\ q = <<q[1], n>>
      BY <2>2, <2>3, Shapes, PackageAssumption
    <3> QED BY <2>1, <3>1
  <2> QED BY <2>1, <2>2, <2>3 DEF First
<1>3. ASSUME NEW p \in First(disk, n) PROVE p \in find_plug_in_package(n)
  <2>1. /\ p \in Path /\ p[2] = n /\ disk[p] # "absent"
        /\ \A q \in Path : (q[2] = n /\ q[1] < p[1]) => disk[q] = "absent"
    BY <1>3 DEF First
  <2>2. p[1] \in 1..Base /\ p = <<p[1], n>>
    BY <2>1, Shapes
  <2>3. ASSUME NEW d \in 1..(p[1] - 1) PROVE disk[<<d, n>>] = "absent"
    <3>1. <<d, n>> \in Path /\ <<d, n>>[1] = d /\ <<d, n>>[2] = n /\ d < p[1]
      BY <2>2, PackageAssumption DEF Path
    <3> QED BY <2>1, <3>1
  <2> QED BY <2>1, <2>2, <2>3 DEF find_plug_in_package
<1>4. find_plug_in_package(n) = First(disk, n)
  BY <1>2, <1>3
<1> QED BY <1>1, <1>4 DEF First

(* What validating an entry comes to.                                      *)
LEMMA Validated ==
  /\ \A p \in Path : validate_plug_in_package(p) =
       IF disk[p] \in {"absent", "other"} THEN Refused ELSE {p}
  /\ \A n \in Package : validate_plug_in_package(<<n>>) =
       IF \E p \in First(disk, n) : disk[p] # "other" THEN First(disk, n) ELSE Refused
<1>1. ASSUME NEW p \in Path
      PROVE  validate_plug_in_package(p) =
               IF disk[p] \in {"absent", "other"} THEN Refused ELSE {p}
  <2>1. ~NameOnly(p)
    BY Shapes
  <2>2. CASE disk[p] = "absent"
    <3>1. {q \in {p} : disk[q] # "absent"} = {}
      BY <2>2
    <3> QED BY <2>1, <2>2, <3>1 DEF validate_plug_in_package
  <2>3. CASE disk[p] # "absent"
    <3>1. {q \in {p} : disk[q] # "absent"} = {p}
      BY <2>3
    <3> QED BY <2>1, <2>3, <3>1 DEF validate_plug_in_package
  <2> QED BY <2>2, <2>3
<1>2. ASSUME NEW n \in Package
      PROVE  validate_plug_in_package(<<n>>) =
               IF \E p \in First(disk, n) : disk[p] # "other" THEN First(disk, n) ELSE Refused
  <2>1. NameOnly(<<n>>) /\ <<n>>[1] = n
    BY Shapes
  <2> QED BY <2>1, FindsFirst DEF validate_plug_in_package
<1> QED BY <1>1, <1>2

(* So it yields directories that support the class of machine, or Refused. *)
Entries(E) == E \cup return_integrated_plug_ins
Good(p) == p \in Path /\ disk[p] \notin {"absent", "other"}

LEMMA ValidatedIsGood ==
  ASSUME NEW e \in Names \cup Path
  PROVE  \/ validate_plug_in_package(e) = Refused
         \/ /\ \A p \in validate_plug_in_package(e) : Good(p)
            /\ <<"refused">> \notin validate_plug_in_package(e)
<1>1. CASE e \in Path
  BY <1>1, Validated, Shapes DEF Good
<1>2. CASE e \in Names
  <2>1. PICK n \in Package : e = <<n>>
    BY <1>2 DEF Names
  <2>2. CASE \E p \in First(disk, n) : disk[p] # "other"
    <3>1. \A p, q \in First(disk, n) : p = q
      BY FindsFirst
    <3>2. \A p \in First(disk, n) : Good(p)
      BY <2>2, <3>1 DEF First, Good
    <3>3. \A p \in First(disk, n) : p # <<"refused">>
      BY Shapes DEF First
    <3> QED BY <2>1, <2>2, <3>2, <3>3, Validated
  <2>3. CASE ~\E p \in First(disk, n) : disk[p] # "other"
    BY <2>1, <2>3, Validated
  <2> QED BY <2>2, <2>3
<1> QED BY <1>1, <1>2

(* A selection that is not refused is made of what its entries yield.      *)
LEMMA Selected ==
  ASSUME NEW E \in SUBSET (Names \cup Path), return_plug_in_packages_list(E) # Refused
  PROVE  LET S == return_plug_in_packages_list(E)
         IN /\ \A p \in S : Good(p) /\ p # <<"refused">>
            /\ \A e \in Entries(E) : /\ validate_plug_in_package(e) # Refused
                                     /\ validate_plug_in_package(e) \subseteq S
            /\ \A p \in S : \E e \in Entries(E) : p \in validate_plug_in_package(e)
<1> DEFINE all == UNION { validate_plug_in_package(e) : e \in Entries(E) }
<1>1. <<"refused">> \notin all /\ return_plug_in_packages_list(E) = all
  BY DEF return_plug_in_packages_list, Entries, Refused
<1>2. Entries(E) \subseteq Names \cup Path
  BY Shapes DEF Entries, return_integrated_plug_ins, Names
<1>3. \A p : p \in all <=> \E e \in Entries(E) : p \in validate_plug_in_package(e)
  OBVIOUS
<1> HIDE DEF all
<1>4. ASSUME NEW e \in Entries(E)
      PROVE  validate_plug_in_package(e) # Refused /\ validate_plug_in_package(e) \subseteq all
  BY <1>1, <1>3 DEF Refused
<1>5. ASSUME NEW p \in all PROVE Good(p) /\ p # <<"refused">>
  BY <1>1, <1>2, <1>3, <1>4, ValidatedIsGood
<1> QED BY <1>1, <1>3, <1>4, <1>5

(* One that is refused is so because of one of its entries.                *)
LEMMA WhyRefused ==
  ASSUME NEW E \in SUBSET (Names \cup Path), return_plug_in_packages_list(E) = Refused
  PROVE  \E e \in Entries(E) : validate_plug_in_package(e) = Refused
<1> DEFINE all == UNION { validate_plug_in_package(e) : e \in Entries(E) }
<1>1. <<"refused">> \in all
  BY DEF return_plug_in_packages_list, Entries, Refused
<1>2. PICK e \in Entries(E) : <<"refused">> \in validate_plug_in_package(e)
  BY <1>1
<1>3. e \in Names \cup Path
  BY Shapes DEF Entries, return_integrated_plug_ins, Names
<1> QED BY <1>2, <1>3, ValidatedIsGood

-----------------------------------------------------------------------------
(* What one selection S comes to, from entries E and with directories d.   *)
(* Opaque names keep the quantifiers out of the steps that only combine.   *)
Wanted(d, E, n) == <<n>> \in E \/ Integrated(d, n)
Sound(d, E, S) ==
  /\ S # Refused =>
       /\ \A p \in S : p \in Path /\ d[p] \notin {"absent", "other"}
       /\ E \cap Path \subseteq S
       /\ \A n \in Package : Wanted(d, E, n) => First(d, n) # {} /\ First(d, n) \subseteq S
       /\ \A p \in S : p \in E \/ (Wanted(d, E, p[2]) /\ p \in First(d, p[2]))
  /\ S = Refused => HasCause(d, E)

LEMMA IntegratedEntry ==
  ASSUME NEW n \in Package, Integrated(disk, n)
  PROVE  <<n>> \in return_integrated_plug_ins
BY DEF return_integrated_plug_ins, Integrated

LEMMA EntryIs ==
  ASSUME NEW E \in SUBSET (Names \cup Path), NEW e \in Entries(E)
  PROVE  \/ e \in Path /\ e \in E
         \/ \E n \in Package : e = <<n>> /\ Wanted(disk, E, n)
<1>1. CASE e \in E
  BY <1>1 DEF Names, Wanted
<1>2. CASE e \in return_integrated_plug_ins
  BY <1>2, Shapes DEF return_integrated_plug_ins, Wanted, Integrated
<1> QED BY <1>1, <1>2 DEF Entries

LEMMA SelectionIsSound ==
  ASSUME NEW E \in SUBSET (Names \cup Path)
  PROVE  Sound(disk, E, return_plug_in_packages_list(E))
<1> DEFINE S == return_plug_in_packages_list(E)
<1>1. ASSUME S # Refused
      PROVE  /\ \A p \in S : p \in Path /\ disk[p] \notin {"absent", "other"}
             /\ E \cap Path \subseteq S
             /\ \A n \in Package : Wanted(disk, E, n) => First(disk, n) # {} /\ First(disk, n) \subseteq S
             /\ \A p \in S : p \in E \/ (Wanted(disk, E, p[2]) /\ p \in First(disk, p[2]))
  <2>0. /\ \A p \in S : Good(p) /\ p # <<"refused">>
        /\ \A e \in Entries(E) : /\ validate_plug_in_package(e) # Refused
                                 /\ validate_plug_in_package(e) \subseteq S
        /\ \A p \in S : \E e \in Entries(E) : p \in validate_plug_in_package(e)
    BY <1>1, Selected
  <2> HIDE DEF S
  <2>1. \A p \in S : p \in Path /\ disk[p] \notin {"absent", "other"}
    BY <2>0 DEF Good
  <2>2. E \cap Path \subseteq S
    BY <2>0, Validated DEF Entries
  <2>3. ASSUME NEW n \in Package, Wanted(disk, E, n)
        PROVE  First(disk, n) # {} /\ First(disk, n) \subseteq S
    <3>1. <<n>> \in Entries(E)
      BY <2>3, IntegratedEntry DEF Entries, Wanted
    <3> QED BY <2>0, <3>1, Validated
  <2>4. ASSUME NEW r \in S PROVE r \in E \/ (Wanted(disk, E, r[2]) /\ r \in First(disk, r[2]))
    <3>1. PICK e \in Entries(E) : r \in validate_plug_in_package(e)
      BY <2>0
    <3>2. validate_plug_in_package(e) # Refused
      BY <2>0
    <3>3. CASE e \in Path /\ e \in E
      BY <3>1, <3>2, <3>3, Validated
    <3>4. ASSUME NEW n \in Package, e = <<n>>, Wanted(disk, E, n)
          PROVE  Wanted(disk, E, r[2]) /\ r \in First(disk, r[2])
      <4>1. r \in First(disk, n)
        BY <3>1, <3>2, <3>4, Validated
      <4>2. r[2] = n
        BY <4>1 DEF First
      <4> QED BY <3>4, <4>1, <4>2
    <3> QED BY <3>3, <3>4, EntryIs
  <2> QED BY <2>1, <2>2, <2>3, <2>4
<1>2. ASSUME S = Refused PROVE HasCause(disk, E)
  <2>1. PICK e \in Entries(E) : validate_plug_in_package(e) = Refused
    BY <1>2, WhyRefused
  <2>2. CASE e \in Path /\ e \in E
    <3>1. disk[e] \in {"absent", "other"}
      BY <2>1, <2>2, Validated, Shapes DEF Refused
    <3> QED BY <2>2, <3>1 DEF HasCause
  <2>3. ASSUME NEW n \in Package, e = <<n>>, Wanted(disk, E, n) PROVE HasCause(disk, E)
    <3>1. <<"refused">> \notin First(disk, n)
      BY Shapes DEF First
    <3>2. \A p \in First(disk, n) : disk[p] = "other"
      BY <2>1, <2>3, <3>1, Validated DEF Refused
    <3> QED BY <2>3, <3>2 DEF HasCause, Wanted
  <2> QED BY <2>2, <2>3, EntryIs
<1> QED BY <1>1, <1>2 DEF Sound

(* Both selections are sound, each for the directories it was made on.     *)
PInv ==
  /\ asked \in SUBSET (Names \cup Path) /\ round \in 0..2
  /\ round = 0 => selected = {} /\ was = disk
  /\ round > 0 => Sound(was, asked, before)
  /\ round = 1 => selected = before
  /\ round = 2 => before # Refused /\ Sound(disk, before, selected)

LEMMA AlwaysPInv == PSpec => []PInv
<1>1. PInit => PInv
  BY DEF PInit, PInv, Names
<1>2. PInv /\ [PNext]_pvars => PInv'
  <2> SUFFICES ASSUME PInv, [PNext]_pvars PROVE PInv'
    OBVIOUS
  <2>1. CASE Validate
    <3>1. /\ round = 0 /\ round' = 1 /\ selected' = return_plug_in_packages_list(asked)
          /\ before' = selected' /\ was' = was /\ asked' = asked
      BY <2>1 DEF Validate
    <3>2. asked \in SUBSET (Names \cup Path) /\ was = disk
      BY <3>1 DEF PInv
    <3>3. Sound(was, asked, return_plug_in_packages_list(asked))
      BY <3>2, SelectionIsSound
    <3> HIDE <2>1
    <3>4. Sound(was', asked', before')
      BY <3>1, <3>3
    <3>5. Sound(was, asked, before)'
      BY <3>4 DEF Sound, Wanted, HasCause, First, Integrated
    <3> QED BY <3>1, <3>2, <3>5 DEF PInv
  <2>2. CASE Reselect
    <3>1. /\ round = 1 /\ before # Refused /\ round' = 2
          /\ selected' = return_plug_in_packages_list(before)
          /\ UNCHANGED <<disk, was, asked, before>>
      BY <2>2 DEF Reselect
    <3>2. Sound(was, asked, before)
      BY <3>1 DEF PInv
    <3>3. before \in SUBSET (Names \cup Path)
      BY <3>1, <3>2 DEF Sound
    <3>4. Sound(disk, before, return_plug_in_packages_list(before))
      BY <3>3, SelectionIsSound
    <3> HIDE <2>2
    <3>5. Sound(was', asked', before') /\ Sound(disk', before', selected')
      BY <3>1, <3>2, <3>4
    <3>6. Sound(was, asked, before)'
      BY <3>5 DEF Sound, Wanted, HasCause, First, Integrated
    <3>7. Sound(disk, before, selected)'
      BY <3>5 DEF Sound, Wanted, HasCause, First, Integrated
    <3> QED BY <3>1, <3>6, <3>7 DEF PInv, Refused
  <2>3. ASSUME NEW p \in Path, NEW k \in Kind, PackageChanges(p, k) PROVE PInv'
    <3>1. round = 1 /\ UNCHANGED <<was, asked, selected, round, before>>
      BY <2>3 DEF PackageChanges
    <3>2. Sound(was', asked', before')
      BY <3>1 DEF PInv
    <3>3. Sound(was, asked, before)'
      BY <3>2 DEF Sound, Wanted, HasCause, First, Integrated
    <3> QED BY <3>1, <3>3 DEF PInv
  <2>4. CASE UNCHANGED pvars
    <3>1. UNCHANGED <<disk, was, asked, selected, round, before>>
      BY <2>4 DEF pvars
    <3>2. /\ Sound(was, asked, before)' <=> Sound(was, asked, before)
          /\ Sound(disk, before, selected)' <=> Sound(disk, before, selected)
      BY <3>1 DEF Sound, Wanted, HasCause, First, Integrated
    <3> QED BY <3>1, <3>2 DEF PInv, Refused
  <2> QED BY <2>1, <2>2, <2>3, <2>4 DEF PNext
<1> QED BY <1>1, <1>2, PTL DEF PSpec

-----------------------------------------------------------------------------
(* What follows for a call point from what has and has not changed.        *)
LEMMA OneFirst ==
  ASSUME NEW d, NEW n, NEW p \in First(d, n), NEW q \in First(d, n)
  PROVE  p = q
<1>1. p \in Path /\ q \in Path /\ ~(q[1] < p[1]) /\ ~(p[1] < q[1]) /\ p[2] = q[2]
  BY DEF First
<1>2. p[1] \in Int /\ q[1] \in Int
  BY <1>1, Shapes, PackageAssumption
<1> QED BY <1>1, <1>2, Shapes

LEMMA UnchangedName ==
  ASSUME NEW n, ~Changed(n)
  PROVE  /\ First(was, n) = First(disk, n)
         /\ Integrated(was, n) <=> Integrated(disk, n)
<1>1. \A p \in Path : p[2] = n => disk[p] = was[p]
  BY DEF Changed
<1>2. First(was, n) = First(disk, n)
  BY <1>1 DEF First
<1>3. Integrated(was, n) <=> Integrated(disk, n)
  BY <1>1 DEF Integrated
<1> QED BY <1>2, <1>3

LEMMA PathsAreNoNames == ASSUME NEW E, \A p \in E : p \in Path
                         PROVE  \A n \in Package : <<n>> \notin E
BY Shapes DEF Names

(* What was added is the first of a changed name.                          *)
LEMMA AddedIsChanged ==
  ASSUME PInv, round = 2, NEW p \in selected, selected # Refused, p \notin before
  PROVE  p \in First(disk, p[2]) /\ Integrated(disk, p[2]) /\ Changed(p[2])
<1>1. Sound(was, asked, before) /\ before # Refused /\ Sound(disk, before, selected)
  BY DEF PInv
<1>2. Wanted(disk, before, p[2]) /\ p \in First(disk, p[2]) /\ p \in Path
  BY <1>1 DEF Sound
<1>3. p[2] \in Package
  BY <1>2, Shapes
<1>4. \A q \in before : q \in Path
  BY <1>1 DEF Sound
<1>5. Integrated(disk, p[2])
  BY <1>2, <1>3, <1>4, PathsAreNoNames DEF Wanted
<1>6. ASSUME ~Changed(p[2]) PROVE FALSE
  <2>1. First(was, p[2]) = First(disk, p[2]) /\ Integrated(was, p[2])
    BY <1>5, <1>6, UnchangedName
  <2>2. First(was, p[2]) \subseteq before
    BY <1>1, <1>3, <2>1 DEF Sound, Wanted
  <2> QED BY <1>2, <2>1, <2>2
<1> QED BY <1>2, <1>5, <1>6

(* The packages selected at a call point are those selected when the test  *)
(* began, and what has been integrated by a change since; each once, all   *)
(* that were asked for or are integrated; and a refusal has a cause.  For  *)
(* any directories and changes of them, packages and requests.             *)
THEOREM SelectsExactly == PSpec => []SelectionIsExact
<1>1. ASSUME PInv PROVE SelectionIsExact
  <2>1. /\ round \in {0, 1, 2} /\ Refused # {}
        /\ round > 0 => Sound(was, asked, before)
        /\ round = 1 => selected = before
        /\ round = 2 => before # Refused /\ Sound(disk, before, selected)
        /\ round = 0 => selected = {}
    BY <1>1 DEF PInv, Refused
  <2>2. SelectionFollowsDisk
    <3> SUFFICES ASSUME round = 2 PROVE
          /\ selected # Refused => before \subseteq selected
          /\ selected = Refused => \E n \in Package : Changed(n)
          /\ \A p \in selected \ (before \cup Refused) :
               p \in First(disk, p[2]) /\ Integrated(disk, p[2]) /\ Changed(p[2])
      BY DEF SelectionFollowsDisk
    <3>1. \A p \in before : p \in Path /\ was[p] \notin {"absent", "other"}
      BY <2>1 DEF Sound
    <3>2. selected # Refused => before \subseteq selected
      <4>1. before \cap Path = before
        BY <3>1
      <4> QED BY <2>1, <4>1 DEF Sound
    <3>3. ASSUME selected = Refused PROVE \E n \in Package : Changed(n)
      <4>1. HasCause(disk, before)
        BY <2>1, <3>3 DEF Sound
      <4>2. CASE \E p \in before \cap Path : disk[p] \in {"absent", "other"}
        <5>1. PICK p \in before \cap Path : disk[p] \in {"absent", "other"}
          BY <4>2
        <5>2. p[2] \in Package /\ disk[p] # was[p]
          BY <3>1, <5>1, Shapes
        <5> QED BY <5>1, <5>2 DEF Changed
      <4>3. ASSUME NEW n \in Package, <<n>> \in before \/ Integrated(disk, n),
                   \A p \in First(disk, n) : disk[p] = "other"
            PROVE  Changed(n)
        <5>1. Integrated(disk, n)
          BY <3>1, <4>3, PathsAreNoNames
        <5>2. ASSUME ~Changed(n) PROVE FALSE
          <6>1. First(was, n) = First(disk, n) /\ Integrated(was, n)
            BY <5>1, <5>2, UnchangedName
          <6>2. First(was, n) # {} /\ First(was, n) \subseteq before
            <7>1. Sound(was, asked, before) /\ before # Refused /\ Wanted(was, asked, n)
              BY <2>1, <6>1 DEF Wanted
            <7> QED BY <4>3, <7>1 DEF Sound
          <6>3. PICK p \in First(was, n) : p \in before
            BY <6>2
          <6>4. p \in Path /\ p[2] = n
            BY <6>3 DEF First
          <6>5. disk[p] = was[p]
            BY <5>2, <6>4 DEF Changed
          <6> QED BY <3>1, <4>3, <6>1, <6>3, <6>5
        <5> QED BY <5>2
      <4> QED BY <4>1, <4>2, <4>3 DEF HasCause
    <3>4. ASSUME NEW p \in selected \ (before \cup Refused)
          PROVE  p \in First(disk, p[2]) /\ Integrated(disk, p[2]) /\ Changed(p[2])
      <4>1. selected # Refused
        BY <3>4
      <4> QED BY <1>1, <3>4, <4>1, AddedIsChanged
    <3> QED BY <3>2, <3>3, <3>4
  <2>3. OneOfEachName
    <3> SUFFICES ASSUME selected # Refused, NEW p \in selected, NEW q \in selected,
                        p[2] = q[2], p \notin asked, q \notin asked,
                        ~(round = 2 /\ Changed(p[2]))
                 PROVE  p = q
      BY DEF OneOfEachName
    <3>0. round > 0
      BY <2>1
    <3>1. p \in before /\ q \in before
      <4>1. CASE round = 1
        BY <2>1, <4>1
      <4>2. CASE round = 2
        BY <1>1, <4>2, AddedIsChanged
      <4> QED BY <2>1, <3>0, <4>1, <4>2
    <3>2. before # Refused
      BY <2>1, <3>0
    <3>3. p \in First(was, p[2]) /\ q \in First(was, q[2])
      BY <2>1, <3>0, <3>1, <3>2 DEF Sound
    <3> QED BY <3>3, OneFirst
  <2>4. AllAreSelected
    <3> SUFFICES ASSUME round > 0, selected # Refused PROVE
          /\ asked \cap Path \subseteq selected
          /\ \A n \in Package : <<n>> \in asked \/ Integrated(was, n) =>
               First(was, n) # {} /\ First(was, n) \subseteq selected
          /\ round = 2 => \A n \in Package : Integrated(disk, n) =>
               First(disk, n) # {} /\ First(disk, n) \subseteq selected
      BY DEF AllAreSelected
    <3>1. before # Refused /\ before \subseteq selected
      BY <2>1, <2>2 DEF SelectionFollowsDisk
    <3>2. asked \cap Path \subseteq selected
      BY <2>1, <3>1 DEF Sound
    <3>3. ASSUME NEW n \in Package, <<n>> \in asked \/ Integrated(was, n)
          PROVE  First(was, n) # {} /\ First(was, n) \subseteq selected
      BY <2>1, <3>1, <3>3 DEF Sound, Wanted
    <3>4. ASSUME round = 2, NEW n \in Package, Integrated(disk, n)
          PROVE  First(disk, n) # {} /\ First(disk, n) \subseteq selected
      BY <2>1, <3>4 DEF Sound, Wanted
    <3> QED BY <3>2, <3>3, <3>4
  <2>5. RefusalHasCause
    <3>1. CASE round = 2
      BY <2>1, <3>1 DEF RefusalHasCause, Sound
    <3>2. CASE round = 1
      BY <2>1, <3>2 DEF RefusalHasCause, Sound
    <3>3. CASE round = 0
      BY <2>1, <3>3 DEF RefusalHasCause
    <3> QED BY <2>1, <3>1, <3>2, <3>3
  <2> QED BY <2>2, <2>3, <2>4, <2>5 DEF SelectionIsExact
<1> QED BY <1>1, AlwaysPInv, PTL

-----------------------------------------------------------------------------
(* What plug-ins save.  The values of the model, as far as it matters what *)
(* they are: a text tells its type's values apart.                         *)
StrTexts == {"word", "5", "# 5", " word ", "'word'", "word/5", "it's"}

LEMMA ValuesAre ==
  ASSUME NEW v \in Value
  PROVE  /\ v = [type |-> v.type, text |-> v.text]
         /\ v.type \in {"bool", "int", "str"}
         /\ v.type = "bool" => v.text \in {"True", "False"}
         /\ v.type = "int" => v.text = "5"
         /\ v.type = "str" => v.text \in StrTexts
         /\ v # Nothing
<1>1. \/ \E t \in {"True", "False"} : v = [type |-> "bool", text |-> t]
      \/ \E t \in {"5"} : v = [type |-> "int", text |-> t]
      \/ \E t \in StrTexts : v = [type |-> "str", text |-> t]
  BY Zenon DEF Value, StrTexts
<1>2. \A a, t : [type |-> a, text |-> t].type = a /\ [type |-> a, text |-> t].text = t
  OBVIOUS
<1>3. Nothing.type = "none"
  BY <1>2, Zenon DEF Nothing
<1>4. CASE \E t \in {"True", "False"} : v = [type |-> "bool", text |-> t]
  BY <1>3, <1>4
<1>5. CASE \E t \in {"5"} : v = [type |-> "int", text |-> t]
  BY <1>3, <1>5
<1>6. CASE \E t \in StrTexts : v = [type |-> "str", text |-> t]
  BY <1>3, <1>6
<1> QED BY <1>1, <1>4, <1>5, <1>6

(* What the shell makes of a text is never the name of a missing file, and *)
(* is read back as the text, as the word that is left of it, or not at all.*)
LEMMA TextsAre ==
  ASSUME NEW v \in Value
  PROVE  /\ Echoed(v.text) # "none"
         /\ v.text \in WholeText => ~Unread(Echoed(v.text)) /\ FirstLine(Echoed(v.text)) = v.text
         /\ v.text \in PartText =>
              /\ v.type = "str" /\ ~Unread(Echoed(v.text))
              /\ FirstLine(Echoed(v.text)) = "word"
         /\ Unread(Echoed(v.text)) <=> v.text = "# 5"
<1>1. /\ v.type \in {"bool", "int", "str"}
      /\ v.type = "bool" => v.text \in {"True", "False"}
      /\ v.type = "int" => v.text = "5"
      /\ v.type = "str" => v.text \in StrTexts
  BY ValuesAre
<1>2. Echoed(v.text) # "none"
  BY <1>1 DEF Echoed, StrTexts
<1>3. v.text \in WholeText => ~Unread(Echoed(v.text)) /\ FirstLine(Echoed(v.text)) = v.text
  BY <1>1 DEF Echoed, Unread, FirstLine, WholeText
<1>4. v.text \in PartText => v.type = "str" /\ ~Unread(Echoed(v.text))
  BY <1>1 DEF Echoed, Unread, PartText
<1>5. v.text \in PartText => FirstLine(Echoed(v.text)) = "word"
  BY DEF Echoed, FirstLine, PartText
<1>6. Unread(Echoed(v.text)) <=> v.text = "# 5"
  BY DEF Echoed, Unread
<1> QED BY <1>2, <1>3, <1>4, <1>5, <1>6

Texts == { Echoed(v.text) : v \in Value } \cup {"none"}

(* The file of a package holds what the shell made of what it saved in this*)
(* run; if it saved nothing, there is a file only if an older run has left *)
(* one.                                                                    *)
FilesAreKnown == runs > 0 =>
  /\ MASTER_PID \in Pid
  /\ \A k \in Pkg :
       /\ saved[k] # Nothing => file[<<MASTER_PID, k>>] = Echoed(saved[k].text)
       /\ saved[k] = Nothing /\ <<MASTER_PID, k>> \notin left_over
            => file[<<MASTER_PID, k>>] = "none"

VTypes ==
  /\ runs \in Nat
  /\ file \in [Pid \X Pkg -> Texts]
  /\ saved \in [Pkg -> Value \cup {Nothing}]

VInv == VTypes /\ FilesAreKnown /\ ValuesComeBack

(* Converting the text of a value to its own type gives the value back;    *)
(* what is not converted raises, and only int() does.                      *)
LEMMA TypedBack ==
  ASSUME NEW d \in Value, NEW v \in Value, d.type = v.type
  PROVE  Typed(d, v.text) = v
<1>1. /\ v = [type |-> v.type, text |-> v.text]
      /\ v.type \in {"bool", "int", "str"}
      /\ v.type = "bool" => v.text \in {"True", "False"}
      /\ v.type = "int" => v.text = "5"
  BY ValuesAre
<1> QED BY <1>1 DEF Typed

LEMMA TypedOrRaised ==
  ASSUME NEW d \in Value, NEW t
  PROVE  \/ Typed(d, t).type = d.type
         \/ Typed(d, t) = Raised /\ d.type = "int" /\ t # "5"
<1>1. CASE d.type = "int" /\ t # "5"
  BY <1>1 DEF Typed
<1>2. CASE d.type = "bool" /\ ~(d.type = "int" /\ t # "5")
  BY <1>2 DEF Typed
<1>3. CASE d.type # "bool" /\ ~(d.type = "int" /\ t # "5")
  BY <1>3 DEF Typed
<1> QED BY <1>1, <1>2, <1>3

LEMMA RestoreKeeps ==
  ASSUME VInv, NEW k \in Pkg, NEW d \in Value, restore_plug_in_value(k, d)
  PROVE  VInv'
<1> DEFINE text == file[<<MASTER_PID, k>>]
<1>1. /\ runs > 0
      /\ answer' = [package |-> k, default |-> d,
                    value |-> IF text = "none" THEN d
                              ELSE IF Unread(text) THEN Raised ELSE Typed(d, FirstLine(text))]
      /\ UNCHANGED <<runs, saves, MASTER_PID, file, saved, left_over>>
  BY DEF restore_plug_in_value, compose_plug_in_save_dir_path
<1> HIDE DEF text
<1>2. /\ answer'.package = k /\ answer'.default = d
      /\ answer'.value = IF text = "none" THEN d
                         ELSE IF Unread(text) THEN Raised ELSE Typed(d, FirstLine(text))
  BY <1>1
<1>3. saved[k] \in Value \/ saved[k] = Nothing
  BY DEF VInv, VTypes
<1>4. /\ saved[k] # Nothing => text = Echoed(saved[k].text)
      /\ saved[k] = Nothing /\ <<MASTER_PID, k>> \notin left_over => text = "none"
  BY <1>1 DEF VInv, FilesAreKnown, text
<1>5. Old' <=> <<MASTER_PID, k>> \in left_over
  BY <1>1, <1>2, ValueAssumption DEF Old
<1>6. SavedComesBack'
  <2> SUFFICES ASSUME saved[k] # Nothing, saved[k].type = d.type
               PROVE  /\ saved[k].text \in WholeText => answer'.value = saved[k]
                      /\ saved[k].text \in PartText
                           => answer'.value = [type |-> "str", text |-> "word"]
                      /\ saved[k].text = "# 5" => answer'.value = Raised
    BY <1>1, <1>2 DEF SavedComesBack
  <2>1. saved[k] \in Value /\ text = Echoed(saved[k].text)
    BY <1>3, <1>4
  <2>2. text # "none"
    BY <2>1, TextsAre
  <2>3. ASSUME saved[k].text \in WholeText PROVE answer'.value = saved[k]
    <3>1. ~Unread(text) /\ FirstLine(text) = saved[k].text
      BY <2>1, <2>3, TextsAre
    <3> QED BY <1>2, <2>1, <2>2, <3>1, TypedBack
  <2>4. ASSUME saved[k].text \in PartText
        PROVE  answer'.value = [type |-> "str", text |-> "word"]
    <3>1. saved[k].type = "str" /\ ~Unread(text) /\ FirstLine(text) = "word"
      BY <2>1, <2>4, TextsAre
    <3>2. Typed(d, "word") = [type |-> "str", text |-> "word"]
      BY <3>1 DEF Typed
    <3> QED BY <1>2, <2>2, <3>1, <3>2
  <2>5. ASSUME saved[k].text = "# 5" PROVE answer'.value = Raised
    <3>1. Unread(text)
      BY <2>1, <2>5, TextsAre
    <3> QED BY <1>2, <2>2, <3>1
  <2> QED BY <2>3, <2>4, <2>5
<1>7. ElseTheDefault'
  BY <1>1, <1>2, <1>4, <1>5 DEF ElseTheDefault
<1>8. TypeIsKept'
  <2> SUFFICES \/ answer'.value.type = d.type
               \/ /\ answer'.value = Raised
                  /\ \/ <<MASTER_PID, k>> \in left_over \/ saved[k].text = "# 5"
                     \/ saved[k].type # "int" /\ d.type = "int"
    BY <1>1, <1>2, <1>5 DEF TypeIsKept
  <2>1. CASE text = "none"
    BY <1>2, <2>1
  <2>2. CASE text # "none" /\ <<MASTER_PID, k>> \in left_over
    BY <1>2, <2>2, TypedOrRaised
  <2>3. CASE text # "none" /\ <<MASTER_PID, k>> \notin left_over
    <3>1. saved[k] \in Value /\ text = Echoed(saved[k].text)
      BY <1>3, <1>4, <2>3
    <3>2. CASE saved[k].text = "# 5"
      <4>1. Unread(text)
        BY <3>1, <3>2, TextsAre
      <4> QED BY <1>2, <2>3, <3>2, <4>1
    <3>3. CASE saved[k].text # "# 5"
      <4>1. ~Unread(text)
        BY <3>1, <3>3, TextsAre
      <4>2. saved[k].type = "int" => saved[k].text = "5"
        BY <3>1, ValuesAre
      <4>3. saved[k].type = "int" => FirstLine(text) = "5"
        BY <3>1, <4>2, TextsAre DEF WholeText
      <4> QED BY <1>2, <2>3, <4>1, <4>3, TypedOrRaised
    <3> QED BY <3>2, <3>3
  <2> QED BY <2>1, <2>2, <2>3
<1>9. VTypes' /\ FilesAreKnown'
  BY <1>1 DEF VInv, VTypes, FilesAreKnown
<1> QED BY <1>6, <1>7, <1>8, <1>9 DEF VInv, ValuesComeBack

LEMMA Unanswered == answer = NoAnswer => ValuesComeBack
BY DEF ValuesComeBack, SavedComesBack, ElseTheDefault, TypeIsKept, Answered

LEMMA SaveKeeps ==
  ASSUME VInv, NEW k \in Pkg, NEW v \in Value, save_plug_in_value(k, v)
  PROVE  VInv'
<1>1. /\ runs > 0
      /\ \/ UNCHANGED <<file, saved>>
         \/ /\ file' = [file EXCEPT ![<<MASTER_PID, k>>] = Echoed(v.text)]
            /\ saved' = [saved EXCEPT ![k] = v]
      /\ answer' = NoAnswer
      /\ UNCHANGED <<runs, MASTER_PID, left_over>>
  BY DEF save_plug_in_value, compose_plug_in_save_dir_path
<1>2. VTypes'
  <2>1. Echoed(v.text) \in Texts
    BY DEF Texts
  <2> QED BY <1>1, <2>1 DEF VInv, VTypes
<1>3. FilesAreKnown'
  BY <1>1, ValuesAre DEF VInv, VTypes, FilesAreKnown
<1>4. ValuesComeBack'
  <2>1. (answer = NoAnswer => ValuesComeBack)'
    BY Unanswered, PTL
  <2> QED BY <1>1, <2>1 DEF NoAnswer
<1> QED BY <1>2, <1>3, <1>4 DEF VInv

LEMMA DeleteKeeps ==
  ASSUME VInv, NEW k \in Pkg, delete_plug_in_save_dir(k)
  PROVE  VInv'
<1>1. /\ runs > 0
      /\ file' = [file EXCEPT ![<<MASTER_PID, k>>] = "none"]
      /\ saved' = [saved EXCEPT ![k] = Nothing]
      /\ left_over' = left_over \ {<<MASTER_PID, k>>}
      /\ answer' = NoAnswer
      /\ UNCHANGED <<runs, MASTER_PID>>
  BY DEF delete_plug_in_save_dir, compose_plug_in_save_dir_path
<1>2. VTypes'
  BY <1>1 DEF VInv, VTypes, Texts
<1>3. FilesAreKnown'
  BY <1>1 DEF VInv, VTypes, FilesAreKnown
<1>4. ValuesComeBack'
  <2>1. (answer = NoAnswer => ValuesComeBack)'
    BY Unanswered, PTL
  <2> QED BY <1>1, <2>1 DEF NoAnswer
<1> QED BY <1>2, <1>3, <1>4 DEF VInv

LEMMA BeginKeeps ==
  ASSUME VInv, NEW p \in Pid, Begin(p)
  PROVE  VInv'
<1>1. /\ runs' = runs + 1 /\ MASTER_PID' = p
      /\ saved' = [k \in Pkg |-> Nothing]
      /\ left_over' = { d \in Pid \X Pkg : file[d] # "none" }
      /\ answer' = NoAnswer
      /\ UNCHANGED file
  BY DEF Begin
<1>2. VTypes'
  BY <1>1 DEF VInv, VTypes
<1>3. FilesAreKnown'
  BY <1>1 DEF VInv, VTypes, FilesAreKnown
<1>4. ValuesComeBack'
  <2>1. (answer = NoAnswer => ValuesComeBack)'
    BY Unanswered, PTL
  <2> QED BY <1>1, <2>1 DEF NoAnswer
<1> QED BY <1>2, <1>3, <1>4 DEF VInv

(* What a plug-in has last had written comes back, whole or in the part    *)
(* that the shell and file_to_list leave of its text, else the default, in *)
(* the type of the default and through pids that are used again.  For any  *)
(* packages and pids, and any number of runs and saves.                    *)
THEOREM SavedIsRestored == VSpec => []ValuesComeBack
<1>1. VInit => VInv
  <2> SUFFICES ASSUME VInit PROVE VInv
    OBVIOUS
  <2>1. VTypes /\ FilesAreKnown
    BY DEF VInit, VTypes, FilesAreKnown, Texts
  <2>2. ValuesComeBack
    BY Unanswered DEF VInit
  <2> QED BY <2>1, <2>2 DEF VInv
<1>2. VInv /\ [VNext]_vvars => VInv'
  <2> SUFFICES ASSUME VInv, [VNext]_vvars PROVE VInv'
    OBVIOUS
  <2>1. CASE UNCHANGED vvars
    <3>1. UNCHANGED <<runs, saves, MASTER_PID, file, saved, left_over, answer>>
      BY <2>1 DEF vvars
    <3>2. VTypes' /\ FilesAreKnown'
      BY <3>1 DEF VInv, VTypes, FilesAreKnown
    <3>3. ValuesComeBack'
      BY <3>1 DEF VInv, ValuesComeBack, SavedComesBack, ElseTheDefault, TypeIsKept, Answered, Old
    <3> QED BY <3>2, <3>3 DEF VInv
  <2> QED BY <2>1, BeginKeeps, SaveKeeps, RestoreKeeps, DeleteKeeps DEF VNext
<1>3. VInv => ValuesComeBack
  BY DEF VInv
<1> QED BY <1>1, <1>2, <1>3, PTL DEF VSpec

-----------------------------------------------------------------------------
(* The three are what they are alone, so that what holds of each holds in  *)
(* the instance that is checked.                                           *)
THEOREM PlugInsKeepTheirWord ==
  MCSpec => [](FailuresAreHandled /\ SelectionIsExact /\ ValuesComeBack) /\ StopIsHeard
<1>1. MCInit => GInit /\ PInit /\ VInit
  <2> SUFFICES ASSUME MCInit PROVE PInit
    BY DEF MCInit
  <2>1. CASE PInit
    BY <2>1
  <2>2. CASE /\ disk = [p \in Path |-> "absent"] /\ was = disk /\ touched = 0
             /\ asked = {} /\ selected = {} /\ before = {} /\ round = 0
    BY <2>2 DEF PInit, Kind
  <2> QED BY <2>1, <2>2 DEF MCInit
<1>2. [MCNext]_<<gvars, pvars, vvars, part>> =>
        [GNext]_gvars /\ [PNext]_pvars /\ [VNext]_vvars
  BY Zenon DEF MCNext
<1>3. MCSpec => GSpec /\ PSpec /\ VSpec
  BY <1>1, <1>2, PTL DEF MCSpec, GSpec, PSpec, VSpec
<1> QED BY <1>3, NoFailureIsLost, StopIsNotMissed, SelectsExactly, SavedIsRestored, PTL
=============================================================================
