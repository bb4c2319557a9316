# SBMR-ACS in TLA+

This directory holds the formal models of SBMR-ACS, the compliance suite for
server base manageability: a set of Robot Framework tests and the Python
library (`lib/`) they run on. Paths below are relative to the repository.

The models are about the part of the suite that acts, waits, retries and gives
up: the boot test driver and what it stands on. Every definition is written
from the code; `PROJECT.json` (`map`) gives the lines behind each one.

## 1. Inventory

A test run is one Robot Framework process. It has one thread of Python, and
what interrupts that thread are signals: SIGUSR1 (from a user, from the func
timer's child) and SIGALRM. The system under test - BMC, host, operating
system - changes on its own, and is reached over Redfish, IPMI and SSH.

| Component (source) | State | Operations | Talks to |
|---|---|---|---|
| Boot test driver (`lib/obmc_boot_test.py`, `extended/obmc_boot_test_resource.robot`) | `boot_stack`, `state`, `transitional_boot_selected`, `boot_success`, totals, results file | `obmc_boot_test_py`, `test_loop_body`, `select_boot`, `run_boot`, `post_stack`, teardown | boot table, machine state, plug-ins, boot results |
| Stopping a boot test (`lib/obmc_boot_test.py`, `lib/state.py`) | SIGUSR1 handler, `exit_wait_early_message` | `stop_boot_test`, `set_default_siguser1`, `wait_state` | func timer (same signal) |
| Func timer (`lib/func_timer.py`) | saved handler, time-out, child pid | `run`, `timed_out`, `cleanup` | a forked child |
| Machine state (`lib/state.py`) | `exit_wait_early_message`; state dictionaries are values | `get_state`, `get_os_state`, `check_state`, `wait_state`, `compare_states`, `anchor_state`, `strip_anchor_state` | Redfish, SSH, ping |
| Shell commands (`lib/gen_cmd.py`) | `command_timed_out`, SIGALRM handler, the last `Popen` | `shell_cmd`, `kill_cmd` | a shell |
| SSH execution (`lib/gen_robot_ssh.py`, `lib/bmc_ssh_utils.py`) | SSHLibrary's registry of connections | `execute_ssh_command`, `login_ssh`, `find_connection` | SSHLibrary, func timer, validation |
| Plug-in processing (`bin/process_plug_in_packages.py`, `lib/gen_robot_plug_in.py`, `lib/gen_plug_in.py`) | return code, `shell_rc`, `failed_plug_in_name`; the directories of packages | `run_pgm`, `rprocess_plug_in_packages`, `return_plug_in_packages_list` | plug-in programs, the driver |
| Plug-in values (`lib/gen_plug_in_utils.py`) | save files; environment variables | `save_plug_in_value`, `restore_plug_in_value`, `get_plug_vars`, `get_plug_default` | plug-in programs |
| Boot results (`lib/boot_data.py`, `lib/tally_sheet.py`) | boot table, rows and totals, history, the pickled file | `create_boot_table`, `update`, `calc`, `update_boot_history`, `cleanup_boot_results_file` | files, pids |
| Variable stack (`lib/var_stack.py`) | `stack_dict` | `push`, `pop` | the driver and its teardown |
| Program arguments and exit (`lib/gen_arg.py`) | `arg_obj`, globals, builtins, `term_options` | `gen_setup`, `set_pgm_arg`, `sync_args`, `terminate_descendants`, `gen_exit_function` | the process tree |
| Validation (`lib/gen_valid.py`, `lib/gen_robot_valid.py`) | `exit_on_error` | `process_error_message`, `valid_value`, `valid_integer`, `valid_list`, `valid_dict`, ... | every library |
| Redfish client (`lib/bmc_redfish.py`, `lib/redfish_plus.py`, `lib/bmc_redfish_utils.py`) | session, pending and enumerated resources | `login`, `logout`, `get`, `patch`, `enumerate_request`, `list_request` | BMC |
| IPMI client (`lib/ipmi_client.py`) | `ipmi_required_options`, cipher suite, user option | `ipmi_setup` | ipmitool |
| Parallel keywords (`lib/jobs_processing.py`) | the shared dictionary | `execute_process`, `execute_process_multi_keyword` | child processes |
| Parsing (`lib/var_funcs.py`, `lib/gen_misc.py`) | none | `key_value_list_to_dict`, `split_to_dict`, `outbuf_to_report`, `filter_struct`, ... | every library |
| Status files, keyword running, printing, robot resources, compliance tests, launcher | see section 5 | | |

How they interact. `obmc_boot_test_py` samples the machine, lets `select_boot`
choose a boot from the stack or the list, and `run_boot` runs the boot's
keyword and waits with `wait_state` for the states the boot table requires.
`wait_state` retries `check_state`; a check may run SSH commands, each under a
func timer. Plug-in packages are called before and after each step and may
fail the boot (`pre_boot`, `post_boot`) or stop the loop (`stop_check`). The
totals and the results object live on in files so that another call of the
keyword, in the same process, continues them.

What is hard here:

- *Choice on a sample.* The machine may have moved between the sample, the
  choice and the boot; a boot meant as preparation may fail, for ever.
- *One signal, two owners.* SIGUSR1 means "stop" to the driver and "time is up"
  to the func timer; it does not queue, and it is taken between any two
  bytecodes.
- *Cleanup that is itself interrupted*: func timer, `shell_cmd`.
- *Retries around stateful calls*: `shell_cmd`, `execute_ssh_command`, Redfish
  login.
- *State that outlives its use*: connections left by earlier calls, a module
  global (`exit_on_error`) left set, files named by a pid that is used again,
  options struck off a list for good.
- *One of several fails*: plug-in packages in the order of a set, parameters
  saved and set one by one, descendants asked to end one by one.
- *Patterns and values in one kind of dictionary*: anchors decide what
  `compare_states` finds.

What makes each component correct:

- driver: every requested boot is settled once, with bounded effort, whatever
  fails; a pass is earned; no boot is counted twice or lost across calls;
- stopping: a request ends the running boot and only that, once; a boot ends
  even if an SSH command hangs;
- func timer: however `run` ends, the caller gets its handler back and no
  child is left;
- shell commands: it is known of which attempt a status and an output are: of
  one, unless an alarm cut the last attempt short, which mixes two; no alarm
  outlives the call;
- machine state: a wait for change sees every change and nothing else; a
  sample is refused exactly when it was not read, and meets an entry exactly
  when it shows one of its alternatives in each field;
- SSH: a command that a target can take is sent once, one that fails at most
  twice, and a status is that of the command as last sent;
- plug-ins: a failure is counted whatever the order, a stop request is heard,
  each call point runs what the driver was told of and what has changed on the
  disk since, values come back as far as their text survives the shell;
- boot results and variable stack: each boot that ended is counted once under
  its master, the history is what was announced last, the globals are as before;
- arguments, exit, parallel keywords: a value is the same wherever it is kept
  unless it was plainly assigned, no process is forgotten, a status is lost only
  to another of the same key;
- Redfish and IPMI: the walk of a cyclic service is complete and ends, a session
  is usable, no update is lost, options stay usable;
- validation and parsing: verdicts mean what they say, no entry is lost.

`PROJECT.json` lists the hazards, each at its line, with the properties that
cover it or the reason why none does.

## 2. Modules

| Module | Models | Correspondence |
|---|---|---|
| `BootPlan` | abstract: what "OBMC Boot Test" promises | `todo`: boots of the stack not settled; `left`: boots of the list not run; two totals; an outcome |
| `BootTest` | the driver | the variables have the names of the Python globals; `SelectXxx` are the exits of `select_boot`, `RunBootPasses`/`RunBootFails` those of `run_boot`, `StopCheckXxx`, `PostStack`, `Complete`, `Teardown` the rest of the loop; `Drift` is the machine |
| `MCBootTest` | TLC instance of `BootTest` | five boots in the shape of `data/boot_table_redfish.json`, three machine states |
| `TimedCall` | abstract: what `func_timer_class.run` promises | |
| `FuncTimer` | `lib/func_timer.py` | `at` is the place in `run` or `cleanup`; `timed_out`, `StrayTimeOut`, `OtherHandler` are what a pending SIGUSR1 does there |
| `BootSignals` | `run_boot`, `wait_state`, `check_state`, an SSH command and the SIGUSR1 handlers, composed with `FuncTimer` (EXTENDS) | `pc` is the place in `run_boot` and `wait_state`; the func timer's foreign signals are the user's requests |
| `ShellCmd` | `shell_cmd`, `shell_cmd_timed_out`, `kill_cmd` | `pc` is the place in the retry loop; an alarm may ring at each |
| `StateMatch` | state dictionaries, `compare_states` and the anchors, as operators | a text is a sequence of words, bars and anchors; `re_match` is `re.match` on those |
| `StateCheck`, `MCStateCheck` | `get_state`, `check_state`, `valid_state`, test mode | one action per use the driver makes of a sample |
| `RemoteCall` | abstract: what `execute_ssh_command` promises | |
| `SshExec` | `execute_ssh_command`, `login_ssh`, the wrappers of `bmc_ssh_utils` | `registry` is SSHLibrary's list of connections; `sat` the place in the retry loops; one action per exception that has a remedy |
| `RedfishEnumerate` | `enumerate_request` and the shorter walks | one `Get`, `GetDead`, `GetRaises` or `Skip` per path of a round; `Named` is `walk_nested_dict` |
| `RedfishSession` | `login` with its retry, `logout`, `get`, `patch` | the BMC's sessions and another client are the environment |
| `IpmiSetup` | `ipmi_setup` | one action per probe command |
| `ProgramExit` | `terminate_descendants`, exit and signal handlers | the process tree is the environment |
| `ProgramArgs` | `gen_setup`, `set_pgm_arg`, `sync_args` | the three places of a value |
| `Jobs` | `jobs_processing.py` | both functions: the key is a pid or a time |
| `PlugIns` | the call points of a boot test, `run_pgm`, the loop over the packages | `reached` and `exits`: packages run, and their codes, in any order |
| `PlugInPackages` | the selection, made once by the driver and again at each call point from what the driver got | `Validate`, `Reselect`; `PackageChanges` is whoever installs, removes or marks a package in between; `was` is the disk at the first selection |
| `PlugInValues`, `PlugVars` | save files; environment, types and defaults | a value is its type and its text; `Echoed` is what the shell's `echo '...'` writes of it, or its refusal, `FirstLine` what is read back |
| `BootResults` | tally sheet, history, the results file, its clean-up | `RunBoot` announces a boot in the history, `BootEnds` counts it, `PostStack` announces a plug-in; processes start, are killed and get pids again |
| `BootTable` | `create_boot_table`, `valid_boot_list` | |
| `SaveStack` | the parameters of the keyword that stand in for globals | one action per parameter saved or set |
| `Validation` | `process_error_message`, `validate_parms`, who asks in between | `ParmsRaise`: `int()` of a parameter before the checks; `NextCheck`: one check; `EndValidate`: the boot lists after them, which may still fail |
| `Verdicts` | `valid_integer`, `valid_float`, `valid_list`, `valid_dict`, `valid_length` as operators | one action per question |
| `KeyValues`, `Structures` | the parsers of `var_funcs.py`, the filters, `to_signed` | texts are sequences of words or marks; `KeyValues` reads lines one action at a time |
| `MCTransport`, `MCProcesses`, `MCPlugIns`, `MCResults`, `MCValues` | TLC instances of several components that share no state | a variable that does not change says which of them runs in a behaviour: with nothing shared, what one does beside another is what it does alone |
| `BootTestProofs` | proofs about `BootTest`, with the refinement of `BootPlan` | |
| `SignalProofs` | proofs about `FuncTimer`, with the refinement of `TimedCall`, and `BootSignals` | |
| `StateProofs` | proofs about `StateCheck` and the operators of `StateMatch` | |
| `TransportProofs` | proofs about what `MCTransport` composes, with the refinement of `RemoteCall` | |
| `ProcessesProofs`, `PlugInProofs`, `ResultsProofs`, `ValuesProofs` | proofs about what `MCProcesses`, `MCPlugIns`, `MCResults` and `MCValues` compose | each EXTENDS the instance, whose definitions leave the constants open |

Abstractions. A required `start` or `end` entry is in `BootTest` the set of
machine states that satisfy it, and `EndMeetsStart` is the outcome of comparing
entry with entry; `StateCheck` computes both from the texts. Times are "zero",
"some" and "none". Plug-ins and robot keywords are choices over their outcomes.
The machine may change at any point (`Drift`, `MachineChanges`).

## 3. Runs

Passing runs:

- **BootTest** (`MCBootTest`): one call with every mix of stack, list, stack
  mode and test mode. The choice is justified by the sample, the number of
  boots is bounded by `3 * stack + tests + 2 * drift`, a pass is earned, and in
  skip mode nothing unnecessary is run.
- **BootTestCalls**: two calls. The totals carry over, the driver implements
  `BootPlan` (normal stack mode), and every call returns.
- **FuncTimer**: signals of others and of the timer itself at any point,
  time-outs of zero included. Handler and child are cleaned up, save for a
  signal taken before the child's pid is stored (`early`); a limited call ends;
  and until such a signal `run` implements `TimedCall`.
- **BootSignals**: two boots, up to two requests anywhere, commands that may
  hang. One request stops at most one boot, the keyword as a whole can be
  brought down only after a boot that failed, and every boot ends.
- **StateCheck**: every pair of a sample and a later machine state. A sample
  meets the entries whose alternatives it shows and no others, an unread one
  none; a change of the machine is seen; test mode pretends the end it says.
- **Transport** (`MCTransport`): SSH commands to two targets that reboot at any
  time: one connection each, a steady target gets its command once,
  `execute_ssh_command` implements `RemoteCall`, a command with a time-out ends.
  Enumeration of every service of three resources, cycles and wrong names
  included: each path once, nothing missed, it ends. Sessions: a login that
  returns normally can be used, `patch` loses no update. IPMI: probes whose
  answers are lost leave a client that works, if its options can.
- **Processes** (`MCProcesses`): `shell_cmd` with the alarm at any point, two
  calls of three attempts, and of which of them an answer is; the end of a
  program while its descendants end and start others; the arguments of a program
  and the plain assignments to them; three keywords in parallel with pids and
  times that coincide.
- **PlugIns** (`MCPlugIns`): two tests of two boots with two packages in any
  order; every set of directories, any one of which may change between two
  selections; values with blanks, quotes and several lines, saved and restored by
  two packages in two runs, under pids used again.
- **Results** (`MCResults`): three processes and two pids, killed at any point,
  boots cut short between their announcement and their end, post_stack plug-ins;
  the parameters of three calls, cut short at any point.
- **Values** (`MCValues`): `validate_parms`, which may raise before its checks
  and fail after them, with what is asked before, after and instead of its end;
  every verdict on numbers, texts and bounds around zero;
  every text of up to three lines; every structure of up to two entries; the
  variables of plug-ins through several processes; the boot table and list.

The runs of several components check invariants that are conjunctions of named
parts, each part with a comment of its own in its module:

| Property | Parts |
|---|---|
| `EntriesHold` | `ScTypeOK`, `PretendedEndHolds`, `MetByAlternatives` |
| `ConnectionsServe` | `SshTypeOK`, `OneConnectionEach`, `SteadyRunsOnce` |
| `EnumerationIsExact` | `EnumTypeOK`, `EachPathOnce`, `ResultIsRead`, `NothingMissed` |
| `ClientsWork` | `LoginWorks`, `PathIsInUse`, `NoLostUpdate`, `OptionsIntact`, `UsableAfterSetup` |
| `ClientsReturn` (liveness) | `TimedCommandEnds`, `EnumerationReturns` |
| `CommandAnswers` | `ShTypeOK`, `AnswerIsOf`, `LeavesNoAlarm` |
| `OnlyNamedLosses` | `XTypeOK`, `NoneForgotten`, `StaleOnlyIfAssigned`, `StatusesAreIn` |
| `ProcessesEnd` (liveness) | `LimitedCallEnds`, `ExitEnds` |
| `FailuresAreHandled` | `GTypeOK`, `FailureIsCounted`, `PassIsUnspoiled`, `AllAreReached`, `CleanupFollows` |
| `SelectionIsExact` | `SelectionFollowsDisk`, `OneOfEachName`, `AllAreSelected`, `RefusalHasCause` |
| `ValuesComeBack` | `SavedComesBack`, `ElseTheDefault`, `TypeIsKept` |
| `ResultsAddUp` | `RowsCountAll`, `TotalsAgree`, `HistoryIsRecent`, `ThresholdIsOfThisCall` |
| `AnswersAreTrue` | `ValidHostIsServed`, `RobotIsToldTheTruth` |
| `ChecksAreComplete` | `EndHasCause`, `ReturnsOnlyIfValid` |
| `InputsAreJudged` | `RangeIsMeant`, `ListIsMeant`, `DictIsMeant`, `NamesAreJudged`, `RequirementsFitHost` |
| `PartsComeBack` | `NoLineIsLost`, `LevelStaysLevel`, `PidComesBack`, `CellsComeBack`, `FilterParts`, `FiltersCompose`, `SplitsBefore`, `SignedIsSameCode` |
| `VariablesAreHeard` | `ValueIsTold`, `OverrideIsHeard` |

`PROJECT.json` has at least one mutant for each part, listed under its
conjunction: every part is violated by some plausible change of the code.

Runs that find the code at odds with what it says of itself (one property
each; TLC shows the run of the program):

- **BootTestDefault** `DefaultOnlyIfListHasNone`: a default boot is used for a
  transition although the list has a fitting one, because the end entry
  compared with the start entry is a pattern, not a state.
- **BootSignalsLost** `RequestHonoured`: a request after `wait_state` has looked
  for a message, or while the func timer owns the signal, is lost.

Twelve more disagreements are stated as properties beside these. To see one, add
a configuration like that of its module's passing run, without fairness, with
the property alone: `SkipsOnlyUnnecessary` and `FailsOnlyForCause` (`BootTest`),
`HaltedOnTimeOut`, `CountedAsError` and `KillKills` (`ShellCmd`),
`AbortsOnlyBoots`, `StartsClean` and `StopsOnlyOnRequest` (`BootSignals`, with
`MaxForeign` 1, 1 and 0), `SupportedFieldsAreRead` and `OffIsTimedAsOff`
(`StateCheck`), `LastBootsAreKept` (`BootResults`) and `OneListOnly`
(`Verdicts`). They mean:

- in skip mode the loop of `select_boot` has no exit on the first necessary
  entry: the bottom of the stack decides and necessary entries are dropped;
- when the transition for the last entry of the stack has failed, its flag is
  still set in the list loop and `select_boot` pops an empty list;
- the process group that is killed on a time-out does not exist, so the command
  goes on; an attempt that timed out may count as a success; `kill_cmd` raises
  and kills nothing;
- a keyword that fails leaves `stop_boot_test` armed; a message survives a wait
  that times out; a timer that rings while `cleanup` is under way stops the boot
  with no request;
- `bmc` asked for alone is never read (a missing comma in `lib/state.py`);
  `power_off_timeout` is never used;
- the history that `print_boot_history` prints as "the last ten boots" has start
  messages of post_stack plug-ins in it, which push boots out;
- `valid_list` takes all three of its lists at once, of which it says that only
  one may be given: an exclusive or of three is true of three.

What the code does and a reader may not expect is written into the properties as
an exception, so that they hold for everything else:

- `exit_on_error` stays set when `validate_parms` is cut short; from then on a
  valid host gets None, which the SSH wrappers take for False, and every command
  is refused without a message (`ValidHostIsServed`);
- a directory of saved values and a results file are named by the pid of the
  master, "unique for a given test run": a later run with that pid finds what an
  older one left (`ElseTheDefault`, `RowsCountAll`);
- a boot that is cut short between its announcement and its end is in the
  history and in no row of the results (`RowsCountAll`, `HistoryIsRecent`);
- a process killed while it writes the results file leaves a torn one, on which
  the next call fails; so does the class `boot_results` once its instance hides
  it (`CallStarts`);
- every variable of type bool is True: an exported or default "False" is, too
  (`ValueIsTold`); the first default among programs that call each other goes
  before a later program's own (`ValueIsTold`), and a default, even a blank one,
  hides an override (`OverrideIsHeard`);
- a boot name with blanks around it passes the check and raises when it is looked
  up (`NamesAreJudged`);
- a parameter that `int()` does not read raises before `exit_on_error` is set,
  and a boot list that is not valid ends the call after it is restored
  (`EndHasCause`, `ReturnsOnlyIfValid`);
- when the alarm cuts the last attempt of `shell_cmd` short, its output is that
  of an earlier attempt, next to no status or to the last attempt's
  (`AnswerIsOf`);
- a job whose key another job gets too, a pid used again or the same microsecond,
  loses its status to it, a failure to a success as well (`StatusesAreIn`);
- an argument that `validate_parms` assigns to without `set_pgm_arg` keeps its
  old value in `__builtin__` (`StaleOnlyIfAssigned`);
- a call point also runs an integrated package that appeared under a name whose
  directories have changed, and is refused when a package is gone
  (`SelectionFollowsDisk`);
- a value is saved by `echo '...'`: with an odd number of quotes the shell refuses
  and the value before it comes back, unnoticed; quotes, outer blanks, what
  follows a "#" and all lines after the first are lost (`SavedComesBack`);
- logging out of a session that the BMC has dropped raises and keeps key and
  path (`LoginWorks` is about a login that has returned);
- a cell that is wider than its column is misread (`CellsComeBack`); below one
  level of indentation sub-dictionaries are flattened (`NoLineIsLost`);
- with `term_requests` other than the descendants, or a descendant that ignores
  SIGTERM, the exit function may wait for ever (`ExitEnds`).

### Bounds

- `MCBootTest`: five boots, one of each kind of entry of the shipped table
  (start off or on or both, end on or off); three machine states, one of
  which no boot ends in; stacks up to three entries (so that there is an entry
  below the one given up), lists of at most two boots (choice), two iterations
  of the list loop, `MaxDrift` 2 (one change per phase) and `MaxCalls` 2.
- `FuncTimer`: `MaxForeign` 3 (one signal for each of setup, function and
  cleanup) and `MaxOrphans` 2: a lost timer may disturb a later run, and another.
- `BootSignals`: two boots (what one leaves for the next), two checks of a wait
  and two commands of a check (the first and the repeated one), two requests.
- `StateCheck`: every text the shipped table tells apart, with `os_host`.
- `MCTransport`: two targets (closing all connections hits the other), three
  calls (what one leaves, how the next fares, and the one after), two logins,
  the two attempts of the code; three resources, of which one is left out, two
  name any others; three sessions (a lost one, its retry, another), two setups.
- `MCProcesses`: three attempts (first, middle and last) and two calls of
  `shell_cmd`; three descendants, one of each kind of command line, in every
  tree; three tasks with three pids and two times.
- `MCPlugIns`: two packages (one fails, the other does not), two directories with
  one name, two boots (what one leaves for the next), two runs with two pids;
  `MaxTouched` 1: what a change does to the selection it does by itself (the
  proofs have no such bound), and since every call point selects from the driver's
  paths, one later selection stands for each.
- `MCResults`: three processes over two pids, so that a pid is used again; three
  boots and post_stack plug-ins together (`MaxBoots`) over a history of two, so
  that it overflows with each mix of them.
- `MCValues`: one parameter of each kind of check, one that is checked for a host
  only, one that is read as a number; bounds and numbers 0 to 3
  halves; up to three lines, enough for a level, one below and back; cells of up
  to three marks; four bits.

### Fairness

- `FairSpec` (`BootTest`): weak fairness of the driver. It is a single thread
  and each of its waits has a time-out. Nothing is assumed of `Drift` or of new
  calls.
- `FFairSpec`: the parent goes on and the sleeping child wakes (the kernel's
  scheduler, `time.sleep`). The function may hang.
- `BFairSpec`: the driver, the Python runtime that runs pending handlers, the
  func timer's child. The SSH command may hang, requests need not come.
- `ShFairSpec` (in `MCProcesses`): the caller goes on and a set alarm rings (the
  kernel). The command may hang.
- `SFairSpec` and `EFairSpec` (in `MCTransport`): the caller goes on, and a login
  or a request is answered or fails (the libraries have time-outs of their own).
  An SSH command may hang, targets may reboot for ever.
- `XFairSpec` (in `MCProcesses`): the exit function goes on, and a process that
  was asked to end, and does not ignore it, ends.

## 4. Proofs

TLAPS checks these for every value of the constants. What is assumed of the
constants is named in the modules, and TLC evaluates it in each instance:

| Assumption | Why the code justifies it |
|---|---|
| `TableAssumption`, `ParmAssumption` (`BootTest`) | the table is a function over its boots and has the default boots; parameters are of their types |
| `TimerAssumption` (`FuncTimer`) | `timed_out` is a method of the func timer, no handler of the rest of the program |
| `SignalsAssumption` (`BootSignals`) | the driver's two handlers; a time-out of a second or more is among the time-outs |
| `StateAssumption` (`StateCheck`) | entries are alternatives of words between anchors, as all of `data/boot_table_redfish.json`; a service that answers leaves no property blank |
| `ShellAssumption`, `SshAssumption` | at least one attempt; two attempts at an SSH command |
| `ServiceAssumption` (`RedfishEnumerate`) | services are among all bodies over the resources |
| `ProcAssumption`, `JobsAssumption` | "none", "program" and "init" are no descendants; pids and times are positive |
| `PlugInAssumption`, `PackageAssumption`, `ValueAssumption` | no package is named like a mark of the model |
| `ResultsAssumption`, `StackAssumption` | the boot table is finite and has a boot; `"None"` stands for no value |
| `ValidationAssumption`, `HalfAssumption` (`Verdicts`) | the blank is a text; numbers are halves of integers |
| `WidthAssumption` (`Structures`) | a number has at least the bit of its sign |

The rest of them only say that bounds are natural numbers. Two theorems have a
hypothesis of their own: `PlanIsKept` holds in normal stack mode (`NormalMode`:
in skip mode the driver drops entries, which the plan has no step for), and
`EffortIsBounded` for tables that settle (`TableSettles`: a boot ends in its end
entry, and at most two default boots bring the machine where an entry can
start). With a table that does not settle the driver may prepare for ever. TLC
checks `TableSettles` of the instance shaped like the shipped table.

- `BootTestProofs`. `TypeCorrect` and `ChoiceIsJustified` rest on the inductive
  invariant `IInv`: `TypeOK` alone is not inductive, since that a boot about to
  run is justified depends on what `select_boot` has just done with the stack,
  and that the list loop starts with an empty stack depends on the phase.
  `TotalsAreRight` adds that the results file, once it exists, agrees with the
  counters whenever no call is under way, `PassEarned` how many boots the
  iterations so far have run. `SkipsTheUnneeded` follows from the sample that
  `select_boot` compared with both entries. `PlanIsKept` is the refinement of
  `BootPlan`, one lemma for each action. `EffortIsBounded` weighs what the stack
  may still cost (`StackCost`, `PrepareCost`): at each step what was run and
  what may be still to run stay within three boots per entry, the tests of the
  list and two per change of the machine (`EffortBounded`), given that a boot
  chosen as preparation brings its entry nearer (`TransitionHelps`).
- `SignalProofs`. `NothingIsLeftBehind` needs to know at each place of `run`
  and `cleanup` what the object knows of its child and whose handler is set
  (`Placed`, part of `FInv`). `PromiseKept` (up to a signal taken before the pid
  is stored, every step of the func timer is a step or a stutter of `TimedCall`)
  adds what answer `run` has when it cleans up (`Orderly`). `BInv` takes `FInv`
  over: the driver's own `signal.signal` and handlers keep it, since they act
  only while `timed_out` is not the handler. `OnlyFailureAborts` needs who is
  armed between two boots (`Disarmed`).
- `StateProofs`. `ScInv`: `state` is a sample of the machine, however old, or in
  test mode an end entry with its anchors taken off. What `re.match` then does
  is proved of the texts themselves: an anchored text matches itself and nothing
  else (`AnchoredMatchesItself`), a blank only a blank (`BlankMatchesBlank`), an
  entry what its anchors leave of it (`EntryMatchesStripped`), and the sample of
  one word exactly if that word is one of its alternatives (`AlternativeIs`,
  `OneWordIsMet`, `EntryIsMet`). From these: `ChangesAreSeen`, `UnreadIsRefused`
  and `EntriesAlwaysHold`.
- `TransportProofs`. `SInv` says at each place of the retry loops how often the
  command has been sent compared with the attempts, and, for a target that has
  answered so far, that it was not sent and that the second attempt finds a live
  connection. From it: the types, `OneConnectionForEach`,
  `SteadyTargetGetsItOnce`, and `RemoteCallKept`, the refinement of `RemoteCall`.
  `EInv`: the round and what is enumerated are disjoint, what was looked at is
  settled, and what a body names is pending; `EnumerationExact` and
  `ListingsAreEnumerated` hold for any service, however large and cyclic.
  `RSInv`: the path belongs to the key and the Etag to what was read
  (`SessionWorks`). `IpmiInv`: there are two lists of required options, and the
  one without U only where the BMC was seen to do without (`OptionsAreUsable`).
- `ProcessesProofs`. `AnswersAreOfWhom` and `NoAlarmIsLeft` follow from `ShInv`,
  which says at each place of `shell_cmd` whether an alarm is set, and of which
  attempt status and output are, before a command has ended and after. `XInv`
  relates the list that the exit function makes to the process tree: until it is
  made, what runs and is no orphan is in every set closed under children
  (`Reach`); then it is on the list, was orphaned, or is younger (`OnTheList`).
  "Below" is the least of those sets, so that no induction over the depth of the
  tree is needed. `JInv` (`StatusesAreReturned`): what is under a key was
  recorded by a task of this key, where keys are pids by the last of them, since
  a pid is given out again only after its task has ended (`Order`, `PidIsKey`).
  `ArgInv` (`ArgumentsAreSynced`): where an argument and its builtin may differ,
  place by place.
- `PlugInProofs`. `GInv`: which failures of the packages reached so far the
  return code stands for, at each call point (`SpoiledIsKnown`, `StopIsKnown`).
  `PInv`: a selection is `Sound` for the directories it was made on (what it must
  have and what there must be a cause for), the first for the directories as
  they were, the second, made of the paths of the first, for the directories
  now, whatever has changed in between and how often. `VInv`: a save file has
  what the shell wrote of the last save that it did not refuse, under its pid.
- `ResultsProofs`. `RInv`: the files of every pid, whole, torn or left by an older
  run, against the boots that ended under it and the messages that were
  announced, of boots and of post_stack plug-ins (`Fits`), and the call under way
  against both. The totals of a table are folds over its boots; that a fold adds
  what its elements add is proved from a least counterexample (`WFMin`), where
  the library's induction theorem cannot be instantiated. `KInv`: a parameter is
  untouched or its old value is alone on the stack.
- `ValuesProofs`. `LInv`: `exit_on_error` is set exactly while, or since, checks
  were begun and not ended (`cut_short`; an `int()` that raises before them
  leaves it as it was), and a parameter that is not valid is still to be
  checked; the checks not yet done are a set of indices, of which the least is
  next. `WInv`: a variable is set to what the user exported or, if that is
  nothing, to the first default of the programs that called each other.
  `VerdictsAreMeant`: each question by its own lemma, for any numbers and any
  finite lists, with all three lists of `valid_list` left out (`OneListOnly` is
  refuted). `TInv`: the boot table is that of the file, for the host. `ReadInv`
  and `AskedInv` are the parts of `PartsComeBack`; they need no strengthening,
  since each text or structure is read in one step, but every step needs what a
  loop of the code returns for every sequence.

  Those loops (`FlatDict`, `key_value_list_to_dict`, `SplitOn`, `split_to_dict`,
  `join_dict`, `filter_struct`) are folds of the community modules, defined by a
  function over the sets of indices that is chosen with CHOOSE. `LoopRuns` shows
  that there is such a function for every length, `LoopReturns` that it takes
  the elements one by one, `TurnByTurn` that one element more is one turn of the
  loop's body (`Body`) more; from there `FlatTurn`, `SplitTurn`, `DictTurn`,
  `JoinTurn` and `FilterTurns` say it of each loop, and `CountsUp` (from a least
  counterexample, as in `ResultsProofs`) what holds of the empty text and of one
  element more of every text. `Power` is shown to be the powers of two in the
  same way (`PowerIs`). On this rest:
  - `LinesAreWhole`: at each line, the lines before it are those in the
    dictionary, the last parent and the lines that wait below it (`Outer`,
    `Inner`), and closing the last parent makes them all findable (`Whole`).
    Without the outstanding lines the invariant would not hold of the next turn;
  - `PathHas`: whatever the nickname holds, the last part of the path ends in the
    pid's own entry and the suffix, because text without a delimiter goes to the
    last part (`TextIsAdded`) and a delimiter begins a new one (`PartIsAdded`);
    a later entry overwrites an earlier one of the same key, so that a nickname
    that looks like an entry for the pid does no harm;
  - `CellsRead`: a row of cells no wider than their columns is as long as the
    dashes, fits them only where it begins, and `Strip` leaves of a padded cell
    what it leaves of the cell (`StripPadded`); a row that lost its last cell's
    blanks is filled up again (`FilledUp`);
  - `FilterDivides`, `FilterTwice`, `SplitBefore`, `SignedIs`.

The runs check instances in which components share no state; `ClientsKeepWorking`,
`NothingElseIsLost`, `PlugInsKeepTheirWord`, `ResultsAndGlobals`,
`ValuesAreMeant` and `PartsAreWhole` carry the theorems on the components over to the composition.

Only model-checked is liveness (`CallReturns`, `AlwaysAnswers`, `BootEnds`,
`LimitedCallEnds`, `ExitEnds`, `TimedCommandEnds`, `EnumerationReturns`): TLAPS
has no rules for fairness and ENABLED. Every invariant and every action property
of a passing run has its theorem. What the theorems do not reach: `nested_get` is
unfolded by none of them (`FilterParts` and `FiltersCompose` hold for whatever
it finds, `match_struct` being a conjunction over the keys); that it looks at
every level is a matter of its definition.


## 5. Assumed and left out

Assumed: a time-out of a second or more does not ring while `os.fork` returns
(`FuncTimer`, "some" against "zero"); no library swallows the failure that
`stop_boot_test` raises; commands given to `shell_cmd` make no job-control groups
of their own; no word of a state text is a prefix of another. The
`<expressions>` key of a match state (no entry of the table has one) and a
failure of the Redfish login in the setup (it changes nothing) are left out.

In `Transport` the answers of the libraries stand for what they do on the wire;
`redfish_request.get_target_actions` refers to a name it does not define and is
left out with the single requests around it.

Not modelled:

- printing (`gen_print`, `gen_robot_print`), `func_args`, `wrap_utils`,
  `logging_utils`: they format text or look at Python's own stack and keep no
  state a property could be about;
- `cmd_fnc` and `parse_command_string` (`gen_cmd`), the command lines of
  `ipmi_utils`, `data/ipmi_raw_cmd_table.py`: wording of one command each;
- questions to the file system or to a library: `valid_path`, `valid_program`,
  `valid_date_time`, `valid_type`;
- `bin/auto_status_file.py`: names a file, copies a program's output to it and
  hands on its return code, which `PlugIns` has as the code of the plug-in;
- `run_keyword`, `gen_robot_keyword`, `gen_call_robot`: thin wrappers of Robot
  Framework and its command line;
- the robot resources and compliance tests: straight sequences of keywords, whose
  outcome is the machine's; the launcher and installation scripts: one-shot.

## 6. Plan

Done: (1) `BootTest`, `BootPlan`; (2) `FuncTimer`, `TimedCall`; (3)
`BootSignals`; (4) `ShellCmd`; (5) `StateMatch`, `StateCheck`; (6) `SshExec`,
`RemoteCall`; (7) `PlugIns`, `PlugInPackages`, `PlugInValues`, `PlugVars`; (8)
`BootResults`, `BootTable`, `SaveStack`; (9) `RedfishEnumerate`,
`RedfishSession`, `IpmiSetup`; (10) `ProgramExit`, `ProgramArgs`, `Jobs`; (11)
`Validation`, `Verdicts`, `KeyValues`, `Structures`; and the proofs of section 4.

Every invariant and action property of a passing run has its theorem; what could
be added to the models is listed in section 5. Four hazards have no property that
holds. Of the selection left over from an early return (`obmc_boot_test.py:559`),
the needed entries dropped in skip mode (`obmc_boot_test.py:573`) and the missing
comma (`state.py:625`), `FailsOnlyForCause`, `SkipsOnlyUnnecessary` and
`SupportedFieldsAreRead` state what one would expect, and TLC refutes all three
(section 3). A results file whose pid belongs to another process
(`boot_data.py:342`) is an exception of `ResultsAddUp`. For other hazards
`PROJECT.json` notes which part of them a property covers and which part is the
code's accepted behaviour.

To run: `tlc -config BootTest.cfg MCBootTest`, `tlapm BootTestProofs.tla`, and
likewise for the others.
