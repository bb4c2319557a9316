CONSTANTS
 Pid = {i1, i2}
 Boot = {on, off}
 boot_pass = 1
 boot_fail_threshold = 0
 max_boot_history = 2
 MaxProcesses = 3
 MaxBoots = 3
 main_func_parm = {boot_stack, quiet}
 Val = {v1, v2}
 MaxCalls = 3
SPECIFICATION MCSpec
INVARIANTS
  ResultsAddUp
  CallStarts
  GlobalsAreRestored
CHECK_DEADLOCK FALSE
