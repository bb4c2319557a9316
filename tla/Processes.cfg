CONSTANTS
  MaxAttempts = 3
  MaxCalls = 2
  p1 = p1
  p2 = p2
  p3 = p3
  Proc = {p1, p2, p3}
  Stock = {"quiet", "loglevel"}
  Own = {"dir_path"}
  ArgValue = {0, 1}
  MaxChanges = 3
  NumTasks = 3
  Pids = {1, 2, 3}
  Times = {1, 2}
SPECIFICATION MCSpec
INVARIANTS
  CommandAnswers
  OnlyNamedLosses
PROPERTIES
  ProcessesEnd
CHECK_DEADLOCK FALSE
