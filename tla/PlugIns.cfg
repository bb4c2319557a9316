CONSTANTS
 PlugIn = {p1, p2}
 MaxTests = 2
 MaxBoots = 2
 Base = 2
 Package = {a, b}
 MaxTouched = 1
 Pkg = {ka, kb}
 Pid = {i1, i2}
 MaxRuns = 2
 MaxSaves = 2
SPECIFICATION MCSpec
INVARIANTS
  FailuresAreHandled
  SelectionIsExact
  ValuesComeBack
PROPERTIES
  StopIsHeard
CHECK_DEADLOCK FALSE
