SPECIFICATION Spec
CONSTANTS
  Boot <- MCBoot
  MState <- MCMState
  Start <- MCStart
  End <- MCEnd
  EndState <- MCEndState
  EndMeetsStart <- ShippedMeets
  PowerOn <- PowerOnB
  PowerOff <- PowerOffB
  DefaultState = "on"
  Parms <- AllParms
  PriorPass = 1
  PriorFail = 1
  MaxCalls = 1
  MaxDrift = 2
  NoBoot = NoBoot
  NoFile = NoFile
INVARIANTS
  TypeOK
  ChoiceJustified
  BoundedEffort
  PassIsEarned
  SkipRunsOnlyNeeded
CHECK_DEADLOCK FALSE
