SPECIFICATION FairSpec
CONSTANTS
  Boot <- MCBoot
  MState <- MCMState
  Start <- MCStart
  End <- MCEnd
  EndState <- MCEndState
  EndMeetsStart <- IntendedMeets
  PowerOn <- PowerOnB
  PowerOff <- PowerOffB
  DefaultState = "on"
  Parms <- TwoCallParms
  PriorPass = 1
  PriorFail = 1
  MaxCalls = 2
  MaxDrift = 1
  NoBoot = NoBoot
  NoFile = NoFile
INVARIANTS
  TallyAgrees
PROPERTIES
  KeepsPlan
  CallReturns
CHECK_DEADLOCK FALSE
