SPECIFICATION Spec
CONSTANTS
  Boot <- MCBoot
  MState <- MCMState
  Start <- MCStart
  End <- MCEnd
  EndState <- MCEndState
  EndMeetsStart <- ShippedMeets
  PowerOn <- PowerOnB
  PowerOff <- PowerOffB
  DefaultState = "on"
  Parms <- NormalParms
  PriorPass = 1
  PriorFail = 1
  MaxCalls = 1
  MaxDrift = 0
  NoBoot = NoBoot
  NoFile = NoFile
PROPERTIES
  DefaultOnlyIfListHasNone
CHECK_DEADLOCK FALSE
