SPECIFICATION FFairSpec
CONSTANTS
  Handlers = {"default", "stop", "user"}
  TimeOuts = {"none", "zero", "some"}
  MaxForeign = 3
  MaxOrphans = 2
INVARIANTS
  FTypeOK
  NothingLeftBehind
PROPERTIES
  KeepsTimedCall
  AlwaysAnswers
