SPECIFICATION BFairSpec
CONSTANTS
  Handlers = {"default", "stop"}
  TimeOuts = {"some"}
  MaxForeign = 2
  MaxOrphans = 2
  MaxBoots = 2
  MaxChecks = 2
  MaxCommands = 2
INVARIANTS
  BTypeOK
  OneRequestOneBoot
  AbortsOnlyAfterFailure
PROPERTIES
  BootEnds
CHECK_DEADLOCK FALSE
