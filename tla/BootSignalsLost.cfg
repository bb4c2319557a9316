SPECIFICATION BSpec
CONSTANTS
  Handlers = {"default", "stop"}
  TimeOuts = {"some"}
  MaxForeign = 1
  MaxOrphans = 2
  MaxBoots = 2
  MaxChecks = 2
  MaxCommands = 2
INVARIANTS
  RequestHonoured
CHECK_DEADLOCK FALSE
