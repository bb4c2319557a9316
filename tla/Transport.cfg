CONSTANTS
  bmc_ssh = bmc_ssh
  os_ssh = os_ssh
  Alias = {bmc_ssh, os_ssh}
  MaxLogins = 2
  MaxAttempts = 2
  MaxCommandCalls = 3
  r1 = r1
  r2 = r2
  r3 = r3
  Resource = {r1, r2, r3}
  LeftOut = {r3}
  Services <- ServicesOfThree
  MaxSessions = 3
  MaxWrites = 3
  DefaultCipher = "17"
  MaxSetups = 2
SPECIFICATION MCSpec
INVARIANTS
  ConnectionsServe
  EnumerationIsExact
  ListingIsEnumerated
  ClientsWork
PROPERTIES
  KeepsRemoteCall
  ClientsReturn
CHECK_DEADLOCK FALSE
