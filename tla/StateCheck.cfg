SPECIFICATION ScSpec
CONSTANTS
  Machines <- MCMachines
  Table <- MCTable
  Word <- MCWord
  OsHost = TRUE
INVARIANTS
  EntriesHold
  ChangeIsSeen
  RefusesUnread
