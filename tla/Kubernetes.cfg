SPECIFICATION FairSpec
CONSTANTS
  NTasks = 2
  NClients = 2
INVARIANTS
  TypeOK
  LogsMatchInSequence
  ServerServesClients
  Verdicts
  NothingLeftWhenAllWell
  CleanupDeletes
PROPERTIES
  KeepsContract
  EndsOrSticks
