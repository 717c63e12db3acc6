SPECIFICATION FairSpec
CONSTANTS
  NTasks = 2
  NClients = 2
  Retries = 1
  Faults <- AllFaults
INVARIANTS
  TypeOK
  StopIsNoFailure
  NoStraggler
  Verdicts
PROPERTIES
  KeepsContract
  EndsOrSticks
