SPECIFICATION FairSpec
CONSTANTS
  NTasks = 2
  NClients = 2
  OutputNames <- TwoNames
  TestOutputs <- TwoOutputs
  Options <- BothOptions
  Faults <- AllFaults
INVARIANTS
  TypeOK
  PlanOrder
  EveryRunAccountedFor
  NoSendOnClosed
  DoneAfterDrain
  OutputsInStep
  QuietMeansEverything
PROPERTIES
  KeepsPromise
  EndsOrHangs
CHECK_DEADLOCK FALSE
