SPECIFICATION FairSpec
CONSTANTS
  NTasks = 1
  NClients = 2
  OutputNames <- TwoNames
  TestOutputs <- TwoOutputs
  Options <- OnlyErrors
  Faults <- ParseFaults
PROPERTIES
  ContinuesOnError
CHECK_DEADLOCK FALSE
