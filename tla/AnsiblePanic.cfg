SPECIFICATION Spec
CONSTANTS
  NTasks = 2
  NClients = 1
  Retries = 1
  Faults <- ServerFaults
INVARIANTS
  ErrorsHandled
