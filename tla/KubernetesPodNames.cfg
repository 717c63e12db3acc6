SPECIFICATION Spec
CONSTANTS
  NTasks = 1
  NClients = 2
INVARIANTS
  LogsMatchClient
