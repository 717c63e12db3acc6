SPECIFICATION FairPoolSpec
CONSTANTS
  a = a
  b = b
  c = c
  d = d
  Inventories <- SomeInventories
  AnsibleGroups <- TwoGroups
  Workers = {w1, w2, w3}
  MaxFailures = 4
INVARIANTS
  CompleteOrError
  ClosedInTime
  WholeInventory
PROPERTIES
  AnswersOrStarves
CHECK_DEADLOCK FALSE
