SPECIFICATION Spec
CONSTANTS
  Nodes <- ThreeNodes
  Labels <- ZonesAndRacks
  Values <- TwoValues
  ServerSelections <- ApartInBoth
  ClientSelections <- StaticAndPicked
  Rounds = 2
  Interval = 10
INVARIANTS
  PlanComplete
  SelectionsRespected
