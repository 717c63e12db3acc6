SPECIFICATION FairSpec
CONSTANTS
  Runners <- SomeRunners
  TestLists <- SomeTestLists
  Inputs <- SomeInputs
INVARIANTS
  TestsAccountedFor
  NothingUnasked
  PanicsExplained
PROPERTIES
  Finishes
