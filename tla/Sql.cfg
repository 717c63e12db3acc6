SPECIFICATION Spec
CONSTANTS
  NTests = 2
  NRounds = 2
  NRows = 2
  Pairs <- TwoPairs
  Configs <- AllConfigs
INVARIANTS
  TypeOK
  RowsInOrder
  MissingTableExplained
