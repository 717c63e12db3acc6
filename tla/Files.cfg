SPECIFICATION Spec
CONSTANTS
  NTests = 2
  NRounds = 2
  NRows = 2
  Pairs <- TwoPairs
  Lists <- AllAndOne
  FileBy <- PerTest
  ChartBy <- PerRun
INVARIANTS
  TablesComplete
  EveryResultKept
PROPERTIES
  OldFilesUntouched
