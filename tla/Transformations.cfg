SPECIFICATION Spec
CONSTANTS
  Columns <- PingColumns
  ResultOf <- ThreeReplies
  TransformationLists <- UpToThree
INVARIANTS MatchesReference
