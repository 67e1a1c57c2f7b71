SPECIFICATION AccessSpec
CONSTANTS
  Questions <- NestedQuestions
  ItemPaths <- ListedPaths
  Whole = Whole
CHECK_DEADLOCK FALSE
INVARIANT TokenReachesPrefix
