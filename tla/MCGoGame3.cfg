SPECIFICATION OpeningSpec
CONSTANTS
  BoardSize = 3
  MaxMoves = 9
  MaxBlocks = 9
VIEW View
INVARIANTS
  LegalMovesAgree
  LibertiesExact
  BlocksAreGroups
  LastLibertyTrue
  UnplayableMovesAreLost
  PatternsTurnWithBoard
  ScoreIsArea
PROPERTY ImplementsRulesStep
CHECK_DEADLOCK FALSE
