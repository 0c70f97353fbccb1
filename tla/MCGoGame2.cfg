SPECIFICATION Spec
CONSTANTS
  BoardSize = 2
  MaxMoves = 9
  MaxBlocks = 9
VIEW View
INVARIANTS
  TypeOK
  LegalMovesAgree
  LibertiesExact
  BlocksAreGroups
  NeighbourCountsExact
PROPERTY ImplementsRules
CHECK_DEADLOCK FALSE
