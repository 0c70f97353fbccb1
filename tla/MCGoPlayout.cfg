SPECIFICATION PlayoutSpec
CONSTANTS
  BoardSize = 2
  MaxMoves = 5
  MaxPlayout = 3
  MaxBlocks = 8
INVARIANT WorkingBoardCoherent
CHECK_DEADLOCK FALSE
