SPECIFICATION PlayoutSpec
CONSTANTS
  BoardSize = 2
  MaxMoves = 3
  MaxPlayout = 2
  MaxBlocks = 5
INVARIANT SimulationsStartFromGame
CHECK_DEADLOCK FALSE
