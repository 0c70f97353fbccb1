SPECIFICATION KoSpec
CONSTANTS
  Width = 3
  Height = 2
  MaxMoves = 8
  Points <- MCPoints
  Neighbours <- MCNeighbours
INVARIANTS
  TypeOK
  NoDeadBlocks
  KoPointEnclosed
  StoneConservation
  KoPointRecordsCapture
PROPERTY KoForbidsRepetition
CHECK_DEADLOCK FALSE
