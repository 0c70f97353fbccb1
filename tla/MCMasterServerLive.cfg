SPECIFICATION FairSpec
CONSTANTS
  Conns = {"c1", "c2"}
  AiTypes = {"UCB"}
  Budgets <- MCUntimedOrOnePoll
  Garbles = FALSE
  MaxCommands = 3
CONSTRAINTS
  MCOneStays
  MCLimitFirst
  MCInOrder
INVARIANT TypeOK
PROPERTIES
  TimedRoundsEnd
  UndisturbedRoundsEnd
CHECK_DEADLOCK FALSE
