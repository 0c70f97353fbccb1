SPECIFICATION FairSpec
CONSTANTS
  Conns = {"c1"}
  AiTypes = {"UCB"}
  Budgets <- MCUntimed
  Garbles = FALSE
  MaxCommands = 2
PROPERTY LostSlavesDropped
CHECK_DEADLOCK FALSE
