SPECIFICATION Spec
CONSTANTS
  Conns = {"c1", "c2"}
  AiTypes = {"RAN"}
  Budgets <- MCUntimed
  Garbles = FALSE
  MaxCommands = 3
INVARIANT NoOutdatedAnswer
CHECK_DEADLOCK FALSE
