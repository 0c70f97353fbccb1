SPECIFICATION Spec
CONSTANTS
  c1 = c1
  c2 = c2
  Conns = {c1, c2}
  AiTypes = {"UCB", "RAN"}
  Budgets <- MCUntimedOrOnePoll
  Garbles = TRUE
  MaxCommands = 5
SYMMETRY MCSymmetry
CONSTRAINT MCRounds
INVARIANTS
  AnswersAreRecent
  OutdatedOnlyBetween
PROPERTY CompleteRounds
CHECK_DEADLOCK FALSE
