SPECIFICATION FairSpec
CONSTANTS
  Slaves = {"s1", "s2"}
  Crews = {{"s1"}, {"s1", "s2"}}
  ClockCrews = {{"s1"}}
  Points = {1, 2}
  PassMove = 0
  Configs <- MCConfigs
  ClockTimes = {4, 10}
  Locals <- MCLocals
  DefaultSimulations = 3
  MaxGames = 3
  MaxSearches = 2
INVARIANTS
  TypeOK
  AnswersArePooled
  AnswersCoverCandidates
  BestMovePicked
  BudgetsWithinClock
  StoppedByOwnTimer
CHECK_DEADLOCK FALSE
PROPERTIES
  SearchesEnd
  ListsEnd
