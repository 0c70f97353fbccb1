SPECIFICATION FairSpec
CONSTANTS
  Slaves = {"s1"}
  Crews = {{"s1"}}
  ClockCrews = {}
  Points = {1, 2}
  PassMove = 0
  Configs <- MCByNumber
  ClockTimes = {}
  Locals <- MCNoLocals
  DefaultSimulations = 3
  MaxGames = 3
  MaxSearches = 1
PROPERTY SearchesByNumberEnd
CHECK_DEADLOCK FALSE
