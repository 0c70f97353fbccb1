SPECIFICATION FairSpec
CONSTANTS
  AiTypes = {"UCB", "RAN"}
  DefaultSimulations = 1
  BufferLines = 7
  MaxPlays = 3
  MaxCommands = 3
  MaxFaults = 1
  MaxLists = 2
INVARIANTS
  TypeOK
  AnswersAreOfTheirCommand
  CleanBatchesSurvived
PROPERTIES
  CleanBatchesAnswered
  LostSlavesReconnect
CHECK_DEADLOCK FALSE
