CONSTANTS
  Positions <- MCPositions
  Moves <- MCMoves
  Play <- GameEdges
  Pass <- MCPass
  Side <- MCSide
  Empties <- MCEmpties
  Initial = "R"
  DefaultDepth = 4
  Externals = {{"Black", "White"}, {"White"}}
  Openings <- MCOpenings
  AskedDepth = 2
  MaxTurns = 9
  Faults = {"nostart", "slow", "hang", "crash"}
SPECIFICATION FairSpec
INVARIANTS
  AnswerIsForBoard
  OnlyFaultsSpoilAGame
  NoEngineLeftBehind
PROPERTIES
  RunnerIsNeverStuck
  PlayedByTheRules
CHECK_DEADLOCK FALSE
