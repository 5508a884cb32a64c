CONSTANTS
  Positions <- MCPositions
  Moves <- MCMoves
  Play <- GameEdges
  Pass <- MCPass
  Side <- MCSide
  Empties <- MCEmpties
  Initial = "R"
  DefaultDepth = 4
  AskedGames <- MCAskedGames
  AskedTokens <- MCAskedTokens
  AskedDepths = {0, 2}
  PingIds = {1, 7}
SPECIFICATION ConsoleSpec
INVARIANTS
  HistoryLeadsToBoard
  SessionStaysInGame
  GoIsAnswered
CHECK_DEADLOCK FALSE
