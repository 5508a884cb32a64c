CONSTANTS
  Positions <- MCPositions
  Moves <- MCMoves
  Play <- GameEdges
  Pass <- MCPass
  Side <- MCSide
  Empties <- MCEmpties
  Initial = "R"
  DefaultDepth = 4
  Externals = {{"White"}}
  Openings <- MCOpenings
  AskedDepth = 2
  MaxTurns = 9
  Faults = {"crash"}
SPECIFICATION Spec
INVARIANTS
  RunnerSurvives
CHECK_DEADLOCK FALSE
