CONSTANTS
  Positions <- MCPositions
  Moves <- MCMoves
  Play <- GameEdges
  Pass <- MCPass
  Side <- MCSide
  Empties <- MCEmpties
  Initial = "R"
  DefaultDepth = 4
  Externals = {{"Black", "White"}}
  Openings <- OpeningWithPass
  AskedDepth = 2
  MaxTurns = 9
  Faults = {}
SPECIFICATION Spec
INVARIANTS
  OnlyFaultsSpoilAGame
CHECK_DEADLOCK FALSE
