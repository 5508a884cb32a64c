SPECIFICATION Spec
CONSTANTS
  Positions <- MCPositions
  Moves <- MCMoves
  Play <- GameEdges
  Pass <- MCPass
  Side <- MCSide
  Empties <- MCEmpties
  Initial = "R"
  BlackDiscs <- MCBlackDiscs
  WhiteDiscs <- MCWhiteDiscs
  Matches <- MCMatches
  ExactThreshold = 2
  External <- MCExternal
CHECK_DEADLOCK FALSE
INVARIANTS
  LineReadsBack
  RefusalsJustified
  DivergencesStand
  RecordsTellTheGames
