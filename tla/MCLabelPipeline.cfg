SPECIFICATION Spec
CONSTANTS
  Positions <- MCPositions
  Moves <- MCMoves
  Play <- GameEdges
  Pass <- MCPass
  Side <- MCSide
  Empties <- MCEmpties
  Margin <- MCMargin
  Value <- MCValue
  Eval <- MCEval
  Initial = "R"
  Jobs <- MCJobs
CHECK_DEADLOCK FALSE
INVARIANTS
  SamplesAsAsked
  LabelsAreOfSamples
  RefusalsJustified
  RankRelations
  ReportAddsUp
PROPERTIES
  ToolsEnd
