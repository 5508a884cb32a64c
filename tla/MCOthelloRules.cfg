CONSTANTS
  Width = 8
  CaptureSteps = 5
  StartBoards <- MCStartBoards
  Requests <- MCRequests
  ConfigFiles <- MCConfigFiles
  ConfigFolder <- MCConfigFolder
  FileAt <- MCFileAt
  TableFiles <- MCTableFiles
  TornLines <- MCTornLines
SPECIFICATION EvaluatorSpec
INVARIANTS
  HashIsFull
  PositionIsBoard
  RulesAgree
  LoadedAsAsked
  BadConfigsRefused
  EvaluatorSymmetric
  ScoreIsBreakdownTotal
  PatternsAligned
PROPERTY ToolPlaysOrRefuses
CHECK_DEADLOCK FALSE
