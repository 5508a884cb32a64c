CONSTANTS
  WorldCount = 6
  OtherWorlds = 0
  RootNodes = {"R", "A"}
  AskedDepths = {4}
  AskedModes = {"FixedDepth", "Iterative"}
  AskedEntries = {0}
  AskAspiration = TRUE
  EvaluatorKind = "one"
  Positions <- MCPositions
  Moves <- MCMoves
  Play <- MCPlay
  Pass <- MCPass
  Side <- MCSide
  Empties <- MCEmpties
  Margin <- MCMargin
  Value <- MCValue
  HashBits <- MCHashBits
  MidBucketWidth = 2
  GenerationMax = 2
  Identities <- MCIdentities
  MaxDepth = 5
  Evaluators <- MCEvaluators
  IdentityOf <- MCIdentityOf
  Evaluate <- MCEvaluate
  SearchValues <- MCSearchValues
  PvsMinDepth = 2
  HistoryCap = 20
  HistoryMaxBonus = 12
  KillerFirstBonus = 8
  KillerSecondBonus = 4
  LastBucket = 3
  DynamicScore <- MCDynamicScore
  DynamicMinDepth = 2
  DynamicMinMoves = 2
  Callers <- MCCallers
  NoRoot = NoRoot
  RequestsOf <- MCRequestsOf
  MaxSearches <- MCMaxSearches
  SearchScoreMax = 8
  AlwaysExactEmpties = 1
  AdaptiveMaxEmpties = 2
  MaxRootMoves = 2
  OpponentMoves <- MCOpponentMoves
  ExactScale = 1000
  ExactLines <- MCExactLines
  DepthValue <- MCDepthValue
  PassFree <- MCPassFree
SPECIFICATION FairSpec
PROPERTIES
  FixedAndIterativeAgree
CHECK_DEADLOCK FALSE
