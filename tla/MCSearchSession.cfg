CONSTANTS
  WorldCount = 3
  OtherWorlds = 2
  RootNodes = {"R", "A"}
  AskedDepths = {2, 4}
  AskedModes = {"FixedDepth", "Iterative"}
  AskedEntries = {3}
  AskAspiration = TRUE
  EvaluatorKind = "weights"
  Positions <- MCPositions
  Moves <- MCMoves
  Play <- MCPlay
  Pass <- MCPass
  Side <- MCSide
  Empties <- MCEmpties
  Margin <- MCMargin
  Value <- MCValue
  HashBits <- MCHashBits
  MidBucketWidth = 2
  GenerationMax = 2
  Identities <- MCIdentities
  MaxDepth = 5
  Evaluators <- MCEvaluators
  IdentityOf <- MCIdentityOf
  Evaluate <- MCEvaluate
  SearchValues <- MCSearchValues
  PvsMinDepth = 2
  HistoryCap = 20
  HistoryMaxBonus = 12
  KillerFirstBonus = 8
  KillerSecondBonus = 4
  LastBucket = 3
  DynamicScore <- MCDynamicScore
  DynamicMinDepth = 2
  DynamicMinMoves = 2
  Callers <- MCCallers
  NoRoot = NoRoot
  RequestsOf <- MCRequestsOf
  MaxSearches <- MCMaxSearches
  SearchScoreMax = 8
  AlwaysExactEmpties = 1
  AdaptiveMaxEmpties = 2
  MaxRootMoves = 2
  OpponentMoves <- MCOpponentMoves
  ExactScale = 1000
  ExactLines <- MCExactLines
  DepthValue <- MCDepthValue
  PassFree <- MCPassFree
SPECIFICATION FairSpec
INVARIANTS
  ReturnsKeepContract
  TableSound
  NegamaxExact
PROPERTIES
  CutoffsKeepOrder
  ServiceSpec
  ServiceResponds
CHECK_DEADLOCK FALSE
