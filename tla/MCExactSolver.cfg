CONSTANTS
  Spread = 3
  Orders = 20
  TablelessOrders = 4
  Positions <- MCPositions
  Moves <- MCMoves
  Play <- MCPlay
  Pass <- MCPass
  Side <- MCSide
  Margin <- MCMargin
  Empties <- MCEmpties
  OrderScore <- MCOrderScore
  Value <- MCValue
  Roots <- MCRoots
  BucketCount = 2
  BucketWidth = 2
  BucketIndex <- MCBucketIndex
  Tableless <- MCTableless
  LastNSpecializedEmpties = 2
  RootPvsMinEmpties = 4
SPECIFICATION FairSpec
INVARIANTS
  TypeOK
  ReturnsKeepContract
  TableSound
  MarginExact
  BestMoveDeterministic
  LineLegal
PROPERTY Termination
CHECK_DEADLOCK FALSE
