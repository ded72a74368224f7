CONSTANTS
  cardA = cardA
  cardB = cardB
  cli = cli
  gui = gui
  None = None
  Idis <- MCIdis
  Amounts <- MCAmounts
  Operators <- MCOneOperator
  MerchantSet = TRUE
  InitBalance <- MCBalance
  MaxMoves = 2
  MaxOps = 1
  MaxConnects = 1
  MaxDrops = 0
  MaxQueue = 2
  Starts <- MCAll
SPECIFICATION Spec
INVARIANT
  RemovedGoesIdle
CHECK_DEADLOCK FALSE
