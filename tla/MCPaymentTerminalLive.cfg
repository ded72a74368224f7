CONSTANTS
  cardA = cardA
  cardB = cardB
  cli = cli
  gui = gui
  None = None
  Idis <- MCIdis
  Amounts <- MCAmounts
  Operators <- MCOneOperator
  MerchantSet = TRUE
  InitBalance <- MCBalance
  MaxMoves = 2
  MaxOps = 1
  MaxConnects = 1
  MaxDrops = 0
  MaxQueue = 1
  Starts <- MCAll
SPECIFICATION LiveSpec
PROPERTIES
  CardSettles
  PaymentsEnd
CHECK_DEADLOCK FALSE
