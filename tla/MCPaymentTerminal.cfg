CONSTANTS
  cardA = cardA
  cardB = cardB
  cli = cli
  gui = gui
  None = None
  Idis <- MCIdis
  Amounts <- MCAmounts
  Operators <- MCOperators
  MerchantSet = TRUE
  InitBalance <- MCBalance
  MaxMoves = 2
  MaxOps = 3
  MaxConnects = 2
  MaxDrops = 1
  MaxQueue = 2
  Starts <- MCStarts
SPECIFICATION Spec
SYMMETRY MCAlike
INVARIANTS
  TypeOK
  WalletMatchesProof
  ResultsAreTruthful
  CurrentIsAnnounced
  ScreenHasItsData
  PageIsUpToDate
  ModeShown
PROPERTIES
  KeepsTill
CHECK_DEADLOCK FALSE
