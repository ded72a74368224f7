CONSTANTS
  cardA = cardA
  cardB = cardB
  None = None
  Idis <- MCIdis
  Amounts <- MCAmounts
  MerchantSet = TRUE
  InitBalance <- MCBalance
  Budgets <- MCBudgets
  MaxTaps = 2
  MaxQueue = 1
SPECIFICATION Spec
INVARIANTS
  TypeOK
  OnlyTappedCardsPay
  AttestationOfLastTap
  OnlyLateCloseSilences
  ModeShown
  StaleCardHasACause
PROPERTIES
  ReaderSettles
  PaymentsAnswered
CHECK_DEADLOCK FALSE
