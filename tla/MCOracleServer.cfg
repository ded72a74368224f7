SPECIFICATION LiveSpec
CONSTANTS
  Cards = {c1, c2}
  Readers = {k1, k2}
  R1s <- MCR1s
  R2s <- MCR2s
  NoCard = NoCard
  Nobody = Nobody
  MaxConcurrentProofs = 1
  ReadTimeout = 1
  Budgets <- MCBudgets
INVARIANTS
  TypeOK
  
  ProverAgrees
  AnswersMatchCalls
PROPERTIES
  FreshOnReceipt
  AttestEnds
CHECK_DEADLOCK FALSE
