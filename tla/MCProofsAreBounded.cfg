SPECIFICATION Spec
CONSTANTS
  Cards = {c1}
  Readers = {k1, k2}
  R1s <- MCR1s
  R2s <- MCR2s
  NoCard = NoCard
  Nobody = Nobody
  MaxConcurrentProofs = 1
  ReadTimeout = 1
  Budgets <- MCOrphans
INVARIANT ProofsAreBounded
CHECK_DEADLOCK FALSE
