CONSTANTS
  Cards = {c1, c2}
  R1s <- MCR1s
  R2s <- MCR2s
  Vks = {vkA, vkB}
  None = None
  OldR1 <- MCOldR1
  OldR2 <- MCOldR2
  Day = 1
  MaxEvents = 2
SPECIFICATION Spec
INVARIANTS
  TypeOK
  ExitCodeIsEarned
CHECK_DEADLOCK FALSE
