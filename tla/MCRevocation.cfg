CONSTANTS
  g1 = g1
  g2 = g2
  cardA = cardA
  cardB = cardB
  rA = rA
  rB = rB
  keyPinned = keyPinned
  keyOther = keyOther
  publisher = publisher
  operator = operator
  GateIds <- MCGateIds
  Idis <- MCIdis
  R1s <- MCR1s
  Vks <- MCVks
  Admins <- MCAdmins
  Publisher = publisher
  ShortBytes = ShortBytes
  NoProof = NoProof
  NoGate = NoGate
  Calls <- MCCalls
  InitLists <- MCInitLists
  Drifts <- MCDrifts
  MsPerSecond = 2
  MaxClockMs = 5
  MaxAllowlist = 2
SPECIFICATION Spec
PROPERTY
  RevocationApplies
