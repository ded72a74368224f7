CONSTANTS
  guiA = guiA
  guiB = guiB
  terminal = terminal
  cardA = cardA
  External = External
  None = None
  Guis <- MCGuis
  Terminals <- MCTerminals
  Idis <- MCIdis
  Amounts <- MCAmounts
  MaxLinks = 2
  Budgets <- MCBudgets
SPECIFICATION Spec
INVARIANTS
  TypeOK
  MirrorIsCurrent
  CommandsAccounted
  OneDaemonUnlessRaced
PROPERTIES
  GuiComesBack
CHECK_DEADLOCK FALSE
