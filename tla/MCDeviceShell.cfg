CONSTANTS
  Screens <- MCScreens
  CaptureScreens <- MCCaptureScreens
  Budgets <- MCBudgets
SPECIFICATION Spec
INVARIANTS
  TypeOK
  LedIsTruthful
  CameraFollowsPage
  AnswersBelong
CHECK_DEADLOCK FALSE
