\* Two Asks that look alike and four clicks.
CONSTANTS
  a1 = a1  a2 = a2
  Asks = {a1, a2}
  LabelOf <- Alike
  NoAsk = NoAsk
  QueueCap = 1
  MaxClicks = 4
SPECIFICATION EFairSpec
CHECK_DEADLOCK FALSE
INVARIANTS
  AcceptedByAClick
  CancelHolds
  RadioIsFreed
PROPERTIES
  PendingIsShown
  QuitEnds
