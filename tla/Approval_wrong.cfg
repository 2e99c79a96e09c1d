\* Is the accepted transfer the one on the clicked card?
CONSTANTS
  a1 = a1  a2 = a2
  Asks = {a1, a2}
  LabelOf <- Different
  NoAsk = NoAsk
  QueueCap = 2
  MaxClicks = 1
SPECIFICATION Spec
CHECK_DEADLOCK FALSE
INVARIANTS
  AcceptedWasShown
