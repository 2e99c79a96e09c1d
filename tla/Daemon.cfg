\* Two operations and one browse; a client may stop at any moment.
CONSTANTS
  t1 = t1  t2 = t2  t3 = t3  b1 = b1
  Tasks = {t1, t2}
  Browsers = {b1}
  NoTask = NoTask
SPECIFICATION FairSpec
CHECK_DEADLOCK FALSE
INVARIANTS
  PhaseMatchesSlot
  SingleOperationUntilStop
PROPERTIES
  OperationsLetGo
