\* Is there ever more than one operation when clients may stop?
CONSTANTS
  t1 = t1  t2 = t2  t3 = t3  b1 = b1
  Tasks = {t1, t2, t3}
  Browsers = {b1}
  NoTask = NoTask
SPECIFICATION Spec
SYMMETRY TaskSymmetry
CHECK_DEADLOCK FALSE
INVARIANTS
  SingleOperation
