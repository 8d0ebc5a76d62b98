CONSTANTS
  t1 = t1
  t2 = t2
  t3 = t3
  t4 = t4
  Task = {t1, t2, t3, t4}
  MaxWrites = 2
  MaxNesting = 1
  BareAudits = FALSE
SPECIFICATION Spec
CHECK_DEADLOCK FALSE
PROPERTY SerialSpec
