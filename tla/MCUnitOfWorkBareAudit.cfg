CONSTANTS
  t1 = t1
  t2 = t2
  t3 = t3
  t4 = t4
  Task = {t1, t2, t3}
  MaxWrites = 2
  MaxNesting = 1
  BareAudits = TRUE
SPECIFICATION SafeSpec
CHECK_DEADLOCK FALSE
INVARIANT BareAuditKept
