SPECIFICATION Spec
CONSTANTS
  r1 = r1
  r2 = r2
  r3 = r3
  t1 = t1
  t2 = t2
  Worker = worker
  None = None
  RequestIds = {r1}
  Threads = {t1}
  Menu = {"smoke"}
  MaxUses <- Once
  MaxOps = 1
PROPERTIES
  CompletedIsSilent
CHECK_DEADLOCK FALSE
