SPECIFICATION Spec
CONSTANTS
  r1 = r1
  r2 = r2
  r3 = r3
  t1 = t1
  t2 = t2
  Worker = worker
  None = None
  RequestIds = {r1, r2}
  Threads = {t1, t2}
  Menu = {"builtin", "smoke", "remote", "complete", "fail", "cancel", "shutdown"}
  MaxUses <- Once
  MaxOps = 2
SYMMETRY Symmetry
INVARIANTS
  TypeOK
  QueuedIsReserved
  PendingServesActive
  ConfirmedCancelHolds
  ShutdownAnswersAll
PROPERTIES
  ShutdownIsFinal
  LifecycleSpec
CHECK_DEADLOCK FALSE
