SPECIFICATION FairSpec
CONSTANTS
  r1 = r1
  r2 = r2
  r3 = r3
  t1 = t1
  t2 = t2
  Worker = worker
  None = None
  RequestIds = {r1, r2}
  Threads = {t1}
  Menu = {"smoke", "complete", "cancel", "shutdown"}
  MaxUses <- FirstTwice
  MaxOps = 1
INVARIANTS
  NoOrphan
PROPERTIES
  ActiveIsServed
  LatchStopsWorker
  DestroyReturns
CHECK_DEADLOCK FALSE
