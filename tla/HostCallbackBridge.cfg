SPECIFICATION FairSpec
CONSTANTS
  r1 = r1
  r2 = r2
  t1 = t1
  t2 = t2
  None = None
  Requests = {r1, r2}
  Threads = {t1, t2}
  JsBase = 10
  MaxOps = 1
  MaxJs = 2
  MaxReplies = 3
INVARIANTS
  TypeOK
  NoLeak
  StampedRequest
  ReachedOnce
PROPERTIES
  CompletionWakesScript
  AbortWakesScript
CHECK_DEADLOCK FALSE
