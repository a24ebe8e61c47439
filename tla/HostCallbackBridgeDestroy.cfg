SPECIFICATION Spec
CONSTANTS
  r1 = r1
  r2 = r2
  t1 = t1
  t2 = t2
  None = None
  Requests = {r1}
  Threads = {t1}
  JsBase = 10
  MaxOps = 1
  MaxJs = 1
  MaxReplies = 1
PROPERTIES
  NoCallbackAfterDestroy
CHECK_DEADLOCK FALSE
