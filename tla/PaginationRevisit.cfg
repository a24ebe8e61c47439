SPECIFICATION Spec
CONSTANTS
  u1 = u1
  u2 = u2
  u3 = u3
  u4 = u4
  u5 = u5
  None = None
  Urls = {u1, u2}
  MaxNextPages = 3
INVARIANTS
  NoPageTwice
CHECK_DEADLOCK FALSE
