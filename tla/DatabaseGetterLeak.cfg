CONSTANTS
  Threads = {t1, t2}
  Nobody = Nobody
  Calls <- GetterCalls
  ResetsFirst = TRUE
  MaxDepth = 2
SPECIFICATION Spec
INVARIANT NothingLeaked
CHECK_DEADLOCK FALSE
