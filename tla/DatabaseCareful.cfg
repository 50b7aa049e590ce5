CONSTANTS
  Threads = {t1, t2}
  Nobody = Nobody
  Calls <- CarefulCalls
  ResetsFirst = TRUE
  MaxDepth = 2
SPECIFICATION FairSpec
INVARIANT NothingLeaked
PROPERTY LockObtained
