CONSTANTS
  Threads = {t1, t2}
  Nobody = Nobody
  Calls <- LockingCalls
  ResetsFirst = FALSE
  MaxDepth = 2
SPECIFICATION Spec
SYMMETRY Symmetry
INVARIANTS
  TypeOK
  UnlocksCovered
  LockedCallsSerialized
  OwnResult
  TransactionKnown
PROPERTIES
  CursorUndisturbed
  IsMutex
\* A leaked level stops every other thread for good.
CHECK_DEADLOCK FALSE
