SPECIFICATION FairSpec
CONSTANTS
  e1 = e1  e2 = e2  c1 = c1  t1 = t1  t2 = t2
  ExecuteKeys = {e1, e2}
  ReconcileKeys = {c1}
  Threads = {t1, t2}
  None = None
  MaxCrashes = 1
CHECK_DEADLOCK FALSE
INVARIANTS ClearedOnlyIfUnmanaged MutationNeedsItsOwnGrant
PROPERTIES RequestsEnd
