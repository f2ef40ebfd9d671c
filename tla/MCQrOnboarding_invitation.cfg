SPECIFICATION FairSpec
CONSTANTS
  k1 = k1
  r1 = r1
  j1 = j1
  j2 = j2
  t1 = t1
  t2 = t2
  none = none
  ConsumeKeys = {k1}
  RevokeKeys = {r1}
  Jobs = {j1, j2}
  Threads = {t1, t2}
  None = none
  MaxCrashes = 1
CHECK_DEADLOCK FALSE
INVARIANTS SuccessOwnsTheEffect
PROPERTIES ImplementsInvitation 
