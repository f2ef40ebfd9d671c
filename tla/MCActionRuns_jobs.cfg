SPECIFICATION FairSpec
CONSTANTS
  k1 = k1  k2 = k2  h1 = h1  h2 = h2  t1 = t1  t2 = t2
  Keys = {k1, k2}
  Hashes = {h1, h2}
  Threads = {t1, t2}
  None = None
  MaxCrashes = 1
  MaxFaults = 1
  MaxTrail = 1
INVARIANTS ExecutedAtMostOnce EvidenceIsLastWord
PROPERTIES JobsFinish
