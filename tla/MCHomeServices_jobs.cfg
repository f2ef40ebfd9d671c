SPECIFICATION Spec
CONSTANTS
  j1 = j1  j2 = j2  w1 = w1  w2 = w2  t1 = t1  t2 = t2
  Jobs = {j1, j2}
  Workers = {w1, w2}
  Threads = {t1, t2}
  Operations = {"install", "configure", "health", "update", "backup", "restore", "remove"}
  HasBackup = TRUE
  LocalOnly = FALSE
  None = None
  MaxGeneration = 3
SYMMETRY Symmetry
CHECK_DEADLOCK FALSE
INVARIANTS OneWriterPerGeneration CompletionIsTrue
PROPERTIES ChangesFollowPlans VerifiedWasInForce
