SPECIFICATION Spec
CONSTANTS
  k1 = k1
  k2 = k2
  w1 = w1
  w2 = w2
  None = None
  Keys = {k1, k2}
  Workers = {w1, w2}
  MaxGeneration = 1
  MaxJobs = 2
  MaxHistory = 1
SYMMETRY Symmetry
INVARIANTS RunAtMostOnce SuccessOnReviewedGeneration HistoryReadable
