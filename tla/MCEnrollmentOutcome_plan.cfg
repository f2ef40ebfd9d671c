SPECIFICATION OutcomeSpec
CONSTANTS
  s1 = s1  r1 = r1  c1 = c1  c2 = c2  t1 = t1
  v1 = v1  v2 = v2  q1 = q1  x1 = x1  y1 = y1  y2 = y2
  StartKeys = {s1}
  RetryKeys = {r1}
  CancelKeys = {c1, c2}
  Threads = {t1}
  VerifyKeys = {v1, v2}
  CleanKeys = {q1}
  ScrubKeys = {x1}
  Scrubbers = {y1, y2}
  None = None
  MaxCrashes = 1
  MaxHousehold = 1
SYMMETRY Symmetry
CONSTRAINT ScrubbedOfOneStart
CHECK_DEADLOCK FALSE
INVARIANTS OutcomeTypeOK CleanedStaysClean
PROPERTIES ImplementsEnrollment  ScrubbedOnlyIfRejected
