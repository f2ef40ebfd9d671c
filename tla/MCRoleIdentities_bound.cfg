SPECIFICATION Spec
CONSTANTS
  k1 = k1
  k2 = k2
  r1 = r1
  r2 = r2
  None = None
  Actors = {a1}
  Members = {m1}
  Accounts = {u1}
  Versions = {"v1", "v2"}
  Blockers <- FailedChecks
  Evidence = {e1}
  Keys = {k1, k2}
  Requests = {r1, r2}
  MaxHousehold = 1
  MaxIdentities = 2
  MaxCrashes = 2
SYMMETRY Symmetry
CHECK_DEADLOCK FALSE
INVARIANTS StartedAtMostOnce BoundToVerifiedAccount AuditedBindings
PROPERTIES BindingsStand
