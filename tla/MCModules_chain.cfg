SPECIFICATION ContractsSpec
CONSTANTS
  ma = ma  mb = mb  a1 = a1  a2 = a2  b1 = b1  h1 = h1  h2 = h2  c1 = c1  k1 = k1  k2 = k2  s1 = s1  s2 = s2
  pub = pub  r1 = r1  r2 = r2  svc = svc  ct = ct
  Missing = Missing
  Manifests <- MCManifests
  Manifest <- MCManifest
  Packages <- MCPackages
  Package <- MCPackage
  Keys = {k1, k2}
  PolicyThreshold = 1
  Stagers = {s1, s2}
  Staged = {a1}
  Modules = {ma, mb}
  Hosts = {h1, h2}
  Capabilities = {c1}
  MaxVersion = 2
  Policies <- MCPolicies
  MaxCandidates = 2
  MaxChanges = 2
  Revisions = {r1, r2}
  Services = {svc}
  Contracts = {ct}
CONSTRAINT OneAtATime
SYMMETRY Symmetry
CHECK_DEADLOCK FALSE
INVARIANTS ContractsTypeOK StoreIsSound CurrentSetFits 
PROPERTIES ObjectsStay
