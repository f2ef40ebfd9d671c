SPECIFICATION VerificationSpec
CONSTANTS
  NoLimit = NoLimit
  Nothing = Nothing
  Role = "child"
  Bundles <- MCBundles
  RuleSets <- MCRuleSets
  Accesses <- MCAccesses
  Usages <- MCUsages
  MaxGeneration <- MCGenerations
  MaxHousehold = 1
  MaxRequests = 2
  MaxRestarts = 1
CONSTRAINTS
  TwoAtATime
  FewPlans
  Seldom
CHECK_DEADLOCK FALSE
INVARIANTS PolicyTypeOK VerifiedWasInForce AppliedAtMostOnce RulesHold
PROPERTIES GenerationsAdvance
