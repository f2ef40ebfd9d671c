-------------------------- MODULE MCRoleIdentities --------------------------
(* One parent, one member and one account name that is created up to two   *)
(* times, two Household versions, two keys, two requests, two restarts.    *)
EXTENDS RoleIdentities, TLC

CONSTANTS k1, k2, r1, r2

\* v1 passed every check, v2 has no recovery evidence.
FailedChecks == [v \in {"v1", "v2"} |-> IF v = "v1" THEN {} ELSE {"recovery_semantics"}]

Symmetry == Permutations({k1, k2}) \cup Permutations({r1, r2})
=============================================================================
