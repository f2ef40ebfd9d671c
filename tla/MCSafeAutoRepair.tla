-------------------------- MODULE MCSafeAutoRepair --------------------------
(* Two keys and two workers on one resource of two generations.            *)
EXTENDS SafeAutoRepair, TLC

CONSTANTS k1, k2, w1, w2

Symmetry == Permutations({k1, k2}) \cup Permutations({w1, w2})
=============================================================================
