--------------------------- MODULE MCHomeServices ---------------------------
(* Two jobs, two workers and two applying threads on one instance.         *)
EXTENDS HomeServices, TLC

CONSTANTS j1, j2, w1, w2, t1, t2

Symmetry == Permutations({j1, j2}) \cup Permutations({w1, w2}) \cup Permutations({t1, t2})
=============================================================================
