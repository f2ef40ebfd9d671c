---------------------------- MODULE MCActionRuns ----------------------------
(***************************************************************************)
(* Instances of ActionRuns for TLC: two idempotency keys, two request      *)
(* hashes, two request threads.                                            *)
(***************************************************************************)
EXTENDS ActionRuns

CONSTANTS k1, k2, h1, h2, t1, t2
=============================================================================
