--------------------------- MODULE MCDeenrollment ---------------------------
(***************************************************************************)
(* Instances of Deenrollment for TLC: the keys of execute requests are     *)
(* e1, e2, that of a reconcile request c1.                                 *)
(***************************************************************************)
EXTENDS Deenrollment

CONSTANTS e1, e2, c1, t1, t2
=============================================================================
