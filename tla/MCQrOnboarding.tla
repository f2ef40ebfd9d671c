--------------------------- MODULE MCQrOnboarding ---------------------------
(* Small instance of QrOnboarding: one consume key and one revoke key, two  *)
(* admissions of the handoff, two request threads.                         *)
EXTENDS QrOnboarding

CONSTANTS k1, r1, j1, j2, t1, t2, none
=============================================================================
