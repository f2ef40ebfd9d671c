------------------------ MODULE MCEnrollmentOutcome -------------------------
(***************************************************************************)
(* An instance of EnrollmentOutcome for TLC: start, retry and cancel keys  *)
(* of one plan, keys of its verification, its cleanup and its scrub, which *)
(* two threads may run at once.                                            *)
(***************************************************************************)
EXTENDS EnrollmentOutcome, TLC

CONSTANTS s1, r1, c1, c2, t1, v1, v2, q1, x1, y1, y2

\* The scrubbing threads are alike.
Symmetry == Permutations({y1, y2})

\* What is left out for its size: the execution of a cleanup where a retry or
\* a second cancellation came before it, and two requests that execute it at
\* once after a crash.
ScrubbedOfOneStart ==
  /\ (job[r1] = NoJob /\ job[c2] = NoJob) \/ \A t \in Scrubbers : x[t] = Rest
  /\ crashes = 0 \/ \E t \in Scrubbers : x[t] = Rest
=============================================================================
