---------------------------- MODULE MCHousehold -----------------------------
(***************************************************************************)
(* Instances of Household for TLC.                                         *)
(***************************************************************************)
EXTENDS Household

CONSTANTS m1, m2, m3, d1, d2, e1, e2, x1, r1, r2, t1, t2

NoDevices == <<>>
\* The device that is registered here is enrolled.
NewDeviceEnrolled == [c \in Managed |-> d1]
=============================================================================
