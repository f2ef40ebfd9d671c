-------------------------- MODULE OneTimeInvitation --------------------------
(***************************************************************************)
(* What QR onboarding promises of one invitation: it is settled once, as   *)
(* consumed or as revoked; the effect that follows is written after that,  *)
(* once, for one change job; and only that job ever reports it.            *)
(***************************************************************************)

CONSTANTS Jobs, None

VARIABLES
  outcome,   \* "open", "consumed" or "revoked"
  effect,    \* the job the product effect was written for, None before that
  reported   \* jobs that reported the effect as verified

invitationVars == <<outcome, effect, reported>>

Start == outcome = "open" /\ effect = None /\ reported = {}

SettleOnce ==
  /\ outcome = "open"
  /\ outcome' \in {"consumed", "revoked"}
  /\ UNCHANGED <<effect, reported>>

TakeForce ==
  /\ outcome # "open" /\ effect = None
  /\ effect' \in Jobs
  /\ UNCHANGED <<outcome, reported>>

Report ==
  /\ effect # None /\ reported = {}
  /\ reported' = {effect}
  /\ UNCHANGED <<outcome, effect>>

Promise == Start /\ [][SettleOnce \/ TakeForce \/ Report]_invitationVars
=============================================================================
