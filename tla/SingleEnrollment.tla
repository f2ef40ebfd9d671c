-------------------------- MODULE SingleEnrollment --------------------------
(***************************************************************************)
(* What a confirmed enrollment plan promises: the provider accepts at most *)
(* one enrollment command for it, Home Center records the acceptance after *)
(* that and for good, and asks for one cancellation at most, of what it    *)
(* recorded.                                                               *)
(***************************************************************************)

VARIABLES
  accepted,   \* enrollment commands the provider accepted
  phase,      \* "planned", "provider-accepted" or "cancel-requested"
  cancelled   \* cancel commands sent to the provider

enrollmentVars == <<accepted, phase, cancelled>>

Start == accepted = 0 /\ phase = "planned" /\ cancelled = 0

ProviderAccepts ==
  /\ accepted = 0 /\ phase = "planned"
  /\ accepted' = 1
  /\ UNCHANGED <<phase, cancelled>>

RecordAcceptance ==
  /\ accepted = 1 /\ phase = "planned"
  /\ phase' = "provider-accepted"
  /\ UNCHANGED <<accepted, cancelled>>

CommandCancel ==
  /\ phase = "provider-accepted" /\ cancelled = 0
  /\ cancelled' = 1
  /\ UNCHANGED <<accepted, phase>>

RecordCancel ==
  /\ phase = "provider-accepted" /\ cancelled = 1
  /\ phase' = "cancel-requested"
  /\ UNCHANGED <<accepted, cancelled>>

Promise ==
  Start /\ [][ProviderAccepts \/ RecordAcceptance \/ CommandCancel \/ RecordCancel]_enrollmentVars
=============================================================================
