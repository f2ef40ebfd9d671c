---------------------------- MODULE HouseholdLog ----------------------------
(***************************************************************************)
(* What the Household product state promises the people who change it: the *)
(* confirmed changes form one log, every change enters the log at most     *)
(* once, and a change whose confirmation was acknowledged stays in force.  *)
(* The log only grows: optimistic stale-state rejection (release notes     *)
(* 0.27, 0.49 and 0.51) turns away whoever planned on an older state.      *)
(***************************************************************************)
EXTENDS Sequences, Functions

CONSTANT Changes          \* the changes people plan and confirm

VARIABLES log,            \* the changes in force, in the order they took effect
          acked           \* the changes whose confirmation was acknowledged

logVars == <<log, acked>>

LogInit ==
  /\ log = <<>>
  /\ acked = {}

\* A change takes effect after everything that is already in force.
Commit(c) ==
  /\ c \notin Range(log)
  /\ log' = Append(log, c)
  /\ UNCHANGED acked

\* Its author is told so, once it is in force.
Acknowledge(c) ==
  /\ c \in Range(log)
  /\ acked' = acked \cup {c}
  /\ UNCHANGED log

\* Restart recovery does both at once.
CommitAndAcknowledge(c) ==
  /\ c \notin Range(log)
  /\ log' = Append(log, c)
  /\ acked' = acked \cup {c}

LogNext ==
  \E c \in Changes : Commit(c) \/ Acknowledge(c) \/ CommitAndAcknowledge(c)

LogSpec == LogInit /\ [][LogNext]_logVars

=============================================================================
