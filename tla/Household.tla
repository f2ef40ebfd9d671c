----------------------------- MODULE Household ------------------------------
(***************************************************************************)
(* The Household product state and the four services that replace it.      *)
(*                                                                         *)
(* HouseholdRuntimeService adds members, HouseholdDeviceRuntimeService     *)
(* registers devices, the post-condition service marks a device managed    *)
(* once its enrollment is verified, and the de-enrollment execution        *)
(* service clears that mark.  Each keeps a durable envelope per change     *)
(* with the snapshot the change was planned on, each checks the current    *)
(* snapshot against it, and each writes the whole snapshot back.  A        *)
(* service serialises its own requests with its own lock; the store makes  *)
(* every single get_meta and set_meta atomic and nothing larger.           *)
(*                                                                         *)
(* A snapshot's identity digests its content, its generation and its       *)
(* predecessor's identity, so a snapshot is modelled by the sequence of    *)
(* changes that led to it; its generation is the length plus one.          *)
(* Requests that are refused before any store call (malformed, actor not   *)
(* bound, not a parent) change nothing and are left out, and so are the    *)
(* audit entries of plans and of the bootstrap, which follow the write.    *)
(***************************************************************************)
EXTENDS Integers, Sequences, FiniteSets, Functions

CONSTANTS
  Members,      \* proposals to add a family member, each with a fresh id
  Devices,      \* proposals to register a device, each with a fresh id
  Enrolls,      \* post-condition verifications that may mark a device managed
  Deenrolls,    \* de-enrollment plans that may clear the mark
  Registered,   \* devices the household has before the behaviour starts
  DeviceOf,     \* the device of an enrollment or a de-enrollment
  Threads,      \* request threads of the threading HTTP server
  Unconfigured, \* cluster_meta has no household state yet
  None,         \* a thread that works on nothing
  MaxCrashes    \* bound on the number of process crashes

Proposals == Members \cup Devices
Managed == Enrolls \cup Deenrolls
Changes == Proposals \cup Managed

ASSUME ChangesAssumption ==
  /\ Members \cap Devices = {}
  /\ Enrolls \cap Deenrolls = {}
  /\ Proposals \cap Managed = {}
  /\ Registered \cap Changes = {}
  /\ None \notin Changes
  /\ Unconfigured \notin Seq(Changes)

ASSUME DeviceAssumption == DeviceOf \in [Managed -> Devices \cup Registered]

ASSUME CrashAssumption == MaxCrashes \in Nat

VARIABLES
  state,    \* HOUSEHOLD_STATE_KEY in cluster_meta
  env,      \* the durable envelope of each change: its status, base_snapshot
  audit,    \* the audit outcomes recorded for each change
  reply,    \* the last answer a confirmation of the change was given
  pc,       \* where a request thread stands
  work,     \* the change it works on
  onBase,   \* current_is_base, read at the start of a confirmation
  todo,     \* verified enrollments restart recovery still has to look at
  crashes

stored == <<state, env, audit>>
local == <<pc, work, onBase>>
vars == <<state, env, audit, reply, pc, work, onBase, todo, crashes>>

Statuses == {"none", "pending", "applying", "verified", "unverified", "applied"}
Steps == {"idle", "request", "mark", "write", "complete", "acknowledge",
          "apply", "readback", "rollback", "finish", "report"}
Replies == {"none", "applied", "already-applied", "stale", "mismatch"}
Outcomes == {"requested", "succeeded", "recovered"}
Envelope == [status : Statuses, base : Seq(Changes)]

-----------------------------------------------------------------------------
(* Snapshots.                                                              *)

Expected(c) == Append(env[c].base, c)

Present(s, d) == d \in Registered \cup Range(s)

\* The device's managed flag: its last enrollment or de-enrollment was the former.
IsManaged(s, d) ==
  \E i \in DOMAIN s :
    /\ s[i] \in Enrolls
    /\ DeviceOf[s[i]] = d
    /\ \A j \in DOMAIN s : j > i => ~(s[j] \in Deenrolls /\ DeviceOf[s[j]] = d)

\* What a proposal added is still there exactly as proposed.
Unaltered(s, c) ==
  /\ c \in Range(s)
  /\ c \in Devices => ~IsManaged(s, c)

Service(c) ==
  IF c \in Members THEN "HouseholdRuntimeService"
  ELSE IF c \in Devices THEN "HouseholdDeviceRuntimeService"
  ELSE IF c \in Enrolls THEN "DeviceManagementEnrollmentPostConditionRuntimeService"
  ELSE "DeviceManagementDeenrollmentExecutionRuntimeService"

Busy(t) == pc[t] # "idle"

\* Mutant: the handlers forget `with self._lock`.
LockAlwaysFree(c) == TRUE

\* The service's own RLock is free.
LockFree(c) == \A t \in Threads : Busy(t) => Service(work[t]) # Service(c)

\* main() starts recovery, and only then the server.
Serving == todo = {}

-----------------------------------------------------------------------------
TypeOK ==
  /\ state \in {Unconfigured} \cup Seq(Changes)
  /\ env \in [Changes -> Envelope]
  /\ audit \in [Changes -> SUBSET Outcomes]
  /\ reply \in [Changes -> Replies]
  /\ pc \in [Threads -> Steps]
  /\ work \in [Threads -> Changes \cup {None}]
  /\ onBase \in [Threads -> BOOLEAN]
  /\ todo \in SUBSET Enrolls
  /\ crashes \in Nat
  /\ \A t \in Threads : Busy(t) => work[t] \in Changes

Init ==
  /\ state = IF Registered = {} THEN Unconfigured ELSE <<>>
  /\ env = [c \in Changes |-> [status |-> "none", base |-> <<>>]]
  /\ audit = [c \in Changes |-> {}]
  /\ reply = [c \in Changes |-> "none"]
  /\ pc = [t \in Threads |-> "idle"]
  /\ work = [t \in Threads |-> None]
  /\ onBase = [t \in Threads |-> FALSE]
  /\ todo = {}
  /\ crashes = 0

Goto(t, step) == pc' = [pc EXCEPT ![t] = step]

Leave(t) ==
  /\ pc' = [pc EXCEPT ![t] = "idle"]
  /\ work' = [work EXCEPT ![t] = None]
  /\ onBase' = [onBase EXCEPT ![t] = FALSE]

SetStatus(c, status) == env' = [env EXCEPT ![c].status = status]

Record(c, outcome) == audit' = [audit EXCEPT ![c] = @ \cup {outcome}]

-----------------------------------------------------------------------------
(* Planning.                                                               *)

\* bootstrap: the first snapshot, with its parent and the actor binding.
Bootstrap ==
  /\ Serving
  /\ state = Unconfigured
  /\ \A c \in Members : LockFree(c)
  /\ state' = <<>>
  /\ UNCHANGED <<env, audit, reply, local, todo, crashes>>

\* plan_member_add and plan_device_add take whatever state is current.  Nobody
\* knows the proposal's id before the reply, so reading the state and writing
\* the envelope make one step.
PlanProposal(c) ==
  /\ c \in Proposals
  /\ env[c].status = "none"
  /\ state # Unconfigured
  /\ env' = [env EXCEPT ![c] = [status |-> "pending", base |-> state]]

\* A verification is planned for a device that is not managed; a de-enrollment
\* for one that is, and it names the verification that was applied to it.
PlanManaged(c) ==
  /\ c \in Managed
  /\ env[c].status = "none"
  /\ state # Unconfigured
  /\ Present(state, DeviceOf[c])
  /\ IF c \in Enrolls
     THEN ~IsManaged(state, DeviceOf[c])
     ELSE /\ IsManaged(state, DeviceOf[c])
          /\ \E e \in Enrolls : DeviceOf[e] = DeviceOf[c] /\ env[e].status = "applied"
  /\ env' = [env EXCEPT ![c] = [status |-> "pending", base |-> state]]

Plan(c) ==
  /\ Serving
  /\ LockFree(c)
  /\ PlanProposal(c) \/ PlanManaged(c)
  /\ UNCHANGED <<state, audit, reply, local, todo, crashes>>

-----------------------------------------------------------------------------
(* Confirmation of a member or device proposal, one step per store call.   *)

\* The current snapshot is the one the change was planned on, or the one it
\* wrote before it was interrupted: a managed change knows that one from its
\* first verified receipt on, a de-enrollment only as long as that stands.
Accepts(c) ==
  \/ state = env[c].base
  \/ /\ state = Expected(c)
     /\ \/ c \in Proposals
        \/ env[c].status = "verified"
        \/ c \in Enrolls /\ env[c].status = "unverified"

\* Mutant: the stale-state check is gone.
BeginConfirmUnchecked(t, c) ==
  /\ Serving /\ ~Busy(t) /\ LockFree(c)
  /\ c \in Proposals
  /\ env[c].status \in {"pending", "applying"}
  /\ Goto(t, IF env[c].status = "pending" THEN "request" ELSE "write")
  /\ work' = [work EXCEPT ![t] = c]
  /\ onBase' = [onBase EXCEPT ![t] = TRUE]
  /\ UNCHANGED <<stored, reply, todo, crashes>>

\* Under the service's lock: read the envelope, read the state, decide.
BeginConfirm(t, c) ==
  /\ Serving /\ ~Busy(t) /\ LockFree(c)
  /\ c \in Proposals
  /\ env[c].status \in {"pending", "applying"}
  /\ Accepts(c)
  /\ Goto(t, IF env[c].status = "pending" THEN "request"
             ELSE IF state = env[c].base THEN "write" ELSE "complete")
  /\ work' = [work EXCEPT ![t] = c]
  /\ onBase' = [onBase EXCEPT ![t] = (state = env[c].base)]
  /\ UNCHANGED <<stored, reply, todo, crashes>>

\* household_member_change_stale and its likes: the state has moved on.
RefuseStale(c) ==
  /\ Serving /\ LockFree(c)
  /\ \/ c \in Proposals /\ env[c].status \in {"pending", "applying"}
     \/ c \in Managed /\ env[c].status \in {"pending", "verified", "unverified"}
  /\ ~Accepts(c)
  /\ reply' = [reply EXCEPT ![c] = "stale"]
  /\ UNCHANGED <<stored, local, todo, crashes>>

\* A repeated confirmation of a proposal compares it with what is there now;
\* a repeated confirmation of a managed change returns the stored receipt.
Replay(c) ==
  /\ Serving /\ LockFree(c)
  /\ env[c].status = "applied"
  /\ reply' = [reply EXCEPT ![c] =
       IF c \in Managed THEN "applied"
       ELSE IF Unaltered(state, c) THEN "already-applied" ELSE "mismatch"]
  /\ UNCHANGED <<stored, local, todo, crashes>>

RequestAudit(t) ==
  /\ pc[t] = "request"
  /\ Record(work[t], "requested")
  /\ Goto(t, "mark")
  /\ UNCHANGED <<state, env, reply, work, onBase, todo, crashes>>

MarkApplying(t) ==
  /\ pc[t] = "mark"
  /\ SetStatus(work[t], "applying")
  /\ Goto(t, IF onBase[t] THEN "write" ELSE "complete")
  /\ UNCHANGED <<state, audit, reply, work, onBase, todo, crashes>>

\* set_meta(HOUSEHOLD_STATE_KEY, expected): the state is not read again.
WriteState(t) ==
  /\ pc[t] = "write"
  /\ state' = Expected(work[t])
  /\ Goto(t, IF work[t] \in Proposals THEN "complete" ELSE "readback")
  /\ UNCHANGED <<env, audit, reply, work, onBase, todo, crashes>>

\* Mutant: a recovered change is acknowledged without a word in the trail.
CompletionUnaudited(t) ==
  /\ pc[t] = "complete"
  /\ IF onBase[t] THEN Record(work[t], "succeeded") ELSE UNCHANGED audit
  /\ Goto(t, "acknowledge")
  /\ UNCHANGED <<state, env, reply, work, onBase, todo, crashes>>

CompletionAudit(t) ==
  /\ pc[t] = "complete"
  /\ Record(work[t], IF onBase[t] THEN "succeeded" ELSE "recovered")
  /\ Goto(t, "acknowledge")
  /\ UNCHANGED <<state, env, reply, work, onBase, todo, crashes>>

\* Mutant: the lock is kept after the answer.
MarkAppliedLocked(t) ==
  /\ pc[t] = "acknowledge"
  /\ SetStatus(work[t], "applied")
  /\ reply' = [reply EXCEPT ![work[t]] = "applied"]
  /\ UNCHANGED <<pc, work, onBase, state, audit, todo, crashes>>

MarkApplied(t) ==
  /\ pc[t] = "acknowledge"
  /\ SetStatus(work[t], "applied")
  /\ reply' = [reply EXCEPT ![work[t]] = IF onBase[t] THEN "applied" ELSE "already-applied"]
  /\ Leave(t)
  /\ UNCHANGED <<state, audit, todo, crashes>>

-----------------------------------------------------------------------------
(* _apply_verified of the post-condition and the de-enrollment service.    *)

\* A request reaches _apply_verified with a durable verified receipt.  Attempts
\* that do not get there from pending leave it as good as pending.
BeginApply(t, c) ==
  /\ Serving /\ ~Busy(t) /\ LockFree(c)
  /\ c \in Managed
  /\ env[c].status \in {"pending", "verified", "unverified"}
  /\ Accepts(c)
  /\ SetStatus(c, "verified")
  /\ work' = [work EXCEPT ![t] = c]
  /\ Goto(t, "apply")
  /\ UNCHANGED <<state, audit, reply, onBase, todo, crashes>>

\* A verified change is confirmed again, and this time the read-back fails, is
\* rejected or never comes: its receipt no longer stands.  The planning service
\* confirms a de-enrollment again only on the planned snapshot.
Reverify(c) ==
  /\ Serving /\ LockFree(c)
  /\ c \in Managed
  /\ env[c].status \in {"verified", "unverified"}
  /\ Accepts(c)
  /\ c \in Deenrolls => state = env[c].base
  /\ SetStatus(c, "unverified")
  /\ UNCHANGED <<state, audit, reply, local, todo, crashes>>

ReadCurrent(t) ==
  /\ pc[t] = "apply"
  /\ \/ state = env[work[t]].base /\ Goto(t, "write") /\ UNCHANGED <<reply, work, onBase>>
     \/ state = Expected(work[t]) /\ Goto(t, "readback") /\ UNCHANGED <<reply, work, onBase>>
     \/ /\ state \notin {env[work[t]].base, Expected(work[t])}
        /\ reply' = [reply EXCEPT ![work[t]] = "stale"]
        /\ Leave(t)
  /\ UNCHANGED <<stored, todo, crashes>>

ReadBack(t) ==
  /\ pc[t] = "readback"
  /\ Goto(t, IF state = Expected(work[t]) THEN "finish" ELSE "rollback")
  /\ UNCHANGED <<stored, reply, work, onBase, todo, crashes>>

\* A read-back mismatch puts the base snapshot back, whatever is there now.
Rollback(t) ==
  /\ pc[t] = "rollback"
  /\ state' = env[work[t]].base
  /\ reply' = [reply EXCEPT ![work[t]] = "mismatch"]
  /\ Leave(t)
  /\ UNCHANGED <<env, audit, todo, crashes>>

FinishManaged(t) ==
  /\ pc[t] = "finish"
  /\ SetStatus(work[t], "applied")
  /\ Goto(t, "report")
  /\ UNCHANGED <<state, audit, reply, work, onBase, todo, crashes>>

ReportManaged(t) ==
  /\ pc[t] = "report"
  /\ Record(work[t], "succeeded")
  /\ reply' = [reply EXCEPT ![work[t]] = "applied"]
  /\ Leave(t)
  /\ UNCHANGED <<state, env, todo, crashes>>

-----------------------------------------------------------------------------
(* Crash and restart.                                                      *)

Crash ==
  /\ crashes < MaxCrashes
  /\ crashes' = crashes + 1
  /\ pc' = [t \in Threads |-> "idle"]
  /\ work' = [t \in Threads |-> None]
  /\ onBase' = [t \in Threads |-> FALSE]
  /\ todo' = {c \in Enrolls : env[c].status = "verified"}
  /\ UNCHANGED <<stored, reply>>

\* Mutant: recovery trusts the receipt and does not write the state.
RecoverReceipt(c) ==
  /\ c \in todo
  /\ todo' = todo \ {c}
  /\ SetStatus(c, "applied")
  /\ Record(c, "succeeded")
  /\ UNCHANGED <<state, reply, local, crashes>>

\* recover_incomplete runs alone, so its store calls make one step; a crash
\* among them leaves what a crash in the same calls of a request leaves.
RecoverOne(c) ==
  /\ c \in todo
  /\ todo' = todo \ {c}
  /\ IF state \in {env[c].base, Expected(c)}
     THEN /\ state' = Expected(c)
          /\ SetStatus(c, "applied")
          /\ Record(c, "succeeded")
     ELSE UNCHANGED stored
  /\ UNCHANGED <<reply, local, crashes>>

-----------------------------------------------------------------------------
ThreadStep(t) ==
  \/ RequestAudit(t) \/ MarkApplying(t) \/ WriteState(t)
  \/ CompletionAudit(t) \/ MarkApplied(t)
  \/ ReadCurrent(t) \/ ReadBack(t) \/ Rollback(t)
  \/ FinishManaged(t) \/ ReportManaged(t)

Next ==
  \/ Bootstrap
  \/ \E c \in Changes : Plan(c) \/ RefuseStale(c) \/ Replay(c) \/ Reverify(c) \/ RecoverOne(c)
  \/ \E t \in Threads, c \in Changes : BeginConfirm(t, c) \/ BeginApply(t, c)
  \/ \E t \in Threads : ThreadStep(t)
  \/ Crash

Spec == Init /\ [][Next]_vars

\* A request the server accepted runs on until it answers or the process dies,
\* and startup finishes recovery before it serves.  People need not come back.
FairSpec ==
  /\ Spec
  /\ \A t \in Threads : WF_vars(ThreadStep(t))
  /\ WF_vars(\E c \in Enrolls : RecoverOne(c))

-----------------------------------------------------------------------------
(* Properties.                                                             *)

Snapshot == IF state = Unconfigured THEN <<>> ELSE state

\* An acknowledged change stays in the Household state (release 0.51.0: a
\* state change between plan and confirm makes the proposal stale).
AcknowledgedChangesSurvive ==
  \A c \in Changes : env[c].status = "applied" => c \in Range(Snapshot)

\* When an acknowledged change is missing, a change of another service, not
\* planned on top of it, was confirmed beside it, or was rolled back under it: a
\* service never loses its own changes, and a proposal nothing planned behind it.
LossNeedsAnotherService ==
  \A c \in Changes :
    env[c].status = "applied" /\ c \notin Range(Snapshot) =>
      \E o \in Changes :
        /\ Service(o) # Service(c)
        /\ env[o].status \notin {"none", "pending"}
        /\ c \notin Range(env[o].base)
        /\ o \in Range(env[c].base) => o \in Managed

\* No change reaches the state before the audit trail says it was asked for,
\* and none is acknowledged before the trail says how it ended, whatever
\* crashes in between.
AuditLeadsState ==
  \A c \in Proposals :
    /\ c \in Range(Snapshot) => "requested" \in audit[c]
    /\ env[c].status = "applied" => audit[c] \cap {"succeeded", "recovered"} # {}

\* The argument for the two properties of a single service, as an inductive
\* invariant: one request at a time is between its first and its last store
\* call, recovery and requests exclude each other, the request stands where the
\* state it read still is, and a change enters the state once and after its plan.
OneAtATime ==
  /\ \A t, u \in Threads : Busy(t) /\ Busy(u) => t = u
  /\ todo # {} => \A t \in Threads : ~Busy(t)
InPosition ==
  \A t \in Threads : LET c == work[t] IN
    /\ Busy(t) => env[c].status # "none"
    /\ Busy(t) /\ env[c].status = "applied" => pc[t] = "report"
    /\ pc[t] \in {"request", "mark"} =>
         /\ state = IF onBase[t] THEN env[c].base ELSE Expected(c)
         /\ c \in Proposals
    /\ pc[t] = "write" => state = env[c].base
    /\ pc[t] \in {"complete", "acknowledge", "readback", "finish"} => state = Expected(c)
    /\ pc[t] # "rollback"
EntersOnce ==
  /\ \A c \in Changes : c \notin Range(env[c].base)
  /\ \A c \in Changes : env[c].status = "none" => c \notin Range(Snapshot)
  /\ \A c \in todo : env[c].status # "none"
  /\ state = Unconfigured => \A c \in Changes : env[c].status = "none"
SingleServiceInv == OneAtATime /\ InPosition /\ EntersOnce /\ AcknowledgedChangesSurvive

\* Every request that took a service's lock gives it back.
LockReleased == \A t \in Threads : Busy(t) ~> ~Busy(t)

\* The services together implement the log when one of them is used.
Log == INSTANCE HouseholdLog WITH
         log <- Snapshot,
         acked <- {c \in Changes : env[c].status = "applied"}
ImplementsLog == Log!LogSpec

=============================================================================
