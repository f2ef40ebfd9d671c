---------------------------- MODULE QrOnboarding ----------------------------
(***************************************************************************)
(* One QR invitation from issue to effect: the invitation record and its   *)
(* stored operations, the audit entry appended after each operation, the   *)
(* change jobs admitted from the terminal record, and the worker that      *)
(* writes and reads back the product effect while it holds the store lock. *)
(*                                                                         *)
(* A request reads the Household state and the clock when it begins and    *)
(* uses what it read.  The record names the Household state it was issued  *)
(* on, so the Household is either there ("issued") or has moved on for     *)
(* good.  A request that is refused before it changes anything, and the    *)
(* audit entries of the effect jobs, are left out; the redemption plan and *)
(* the code of a consume are taken to be the invitation's own.             *)
(***************************************************************************)
EXTENDS Integers, FiniteSets

CONSTANTS
  ConsumeKeys,  \* idempotency keys of consume requests, with their actor
  RevokeKeys,   \* idempotency keys of revoke requests, with their actor
  Jobs,         \* idempotency keys of effect admissions: one job each
  Threads,      \* request threads
  None,         \* no key, no job
  MaxCrashes    \* bound on the number of process crashes

OpKeys == ConsumeKeys \cup RevokeKeys
Versions == 1..2
Issue == "issue"   \* the issue operation, which has no key

ASSUME KeysAssumption ==
  /\ ConsumeKeys \cap RevokeKeys = {}
  /\ Issue \notin OpKeys
  /\ OpKeys \cap Jobs = {}
  /\ None \notin OpKeys \cup Jobs
  /\ MaxCrashes \in Nat

VARIABLES
  record,     \* row of qr_onboarding_runtime: its state and version
  ops,        \* qr_onboarding_runtime_operations: expected_version of the stored request, 0 if none
  jobs,       \* state of each effect job
  effect,     \* product state of the handoff: the job it was written for
  audited,    \* operations the audit chain reports as succeeded
  answered,   \* operations answered as succeeded
  household,  \* the current Household state against the record's
  expired,    \* the clock has passed expires_at_epoch
  pc,         \* where a request thread stands
  work,       \* the key or job of its request
  asked,      \* the expected_version of its request
  late,       \* whether it read the clock after expiry
  crashes

durable == <<record, ops, jobs, effect, audited>>
threadVars == <<pc, work, asked, late>>
environment == <<household, expired>>
vars == <<durable, answered, environment, threadVars, crashes>>

JobStates == {"absent", "preflight", "running", "verifying", "succeeded", "failed"}
WorkerSteps == {"execute", "accept", "fail", "verify"}
OpSteps == {"transition", "append"}

TypeOK ==
  /\ record \in [state : {"none", "active", "consumed", "revoked"}, version : Nat]
  /\ ops \in [OpKeys -> 0..2]
  /\ jobs \in [Jobs -> JobStates]
  /\ effect \in Jobs \cup {None}
  /\ audited \subseteq OpKeys \cup {Issue}
  /\ answered \subseteq OpKeys \cup {Issue}
  /\ household \in {"issued", "moved"}
  /\ expired \in BOOLEAN
  /\ pc \in [Threads -> {"idle", "create"} \cup OpSteps \cup {"admit"} \cup WorkerSteps]
  /\ work \in [Threads -> OpKeys \cup Jobs \cup {Issue, None}]
  /\ asked \in [Threads -> 0..2]
  /\ late \in [Threads -> BOOLEAN]
  /\ crashes \in 0..MaxCrashes
  /\ \A t \in Threads :
       /\ pc[t] = "create" => work[t] = Issue
       /\ pc[t] = "transition" => work[t] \in OpKeys /\ asked[t] \in Versions
       /\ pc[t] = "append" => work[t] \in OpKeys \cup {Issue}
       /\ pc[t] \in WorkerSteps \cup {"admit"} => work[t] \in Jobs

Init ==
  /\ record = [state |-> "none", version |-> 0]
  /\ ops = [k \in OpKeys |-> 0]
  /\ jobs = [j \in Jobs |-> "absent"]
  /\ effect = None
  /\ audited = {} /\ answered = {}
  /\ household = "issued" /\ expired = FALSE
  /\ pc = [t \in Threads |-> "idle"]
  /\ work = [t \in Threads |-> None]
  /\ asked = [t \in Threads |-> 0]
  /\ late = [t \in Threads |-> FALSE]
  /\ crashes = 0

Idle(t) == pc[t] = "idle"

\* The store lock is held by a worker for its whole run, by everyone else for
\* one statement or transaction.
StoreFree == \A t \in Threads : pc[t] \notin WorkerSteps

Goto(t, step) == pc' = [pc EXCEPT ![t] = step]

Leave(t) ==
  /\ pc' = [pc EXCEPT ![t] = "idle"]
  /\ work' = [work EXCEPT ![t] = None]
  /\ asked' = [asked EXCEPT ![t] = 0]
  /\ late' = [late EXCEPT ![t] = FALSE]

\* transition_action_job, in a transaction of its own.
Move(j, from, to) ==
  /\ jobs[j] = from
  /\ jobs' = [jobs EXCEPT ![j] = to]

-----------------------------------------------------------------------------
(* Invitation operations.                                                  *)

\* issue: build the invitation from the Household state just read.
BeginIssue(t) ==
  /\ Idle(t) /\ StoreFree
  /\ household = "issued"
  /\ record.state = "none"
  /\ Goto(t, "create")
  /\ work' = [work EXCEPT ![t] = Issue]
  /\ UNCHANGED <<durable, answered, environment, asked, late, crashes>>

\* repository.create; the record is unique.
Create(t) ==
  /\ pc[t] = "create" /\ StoreFree
  /\ IF record.state = "none"
       THEN /\ record' = [state |-> "active", version |-> 1]
            /\ Goto(t, "append")
            /\ UNCHANGED <<work, asked, late>>
       ELSE Leave(t) /\ UNCHANGED record
  /\ UNCHANGED <<ops, jobs, effect, audited, answered, environment, crashes>>

\* consume and revoke: read the Household state and the clock, check the
\* record's binding against that state.
BeginOp(t, k, v) ==
  /\ Idle(t) /\ StoreFree
  /\ record.state # "none"
  /\ household = "issued"
  /\ Goto(t, "transition")
  /\ work' = [work EXCEPT ![t] = k]
  /\ asked' = [asked EXCEPT ![t] = v]
  /\ late' = [late EXCEPT ![t] = expired]
  /\ UNCHANGED <<durable, answered, environment, crashes>>

Outcome(k) == IF k \in ConsumeKeys THEN "consumed" ELSE "revoked"
EffectivelyActive(t) == record.state = "active" /\ ~late[t]

\* A stored operation answers its own request again; anything else under its
\* key is a conflict.
Replay(t, k) ==
  /\ ops[k] # 0
  /\ IF ops[k] = asked[t]
       THEN Goto(t, "append") /\ UNCHANGED <<work, asked, late>>
       ELSE Leave(t)
  /\ UNCHANGED <<record, ops>>

\* The conditional update and the stored receipt, in one transaction.
Settle(t, k) ==
  /\ ops[k] = 0
  /\ asked[t] = record.version /\ EffectivelyActive(t)
  /\ record' = [state |-> Outcome(k), version |-> record.version + 1]
  /\ ops' = [ops EXCEPT ![k] = asked[t]]
  /\ Goto(t, "append")
  /\ UNCHANGED <<work, asked, late>>

Refuse(t, k) ==
  /\ ops[k] = 0
  /\ asked[t] # record.version \/ ~EffectivelyActive(t)
  /\ Leave(t)
  /\ UNCHANGED <<record, ops>>

Transition(t) ==
  /\ pc[t] = "transition" /\ StoreFree
  /\ \/ Replay(t, work[t])
     \/ Settle(t, work[t])
     \/ Refuse(t, work[t])
  /\ UNCHANGED <<jobs, effect, audited, answered, environment, crashes>>

\* The audit decorator, after the delegate returned its receipt; then the
\* request is answered.
Append(t) ==
  /\ pc[t] = "append" /\ StoreFree
  /\ audited' = audited \cup {work[t]}
  /\ answered' = answered \cup {work[t]}
  /\ Leave(t)
  /\ UNCHANGED <<record, ops, jobs, effect, environment, crashes>>

-----------------------------------------------------------------------------
(* Effect jobs.                                                            *)

\* Mutant: an invitation that is still open can be handed off.
BeginAdmitOpen(t, j) ==
  /\ Idle(t) /\ StoreFree
  /\ household = "issued"
  /\ record.state # "none"
  /\ Goto(t, "admit")
  /\ work' = [work EXCEPT ![t] = j]
  /\ UNCHANGED <<durable, answered, environment, asked, late, crashes>>

\* admit: read the Household state, recover the handoff from the terminal
\* record and its one matching receipt.
BeginAdmit(t, j) ==
  /\ Idle(t) /\ StoreFree
  /\ household = "issued"
  /\ record.state \in {"consumed", "revoked"}
  /\ Goto(t, "admit")
  /\ work' = [work EXCEPT ![t] = j]
  /\ UNCHANGED <<durable, answered, environment, asked, late, crashes>>

\* create_action_job: a known key returns its job as it is.
Admit(t) ==
  /\ pc[t] = "admit" /\ StoreFree
  /\ jobs' = IF jobs[work[t]] = "absent" THEN [jobs EXCEPT ![work[t]] = "preflight"] ELSE jobs
  /\ Leave(t)
  /\ UNCHANGED <<record, ops, effect, audited, answered, environment, crashes>>

\* Worker on a preflight job: from here to the end of the run it holds the
\* store lock; the Household state is read under it.
Run(t, j) ==
  /\ Idle(t) /\ StoreFree
  /\ household = "issued"
  /\ Move(j, "preflight", "running")
  /\ work' = [work EXCEPT ![t] = j]
  /\ Goto(t, "execute")
  /\ UNCHANGED <<record, ops, effect, audited, answered, environment, asked, late, crashes>>

\* Worker on a verifying job: read back only.
Resume(t, j) ==
  /\ Idle(t) /\ StoreFree
  /\ household = "issued"
  /\ jobs[j] = "verifying"
  /\ work' = [work EXCEPT ![t] = j]
  /\ Goto(t, "verify")
  /\ UNCHANGED <<durable, answered, environment, asked, late, crashes>>

\* Mutant: the newer request replaces a durable value that differs.
ExecuteOverwriting(t) ==
  /\ pc[t] = "execute"
  /\ effect' = work[t]
  /\ Goto(t, "accept")
  /\ UNCHANGED <<record, ops, jobs, audited, answered, environment, work, asked, late, crashes>>

\* Mutant: the adapter's receipt is rejected although the value was written.
ExecuteUnreceipted(t) ==
  /\ pc[t] = "execute"
  /\ IF effect \in {None, work[t]} THEN effect' = work[t] ELSE UNCHANGED effect
  /\ Goto(t, "fail")
  /\ UNCHANGED <<record, ops, jobs, audited, answered, environment, work, asked, late, crashes>>

\* adapter.execute: compare and set; a value written for another job is a
\* conflict.
Execute(t) ==
  /\ pc[t] = "execute"
  /\ IF effect \in {None, work[t]}
       THEN effect' = work[t] /\ Goto(t, "accept")
       ELSE Goto(t, "fail") /\ UNCHANGED effect
  /\ UNCHANGED <<record, ops, jobs, audited, answered, environment, work, asked, late, crashes>>

Fail(t) ==
  /\ pc[t] = "fail"
  /\ Move(work[t], "running", "failed")
  /\ Leave(t)
  /\ UNCHANGED <<record, ops, effect, audited, answered, environment, crashes>>

Accept(t) ==
  /\ pc[t] = "accept"
  /\ Move(work[t], "running", "verifying")
  /\ Goto(t, "verify")
  /\ UNCHANGED <<record, ops, effect, audited, answered, environment, work, asked, late, crashes>>

\* observe and the terminal transition; observe only reads.
Verify(t) ==
  /\ pc[t] = "verify"
  /\ Move(work[t], "verifying", IF effect = work[t] THEN "succeeded" ELSE "failed")
  /\ Leave(t)
  /\ UNCHANGED <<record, ops, effect, audited, answered, environment, crashes>>

-----------------------------------------------------------------------------
(* Environment.                                                            *)

\* Another service replaces the Household state: set_meta, under the store lock.
HouseholdMoves ==
  /\ StoreFree
  /\ household = "issued"
  /\ household' = "moved"
  /\ UNCHANGED <<durable, answered, expired, threadVars, crashes>>

Expire ==
  /\ ~expired
  /\ expired' = TRUE
  /\ UNCHANGED <<durable, answered, household, threadVars, crashes>>

Crash ==
  /\ crashes < MaxCrashes
  /\ crashes' = crashes + 1
  /\ pc' = [t \in Threads |-> "idle"]
  /\ work' = [t \in Threads |-> None]
  /\ asked' = [t \in Threads |-> 0]
  /\ late' = [t \in Threads |-> FALSE]
  /\ UNCHANGED <<durable, answered, environment>>

Steps(t) ==
  \/ Create(t) \/ Transition(t) \/ Append(t) \/ Admit(t)
  \/ Execute(t) \/ Fail(t) \/ Accept(t) \/ Verify(t)

Next ==
  \/ \E t \in Threads : Steps(t) \/ BeginIssue(t)
  \/ \E t \in Threads, k \in OpKeys, v \in Versions : BeginOp(t, k, v)
  \/ \E t \in Threads, j \in Jobs : BeginAdmit(t, j) \/ Run(t, j) \/ Resume(t, j)
  \/ HouseholdMoves \/ Expire \/ Crash

Spec == Init /\ [][Next]_vars
FairSpec == Spec /\ \A t \in Threads : WF_vars(Steps(t))

-----------------------------------------------------------------------------
(* Properties.                                                             *)

Stored == {k \in OpKeys : ops[k] # 0} \cup (IF record.state = "none" THEN {} ELSE {Issue})

\* The audit chain reports success only of operations that are stored, replays
\* and refusals included, and nobody is told of an operation it does not
\* report (qr_onboarding_state_audit.py: delegate first, then append).
AuditFollowsOperations == answered \subseteq audited /\ audited \subseteq Stored

\* What a client was told stays true: a consume and a revoke of one invitation
\* are never both answered as succeeded, and the record is in the answered
\* state however the requests, their retries and expiry interleave
\* (SQLiteQrOnboardingRuntimeRepository._transition).
AnswerStands ==
  \A k \in answered \cap OpKeys : record = [state |-> Outcome(k), version |-> 2]

\* A job that reports success is the one the product effect was written for:
\* two admissions of one handoff never both succeed
\* (QrOnboardingProductStateAdapter.execute and observe).
SuccessOwnsTheEffect ==
  /\ \A j \in Jobs : jobs[j] = "succeeded" => effect = j
  /\ effect # None => record.state \in {"consumed", "revoked"}

\* Only a crash leaves a job behind in running or verifying: otherwise a worker
\* is on it, and holds the store lock (QrOnboardingEffectWorkerService.run).
OnlyACrashStrands ==
  \A j \in Jobs : jobs[j] \in {"running", "verifying"} =>
    crashes > 0 \/ \E t \in Threads : pc[t] \in WorkerSteps /\ work[t] = j

\* The effect is written while the Household is in the very state the
\* invitation was issued on: the check cannot go stale before the write
\* (QrOnboardingEffectWorkerService.run holds the store lock over both).
EffectOnIssuedHousehold == [][effect' # effect => household = "issued"]_vars

\* The invitation keeps the promise of OneTimeInvitation.
invitation == INSTANCE OneTimeInvitation WITH
  outcome <- IF record.state \in {"consumed", "revoked"} THEN record.state ELSE "open",
  effect <- effect,
  reported <- {j \in Jobs : jobs[j] = "succeeded"}

ImplementsInvitation == invitation!Promise

\* An effect in force is reported by its job unless the process died over it:
\* no path of run leaves a written effect unverified
\* (QrOnboardingEffectExecutionService.execute_and_verify).
EffectReported ==
  effect # None ~> crashes > 0 \/ \E j \in Jobs : jobs[j] = "succeeded"
=============================================================================
