---------------------------- MODULE Deenrollment ----------------------------
(***************************************************************************)
(* One de-enrollment plan: planning and confirmation (the planning service *)
(* and its lock), execution and reconciliation (the execution service and  *)
(* its own lock), the provider, and the Household state they end in.       *)
(*                                                                         *)
(* Both services read the plan's durable envelope, work on their copy and  *)
(* write the copy back whole.  Execution makes one store or provider call  *)
(* per step; the process may die between any two.  Requests that are       *)
(* refused before they change anything are left out, and so is the audit   *)
(* trail, which follows each outcome and which nothing here reads.         *)
(***************************************************************************)
EXTENDS Integers, FiniteSets

CONSTANTS
  ExecuteKeys,    \* idempotency keys of execute requests
  ReconcileKeys,  \* idempotency keys of reconcile requests
  Threads,        \* request threads
  None,           \* no job
  MaxCrashes      \* bound on the number of process crashes

Keys == ExecuteKeys \cup ReconcileKeys

ASSUME KeysAssumption ==
  /\ ExecuteKeys \cap ReconcileKeys = {}
  /\ None \notin Keys
  /\ MaxCrashes \in Nat

VARIABLES
  env,        \* the plan's envelope in cluster_meta
  jobs,       \* the action job of each key
  state,      \* the Household state against the plan's base and expected snapshot
  provider,   \* the device as the provider has it
  inflight,   \* an accepted or unanswered mutation may still take effect
  grants,     \* confirmations given: each consumed a step-up grant
  mutations,  \* provider mutations invoked
  pc,         \* where a request thread stands
  key,        \* its idempotency key, that is, its job
  copy,       \* its copy of the envelope
  crashes

threadVars == <<pc, key, copy>>
durable == <<env, jobs, state>>
external == <<provider, inflight>>
counts == <<grants, mutations>>
vars == <<durable, external, counts, threadVars, crashes>>

Statuses == {"none", "planned", "confirmed", "provider-running", "provider-rejected",
             "verifying", "reconcile-required", "verified-pending-apply", "applied"}
JobStates == {"absent", "preflight", "running", "verifying", "succeeded", "failed"}
ConfirmSteps == {"revalidate", "grant"}
ExecuteSteps == {"start", "claim", "deenroll", "accept", "verifying", "readback", "fresh", "record"}
ReconcileSteps == {"restart", "observe", "observed", "unverified", "pend"}
SharedSteps == {"fail", "park", "expect", "write", "check", "succeed", "applied"}

Envelope == [status : Statuses,
             job : Keys \cup {None},   \* execution_job_id
             verified : BOOLEAN,       \* verification_receipt says verified
             expected : BOOLEAN]       \* expected_snapshot is recorded

Blank == [status |-> "none", job |-> None, verified |-> FALSE, expected |-> FALSE]

Busy(t) == pc[t] # "idle"
PlanningLockFree == \A t \in Threads : pc[t] \notin ConfirmSteps
ExecutionLockFree == \A t \in Threads : pc[t] \in ConfirmSteps \cup {"idle"}

TypeOK ==
  /\ env \in Envelope
  /\ jobs \in [Keys -> JobStates]
  /\ state \in {"base", "expected", "other"}
  /\ provider \in {"managed", "unmanaged"}
  /\ inflight \in BOOLEAN
  /\ grants \in Nat /\ mutations \in Nat /\ crashes \in Nat
  /\ pc \in [Threads -> {"idle"} \cup ConfirmSteps \cup ExecuteSteps \cup ReconcileSteps \cup SharedSteps]
  /\ key \in [Threads -> Keys \cup {None}]
  /\ copy \in [Threads -> Envelope]
  /\ \A t \in Threads : Busy(t) /\ pc[t] \notin ConfirmSteps => key[t] \in Keys

Init ==
  /\ env = Blank
  /\ jobs = [k \in Keys |-> "absent"]
  /\ state = "base"
  /\ provider = "managed"
  /\ inflight = FALSE
  /\ grants = 0 /\ mutations = 0 /\ crashes = 0
  /\ pc = [t \in Threads |-> "idle"]
  /\ key = [t \in Threads |-> None]
  /\ copy = [t \in Threads |-> Blank]

Goto(t, step) == pc' = [pc EXCEPT ![t] = step]

Leave(t) ==
  /\ pc' = [pc EXCEPT ![t] = "idle"]
  /\ key' = [key EXCEPT ![t] = None]
  /\ copy' = [copy EXCEPT ![t] = Blank]

\* set_meta of the whole envelope, from the thread's own copy.
Store(t, new) ==
  /\ env' = new
  /\ copy' = [copy EXCEPT ![t] = new]

\* transition_action_job, in a transaction of its own.
Move(k, from, to) ==
  /\ jobs[k] = from
  /\ jobs' = [jobs EXCEPT ![k] = to]

-----------------------------------------------------------------------------
(* Planning service.                                                       *)

\* plan: the device is managed in the current snapshot, which becomes the base.
Plan ==
  /\ PlanningLockFree
  /\ env.status = "none"
  /\ env' = [env EXCEPT !.status = "planned"]
  /\ UNCHANGED <<jobs, state, external, counts, threadVars, crashes>>

\* confirm: load the envelope; only a plan that is confirmed now is answered
\* from it.
BeginConfirm(t) ==
  /\ ~Busy(t) /\ PlanningLockFree
  /\ env.status \notin {"none", "confirmed"}
  /\ copy' = [copy EXCEPT ![t] = env]
  /\ Goto(t, "revalidate")
  /\ UNCHANGED <<durable, external, counts, key, crashes>>

\* _revalidate against the Household state, then consume a fresh step-up grant.
Revalidate(t) ==
  /\ pc[t] = "revalidate"
  /\ IF state = "base" THEN Goto(t, "grant") /\ UNCHANGED <<key, copy>> ELSE Leave(t)
  /\ UNCHANGED <<durable, external, counts, crashes>>

Grant(t) ==
  /\ pc[t] = "grant"
  /\ env' = [copy[t] EXCEPT !.status = "confirmed"]
  /\ grants' = grants + 1
  /\ Leave(t)
  /\ UNCHANGED <<jobs, state, external, mutations, crashes>>

-----------------------------------------------------------------------------
(* Execution: one provider mutation.                                       *)

\* Mutant: any plan that was ever confirmed can be executed.
BeginExecuteUnchecked(t, k) ==
  /\ ~Busy(t) /\ ExecutionLockFree
  /\ k \in ExecuteKeys
  /\ env.status \notin {"none", "planned"}
  /\ Move(k, "absent", "preflight")
  /\ key' = [key EXCEPT ![t] = k]
  /\ copy' = [copy EXCEPT ![t] = env]
  /\ Goto(t, "start")
  /\ UNCHANGED <<env, state, external, counts, crashes>>

\* Load, revalidate and create the job.
BeginExecute(t, k) ==
  /\ ~Busy(t) /\ ExecutionLockFree
  /\ k \in ExecuteKeys
  /\ env.status = "confirmed"
  /\ state = "base"
  /\ Move(k, "absent", "preflight")
  /\ key' = [key EXCEPT ![t] = k]
  /\ copy' = [copy EXCEPT ![t] = env]
  /\ Goto(t, "start")
  /\ UNCHANGED <<env, state, external, counts, crashes>>

Start(t) ==
  /\ pc[t] = "start"
  /\ Move(key[t], "preflight", "running")
  /\ Goto(t, "claim")
  /\ UNCHANGED <<env, state, external, counts, key, copy, crashes>>

Claim(t) ==
  /\ pc[t] = "claim"
  /\ Store(t, [copy[t] EXCEPT !.status = "provider-running", !.job = key[t]])
  /\ Goto(t, "deenroll")
  /\ UNCHANGED <<jobs, state, external, counts, key, crashes>>

\* adapter.deenroll: accepted, rejected, or an answer (or none) that says
\* neither; a mutation that was not rejected may take effect, now or later.
Deenroll(t) ==
  /\ pc[t] = "deenroll"
  /\ mutations' = mutations + 1
  /\ \/ Goto(t, "accept") /\ inflight' = TRUE /\ UNCHANGED copy
     \/ /\ Goto(t, "fail") /\ UNCHANGED inflight
        /\ copy' = [copy EXCEPT ![t].status = "provider-rejected"]
     \/ /\ Goto(t, "fail") /\ inflight' \in {inflight, TRUE}
        /\ copy' = [copy EXCEPT ![t].status = "reconcile-required"]
  /\ UNCHANGED <<durable, provider, grants, key, crashes>>

Accept(t) ==
  /\ pc[t] = "accept"
  /\ Move(key[t], "running", "verifying")
  /\ Goto(t, "verifying")
  /\ UNCHANGED <<env, state, external, counts, key, copy, crashes>>

StoreVerifying(t) ==
  /\ pc[t] = "verifying"
  /\ Store(t, [copy[t] EXCEPT !.status = "verifying"])
  /\ Goto(t, "readback")
  /\ UNCHANGED <<jobs, state, external, counts, key, crashes>>

\* What a read-back document says: the state it reports, of which operation and
\* of when.  The plan's own is never further along than the provider; what is
\* said of another operation is anything.
Readings == [state : {"managed", "unmanaged", "absent", "unknown", "ambiguous"},
             ours : BOOLEAN,
             age : {"fresh", "stale", "future"}]

MayRead == {r \in Readings :
  r.ours /\ provider = "managed" => r.state \notin {"unmanaged", "absent"}}

\* Mutant: the document is not compared with the plan.
VerifiedUnbound(r) == r.age = "fresh" /\ r.state \in {"unmanaged", "absent"}

\* verify_deenrollment.
Verified(r) == r.ours /\ r.age = "fresh" /\ r.state \in {"unmanaged", "absent"}

\* adapter.read_back, judged; a provider that does not answer, or answers
\* anything else, leaves no receipt.
ReadBack(t) ==
  /\ pc[t] = "readback"
  /\ \/ \E r \in MayRead : Verified(r) /\ Goto(t, "fresh") /\ copy' = [copy EXCEPT ![t].verified = TRUE]
     \/ /\ \E r \in MayRead : ~Verified(r)
        /\ Goto(t, "fail")
        /\ copy' = [copy EXCEPT ![t].status = "reconcile-required", ![t].verified = FALSE]
     \/ Goto(t, "fail") /\ copy' = [copy EXCEPT ![t].status = "reconcile-required"]
  /\ UNCHANGED <<durable, external, counts, key, crashes>>

\* snapshot != base raises and leaves the plan at verifying.
CheckFresh(t) ==
  /\ pc[t] = "fresh"
  /\ IF state = "base" THEN Goto(t, "record") /\ UNCHANGED <<key, copy>> ELSE Leave(t)
  /\ UNCHANGED <<durable, external, counts, crashes>>

Record(t) ==
  /\ pc[t] = "record"
  /\ env' = copy[t]
  /\ Goto(t, "expect")
  /\ UNCHANGED <<jobs, state, external, counts, key, copy, crashes>>

-----------------------------------------------------------------------------
(* Failure of either: the job first, then the envelope.                    *)

\* Mutant: a job that is already verifying cannot be failed.
FailRunningJob(t) ==
  /\ pc[t] = "fail"
  /\ Move(key[t], "running", "failed")
  /\ IF key[t] \in ExecuteKeys THEN Goto(t, "park") /\ UNCHANGED <<key, copy>> ELSE Leave(t)
  /\ UNCHANGED <<env, state, external, counts, crashes>>

FailJob(t) ==
  /\ pc[t] = "fail"
  /\ jobs[key[t]] \in {"running", "verifying"}
  /\ jobs' = [jobs EXCEPT ![key[t]] = "failed"]
  /\ IF key[t] \in ExecuteKeys THEN Goto(t, "park") /\ UNCHANGED <<key, copy>> ELSE Leave(t)
  /\ UNCHANGED <<env, state, external, counts, crashes>>

Park(t) ==
  /\ pc[t] = "park"
  /\ env' = copy[t]
  /\ Leave(t)
  /\ UNCHANGED <<jobs, state, external, counts, crashes>>

-----------------------------------------------------------------------------
(* Reconciliation: read-only at the provider.                              *)

BeginReconcile(t, k) ==
  /\ ~Busy(t) /\ ExecutionLockFree
  /\ k \in ReconcileKeys
  /\ env.status = "reconcile-required"
  /\ state = "base"
  /\ Move(k, "absent", "preflight")
  /\ key' = [key EXCEPT ![t] = k]
  /\ copy' = [copy EXCEPT ![t] = env]
  /\ Goto(t, "restart")
  /\ UNCHANGED <<env, state, external, counts, crashes>>

\* verified-pending-apply: carry on with the recorded snapshots and job.
ResumeApply(t) ==
  /\ ~Busy(t) /\ ExecutionLockFree
  /\ env.status = "verified-pending-apply"
  /\ env.expected
  /\ state \in {"base", "expected"}
  /\ key' = [key EXCEPT ![t] = env.job]
  /\ copy' = [copy EXCEPT ![t] = env]
  /\ Goto(t, "write")
  /\ UNCHANGED <<durable, external, counts, crashes>>

Restart(t) ==
  /\ pc[t] = "restart"
  /\ Move(key[t], "preflight", "running")
  /\ Goto(t, "observe")
  /\ UNCHANGED <<env, state, external, counts, key, copy, crashes>>

Observe(t) ==
  /\ pc[t] = "observe"
  /\ \/ \E r \in MayRead : Goto(t, "observed") /\ copy' = [copy EXCEPT ![t].verified = Verified(r)]
     \/ Goto(t, "fail") /\ UNCHANGED copy
  /\ UNCHANGED <<durable, external, counts, key, crashes>>

Observed(t) ==
  /\ pc[t] = "observed"
  /\ Move(key[t], "running", "verifying")
  /\ Goto(t, IF copy[t].verified THEN "pend" ELSE "unverified")
  /\ UNCHANGED <<env, state, external, counts, key, copy, crashes>>

\* Not verified: the reconciliation job has succeeded, the plan stays where it was.
Unverified(t) ==
  /\ pc[t] = "unverified"
  /\ Move(key[t], "verifying", "succeeded")
  /\ Goto(t, "park")
  /\ UNCHANGED <<env, state, external, counts, key, copy, crashes>>

Pend(t) ==
  /\ pc[t] = "pend"
  /\ Store(t, [copy[t] EXCEPT !.status = "verified-pending-apply", !.job = key[t]])
  /\ Goto(t, "expect")
  /\ UNCHANGED <<jobs, state, external, counts, key, crashes>>

-----------------------------------------------------------------------------
(* _apply_verified.                                                        *)

\* The expected snapshot is recorded before the Household is touched, unless
\* an earlier attempt recorded it.
Expect(t) ==
  /\ pc[t] = "expect"
  /\ IF copy[t].expected THEN UNCHANGED <<env, copy>>
     ELSE Store(t, [copy[t] EXCEPT !.status = "verified-pending-apply", !.expected = TRUE])
  /\ Goto(t, "write")
  /\ UNCHANGED <<jobs, state, external, counts, key, crashes>>

\* Read the current snapshot and replace the base by the expected one; other
\* services' writes between the two are the business of module Household.
WriteState(t) ==
  /\ pc[t] = "write"
  /\ IF state = "other" THEN Leave(t) /\ UNCHANGED state
     ELSE state' = "expected" /\ Goto(t, "check") /\ UNCHANGED <<key, copy>>
  /\ UNCHANGED <<env, jobs, external, counts, crashes>>

\* A read-back that differs puts the base back; a job that is neither
\* verifying nor succeeded ends the request with the state written.
CheckState(t) ==
  /\ pc[t] = "check"
  /\ IF state = "expected" /\ jobs[key[t]] \in {"verifying", "succeeded"}
     THEN Goto(t, "succeed") /\ UNCHANGED <<state, key, copy>>
     ELSE /\ state' = IF state = "expected" THEN state ELSE "base"
          /\ Leave(t)
  /\ UNCHANGED <<env, jobs, external, counts, crashes>>

SucceedJob(t) ==
  /\ pc[t] = "succeed"
  /\ jobs' = [jobs EXCEPT ![key[t]] = "succeeded"]
  /\ Goto(t, "applied")
  /\ UNCHANGED <<env, state, external, counts, key, copy, crashes>>

StoreApplied(t) ==
  /\ pc[t] = "applied"
  /\ env' = [copy[t] EXCEPT !.status = "applied"]
  /\ Leave(t)
  /\ UNCHANGED <<jobs, state, external, counts, crashes>>

-----------------------------------------------------------------------------
(* The surroundings.                                                       *)

\* The provider carries out a mutation it did not reject.
TakeEffect ==
  /\ inflight
  /\ inflight' = FALSE
  /\ provider' = "unmanaged"
  /\ UNCHANGED <<durable, counts, threadVars, crashes>>

\* Another service replaces the Household snapshot.
HouseholdMoves ==
  /\ state # "other"
  /\ state' = "other"
  /\ UNCHANGED <<env, jobs, external, counts, threadVars, crashes>>

Crash ==
  /\ crashes < MaxCrashes
  /\ crashes' = crashes + 1
  /\ pc' = [t \in Threads |-> "idle"]
  /\ key' = [t \in Threads |-> None]
  /\ copy' = [t \in Threads |-> Blank]
  /\ UNCHANGED <<durable, external, counts>>

-----------------------------------------------------------------------------
ThreadStep(t) ==
  \/ Revalidate(t) \/ Grant(t)
  \/ Start(t) \/ Claim(t) \/ Deenroll(t) \/ Accept(t) \/ StoreVerifying(t)
  \/ ReadBack(t) \/ CheckFresh(t) \/ Record(t) \/ FailJob(t) \/ Park(t)
  \/ Restart(t) \/ Observe(t) \/ Observed(t) \/ Unverified(t) \/ Pend(t)
  \/ Expect(t) \/ WriteState(t) \/ CheckState(t) \/ SucceedJob(t) \/ StoreApplied(t)

Next ==
  \/ Plan
  \/ \E t \in Threads :
       \/ BeginConfirm(t) \/ ResumeApply(t) \/ ThreadStep(t)
       \/ \E k \in Keys : BeginExecute(t, k) \/ BeginReconcile(t, k)
  \/ TakeEffect \/ HouseholdMoves \/ Crash

Spec == Init /\ [][Next]_vars

\* A request that started runs on; adapters answer or raise.
FairSpec == Spec /\ \A t \in Threads : WF_vars(ThreadStep(t))

-----------------------------------------------------------------------------
(* Properties.                                                             *)

\* The false-success boundary (release 0.58.0): the Household says unmanaged
\* only when the provider does, whatever it answered and however late.
ClearedOnlyIfUnmanaged == state = "expected" => provider = "unmanaged"

\* Every provider mutation has a confirmation, with its own step-up grant, of
\* its own: neither a retry nor a crash nor a reconciliation makes another.
MutationNeedsItsOwnGrant == mutations <= grants

\* An execution or reconciliation job that succeeded on a plan it applied rests
\* on a provider that has the device unmanaged.
SuccessNeedsProvider ==
  /\ \A k \in ExecuteKeys : jobs[k] = "succeeded" => provider = "unmanaged"
  /\ env.status = "applied" => jobs[env.job] = "succeeded" /\ provider = "unmanaged"

\* Once the Household is cleared, nobody calls the provider's mutation again.
ClearedIsFinal == [][state = "expected" => UNCHANGED mutations]_vars

\* Every request that took a lock gives it back.
RequestsEnd == \A t \in Threads : Busy(t) ~> ~Busy(t)

=============================================================================
