------------------------ MODULE DeenrollmentProofs ------------------------
(***************************************************************************)
(* What holds of one de-enrollment plan for any number of keys, threads    *)
(* and crashes, however late the provider acts and whenever the Household  *)
(* moves on.                                                               *)
(***************************************************************************)
EXTENDS Deenrollment, TLAPS

-----------------------------------------------------------------------------
(* The inductive invariant, in the order its parts rest on one another.    *)

Executing(t) == pc[t] \notin ConfirmSteps \cup {"idle"}

\* The execution lock admits one execution or reconciliation at a time.
OneExecution == \A t, u \in Threads : Executing(t) /\ Executing(u) => t = u

BeforeMutation == {"start", "claim", "deenroll"}
ByThisJob == {"deenroll", "accept", "verifying", "readback", "fresh", "record",
              "expect", "write", "check", "succeed", "applied"}

\* From the claim, or the pending record of a reconciliation, on, the copy names
\* the job the thread works on; so does every envelope with an expected snapshot.
JobRecorded ==
  /\ \A t \in Threads : pc[t] \in ByThisJob => copy[t].job = key[t]
  /\ \A t \in Threads : copy[t].expected => copy[t].job \in Keys
  /\ env.expected => env.job \in Keys

\* The steps that follow a verified read-back, or rely on one kept in an
\* expected snapshot.
AfterProof == {"fresh", "record", "pend", "expect", "write", "check", "succeed", "applied"}

\* The provider has the device unmanaged when such a step is reached.
ProviderProven ==
  /\ \A t \in Threads :
       \/ pc[t] \in AfterProof
       \/ pc[t] = "observed" /\ copy[t].verified
       \/ copy[t].expected
       => provider = "unmanaged"
  /\ env.expected => provider = "unmanaged"
  /\ ClearedOnlyIfUnmanaged

Observing == {"restart", "observe", "observed", "unverified"}

\* "applied" is written by a thread whose job succeeded, and the only other
\* job that succeeds is that of a reconciliation.
SuccessFounded ==
  /\ SuccessNeedsProvider
  /\ env.status = "applied" => env.job \in Keys
  /\ \A t \in Threads : pc[t] \in Observing => key[t] \in ReconcileKeys
  /\ \A t \in Threads : pc[t] = "applied" => jobs[key[t]] = "succeeded"
  /\ \A t \in Threads : Executing(t) => copy[t].status # "applied"

\* A grant not spent yet belongs to an envelope that says confirmed, and
\* another one to a thread that is about to call the provider.
GrantHeld ==
  /\ MutationNeedsItsOwnGrant
  /\ env.status = "confirmed" => mutations + 1 <= grants
  /\ \A t \in Threads :
       /\ pc[t] \in BeforeMutation => mutations + 1 <= grants
       /\ pc[t] = "deenroll" /\ env.status = "confirmed" => mutations + 2 <= grants
       /\ Executing(t) /\ pc[t] \notin {"start", "claim"} => copy[t].status # "confirmed"

\* The Household is not cleared while a thread is about to call the provider.
NotYetCleared == \A t \in Threads : pc[t] \in BeforeMutation => state # "expected"

PlanInv ==
  TypeOK /\ OneExecution /\ JobRecorded /\ ProviderProven /\ SuccessFounded /\ GrantHeld /\ NotYetCleared

-----------------------------------------------------------------------------
(* What the provider's answers change of a thread's copy: neither its job  *)
(* nor its expected snapshot.                                              *)

LEMMA DeenrollEdits ==
  ASSUME TypeOK, NEW t \in Threads, Deenroll(t)
  PROVE  /\ copy' \in [Threads -> Envelope]
         /\ \A u \in Threads : copy'[u].job = copy[u].job /\ copy'[u].expected = copy[u].expected
         /\ copy'[t].status \in {copy[t].status, "provider-rejected", "reconcile-required"}
<1>1. copy \in [Threads -> Envelope]
  BY DEF TypeOK
<1>2. \/ copy' = copy \/ copy' = [copy EXCEPT ![t].status = "provider-rejected"]
      \/ copy' = [copy EXCEPT ![t].status = "reconcile-required"]
  BY DEF Deenroll
<1> QED
  BY <1>1, <1>2 DEF Envelope, Statuses

LEMMA ReadBackEdits ==
  ASSUME TypeOK, NEW t \in Threads, ReadBack(t)
  PROVE  /\ copy' \in [Threads -> Envelope]
         /\ \A u \in Threads : copy'[u].job = copy[u].job /\ copy'[u].expected = copy[u].expected
         /\ copy'[t].status \in {copy[t].status, "provider-rejected", "reconcile-required"}
<1>1. copy \in [Threads -> Envelope]
  BY DEF TypeOK
<1>2. \/ copy' = [copy EXCEPT ![t].verified = TRUE] \/ copy' = [copy EXCEPT ![t].status = "reconcile-required"]
      \/ copy' = [copy EXCEPT ![t].status = "reconcile-required", ![t].verified = FALSE]
  BY DEF ReadBack
<1>3. CASE copy' = [copy EXCEPT ![t].status = "reconcile-required", ![t].verified = FALSE]
  <2> DEFINE new == [copy[t] EXCEPT !.status = "reconcile-required", !.verified = FALSE]
  <2>1. new \in Envelope /\ new.job = copy[t].job /\ new.expected = copy[t].expected /\ new.status = "reconcile-required"
    BY <1>1 DEF Envelope, Statuses
  <2>2. copy' = [copy EXCEPT ![t] = new]
    BY <1>3, <1>1 DEF Envelope
  <2> HIDE DEF new
  <2> QED
    BY <2>1, <2>2, <1>1
<1>4. CASE copy' = [copy EXCEPT ![t].verified = TRUE]
  BY <1>1, <1>4 DEF Envelope
<1>5. CASE copy' = [copy EXCEPT ![t].status = "reconcile-required"]
  BY <1>1, <1>5 DEF Envelope, Statuses
<1> QED
  BY <1>2, <1>3, <1>4, <1>5

\* A read-back that is accepted is not ahead of the provider.
LEMMA AcceptedReading ==
  ASSUME TypeOK, NEW r \in MayRead, Verified(r)
  PROVE  provider = "unmanaged"
BY DEF TypeOK, MayRead, Verified

LEMMA ObserveEdits ==
  ASSUME TypeOK, NEW t \in Threads, Observe(t)
  PROVE  /\ copy' \in [Threads -> Envelope]
         /\ \A u \in Threads : copy'[u].job = copy[u].job /\ copy'[u].expected = copy[u].expected
         /\ copy'[t].status = copy[t].status
         /\ pc'[t] # "fail" => (copy'[t].verified => provider = "unmanaged")
<1>1. copy \in [Threads -> Envelope] /\ copy[t] \in Envelope
  BY DEF TypeOK
<1>2. CASE Goto(t, "fail") /\ UNCHANGED copy
  BY <1>1, <1>2 DEF Goto, TypeOK
<1>3. ASSUME NEW r \in MayRead, copy' = [copy EXCEPT ![t].verified = Verified(r)]
      PROVE  /\ copy' \in [Threads -> Envelope]
             /\ \A u \in Threads : copy'[u].job = copy[u].job /\ copy'[u].expected = copy[u].expected
             /\ copy'[t].status = copy[t].status
             /\ copy'[t].verified <=> Verified(r)
  <2>1. CASE Verified(r)
    <3>1. copy' = [copy EXCEPT ![t].verified = TRUE]
      BY <1>3, <2>1
    <3> QED
      BY <1>1, <2>1, <3>1 DEF Envelope
  <2>2. CASE ~Verified(r)
    <3>0. Verified(r) = FALSE
      BY <2>2 DEF Verified
    <3>1. copy' = [copy EXCEPT ![t].verified = FALSE]
      BY <1>3, <3>0
    <3> QED
      BY <1>1, <2>2, <3>1 DEF Envelope
  <2> QED
    BY <2>1, <2>2
<1> QED
  BY <1>2, <1>3, AcceptedReading DEF Observe

-----------------------------------------------------------------------------
(* Types and the lock.                                                     *)

Steps == {"idle"} \cup ConfirmSteps \cup ExecuteSteps \cup ReconcileSteps \cup SharedSteps

\* What a thread's step does to the threads: only its own place, key and copy move.
LEMMA Others ==
  ASSUME TypeOK, NEW t \in Threads,
         ThreadStep(t) \/ BeginConfirm(t) \/ ResumeApply(t)
         \/ \E k \in Keys : BeginExecute(t, k) \/ BeginReconcile(t, k)
  PROVE  \A u \in Threads : u # t => pc'[u] = pc[u] /\ key'[u] = key[u] /\ copy'[u] = copy[u]
<1>1. CASE BeginConfirm(t) \/ ResumeApply(t) \/ \E k \in Keys : BeginExecute(t, k) \/ BeginReconcile(t, k)
  BY <1>1 DEF BeginConfirm, ResumeApply, BeginExecute, BeginReconcile, Goto, TypeOK
<1>2. CASE Revalidate(t) \/ Grant(t) \/ Start(t) \/ Claim(t) \/ Deenroll(t) \/ Accept(t) \/ StoreVerifying(t)
  BY <1>2 DEF Revalidate, Grant, Start, Claim, Deenroll, Accept, StoreVerifying, Goto, Leave, Store, TypeOK
<1>3. CASE ReadBack(t) \/ CheckFresh(t) \/ Record(t) \/ FailJob(t) \/ Park(t) \/ Restart(t) \/ Observe(t)
  BY <1>3 DEF ReadBack, CheckFresh, Record, FailJob, Park, Restart, Observe, Goto, Leave, TypeOK
<1>4. CASE Observed(t) \/ Unverified(t) \/ Pend(t) \/ Expect(t) \/ WriteState(t)
  BY <1>4 DEF Observed, Unverified, Pend, Expect, WriteState, Goto, Leave, Store, TypeOK
<1>5. CASE CheckState(t) \/ SucceedJob(t) \/ StoreApplied(t)
  BY <1>5 DEF CheckState, SucceedJob, StoreApplied, Goto, Leave, TypeOK
<1> QED
  BY <1>1, <1>2, <1>3, <1>4, <1>5 DEF ThreadStep

\* An execution or reconciliation begins when no other is under way.
LEMMA LockStep ==
  ASSUME TypeOK, OneExecution, [Next]_vars
  PROVE  OneExecution'
<1>1. ASSUME \A u \in Threads : Executing(u)' => Executing(u) PROVE OneExecution'
  BY <1>1 DEF OneExecution
<1>2. ASSUME NEW t \in Threads,
             ResumeApply(t) \/ \E k \in Keys : BeginExecute(t, k) \/ BeginReconcile(t, k)
      PROVE  OneExecution'
  <2>1. \A u \in Threads : ~Executing(u)
    BY <1>2 DEF ResumeApply, BeginExecute, BeginReconcile, ExecutionLockFree, Executing
  <2>2. \A u \in Threads : u # t => pc'[u] = pc[u]
    BY <1>2, Others
  <2> QED
    BY <2>1, <2>2 DEF OneExecution, Executing
<1>3. ASSUME NEW t \in Threads, BeginConfirm(t) PROVE OneExecution'
  <2>1. pc'[t] = "revalidate"
    BY <1>3 DEF BeginConfirm, Goto, TypeOK
  <2> QED
    BY <1>1, <1>3, <2>1, Others DEF Executing, ConfirmSteps
<1>4. ASSUME NEW t \in Threads, ThreadStep(t) PROVE OneExecution'
  <2>1. CASE Executing(t)
    BY <1>1, <1>4, <2>1, Others DEF Executing
  <2>2. CASE ~Executing(t)
    <3>1. Revalidate(t) \/ Grant(t)
      BY <1>4, <2>2 DEF ThreadStep, Executing, ConfirmSteps, Start, Claim, Deenroll, Accept,
         StoreVerifying, ReadBack, CheckFresh, Record, FailJob, Park, Restart, Observe, Observed,
         Unverified, Pend, Expect, WriteState, CheckState, SucceedJob, StoreApplied
    <3>2. pc'[t] \in {"idle", "grant"}
      BY <3>1 DEF Revalidate, Grant, Goto, Leave, TypeOK
    <3> QED
      BY <1>1, <1>4, <3>2, Others DEF Executing, ConfirmSteps
  <2> QED
    BY <2>1, <2>2
<1>5. CASE Plan \/ TakeEffect \/ HouseholdMoves \/ Crash \/ UNCHANGED vars
  BY <1>1, <1>5 DEF Plan, TakeEffect, HouseholdMoves, Crash, vars, threadVars, Executing
<1> QED
  BY <1>2, <1>3, <1>4, <1>5 DEF Next

\* The part of the type invariant that says where threads are.
Placed ==
  /\ pc \in [Threads -> Steps]
  /\ key \in [Threads -> Keys \cup {None}]
  /\ \A t \in Threads : Executing(t) => key[t] \in Keys

\* The rest of it.
Stored ==
  /\ env \in Envelope /\ jobs \in [Keys -> JobStates]
  /\ state \in {"base", "expected", "other"}
  /\ provider \in {"managed", "unmanaged"} /\ inflight \in BOOLEAN
  /\ grants \in Nat /\ mutations \in Nat /\ crashes \in Nat

LEMMA TypeParts ==
  /\ TypeOK <=> Stored /\ Placed /\ copy \in [Threads -> Envelope]
  /\ TypeOK' <=> Stored' /\ Placed' /\ copy' \in [Threads -> Envelope]
BY DEF TypeOK, Stored, Placed, Steps, Busy, Executing, ConfirmSteps

LEMMA LeaveTypes ==
  ASSUME TypeOK, NEW t \in Threads, Leave(t)
  PROVE  Placed' /\ copy' \in [Threads -> Envelope]
<1>1. Blank \in Envelope
  BY DEF Blank, Envelope, Statuses
<1> QED
  BY <1>1, TypeParts DEF Leave, Placed, Steps, Executing

LEMMA GotoTypes ==
  ASSUME TypeOK, NEW t \in Threads, NEW step \in Steps, Goto(t, step), UNCHANGED key,
         Executing(t) \/ step \in ConfirmSteps
  PROVE  Placed'
BY TypeParts DEF Goto, Placed, Executing

LEMMA EnterTypes ==
  ASSUME TypeOK, NEW t \in Threads, NEW step \in Steps, NEW k \in Keys,
         Goto(t, step), key' = [key EXCEPT ![t] = k]
  PROVE  Placed'
BY TypeParts DEF Goto, Placed, Executing

LEMMA EditTypes ==
  ASSUME NEW e \in Envelope, NEW s \in Statuses, NEW k \in Keys, NEW b \in BOOLEAN
  PROVE  /\ [e EXCEPT !.status = s] \in Envelope
         /\ [e EXCEPT !.status = s, !.job = k] \in Envelope
         /\ [e EXCEPT !.status = s, !.expected = TRUE] \in Envelope
         /\ [e EXCEPT !.verified = b] \in Envelope
         /\ [e EXCEPT !.status = s, !.verified = b] \in Envelope
BY DEF Envelope

LEMMA TypeStep ==
  ASSUME TypeOK, JobRecorded, [Next]_vars
  PROVE  TypeOK'
<1> USE KeysAssumption, TypeParts DEF Stored
<1>s. /\ {"revalidate", "grant", "start", "claim", "deenroll", "accept", "verifying", "readback",
          "fresh", "record", "restart", "observe", "observed", "unverified", "pend", "fail", "park",
          "expect", "write", "check", "succeed", "applied"} \subseteq Steps
      /\ \A t \in Threads : pc[t] \in Steps
  BY DEF Steps, ConfirmSteps, ExecuteSteps, ReconcileSteps, SharedSteps, Placed
<1>c. \A t \in Threads : copy[t] \in Envelope
  OBVIOUS
<1>t. {"confirmed", "provider-running", "provider-rejected", "verifying", "reconcile-required",
       "verified-pending-apply", "applied", "planned"} \subseteq Statuses
  BY DEF Statuses
<1>1. ASSUME NEW t \in Threads, BeginConfirm(t) PROVE TypeOK'
  BY <1>1, <1>s, GotoTypes DEF BeginConfirm, durable, external, counts, ConfirmSteps
<1>2. ASSUME NEW t \in Threads, Revalidate(t) PROVE TypeOK'
  BY <1>2, <1>s, GotoTypes, LeaveTypes DEF Revalidate, durable, external, counts, ConfirmSteps
<1>3. ASSUME NEW t \in Threads, Grant(t) PROVE TypeOK'
  <2>1. env' \in Envelope
    BY <1>3, <1>c, <1>t DEF Grant, Envelope
  <2> QED
    BY <1>3, <2>1, LeaveTypes DEF Grant, external
<1>4. ASSUME NEW t \in Threads, NEW k \in Keys, BeginExecute(t, k) \/ BeginReconcile(t, k) PROVE TypeOK'
  <2>1. jobs' \in [Keys -> JobStates]
    BY <1>4 DEF BeginExecute, BeginReconcile, Move, JobStates
  <2> QED
    BY <1>4, <1>s, <2>1, EnterTypes DEF BeginExecute, BeginReconcile, external, counts
<1>5. ASSUME NEW t \in Threads, ResumeApply(t) PROVE TypeOK'
  BY <1>5, <1>s, EnterTypes DEF ResumeApply, JobRecorded, durable, external, counts
<1>6. ASSUME NEW t \in Threads, Start(t) \/ Accept(t) \/ Restart(t) \/ Observed(t) \/ Unverified(t)
      PROVE  TypeOK'
  <2>1. Executing(t)
    BY <1>6 DEF Start, Accept, Restart, Observed, Unverified, Executing, ConfirmSteps
  <2>2. jobs' \in [Keys -> JobStates]
    BY <1>6, <2>1 DEF Start, Accept, Restart, Observed, Unverified, Move, JobStates, Placed
  <2> QED
    BY <1>6, <1>s, <2>1, <2>2, GotoTypes DEF Start, Accept, Restart, Observed, Unverified, external, counts
<1>7. ASSUME NEW t \in Threads, Claim(t) \/ StoreVerifying(t) \/ Pend(t) \/ Expect(t) PROVE TypeOK'
  <2>1. Executing(t)
    BY <1>7 DEF Claim, StoreVerifying, Pend, Expect, Executing, ConfirmSteps
  <2>2. key[t] \in Keys
    BY <2>1 DEF Placed
  <2>3. /\ [copy[t] EXCEPT !.status = "provider-running", !.job = key[t]] \in Envelope
        /\ [copy[t] EXCEPT !.status = "verifying"] \in Envelope
        /\ [copy[t] EXCEPT !.status = "verified-pending-apply", !.job = key[t]] \in Envelope
        /\ [copy[t] EXCEPT !.status = "verified-pending-apply", !.expected = TRUE] \in Envelope
    BY <1>c, <1>t, <2>2, EditTypes
  <2>4. env' \in Envelope /\ copy' \in [Threads -> Envelope]
    BY <1>7, <2>3 DEF Claim, StoreVerifying, Pend, Expect, Store
  <2> QED
    BY <1>7, <1>s, <2>1, <2>4, GotoTypes DEF Claim, StoreVerifying, Pend, Expect, external, counts
<1>8. ASSUME NEW t \in Threads, Deenroll(t) PROVE TypeOK'
  <2>1. Executing(t)
    BY <1>8 DEF Deenroll, Executing, ConfirmSteps
  <2>2. copy' \in [Threads -> Envelope]
    BY <1>8, DeenrollEdits
  <2>3. Placed'
    BY <1>8, <1>s, <2>1, GotoTypes DEF Deenroll
  <2>4. inflight' \in BOOLEAN
    BY <1>8 DEF Deenroll
  <2> QED
    BY <1>8, <2>2, <2>3, <2>4 DEF Deenroll, durable
<1>9. ASSUME NEW t \in Threads, ReadBack(t) \/ Observe(t) PROVE TypeOK'
  <2>1. Executing(t)
    BY <1>9 DEF ReadBack, Observe, Executing, ConfirmSteps
  <2>2. copy' \in [Threads -> Envelope]
    BY <1>9, ReadBackEdits, ObserveEdits
  <2> QED
    BY <1>9, <1>s, <2>1, <2>2, GotoTypes DEF ReadBack, Observe, durable, external, counts
<1>10. ASSUME NEW t \in Threads, CheckFresh(t) \/ WriteState(t) \/ CheckState(t) PROVE TypeOK'
  <2>1. Executing(t)
    BY <1>10 DEF CheckFresh, WriteState, CheckState, Executing, ConfirmSteps
  <2> QED
    BY <1>10, <1>s, <2>1, GotoTypes, LeaveTypes
       DEF CheckFresh, WriteState, CheckState, durable, external, counts
<1>11. ASSUME NEW t \in Threads, Record(t) \/ SucceedJob(t) PROVE TypeOK'
  <2>1. Executing(t)
    BY <1>11 DEF Record, SucceedJob, Executing, ConfirmSteps
  <2>2. env' \in Envelope /\ jobs' \in [Keys -> JobStates]
    BY <1>11 DEF Record, SucceedJob, JobStates
  <2> QED
    BY <1>11, <1>s, <2>1, <2>2, GotoTypes DEF Record, SucceedJob, external, counts
<1>12. ASSUME NEW t \in Threads, Park(t) \/ StoreApplied(t) PROVE TypeOK'
  <2>1. env' \in Envelope
    BY <1>12, <1>c, <1>t DEF Park, StoreApplied, Envelope
  <2> QED
    BY <1>12, <2>1, LeaveTypes DEF Park, StoreApplied, external, counts
<1>13. ASSUME NEW t \in Threads, FailJob(t) PROVE TypeOK'
  <2>1. Executing(t)
    BY <1>13 DEF FailJob, Executing, ConfirmSteps
  <2>2. jobs' \in [Keys -> JobStates]
    BY <1>13 DEF FailJob, JobStates
  <2> QED
    BY <1>13, <1>s, <2>1, <2>2, GotoTypes, LeaveTypes DEF FailJob, external, counts
<1>14. CASE Plan \/ TakeEffect \/ HouseholdMoves
  <2>1. env' \in Envelope
    BY <1>14, <1>t DEF Plan, TakeEffect, HouseholdMoves, durable, Envelope
  <2>2. Placed'
    BY <1>14 DEF Plan, TakeEffect, HouseholdMoves, threadVars, Placed, Executing
  <2> QED
    BY <1>14, <2>1, <2>2 DEF Plan, TakeEffect, HouseholdMoves, durable, external, counts, threadVars
<1>15. CASE Crash
  <2>1. Blank \in Envelope
    BY DEF Blank, Envelope, Statuses
  <2>2. Placed'
    BY <1>15 DEF Crash, Placed, Steps, Executing
  <2> QED
    BY <1>15, <2>1, <2>2 DEF Crash, durable, external, counts
<1>16. CASE UNCHANGED vars
  BY <1>16 DEF vars, durable, external, counts, threadVars, Placed, Executing
<1> QED
  BY <1>1, <1>2, <1>3, <1>4, <1>5, <1>6, <1>7, <1>8, <1>9, <1>10, <1>11, <1>12, <1>13,
     <1>14, <1>15, <1>16 DEF Next, ThreadStep

-----------------------------------------------------------------------------
(* The recorded job.                                                       *)

LEMMA JobStep ==
  ASSUME TypeOK, JobRecorded, [Next]_vars
  PROVE  JobRecorded'
<1> USE DEF TypeOK, JobRecorded, durable, external, counts, threadVars, ByThisJob
<1>1. ASSUME NEW t \in Threads, BeginConfirm(t) \/ Revalidate(t) \/ Grant(t) PROVE JobRecorded'
  <2>1. CASE BeginConfirm(t)
    BY <2>1 DEF BeginConfirm, Goto
  <2>2. CASE Revalidate(t)
    BY <2>2 DEF Revalidate, Goto, Leave, Blank
  <2>3. CASE Grant(t)
    <3>1. env'.job = copy[t].job /\ env'.expected = copy[t].expected
      BY <2>3 DEF Grant, Envelope
    <3>2. /\ pc' = [pc EXCEPT ![t] = "idle"]
          /\ copy' = [copy EXCEPT ![t] = Blank]
          /\ key' = [key EXCEPT ![t] = None]
          /\ UNCHANGED <<state, provider>>
      BY <2>3 DEF Grant, Leave
    <3> QED
      BY <3>1, <3>2 DEF Blank
  <2> QED
    BY <1>1, <2>1, <2>2, <2>3
<1>2. ASSUME NEW t \in Threads, NEW k \in Keys, BeginExecute(t, k) \/ BeginReconcile(t, k) PROVE JobRecorded'
  BY <1>2 DEF BeginExecute, BeginReconcile, Goto
<1>3. ASSUME NEW t \in Threads, ResumeApply(t) PROVE JobRecorded'
  BY <1>3 DEF ResumeApply, Goto
<1>4. ASSUME NEW t \in Threads,
             Start(t) \/ Accept(t) \/ Restart(t) \/ Observed(t) \/ Unverified(t) \/ SucceedJob(t)
      PROVE  JobRecorded'
  BY <1>4 DEF Start, Accept, Restart, Observed, Unverified, SucceedJob, Goto
<1>5. ASSUME NEW t \in Threads, Claim(t) \/ StoreVerifying(t) \/ Pend(t) \/ Expect(t) PROVE JobRecorded'
  <2>1. key[t] \in Keys
    BY <1>5, TypeParts DEF Claim, StoreVerifying, Pend, Expect, Placed, Executing, ConfirmSteps
  <2>2. CASE Claim(t)
    <3> DEFINE new == [copy[t] EXCEPT !.status = "provider-running", !.job = key[t]]
    <3>1. new.job = key[t]
      BY DEF Envelope
    <3>2. env' = new /\ copy' = [copy EXCEPT ![t] = new] /\ pc' = [pc EXCEPT ![t] = "deenroll"] /\ UNCHANGED key
      BY <2>2 DEF Claim, Store, Goto
    <3> HIDE DEF new
    <3> QED
      BY <2>1, <3>1, <3>2
  <2>3. CASE StoreVerifying(t)
    BY <2>3 DEF StoreVerifying, Store, Goto, Envelope
  <2>4. CASE Pend(t)
    <3> DEFINE new == [copy[t] EXCEPT !.status = "verified-pending-apply", !.job = key[t]]
    <3>1. new.job = key[t]
      BY DEF Envelope
    <3>2. env' = new /\ copy' = [copy EXCEPT ![t] = new] /\ pc' = [pc EXCEPT ![t] = "expect"] /\ UNCHANGED key
      BY <2>4 DEF Pend, Store, Goto
    <3> HIDE DEF new
    <3> QED
      BY <2>1, <3>1, <3>2
  <2>5. CASE Expect(t)
    <3> DEFINE new == [copy[t] EXCEPT !.status = "verified-pending-apply", !.expected = TRUE]
    <3>1. new.job = copy[t].job /\ copy[t].job = key[t]
      BY <2>5 DEF Expect, Envelope
    <3>2. \/ env' = new /\ copy' = [copy EXCEPT ![t] = new]
          \/ UNCHANGED <<env, copy>>
      BY <2>5 DEF Expect, Store
    <3>3. pc' = [pc EXCEPT ![t] = "write"] /\ UNCHANGED key
      BY <2>5 DEF Expect, Goto
    <3> HIDE DEF new
    <3> QED
      BY <2>1, <3>1, <3>2, <3>3
  <2> QED
    BY <1>5, <2>2, <2>3, <2>4, <2>5
<1>6. ASSUME NEW t \in Threads, Deenroll(t) \/ ReadBack(t) \/ Observe(t) PROVE JobRecorded'
  <2>1. UNCHANGED <<env, key>>
    BY <1>6 DEF Deenroll, ReadBack, Observe, durable
  <2>2. \A u \in Threads : copy'[u].job = copy[u].job /\ copy'[u].expected = copy[u].expected
    BY <1>6, DeenrollEdits, ReadBackEdits, ObserveEdits
  <2>3. \A u \in Threads : pc'[u] \in ByThisJob => pc[u] \in ByThisJob
    BY <1>6 DEF Deenroll, ReadBack, Observe, Goto
  <2> QED
    BY <2>1, <2>2, <2>3
<1>7. ASSUME NEW t \in Threads,
             CheckFresh(t) \/ WriteState(t) \/ CheckState(t) \/ FailJob(t) \/ Record(t) \/ Park(t) \/ StoreApplied(t)
      PROVE  JobRecorded'
  <2>1. CASE CheckFresh(t) \/ CheckState(t)
    BY <2>1 DEF CheckFresh, CheckState, Goto, Leave, Blank
  <2>2. CASE WriteState(t)
    BY <2>2 DEF WriteState, Goto, Leave, Blank
  <2>3. CASE FailJob(t) \/ Record(t)
    BY <2>3 DEF FailJob, Record, Goto, Leave, Blank, Envelope
  <2>4. CASE Park(t)
    BY <2>4 DEF Park, Goto, Leave, Blank, Envelope
  <2>5. CASE StoreApplied(t)
    BY <2>5 DEF StoreApplied, Goto, Leave, Blank, Envelope
  <2> QED
    BY <1>7, <2>1, <2>2, <2>3, <2>4, <2>5
<1>8. CASE Plan \/ TakeEffect \/ HouseholdMoves \/ Crash \/ UNCHANGED vars
  BY <1>8 DEF Plan, TakeEffect, HouseholdMoves, Crash, vars, Envelope, Blank
<1> QED
  BY <1>1, <1>2, <1>3, <1>4, <1>5, <1>6, <1>7, <1>8 DEF Next, ThreadStep

-----------------------------------------------------------------------------
(* Proof of the provider's doing.                                          *)

LEMMA ProvenStep ==
  ASSUME TypeOK, ProviderProven, [Next]_vars
  PROVE  ProviderProven'
<1> USE DEF TypeOK, ProviderProven, ClearedOnlyIfUnmanaged, durable, external, counts, threadVars, AfterProof
<1>1. ASSUME NEW t \in Threads, BeginConfirm(t) \/ Revalidate(t) \/ Grant(t) PROVE ProviderProven'
  <2>1. CASE BeginConfirm(t)
    BY <2>1 DEF BeginConfirm, Goto
  <2>2. CASE Revalidate(t)
    BY <2>2 DEF Revalidate, Goto, Leave, Blank
  <2>3. CASE Grant(t)
    <3>1. env'.job = copy[t].job /\ env'.expected = copy[t].expected
      BY <2>3 DEF Grant, Envelope
    <3>2. /\ pc' = [pc EXCEPT ![t] = "idle"]
          /\ copy' = [copy EXCEPT ![t] = Blank]
          /\ key' = [key EXCEPT ![t] = None]
          /\ UNCHANGED <<state, provider>>
      BY <2>3 DEF Grant, Leave
    <3> QED
      BY <3>1, <3>2 DEF Blank
  <2> QED
    BY <1>1, <2>1, <2>2, <2>3
<1>2. ASSUME NEW t \in Threads, NEW k \in Keys, BeginExecute(t, k) \/ BeginReconcile(t, k) PROVE ProviderProven'
  BY <1>2 DEF BeginExecute, BeginReconcile, Goto
<1>3. ASSUME NEW t \in Threads, ResumeApply(t) PROVE ProviderProven'
  BY <1>3 DEF ResumeApply, Goto
<1>4. ASSUME NEW t \in Threads,
             Start(t) \/ Accept(t) \/ Restart(t) \/ Observed(t) \/ Unverified(t) \/ SucceedJob(t)
      PROVE  ProviderProven'
  BY <1>4 DEF Start, Accept, Restart, Observed, Unverified, SucceedJob, Goto
<1>5. ASSUME NEW t \in Threads, Claim(t) \/ StoreVerifying(t) \/ Pend(t) \/ Expect(t) PROVE ProviderProven'
  <2>1. CASE Claim(t)
    BY <2>1 DEF Claim, Store, Goto, Envelope
  <2>2. CASE StoreVerifying(t)
    BY <2>2 DEF StoreVerifying, Store, Goto, Envelope
  <2>3. CASE Pend(t)
    BY <2>3 DEF Pend, Store, Goto, Envelope
  <2>4. CASE Expect(t)
    BY <2>4 DEF Expect, Store, Goto, Envelope
  <2> QED
    BY <1>5, <2>1, <2>2, <2>3, <2>4
<1>6. ASSUME NEW t \in Threads, Deenroll(t) \/ ReadBack(t) \/ Observe(t) PROVE ProviderProven'
  <2>1. UNCHANGED <<env, state, provider>>
    BY <1>6 DEF Deenroll, ReadBack, Observe, durable, external
  <2>2. \A u \in Threads : copy'[u].expected = copy[u].expected
    BY <1>6, DeenrollEdits, ReadBackEdits, ObserveEdits
  <2>3. \A u \in Threads : u # t => pc'[u] = pc[u] /\ copy'[u] = copy[u]
    BY <1>6, Others DEF ThreadStep
  <2>4. pc'[t] \in AfterProof => provider = "unmanaged"
    BY <1>6, AcceptedReading DEF Deenroll, ReadBack, Observe, Goto
  <2>5. pc'[t] = "observed" /\ copy'[t].verified => provider = "unmanaged"
    BY <1>6, ObserveEdits DEF Deenroll, ReadBack, Goto
  <2> QED
    BY <2>1, <2>2, <2>3, <2>4, <2>5
<1>7. ASSUME NEW t \in Threads,
             CheckFresh(t) \/ WriteState(t) \/ CheckState(t) \/ FailJob(t) \/ Record(t) \/ Park(t) \/ StoreApplied(t)
      PROVE  ProviderProven'
  <2>1. CASE CheckFresh(t) \/ CheckState(t)
    BY <2>1 DEF CheckFresh, CheckState, Goto, Leave, Blank
  <2>2. CASE WriteState(t)
    BY <2>2 DEF WriteState, Goto, Leave, Blank
  <2>3. CASE FailJob(t) \/ Record(t)
    BY <2>3 DEF FailJob, Record, Goto, Leave, Blank, Envelope
  <2>4. CASE Park(t)
    BY <2>4 DEF Park, Goto, Leave, Blank, Envelope
  <2>5. CASE StoreApplied(t)
    BY <2>5 DEF StoreApplied, Goto, Leave, Blank, Envelope
  <2> QED
    BY <1>7, <2>1, <2>2, <2>3, <2>4, <2>5
<1>8. CASE Plan \/ TakeEffect \/ HouseholdMoves \/ Crash \/ UNCHANGED vars
  BY <1>8 DEF Plan, TakeEffect, HouseholdMoves, Crash, vars, Envelope, Blank
<1> QED
  BY <1>1, <1>2, <1>3, <1>4, <1>5, <1>6, <1>7, <1>8 DEF Next, ThreadStep

-----------------------------------------------------------------------------
(* What steps do to the places, the statuses and the provider.             *)

\* How a thread gets to the steps that matter.
LEMMA Arrivals ==
  ASSUME TypeOK, [Next]_vars, NEW t \in Threads
  PROVE  /\ pc'[t] \in Observing => \/ pc[t] \in Observing /\ key'[t] = key[t]
                                    \/ key'[t] \in ReconcileKeys
         /\ pc'[t] = "applied" => key'[t] = key[t] /\ (pc[t] = "applied" \/ SucceedJob(t))
         /\ pc'[t] \in BeforeMutation => pc[t] \in BeforeMutation \/ \E k \in Keys : BeginExecute(t, k)
         /\ pc'[t] = "deenroll" => pc[t] = "deenroll" \/ Claim(t)
<1> USE DEF TypeOK, Observing, BeforeMutation
<1>0. ASSUME NEW u \in Threads, u # t,
             \/ ThreadStep(u) \/ BeginConfirm(u) \/ ResumeApply(u)
             \/ \E k \in Keys : BeginExecute(u, k) \/ BeginReconcile(u, k)
      PROVE  pc'[t] = pc[t] /\ key'[t] = key[t]
  BY <1>0, Others
<1>1. ASSUME NEW k \in Keys, BeginExecute(t, k) PROVE pc'[t] = "start"
  BY <1>1 DEF BeginExecute, Goto
<1>2. ASSUME NEW k \in Keys, BeginReconcile(t, k) PROVE pc'[t] = "restart" /\ key'[t] \in ReconcileKeys
  BY <1>2 DEF BeginReconcile, Goto
<1>3. ASSUME BeginConfirm(t) \/ ResumeApply(t) \/ Revalidate(t) \/ Grant(t)
      PROVE  pc'[t] \in {"revalidate", "write", "grant", "idle"}
  BY <1>3 DEF BeginConfirm, ResumeApply, Revalidate, Grant, Goto, Leave
<1>4. ASSUME Start(t) \/ Restart(t) \/ Observe(t) \/ Observed(t)
      PROVE  /\ key'[t] = key[t]
             /\ \/ pc[t] = "start" /\ pc'[t] = "claim"
                \/ pc[t] \in Observing /\ pc'[t] \in {"observe", "observed", "unverified", "pend", "fail"}
  BY <1>4 DEF Start, Restart, Observe, Observed, Goto
<1>5. ASSUME Claim(t) \/ SucceedJob(t)
      PROVE  /\ key'[t] = key[t]
             /\ \/ SucceedJob(t) /\ pc'[t] = "applied"
                \/ Claim(t) /\ pc'[t] = "deenroll" /\ pc[t] = "claim"
  BY <1>5 DEF Claim, SucceedJob, Goto
<1>6. ASSUME \/ Deenroll(t) \/ Accept(t) \/ StoreVerifying(t) \/ ReadBack(t) \/ CheckFresh(t) \/ Record(t)
             \/ FailJob(t) \/ Park(t) \/ Unverified(t) \/ Pend(t) \/ Expect(t) \/ WriteState(t)
             \/ CheckState(t) \/ StoreApplied(t)
      PROVE  pc'[t] \in {"accept", "fail", "verifying", "readback", "fresh", "record", "expect", "park",
                        "write", "check", "succeed", "idle"}
  BY <1>6 DEF Deenroll, Accept, StoreVerifying, ReadBack, CheckFresh, Record, FailJob, Park, Unverified,
     Pend, Expect, WriteState, CheckState, StoreApplied, Goto, Leave
<1>7. CASE Plan \/ TakeEffect \/ HouseholdMoves \/ UNCHANGED vars
  BY <1>7 DEF Plan, TakeEffect, HouseholdMoves, vars, threadVars
<1>8. ASSUME Crash PROVE pc'[t] = "idle"
  BY <1>8 DEF Crash
<1> QED
  BY <1>0, <1>1, <1>2, <1>3, <1>4, <1>5, <1>6, <1>7, <1>8 DEF Next, ThreadStep

-----------------------------------------------------------------------------
(* Success.                                                                *)

\* A job that succeeded stays so; it is that of a reconciliation or follows proof.
LEMMA JobsKeep ==
  ASSUME TypeOK, ProviderProven, SuccessFounded, [Next]_vars, NEW k \in Keys
  PROVE  /\ jobs[k] = "succeeded" => jobs'[k] = "succeeded"
         /\ jobs'[k] = "succeeded" => jobs[k] = "succeeded" \/ k \in ReconcileKeys \/ provider = "unmanaged"
<1> USE DEF TypeOK
<1>1. CASE UNCHANGED jobs
  BY <1>1
<1>2. ASSUME NEW t \in Threads, NEW i \in Keys, BeginExecute(t, i) \/ BeginReconcile(t, i)
      PROVE  (jobs[k] = "succeeded") <=> (jobs'[k] = "succeeded")
  BY <1>2 DEF BeginExecute, BeginReconcile, Move
<1>3. ASSUME NEW t \in Threads, Start(t) \/ Accept(t) \/ Restart(t) \/ Observed(t) \/ FailJob(t)
      PROVE  (jobs[k] = "succeeded") <=> (jobs'[k] = "succeeded")
  BY <1>3 DEF Start, Accept, Restart, Observed, FailJob, Move
<1>4. ASSUME NEW t \in Threads, Unverified(t)
      PROVE  /\ jobs[k] = "succeeded" => jobs'[k] = "succeeded"
             /\ jobs'[k] = "succeeded" => jobs[k] = "succeeded" \/ k \in ReconcileKeys
  BY <1>4 DEF Unverified, Move, SuccessFounded, Observing
<1>5. ASSUME NEW t \in Threads, SucceedJob(t)
      PROVE  (jobs[k] = "succeeded" => jobs'[k] = "succeeded") /\ provider = "unmanaged"
  BY <1>5 DEF SucceedJob, ProviderProven, AfterProof
<1> QED
  BY <1>1, <1>2, <1>3, <1>4, <1>5 DEF Next, ThreadStep, BeginConfirm, ResumeApply, Plan, TakeEffect,
     HouseholdMoves, Crash, Revalidate, Grant, Claim, Deenroll, StoreVerifying, ReadBack, CheckFresh,
     Record, Park, Observe, Pend, Expect, WriteState, CheckState, StoreApplied, vars, durable

\* The provider does not take a device back.
LEMMA ProviderKeeps ==
  ASSUME [Next]_vars, provider = "unmanaged"
  PROVE  provider' = "unmanaged"
<1>1. ASSUME NEW t \in Threads,
             \/ BeginConfirm(t) \/ ResumeApply(t) \/ \E k \in Keys : BeginExecute(t, k) \/ BeginReconcile(t, k)
             \/ Revalidate(t) \/ Grant(t) \/ Start(t) \/ Claim(t) \/ Deenroll(t) \/ Accept(t)
             \/ StoreVerifying(t) \/ ReadBack(t)
      PROVE  provider' = "unmanaged"
  BY <1>1 DEF BeginConfirm, ResumeApply, BeginExecute, BeginReconcile, Revalidate, Grant, Start, Claim,
     Deenroll, Accept, StoreVerifying, ReadBack, external
<1>2. ASSUME NEW t \in Threads,
             \/ CheckFresh(t) \/ Record(t) \/ FailJob(t) \/ Park(t) \/ Restart(t) \/ Observe(t) \/ Observed(t)
             \/ Unverified(t) \/ Pend(t) \/ Expect(t) \/ WriteState(t) \/ CheckState(t) \/ SucceedJob(t)
             \/ StoreApplied(t)
      PROVE  provider' = "unmanaged"
  BY <1>2 DEF CheckFresh, Record, FailJob, Park, Restart, Observe, Observed, Unverified, Pend, Expect,
     WriteState, CheckState, SucceedJob, StoreApplied, external
<1>3. CASE Plan \/ TakeEffect \/ HouseholdMoves \/ Crash \/ UNCHANGED vars
  BY <1>3 DEF Plan, TakeEffect, HouseholdMoves, Crash, vars, external
<1> QED
  BY <1>1, <1>2, <1>3 DEF Next, ThreadStep

\* Which step writes which status.
LEMMA StatusWritten ==
  ASSUME TypeOK, [Next]_vars
  PROVE  \/ UNCHANGED env
         \/ Plan
         \/ \E t \in Threads :
              \/ Grant(t) /\ env'.status = "confirmed" /\ env'.job = copy[t].job
              \/ /\ Executing(t)
                 /\ env'.status \in {"provider-running", "verifying", "verified-pending-apply"}
              \/ pc[t] \in {"record", "park"} /\ env'.status = copy[t].status
              \/ StoreApplied(t) /\ env'.status = "applied" /\ env'.job = copy[t].job
<1> USE DEF TypeOK
<1>1. ASSUME NEW t \in Threads, Claim(t) \/ StoreVerifying(t) \/ Pend(t) \/ Expect(t)
      PROVE  \/ UNCHANGED env
             \/ /\ Executing(t)
                /\ env'.status \in {"provider-running", "verifying", "verified-pending-apply"}
  <2>1. Executing(t)
    BY <1>1 DEF Claim, StoreVerifying, Pend, Expect, Executing, ConfirmSteps
  <2>2. \A e \in Envelope, k \in Keys :
          /\ [e EXCEPT !.status = "provider-running", !.job = k].status = "provider-running"
          /\ [e EXCEPT !.status = "verifying"].status = "verifying"
          /\ [e EXCEPT !.status = "verified-pending-apply", !.job = k].status = "verified-pending-apply"
          /\ [e EXCEPT !.status = "verified-pending-apply", !.expected = TRUE].status = "verified-pending-apply"
    BY DEF Envelope
  <2>3. copy[t] \in Envelope /\ key[t] \in Keys
    BY <2>1, TypeParts DEF Placed
  <2>4. CASE Claim(t)
    BY <2>1, <2>2, <2>3, <2>4 DEF Claim, Store
  <2>5. CASE StoreVerifying(t)
    BY <2>1, <2>2, <2>3, <2>5 DEF StoreVerifying, Store
  <2>6. CASE Pend(t)
    BY <2>1, <2>2, <2>3, <2>6 DEF Pend, Store
  <2>7. CASE Expect(t)
    <3>1. CASE copy[t].expected
      BY <2>7, <3>1 DEF Expect
    <3>2. CASE ~copy[t].expected
      <4>1. env' = [copy[t] EXCEPT !.status = "verified-pending-apply", !.expected = TRUE]
        BY <2>7, <3>2 DEF Expect, Store
      <4> QED
        BY <2>1, <2>2, <2>3, <4>1
    <3> QED
      BY <3>1, <3>2
  <2> QED
    BY <1>1, <2>4, <2>5, <2>6, <2>7
<1>2. ASSUME NEW t \in Threads, Grant(t)
      PROVE  env'.status = "confirmed" /\ env'.job = copy[t].job
  BY <1>2 DEF Grant, Envelope
<1>3. ASSUME NEW t \in Threads, StoreApplied(t)
      PROVE  env'.status = "applied" /\ env'.job = copy[t].job
  BY <1>3 DEF StoreApplied, Envelope
<1>4. ASSUME NEW t \in Threads, Record(t) \/ Park(t)
      PROVE  pc[t] \in {"record", "park"} /\ env'.status = copy[t].status
  BY <1>4 DEF Record, Park
<1>5. ASSUME NEW t \in Threads,
             \/ BeginConfirm(t) \/ ResumeApply(t) \/ \E k \in Keys : BeginExecute(t, k) \/ BeginReconcile(t, k)
             \/ Revalidate(t) \/ Start(t) \/ Deenroll(t) \/ Accept(t) \/ ReadBack(t) \/ CheckFresh(t)
             \/ FailJob(t) \/ Restart(t) \/ Observe(t) \/ Observed(t) \/ Unverified(t) \/ WriteState(t)
             \/ CheckState(t) \/ SucceedJob(t)
      PROVE  UNCHANGED env
  BY <1>5 DEF BeginConfirm, ResumeApply, BeginExecute, BeginReconcile, Revalidate, Start, Deenroll, Accept,
     ReadBack, CheckFresh, FailJob, Restart, Observe, Observed, Unverified, WriteState, CheckState,
     SucceedJob, durable
<1>6. CASE TakeEffect \/ HouseholdMoves \/ Crash \/ UNCHANGED vars
  BY <1>6 DEF TakeEffect, HouseholdMoves, Crash, vars, durable
<1> QED
  BY <1>1, <1>2, <1>3, <1>4, <1>5, <1>6 DEF Next, ThreadStep

\* The status in the copy of an execution: as loaded, or what the execution
\* last made of it; only until the claim may it be "confirmed".
LEMMA CopyStatus ==
  ASSUME TypeOK, [Next]_vars, NEW t \in Threads, Executing(t)'
  PROVE  \/ copy'[t].status \in {"provider-running", "provider-rejected", "verifying",
                                 "reconcile-required", "verified-pending-apply"}
         \/ copy'[t].status = "confirmed" /\ pc'[t] = "start"
         \/ /\ Executing(t) /\ copy'[t].status = copy[t].status
            /\ pc[t] \in {"start", "claim"} => pc'[t] \in {"start", "claim"}
<1> USE DEF TypeOK, Executing
<1> DEFINE Stays == /\ Executing(t) /\ copy'[t].status = copy[t].status
                    /\ pc[t] \in {"start", "claim"} => pc'[t] \in {"start", "claim"}
           Made == copy'[t].status \in {"provider-running", "provider-rejected", "verifying",
                                        "reconcile-required", "verified-pending-apply"}
<1>0. ASSUME NEW u \in Threads, u # t, 
             \/ ThreadStep(u) \/ BeginConfirm(u) \/ ResumeApply(u)
             \/ \E k \in Keys : BeginExecute(u, k) \/ BeginReconcile(u, k)
      PROVE  Stays
  BY <1>0, Others
<1>1. ASSUME NEW k \in Keys, BeginExecute(t, k)
      PROVE  copy'[t].status = "confirmed" /\ pc'[t] = "start"
  BY <1>1 DEF BeginExecute, Goto
<1>2. ASSUME ResumeApply(t) \/ \E k \in Keys : BeginReconcile(t, k) PROVE Made
  BY <1>2 DEF ResumeApply, BeginReconcile
<1>3. CASE Claim(t) \/ StoreVerifying(t) \/ Pend(t) \/ Expect(t)
  <2>2. \A e \in Envelope, k \in Keys :
          /\ [e EXCEPT !.status = "provider-running", !.job = k].status = "provider-running"
          /\ [e EXCEPT !.status = "verifying"].status = "verifying"
          /\ [e EXCEPT !.status = "verified-pending-apply", !.job = k].status = "verified-pending-apply"
          /\ [e EXCEPT !.status = "verified-pending-apply", !.expected = TRUE].status = "verified-pending-apply"
    BY DEF Envelope
  <2>3. copy[t] \in Envelope /\ (Executing(t) => key[t] \in Keys)
    BY TypeParts DEF Placed
  <2>4. CASE Claim(t)
    BY <2>2, <2>3, <2>4 DEF Claim, Store, ConfirmSteps
  <2>5. CASE StoreVerifying(t)
    BY <2>2, <2>3, <2>5 DEF StoreVerifying, Store
  <2>6. CASE Pend(t)
    BY <2>2, <2>3, <2>6 DEF Pend, Store, ConfirmSteps
  <2>7. CASE Expect(t)
    <3>1. CASE copy[t].expected
      BY <2>7, <3>1 DEF Expect, ConfirmSteps
    <3>2. CASE ~copy[t].expected
      <4>1. copy'[t] = [copy[t] EXCEPT !.status = "verified-pending-apply", !.expected = TRUE]
        BY <2>7, <3>2 DEF Expect, Store
      <4> QED
        BY <2>2, <2>3, <4>1
    <3> QED
      BY <3>1, <3>2
  <2> QED
    BY <1>3, <2>4, <2>5, <2>6, <2>7
<1>4. CASE Deenroll(t) \/ ReadBack(t) \/ Observe(t)
  BY <1>4, DeenrollEdits, ReadBackEdits, ObserveEdits DEF Deenroll, ReadBack, Observe, ConfirmSteps
<1>5. CASE \/ Start(t) \/ Accept(t) \/ Restart(t) \/ Observed(t) \/ Unverified(t) \/ Record(t) \/ SucceedJob(t)
           \/ CheckFresh(t) \/ FailJob(t) \/ WriteState(t) \/ CheckState(t)
  BY <1>5 DEF Start, Accept, Restart, Observed, Unverified, Record, SucceedJob, CheckFresh, FailJob,
     WriteState, CheckState, Goto, Leave, ConfirmSteps
<1>6. ASSUME BeginConfirm(t) \/ Revalidate(t) \/ Grant(t) \/ Park(t) \/ StoreApplied(t) PROVE FALSE
  BY <1>6 DEF BeginConfirm, Revalidate, Grant, Park, StoreApplied, Goto, Leave, ConfirmSteps
<1>7. CASE Plan \/ TakeEffect \/ HouseholdMoves \/ UNCHANGED vars
  BY <1>7 DEF Plan, TakeEffect, HouseholdMoves, vars, threadVars
<1>8. ASSUME Crash PROVE FALSE
  BY <1>8 DEF Crash
<1> QED
  BY <1>0, <1>1, <1>2, <1>3, <1>4, <1>5, <1>6, <1>7, <1>8 DEF Next, ThreadStep

LEMMA SuccessStep ==
  ASSUME TypeOK, JobRecorded, ProviderProven, SuccessFounded, [Next]_vars
  PROVE  SuccessFounded'
<1>1. \A k \in ExecuteKeys : jobs'[k] = "succeeded" => provider' = "unmanaged"
  <2> SUFFICES ASSUME NEW k \in ExecuteKeys, jobs'[k] = "succeeded" PROVE provider' = "unmanaged"
    OBVIOUS
  <2>1. k \in Keys /\ k \notin ReconcileKeys
    BY KeysAssumption DEF Keys
  <2>2. provider = "unmanaged"
    BY <2>1, JobsKeep DEF SuccessFounded, SuccessNeedsProvider
  <2> QED
    BY <2>2, ProviderKeeps
<1>2. ASSUME env'.status = "applied"
      PROVE  env'.job \in Keys /\ jobs'[env'.job] = "succeeded" /\ provider' = "unmanaged"
  <2>1. CASE UNCHANGED env
    BY <1>2, <2>1, JobsKeep, ProviderKeeps DEF SuccessFounded, SuccessNeedsProvider
  <2>2. ASSUME NEW t \in Threads, StoreApplied(t), env'.job = copy[t].job
        PROVE  env'.job \in Keys /\ jobs'[env'.job] = "succeeded" /\ provider' = "unmanaged"
    <3>1. pc[t] = "applied" /\ UNCHANGED jobs
      BY <2>2 DEF StoreApplied
    <3>2. copy[t].job = key[t] /\ key[t] \in Keys
      BY <3>1, TypeParts DEF JobRecorded, ByThisJob, Placed, Executing, ConfirmSteps
    <3>3. jobs[key[t]] = "succeeded" /\ provider = "unmanaged"
      BY <3>1 DEF SuccessFounded, ProviderProven, AfterProof
    <3> QED
      BY <2>2, <3>1, <3>2, <3>3, ProviderKeeps
  <2>3. ASSUME NEW t \in Threads, pc[t] \in {"record", "park"}, env'.status = copy[t].status PROVE FALSE
    BY <1>2, <2>3 DEF SuccessFounded, Executing, ConfirmSteps
  <2>4. ASSUME Plan PROVE FALSE
    BY <1>2, <2>4 DEF Plan, TypeOK, Envelope
  <2> QED
    BY <1>2, <2>1, <2>2, <2>3, <2>4, StatusWritten
<1>3. ASSUME NEW t \in Threads, pc'[t] \in Observing PROVE key'[t] \in ReconcileKeys
  BY <1>3, Arrivals DEF SuccessFounded
<1>4. ASSUME NEW t \in Threads, pc'[t] = "applied" PROVE jobs'[key'[t]] = "succeeded"
  <2>1. key'[t] = key[t]
    BY <1>4, Arrivals
  <2>2. CASE SucceedJob(t)
    BY <2>1, <2>2, TypeParts DEF SucceedJob, Placed, Executing, ConfirmSteps, Stored
  <2>3. CASE pc[t] = "applied"
    BY <2>1, <2>3, JobsKeep, TypeParts DEF SuccessFounded, Placed, Executing, ConfirmSteps
  <2> QED
    BY <1>4, <2>2, <2>3, Arrivals
<1>5. ASSUME NEW t \in Threads, Executing(t)' PROVE copy'[t].status # "applied"
  BY <1>5, CopyStatus DEF SuccessFounded
<1> QED
  BY <1>1, <1>2, <1>3, <1>4, <1>5 DEF SuccessFounded, SuccessNeedsProvider

-----------------------------------------------------------------------------
(* Grants, and the clearing of the Household.                              *)

\* Grants only grow and each mutation is one call.
LEMMA CountsStep ==
  ASSUME TypeOK, [Next]_vars
  PROVE  \/ \E t \in Threads : Grant(t) /\ grants' = grants + 1 /\ mutations' = mutations
         \/ \E t \in Threads : Deenroll(t) /\ grants' = grants /\ mutations' = mutations + 1
         \/ UNCHANGED counts
<1>1. ASSUME NEW t \in Threads, Grant(t) PROVE grants' = grants + 1 /\ mutations' = mutations
  BY <1>1 DEF Grant
<1>2. ASSUME NEW t \in Threads, Deenroll(t) PROVE grants' = grants /\ mutations' = mutations + 1
  BY <1>2 DEF Deenroll
<1>3. ASSUME NEW t \in Threads,
             \/ BeginConfirm(t) \/ ResumeApply(t) \/ \E k \in Keys : BeginExecute(t, k) \/ BeginReconcile(t, k)
             \/ Revalidate(t) \/ Start(t) \/ Claim(t) \/ Accept(t) \/ StoreVerifying(t) \/ ReadBack(t)
      PROVE  UNCHANGED counts
  BY <1>3 DEF BeginConfirm, ResumeApply, BeginExecute, BeginReconcile, Revalidate, Start, Claim, Accept,
     StoreVerifying, ReadBack, counts
<1>4. ASSUME NEW t \in Threads,
             \/ CheckFresh(t) \/ Record(t) \/ FailJob(t) \/ Park(t) \/ Restart(t) \/ Observe(t) \/ Observed(t)
             \/ Unverified(t) \/ Pend(t) \/ Expect(t) \/ WriteState(t) \/ CheckState(t) \/ SucceedJob(t)
             \/ StoreApplied(t)
      PROVE  UNCHANGED counts
  BY <1>4 DEF CheckFresh, Record, FailJob, Park, Restart, Observe, Observed, Unverified, Pend, Expect,
     WriteState, CheckState, SucceedJob, StoreApplied, counts
<1>5. CASE Plan \/ TakeEffect \/ HouseholdMoves \/ Crash \/ UNCHANGED vars
  BY <1>5 DEF Plan, TakeEffect, HouseholdMoves, Crash, vars, counts
<1> QED
  BY <1>1, <1>2, <1>3, <1>4, <1>5 DEF Next, ThreadStep

\* The Household is cleared by WriteState alone.
LEMMA ClearingStep ==
  ASSUME TypeOK, [Next]_vars, state' = "expected"
  PROVE  state = "expected" \/ \E t \in Threads : WriteState(t)
<1>1. ASSUME NEW t \in Threads,
             \/ BeginConfirm(t) \/ ResumeApply(t) \/ \E k \in Keys : BeginExecute(t, k) \/ BeginReconcile(t, k)
             \/ Revalidate(t) \/ Grant(t) \/ Start(t) \/ Claim(t) \/ Deenroll(t) \/ Accept(t)
             \/ StoreVerifying(t) \/ ReadBack(t)
      PROVE  UNCHANGED state
  BY <1>1 DEF BeginConfirm, ResumeApply, BeginExecute, BeginReconcile, Revalidate, Grant, Start, Claim,
     Deenroll, Accept, StoreVerifying, ReadBack, durable
<1>2. ASSUME NEW t \in Threads,
             \/ CheckFresh(t) \/ Record(t) \/ FailJob(t) \/ Park(t) \/ Restart(t) \/ Observe(t) \/ Observed(t)
             \/ Unverified(t) \/ Pend(t) \/ Expect(t) \/ CheckState(t) \/ SucceedJob(t) \/ StoreApplied(t)
      PROVE  UNCHANGED state
  BY <1>2 DEF CheckFresh, Record, FailJob, Park, Restart, Observe, Observed, Unverified, Pend, Expect,
     CheckState, SucceedJob, StoreApplied, durable
<1>3. CASE Plan \/ TakeEffect \/ HouseholdMoves \/ Crash \/ UNCHANGED vars
  BY <1>3 DEF Plan, TakeEffect, HouseholdMoves, Crash, vars, durable
<1> QED
  BY <1>1, <1>2, <1>3 DEF Next, ThreadStep

LEMMA NotYetClearedStep ==
  ASSUME TypeOK, OneExecution, NotYetCleared, [Next]_vars
  PROVE  NotYetCleared'
<1> SUFFICES ASSUME NEW t \in Threads, pc'[t] \in BeforeMutation, state' = "expected" PROVE FALSE
  BY DEF NotYetCleared
<1>1. ASSUME NEW k \in Keys, BeginExecute(t, k) PROVE FALSE
  BY <1>1 DEF BeginExecute
<1>2. pc[t] \in BeforeMutation
  BY <1>1, Arrivals
<1>3. PICK u \in Threads : WriteState(u)
  BY <1>2, ClearingStep DEF NotYetCleared
<1>4. u = t
  BY <1>2, <1>3 DEF OneExecution, Executing, WriteState, BeforeMutation, ConfirmSteps
<1> QED
  BY <1>2, <1>3, <1>4 DEF WriteState, BeforeMutation

LEMMA GrantStep ==
  ASSUME TypeOK, OneExecution, GrantHeld, [Next]_vars
  PROVE  GrantHeld'
<1> USE DEF GrantHeld, MutationNeedsItsOwnGrant
<1>n. grants \in Nat /\ mutations \in Nat
  BY DEF TypeOK
<1>s. \A t \in Threads : Executing(t)' /\ pc'[t] \notin {"start", "claim"} => copy'[t].status # "confirmed"
  BY CopyStatus
<1>e. env'.status = "confirmed" => env.status = "confirmed" \/ \E t \in Threads : Grant(t)
  <2>1. ASSUME NEW t \in Threads, pc[t] \in {"record", "park"}, env'.status = copy[t].status
        PROVE  env'.status # "confirmed"
    BY <2>1 DEF Executing, ConfirmSteps
  <2>2. Plan => env'.status = "planned"
    BY DEF Plan, TypeOK, Envelope
  <2> QED
    BY <2>1, <2>2, StatusWritten
<1>b. \A t \in Threads : pc'[t] \in BeforeMutation => pc[t] \in BeforeMutation \/ env.status = "confirmed"
  BY Arrivals DEF BeginExecute
<1>d. \A t \in Threads : pc'[t] = "deenroll" => pc[t] = "deenroll" \/ env'.status = "provider-running"
  <2> SUFFICES ASSUME NEW t \in Threads, Claim(t) PROVE env'.status = "provider-running"
    BY Arrivals
  <2>1. copy[t] \in Envelope
    BY DEF TypeOK
  <2> QED
    BY <2>1 DEF Claim, Store, Envelope
<1>1. CASE UNCHANGED counts
  <2>1. UNCHANGED <<grants, mutations>>
    BY <1>1 DEF counts
  <2>2. env'.status = "confirmed" => env.status = "confirmed"
    BY <1>n, <1>e, <2>1 DEF Grant
  <2> QED
    BY <1>s, <1>b, <1>d, <2>1, <2>2
<1>2. ASSUME NEW t \in Threads, Grant(t), grants' = grants + 1, mutations' = mutations
      PROVE  GrantHeld'
  <2>1. \A u \in Threads : pc'[u] \in BeforeMutation => pc[u] \in BeforeMutation
    BY <1>2 DEF Grant, Leave, TypeOK, BeforeMutation
  <2> QED
    BY <1>2, <1>n, <1>s, <2>1 DEF BeforeMutation
<1>3. ASSUME NEW t \in Threads, Deenroll(t), grants' = grants, mutations' = mutations + 1
      PROVE  GrantHeld'
  <2>1. pc[t] = "deenroll" /\ UNCHANGED env
    BY <1>3 DEF Deenroll, durable
  <2>2. \A u \in Threads : u # t => pc'[u] = pc[u] /\ ~Executing(u)
    BY <1>3, <2>1, Others DEF ThreadStep, OneExecution, Executing, ConfirmSteps
  <2>3. pc'[t] \notin BeforeMutation
    BY <1>3 DEF Deenroll, Goto, TypeOK, BeforeMutation
  <2>4. \A u \in Threads : pc'[u] \notin BeforeMutation
    BY <2>2, <2>3 DEF Executing, BeforeMutation, ConfirmSteps
  <2> QED
    BY <1>3, <1>n, <1>s, <2>1, <2>4 DEF BeforeMutation
<1> QED
  BY <1>1, <1>2, <1>3, CountsStep

-----------------------------------------------------------------------------
(* The theorems.                                                           *)

\* The inductive invariant of a plan, from which all the others follow.
THEOREM PlanInvariant == Spec => []PlanInv
<1>1. Init => PlanInv
  <2> SUFFICES ASSUME Init PROVE PlanInv
    OBVIOUS
  <2>1. Blank \in Envelope /\ Blank.status = "none" /\ ~Blank.expected
    BY DEF Blank, Envelope, Statuses
  <2>2. TypeOK
    BY <2>1, KeysAssumption DEF Init, TypeOK, JobStates, Busy
  <2>3. \A t \in Threads : ~Executing(t) /\ pc[t] = "idle" /\ ~copy[t].expected
    BY <2>1 DEF Init, Executing
  <2>4. \A k \in Keys : jobs[k] # "succeeded"
    BY DEF Init
  <2> QED
    BY <2>1, <2>2, <2>3, <2>4
       DEF Init, PlanInv, OneExecution, JobRecorded, ProviderProven, ClearedOnlyIfUnmanaged, SuccessFounded,
           SuccessNeedsProvider, GrantHeld, MutationNeedsItsOwnGrant, NotYetCleared, ByThisJob, AfterProof,
           Observing, BeforeMutation, Keys
<1>2. PlanInv /\ [Next]_vars => PlanInv'
  BY TypeStep, LockStep, JobStep, ProvenStep, SuccessStep, GrantStep, NotYetClearedStep DEF PlanInv
<1> QED
  BY <1>1, <1>2, PTL DEF Spec

\* Every variable keeps its type, and every execution or reconciliation has a job.
THEOREM TypeCorrect == Spec => []TypeOK
<1>1. PlanInv => TypeOK
  BY DEF PlanInv
<1> QED
  BY <1>1, PlanInvariant, PTL

\* The Household says unmanaged only when the provider does (_apply_verified
\* after verify_deenrollment).
THEOREM NoFalseSuccess == Spec => []ClearedOnlyIfUnmanaged
<1>1. PlanInv => ClearedOnlyIfUnmanaged
  BY DEF PlanInv, ProviderProven
<1> QED
  BY <1>1, PlanInvariant, PTL

\* Every provider mutation (execute) has a confirmation (confirm), and its
\* step-up grant, of its own.
THEOREM GrantTheorem == Spec => []MutationNeedsItsOwnGrant
<1>1. PlanInv => MutationNeedsItsOwnGrant
  BY DEF PlanInv, GrantHeld
<1> QED
  BY <1>1, PlanInvariant, PTL

\* A job that succeeded on an applied plan rests on a device the provider has
\* unmanaged.
THEOREM SuccessTheorem == Spec => []SuccessNeedsProvider
<1>1. PlanInv => SuccessNeedsProvider
  BY DEF PlanInv, SuccessFounded
<1> QED
  BY <1>1, PlanInvariant, PTL

\* Once the Household is cleared execute does not call the provider again.
THEOREM ClearedTheorem == Spec => ClearedIsFinal
<1>1. PlanInv /\ [Next]_vars => [state = "expected" => UNCHANGED mutations]_vars
  <2> SUFFICES ASSUME PlanInv, [Next]_vars, state = "expected" PROVE UNCHANGED mutations
    OBVIOUS
  <2>1. ASSUME NEW t \in Threads, Deenroll(t) PROVE FALSE
    BY <2>1 DEF Deenroll, PlanInv, NotYetCleared, BeforeMutation
  <2> QED
    BY <2>1, CountsStep DEF PlanInv, counts
<1> QED
  BY <1>1, PlanInvariant, PTL DEF Spec, ClearedIsFinal
=============================================================================
