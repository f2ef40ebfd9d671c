------------------------ MODULE QrOnboardingProofs ------------------------
(***************************************************************************)
(* What holds of one invitation for any number of request keys, effect     *)
(* admissions, threads and crashes, whenever it expires and whenever the   *)
(* Household moves on.                                                     *)
(***************************************************************************)
EXTENDS QrOnboarding, TLAPS

-----------------------------------------------------------------------------
(* Type correctness.                                                       *)

LEMMA LeaveTypes ==
  ASSUME TypeOK, NEW t \in Threads, Leave(t)
  PROVE  /\ pc' \in [Threads -> {"idle", "create"} \cup OpSteps \cup {"admit"} \cup WorkerSteps]
         /\ work' \in [Threads -> OpKeys \cup Jobs \cup {Issue, None}]
         /\ asked' \in [Threads -> 0..2]
         /\ late' \in [Threads -> BOOLEAN]
         /\ \A u \in Threads : u # t => pc'[u] = pc[u] /\ work'[u] = work[u] /\ asked'[u] = asked[u]
         /\ pc'[t] = "idle"
BY DEF Leave, TypeOK, OpSteps, WorkerSteps

LEMMA MoveTypes ==
  ASSUME TypeOK, NEW j \in Jobs, NEW from, NEW to \in JobStates, Move(j, from, to)
  PROVE  /\ jobs' \in [Jobs -> JobStates]
         /\ \A i \in Jobs : i # j => jobs'[i] = jobs[i]
         /\ jobs'[j] = to /\ jobs[j] = from
BY DEF Move, TypeOK

\* Every variable keeps its type, and the key or job of every request is one
\* its step can work on.
THEOREM TypeCorrect == Spec => []TypeOK
<1> USE KeysAssumption
<1>1. Init => TypeOK
  <2> SUFFICES ASSUME Init PROVE TypeOK
    OBVIOUS
  <2>1. /\ record \in [state : {"none", "active", "consumed", "revoked"}, version : Nat]
        /\ ops \in [OpKeys -> 0..2] /\ asked \in [Threads -> 0..2]
        /\ jobs \in [Jobs -> JobStates]
        /\ crashes \in 0..MaxCrashes
    BY DEF Init, JobStates
  <2>2. /\ expired \in BOOLEAN /\ late \in [Threads -> BOOLEAN]
        /\ household \in {"issued", "moved"}
        /\ effect \in Jobs \cup {None}
        /\ audited = {} /\ answered = {}
    BY DEF Init
  <2>3. /\ pc \in [Threads -> {"idle", "create"} \cup OpSteps \cup {"admit"} \cup WorkerSteps]
        /\ work \in [Threads -> OpKeys \cup Jobs \cup {Issue, None}]
        /\ \A t \in Threads : pc[t] = "idle"
    BY DEF Init
  <2> QED
    BY <2>1, <2>2, <2>3 DEF TypeOK, OpSteps, WorkerSteps
<1>2. TypeOK /\ [Next]_vars => TypeOK'
  <2> SUFFICES ASSUME TypeOK, [Next]_vars PROVE TypeOK'
    OBVIOUS
  <2>1. ASSUME NEW t \in Threads, BeginIssue(t) PROVE TypeOK'
    BY <2>1 DEF BeginIssue, Goto, TypeOK, durable, environment, OpSteps, WorkerSteps, Idle
  <2>2. ASSUME NEW t \in Threads, NEW k \in OpKeys, NEW v \in Versions, BeginOp(t, k, v)
        PROVE TypeOK'
    BY <2>2 DEF BeginOp, Goto, TypeOK, durable, environment, OpSteps, WorkerSteps, Idle, Versions
  <2>3. ASSUME NEW t \in Threads, NEW j \in Jobs, BeginAdmit(t, j) PROVE TypeOK'
    BY <2>3 DEF BeginAdmit, Goto, TypeOK, durable, environment, OpSteps, WorkerSteps, Idle
  <2>4. ASSUME NEW t \in Threads, NEW j \in Jobs, Run(t, j) PROVE TypeOK'
    BY <2>4, MoveTypes DEF Run, Goto, TypeOK, environment, OpSteps, WorkerSteps, Idle, JobStates
  <2>5. ASSUME NEW t \in Threads, NEW j \in Jobs, Resume(t, j) PROVE TypeOK'
    BY <2>5 DEF Resume, Goto, TypeOK, durable, environment, OpSteps, WorkerSteps, Idle
  <2>6. ASSUME NEW t \in Threads, Create(t) PROVE TypeOK'
    <3>1. CASE record.state = "none"
      BY <2>6, <3>1 DEF Create, Goto, TypeOK, environment, OpSteps, WorkerSteps
    <3>2. CASE record.state # "none"
      BY <2>6, <3>2, LeaveTypes DEF Create, TypeOK, environment, OpSteps, WorkerSteps
    <3> QED
      BY <3>1, <3>2
  <2>7. ASSUME NEW t \in Threads, Transition(t) PROVE TypeOK'
    <3>k. work[t] \in OpKeys /\ asked[t] \in Versions
      BY <2>7 DEF Transition, TypeOK
    <3>1. CASE Settle(t, work[t])
      <4>1. record' \in [state : {"none", "active", "consumed", "revoked"}, version : Nat]
        BY <3>1, <3>k DEF Settle, Outcome, TypeOK, Versions
      <4>2. ops' \in [OpKeys -> 0..2]
        BY <3>1, <3>k DEF Settle, TypeOK, Versions
      <4> QED
        BY <2>7, <3>1, <3>k, <4>1, <4>2
           DEF Transition, Settle, Goto, TypeOK, environment, OpSteps, WorkerSteps
    <3>2. ASSUME Goto(t, "append"), UNCHANGED <<record, ops, work, asked, late>> PROVE TypeOK'
      BY <2>7, <3>2, <3>k DEF Transition, Goto, TypeOK, environment, OpSteps, WorkerSteps
    <3>3. ASSUME Leave(t), UNCHANGED <<record, ops>> PROVE TypeOK'
      BY <2>7, <3>3, LeaveTypes DEF Transition, TypeOK, environment, OpSteps, WorkerSteps
    <3> QED
      BY <2>7, <3>1, <3>2, <3>3 DEF Transition, Replay, Refuse
  <2>8. ASSUME NEW t \in Threads, Append(t) PROVE TypeOK'
    BY <2>8, LeaveTypes DEF Append, TypeOK, environment, OpSteps, WorkerSteps
  <2>9. ASSUME NEW t \in Threads, Admit(t) PROVE TypeOK'
    <3>1. jobs' \in [Jobs -> JobStates]
      BY <2>9 DEF Admit, TypeOK, JobStates
    <3> QED
      BY <2>9, <3>1, LeaveTypes DEF Admit, TypeOK, environment, OpSteps, WorkerSteps
  <2>10. ASSUME NEW t \in Threads, Execute(t) PROVE TypeOK'
    BY <2>10 DEF Execute, Goto, TypeOK, environment, OpSteps, WorkerSteps
  <2>11. ASSUME NEW t \in Threads, Fail(t) \/ Verify(t) PROVE TypeOK'
    <3>1. jobs' \in [Jobs -> JobStates]
      BY <2>11, MoveTypes DEF Fail, Verify, TypeOK, JobStates, WorkerSteps
    <3> QED
      BY <2>11, <3>1, LeaveTypes DEF Fail, Verify, TypeOK, environment, OpSteps, WorkerSteps
  <2>12. ASSUME NEW t \in Threads, Accept(t) PROVE TypeOK'
    <3>1. jobs' \in [Jobs -> JobStates]
      BY <2>12, MoveTypes DEF Accept, TypeOK, JobStates, WorkerSteps
    <3> QED
      BY <2>12, <3>1 DEF Accept, Goto, TypeOK, environment, OpSteps, WorkerSteps
  <2>13. CASE HouseholdMoves \/ Expire
    BY <2>13 DEF HouseholdMoves, Expire, TypeOK, durable, threadVars
  <2>14. CASE Crash
    BY <2>14 DEF Crash, TypeOK, durable, environment, OpSteps, WorkerSteps
  <2>15. CASE UNCHANGED vars
    BY <2>15 DEF vars, TypeOK, durable, environment, threadVars
  <2> QED
    BY <2>1, <2>2, <2>3, <2>4, <2>5, <2>6, <2>7, <2>8, <2>9, <2>10, <2>11, <2>12,
       <2>13, <2>14, <2>15 DEF Next, Steps
<1> QED
  BY <1>1, <1>2, PTL DEF Spec

-----------------------------------------------------------------------------
(* The inductive invariant, in the order its parts rest on one another.    *)

Settled == {"consumed", "revoked"}

\* The version counts the changes of the record, and a stored operation is the
\* one that settled it.
RecordSettled ==
  /\ record.state = "none" => record.version = 0
  /\ record.state = "active" => record.version = 1
  /\ record.state \in Settled => record.version = 2
  /\ \A k \in OpKeys : ops[k] # 0 => record = [state |-> Outcome(k), version |-> 2]

\* The audit follows the stored operations; a request appends only what is stored.
AuditInPlace ==
  /\ AuditFollowsOperations
  /\ \A t \in Threads : pc[t] = "append" => work[t] \in Stored

\* One worker at a time, its job where its step has put it, and the Household
\* state it checked still current when it writes.
WorkerInPlace ==
  /\ \A t, u \in Threads : pc[t] \in WorkerSteps /\ pc[u] \in WorkerSteps => t = u
  /\ \A t \in Threads : pc[t] \in {"execute", "accept", "fail"} => jobs[work[t]] = "running"
  /\ \A t \in Threads : pc[t] = "verify" => jobs[work[t]] = "verifying"
  /\ \A t \in Threads : pc[t] = "accept" => effect = work[t]
  /\ \A t \in Threads : pc[t] = "execute" => household = "issued"

\* Jobs and the effect come after the record is settled, and a job that got as
\* far as verifying owns the effect.
EffectInPlace ==
  /\ \A j \in Jobs : jobs[j] # "absent" => record.state \in Settled
  /\ \A t \in Threads : pc[t] = "admit" => record.state \in Settled
  /\ effect # None => record.state \in Settled
  /\ \A j \in Jobs : jobs[j] \in {"verifying", "succeeded"} => effect = j

-----------------------------------------------------------------------------
(* The record and its operations.                                          *)

\* Only creation and the transition write the record or the operations.
LEMMA RecordWriters ==
  ASSUME [Next]_vars
  PROVE  \/ \E t \in Threads : Create(t) \/ Transition(t)
         \/ UNCHANGED <<record, ops>>
BY DEF Next, Steps, BeginIssue, BeginOp, BeginAdmit, Run, Resume, Append, Admit, Execute, Fail,
       Accept, Verify, HouseholdMoves, Expire, Crash, vars, durable

\* What creation does to the record.
LEMMA CreateRecord ==
  ASSUME TypeOK, RecordSettled, NEW t \in Threads, Create(t)
  PROVE  /\ RecordSettled' /\ UNCHANGED ops
         /\ \/ UNCHANGED record
            \/ record.state = "none" /\ record'.state = "active"
<1>1. CASE record.state = "none"
  <2>1. record' = [state |-> "active", version |-> 1] /\ UNCHANGED ops
    BY <1>1 DEF Create
  <2>2. record'.state = "active" /\ record'.version = 1
    BY <2>1
  <2>3. \A k \in OpKeys : ops[k] = 0
    <3> SUFFICES ASSUME NEW k \in OpKeys, ops[k] # 0 PROVE FALSE
      OBVIOUS
    <3>1. record.state = Outcome(k)
      BY DEF RecordSettled
    <3> QED
      BY <1>1, <3>1 DEF Outcome
  <2> QED
    BY <1>1, <2>1, <2>2, <2>3 DEF RecordSettled, Settled
<1>2. CASE record.state # "none"
  <2>1. UNCHANGED <<record, ops>>
    BY <1>2 DEF Create
  <2> QED
    BY <2>1 DEF RecordSettled, Outcome
<1> QED
  BY <1>1, <1>2

\* What a consume or a revoke does to it.
LEMMA SettleRecord ==
  ASSUME TypeOK, RecordSettled, NEW t \in Threads, Transition(t), Settle(t, work[t])
  PROVE  /\ RecordSettled'
         /\ record.state = "active" /\ record'.state \in Settled
         /\ \A k \in OpKeys : ops[k] = 0
         /\ \A k \in OpKeys : ops'[k] # 0 <=> k = work[t]
<1>k. work[t] \in OpKeys /\ asked[t] \in {1, 2}
  BY DEF Transition, TypeOK, Versions
<1>1. record.state = "active" /\ record.version = 1 /\ asked[t] = 1
  BY DEF Settle, EffectivelyActive, RecordSettled
<1>2. record' = [state |-> Outcome(work[t]), version |-> 2]
  BY <1>1 DEF Settle
<1>3. record'.state = Outcome(work[t]) /\ record'.version = 2
  BY <1>2
<1>4. Outcome(work[t]) \in Settled
  BY DEF Outcome, Settled
<1>5. \A k \in OpKeys : ops[k] = 0
  <2> SUFFICES ASSUME NEW k \in OpKeys, ops[k] # 0 PROVE FALSE
    OBVIOUS
  <2>1. record.state = Outcome(k)
    BY DEF RecordSettled
  <2> QED
    BY <1>1, <2>1 DEF Outcome
<1>6. \A k \in OpKeys : ops'[k] # 0 <=> k = work[t]
  BY <1>1, <1>5, <1>k DEF Settle, TypeOK
<1>7. RecordSettled'
  BY <1>2, <1>3, <1>4, <1>6, <1>k DEF RecordSettled, Settled, Outcome
<1> QED
  BY <1>1, <1>3, <1>4, <1>5, <1>6, <1>7

LEMMA RecordStep ==
  ASSUME TypeOK, RecordSettled, [Next]_vars
  PROVE  /\ RecordSettled'
         /\ \/ UNCHANGED <<record, ops>>
            \/ record.state = "none" /\ record'.state = "active" /\ UNCHANGED ops
            \/ record.state = "active" /\ record'.state \in Settled
               /\ \A k \in OpKeys : ops[k] = 0
<1> DEFINE Moves ==
      \/ UNCHANGED <<record, ops>>
      \/ record.state = "none" /\ record'.state = "active" /\ UNCHANGED ops
      \/ record.state = "active" /\ record'.state \in Settled /\ \A k \in OpKeys : ops[k] = 0
<1>1. ASSUME NEW t \in Threads, Create(t) PROVE RecordSettled' /\ Moves
  BY <1>1, CreateRecord
<1>2. CASE UNCHANGED <<record, ops>>
  BY <1>2 DEF RecordSettled, Outcome
<1>3. ASSUME NEW t \in Threads, Transition(t) PROVE RecordSettled' /\ Moves
  <2>1. CASE Settle(t, work[t])
    BY <1>3, <2>1, SettleRecord
  <2>2. CASE ~Settle(t, work[t])
    BY <1>2, <1>3, <2>2 DEF Transition, Replay, Refuse
  <2> QED
    BY <2>1, <2>2
<1> QED
  BY <1>1, <1>2, <1>3, RecordWriters

-----------------------------------------------------------------------------
(* The audit trail.                                                        *)

LEMMA StoredGrows ==
  ASSUME TypeOK, RecordSettled, [Next]_vars
  PROVE  Stored \subseteq Stored'
<1>1. CASE UNCHANGED <<record, ops>>
  BY <1>1 DEF Stored
<1>2. CASE record.state = "none" /\ record'.state = "active" /\ UNCHANGED ops
  BY <1>2 DEF Stored
<1>3. CASE record.state = "active" /\ record'.state \in Settled /\ \A k \in OpKeys : ops[k] = 0
  BY <1>3 DEF Stored, Settled
<1> QED
  BY <1>1, <1>2, <1>3, RecordStep

LEMMA AuditStep ==
  ASSUME TypeOK, RecordSettled, AuditInPlace, [Next]_vars
  PROVE  AuditInPlace'
<1> USE DEF AuditInPlace, AuditFollowsOperations
<1>s. Stored \subseteq Stored'
  BY StoredGrows
<1>1. ASSUME UNCHANGED <<audited, answered>>,
             \A u \in Threads : pc'[u] = "append" => pc[u] = "append" /\ work'[u] = work[u]
      PROVE  AuditInPlace'
  BY <1>1, <1>s
<1>2. ASSUME NEW t \in Threads, Append(t) PROVE AuditInPlace'
  <2>1. work[t] \in Stored
    BY <1>2 DEF Append
  <2>2. \A u \in Threads : pc'[u] = "append" => pc[u] = "append" /\ work'[u] = work[u]
    BY <1>2, LeaveTypes DEF Append
  <2> QED
    BY <1>2, <1>s, <2>1, <2>2 DEF Append
<1>3. ASSUME NEW t \in Threads, Create(t) PROVE AuditInPlace'
  <2>1. CASE record.state = "none"
    <3>1. record'.state = "active" /\ work'[t] = Issue /\ UNCHANGED <<audited, answered, work>>
      BY <1>3, <2>1 DEF Create, TypeOK
    <3>2. Issue \in Stored'
      BY <3>1 DEF Stored
    <3>3. \A u \in Threads : u # t => pc'[u] = pc[u]
      BY <1>3, <2>1 DEF Create, Goto, TypeOK
    <3> QED
      BY <1>s, <3>1, <3>2, <3>3
  <2>2. CASE record.state # "none"
    <3>1. Leave(t) /\ UNCHANGED <<audited, answered>>
      BY <1>3, <2>2 DEF Create
    <3> QED
      BY <1>1, <3>1, LeaveTypes
  <2> QED
    BY <2>1, <2>2
<1>4. ASSUME NEW t \in Threads, Transition(t) PROVE AuditInPlace'
  <2>k. work[t] \in OpKeys /\ asked[t] # 0 /\ UNCHANGED <<audited, answered>>
    BY <1>4 DEF Transition, TypeOK, Versions
  <2>1. ASSUME Goto(t, "append"), UNCHANGED work, ops'[work[t]] # 0 PROVE AuditInPlace'
    <3>1. work[t] \in Stored'
      BY <2>1, <2>k DEF Stored
    <3>2. \A u \in Threads : u # t => pc'[u] = pc[u]
      BY <2>1 DEF Goto, TypeOK
    <3> QED
      BY <1>s, <2>1, <2>k, <3>1, <3>2
  <2>2. ASSUME Leave(t) PROVE AuditInPlace'
    BY <1>1, <2>2, <2>k, LeaveTypes
  <2>3. CASE Settle(t, work[t])
    BY <1>4, <2>1, <2>3, SettleRecord, <2>k DEF Settle
  <2>4. CASE Replay(t, work[t])
    BY <2>1, <2>2, <2>4 DEF Replay
  <2>5. CASE Refuse(t, work[t])
    BY <2>2, <2>5 DEF Refuse
  <2> QED
    BY <1>4, <2>3, <2>4, <2>5 DEF Transition
<1>5. ASSUME NEW t \in Threads,
             BeginIssue(t) \/ Execute(t) \/ Accept(t)
             \/ (\E k \in OpKeys, v \in Versions : BeginOp(t, k, v))
             \/ (\E j \in Jobs : BeginAdmit(t, j) \/ Run(t, j) \/ Resume(t, j))
      PROVE  AuditInPlace'
  BY <1>1, <1>5 DEF BeginIssue, Execute, Accept, BeginOp, BeginAdmit, Run, Resume, Goto, TypeOK, durable
<1>6. ASSUME NEW t \in Threads, Admit(t) \/ Fail(t) \/ Verify(t) PROVE AuditInPlace'
  BY <1>1, <1>6, LeaveTypes DEF Admit, Fail, Verify
<1>7. CASE HouseholdMoves \/ Expire \/ Crash \/ UNCHANGED vars
  BY <1>1, <1>7 DEF HouseholdMoves, Expire, Crash, vars, durable, threadVars
<1> QED
  BY <1>2, <1>3, <1>4, <1>5, <1>6, <1>7 DEF Next, Steps

\* No order of requests, retries, refusals and crashes makes the audit chain
\* claim an operation that is not stored, or the server answer one that the
\* chain does not report.
THEOREM AuditTheorem == Spec => []AuditFollowsOperations
<1>1. Init => RecordSettled /\ AuditInPlace
  BY DEF Init, RecordSettled, AuditInPlace, AuditFollowsOperations, Settled
<1>2. TypeOK /\ RecordSettled /\ AuditInPlace /\ [Next]_vars => RecordSettled' /\ AuditInPlace'
  BY RecordStep, AuditStep
<1>3. AuditInPlace => AuditFollowsOperations
  BY DEF AuditInPlace
<1> QED
  BY <1>1, <1>2, <1>3, TypeCorrect, PTL DEF Spec

\* What was answered stays true: two operations on one invitation are never
\* both answered as succeeded, by any of their retries.
THEOREM AnswerTheorem == Spec => []AnswerStands
<1>1. Init => RecordSettled /\ AuditInPlace
  BY DEF Init, RecordSettled, AuditInPlace, AuditFollowsOperations, Settled
<1>2. TypeOK /\ RecordSettled /\ AuditInPlace /\ [Next]_vars => RecordSettled' /\ AuditInPlace'
  BY RecordStep, AuditStep
<1>3. RecordSettled /\ AuditInPlace => AnswerStands
  <2> SUFFICES ASSUME RecordSettled, AuditInPlace, NEW k \in answered \cap OpKeys
               PROVE  record = [state |-> Outcome(k), version |-> 2]
    BY DEF AnswerStands
  <2>1. k \in Stored /\ k # Issue
    BY KeysAssumption DEF AuditInPlace, AuditFollowsOperations
  <2>2. ops[k] # 0
    BY <2>1 DEF Stored
  <2> QED
    BY <2>2 DEF RecordSettled
<1> QED
  BY <1>1, <1>2, <1>3, TypeCorrect, PTL DEF Spec

-----------------------------------------------------------------------------
(* Jobs, the worker and the effect.                                        *)

\* Whoever is not a worker finds the store free, and leaves the worker's part
\* of the state alone.
LEMMA OtherStep ==
  ASSUME TypeOK, WorkerInPlace, UNCHANGED <<jobs, effect>>,
         household' = household \/ StoreFree,
         \A u \in Threads : pc'[u] \in WorkerSteps => pc'[u] = pc[u] /\ work'[u] = work[u]
  PROVE  WorkerInPlace'
<1>1. \A u \in Threads : pc'[u] = "execute" => household' = household
  BY DEF StoreFree, WorkerSteps
<1>2. \A u \in Threads : pc'[u] \in WorkerSteps => pc[u] \in WorkerSteps
  OBVIOUS
<1> QED
  BY <1>1, <1>2 DEF WorkerInPlace, WorkerSteps

\* A thread that has just taken the store lock is the only worker.
LEMMA OnlyWorker ==
  ASSUME TypeOK, NEW t \in Threads, StoreFree \/ (WorkerInPlace /\ pc[t] \in WorkerSteps),
         \A u \in Threads : u # t => pc'[u] = pc[u]
  PROVE  \A u \in Threads : u # t => pc'[u] \notin WorkerSteps
BY DEF StoreFree, WorkerInPlace

LEMMA WorkerStep ==
  ASSUME TypeOK, WorkerInPlace, [Next]_vars
  PROVE  WorkerInPlace'
<1>1. ASSUME NEW t \in Threads,
             Create(t) \/ Transition(t) \/ Append(t) \/ BeginIssue(t)
             \/ (\E k \in OpKeys, v \in Versions : BeginOp(t, k, v))
             \/ (\E j \in Jobs : BeginAdmit(t, j))
      PROVE  WorkerInPlace'
  <2>1. UNCHANGED <<jobs, effect, household>>
    BY <1>1 DEF Create, Transition, Append, BeginIssue, BeginOp, BeginAdmit, durable, environment
  <2>2. \A u \in Threads : u # t => pc'[u] = pc[u] /\ work'[u] = work[u]
    BY <1>1, LeaveTypes DEF Create, Transition, Replay, Settle, Refuse, Append, BeginIssue, BeginOp,
                            BeginAdmit, Goto, TypeOK
  <2>3. pc'[t] \notin WorkerSteps
    BY <1>1, LeaveTypes DEF Create, Transition, Replay, Settle, Refuse, Append, BeginIssue, BeginOp,
                            BeginAdmit, Goto, TypeOK, WorkerSteps
  <2> QED
    BY <2>1, <2>2, <2>3, OtherStep
<1>2. ASSUME NEW t \in Threads, Admit(t) PROVE WorkerInPlace'
  <2>1. StoreFree /\ \A u \in Threads : pc'[u] \notin WorkerSteps
    BY <1>2, LeaveTypes DEF Admit, StoreFree, WorkerSteps
  <2> QED
    BY <2>1 DEF WorkerInPlace, WorkerSteps
<1>3. ASSUME NEW t \in Threads, NEW j \in Jobs, Run(t, j) PROVE WorkerInPlace'
  <2>1. \A u \in Threads : u # t => pc'[u] \notin WorkerSteps
    BY <1>3, OnlyWorker DEF Run, Goto, TypeOK
  <2>2. pc'[t] = "execute" /\ work'[t] = j /\ household' = "issued" /\ jobs'[j] = "running"
    BY <1>3 DEF Run, Goto, TypeOK, Move, environment
  <2> QED
    BY <2>1, <2>2 DEF WorkerInPlace, WorkerSteps
<1>4. ASSUME NEW t \in Threads, NEW j \in Jobs, Resume(t, j) PROVE WorkerInPlace'
  <2>1. \A u \in Threads : u # t => pc'[u] \notin WorkerSteps
    BY <1>4, OnlyWorker DEF Resume, Goto, TypeOK
  <2>2. pc'[t] = "verify" /\ work'[t] = j /\ jobs'[j] = "verifying"
    BY <1>4 DEF Resume, Goto, TypeOK, durable
  <2> QED
    BY <2>1, <2>2 DEF WorkerInPlace, WorkerSteps
<1>5. ASSUME NEW t \in Threads, Execute(t) PROVE WorkerInPlace'
  <2>1. \A u \in Threads : u # t => pc'[u] \notin WorkerSteps
    BY <1>5, OnlyWorker DEF Execute, Goto, TypeOK, WorkerSteps
  <2>2. jobs'[work'[t]] = "running" /\ pc'[t] \in {"accept", "fail"}
    BY <1>5 DEF Execute, Goto, TypeOK, WorkerInPlace
  <2>3. pc'[t] = "accept" => effect' = work'[t]
    BY <1>5 DEF Execute, Goto, TypeOK
  <2> QED
    BY <2>1, <2>2, <2>3 DEF WorkerInPlace, WorkerSteps
<1>6. ASSUME NEW t \in Threads, Accept(t) PROVE WorkerInPlace'
  <2>1. \A u \in Threads : u # t => pc'[u] \notin WorkerSteps
    BY <1>6, OnlyWorker DEF Accept, Goto, TypeOK, WorkerSteps
  <2>2. pc'[t] = "verify" /\ jobs'[work'[t]] = "verifying"
    BY <1>6 DEF Accept, Goto, Move, TypeOK, WorkerSteps
  <2> QED
    BY <2>1, <2>2 DEF WorkerInPlace, WorkerSteps
<1>7. ASSUME NEW t \in Threads, Fail(t) \/ Verify(t) PROVE WorkerInPlace'
  <2>1. \A u \in Threads : u # t => pc'[u] \notin WorkerSteps
    BY <1>7, OnlyWorker, LeaveTypes DEF Fail, Verify, WorkerSteps
  <2>2. pc'[t] = "idle"
    BY <1>7, LeaveTypes DEF Fail, Verify
  <2> QED
    BY <2>1, <2>2 DEF WorkerInPlace, WorkerSteps
<1>8. CASE HouseholdMoves \/ Expire \/ Crash \/ UNCHANGED vars
  BY <1>8, OtherStep DEF HouseholdMoves, Expire, Crash, vars, durable, threadVars, environment,
                         WorkerSteps
<1> QED
  BY <1>1, <1>2, <1>3, <1>4, <1>5, <1>6, <1>7, <1>8 DEF Next, Steps

\* A settled record stays settled.
LEMMA SettledStays ==
  ASSUME TypeOK, RecordSettled, [Next]_vars, record.state \in Settled
  PROVE  record'.state \in Settled
BY RecordStep DEF Settled

LEMMA EffectStep ==
  ASSUME TypeOK, RecordSettled, WorkerInPlace, EffectInPlace, [Next]_vars
  PROVE  EffectInPlace'
<1>s. record.state \in Settled => record'.state \in Settled
  BY SettledStays
<1>1. ASSUME UNCHANGED <<jobs, effect>>,
             \A u \in Threads : pc'[u] = "admit" => pc[u] = "admit" \/ record.state \in Settled
      PROVE  EffectInPlace'
  BY <1>1, <1>s DEF EffectInPlace
<1>2. ASSUME NEW t \in Threads,
             Create(t) \/ Transition(t) \/ Append(t) \/ BeginIssue(t)
             \/ (\E k \in OpKeys, v \in Versions : BeginOp(t, k, v))
             \/ (\E j \in Jobs : BeginAdmit(t, j) \/ Resume(t, j))
      PROVE  EffectInPlace'
  <2>1. UNCHANGED <<jobs, effect>>
    BY <1>2 DEF Create, Transition, Append, BeginIssue, BeginOp, BeginAdmit, Resume, durable
  <2>2. \A u \in Threads : u # t => pc'[u] = pc[u]
    BY <1>2, LeaveTypes DEF Create, Transition, Replay, Settle, Refuse, Append, BeginIssue, BeginOp,
                            BeginAdmit, Resume, Goto, TypeOK
  <2>3. pc'[t] = "admit" => record.state \in Settled
    BY <1>2, LeaveTypes DEF Create, Transition, Replay, Settle, Refuse, Append, BeginIssue, BeginOp,
                            BeginAdmit, Resume, Goto, TypeOK, Settled
  <2> QED
    BY <1>1, <2>1, <2>2, <2>3
<1>3. ASSUME NEW t \in Threads, Admit(t) PROVE EffectInPlace'
  <2>1. work[t] \in Jobs /\ record.state \in Settled /\ UNCHANGED effect
    BY <1>3 DEF Admit, TypeOK, EffectInPlace
  <2>2. \A i \in Jobs : jobs'[i] = jobs[i] \/ jobs'[i] = "preflight"
    BY <1>3, <2>1 DEF Admit, TypeOK
  <2> QED
    BY <1>s, <2>1, <2>2 DEF EffectInPlace
<1>4. ASSUME NEW t \in Threads, NEW j \in Jobs, NEW from \in JobStates, NEW to \in JobStates,
             Move(j, from, to), from # "absent", UNCHANGED effect,
             to \in {"verifying", "succeeded"} => effect = j,
             \A u \in Threads : pc'[u] = "admit" => pc[u] = "admit"
      PROVE  EffectInPlace'
  <2>1. \A i \in Jobs : jobs'[i] = IF i = j THEN to ELSE jobs[i]
    BY <1>4, MoveTypes
  <2>2. record.state \in Settled /\ record'.state \in Settled
    BY <1>4, <1>s DEF EffectInPlace, Move
  <2> QED
    BY <1>4, <2>1, <2>2 DEF EffectInPlace
<1>5. ASSUME NEW t \in Threads, NEW j \in Jobs, Run(t, j) PROVE EffectInPlace'
  BY <1>4, <1>5 DEF Run, Goto, TypeOK, JobStates
<1>6. ASSUME NEW t \in Threads, Execute(t) PROVE EffectInPlace'
  <2>1. work[t] \in Jobs /\ jobs[work[t]] = "running" /\ UNCHANGED jobs
    BY <1>6 DEF Execute, TypeOK, WorkerSteps, WorkerInPlace
  <2>2. record.state \in Settled
    BY <2>1 DEF EffectInPlace
  <2>3. effect' = effect \/ effect = None
    BY <1>6 DEF Execute
  <2>4. \A j \in Jobs : jobs'[j] \in {"verifying", "succeeded"} => effect' = j
    BY <2>1, <2>3, KeysAssumption DEF EffectInPlace
  <2> QED
    BY <1>s, <2>1, <2>2, <2>4 DEF EffectInPlace
<1>7. ASSUME NEW t \in Threads, Accept(t) PROVE EffectInPlace'
  <2>1. work[t] \in Jobs /\ effect = work[t]
    BY <1>7 DEF Accept, TypeOK, WorkerSteps, WorkerInPlace
  <2> QED
    BY <1>4, <1>7, <2>1 DEF Accept, Goto, TypeOK, JobStates
<1>8. ASSUME NEW t \in Threads, Fail(t) \/ Verify(t) PROVE EffectInPlace'
  <2>1. work[t] \in Jobs
    BY <1>8 DEF Fail, Verify, TypeOK, WorkerSteps
  <2>2. \A u \in Threads : pc'[u] = "admit" => pc[u] = "admit"
    BY <1>8, LeaveTypes DEF Fail, Verify
  <2> QED
    BY <1>4, <1>8, <2>1, <2>2 DEF Fail, Verify, JobStates
<1>9. CASE HouseholdMoves \/ Expire \/ Crash \/ UNCHANGED vars
  BY <1>1, <1>9 DEF HouseholdMoves, Expire, Crash, vars, durable, threadVars
<1> QED
  BY <1>2, <1>3, <1>5, <1>6, <1>7, <1>8, <1>9 DEF Next, Steps

-----------------------------------------------------------------------------
IInv == TypeOK /\ RecordSettled /\ WorkerInPlace /\ EffectInPlace

LEMMA Invariant == Spec => []IInv
<1>1. Init => RecordSettled /\ WorkerInPlace /\ EffectInPlace
  BY DEF Init, RecordSettled, WorkerInPlace, EffectInPlace, Settled, WorkerSteps
<1>2. IInv /\ [Next]_vars => RecordSettled' /\ WorkerInPlace' /\ EffectInPlace'
  BY RecordStep, WorkerStep, EffectStep DEF IInv
<1> QED
  BY <1>1, <1>2, TypeCorrect, PTL DEF Spec, IInv

\* A job that reports success is the one the effect was written for, so two
\* admissions of one invitation never both succeed, and no effect precedes the
\* outcome it belongs to.
THEOREM SuccessTheorem == Spec => []SuccessOwnsTheEffect
<1>1. IInv => SuccessOwnsTheEffect
  BY DEF IInv, EffectInPlace, SuccessOwnsTheEffect, Settled
<1> QED
  BY <1>1, Invariant, PTL

\* The effect is only ever written on the Household state the invitation was
\* issued on.
THEOREM IssuedHouseholdTheorem == Spec => EffectOnIssuedHousehold
<1>1. IInv /\ [Next]_vars => (effect' # effect => household = "issued")
  <2> SUFFICES ASSUME IInv, [Next]_vars, effect' # effect PROVE household = "issued"
    OBVIOUS
  <2>1. PICK t \in Threads : Execute(t)
    BY DEF Next, Steps, Create, Transition, Append, Admit, Fail, Accept, Verify, BeginIssue, BeginOp,
           BeginAdmit, Run, Resume, HouseholdMoves, Expire, Crash, vars, durable
  <2> QED
    BY <2>1 DEF IInv, WorkerInPlace, Execute
<1> QED
  BY <1>1, Invariant, PTL DEF Spec, EffectOnIssuedHousehold

-----------------------------------------------------------------------------
(* Who leaves a job behind.                                                *)

Underway == {"running", "verifying"}

\* A step of thread t that takes up the job it starts, and either stays on the
\* job it works on or ends it.
LEMMA StaysOnIt ==
  ASSUME OnlyACrashStrands, NEW t \in Threads, crashes' = crashes,
         \A u \in Threads : u # t => pc'[u] = pc[u] /\ work'[u] = work[u],
         \A j \in Jobs : jobs'[j] \in Underway =>
           jobs[j] \in Underway \/ (pc'[t] \in WorkerSteps /\ work'[t] = j),
         pc[t] \in WorkerSteps =>
           \/ pc'[t] \in WorkerSteps /\ work'[t] = work[t]
           \/ jobs'[work[t]] \notin Underway
  PROVE  OnlyACrashStrands'
BY DEF OnlyACrashStrands, Underway

\* Only a crash leaves a job at running or verifying with nobody on it, whatever
\* the store, the adapter and the Household do meanwhile.
THEOREM StrandTheorem == Spec => []OnlyACrashStrands
<1> USE DEF Underway
<1>1. Init => OnlyACrashStrands
  BY DEF Init, OnlyACrashStrands
<1>2. IInv /\ OnlyACrashStrands /\ [Next]_vars => OnlyACrashStrands'
  <2> SUFFICES ASSUME IInv, OnlyACrashStrands, [Next]_vars PROVE OnlyACrashStrands'
    OBVIOUS
  <2>t. TypeOK
    BY DEF IInv
  <2>1. ASSUME NEW t \in Threads, BeginIssue(t) \/ Append(t) \/ Create(t) \/ Transition(t) PROVE OnlyACrashStrands'
    <3>1. pc[t] \notin WorkerSteps /\ UNCHANGED <<jobs, crashes>>
      BY <2>1 DEF BeginIssue, Append, Create, Transition, Idle, WorkerSteps, durable
    <3>2. \A u \in Threads : u # t => pc'[u] = pc[u] /\ work'[u] = work[u]
      BY <2>1, <2>t DEF BeginIssue, Append, Create, Transition, Replay, Settle, Refuse, Goto, Leave, TypeOK
    <3> QED
      BY <3>1, <3>2, StaysOnIt
  <2>2. ASSUME NEW t \in Threads, NEW k \in OpKeys, NEW v \in Versions, BeginOp(t, k, v) PROVE OnlyACrashStrands'
    <3>1. pc[t] \notin WorkerSteps /\ UNCHANGED <<jobs, crashes>>
      BY <2>2 DEF BeginOp, Idle, WorkerSteps, durable
    <3>2. \A u \in Threads : u # t => pc'[u] = pc[u] /\ work'[u] = work[u]
      BY <2>2, <2>t DEF BeginOp, Goto, TypeOK
    <3> QED
      BY <3>1, <3>2, StaysOnIt
  <2>3. ASSUME NEW t \in Threads, NEW j \in Jobs, BeginAdmit(t, j) \/ Resume(t, j) PROVE OnlyACrashStrands'
    <3>1. pc[t] \notin WorkerSteps /\ UNCHANGED <<jobs, crashes>>
      BY <2>3 DEF BeginAdmit, Resume, Idle, WorkerSteps, durable
    <3>2. \A u \in Threads : u # t => pc'[u] = pc[u] /\ work'[u] = work[u]
      BY <2>3, <2>t DEF BeginAdmit, Resume, Goto, TypeOK
    <3> QED
      BY <3>1, <3>2, StaysOnIt
  <2>4. ASSUME NEW t \in Threads, Admit(t) PROVE OnlyACrashStrands'
    <3>1. pc[t] \notin WorkerSteps /\ crashes' = crashes
      BY <2>4 DEF Admit, WorkerSteps
    <3>2. \A u \in Threads : u # t => pc'[u] = pc[u] /\ work'[u] = work[u]
      BY <2>4, <2>t DEF Admit, Leave, TypeOK
    <3>3. \A j \in Jobs : jobs'[j] \in Underway => jobs[j] \in Underway
      BY <2>4, <2>t DEF Admit, TypeOK
    <3> QED
      BY <3>1, <3>2, <3>3, StaysOnIt
  <2>5. ASSUME NEW t \in Threads, NEW j \in Jobs, Run(t, j) PROVE OnlyACrashStrands'
    <3>1. pc[t] \notin WorkerSteps /\ crashes' = crashes /\ pc'[t] \in WorkerSteps /\ work'[t] = j
      BY <2>5, <2>t DEF Run, Idle, Goto, WorkerSteps, TypeOK
    <3>2. \A u \in Threads : u # t => pc'[u] = pc[u] /\ work'[u] = work[u]
      BY <2>5, <2>t DEF Run, Goto, TypeOK
    <3>3. \A i \in Jobs : i # j => jobs'[i] = jobs[i]
      BY <2>5, <2>t DEF Run, Move, TypeOK
    <3> QED
      BY <3>1, <3>2, <3>3, StaysOnIt
  <2>6. ASSUME NEW t \in Threads, Execute(t) \/ Accept(t) PROVE OnlyACrashStrands'
    <3>1. pc'[t] \in WorkerSteps /\ work' = work /\ crashes' = crashes
      BY <2>6, <2>t DEF Execute, Accept, Goto, WorkerSteps, TypeOK
    <3>2. \A u \in Threads : u # t => pc'[u] = pc[u] /\ work'[u] = work[u]
      BY <2>6, <2>t DEF Execute, Accept, Goto, TypeOK
    <3>3. \A j \in Jobs : jobs'[j] \in Underway => jobs[j] \in Underway
      BY <2>6, <2>t DEF Execute, Accept, Move, TypeOK, WorkerSteps
    <3> QED
      BY <3>1, <3>2, <3>3, StaysOnIt
  <2>7. ASSUME NEW t \in Threads, Fail(t) \/ Verify(t) PROVE OnlyACrashStrands'
    <3>1. crashes' = crashes /\ work[t] \in Jobs
      BY <2>7, <2>t DEF Fail, Verify, TypeOK, WorkerSteps
    <3>2. \A u \in Threads : u # t => pc'[u] = pc[u] /\ work'[u] = work[u]
      BY <2>7, <2>t DEF Fail, Verify, Leave, TypeOK
    <3>3. jobs'[work[t]] \notin Underway /\ \A j \in Jobs : j # work[t] => jobs'[j] = jobs[j]
      BY <2>7, <2>t, <3>1 DEF Fail, Verify, Move, TypeOK
    <3> QED
      BY <3>1, <3>2, <3>3, StaysOnIt
  <2>8. CASE HouseholdMoves \/ Expire \/ UNCHANGED vars
    BY <2>8 DEF HouseholdMoves, Expire, vars, durable, threadVars, OnlyACrashStrands
  <2>9. CASE Crash
    BY <2>9, <2>t DEF Crash, TypeOK, OnlyACrashStrands
  <2> QED
    BY <2>1, <2>2, <2>3, <2>4, <2>5, <2>6, <2>7, <2>8, <2>9 DEF Next, Steps
<1> QED
  BY <1>1, <1>2, Invariant, PTL DEF Spec

-----------------------------------------------------------------------------
(* The invitation keeps its promise.                                       *)

OutcomeOf == IF record.state \in {"consumed", "revoked"} THEN record.state ELSE "open"
Reported == {j \in Jobs : jobs[j] = "succeeded"}

\* The outcome is written once, and while nothing else is.
LEMMA OutcomeStep ==
  ASSUME IInv, [Next]_vars
  PROVE  \/ OutcomeOf' = OutcomeOf
         \/ OutcomeOf = "open" /\ OutcomeOf' \in Settled /\ UNCHANGED <<effect, jobs>>
<1>1. CASE UNCHANGED record
  BY <1>1 DEF OutcomeOf
<1>2. CASE record' # record
  <2>1. PICK t \in Threads : Create(t) \/ Transition(t)
    BY <1>2, RecordWriters
  <2>2. UNCHANGED <<effect, jobs>>
    BY <2>1 DEF Create, Transition
  <2>3. \/ record.state = "none" /\ record'.state = "active"
        \/ record.state = "active" /\ record'.state \in Settled
    BY <1>2, RecordStep DEF IInv
  <2> QED
    BY <2>2, <2>3 DEF OutcomeOf, Settled
<1> QED
  BY <1>1, <1>2

\* The effect and the reports move apart from each other.
LEMMA ReportStep ==
  ASSUME IInv, [Next]_vars
  PROVE  \/ UNCHANGED effect /\ Reported' = Reported
         \/ effect = None /\ effect' \in Jobs /\ UNCHANGED <<record, jobs>>
         \/ effect \in Jobs /\ Reported = {} /\ Reported' = {effect} /\ UNCHANGED <<record, effect>>
<1> USE DEF IInv
<1>1. ASSUME NEW t \in Threads, Execute(t)
      PROVE  \/ UNCHANGED effect /\ Reported' = Reported
             \/ effect = None /\ effect' \in Jobs /\ UNCHANGED <<record, jobs>>
  <2>1. work[t] \in Jobs /\ UNCHANGED <<record, jobs>>
    BY <1>1 DEF Execute, TypeOK, WorkerSteps
  <2> QED
    BY <1>1, <2>1 DEF Execute, Reported
<1>2. ASSUME NEW j \in Jobs, NEW from \in JobStates \ {"succeeded"}, NEW to \in JobStates \ {"succeeded"},
             Move(j, from, to), UNCHANGED effect
      PROVE  UNCHANGED effect /\ Reported' = Reported
  BY <1>2, MoveTypes DEF Reported
<1>3. ASSUME NEW t \in Threads, Verify(t)
      PROVE  \/ UNCHANGED effect /\ Reported' = Reported
             \/ /\ effect \in Jobs /\ Reported = {} /\ Reported' = {effect}
                /\ UNCHANGED <<record, effect>>
  <2>1. work[t] \in Jobs /\ UNCHANGED <<record, effect>>
    BY <1>3 DEF Verify, TypeOK, WorkerSteps
  <2>2. effect = work[t] /\ jobs[work[t]] = "verifying"
    BY <1>3, <2>1 DEF Verify, WorkerInPlace, EffectInPlace
  <2>3. Move(work[t], "verifying", "succeeded")
    BY <1>3, <2>2 DEF Verify
  <2>4. Reported = {}
    BY <2>2 DEF Reported, EffectInPlace
  <2>5. Reported' = {work[t]}
    BY <2>1, <2>3, <2>4, MoveTypes DEF Reported, JobStates
  <2> QED
    BY <2>1, <2>2, <2>4, <2>5
<1>4. ASSUME NEW t \in Threads, Fail(t) \/ Accept(t) PROVE UNCHANGED effect /\ Reported' = Reported
  <2>1. work[t] \in Jobs
    BY <1>4 DEF Fail, Accept, TypeOK, WorkerSteps
  <2> QED
    BY <1>2, <1>4, <2>1 DEF Fail, Accept, JobStates
<1>5. ASSUME NEW t \in Threads, NEW j \in Jobs, Run(t, j)
      PROVE  UNCHANGED effect /\ Reported' = Reported
  BY <1>2, <1>5 DEF Run, JobStates
<1>6. ASSUME NEW t \in Threads, Admit(t) PROVE UNCHANGED effect /\ Reported' = Reported
  <2>1. work[t] \in Jobs /\ UNCHANGED effect
    BY <1>6 DEF Admit, TypeOK
  <2>2. \A i \in Jobs : jobs'[i] = jobs[i] \/ (jobs[i] = "absent" /\ jobs'[i] = "preflight")
    BY <1>6, <2>1 DEF Admit, TypeOK
  <2> QED
    BY <2>1, <2>2 DEF Reported
<1>7. ASSUME NEW t \in Threads,
             Create(t) \/ Transition(t) \/ Append(t) \/ BeginIssue(t)
             \/ (\E k \in OpKeys, v \in Versions : BeginOp(t, k, v))
             \/ (\E j \in Jobs : BeginAdmit(t, j) \/ Resume(t, j))
      PROVE  UNCHANGED effect /\ Reported' = Reported
  BY <1>7 DEF Create, Transition, Append, BeginIssue, BeginOp, BeginAdmit, Resume, durable, Reported
<1>8. CASE HouseholdMoves \/ Expire \/ Crash \/ UNCHANGED vars
  BY <1>8 DEF HouseholdMoves, Expire, Crash, vars, durable, Reported
<1> QED
  BY <1>1, <1>3, <1>4, <1>5, <1>6, <1>7, <1>8 DEF Next, Steps

\* The services and their audit implement a one-time invitation: settled once,
\* its effect written once and after that, reported once and by its own job.
THEOREM InvitationTheorem == Spec => ImplementsInvitation
<1> USE DEF invitation!Start, invitation!SettleOnce, invitation!TakeForce, invitation!Report,
            invitation!invitationVars
<1>1. Init => invitation!Start
  BY DEF Init
<1>2. IInv /\ [Next]_vars =>
        [invitation!SettleOnce \/ invitation!TakeForce \/ invitation!Report]_(invitation!invitationVars)
  <2> SUFFICES ASSUME IInv, [Next]_vars
               PROVE [invitation!SettleOnce \/ invitation!TakeForce \/ invitation!Report]_(invitation!invitationVars)
    OBVIOUS
  <2>1. CASE OutcomeOf = "open" /\ OutcomeOf' \in Settled /\ UNCHANGED <<effect, jobs>>
    BY <2>1 DEF OutcomeOf, Settled
  <2>2. CASE OutcomeOf' = OutcomeOf /\ UNCHANGED effect /\ Reported' = Reported
    BY <2>2 DEF OutcomeOf, Reported
  <2>3. CASE effect = None /\ effect' \in Jobs /\ UNCHANGED <<record, jobs>>
    <3>1. OutcomeOf # "open"
      <4>1. PICK t \in Threads : Execute(t)
        BY <2>3, KeysAssumption
           DEF Next, Steps, Create, Transition, Append, Admit, Fail, Accept, Verify, BeginIssue,
               BeginOp, BeginAdmit, Run, Resume, HouseholdMoves, Expire, Crash, vars, durable
      <4>2. work[t] \in Jobs /\ jobs[work[t]] = "running"
        BY <4>1 DEF Execute, IInv, TypeOK, WorkerSteps, WorkerInPlace
      <4> QED
        BY <4>2 DEF IInv, EffectInPlace, OutcomeOf, Settled
    <3> QED
      BY <2>3, <3>1 DEF OutcomeOf
  <2>4. CASE effect \in Jobs /\ Reported = {} /\ Reported' = {effect} /\ UNCHANGED <<record, effect>>
    BY <2>4, KeysAssumption DEF Reported
  <2> QED
    BY <2>1, <2>2, <2>3, <2>4, OutcomeStep, ReportStep
<1> QED
  BY <1>1, <1>2, Invariant, PTL DEF Spec, ImplementsInvitation, invitation!Promise
=============================================================================
