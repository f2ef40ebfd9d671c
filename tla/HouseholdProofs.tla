--------------------------- MODULE HouseholdProofs --------------------------
(***************************************************************************)
(* What holds of the Household services for every set of members, devices, *)
(* enrollments, threads and crashes: of one service alone, of the services *)
(* together, and of the policy of a member.                                *)
(***************************************************************************)
EXTENDS Household, PolicyVerification, TLAPS

\* Appending a change adds it, and nothing else, to the changes in force.
LEMMA RangeAppend ==
  ASSUME NEW S, NEW s \in Seq(S), NEW c \in S
  PROVE  /\ Range(Append(s, c)) = Range(s) \cup {c}
         /\ Append(s, c) \in Seq(S)
<1>1. /\ Append(s, c) \in Seq(S)
      /\ DOMAIN Append(s, c) = 1 .. Len(s) + 1
      /\ DOMAIN s = 1 .. Len(s)
      /\ Len(s) \in Nat
      /\ \A i \in 1 .. Len(s) : Append(s, c)[i] = s[i]
      /\ Append(s, c)[Len(s) + 1] = c
  OBVIOUS
<1>2. 1 .. Len(s) + 1 = (1 .. Len(s)) \cup {Len(s) + 1}
  BY <1>1
<1> QED
  BY <1>1, <1>2 DEF Range

LEMMA RangeEmpty == Range(<<>>) = {}
BY DEF Range

\* A status change keeps the other fields of every envelope.
LEMMA StatusUpdate ==
  ASSUME env \in [Changes -> Envelope], NEW c \in Changes, NEW s \in Statuses, SetStatus(c, s)
  PROVE  /\ env' \in [Changes -> Envelope]
         /\ \A d \in Changes : env'[d].base = env[d].base
         /\ \A d \in Changes : env'[d].status = IF d = c THEN s ELSE env[d].status
<1>1. env[c] \in Envelope
  OBVIOUS
<1>2. [env[c] EXCEPT !.status = s] \in Envelope
  BY <1>1 DEF Envelope
<1>3. [env[c] EXCEPT !.status = s].base = env[c].base /\ [env[c] EXCEPT !.status = s].status = s
  BY <1>1 DEF Envelope
<1>4. env' = [env EXCEPT ![c] = [env[c] EXCEPT !.status = s]]
  BY DEF SetStatus
<1> QED
  BY <1>2, <1>3, <1>4

-----------------------------------------------------------------------------
(* Type correctness.                                                       *)

\* Every variable keeps its type, whatever the constants are.
THEOREM TypeCorrect == Spec => []TypeOK
<1> USE ChangesAssumption
<1>1. Init => TypeOK
  BY CrashAssumption DEF Init, TypeOK, Busy, Envelope, Statuses, Steps, Replies
<1>2. TypeOK /\ [Next]_vars => TypeOK'
  <2> SUFFICES ASSUME TypeOK, [Next]_vars PROVE TypeOK'
    OBVIOUS
  <2> USE DEF TypeOK, Busy, Statuses, Steps, Replies, Outcomes, local, stored, Goto, Leave, Record
  <2>e. ASSUME NEW c \in Changes PROVE Expected(c) \in Seq(Changes)
    BY RangeAppend DEF Expected, Envelope
  <2>1. CASE Bootstrap
    BY <2>1 DEF Bootstrap
  <2>2. ASSUME NEW c \in Changes, Plan(c) PROVE TypeOK'
    <3>1. state \in Seq(Changes) /\ env' = [env EXCEPT ![c] = [status |-> "pending", base |-> state]]
      BY <2>2 DEF Plan, PlanProposal, PlanManaged
    <3>2. env' \in [Changes -> Envelope]
      BY <3>1 DEF Envelope
    <3> QED
      BY <2>2, <3>2 DEF Plan
  <2>11. ASSUME NEW c \in Changes, Reverify(c) PROVE TypeOK'
    <3>1. SetStatus(c, "unverified")
      BY <2>11 DEF Reverify
    <3>2. env' \in [Changes -> Envelope]
      BY <3>1, StatusUpdate
    <3> QED
      BY <2>11, <3>2 DEF Reverify
  <2>3. ASSUME NEW c \in Changes, RefuseStale(c) PROVE TypeOK'
    BY <2>3 DEF RefuseStale
  <2>4. ASSUME NEW c \in Changes, Replay(c) PROVE TypeOK'
    BY <2>4 DEF Replay
  <2>5. ASSUME NEW c \in Changes, RecoverOne(c) PROVE TypeOK'
    <3>1. CASE SetStatus(c, "applied") /\ state' = Expected(c) /\ Record(c, "succeeded")
      <4>1. env' \in [Changes -> Envelope]
        BY <3>1, StatusUpdate
      <4>2. audit' \in [Changes -> SUBSET Outcomes]
        BY <3>1
      <4> QED
        BY <2>5, <2>e, <3>1, <4>1, <4>2 DEF RecoverOne
    <3>2. CASE UNCHANGED stored
      BY <2>5, <3>2 DEF RecoverOne
    <3> QED
      BY <2>5, <3>1, <3>2 DEF RecoverOne
  <2>6. ASSUME NEW t \in Threads, NEW c \in Changes, BeginConfirm(t, c) PROVE TypeOK'
    BY <2>6 DEF BeginConfirm
  <2>7. ASSUME NEW t \in Threads, NEW c \in Changes, BeginApply(t, c) PROVE TypeOK'
    <3>1. SetStatus(c, "verified")
      BY <2>7 DEF BeginApply
    <3>2. env' \in [Changes -> Envelope]
      BY <3>1, StatusUpdate
    <3> QED
      BY <2>7, <3>2 DEF BeginApply
  <2>8. CASE Crash
    BY <2>8 DEF Crash
  <2>9. ASSUME NEW t \in Threads, ThreadStep(t) PROVE TypeOK'
    <3> USE <2>9
    <3>b. ThreadStep(t) => Busy(t)
      BY DEF ThreadStep, RequestAudit, MarkApplying, WriteState, CompletionAudit, MarkApplied,
             ReadCurrent, ReadBack, Rollback, FinishManaged, ReportManaged
    <3>w. work[t] \in Changes
      BY <3>b
    <3> USE <3>w
    <3>1. CASE RequestAudit(t)
      BY <3>1 DEF RequestAudit
    <3>2. CASE MarkApplying(t)
      <4>1. SetStatus(work[t], "applying")
        BY <3>2 DEF MarkApplying
      <4>2. env' \in [Changes -> Envelope]
        BY <4>1, StatusUpdate
      <4> QED
        BY <3>2, <4>2 DEF MarkApplying
    <3>3. CASE WriteState(t)
      BY <3>3, <2>e DEF WriteState
    <3>4. CASE CompletionAudit(t)
      BY <3>4 DEF CompletionAudit
    <3>5. CASE MarkApplied(t)
      <4>1. SetStatus(work[t], "applied")
        BY <3>5 DEF MarkApplied
      <4>2. env' \in [Changes -> Envelope]
        BY <4>1, StatusUpdate
      <4> QED
        BY <3>5, <4>2 DEF MarkApplied
    <3>6. CASE ReadCurrent(t)
      <4>1. UNCHANGED <<state, env, audit, todo, crashes>>
        BY <3>6 DEF ReadCurrent
      <4>2. CASE \E step \in {"write", "readback"} : Goto(t, step) /\ UNCHANGED <<reply, work, onBase>>
        BY <4>1, <4>2
      <4>3. CASE reply' = [reply EXCEPT ![work[t]] = "stale"] /\ Leave(t)
        BY <4>1, <4>3
      <4> HIDE DEF Leave, Goto
      <4> QED
        BY <3>6, <4>2, <4>3 DEF ReadCurrent
    <3>7. CASE ReadBack(t)
      BY <3>7 DEF ReadBack
    <3>8. CASE Rollback(t)
      <4>1. env[work[t]].base \in Seq(Changes)
        BY DEF Envelope
      <4>2. reply' \in [Changes -> Replies]
        BY <3>8 DEF Rollback
      <4>3. UNCHANGED <<env, audit, todo, crashes>> /\ state' \in Seq(Changes)
        BY <3>8, <4>1 DEF Rollback
      <4> QED
        BY <3>8, <4>2, <4>3 DEF Rollback
    <3>9. CASE FinishManaged(t)
      <4>1. SetStatus(work[t], "applied")
        BY <3>9 DEF FinishManaged
      <4>2. env' \in [Changes -> Envelope]
        BY <4>1, StatusUpdate
      <4> QED
        BY <3>9, <4>2 DEF FinishManaged
    <3>10. CASE ReportManaged(t)
      BY <3>10 DEF ReportManaged
    <3> QED
      BY <3>1, <3>2, <3>3, <3>4, <3>5, <3>6, <3>7, <3>8, <3>9, <3>10 DEF ThreadStep
  <2>10. CASE UNCHANGED vars
    BY <2>10 DEF vars
  <2> QED
    BY <2>1, <2>2, <2>3, <2>4, <2>5, <2>6, <2>7, <2>8, <2>9, <2>10, <2>11 DEF Next
<1> QED
  BY <1>1, <1>2, PTL DEF Spec

-----------------------------------------------------------------------------
(* One service alone: its lock covers everything that reads or writes the  *)
(* state, so the optimistic check is never out of date when it is used.    *)

\* All the changes go through the same service.
OneService == \A a, b \in Changes : Service(a) = Service(b)

\* A free lock then means that no request is under way.
LEMMA LockFreeMeansQuiet ==
  ASSUME OneService, TypeOK, NEW c \in Changes, LockFree(c)
  PROVE  \A t \in Threads : ~Busy(t)
BY DEF OneService, TypeOK, LockFree

LEMMA SnapshotIsSequence ==
  ASSUME TypeOK
  PROVE  /\ Snapshot \in Seq(Changes)
         /\ state \in Seq(Changes) => Snapshot = state
BY ChangesAssumption DEF TypeOK, Snapshot

LEMMA ExpectedAppends ==
  ASSUME TypeOK, NEW c \in Changes
  PROVE  /\ Expected(c) \in Seq(Changes)
         /\ Range(Expected(c)) = Range(env[c].base) \cup {c}
BY RangeAppend DEF Expected, TypeOK, Envelope

\* A step that leaves the state and the envelopes alone needs to mind only
\* where the threads stand.
LEMMA StateAndEnvUntouched ==
  ASSUME SingleServiceInv, UNCHANGED <<state, env>>, \A c \in todo' : env[c].status # "none"
  PROVE  EntersOnce' /\ AcknowledgedChangesSurvive'
BY DEF SingleServiceInv, EntersOnce, AcknowledgedChangesSurvive, Snapshot

\* A status that moves on from a planned change leaves the rest as it was.
LEMMA StatusMoves ==
  ASSUME TypeOK, SingleServiceInv, NEW c \in Changes, NEW s \in Statuses \ {"none"},
         env[c].status # "none", SetStatus(c, s), s = "applied" => c \in Range(Snapshot),
         UNCHANGED state, \A d \in todo' : d \in todo
  PROVE  EntersOnce' /\ AcknowledgedChangesSurvive'
<1>1. /\ \A d \in Changes : env'[d].base = env[d].base
      /\ \A d \in Changes : env'[d].status = IF d = c THEN s ELSE env[d].status
  BY StatusUpdate DEF TypeOK
<1>2. Snapshot' = Snapshot
  BY DEF Snapshot
<1>3. \A d \in todo' : d \in Changes
  BY DEF TypeOK, Changes, Managed
<1>4. EntersOnce'
  BY <1>1, <1>2, <1>3 DEF SingleServiceInv, EntersOnce
<1>5. AcknowledgedChangesSurvive'
  BY <1>1, <1>2 DEF SingleServiceInv, AcknowledgedChangesSurvive
<1> QED
  BY <1>4, <1>5

\* The one request under way: everybody else is idle and recovery is over.
LEMMA AloneAtWork ==
  ASSUME TypeOK, SingleServiceInv, NEW t \in Threads, Busy(t)
  PROVE  /\ todo = {}
         /\ \A u \in Threads : u # t => pc[u] = "idle"
         /\ work[t] \in Changes
         /\ env[work[t]].status # "none"
         /\ env[work[t]].status = "applied" => pc[t] = "report"
         /\ work[t] \notin Range(env[work[t]].base)
BY DEF TypeOK, SingleServiceInv, OneAtATime, InPosition, EntersOnce, Busy

\* A request that moves to a position the state still agrees with.
LEMMA RequestMoves ==
  ASSUME TypeOK, SingleServiceInv, NEW t \in Threads, NEW step \in Steps, NEW c \in Changes,
         \A u \in Threads : u # t => pc[u] = "idle",
         todo = {}, UNCHANGED todo,
         Goto(t, step), work' = [work EXCEPT ![t] = c],
         env'[c].status # "none", env'[c].status = "applied" => step = "report",
         step \in {"request", "mark"} =>
           state' = (IF onBase'[t] THEN env'[c].base ELSE Append(env'[c].base, c)) /\ c \in Proposals,
         step = "write" => state' = env'[c].base,
         step \in {"complete", "acknowledge", "readback", "finish"} => state' = Append(env'[c].base, c),
         step # "rollback"
  PROVE  OneAtATime' /\ InPosition'
<1>1. /\ pc'[t] = step /\ work'[t] = c
      /\ \A u \in Threads : u # t => pc'[u] = "idle"
  BY DEF TypeOK, Goto
<1>2. OneAtATime'
  BY <1>1 DEF OneAtATime, Busy
<1>3. InPosition'
  BY <1>1 DEF InPosition, Busy, Expected
<1> QED
  BY <1>2, <1>3

\* A request that answers, or nobody at work: no positions to hold.
LEMMA NobodyMoves ==
  ASSUME \A u \in Threads : pc'[u] = "idle"
  PROVE  OneAtATime' /\ InPosition'
BY DEF OneAtATime, InPosition, Busy

LEMMA RequestLeaves ==
  ASSUME TypeOK, SingleServiceInv, NEW t \in Threads, Busy(t), Leave(t)
  PROVE  \A u \in Threads : pc'[u] = "idle"
BY AloneAtWork DEF Leave, TypeOK

-----------------------------------------------------------------------------
(* The steps of the services map to steps of the log.                      *)

\* Writing the planned snapshot is the log's commit.
LEMMA WriteIsCommit ==
  ASSUME TypeOK, SingleServiceInv, NEW c \in Changes, state = env[c].base, state' = Expected(c)
  PROVE  /\ Snapshot' = Append(Snapshot, c)
         /\ c \notin Range(Snapshot)
         /\ Range(Snapshot') = Range(Snapshot) \cup {c}
<1>1. env[c].base \in Seq(Changes)
  BY DEF TypeOK, Envelope
<1>2. Snapshot = state /\ Snapshot' = state'
  BY <1>1, ExpectedAppends, ChangesAssumption DEF Snapshot
<1> QED
  BY <1>2, ExpectedAppends DEF SingleServiceInv, EntersOnce, Expected

\* A step that changes neither the state nor a status is a stutter of the log.
LEMMA StatusesKept ==
  ASSUME Snapshot' = Snapshot,
         \A c \in Changes : env'[c].status = "applied" <=> env[c].status = "applied"
  PROVE  UNCHANGED Log!logVars
BY DEF Log!logVars

\* Reaching status applied with the change in the state is the log's acknowledgement.
LEMMA AppliedIsAcknowledge ==
  ASSUME TypeOK, NEW c \in Changes, SetStatus(c, "applied"), UNCHANGED state, c \in Range(Snapshot)
  PROVE  Log!LogNext
<1>1. \A d \in Changes : env'[d].status = IF d = c THEN "applied" ELSE env[d].status
  BY StatusUpdate DEF TypeOK, Statuses
<1>2. Snapshot' = Snapshot
  BY DEF Snapshot
<1>3. {d \in Changes : env'[d].status = "applied"} = {d \in Changes : env[d].status = "applied"} \cup {c}
  BY <1>1
<1>4. Log!Acknowledge(c)
  BY <1>2, <1>3 DEF Log!Acknowledge, Log!Range, Range
<1> QED
  BY <1>4 DEF Log!LogNext

Implements == SingleServiceInv' /\ [Log!LogNext]_(Log!logVars)

\* A step that touches neither the state nor the envelopes.
LEMMA ReadingStep ==
  ASSUME TypeOK, SingleServiceInv, UNCHANGED <<state, env>>,
         \A c \in todo' : env[c].status # "none",
         OneAtATime', InPosition'
  PROVE  Implements
<1>1. EntersOnce' /\ AcknowledgedChangesSurvive'
  BY StateAndEnvUntouched
<1>2. UNCHANGED Log!logVars
  BY StatusesKept DEF Snapshot
<1> QED
  BY <1>1, <1>2 DEF Implements, SingleServiceInv

LEMMA BootstrapStep ==
  ASSUME TypeOK, SingleServiceInv, Bootstrap
  PROVE  Implements
<1>1. Snapshot' = Snapshot /\ UNCHANGED <<env, pc, work, onBase, todo>>
  BY ChangesAssumption DEF Bootstrap, Snapshot, local
<1>2. \A t \in Threads : pc[t] = "idle"
  BY DEF Bootstrap, TypeOK, SingleServiceInv, EntersOnce, InPosition, Busy
<1>3. OneAtATime' /\ InPosition'
  BY <1>1, <1>2, NobodyMoves
<1>4. EntersOnce' /\ AcknowledgedChangesSurvive'
  BY <1>1 DEF SingleServiceInv, EntersOnce, AcknowledgedChangesSurvive, Bootstrap
<1>5. UNCHANGED Log!logVars
  BY <1>1, StatusesKept
<1> QED
  BY <1>3, <1>4, <1>5 DEF Implements, SingleServiceInv

LEMMA PlanStep ==
  ASSUME OneService, TypeOK, SingleServiceInv, NEW c \in Changes, Plan(c)
  PROVE  Implements
<1>1. /\ env[c].status = "none" /\ state # Unconfigured
      /\ env' = [env EXCEPT ![c] = [status |-> "pending", base |-> state]]
      /\ UNCHANGED <<state, pc, work, onBase, todo>>
  BY DEF Plan, PlanProposal, PlanManaged, local
<1>2. /\ \A d \in Changes : env'[d].status = IF d = c THEN "pending" ELSE env[d].status
      /\ \A d \in Changes : env'[d].base = IF d = c THEN state ELSE env[d].base
  BY <1>1 DEF TypeOK
<1>3. Snapshot' = Snapshot /\ Snapshot = state
  BY <1>1 DEF Snapshot
<1>4. OneAtATime' /\ InPosition'
  BY <1>1, LockFreeMeansQuiet, NobodyMoves DEF Plan, Busy
<1>5. \A d \in todo' : d \in Changes /\ d \in todo
  BY <1>1 DEF TypeOK, Changes, Managed
<1>6. EntersOnce' /\ AcknowledgedChangesSurvive'
  BY <1>1, <1>2, <1>3, <1>5 DEF SingleServiceInv, EntersOnce, AcknowledgedChangesSurvive
<1>7. UNCHANGED Log!logVars
  BY <1>1, <1>2, <1>3, StatusesKept
<1> QED
  BY <1>4, <1>6, <1>7 DEF Implements, SingleServiceInv

LEMMA BeginConfirmStep ==
  ASSUME OneService, TypeOK, SingleServiceInv, NEW t \in Threads, NEW c \in Changes, BeginConfirm(t, c)
  PROVE  Implements
<1>1. \A u \in Threads : pc[u] = "idle"
  BY LockFreeMeansQuiet DEF BeginConfirm, Busy
<1>2. UNCHANGED <<state, env, todo>> /\ todo = {} /\ c \in Proposals
  BY DEF BeginConfirm, stored, Serving
<1>3. /\ env[c].status \in {"pending", "applying"} /\ state \in {env[c].base, Append(env[c].base, c)}
      /\ work' = [work EXCEPT ![t] = c]
      /\ onBase'[t] = (state = env[c].base)
  BY DEF BeginConfirm, Accepts, Expected, TypeOK
<1>4. PICK step \in {"request", "write", "complete"} :
        /\ Goto(t, step)
        /\ step = "write" => state = env[c].base
        /\ step = "complete" => state = Append(env[c].base, c)
  BY <1>3 DEF BeginConfirm
<1>5. OneAtATime' /\ InPosition'
  BY <1>1, <1>2, <1>3, <1>4, RequestMoves DEF Steps
<1> QED
  BY <1>2, <1>5, ReadingStep

LEMMA BeginApplyStep ==
  ASSUME OneService, TypeOK, SingleServiceInv, NEW t \in Threads, NEW c \in Changes, BeginApply(t, c)
  PROVE  Implements
<1>1. \A u \in Threads : pc[u] = "idle"
  BY LockFreeMeansQuiet DEF BeginApply, Busy
<1>2. /\ UNCHANGED <<state, todo>> /\ todo = {} /\ env[c].status \in {"pending", "verified", "unverified"}
      /\ SetStatus(c, "verified") /\ Goto(t, "apply") /\ work' = [work EXCEPT ![t] = c]
  BY DEF BeginApply, Serving
<1>3. \A d \in Changes : env'[d].status = IF d = c THEN "verified" ELSE env[d].status
  BY <1>2, StatusUpdate DEF TypeOK, Statuses
<1>4. OneAtATime' /\ InPosition'
  BY <1>1, <1>2, <1>3, RequestMoves DEF Steps
<1>5. EntersOnce' /\ AcknowledgedChangesSurvive'
  BY <1>2, StatusMoves DEF Statuses
<1>6. UNCHANGED Log!logVars
  BY <1>2, <1>3, StatusesKept DEF Snapshot
<1> QED
  BY <1>4, <1>5, <1>6 DEF Implements, SingleServiceInv

LEMMA ReverifyStep ==
  ASSUME OneService, TypeOK, SingleServiceInv, NEW c \in Changes, Reverify(c)
  PROVE  Implements
<1>1. /\ UNCHANGED <<state, pc, work, onBase, todo>> /\ SetStatus(c, "unverified")
      /\ env[c].status \in {"verified", "unverified"}
  BY DEF Reverify, local
<1>2. \A d \in Changes : env'[d].status = IF d = c THEN "unverified" ELSE env[d].status
  BY <1>1, StatusUpdate DEF TypeOK, Statuses
<1>3. OneAtATime' /\ InPosition'
  BY <1>1, LockFreeMeansQuiet, NobodyMoves DEF Reverify, Busy
<1>4. EntersOnce' /\ AcknowledgedChangesSurvive'
  BY <1>1, StatusMoves DEF Statuses
<1>5. UNCHANGED Log!logVars
  BY <1>1, <1>2, StatusesKept DEF Snapshot
<1> QED
  BY <1>3, <1>4, <1>5 DEF Implements, SingleServiceInv

LEMMA RecoverStep ==
  ASSUME TypeOK, SingleServiceInv, NEW c \in Changes, RecoverOne(c)
  PROVE  Implements
<1>1. /\ \A u \in Threads : pc[u] = "idle"
      /\ \A d \in todo' : d \in todo /\ d \in Changes
      /\ UNCHANGED <<pc, work, onBase>> /\ env[c].status # "none"
  BY DEF RecoverOne, SingleServiceInv, OneAtATime, EntersOnce, Busy, local, TypeOK, Changes, Managed
<1>2. OneAtATime' /\ InPosition'
  BY <1>1, NobodyMoves
<1>3. CASE UNCHANGED stored
  BY <1>1, <1>2, <1>3, ReadingStep DEF stored, SingleServiceInv, EntersOnce
<1>4. CASE state \in {env[c].base, Expected(c)} /\ state' = Expected(c) /\ SetStatus(c, "applied")
  <2>1. /\ \A d \in Changes : env'[d].base = env[d].base
        /\ \A d \in Changes : env'[d].status = IF d = c THEN "applied" ELSE env[d].status
    BY <1>4, StatusUpdate DEF TypeOK, Statuses
  <2>2. Range(Snapshot') = Range(Snapshot) \cup {c} /\ state' # Unconfigured
    BY <1>4, WriteIsCommit, ExpectedAppends, ChangesAssumption DEF Snapshot
  <2>3. EntersOnce' /\ AcknowledgedChangesSurvive'
    BY <1>1, <2>1, <2>2 DEF SingleServiceInv, EntersOnce, AcknowledgedChangesSurvive
  <2>4. {d \in Changes : env'[d].status = "applied"} = {d \in Changes : env[d].status = "applied"} \cup {c}
    BY <2>1
  <2>5. CASE state = env[c].base
    <3>1. Log!CommitAndAcknowledge(c)
      BY <1>4, <2>4, <2>5, WriteIsCommit DEF Log!CommitAndAcknowledge, Log!Range, Range
    <3> QED
      BY <1>2, <2>3, <3>1 DEF Implements, SingleServiceInv, Log!LogNext
  <2>6. CASE state = Expected(c)
    <3>1. Snapshot' = Snapshot /\ c \in Range(Snapshot)
      BY <1>4, <2>6, ExpectedAppends, ChangesAssumption DEF Snapshot
    <3>2. Log!LogNext
      BY <1>4, <2>6, <3>1, AppliedIsAcknowledge
    <3> QED
      BY <1>2, <2>3, <3>2 DEF Implements, SingleServiceInv
  <2> QED
    BY <1>4, <2>5, <2>6
<1> QED
  BY <1>3, <1>4 DEF RecoverOne

\* A step of the one request under way.
LEMMA RequestStep ==
  ASSUME TypeOK, SingleServiceInv, NEW t \in Threads, ThreadStep(t)
  PROVE  Implements
<1> DEFINE c == work[t]
<1>1. Busy(t)
  BY DEF ThreadStep, RequestAudit, MarkApplying, WriteState, CompletionAudit, MarkApplied,
         ReadCurrent, ReadBack, Rollback, FinishManaged, ReportManaged, Busy
<1>2. /\ todo = {} /\ \A u \in Threads : u # t => pc[u] = "idle"
      /\ c \in Changes /\ env[c].status # "none" /\ c \notin Range(env[c].base)
      /\ env[c].status = "applied" => pc[t] = "report"
  BY <1>1, AloneAtWork
<1>3. /\ pc[t] \in {"request", "mark"} =>
           state = (IF onBase[t] THEN env[c].base ELSE Append(env[c].base, c)) /\ c \in Proposals
      /\ pc[t] = "write" => state = env[c].base
      /\ pc[t] \in {"complete", "acknowledge", "readback", "finish"} => state = Append(env[c].base, c)
      /\ pc[t] # "rollback"
  BY DEF SingleServiceInv, InPosition, Expected
<1>4. work = [work EXCEPT ![t] = c]
  BY DEF TypeOK
<1>5. Append(env[c].base, c) = Expected(c)
  BY DEF Expected
<1>6. pc[t] \in {"complete", "acknowledge", "readback", "finish"} => c \in Range(Snapshot)
  BY <1>2, <1>3, <1>5, ExpectedAppends, SnapshotIsSequence
<1> HIDE DEF c
<1>7. CASE RequestAudit(t)
  <2>1. UNCHANGED <<state, env, work, onBase, todo>> /\ Goto(t, "mark") /\ pc[t] = "request"
    BY <1>7 DEF RequestAudit
  <2>2. OneAtATime' /\ InPosition'
    BY <1>2, <1>3, <1>4, <2>1, RequestMoves DEF Steps
  <2> QED
    BY <1>2, <2>1, <2>2, ReadingStep
<1>8. CASE MarkApplying(t)
  <2>1. /\ UNCHANGED <<state, work, onBase, todo>> /\ pc[t] = "mark" /\ SetStatus(c, "applying")
        /\ Goto(t, IF onBase[t] THEN "write" ELSE "complete")
    BY <1>8 DEF MarkApplying, c
  <2>2. /\ \A d \in Changes : env'[d].base = env[d].base
        /\ \A d \in Changes : env'[d].status = IF d = c THEN "applying" ELSE env[d].status
    BY <1>2, <2>1, StatusUpdate DEF TypeOK, Statuses
  <2>3. PICK step \in {"write", "complete"} :
          /\ Goto(t, step)
          /\ step = "write" => state = env[c].base
          /\ step = "complete" => state = Append(env[c].base, c)
    BY <1>3, <2>1
  <2>4. OneAtATime' /\ InPosition'
    BY <1>2, <1>4, <2>1, <2>2, <2>3, RequestMoves DEF Steps
  <2>5. EntersOnce' /\ AcknowledgedChangesSurvive'
    BY <1>2, <2>1, StatusMoves DEF Statuses
  <2>6. UNCHANGED Log!logVars
    <3>1. env[c].status # "applied"
      BY <1>2, <2>1
    <3> QED
      BY <2>1, <2>2, <3>1, StatusesKept DEF Snapshot
  <2> QED
    BY <2>4, <2>5, <2>6 DEF Implements, SingleServiceInv
<1>9. CASE WriteState(t)
  <2>1. /\ UNCHANGED <<env, work, onBase, todo>> /\ pc[t] = "write" /\ state' = Expected(c)
        /\ Goto(t, IF c \in Proposals THEN "complete" ELSE "readback")
    BY <1>9 DEF WriteState, c
  <2>2. PICK step \in {"complete", "readback"} : Goto(t, step)
    BY <2>1
  <2>3. state = env[c].base /\ state' = Append(env'[c].base, c)
    BY <1>3, <2>1 DEF Expected
  <2>4. OneAtATime' /\ InPosition'
    BY <1>2, <1>4, <2>1, <2>2, <2>3, RequestMoves DEF Steps
  <2>5. /\ Snapshot' = Append(Snapshot, c) /\ c \notin Range(Snapshot)
        /\ Range(Snapshot') = Range(Snapshot) \cup {c}
    BY <1>2, <2>1, <2>3, WriteIsCommit
  <2>6. state' # Unconfigured
    BY <1>2, <2>1, ExpectedAppends, ChangesAssumption
  <2>7. EntersOnce' /\ AcknowledgedChangesSurvive'
    BY <1>2, <2>1, <2>5, <2>6 DEF SingleServiceInv, EntersOnce, AcknowledgedChangesSurvive
  <2>8. Log!Commit(c)
    BY <2>1, <2>5 DEF Log!Commit, Log!Range, Range
  <2> QED
    BY <1>2, <2>4, <2>7, <2>8 DEF Implements, SingleServiceInv, Log!LogNext
<1>10. CASE CompletionAudit(t)
  <2>1. /\ UNCHANGED <<state, env, work, onBase, todo>> /\ Goto(t, "acknowledge")
        /\ pc[t] = "complete"
    BY <1>10 DEF CompletionAudit
  <2>2. OneAtATime' /\ InPosition'
    BY <1>2, <1>3, <1>4, <2>1, RequestMoves DEF Steps
  <2> QED
    BY <1>2, <2>1, <2>2, ReadingStep
<1>11. CASE MarkApplied(t)
  <2>1. UNCHANGED <<state, todo>> /\ SetStatus(c, "applied") /\ Leave(t) /\ c \in Range(Snapshot)
    BY <1>6, <1>11 DEF MarkApplied, c
  <2>2. OneAtATime' /\ InPosition'
    BY <1>1, <2>1, RequestLeaves, NobodyMoves
  <2>3. EntersOnce' /\ AcknowledgedChangesSurvive'
    BY <1>2, <2>1, StatusMoves DEF Statuses
  <2>4. Log!LogNext
    BY <1>2, <2>1, AppliedIsAcknowledge
  <2> QED
    BY <2>2, <2>3, <2>4 DEF Implements, SingleServiceInv
<1>12. CASE ReadCurrent(t)
  <2>1. UNCHANGED <<state, env, todo>>
    BY <1>12 DEF ReadCurrent, stored
  <2>2. CASE Leave(t)
    <3>1. OneAtATime' /\ InPosition'
      BY <1>1, <2>2, RequestLeaves, NobodyMoves
    <3> QED
      BY <1>2, <2>1, <3>1, ReadingStep
  <2>3. CASE ~Leave(t)
    <3>1. UNCHANGED <<work, onBase>> /\ pc[t] = "apply"
      BY <1>12, <2>3 DEF ReadCurrent
    <3>2. PICK step \in {"write", "readback"} :
            /\ Goto(t, step)
            /\ step = "write" => state = env[c].base
            /\ step = "readback" => state = Append(env[c].base, c)
      BY <1>5, <1>12, <2>3 DEF ReadCurrent, c
    <3>3. OneAtATime' /\ InPosition'
      BY <1>2, <1>4, <2>1, <3>1, <3>2, RequestMoves DEF Steps
    <3> QED
      BY <1>2, <2>1, <3>3, ReadingStep
  <2> QED
    BY <2>2, <2>3
<1>13. CASE ReadBack(t)
  <2>1. UNCHANGED <<state, env, work, onBase, todo>> /\ pc[t] = "readback"
    BY <1>13 DEF ReadBack, stored
  <2>2. Goto(t, "finish")
    BY <1>3, <1>5, <1>13, <2>1 DEF ReadBack, c
  <2>3. OneAtATime' /\ InPosition'
    BY <1>2, <1>3, <1>4, <2>1, <2>2, RequestMoves DEF Steps
  <2> QED
    BY <1>2, <2>1, <2>3, ReadingStep
<1>14. CASE Rollback(t)
  BY <1>3, <1>14 DEF Rollback
<1>15. CASE FinishManaged(t)
  <2>1. /\ UNCHANGED <<state, work, onBase, todo>> /\ SetStatus(c, "applied") /\ Goto(t, "report")
        /\ c \in Range(Snapshot)
    BY <1>6, <1>15 DEF FinishManaged, c
  <2>2. env'[c].status = "applied"
    BY <1>2, <2>1, StatusUpdate DEF TypeOK, Statuses
  <2>3. OneAtATime' /\ InPosition'
    BY <1>2, <1>4, <2>1, <2>2, RequestMoves DEF Steps
  <2>4. EntersOnce' /\ AcknowledgedChangesSurvive'
    BY <1>2, <2>1, StatusMoves DEF Statuses
  <2>5. Log!LogNext
    BY <1>2, <2>1, AppliedIsAcknowledge
  <2> QED
    BY <2>3, <2>4, <2>5 DEF Implements, SingleServiceInv
<1>16. CASE ReportManaged(t)
  <2>1. UNCHANGED <<state, env, todo>> /\ Leave(t)
    BY <1>16 DEF ReportManaged
  <2>2. OneAtATime' /\ InPosition'
    BY <1>1, <2>1, RequestLeaves, NobodyMoves
  <2> QED
    BY <1>2, <2>1, <2>2, ReadingStep
<1> QED
  BY <1>7, <1>8, <1>9, <1>10, <1>11, <1>12, <1>13, <1>14, <1>15, <1>16 DEF ThreadStep

\* Every step keeps the invariant and is a step of the log, or a stutter.
LEMMA SingleServiceStep ==
  ASSUME OneService, TypeOK, SingleServiceInv, [Next]_vars
  PROVE  Implements
<1>1. CASE Bootstrap
  BY <1>1, BootstrapStep
<1>2. ASSUME NEW c \in Changes, Plan(c) PROVE Implements
  BY <1>2, PlanStep
<1>3. ASSUME NEW c \in Changes, RefuseStale(c) \/ Replay(c) PROVE Implements
  <2>1. UNCHANGED <<state, env, pc, work, onBase, todo>>
    BY <1>3 DEF RefuseStale, Replay, stored, local
  <2>2. OneAtATime' /\ InPosition' /\ \A d \in todo' : env[d].status # "none"
    BY <2>1 DEF SingleServiceInv, OneAtATime, InPosition, EntersOnce, Busy, Expected
  <2> QED
    BY <2>1, <2>2, ReadingStep
<1>4. ASSUME NEW c \in Changes, RecoverOne(c) \/ Reverify(c) PROVE Implements
  BY <1>4, RecoverStep, ReverifyStep
<1>5. ASSUME NEW t \in Threads, NEW c \in Changes, BeginConfirm(t, c) \/ BeginApply(t, c) PROVE Implements
  BY <1>5, BeginConfirmStep, BeginApplyStep
<1>6. ASSUME NEW t \in Threads, ThreadStep(t) PROVE Implements
  BY <1>6, RequestStep
<1>7. CASE Crash
  <2>1. /\ UNCHANGED <<state, env>> /\ \A t \in Threads : pc'[t] = "idle"
        /\ \A d \in todo' : env[d].status # "none"
    BY <1>7 DEF Crash, stored
  <2> QED
    BY <2>1, NobodyMoves, ReadingStep
<1>8. CASE UNCHANGED vars
  <2>1. UNCHANGED <<state, env, pc, work, onBase, todo>>
    BY <1>8 DEF vars
  <2>2. OneAtATime' /\ InPosition' /\ \A d \in todo' : env[d].status # "none"
    BY <2>1 DEF SingleServiceInv, OneAtATime, InPosition, EntersOnce, Busy, Expected
  <2> QED
    BY <2>1, <2>2, ReadingStep
<1> QED
  BY <1>1, <1>2, <1>3, <1>4, <1>5, <1>6, <1>7, <1>8 DEF Next

LEMMA SingleServiceInit == Init => SingleServiceInv /\ Log!LogInit
<1> SUFFICES ASSUME Init PROVE SingleServiceInv /\ Log!LogInit
  OBVIOUS
<1>1. Snapshot = <<>>
  BY DEF Init, Snapshot
<1>2. OneAtATime /\ InPosition
  BY DEF Init, OneAtATime, InPosition, Busy
<1>3. EntersOnce /\ AcknowledgedChangesSurvive /\ todo = {}
  BY <1>1, RangeEmpty DEF Init, EntersOnce, AcknowledgedChangesSurvive
<1>4. {c \in Changes : env[c].status = "applied"} = {}
  BY DEF Init
<1> QED
  BY <1>1, <1>2, <1>3, <1>4 DEF SingleServiceInv, Log!LogInit

-----------------------------------------------------------------------------
\* With one service in use, an acknowledged change is never lost: no order of
\* plans, confirmations, crashes, restarts and retries by any number of request
\* threads takes it out of the Household state.
THEOREM SingleServiceKeepsChanges ==
  ASSUME OneService PROVE Spec => []AcknowledgedChangesSurvive
<1>1. TypeOK /\ SingleServiceInv /\ [Next]_vars => SingleServiceInv'
  BY SingleServiceStep DEF Implements
<1>2. SingleServiceInv => AcknowledgedChangesSurvive
  BY DEF SingleServiceInv
<1> QED
  BY <1>1, <1>2, SingleServiceInit, TypeCorrect, PTL DEF Spec

\* With one service in use, the services implement the log: every change takes
\* effect at most once, behind everything in force, and is acknowledged after.
THEOREM SingleServiceImplementsLog ==
  ASSUME OneService PROVE Spec => ImplementsLog
<1>1. TypeOK /\ SingleServiceInv /\ [Next]_vars => SingleServiceInv'
  BY SingleServiceStep DEF Implements
<1>2. TypeOK /\ SingleServiceInv /\ [Next]_vars => [Log!LogNext]_(Log!logVars)
  BY SingleServiceStep DEF Implements
<1> QED
  BY <1>1, <1>2, SingleServiceInit, TypeCorrect, PTL DEF Spec, ImplementsLog, Log!LogSpec

-----------------------------------------------------------------------------
(* All the services together: what the audit trail knows of a proposal, and *)
(* what it takes to lose an acknowledged change.                            *)

InState(c) == c \in Range(Snapshot)
PlannedOn(o, c) == o \in Range(env[c].base)
Working(t, c) == Busy(t) /\ work[t] = c

\* The change was confirmed at least once.
Confirmed(c) == env[c].status \notin {"none", "pending"}

Asked(c) == "requested" \in audit[c]
Ended(c) == audit[c] \cap {"succeeded", "recovered"} # {}

\* A proposal that is in a snapshot, stored or planned on, or that is being
\* written, was asked for, and the trail says how it ended before its answer.
Audited ==
  \A c \in Proposals :
    /\ InState(c) => Asked(c)
    /\ \A d \in Changes : PlannedOn(c, d) => Asked(c)
    /\ env[c].status = "applying" => Asked(c)
    /\ env[c].status = "applied" => Ended(c)
    /\ \A t \in Threads : Working(t, c) =>
         /\ pc[t] # "request" => Asked(c)
         /\ pc[t] = "acknowledge" => Ended(c)

\* A request under way holds the lock of its service, and recovery is over.
Exclusive ==
  /\ \A t, u \in Threads, o, c \in Changes :
       Working(t, o) /\ Working(u, c) /\ t # u => Service(o) # Service(c)
  /\ todo # {} => \A t \in Threads : ~Busy(t)
  /\ \A c \in Changes : c \in todo => Confirmed(c)

\* It stands where the status of its change says.
ProposalAt(t, c) ==
  /\ pc[t] \in {"request", "mark", "write", "complete", "acknowledge"}
  /\ env[c].status = IF pc[t] \in {"request", "mark"} THEN "pending" ELSE "applying"
  /\ pc[t] \in {"request", "mark", "write"} => onBase[t]

ManagedAt(t, c) ==
  /\ pc[t] \in {"apply", "write", "readback", "rollback", "finish", "report"}
  /\ env[c].status = IF pc[t] = "report" THEN "applied" ELSE "verified"

InPlace ==
  /\ \A t \in Threads, c \in Proposals : Working(t, c) => ProposalAt(t, c)
  /\ \A t \in Threads, c \in Managed : Working(t, c) => ManagedAt(t, c)

\* A change that nobody confirmed is nowhere, and none was planned on itself.
Unseen ==
  /\ \A c \in Changes : ~PlannedOn(c, c)
  /\ \A c \in Changes : ~Confirmed(c) => ~InState(c) /\ \A d \in Changes : ~PlannedOn(c, d)
  /\ state = Unconfigured => \A c \in Changes : env[c].status = "none"

\* As long as the request of a proposal has not written, the proposal is in the
\* state exactly if it is in the snapshot each other request was planned on.
Agreement ==
  \A o \in Proposals :
    /\ env[o].status = "applying"
    /\ \A t \in Threads : Working(t, o) => pc[t] \notin {"complete", "acknowledge"} \/ ~onBase[t]
    => \A u \in Threads, c \in Changes \ {o} : Working(u, c) => (PlannedOn(o, c) <=> InState(o))

\* A proposal about to be written is not there.
Fresher ==
  \A t \in Threads, o \in Proposals :
    Working(t, o) /\ pc[t] \in {"request", "mark", "write"} => ~InState(o)

\* A change of another service confirmed beside c, or rolled back under it.
Beside(o, c) ==
  /\ Service(o) # Service(c)
  /\ Confirmed(o)
  /\ ~PlannedOn(c, o)
  /\ PlannedOn(o, c) => o \in Managed

Excused(c) == \E o \in Changes : Beside(o, c)

\* The state has held the change, and its request will not write again.
Written(c) ==
  \/ env[c].status = "applied"
  \/ \E t \in Threads : Working(t, c) /\ pc[t] \in {"complete", "acknowledge", "finish"}

\* What the request of o may take out of the state when it writes.
Spares(o, c) ==
  \/ PlannedOn(c, o)
  \/ Excused(c)
  \/ Service(o) # Service(c) /\ (PlannedOn(o, c) => o \in Managed)

Lasting == \A c \in Changes : Written(c) => InState(c) \/ Excused(c)

Sparing ==
  \A t \in Threads, o \in Changes :
    Working(t, o) /\ pc[t] \in {"request", "mark", "write", "readback", "rollback"} =>
      \A c \in Changes \ {o} : Written(c) => Spares(o, c)

ServicesInv ==
  Audited /\ Exclusive /\ InPlace /\ Unseen /\ Agreement /\ Fresher /\ Lasting /\ Sparing
-----------------------------------------------------------------------------
(* What a step does to the parts the invariant speaks of.                  *)

\* A snapshot that is stored is the snapshot the next reader gets.
LEMMA StateBecomes ==
  ASSUME NEW s \in Seq(Changes), state' = s
  PROVE  \A c : InState(c)' <=> c \in Range(s)
BY ChangesAssumption DEF InState, Snapshot

LEMMA StateStays ==
  ASSUME UNCHANGED state
  PROVE  \A c : InState(c)' <=> InState(c)
BY DEF InState, Snapshot

LEMMA EnvelopesStay ==
  ASSUME UNCHANGED env
  PROVE  /\ \A o, d \in Changes : PlannedOn(o, d)' <=> PlannedOn(o, d)
         /\ \A d \in Changes : Confirmed(d)' <=> Confirmed(d)
         /\ \A d \in Changes : env'[d].status = env[d].status
BY DEF PlannedOn, Confirmed

\* The statuses move on: a change once confirmed stays so.
LEMMA StatusMovesOn ==
  ASSUME TypeOK, NEW c \in Changes, NEW s \in Statuses \ {"none", "pending"}, SetStatus(c, s)
  PROVE  /\ \A o, d \in Changes : PlannedOn(o, d)' <=> PlannedOn(o, d)
         /\ \A d \in Changes : Confirmed(d)' <=> d = c \/ Confirmed(d)
         /\ \A d \in Changes : env'[d].status = IF d = c THEN s ELSE env[d].status
<1>1. /\ \A d \in Changes : env'[d].base = env[d].base
      /\ \A d \in Changes : env'[d].status = IF d = c THEN s ELSE env[d].status
  BY StatusUpdate DEF TypeOK
<1> QED
  BY <1>1 DEF PlannedOn, Confirmed

LEMMA RequestGoes ==
  ASSUME TypeOK, NEW t \in Threads, Busy(t), NEW step \in Steps \ {"idle"}, Goto(t, step),
         UNCHANGED <<work, onBase>>
  PROVE  /\ \A u \in Threads : pc'[u] = IF u = t THEN step ELSE pc[u]
         /\ \A u \in Threads : onBase'[u] = onBase[u]
         /\ \A u \in Threads, d \in Changes : Working(u, d)' <=> Working(u, d)
BY DEF TypeOK, Goto, Working, Busy

LEMMA RequestEnds ==
  ASSUME TypeOK, NEW t \in Threads, Leave(t)
  PROVE  /\ \A u \in Threads : pc'[u] = IF u = t THEN "idle" ELSE pc[u]
         /\ \A u \in Threads \ {t} : onBase'[u] = onBase[u]
         /\ \A u \in Threads, d \in Changes : Working(u, d)' <=> u # t /\ Working(u, d)
BY DEF TypeOK, Leave, Working, Busy

LEMMA RequestBegins ==
  ASSUME TypeOK, NEW t \in Threads, ~Busy(t), NEW step \in Steps \ {"idle"}, Goto(t, step),
         NEW c \in Changes, work' = [work EXCEPT ![t] = c]
  PROVE  /\ \A u \in Threads : pc'[u] = IF u = t THEN step ELSE pc[u]
         /\ \A u \in Threads, d \in Changes : Working(u, d)' <=> IF u = t THEN d = c ELSE Working(u, d)
BY DEF TypeOK, Goto, Working, Busy

\* Nothing about the threads changes.
LEMMA RequestsStay ==
  ASSUME UNCHANGED local
  PROVE  /\ \A u \in Threads : pc'[u] = pc[u] /\ onBase'[u] = onBase[u]
         /\ \A u \in Threads, d \in Changes : Working(u, d)' <=> Working(u, d)
         /\ \A u \in Threads : Busy(u)' <=> Busy(u)
BY DEF local, Working, Busy

\* What was written was confirmed, and the request of an unconfirmed change has
\* not come to its write.
LEMMA WrittenIsConfirmed ==
  ASSUME InPlace, NEW c \in Changes, Written(c)
  PROVE  Confirmed(c)
BY DEF InPlace, ProposalAt, ManagedAt, Written, Confirmed, Changes

\* A change that was a reason for a loss, and what it spares, stay as they are.
LEMMA ReasonsStay ==
  ASSUME \A o, d \in Changes : PlannedOn(o, d)' <=> PlannedOn(o, d),
         \A d \in Changes : Confirmed(d) => Confirmed(d)'
  PROVE  /\ \A c \in Changes : Excused(c) => Excused(c)'
         /\ \A o, c \in Changes : Spares(o, c) => Spares(o, c)'
<1>1. \A c \in Changes : Excused(c) => Excused(c)'
  BY DEF Excused, Beside
<1>2. \A o, c \in Changes : Spares(o, c) => Spares(o, c)'
  BY <1>1 DEF Spares
<1> QED
  BY <1>1, <1>2

\* A request that has not come past its write.
Unwritten == {"request", "mark", "write", "readback", "rollback"}

\* A step that adds nothing to what was written and to who may still write.
LEMMA NothingWritten ==
  ASSUME \A o, d \in Changes : PlannedOn(o, d)' <=> PlannedOn(o, d),
         \A d \in Changes : Confirmed(d) => Confirmed(d)',
         \A d \in Changes : InState(d)' <=> InState(d),
         \A d \in Changes : Written(d)' => Written(d),
         \A t \in Threads, o \in Changes :
           Working(t, o)' /\ pc'[t] \in Unwritten => Working(t, o) /\ pc[t] \in Unwritten,
         Lasting, Sparing
  PROVE  Lasting' /\ Sparing'
<1>1. /\ \A c \in Changes : Excused(c) => Excused(c)'
      /\ \A o, c \in Changes : Spares(o, c) => Spares(o, c)'
  BY ReasonsStay
<1>2. Lasting'
  BY <1>1 DEF Lasting
<1>3. Sparing'
  BY <1>1 DEF Sparing, Unwritten
<1> QED
  BY <1>2, <1>3

\* The change a request works on, as a constant.
LEMMA RequestAtWork ==
  ASSUME TypeOK, NEW t \in Threads, Busy(t)
  PROVE  \E x \in Changes : x = work[t] /\ Working(t, x)
BY DEF TypeOK, Working

\* A proposal whose request has not written is in no snapshot that another
\* request was planned on, so nobody can roll back or write beneath it.
LEMMA NotUnder ==
  ASSUME ServicesInv, NEW t \in Threads, NEW x \in Changes, Working(t, x),
         NEW u \in Threads \ {t}, NEW d \in Proposals, Working(u, d),
         pc[u] \in {"request", "mark", "write"}
  PROVE  d # x /\ ~InState(d) /\ ~PlannedOn(d, x)
<1>i. Exclusive /\ InPlace /\ Unseen /\ Agreement /\ Fresher
  BY DEF ServicesInv
<1>1. d \in Changes
  BY DEF Changes
<1>2. d # x /\ ~InState(d)
  BY <1>i, <1>1 DEF Exclusive, Fresher
<1>3. CASE env[d].status = "pending"
  BY <1>i, <1>1, <1>2, <1>3 DEF Unseen, Confirmed
<1>4. CASE env[d].status = "applying"
  <2>1. \A w \in Threads : Working(w, d) => w = u
    BY <1>i, <1>1 DEF Exclusive
  <2>2. PlannedOn(d, x) <=> InState(d)
    BY <1>i, <1>2, <1>4, <2>1 DEF Agreement
  <2> QED
    BY <1>2, <2>2
<1> QED
  BY <1>i, <1>3, <1>4 DEF InPlace, ProposalAt

\* The change of a request under way was planned.
LEMMA WorkedOnIsPlanned ==
  ASSUME InPlace, NEW t \in Threads, NEW x \in Changes, Working(t, x)
  PROVE  env[x].status # "none"
BY DEF InPlace, ProposalAt, ManagedAt, Changes

\* What the step of a request that leaves the state alone has to see to: the
\* thread comes to `step` and only the envelope of its own change is touched,
Comes(t, step) ==
  /\ \A u \in Threads : pc'[u] = IF u = t THEN step ELSE pc[u]
  /\ \A u \in Threads : (u = t /\ step = "idle") \/ onBase'[u] = onBase[u]
  /\ \A u \in Threads, d \in Changes :
       Working(u, d)' <=> Working(u, d) /\ (u = t => step # "idle")

Touches(x) ==
  /\ \A o, d \in Changes : PlannedOn(o, d)' <=> PlannedOn(o, d)
  /\ \A d \in Changes : Confirmed(d) => Confirmed(d)'
  /\ \A d \in Changes \ {x} : env'[d].status = env[d].status

TrailGrows == \A d \in Changes : (Asked(d) => Asked(d)') /\ (Ended(d) => Ended(d)')

\* the trail leads, a proposal starts writing from where nobody has seen it,
Leads(t, x, step) == x \in Proposals =>
  /\ env'[x].status = "applying" => Asked(x)'
  /\ env'[x].status = "applied" => Ended(x)'
  /\ step \notin {"request", "idle"} => Asked(x)'
  /\ step = "acknowledge" => Ended(x)'
  /\ step # "idle" => ProposalAt(t, x)'
  /\ step \in {"request", "mark", "write"} => pc[t] \in {"request", "mark", "write"}
  /\ env'[x].status = "applying" /\ (step \notin {"complete", "acknowledge"} \/ ~onBase[t]) =>
       \/ ~Confirmed(x)
       \/ env[x].status = "applying" /\ (pc[t] \notin {"complete", "acknowledge"} \/ ~onBase[t])

\* and what is written is there.
Leaves(t, x, step) ==
  /\ \A d \in Changes : Written(d)' => Written(d) \/ (d = x /\ InState(x))
  /\ step \in Unwritten =>
       pc[t] \in Unwritten \/ \A c \in Changes \ {x} : Written(c) => Spares(x, c)

LEMMA RequestStepSafe ==
  ASSUME TypeOK, ServicesInv, NEW t \in Threads, NEW x \in Changes, Working(t, x), NEW step,
         UNCHANGED <<state, todo>>, Comes(t, step), Touches(x), TrailGrows,
         Leads(t, x, step), x \in Managed /\ step # "idle" => ManagedAt(t, x)',
         Leaves(t, x, step)
  PROVE  ServicesInv'
<1> USE DEF Comes, Touches, TrailGrows, Leads, Leaves
<1>i. Audited /\ Exclusive /\ InPlace /\ Unseen /\ Agreement /\ Fresher /\ Lasting /\ Sparing
  BY DEF ServicesInv
<1>s. \A d \in Changes : InState(d)' <=> InState(d)
  BY StateStays
<1>x. \A d \in Changes : Working(t, d) => d = x
  BY DEF Working
<1>m. x \in Proposals \/ x \in Managed
  BY DEF Changes
<1>1. Audited'
  <2> SUFFICES ASSUME NEW c \in Proposals
               PROVE  /\ InState(c)' => Asked(c)'
                      /\ \A d \in Changes : PlannedOn(c, d)' => Asked(c)'
                      /\ env'[c].status = "applying" => Asked(c)'
                      /\ env'[c].status = "applied" => Ended(c)'
                      /\ \A u \in Threads : Working(u, c)' =>
                           /\ pc'[u] # "request" => Asked(c)'
                           /\ pc'[u] = "acknowledge" => Ended(c)'
    BY DEF Audited
  <2>1. c \in Changes
    BY DEF Changes
  <2>2. (InState(c)' => Asked(c)') /\ \A d \in Changes : PlannedOn(c, d)' => Asked(c)'
    BY <1>i, <1>s, <2>1 DEF Audited
  <2>3. (env'[c].status = "applying" => Asked(c)') /\ (env'[c].status = "applied" => Ended(c)')
    BY <1>i, <2>1 DEF Audited
  <2>4. ASSUME NEW u \in Threads, Working(u, c)'
        PROVE  (pc'[u] # "request" => Asked(c)') /\ (pc'[u] = "acknowledge" => Ended(c)')
    <3>1. CASE u = t
      BY <1>x, <2>1, <2>4, <3>1
    <3>2. CASE u # t
      BY <1>i, <2>1, <2>4, <3>2 DEF Audited
    <3> QED
      BY <3>1, <3>2
  <2> QED
    BY <2>2, <2>3, <2>4
<1>2. Exclusive'
  <2>1. \A u \in Threads : Busy(u)' => Busy(u)
    BY DEF Busy, Working
  <2> QED
    BY <1>i, <2>1 DEF Exclusive
<1>3. InPlace'
  <2>1. ASSUME NEW u \in Threads, NEW d \in Proposals, Working(u, d)'
        PROVE  ProposalAt(u, d)'
    <3>1. d \in Changes
      BY DEF Changes
    <3>2. CASE u = t
      BY <1>x, <2>1, <3>1, <3>2
    <3>3. CASE u # t
      <4>1. d # x
        BY <1>i, <2>1, <3>1, <3>3 DEF Exclusive
      <4> QED
        BY <1>i, <2>1, <3>1, <3>3, <4>1 DEF InPlace, ProposalAt
    <3> QED
      BY <3>2, <3>3
  <2>2. ASSUME NEW u \in Threads, NEW d \in Managed, Working(u, d)'
        PROVE  ManagedAt(u, d)'
    <3>1. d \in Changes
      BY DEF Changes
    <3>2. CASE u = t
      BY <1>x, <2>2, <3>1, <3>2
    <3>3. CASE u # t
      <4>1. d # x
        BY <1>i, <2>2, <3>1, <3>3 DEF Exclusive
      <4> QED
        BY <1>i, <2>2, <3>1, <3>3, <4>1 DEF InPlace, ManagedAt
    <3> QED
      BY <3>2, <3>3
  <2> QED
    BY <2>1, <2>2 DEF InPlace
<1>4. Unseen'
  <2>1. state # Unconfigured
    BY <1>i, WorkedOnIsPlanned DEF Unseen
  <2> QED
    BY <1>i, <1>s, <2>1 DEF Unseen
<1>5. Agreement'
  <2> SUFFICES ASSUME NEW d \in Proposals, env'[d].status = "applying",
                      \A u \in Threads : Working(u, d)' => pc'[u] \notin {"complete", "acknowledge"} \/ ~onBase'[u],
                      NEW u \in Threads, NEW c \in Changes \ {d}, Working(u, c)'
               PROVE  PlannedOn(d, c)' <=> InState(d)'
    BY DEF Agreement
  <2>1. d \in Changes /\ Working(u, c)
    BY DEF Changes
  <2>2. CASE d # x
    <3>1. env[d].status = "applying"
      BY <2>1, <2>2
    <3>2. \A w \in Threads : Working(w, d) => pc[w] \notin {"complete", "acknowledge"} \/ ~onBase[w]
      BY <1>x, <2>1, <2>2
    <3> QED
      BY <1>i, <1>s, <2>1, <3>1, <3>2 DEF Agreement
  <2>3. CASE d = x /\ ~Confirmed(x)
    BY <1>i, <1>s, <2>1, <2>3 DEF Unseen
  <2>4. CASE d = x /\ Confirmed(x)
    <3>1. step = "idle" \/ step \notin {"complete", "acknowledge"} \/ ~onBase[t]
      BY <2>1, <2>4
    <3>2. step # "idle" \/ step \notin {"complete", "acknowledge"}
      OBVIOUS
    <3>3. env[x].status = "applying" /\ (pc[t] \notin {"complete", "acknowledge"} \/ ~onBase[t])
      BY <2>4, <3>1, <3>2
    <3>4. \A w \in Threads : Working(w, x) => w = t
      BY <1>i DEF Exclusive
    <3> QED
      BY <1>i, <1>s, <2>1, <2>4, <3>3, <3>4 DEF Agreement
  <2> QED
    BY <2>2, <2>3, <2>4
<1>6. Fresher'
  BY <1>i, <1>s, <1>x DEF Fresher, Changes
<1>r. /\ \A c \in Changes : Excused(c) => Excused(c)'
      /\ \A o, c \in Changes : Spares(o, c) => Spares(o, c)'
  BY ReasonsStay
<1>7. Lasting'
  BY <1>i, <1>s, <1>r DEF Lasting
<1>8. Sparing'
  <2> SUFFICES ASSUME NEW u \in Threads, NEW d \in Changes, Working(u, d)', pc'[u] \in Unwritten,
                      NEW c \in Changes \ {d}, Written(c)'
               PROVE  Spares(d, c)'
    BY DEF Sparing, Unwritten
  <2>1. Working(u, d)
    OBVIOUS
  <2>2. CASE Written(c) /\ pc[u] \in Unwritten
    BY <1>i, <1>r, <2>1, <2>2 DEF Sparing, Unwritten
  <2>3. CASE Written(c) /\ pc[u] \notin Unwritten
    BY <1>r, <1>x, <2>1, <2>3
  <2>4. CASE ~Written(c)
    <3>1. c = x /\ u # t /\ pc[u] \in Unwritten
      BY <1>x, <2>1, <2>4
    <3>2. Service(d) # Service(c)
      BY <1>i, <2>1, <3>1 DEF Exclusive
    <3>3. CASE d \in Managed
      BY <1>r, <3>2, <3>3 DEF Spares
    <3>4. CASE d \in Proposals
      <4>1. pc[u] \in {"request", "mark", "write"}
        BY <1>i, <2>1, <3>1, <3>4 DEF InPlace, ProposalAt, Unwritten
      <4>2. ~PlannedOn(d, c)
        BY <2>1, <3>1, <3>4, <4>1, NotUnder
      <4> QED
        BY <1>r, <3>2, <4>2 DEF Spares
    <3> QED
      BY <3>3, <3>4 DEF Changes
  <2> QED
    BY <2>2, <2>3, <2>4
<1> QED
  BY <1>1, <1>2, <1>3, <1>4, <1>5, <1>6, <1>7, <1>8 DEF ServicesInv

\* A request that replaces the state by the snapshot its change was planned on,
\* with or without the change: what it takes out of the state it may take out.
LEMMA OverwriteSafe ==
  ASSUME TypeOK, ServicesInv, NEW t \in Threads, NEW x \in Changes, Working(t, x), NEW step,
         pc[t] \in {"write", "rollback"},
         UNCHANGED <<env, audit, todo>>, Comes(t, step), state' # Unconfigured,
         \A d \in Changes : InState(d)' => d = x \/ PlannedOn(d, x),
         \A d \in Changes : PlannedOn(d, x) => InState(d)',
         Written(x)' => InState(x)',
         x \in Proposals => step = "complete" /\ onBase[t] /\ InState(x)',
         step # "idle" => step \in {"complete", "readback"} /\ (step = "complete" => x \in Proposals)
  PROVE  ServicesInv'
<1>i. Audited /\ Exclusive /\ InPlace /\ Unseen /\ Agreement /\ Fresher /\ Lasting /\ Sparing
  BY DEF ServicesInv
<1>e. /\ \A c, d \in Changes : PlannedOn(c, d)' <=> PlannedOn(c, d)
      /\ \A d \in Changes : Confirmed(d)' <=> Confirmed(d)
      /\ \A d \in Changes : env'[d].status = env[d].status
  BY EnvelopesStay
<1>a. \A d \in Changes : (Asked(d)' <=> Asked(d)) /\ (Ended(d)' <=> Ended(d))
  BY DEF Asked, Ended
<1>m. x \in Proposals \/ x \in Managed
  BY DEF Changes
<1>c. Confirmed(x)
  BY <1>i, <1>m DEF InPlace, ProposalAt, ManagedAt, Confirmed
<1>l. \A u \in Threads \ {t} : ~Working(u, x)
  BY <1>i DEF Exclusive
<1>x. \A d \in Changes : Working(t, d) => d = x
  BY DEF Working
<1>t. /\ \A u \in Threads : pc'[u] = IF u = t THEN step ELSE pc[u]
      /\ \A u \in Threads \ {t} : onBase'[u] = onBase[u]
      /\ \A u \in Threads, d \in Changes : Working(u, d)' => Working(u, d)
      /\ x \in Proposals => Working(t, x)' /\ onBase'[t]
  BY DEF Comes
<1>1. Audited'
  <2> SUFFICES ASSUME NEW c \in Proposals
               PROVE  /\ InState(c)' => Asked(c)'
                      /\ \A d \in Changes : PlannedOn(c, d)' => Asked(c)'
                      /\ env'[c].status = "applying" => Asked(c)'
                      /\ env'[c].status = "applied" => Ended(c)'
                      /\ \A u \in Threads : Working(u, c)' =>
                           /\ pc'[u] # "request" => Asked(c)'
                           /\ pc'[u] = "acknowledge" => Ended(c)'
    BY DEF Audited
  <2>1. c \in Changes
    BY DEF Changes
  <2>2. x \in Proposals => Asked(x)
    BY <1>i DEF Audited
  <2>3. InState(c)' => Asked(c)'
    BY <1>i, <1>a, <2>1, <2>2 DEF Audited
  <2>4. \A d \in Changes : PlannedOn(c, d)' => Asked(c)'
    BY <1>i, <1>a, <1>e, <2>1 DEF Audited
  <2>5. (env'[c].status = "applying" => Asked(c)') /\ (env'[c].status = "applied" => Ended(c)')
    BY <1>i, <1>a, <1>e, <2>1 DEF Audited
  <2>6. ASSUME NEW u \in Threads, Working(u, c)'
        PROVE  (pc'[u] # "request" => Asked(c)') /\ (pc'[u] = "acknowledge" => Ended(c)')
    BY <1>i, <1>a, <1>t, <1>x, <2>1, <2>2, <2>6 DEF Audited
  <2> QED
    BY <2>3, <2>4, <2>5, <2>6
<1>2. Exclusive'
  <2>1. \A u \in Threads : Busy(u)' => Busy(u)
    BY <1>t DEF Busy
  <2> QED
    BY <1>i, <1>e, <1>t, <2>1 DEF Exclusive
<1>8. InPlace'
  <2>1. ASSUME NEW u \in Threads, NEW d \in Proposals, Working(u, d)'
        PROVE  ProposalAt(u, d)'
    <3>1. d \in Changes /\ Working(u, d)
      BY <1>t, <2>1 DEF Changes
    <3>2. u = t => x \in Proposals /\ d = x
      BY <1>x, <3>1
    <3>3. ProposalAt(u, d)
      BY <1>i, <3>1 DEF InPlace
    <3>4. u = t => pc[t] = "write"
      BY <3>2, <3>3 DEF ProposalAt
    <3> QED
      BY <1>e, <1>t, <3>1, <3>2, <3>3, <3>4 DEF ProposalAt
  <2>2. ASSUME NEW u \in Threads, NEW d \in Managed, Working(u, d)'
        PROVE  ManagedAt(u, d)'
    <3>1. d \in Changes /\ Working(u, d)
      BY <1>t, <2>2 DEF Changes
    <3>2. u = t => x \notin Proposals /\ step # "idle"
      BY <1>x, <2>2, <3>1, ChangesAssumption DEF Comes
    <3>3. ManagedAt(u, d)
      BY <1>i, <3>1 DEF InPlace
    <3> QED
      BY <1>e, <1>t, <3>1, <3>2, <3>3 DEF ManagedAt
  <2> QED
    BY <2>1, <2>2 DEF InPlace
<1>3. Unseen'
  BY <1>i, <1>e, <1>c DEF Unseen
<1>4. Agreement'
  <2> SUFFICES ASSUME NEW d \in Proposals, env'[d].status = "applying",
                      \A u \in Threads : Working(u, d)' => pc'[u] \notin {"complete", "acknowledge"} \/ ~onBase'[u],
                      NEW u \in Threads, NEW c \in Changes \ {d}, Working(u, c)'
               PROVE  PlannedOn(d, c)' <=> InState(d)'
    BY DEF Agreement
  <2>1. d \in Changes /\ env[d].status = "applying" /\ Working(u, c)
    BY <1>e, <1>t DEF Changes
  <2>2. d # x
    BY <1>t
  <2>3. \A w \in Threads : Working(w, d) => pc[w] \notin {"complete", "acknowledge"} \/ ~onBase[w]
    BY <1>x, <1>t, <2>1, <2>2 DEF Comes
  <2>4. PlannedOn(d, c) <=> InState(d)
    BY <1>i, <2>1, <2>3 DEF Agreement
  <2>5. PlannedOn(d, x) <=> InState(d)
    BY <1>i, <2>1, <2>2, <2>3 DEF Agreement
  <2> QED
    BY <1>e, <2>1, <2>2, <2>4, <2>5
<1>5. Fresher'
  <2> SUFFICES ASSUME NEW u \in Threads, NEW d \in Proposals, Working(u, d)',
                      pc'[u] \in {"request", "mark", "write"}
               PROVE  ~InState(d)'
    BY DEF Fresher
  <2>1. d \in Changes /\ Working(u, d)
    BY <1>t DEF Changes
  <2>2. u # t
    BY <1>t, <1>x, <2>1
  <2> QED
    BY <1>t, <2>1, <2>2, NotUnder
<1>w. \A d \in Changes \ {x} : Written(d)' => Written(d)
  BY <1>e, <1>t, <1>x DEF Written
<1>r. /\ \A c \in Changes : Excused(c) => Excused(c)'
      /\ \A d, c \in Changes : Spares(d, c) => Spares(d, c)'
  BY <1>e, ReasonsStay
<1>6. Lasting'
  <2> SUFFICES ASSUME NEW c \in Changes \ {x}, Written(c)' PROVE InState(c)' \/ Excused(c)'
    BY DEF Lasting
  <2>1. Spares(x, c)
    BY <1>i, <1>w DEF Sparing
  <2>2. CASE ~PlannedOn(c, x) /\ Service(x) # Service(c) /\ (PlannedOn(x, c) => x \in Managed)
    <3>1. Beside(x, c)
      BY <1>c, <2>2 DEF Beside
    <3> QED
      BY <1>r, <3>1 DEF Excused
  <2> QED
    BY <1>r, <2>1, <2>2 DEF Spares
<1>7. Sparing'
  <2> SUFFICES ASSUME NEW u \in Threads, NEW d \in Changes, Working(u, d)', pc'[u] \in Unwritten,
                      NEW c \in Changes \ {d}, Written(c)'
               PROVE  Spares(d, c)'
    BY DEF Sparing, Unwritten
  <2>1. Working(u, d) /\ pc[u] \in Unwritten
    BY <1>t DEF Unwritten
  <2>2. CASE c # x
    BY <1>i, <1>r, <1>w, <2>1, <2>2 DEF Sparing, Unwritten
  <2>3. CASE c = x
    <3>1. u # t
      BY <1>x, <2>1, <2>3
    <3>2. Service(d) # Service(c)
      BY <1>i, <2>1, <2>3, <3>1 DEF Exclusive
    <3>3. CASE d \in Managed
      BY <1>r, <3>2, <3>3 DEF Spares
    <3>4. CASE d \in Proposals
      <4>1. pc[u] \in {"request", "mark", "write"}
        BY <1>i, <2>1, <3>4 DEF InPlace, ProposalAt, Unwritten
      <4>2. ~PlannedOn(d, c)
        BY <2>1, <2>3, <3>1, <3>4, <4>1, NotUnder
      <4> QED
        BY <1>r, <3>2, <4>2 DEF Spares
    <3> QED
      BY <3>3, <3>4 DEF Changes
  <2> QED
    BY <2>2, <2>3
<1> QED
  BY <1>1, <1>2, <1>3, <1>4, <1>5, <1>6, <1>7, <1>8 DEF ServicesInv

LEMMA RequestAuditSafe ==
  ASSUME TypeOK, ServicesInv, NEW t \in Threads, RequestAudit(t)
  PROVE  ServicesInv'
<1>p. pc[t] = "request" /\ Goto(t, "mark") /\ UNCHANGED <<state, env, work, onBase, todo>>
  BY DEF RequestAudit
<1>o. PICK x \in Changes : x = work[t] /\ Working(t, x)
  BY <1>p, RequestAtWork DEF Busy
<1>i. InPlace
  BY DEF ServicesInv
<1>m. x \in Proposals /\ x \notin Managed
  BY <1>i, <1>o, <1>p, ChangesAssumption DEF InPlace, ManagedAt, Changes
<1>c. ProposalAt(t, x)
  BY <1>i, <1>m, <1>o DEF InPlace
<1>e. /\ \A c, d \in Changes : PlannedOn(c, d)' <=> PlannedOn(c, d)
      /\ \A d \in Changes : Confirmed(d)' <=> Confirmed(d)
      /\ \A d \in Changes : env'[d].status = env[d].status
  BY <1>p, EnvelopesStay
<1>t. /\ \A u \in Threads : pc'[u] = IF u = t THEN "mark" ELSE pc[u]
      /\ \A u \in Threads : onBase'[u] = onBase[u]
      /\ \A u \in Threads, d \in Changes : Working(u, d)' <=> Working(u, d)
  BY <1>p, RequestGoes DEF Busy, Steps
<1>a. /\ \A d \in Changes : (Asked(d) => Asked(d)') /\ (Ended(d) => Ended(d)')
      /\ Asked(x)'
  BY <1>o DEF RequestAudit, Record, Asked, Ended, TypeOK
<1>w. \A d \in Changes : Written(d)' => Written(d)
  BY <1>p, <1>e, <1>t DEF Written
<1>1. ProposalAt(t, x)'
  BY <1>p, <1>c, <1>e, <1>t DEF ProposalAt
<1>2. env'[x].status = "pending"
  BY <1>p, <1>c, <1>e DEF ProposalAt
<1>3. Comes(t, "mark")
  BY <1>t DEF Comes
<1>4. Touches(x)
  BY <1>e DEF Touches
<1>5. TrailGrows
  BY <1>a DEF TrailGrows
<1>6. Leads(t, x, "mark")
  BY <1>o, <1>p, <1>m, <1>c, <1>e, <1>a, <1>1, <1>2 DEF Leads
<1>7. Leaves(t, x, "mark")
  BY <1>p, <1>w DEF Leaves, Unwritten
<1> QED
  BY <1>o, <1>p, <1>m, <1>1, <1>3, <1>4, <1>5, <1>6, <1>7, RequestStepSafe

LEMMA MarkApplyingSafe ==
  ASSUME TypeOK, ServicesInv, NEW t \in Threads, MarkApplying(t)
  PROVE  ServicesInv'
<1>p. pc[t] = "mark" /\ UNCHANGED <<state, audit, work, onBase, todo>>
  BY DEF MarkApplying
<1>o. PICK x \in Changes : x = work[t] /\ Working(t, x)
  BY <1>p, RequestAtWork DEF Busy
<1>i. InPlace /\ Audited
  BY DEF ServicesInv
<1>m. x \in Proposals /\ x \notin Managed
  BY <1>i, <1>o, <1>p, ChangesAssumption DEF InPlace, ManagedAt, Changes
<1>c. ProposalAt(t, x) /\ onBase[t] /\ env[x].status = "pending"
  BY <1>i, <1>m, <1>o, <1>p DEF InPlace, ProposalAt
<1>g. Goto(t, "write")
  BY <1>c DEF MarkApplying
<1>e. /\ \A c, d \in Changes : PlannedOn(c, d)' <=> PlannedOn(c, d)
      /\ \A d \in Changes : Confirmed(d)' <=> d = x \/ Confirmed(d)
      /\ \A d \in Changes : env'[d].status = IF d = x THEN "applying" ELSE env[d].status
  BY <1>o, StatusMovesOn DEF MarkApplying, Statuses
<1>t. /\ \A u \in Threads : pc'[u] = IF u = t THEN "write" ELSE pc[u]
      /\ \A u \in Threads : onBase'[u] = onBase[u]
      /\ \A u \in Threads, d \in Changes : Working(u, d)' <=> Working(u, d)
  BY <1>p, <1>g, RequestGoes DEF Busy, Steps
<1>a. \A d \in Changes : (Asked(d)' <=> Asked(d)) /\ (Ended(d)' <=> Ended(d))
  BY <1>p DEF Asked, Ended
<1>b. Asked(x)
  BY <1>i, <1>m, <1>o, <1>p DEF Audited
<1>w. \A d \in Changes : Written(d)' => Written(d)
  BY <1>p, <1>e, <1>t DEF Written
<1>1. ProposalAt(t, x)'
  BY <1>c, <1>e, <1>t DEF ProposalAt
<1>2. ~Confirmed(x)
  BY <1>c DEF Confirmed
<1>3. Comes(t, "write")
  BY <1>t DEF Comes
<1>4. Touches(x)
  BY <1>e DEF Touches
<1>5. TrailGrows
  BY <1>a DEF TrailGrows
<1>6. Leads(t, x, "write")
  BY <1>o, <1>p, <1>m, <1>c, <1>e, <1>a, <1>b, <1>1, <1>2 DEF Leads
<1>7. Leaves(t, x, "write")
  BY <1>p, <1>w, <1>g DEF Leaves, Unwritten
<1> QED
  BY <1>o, <1>p, <1>m, <1>1, <1>3, <1>4, <1>5, <1>6, <1>7, RequestStepSafe

LEMMA CompletionAuditSafe ==
  ASSUME TypeOK, ServicesInv, NEW t \in Threads, CompletionAudit(t)
  PROVE  ServicesInv'
<1>p. pc[t] = "complete" /\ Goto(t, "acknowledge") /\ UNCHANGED <<state, env, work, onBase, todo>>
  BY DEF CompletionAudit
<1>o. PICK x \in Changes : x = work[t] /\ Working(t, x)
  BY <1>p, RequestAtWork DEF Busy
<1>i. InPlace /\ Audited
  BY DEF ServicesInv
<1>m. x \in Proposals /\ x \notin Managed
  BY <1>i, <1>o, <1>p, ChangesAssumption DEF InPlace, ManagedAt, Changes
<1>c. ProposalAt(t, x) /\ env[x].status = "applying"
  BY <1>i, <1>m, <1>o, <1>p DEF InPlace, ProposalAt
<1>e. /\ \A c, d \in Changes : PlannedOn(c, d)' <=> PlannedOn(c, d)
      /\ \A d \in Changes : Confirmed(d)' <=> Confirmed(d)
      /\ \A d \in Changes : env'[d].status = env[d].status
  BY <1>p, EnvelopesStay
<1>t. /\ \A u \in Threads : pc'[u] = IF u = t THEN "acknowledge" ELSE pc[u]
      /\ \A u \in Threads : onBase'[u] = onBase[u]
      /\ \A u \in Threads, d \in Changes : Working(u, d)' <=> Working(u, d)
  BY <1>p, RequestGoes DEF Busy, Steps
<1>a. /\ \A d \in Changes : (Asked(d) => Asked(d)') /\ (Ended(d) => Ended(d)')
      /\ Ended(x)'
  BY <1>o DEF CompletionAudit, Record, Asked, Ended, TypeOK
<1>b. Asked(x)
  BY <1>i, <1>m, <1>o, <1>p DEF Audited
<1>w. \A d \in Changes : Written(d)' => Written(d)
  BY <1>p, <1>e, <1>t DEF Written
<1>1. ProposalAt(t, x)'
  BY <1>p, <1>c, <1>e, <1>t DEF ProposalAt
<1>3. Comes(t, "acknowledge")
  BY <1>t DEF Comes
<1>4. Touches(x)
  BY <1>e DEF Touches
<1>5. TrailGrows
  BY <1>a DEF TrailGrows
<1>6. Leads(t, x, "acknowledge")
  BY <1>o, <1>p, <1>m, <1>c, <1>e, <1>a, <1>b, <1>1 DEF Leads
<1>7. Leaves(t, x, "acknowledge")
  BY <1>p, <1>w DEF Leaves, Unwritten
<1> QED
  BY <1>o, <1>p, <1>m, <1>1, <1>3, <1>4, <1>5, <1>6, <1>7, RequestStepSafe

LEMMA MarkAppliedSafe ==
  ASSUME TypeOK, ServicesInv, NEW t \in Threads, MarkApplied(t)
  PROVE  ServicesInv'
<1>p. pc[t] = "acknowledge" /\ Leave(t) /\ UNCHANGED <<state, audit, todo>>
  BY DEF MarkApplied
<1>o. PICK x \in Changes : x = work[t] /\ Working(t, x)
  BY <1>p, RequestAtWork DEF Busy
<1>i. InPlace /\ Audited
  BY DEF ServicesInv
<1>m. x \in Proposals /\ x \notin Managed
  BY <1>i, <1>o, <1>p, ChangesAssumption DEF InPlace, ManagedAt, Changes
<1>e. /\ \A c, d \in Changes : PlannedOn(c, d)' <=> PlannedOn(c, d)
      /\ \A d \in Changes : Confirmed(d)' <=> d = x \/ Confirmed(d)
      /\ \A d \in Changes : env'[d].status = IF d = x THEN "applied" ELSE env[d].status
  BY <1>o, StatusMovesOn DEF MarkApplied, Statuses
<1>t. /\ \A u \in Threads : pc'[u] = IF u = t THEN "idle" ELSE pc[u]
      /\ \A u \in Threads \ {t} : onBase'[u] = onBase[u]
      /\ \A u \in Threads, d \in Changes : Working(u, d)' <=> u # t /\ Working(u, d)
  BY <1>p, RequestEnds
<1>a. \A d \in Changes : (Asked(d)' <=> Asked(d)) /\ (Ended(d)' <=> Ended(d))
  BY <1>p DEF Asked, Ended
<1>b. Asked(x) /\ Ended(x)
  BY <1>i, <1>m, <1>o, <1>p DEF Audited
<1>w. \A d \in Changes : Written(d)' => Written(d)
  BY <1>o, <1>p, <1>e, <1>t DEF Written
<1>3. Comes(t, "idle")
  BY <1>t DEF Comes
<1>4. Touches(x)
  BY <1>e DEF Touches
<1>5. TrailGrows
  BY <1>a DEF TrailGrows
<1>6. Leads(t, x, "idle")
  BY <1>o, <1>p, <1>m, <1>e, <1>a, <1>b DEF Leads
<1>7. Leaves(t, x, "idle")
  BY <1>p, <1>w DEF Leaves, Unwritten
<1> QED
  BY <1>o, <1>p, <1>m, <1>3, <1>4, <1>5, <1>6, <1>7, RequestStepSafe

LEMMA ReadBackSafe ==
  ASSUME TypeOK, ServicesInv, NEW t \in Threads, ReadBack(t)
  PROVE  ServicesInv'
<1>p. pc[t] = "readback" /\ UNCHANGED <<state, env, audit, work, onBase, todo>>
  BY DEF ReadBack, stored
<1>o. PICK x \in Changes : x = work[t] /\ Working(t, x)
  BY <1>p, RequestAtWork DEF Busy
<1>i. InPlace
  BY DEF ServicesInv
<1>m. x \notin Proposals /\ x \in Managed
  BY <1>i, <1>o, <1>p, ChangesAssumption DEF InPlace, ProposalAt, Changes
<1>c. env[x].status = "verified"
  BY <1>i, <1>m, <1>o, <1>p DEF InPlace, ManagedAt
<1> DEFINE step == IF state = Expected(x) THEN "finish" ELSE "rollback"
<1>e. /\ \A c, d \in Changes : PlannedOn(c, d)' <=> PlannedOn(c, d)
      /\ \A d \in Changes : Confirmed(d)' <=> Confirmed(d)
      /\ \A d \in Changes : env'[d].status = env[d].status
  BY <1>p, EnvelopesStay
<1>f. state = Expected(x) => InState(x)
  BY ExpectedAppends, SnapshotIsSequence DEF InState
<1>g. PICK s \in {"finish", "rollback"} : s = step
  OBVIOUS
<1>h. Goto(t, s)
  BY <1>g, <1>o DEF ReadBack
<1>t. /\ \A u \in Threads : pc'[u] = IF u = t THEN s ELSE pc[u]
      /\ \A u \in Threads : onBase'[u] = onBase[u]
      /\ \A u \in Threads, d \in Changes : Working(u, d)' <=> Working(u, d)
  BY <1>p, <1>h, RequestGoes DEF Busy, Steps
<1>a. \A d \in Changes : (Asked(d)' <=> Asked(d)) /\ (Ended(d)' <=> Ended(d))
  BY <1>p DEF Asked, Ended
<1>w. \A d \in Changes : Written(d)' => Written(d) \/ (d = x /\ InState(x))
  BY <1>o, <1>p, <1>e, <1>f, <1>g, <1>t DEF Written, Working
<1>1. ManagedAt(t, x)'
  BY <1>c, <1>e, <1>t DEF ManagedAt
<1> HIDE DEF step
<1>3. Comes(t, s)
  BY <1>t DEF Comes
<1>4. Touches(x)
  BY <1>e DEF Touches
<1>5. TrailGrows
  BY <1>a DEF TrailGrows
<1>6. Leads(t, x, s)
  BY <1>o, <1>p, <1>m, <1>c, <1>e, <1>a, <1>1 DEF Leads
<1>7. Leaves(t, x, s)
  BY <1>p, <1>w, <1>g DEF Leaves, Unwritten
<1> QED
  BY <1>o, <1>p, <1>m, <1>1, <1>3, <1>4, <1>5, <1>6, <1>7, RequestStepSafe

LEMMA FinishManagedSafe ==
  ASSUME TypeOK, ServicesInv, NEW t \in Threads, FinishManaged(t)
  PROVE  ServicesInv'
<1>p. pc[t] = "finish" /\ Goto(t, "report") /\ UNCHANGED <<state, audit, work, onBase, todo>>
  BY DEF FinishManaged
<1>o. PICK x \in Changes : x = work[t] /\ Working(t, x)
  BY <1>p, RequestAtWork DEF Busy
<1>i. InPlace
  BY DEF ServicesInv
<1>m. x \notin Proposals /\ x \in Managed
  BY <1>i, <1>o, <1>p, ChangesAssumption DEF InPlace, ProposalAt, Changes
<1>e. /\ \A c, d \in Changes : PlannedOn(c, d)' <=> PlannedOn(c, d)
      /\ \A d \in Changes : Confirmed(d)' <=> d = x \/ Confirmed(d)
      /\ \A d \in Changes : env'[d].status = IF d = x THEN "applied" ELSE env[d].status
  BY <1>o, StatusMovesOn DEF FinishManaged, Statuses
<1>t. /\ \A u \in Threads : pc'[u] = IF u = t THEN "report" ELSE pc[u]
      /\ \A u \in Threads : onBase'[u] = onBase[u]
      /\ \A u \in Threads, d \in Changes : Working(u, d)' <=> Working(u, d)
  BY <1>p, RequestGoes DEF Busy, Steps
<1>a. \A d \in Changes : (Asked(d)' <=> Asked(d)) /\ (Ended(d)' <=> Ended(d))
  BY <1>p DEF Asked, Ended
<1>w. \A d \in Changes : Written(d)' => Written(d)
  BY <1>o, <1>p, <1>e, <1>t DEF Written
<1>1. ManagedAt(t, x)'
  BY <1>e, <1>t DEF ManagedAt
<1>3. Comes(t, "report")
  BY <1>t DEF Comes
<1>4. Touches(x)
  BY <1>e DEF Touches
<1>5. TrailGrows
  BY <1>a DEF TrailGrows
<1>6. Leads(t, x, "report")
  BY <1>o, <1>p, <1>m, <1>e, <1>a, <1>1 DEF Leads
<1>7. Leaves(t, x, "report")
  BY <1>p, <1>w DEF Leaves, Unwritten
<1> QED
  BY <1>o, <1>p, <1>m, <1>1, <1>3, <1>4, <1>5, <1>6, <1>7, RequestStepSafe

LEMMA ReportManagedSafe ==
  ASSUME TypeOK, ServicesInv, NEW t \in Threads, ReportManaged(t)
  PROVE  ServicesInv'
<1>p. pc[t] = "report" /\ Leave(t) /\ UNCHANGED <<state, env, todo>>
  BY DEF ReportManaged
<1>o. PICK x \in Changes : x = work[t] /\ Working(t, x)
  BY <1>p, RequestAtWork DEF Busy
<1>i. InPlace
  BY DEF ServicesInv
<1>m. x \notin Proposals /\ x \in Managed
  BY <1>i, <1>o, <1>p, ChangesAssumption DEF InPlace, ProposalAt, Changes
<1>e. /\ \A c, d \in Changes : PlannedOn(c, d)' <=> PlannedOn(c, d)
      /\ \A d \in Changes : Confirmed(d)' <=> Confirmed(d)
      /\ \A d \in Changes : env'[d].status = env[d].status
  BY <1>p, EnvelopesStay
<1>t. /\ \A u \in Threads : pc'[u] = IF u = t THEN "idle" ELSE pc[u]
      /\ \A u \in Threads \ {t} : onBase'[u] = onBase[u]
      /\ \A u \in Threads, d \in Changes : Working(u, d)' <=> u # t /\ Working(u, d)
  BY <1>p, RequestEnds
<1>a. \A d \in Changes : (Asked(d) => Asked(d)') /\ (Ended(d) => Ended(d)')
  BY <1>o DEF ReportManaged, Record, Asked, Ended, TypeOK
<1>w. \A d \in Changes : Written(d)' => Written(d)
  BY <1>p, <1>e, <1>t DEF Written
<1>3. Comes(t, "idle")
  BY <1>t DEF Comes
<1>4. Touches(x)
  BY <1>e DEF Touches
<1>5. TrailGrows
  BY <1>a DEF TrailGrows
<1>6. Leads(t, x, "idle")
  BY <1>o, <1>p, <1>m, <1>e, <1>a DEF Leads
<1>7. Leaves(t, x, "idle")
  BY <1>p, <1>w DEF Leaves, Unwritten
<1> QED
  BY <1>o, <1>p, <1>m, <1>3, <1>4, <1>5, <1>6, <1>7, RequestStepSafe

LEMMA WriteStateSafe ==
  ASSUME TypeOK, ServicesInv, NEW t \in Threads, WriteState(t)
  PROVE  ServicesInv'
<1>p. pc[t] = "write" /\ UNCHANGED <<env, audit, work, onBase, todo>>
  BY DEF WriteState
<1>o. PICK x \in Changes : x = work[t] /\ Working(t, x)
  BY <1>p, RequestAtWork DEF Busy
<1>g. PICK s \in {"complete", "readback"} : s = IF x \in Proposals THEN "complete" ELSE "readback"
  OBVIOUS
<1>h. Goto(t, s)
  BY <1>g, <1>o DEF WriteState
<1>1. state' = Expected(x) /\ Expected(x) \in Seq(Changes) /\ Range(Expected(x)) = Range(env[x].base) \cup {x}
  BY <1>o, ExpectedAppends DEF WriteState
<1>2. /\ \A d \in Changes : InState(d)' <=> d = x \/ PlannedOn(d, x)
      /\ state' # Unconfigured
  BY <1>1, StateBecomes, ChangesAssumption DEF PlannedOn
<1>3. Comes(t, s)
  <2>1. /\ \A u \in Threads : pc'[u] = IF u = t THEN s ELSE pc[u]
        /\ \A u \in Threads : onBase'[u] = onBase[u]
        /\ \A u \in Threads, d \in Changes : Working(u, d)' <=> Working(u, d)
    BY <1>p, <1>h, RequestGoes DEF Busy, Steps
  <2> QED
    BY <2>1 DEF Comes
<1>4. x \in Proposals => onBase[t]
  BY <1>o, <1>p DEF ServicesInv, InPlace, ProposalAt
<1> QED
  BY <1>o, <1>p, <1>g, <1>2, <1>3, <1>4, OverwriteSafe

LEMMA RollbackSafe ==
  ASSUME TypeOK, ServicesInv, NEW t \in Threads, Rollback(t)
  PROVE  ServicesInv'
<1>p. pc[t] = "rollback" /\ Leave(t) /\ UNCHANGED <<env, audit, todo>>
  BY DEF Rollback
<1>o. PICK x \in Changes : x = work[t] /\ Working(t, x)
  BY <1>p, RequestAtWork DEF Busy
<1>i. InPlace /\ Exclusive
  BY DEF ServicesInv
<1>m. x \notin Proposals /\ x \in Managed
  BY <1>i, <1>o, <1>p DEF InPlace, ProposalAt, Changes
<1>1. state' = env[x].base /\ env[x].base \in Seq(Changes)
  BY <1>o DEF Rollback, TypeOK, Envelope
<1>2. /\ \A d \in Changes : InState(d)' <=> PlannedOn(d, x)
      /\ state' # Unconfigured
  BY <1>1, StateBecomes, ChangesAssumption DEF PlannedOn
<1>3. /\ \A u \in Threads : pc'[u] = IF u = t THEN "idle" ELSE pc[u]
      /\ \A u \in Threads \ {t} : onBase'[u] = onBase[u]
      /\ \A u \in Threads, d \in Changes : Working(u, d)' <=> u # t /\ Working(u, d)
  BY <1>p, RequestEnds
<1>4. Comes(t, "idle")
  BY <1>3 DEF Comes
<1>5. ~Written(x)'
  <2>1. env'[x].status = "verified"
    BY <1>i, <1>m, <1>o, <1>p DEF InPlace, ManagedAt
  <2>2. \A u \in Threads : ~Working(u, x)'
    BY <1>i, <1>o, <1>3 DEF Exclusive
  <2> QED
    BY <2>1, <2>2 DEF Written
<1> QED
  BY <1>o, <1>p, <1>m, <1>2, <1>4, <1>5, OverwriteSafe

LEMMA ReadCurrentSafe ==
  ASSUME TypeOK, ServicesInv, NEW t \in Threads, ReadCurrent(t)
  PROVE  ServicesInv'
<1>p. pc[t] = "apply" /\ UNCHANGED <<state, env, audit, todo>>
  BY DEF ReadCurrent, stored
<1>o. PICK x \in Changes : x = work[t] /\ Working(t, x)
  BY <1>p, RequestAtWork DEF Busy
<1>i. InPlace /\ Lasting
  BY DEF ServicesInv
<1>m. x \notin Proposals /\ x \in Managed
  BY <1>i, <1>o, <1>p DEF InPlace, ProposalAt, Changes
<1>c. env[x].status = "verified"
  BY <1>i, <1>m, <1>o, <1>p DEF InPlace, ManagedAt
<1>e. /\ \A c, d \in Changes : PlannedOn(c, d)' <=> PlannedOn(c, d)
      /\ \A d \in Changes : Confirmed(d)' <=> Confirmed(d)
      /\ \A d \in Changes : env'[d].status = env[d].status
  BY <1>p, EnvelopesStay
<1>4. Touches(x)
  BY <1>e DEF Touches
<1>5. TrailGrows
  BY <1>p DEF TrailGrows, Asked, Ended
<1>6. \A s : Leads(t, x, s)
  BY <1>m DEF Leads
<1>7. CASE state \in {env[x].base, Expected(x)} /\ UNCHANGED <<work, onBase>>
           /\ \E s \in {"write", "readback"} : Goto(t, s)
  <2>1. PICK s \in {"write", "readback"} : Goto(t, s)
    BY <1>7
  <2>t. /\ \A u \in Threads : pc'[u] = IF u = t THEN s ELSE pc[u]
        /\ \A u \in Threads : onBase'[u] = onBase[u]
        /\ \A u \in Threads, d \in Changes : Working(u, d)' <=> Working(u, d)
    BY <1>p, <1>7, <2>1, RequestGoes DEF Busy, Steps
  <2>2. Comes(t, s)
    BY <2>t DEF Comes
  <2>3. ManagedAt(t, x)'
    BY <1>c, <1>e, <2>t DEF ManagedAt
  <2>4. \A c \in Changes \ {x} : InState(c) => PlannedOn(c, x)
    BY <1>7, ExpectedAppends, SnapshotIsSequence DEF InState, PlannedOn, TypeOK, Envelope
  <2>5. \A c \in Changes \ {x} : Written(c) => Spares(x, c)
    BY <1>i, <2>4 DEF Lasting, Spares
  <2>6. \A d \in Changes : Written(d)' => Written(d)
    BY <1>e, <2>t DEF Written
  <2>7. Leaves(t, x, s)
    BY <2>5, <2>6 DEF Leaves
  <2> QED
    BY <1>o, <1>p, <1>m, <1>4, <1>5, <1>6, <2>2, <2>3, <2>7, RequestStepSafe
<1>8. CASE Leave(t)
  <2>t. /\ \A u \in Threads : pc'[u] = IF u = t THEN "idle" ELSE pc[u]
        /\ \A u \in Threads \ {t} : onBase'[u] = onBase[u]
        /\ \A u \in Threads, d \in Changes : Working(u, d)' <=> u # t /\ Working(u, d)
    BY <1>8, RequestEnds
  <2>1. Comes(t, "idle")
    BY <2>t DEF Comes
  <2>2. \A d \in Changes : Written(d)' => Written(d)
    BY <1>e, <2>t DEF Written
  <2>3. Leaves(t, x, "idle")
    BY <2>2 DEF Leaves, Unwritten
  <2> QED
    BY <1>o, <1>p, <1>m, <1>4, <1>5, <1>6, <2>1, <2>3, RequestStepSafe
<1> QED
  BY <1>o, <1>7, <1>8 DEF ReadCurrent

\* A free lock: nobody works on a change of the service.
LEMMA LockFreeMeans ==
  ASSUME TypeOK, NEW c \in Changes, LockFree(c)
  PROVE  \A u \in Threads, d \in Changes : Working(u, d) => Service(d) # Service(c)
BY DEF LockFree, Working

\* Nobody starts or answers, and the state and the statuses stay as they are.
LEMMA QuietStepSafe ==
  ASSUME TypeOK, ServicesInv, UNCHANGED <<env, audit, local, todo>>,
         \A c \in Changes : InState(c)' <=> InState(c),
         state' = Unconfigured => state = Unconfigured
  PROVE  ServicesInv'
<1>i. Audited /\ Exclusive /\ InPlace /\ Unseen /\ Agreement /\ Fresher /\ Lasting /\ Sparing
  BY DEF ServicesInv
<1>e. /\ \A c, d \in Changes : PlannedOn(c, d)' <=> PlannedOn(c, d)
      /\ \A d \in Changes : Confirmed(d)' <=> Confirmed(d)
      /\ \A d \in Changes : env'[d].status = env[d].status
  BY EnvelopesStay
<1>t. /\ \A u \in Threads : pc'[u] = pc[u] /\ onBase'[u] = onBase[u]
      /\ \A u \in Threads, d \in Changes : Working(u, d)' <=> Working(u, d)
      /\ \A u \in Threads : Busy(u)' <=> Busy(u)
  BY RequestsStay
<1>a. \A d \in Changes : (Asked(d)' <=> Asked(d)) /\ (Ended(d)' <=> Ended(d))
  BY DEF Asked, Ended
<1>1. Audited'
  BY <1>i, <1>e, <1>t, <1>a DEF Audited, Changes
<1>2. Exclusive' /\ Unseen'
  BY <1>i, <1>e, <1>t DEF Exclusive, Unseen
<1>3. InPlace'
  <2>1. \A u \in Threads, d \in Proposals : ProposalAt(u, d)' <=> ProposalAt(u, d)
    BY <1>e, <1>t DEF ProposalAt, Changes
  <2>2. \A u \in Threads, d \in Managed : ManagedAt(u, d)' <=> ManagedAt(u, d)
    BY <1>e, <1>t DEF ManagedAt, Changes
  <2> QED
    BY <1>i, <1>t, <2>1, <2>2 DEF InPlace, Changes
<1>4. Agreement'
  BY <1>i, <1>e, <1>t DEF Agreement, Changes
<1>5. Fresher'
  BY <1>i, <1>t DEF Fresher, Changes
<1>6. Lasting' /\ Sparing'
  <2>1. \A d \in Changes : Written(d)' => Written(d)
    BY <1>e, <1>t DEF Written
  <2> QED
    BY <1>i, <1>e, <1>t, <2>1, NothingWritten
<1> QED
  BY <1>1, <1>2, <1>3, <1>4, <1>5, <1>6 DEF ServicesInv

\* A plan remembers the snapshot as it is, and nobody has seen its change.
LEMMA PlanSafe ==
  ASSUME TypeOK, ServicesInv, NEW c \in Changes, Plan(c)
  PROVE  ServicesInv'
<1>i. Audited /\ Exclusive /\ InPlace /\ Unseen /\ Agreement /\ Fresher /\ Lasting /\ Sparing
  BY DEF ServicesInv
<1>p. /\ env[c].status = "none" /\ state # Unconfigured /\ LockFree(c)
      /\ env' = [env EXCEPT ![c] = [status |-> "pending", base |-> state]]
      /\ UNCHANGED <<state, audit, local, todo>>
  BY DEF Plan, PlanProposal, PlanManaged
<1>e. /\ \A d \in Changes : PlannedOn(d, c)' <=> InState(d)
      /\ \A o \in Changes, d \in Changes \ {c} : PlannedOn(o, d)' <=> PlannedOn(o, d)
      /\ \A d \in Changes : Confirmed(d)' <=> Confirmed(d)
      /\ \A d \in Changes : env'[d].status = IF d = c THEN "pending" ELSE env[d].status
  <2>1. env'[c].base = state /\ env'[c].status = "pending"
    BY <1>p DEF TypeOK
  <2>2. \A d \in Changes \ {c} : env'[d] = env[d]
    BY <1>p DEF TypeOK
  <2>3. \A d \in Changes : InState(d) <=> d \in Range(state)
    BY <1>p DEF InState, Snapshot
  <2> QED
    BY <1>p, <2>1, <2>2, <2>3 DEF PlannedOn, Confirmed
<1>s. \A d \in Changes : InState(d)' <=> InState(d)
  BY <1>p, StateStays
<1>t. /\ \A u \in Threads : pc'[u] = pc[u] /\ onBase'[u] = onBase[u]
      /\ \A u \in Threads, d \in Changes : Working(u, d)' <=> Working(u, d)
      /\ \A u \in Threads : Busy(u)' <=> Busy(u)
  BY <1>p, RequestsStay
<1>a. \A d \in Changes : (Asked(d)' <=> Asked(d)) /\ (Ended(d)' <=> Ended(d))
  BY <1>p DEF Asked, Ended
<1>l. \A u \in Threads : ~Working(u, c)
  BY <1>p, LockFreeMeans
<1>n. ~Confirmed(c)
  BY <1>p DEF Confirmed
<1>1. Audited'
  <2>1. \A o \in Proposals, d \in Changes : PlannedOn(o, d)' => Asked(o)'
    BY <1>i, <1>e, <1>a DEF Audited, Changes
  <2> QED
    BY <1>i, <1>e, <1>t, <1>a, <1>s, <2>1 DEF Audited, Changes
<1>2. Exclusive'
  BY <1>i, <1>p, <1>e, <1>t DEF Exclusive
<1>3. InPlace'
  <2>1. \A u \in Threads, d \in Proposals : Working(u, d) => ProposalAt(u, d)'
    BY <1>i, <1>e, <1>t, <1>l DEF InPlace, ProposalAt, Changes
  <2>2. \A u \in Threads, d \in Managed : Working(u, d) => ManagedAt(u, d)'
    BY <1>i, <1>e, <1>t, <1>l DEF InPlace, ManagedAt, Changes
  <2> QED
    BY <1>t, <2>1, <2>2 DEF InPlace, Changes
<1>4. Unseen'
  BY <1>i, <1>p, <1>e, <1>s, <1>n DEF Unseen
<1>5. Agreement'
  BY <1>i, <1>e, <1>s, <1>t, <1>l DEF Agreement, Changes
<1>6. Fresher'
  BY <1>i, <1>s, <1>t DEF Fresher, Changes
<1>w. \A d \in Changes : Written(d)' => d # c /\ Written(d)
  BY <1>e, <1>t, <1>l DEF Written
<1>r. /\ \A d \in Changes \ {c} : Excused(d) => Excused(d)'
      /\ \A o, d \in Changes \ {c} : Spares(o, d) => Spares(o, d)'
  <2>1. \A o \in Changes, d \in Changes \ {c} : Beside(o, d) => Beside(o, d)'
    BY <1>e, <1>n DEF Beside
  <2>2. \A d \in Changes \ {c} : Excused(d) => Excused(d)'
    BY <2>1 DEF Excused
  <2> QED
    BY <1>e, <2>2 DEF Spares
<1>7. Lasting'
  BY <1>i, <1>s, <1>w, <1>r DEF Lasting
<1>8. Sparing'
  BY <1>i, <1>t, <1>l, <1>w, <1>r DEF Sparing
<1> QED
  BY <1>1, <1>2, <1>3, <1>4, <1>5, <1>6, <1>7, <1>8 DEF ServicesInv

\* The status of a change nobody works on moves within what is confirmed.
LEMMA ReverifySafe ==
  ASSUME TypeOK, ServicesInv, NEW c \in Changes, Reverify(c)
  PROVE  ServicesInv'
<1>i. Audited /\ Exclusive /\ InPlace /\ Unseen /\ Agreement /\ Fresher /\ Lasting /\ Sparing
  BY DEF ServicesInv
<1>p. /\ LockFree(c) /\ c \in Managed /\ env[c].status \in {"verified", "unverified"}
      /\ UNCHANGED <<state, audit, local, todo>>
  BY DEF Reverify
<1>e. /\ \A o, d \in Changes : PlannedOn(o, d)' <=> PlannedOn(o, d)
      /\ \A d \in Changes : Confirmed(d)' <=> d = c \/ Confirmed(d)
      /\ \A d \in Changes : env'[d].status = IF d = c THEN "unverified" ELSE env[d].status
  BY StatusMovesOn DEF Reverify, Statuses
<1>n. Confirmed(c)
  BY <1>p DEF Confirmed
<1>s. \A d \in Changes : InState(d)' <=> InState(d)
  BY <1>p, StateStays
<1>t. /\ \A u \in Threads : pc'[u] = pc[u] /\ onBase'[u] = onBase[u]
      /\ \A u \in Threads, d \in Changes : Working(u, d)' <=> Working(u, d)
      /\ \A u \in Threads : Busy(u)' <=> Busy(u)
  BY <1>p, RequestsStay
<1>a. \A d \in Changes : (Asked(d)' <=> Asked(d)) /\ (Ended(d)' <=> Ended(d))
  BY <1>p DEF Asked, Ended
<1>l. \A u \in Threads : ~Working(u, c)
  BY <1>p, LockFreeMeans
<1>1. Audited'
  BY <1>i, <1>e, <1>t, <1>a, <1>s DEF Audited, Changes
<1>2. Exclusive'
  BY <1>i, <1>p, <1>e, <1>t DEF Exclusive
<1>3. InPlace'
  <2>1. \A u \in Threads, d \in Proposals : Working(u, d) => ProposalAt(u, d)'
    BY <1>i, <1>e, <1>t, <1>l DEF InPlace, ProposalAt, Changes
  <2>2. \A u \in Threads, d \in Managed : Working(u, d) => ManagedAt(u, d)'
    BY <1>i, <1>e, <1>t, <1>l DEF InPlace, ManagedAt, Changes
  <2> QED
    BY <1>t, <2>1, <2>2 DEF InPlace, Changes
<1>4. Unseen'
  <2>1. state # Unconfigured
    BY <1>i, <1>p DEF Unseen
  <2> QED
    BY <1>i, <1>p, <1>e, <1>s, <2>1 DEF Unseen
<1>5. Agreement'
  BY <1>i, <1>e, <1>s, <1>t DEF Agreement, Changes
<1>6. Fresher'
  BY <1>i, <1>s, <1>t DEF Fresher, Changes
<1>7. Lasting' /\ Sparing'
  <2>1. \A d \in Changes : Written(d)' => Written(d)
    BY <1>e, <1>t DEF Written
  <2> QED
    BY <1>i, <1>e, <1>s, <1>t, <2>1, NothingWritten
<1> QED
  BY <1>1, <1>2, <1>3, <1>4, <1>5, <1>6, <1>7 DEF ServicesInv

\* Recovery appends the change to the snapshot it was planned on, alone.
LEMMA RecoverOneSafe ==
  ASSUME TypeOK, ServicesInv, NEW c \in Changes, RecoverOne(c)
  PROVE  ServicesInv'
<1>i. Audited /\ Exclusive /\ InPlace /\ Unseen /\ Agreement /\ Fresher /\ Lasting /\ Sparing
  BY DEF ServicesInv
<1>p. c \in todo /\ todo' = todo \ {c} /\ UNCHANGED local
  BY DEF RecoverOne
<1>q. \A u \in Threads, d \in Changes : ~Working(u, d)
  BY <1>i, <1>p DEF Exclusive, Working
<1>t. /\ \A u \in Threads, d \in Changes : ~Working(u, d)'
      /\ \A u \in Threads : ~Busy(u)'
  BY <1>i, <1>p, <1>q, RequestsStay DEF Exclusive
<1>m. c \in Managed /\ c \notin Proposals /\ Confirmed(c)
  BY <1>i, <1>p, ChangesAssumption DEF TypeOK, Managed, Exclusive
<1>1. InPlace' /\ Agreement' /\ Fresher' /\ Sparing'
  BY <1>t DEF InPlace, Agreement, Fresher, Sparing, Changes
<1>2. CASE UNCHANGED stored
  <2>1. UNCHANGED <<state, env, audit>>
    BY <1>2 DEF stored
  <2>e. /\ \A o, d \in Changes : PlannedOn(o, d)' <=> PlannedOn(o, d)
        /\ \A d \in Changes : Confirmed(d)' <=> Confirmed(d)
        /\ \A d \in Changes : env'[d].status = env[d].status
    BY <2>1, EnvelopesStay
  <2>s. \A d \in Changes : InState(d)' <=> InState(d)
    BY <2>1, StateStays
  <2>a. \A d \in Changes : (Asked(d)' <=> Asked(d)) /\ (Ended(d)' <=> Ended(d))
    BY <2>1 DEF Asked, Ended
  <2>2. Audited'
    BY <1>i, <1>t, <2>e, <2>s, <2>a DEF Audited, Changes
  <2>3. Exclusive' /\ Unseen'
    BY <1>i, <1>p, <1>t, <2>1, <2>e, <2>s DEF Exclusive, Unseen
  <2>4. Lasting'
    <3>1. \A d \in Changes : Written(d)' => Written(d)
      BY <1>t, <2>e DEF Written
    <3>2. \A d \in Changes : Excused(d) => Excused(d)'
      BY <2>e, ReasonsStay
    <3> QED
      BY <1>i, <2>s, <3>1, <3>2 DEF Lasting
  <2> QED
    BY <1>1, <2>2, <2>3, <2>4 DEF ServicesInv
<1>3. CASE /\ state \in {env[c].base, Expected(c)} /\ state' = Expected(c)
           /\ SetStatus(c, "applied") /\ Record(c, "succeeded")
  <2>e. /\ \A o, d \in Changes : PlannedOn(o, d)' <=> PlannedOn(o, d)
        /\ \A d \in Changes : Confirmed(d)' <=> d = c \/ Confirmed(d)
        /\ \A d \in Changes : env'[d].status = IF d = c THEN "applied" ELSE env[d].status
    BY <1>3, StatusMovesOn DEF Statuses
  <2>s. \A d \in Changes : InState(d)' <=> d = c \/ InState(d)
    <3>1. Expected(c) \in Seq(Changes) /\ Range(Expected(c)) = Range(env[c].base) \cup {c}
      BY ExpectedAppends
    <3>2. \A d \in Changes : InState(d)' <=> d \in Range(Expected(c))
      BY <1>3, <3>1, StateBecomes
    <3>3. env[c].base \in Seq(Changes)
      BY DEF TypeOK, Envelope
    <3>4. Snapshot = state
      BY <1>3, <3>1, <3>3, SnapshotIsSequence
    <3> QED
      BY <1>3, <3>1, <3>2, <3>4 DEF InState
  <2>a. \A d \in Changes : (Asked(d) => Asked(d)') /\ (Ended(d) => Ended(d)')
    BY <1>3 DEF Record, Asked, Ended, TypeOK
  <2>2. Audited'
    BY <1>i, <1>m, <1>t, <2>e, <2>s, <2>a DEF Audited, Changes
  <2>3. Exclusive'
    BY <1>i, <1>p, <1>t, <2>e DEF Exclusive
  <2>4. Unseen'
    <3>1. state' # Unconfigured
      BY <1>3, ExpectedAppends, ChangesAssumption
    <3> QED
      BY <1>i, <1>m, <2>e, <2>s, <3>1 DEF Unseen
  <2>5. Lasting'
    <3>1. \A d \in Changes \ {c} : Written(d)' => Written(d)
      BY <1>t, <2>e DEF Written
    <3>2. \A d \in Changes : Excused(d) => Excused(d)'
      BY <2>e, ReasonsStay
    <3> QED
      BY <1>i, <2>s, <3>1, <3>2 DEF Lasting
  <2> QED
    BY <1>1, <2>2, <2>3, <2>4, <2>5 DEF ServicesInv
<1> QED
  BY <1>2, <1>3 DEF RecoverOne

\* A crash ends every request; what was acknowledged stays as it was.
LEMMA CrashSafe ==
  ASSUME TypeOK, ServicesInv, Crash
  PROVE  ServicesInv'
<1>i. Audited /\ Exclusive /\ InPlace /\ Unseen /\ Agreement /\ Fresher /\ Lasting /\ Sparing
  BY DEF ServicesInv
<1>p. UNCHANGED <<state, env, audit>> /\ todo' = {c \in Enrolls : env[c].status = "verified"}
  BY DEF Crash, stored
<1>t. /\ \A u \in Threads : ~Busy(u)'
      /\ \A u \in Threads, d \in Changes : ~Working(u, d)'
  BY DEF Crash, Busy, Working
<1>e. /\ \A o, d \in Changes : PlannedOn(o, d)' <=> PlannedOn(o, d)
      /\ \A d \in Changes : Confirmed(d)' <=> Confirmed(d)
      /\ \A d \in Changes : env'[d].status = env[d].status
  BY <1>p, EnvelopesStay
<1>s. \A d \in Changes : InState(d)' <=> InState(d)
  BY <1>p, StateStays
<1>a. \A d \in Changes : (Asked(d)' <=> Asked(d)) /\ (Ended(d)' <=> Ended(d))
  BY <1>p DEF Asked, Ended
<1>1. InPlace' /\ Agreement' /\ Fresher' /\ Sparing'
  BY <1>t DEF InPlace, Agreement, Fresher, Sparing, Changes
<1>2. Audited'
  BY <1>i, <1>t, <1>e, <1>s, <1>a DEF Audited, Changes
<1>3. Exclusive'
  <2>1. \A d \in Changes : d \in todo' => Confirmed(d)
    BY <1>p DEF Confirmed
  <2> QED
    BY <1>t, <1>e, <2>1 DEF Exclusive
<1>4. Unseen'
  BY <1>i, <1>p, <1>e, <1>s DEF Unseen
<1>5. Lasting'
  <2>1. \A d \in Changes : Written(d)' => Written(d)
    BY <1>t, <1>e DEF Written
  <2>2. \A d \in Changes : Excused(d) => Excused(d)'
    BY <1>e, ReasonsStay
  <2> QED
    BY <1>i, <1>s, <2>1, <2>2 DEF Lasting
<1> QED
  BY <1>1, <1>2, <1>3, <1>4, <1>5 DEF ServicesInv

\* A request that starts stands on the snapshot it just read.
LEMMA BeginConfirmSafe ==
  ASSUME TypeOK, ServicesInv, NEW t \in Threads, NEW c \in Changes, BeginConfirm(t, c)
  PROVE  ServicesInv'
<1>i. Audited /\ Exclusive /\ InPlace /\ Unseen /\ Agreement /\ Fresher /\ Lasting /\ Sparing
  BY DEF ServicesInv
<1>p. /\ ~Busy(t) /\ LockFree(c) /\ todo = {} /\ env[c].status \in {"pending", "applying"}
      /\ state \in {env[c].base, Expected(c)}
      /\ work' = [work EXCEPT ![t] = c]
      /\ UNCHANGED <<state, env, audit, todo>>
  BY DEF BeginConfirm, Serving, stored, Accepts
<1>m. c \in Proposals /\ c \notin Managed
  BY ChangesAssumption DEF BeginConfirm
<1>f. /\ env[c].base \in Seq(Changes) /\ Expected(c) \in Seq(Changes)
      /\ Range(Expected(c)) = Range(env[c].base) \cup {c}
      /\ Snapshot = state
  BY <1>p, ExpectedAppends, SnapshotIsSequence DEF TypeOK, Envelope
<1>b. (state = env[c].base => ~InState(c)) /\ (state = Expected(c) => InState(c))
  BY <1>i, <1>f DEF Unseen, InState, PlannedOn
<1>j. \A d \in Changes \ {c} : InState(d) <=> PlannedOn(d, c)
  BY <1>p, <1>f DEF InState, PlannedOn
<1>k. /\ env[c].status = "pending" => state = env[c].base
      /\ onBase'[t] <=> state = env[c].base
  BY <1>i, <1>p, <1>b DEF Unseen, Confirmed, BeginConfirm, TypeOK
<1>g. PICK s \in {"request", "write", "complete"} :
        /\ Goto(t, s)
        /\ s = "request" <=> env[c].status = "pending"
        /\ s \in {"request", "write"} <=> state = env[c].base
  BY <1>k DEF BeginConfirm
<1>o. \A u \in Threads \ {t} : onBase'[u] = onBase[u]
  BY DEF BeginConfirm, TypeOK
<1>t. /\ \A u \in Threads : pc'[u] = IF u = t THEN s ELSE pc[u]
      /\ \A u \in Threads, d \in Changes : Working(u, d)' <=> IF u = t THEN d = c ELSE Working(u, d)
  BY <1>p, <1>g, RequestBegins DEF Steps
<1>e. /\ \A o, d \in Changes : PlannedOn(o, d)' <=> PlannedOn(o, d)
      /\ \A d \in Changes : Confirmed(d)' <=> Confirmed(d)
      /\ \A d \in Changes : env'[d].status = env[d].status
  BY <1>p, EnvelopesStay
<1>s. \A d \in Changes : InState(d)' <=> InState(d)
  BY <1>p, StateStays
<1>a. \A d \in Changes : (Asked(d)' <=> Asked(d)) /\ (Ended(d)' <=> Ended(d))
  BY <1>p DEF Asked, Ended
<1>l. \A u \in Threads, d \in Changes : Working(u, d) => Service(d) # Service(c)
  BY <1>p, LockFreeMeans
<1>n. \A u \in Threads : ~Working(u, c)
  BY <1>l
<1>u. \A d \in Changes : ~Working(t, d)
  BY <1>p DEF Working
<1>1. Audited'
  <2>1. env[c].status = "applying" => Asked(c)
    BY <1>i, <1>m DEF Audited
  <2>2. \A u \in Threads, d \in Proposals : Working(u, d)' =>
          (pc'[u] # "request" => Asked(d)') /\ (pc'[u] = "acknowledge" => Ended(d)')
    BY <1>i, <1>p, <1>g, <1>t, <1>a, <2>1 DEF Audited, Changes
  <2> QED
    BY <1>i, <1>e, <1>a, <1>s, <2>2 DEF Audited, Changes
<1>2. Exclusive'
  BY <1>i, <1>p, <1>t, <1>e, <1>l DEF Exclusive
<1>3. InPlace'
  <2>1. ProposalAt(t, c)'
    BY <1>p, <1>g, <1>k, <1>t, <1>e DEF ProposalAt
  <2>2. \A u \in Threads \ {t}, d \in Proposals : ProposalAt(u, d) => ProposalAt(u, d)'
    BY <1>t, <1>e, <1>o DEF ProposalAt, Changes
  <2>3. \A u \in Threads \ {t}, d \in Managed : ManagedAt(u, d) => ManagedAt(u, d)'
    BY <1>t, <1>e DEF ManagedAt, Changes
  <2> QED
    BY <1>i, <1>m, <1>t, <2>1, <2>2, <2>3 DEF InPlace, Changes
<1>4. Unseen'
  BY <1>i, <1>p, <1>e, <1>s DEF Unseen
<1>5. Agreement'
  <2> SUFFICES ASSUME NEW d \in Proposals, env'[d].status = "applying",
                      \A u \in Threads : Working(u, d)' => pc'[u] \notin {"complete", "acknowledge"} \/ ~onBase'[u],
                      NEW u \in Threads, NEW x \in Changes \ {d}, Working(u, x)'
               PROVE  PlannedOn(d, x)' <=> InState(d)'
    BY DEF Agreement
  <2>1. d \in Changes /\ env[d].status = "applying"
    BY <1>e DEF Changes
  <2>2. CASE u = t
    BY <1>e, <1>s, <1>t, <1>j, <2>1, <2>2
  <2>3. CASE u # t
    <3>1. \A w \in Threads : Working(w, d) => pc[w] \notin {"complete", "acknowledge"} \/ ~onBase[w]
      BY <1>t, <1>o, <1>u, <2>1
    <3> QED
      BY <1>i, <1>e, <1>s, <1>t, <2>1, <2>3, <3>1 DEF Agreement
  <2> QED
    BY <2>2, <2>3
<1>6. Fresher'
  BY <1>i, <1>b, <1>g, <1>s, <1>t DEF Fresher, Changes
<1>w. \A d \in Changes : Written(d)' => Written(d) \/ (d = c /\ s = "complete")
  BY <1>g, <1>e, <1>t DEF Written
<1>v. s = "complete" => InState(c)
  BY <1>p, <1>b, <1>g
<1>r. /\ \A d \in Changes : Excused(d) => Excused(d)'
      /\ \A o, d \in Changes : Spares(o, d) => Spares(o, d)'
  BY <1>e, ReasonsStay
<1>7. Lasting'
  BY <1>i, <1>s, <1>v, <1>w, <1>r DEF Lasting
<1>8. Sparing'
  <2> SUFFICES ASSUME NEW u \in Threads, NEW d \in Changes, Working(u, d)', pc'[u] \in Unwritten,
                      NEW x \in Changes \ {d}, Written(x)'
               PROVE  Spares(d, x)'
    BY DEF Sparing, Unwritten
  <2>1. CASE u = t
    <3>1. d = c /\ Written(x)
      BY <1>t, <1>w, <2>1
    <3>2. PlannedOn(x, d) \/ Excused(x)
      BY <1>i, <1>j, <3>1 DEF Lasting
    <3> QED
      BY <1>r, <3>2 DEF Spares
  <2>2. CASE u # t /\ Written(x)
    BY <1>i, <1>r, <1>t, <2>2 DEF Sparing, Unwritten
  <2>3. CASE u # t /\ ~Written(x)
    <3>1. x = c /\ InState(c) /\ Working(u, d)
      BY <1>t, <1>v, <1>w, <2>3
    <3>2. Service(d) # Service(x)
      BY <1>l, <3>1
    <3>3. CASE d \in Managed
      BY <1>r, <3>2, <3>3 DEF Spares
    <3>4. CASE d \in Proposals
      <4>1. pc[u] \in {"request", "mark", "write"}
        BY <1>i, <1>t, <2>3, <3>1, <3>4 DEF InPlace, ProposalAt, Unwritten
      <4>2. ~PlannedOn(d, x)
        BY <1>i, <1>j, <3>1, <3>4, <4>1 DEF Fresher
      <4> QED
        BY <1>r, <3>2, <4>2 DEF Spares
    <3> QED
      BY <3>3, <3>4 DEF Changes
  <2> QED
    BY <2>1, <2>2, <2>3
<1> QED
  BY <1>1, <1>2, <1>3, <1>4, <1>5, <1>6, <1>7, <1>8 DEF ServicesInv

LEMMA BeginApplySafe ==
  ASSUME TypeOK, ServicesInv, NEW t \in Threads, NEW c \in Changes, BeginApply(t, c)
  PROVE  ServicesInv'
<1>i. Audited /\ Exclusive /\ InPlace /\ Unseen /\ Agreement /\ Fresher /\ Lasting /\ Sparing
  BY DEF ServicesInv
<1>p. /\ ~Busy(t) /\ LockFree(c) /\ todo = {}
      /\ env[c].status \in {"pending", "verified", "unverified"}
      /\ state \in {env[c].base, Expected(c)}
      /\ Goto(t, "apply") /\ work' = [work EXCEPT ![t] = c]
      /\ UNCHANGED <<state, audit, onBase, todo>>
  BY DEF BeginApply, Serving, Accepts
<1>m. c \in Managed /\ c \notin Proposals
  BY ChangesAssumption DEF BeginApply
<1>f. /\ env[c].base \in Seq(Changes) /\ Expected(c) \in Seq(Changes)
      /\ Range(Expected(c)) = Range(env[c].base) \cup {c}
      /\ Snapshot = state
  BY <1>p, ExpectedAppends, SnapshotIsSequence DEF TypeOK, Envelope
<1>j. \A d \in Changes \ {c} : InState(d) <=> PlannedOn(d, c)
  BY <1>p, <1>f DEF InState, PlannedOn
<1>t. /\ \A u \in Threads : pc'[u] = IF u = t THEN "apply" ELSE pc[u]
      /\ \A u \in Threads, d \in Changes : Working(u, d)' <=> IF u = t THEN d = c ELSE Working(u, d)
  BY <1>p, RequestBegins DEF Steps
<1>e. /\ \A o, d \in Changes : PlannedOn(o, d)' <=> PlannedOn(o, d)
      /\ \A d \in Changes : Confirmed(d)' <=> d = c \/ Confirmed(d)
      /\ \A d \in Changes : env'[d].status = IF d = c THEN "verified" ELSE env[d].status
  BY StatusMovesOn DEF BeginApply, Statuses
<1>s. \A d \in Changes : InState(d)' <=> InState(d)
  BY <1>p, StateStays
<1>a. \A d \in Changes : (Asked(d)' <=> Asked(d)) /\ (Ended(d)' <=> Ended(d))
  BY <1>p DEF Asked, Ended
<1>l. \A u \in Threads, d \in Changes : Working(u, d) => Service(d) # Service(c)
  BY <1>p, LockFreeMeans
<1>n. \A u \in Threads : ~Working(u, c)
  BY <1>l
<1>u. \A d \in Changes : ~Working(t, d)
  BY <1>p DEF Working
<1>1. Audited'
  BY <1>i, <1>m, <1>t, <1>e, <1>a, <1>s DEF Audited, Changes
<1>2. Exclusive'
  BY <1>i, <1>p, <1>t, <1>e, <1>l DEF Exclusive
<1>3. InPlace'
  <2>1. ManagedAt(t, c)'
    BY <1>t, <1>e DEF ManagedAt
  <2>2. \A u \in Threads \ {t}, d \in Proposals : ProposalAt(u, d) => ProposalAt(u, d)'
    BY <1>p, <1>m, <1>t, <1>e DEF ProposalAt, Changes
  <2>3. \A u \in Threads \ {t}, d \in Managed \ {c} : ManagedAt(u, d) => ManagedAt(u, d)'
    BY <1>t, <1>e DEF ManagedAt, Changes
  <2> QED
    BY <1>i, <1>m, <1>n, <1>t, <2>1, <2>2, <2>3 DEF InPlace, Changes
<1>4. Unseen'
  <2>1. state # Unconfigured
    BY <1>i, <1>p DEF Unseen
  <2> QED
    BY <1>i, <1>p, <1>e, <1>s, <2>1 DEF Unseen
<1>5. Agreement'
  <2> SUFFICES ASSUME NEW d \in Proposals, env'[d].status = "applying",
                      \A u \in Threads : Working(u, d)' => pc'[u] \notin {"complete", "acknowledge"} \/ ~onBase'[u],
                      NEW u \in Threads, NEW x \in Changes \ {d}, Working(u, x)'
               PROVE  PlannedOn(d, x)' <=> InState(d)'
    BY DEF Agreement
  <2>1. d \in Changes /\ d # c /\ env[d].status = "applying"
    BY <1>m, <1>e DEF Changes
  <2>2. CASE u = t
    BY <1>e, <1>s, <1>t, <1>j, <2>1, <2>2
  <2>3. CASE u # t
    <3>1. \A w \in Threads : Working(w, d) => pc[w] \notin {"complete", "acknowledge"} \/ ~onBase[w]
      BY <1>p, <1>t, <1>u, <2>1
    <3> QED
      BY <1>i, <1>e, <1>s, <1>t, <2>1, <2>3, <3>1 DEF Agreement
  <2> QED
    BY <2>2, <2>3
<1>6. Fresher'
  BY <1>i, <1>m, <1>s, <1>t DEF Fresher, Changes
<1>7. Lasting' /\ Sparing'
  <2>1. \A d \in Changes : Written(d)' => Written(d)
    BY <1>e, <1>t DEF Written
  <2>2. \A u \in Threads, d \in Changes :
          Working(u, d)' /\ pc'[u] \in Unwritten => Working(u, d) /\ pc[u] \in Unwritten
    BY <1>t DEF Unwritten
  <2> QED
    BY <1>i, <1>e, <1>s, <2>1, <2>2, NothingWritten
<1> QED
  BY <1>1, <1>2, <1>3, <1>4, <1>5, <1>6, <1>7 DEF ServicesInv

LEMMA ServicesInit == Init => ServicesInv
<1> SUFFICES ASSUME Init PROVE ServicesInv
  OBVIOUS
<1>1. /\ \A c \in Changes : ~InState(c) /\ env[c].status = "none" /\ ~Confirmed(c)
      /\ \A c, d \in Changes : ~PlannedOn(c, d)
      /\ \A t \in Threads : ~Busy(t)
      /\ \A t \in Threads, c \in Changes : ~Working(t, c)
      /\ todo = {}
  BY RangeEmpty DEF Init, InState, Snapshot, PlannedOn, Confirmed, Busy, Working
<1>2. \A c \in Changes : ~Written(c)
  BY <1>1 DEF Written
<1>3. Audited
  BY <1>1 DEF Audited, Changes
<1>4. Exclusive /\ Unseen
  BY <1>1 DEF Exclusive, Unseen
<1>5. InPlace /\ Agreement /\ Fresher /\ Lasting /\ Sparing
  BY <1>1, <1>2 DEF InPlace, Agreement, Fresher, Lasting, Sparing, Changes
<1> QED
  BY <1>3, <1>4, <1>5 DEF ServicesInv

LEMMA ServicesStep == TypeOK /\ ServicesInv /\ [Next]_vars => ServicesInv'
<1> SUFFICES ASSUME TypeOK, ServicesInv, [Next]_vars PROVE ServicesInv'
  OBVIOUS
<1>1. CASE Bootstrap
  <2>1. \A c \in Changes : InState(c)' <=> InState(c)
    BY <1>1, ChangesAssumption DEF Bootstrap, InState, Snapshot
  <2>2. state' # Unconfigured
    <3>1. <<>> \in Seq(Changes)
      OBVIOUS
    <3> QED
      BY <1>1, <3>1, ChangesAssumption DEF Bootstrap
  <2> QED
    BY <1>1, <2>1, <2>2, QuietStepSafe DEF Bootstrap
<1>2. ASSUME NEW c \in Changes, RefuseStale(c) \/ Replay(c) PROVE ServicesInv'
  <2>1. UNCHANGED <<state, env, audit, local, todo>>
    BY <1>2 DEF RefuseStale, Replay, stored
  <2> QED
    BY <2>1, StateStays, QuietStepSafe
<1>3. CASE UNCHANGED vars
  <2>1. UNCHANGED <<state, env, audit, local, todo>>
    BY <1>3 DEF vars, local
  <2> QED
    BY <2>1, StateStays, QuietStepSafe
<1>4. ASSUME NEW c \in Changes, Plan(c) \/ Reverify(c) \/ RecoverOne(c) PROVE ServicesInv'
  BY <1>4, PlanSafe, ReverifySafe, RecoverOneSafe
<1>5. ASSUME NEW t \in Threads, NEW c \in Changes, BeginConfirm(t, c) \/ BeginApply(t, c)
      PROVE  ServicesInv'
  BY <1>5, BeginConfirmSafe, BeginApplySafe
<1>6. ASSUME NEW t \in Threads, ThreadStep(t) PROVE ServicesInv'
  BY <1>6, RequestAuditSafe, MarkApplyingSafe, WriteStateSafe, CompletionAuditSafe, MarkAppliedSafe,
     ReadCurrentSafe, ReadBackSafe, RollbackSafe, FinishManagedSafe, ReportManagedSafe DEF ThreadStep
<1>7. CASE Crash
  BY <1>7, CrashSafe
<1> QED
  BY <1>1, <1>2, <1>3, <1>4, <1>5, <1>6, <1>7 DEF Next

\* In every state the services, however they interleave and crash, keep their
\* requests in place, each lock to one request, and what was written in the
\* state or excused.
THEOREM ServicesInvariant == Spec => []ServicesInv
<1>1. Init => ServicesInv
  BY ServicesInit
<1>2. TypeOK /\ ServicesInv /\ [Next]_vars => ServicesInv'
  BY ServicesStep
<1> QED
  BY <1>1, <1>2, TypeCorrect, PTL DEF Spec

\* The audit trail leads the state: no change of a member or device is in the
\* snapshot before the trail says it was asked for, and none is acknowledged
\* before the trail says how it ended.
THEOREM AuditTheorem == Spec => []AuditLeadsState
<1>1. ServicesInv => AuditLeadsState
  BY DEF ServicesInv, Audited, AuditLeadsState, InState, Asked, Ended
<1> QED
  BY <1>1, ServicesInvariant, PTL

\* A service never loses a change it acknowledged, and a proposal nothing that
\* was planned behind it: a loss needs another service, confirmed beside it or
\* rolled back under it.
THEOREM LossTheorem == Spec => []LossNeedsAnotherService
<1>1. ServicesInv => LossNeedsAnotherService
  <2> SUFFICES ASSUME ServicesInv, NEW c \in Changes, env[c].status = "applied",
                      c \notin Range(Snapshot)
               PROVE  \E o \in Changes :
                        /\ Service(o) # Service(c)
                        /\ env[o].status \notin {"none", "pending"}
                        /\ c \notin Range(env[o].base)
                        /\ o \in Range(env[c].base) => o \in Managed
    BY DEF LossNeedsAnotherService
  <2>1. Excused(c)
    BY DEF ServicesInv, Lasting, Written, InState
  <2> QED
    BY <2>1 DEF Excused, Beside, Confirmed, PlannedOn
<1> QED
  BY <1>1, ServicesInvariant, PTL

-----------------------------------------------------------------------------
(* The policy of a member: HouseholdPolicy and PolicyVerification.         *)

\* Every stored plan was legal when it was made: a policy within the role, or
\* parental rules that fit a base which has been in force.
PlansSound ==
  /\ DOMAIN plans = Lanes
  /\ \A l \in Lanes : \A p \in DOMAIN plans[l] :
       /\ plans[l][p] \in {"planned", "committed"}
       /\ p.observed \in Nat /\ p.observed < MaxGeneration[l]
  /\ \A p \in DOMAIN plans["policy"] : p \in PolicyPlans /\ p.content \in Composable
  /\ \A p \in DOMAIN plans["parental"] :
       /\ p.content \in RuleSets
       /\ WellFormedRules(p.base.desired.content, p.content)
       /\ p.base.desired.content \in wasInForce

\* A desired state is what a stored plan asked for.
DesiredSound ==
  /\ DOMAIN desired = Lanes
  /\ \A l \in Lanes : desired[l] # Nothing =>
       /\ desired[l].plan \in DOMAIN plans[l]
       /\ desired[l].content = desired[l].plan.content
       /\ desired[l].generation = desired[l].plan.observed + 1
  /\ Policy # Nothing => Policy \in DesiredPolicies
  /\ Policy # Nothing /\ Policy.verified => Policy.content \in wasInForce

\* A confirmation about to write still has the desired state it was checked
\* against, or has met what it wants.
CommitSound ==
  /\ DOMAIN commit = Lanes
  /\ \A l \in Lanes : commit[l] # Nothing =>
       /\ DOMAIN commit[l] = {"plan", "read", "at"}
       /\ commit[l].plan \in DOMAIN plans[l]
       /\ commit[l].at = "write" /\ commit[l].read # Wanted(commit[l].plan) =>
            Fresh(l, commit[l].plan)

\* A plan that may still be handed to the backend has not been before.
EnforceSound ==
  /\ DOMAIN eplans \subseteq DesiredPolicies
  /\ \A d \in DOMAIN eplans : d.content \in Composable
  /\ DOMAIN invoked \subseteq DOMAIN ejobs /\ DOMAIN ejobs \subseteq DOMAIN eplans
  /\ \A d \in DOMAIN invoked : invoked[d] = 1
  /\ enforce # Nothing =>
       /\ DOMAIN enforce = {"plan", "at", "answer"}
       /\ enforce.plan \in DOMAIN ejobs
       /\ enforce.at \in {"mark", "apply"} => enforce.plan \notin DOMAIN invoked

BackendSound ==
  /\ late \subseteq Bundles /\ wasInForce \subseteq Bundles
  /\ backend \in wasInForce \cup {Nothing}

\* A request in the store.
Bound(n) ==
  /\ n \in Numbers
  /\ requests[n] \in RequestRecords
  /\ requests[n].verdict = "verified" => requests[n].desired.content \in wasInForce

\* Evidence that a policy is in force rests on a reading that found it there,
\* and is written once.
ReconcileSound ==
  /\ DOMAIN requests = Numbers
  /\ \A n \in Numbers : requests[n] # Nothing => Bound(n)
  /\ reconcile # Nothing =>
       /\ DOMAIN reconcile = {"request", "at", "reading"}
       /\ Bound(reconcile.request)
       /\ reconcile.at \in {"read", "judge"} => requests[reconcile.request].verdict = Nothing
       /\ reconcile.at = "judge" =>
            /\ reconcile.reading \in Readings
            /\ reconcile.reading.age = "current" /\ reconcile.reading.state = "enforced" =>
                 reconcile.reading.policy \in wasInForce \cup {Nothing}
  /\ recover # Nothing =>
       /\ DOMAIN recover = {"request", "good", "at"}
       /\ Bound(recover.request)

ProjectSound ==
  /\ verified # Nothing => verified.desired.content \in wasInForce
  /\ project # Nothing =>
       /\ DOMAIN project = {"request", "at"}
       /\ Bound(project.request)
       /\ requests[project.request].verdict = "verified"

PromoteSound ==
  promote # Nothing =>
    /\ DOMAIN promote = {"request", "read", "at"}
    /\ promote.read \in DesiredPolicies /\ promote.read.content \in wasInForce

ReadSound ==
  read # Nothing =>
    /\ DOMAIN read = {"desired", "told"}
    /\ read.told = "verified" => read.desired.content \in wasInForce

PolicyInv ==
  /\ household \in 0 .. MaxHousehold
  /\ PlansSound /\ DesiredSound /\ CommitSound
  /\ EnforceSound /\ BackendSound
  /\ ReconcileSound /\ ProjectSound /\ PromoteSound /\ ReadSound

\* The steps of a call, by the services that take them.
LaneStep(l) ==
  \/ \E c \in Contents(l) : PlanChange(l, c)
  \/ \E p \in DOMAIN plans[l] : Confirm(l, p)
  \/ Write(l) \/ Verify(l) \/ Finish(l) \/ Close(l)

EnforceStep ==
  \/ PlanEnforcement(Policy)
  \/ \E d \in DOMAIN eplans : ConfirmEnforcement(d) \/ Execute(d)
  \/ Mark \/ Store \/ EndExecution

BackendStep ==
  \/ \E p \in late : TakeEffect(p)
  \/ Reset

ProjectStep ==
  \/ \E n \in Numbers : Project(n)
  \/ ProjectWrite \/ ProjectMark \/ ProjectFinish \/ ProjectClose

PromoteStep ==
  \/ \E n \in Numbers : Promote(n)
  \/ Swap \/ PromoteFinish

LEMMA PolicySteps ==
  ASSUME VerificationNext
  PROVE  \/ \E l \in Lanes : LaneStep(l) /\ UNCHANGED <<reconcileVars, projectVars, promoteVars, read>>
         \/ ChangeHousehold /\ UNCHANGED <<reconcileVars, projectVars, promoteVars, read>>
         \/ EnforceStep /\ UNCHANGED <<reconcileVars, projectVars, promoteVars, read>>
         \/ \E a \in Answers :
              Apply(a) /\ UNCHANGED <<reconcileVars, projectVars, promoteVars, read>>
         \/ BackendStep /\ UNCHANGED <<reconcileVars, projectVars, promoteVars, read>>
         \/ Reconciliation
         \/ ProjectStep
         \/ PromoteStep
         \/ ReadDesired \/ ReadVerified \/ EndRead
         \/ Restart
BY DEF VerificationNext, Call, PolicyNext, Transition, LaneStep, EnforceStep, BackendStep,
       ProjectStep, PromoteStep, Policy

\* A part of the invariant holds on as long as its own variables stand, since
\* what has been in force stays so.
LEMMA PolicyKept ==
  ASSUME PolicyInv, wasInForce \subseteq wasInForce'
  PROVE  /\ UNCHANGED plans => PlansSound'
         /\ UNCHANGED <<plans, desired>> => DesiredSound'
         /\ UNCHANGED <<desired, commit>> /\ (\A l \in Lanes : DOMAIN plans[l] \subseteq DOMAIN plans'[l]) =>
              CommitSound'
         /\ UNCHANGED enforceVars => EnforceSound'
         /\ UNCHANGED backendVars => BackendSound'
         /\ UNCHANGED <<requests, reconcile, recover>> => ReconcileSound'
         /\ UNCHANGED <<requests, verified, project>> => ProjectSound'
         /\ UNCHANGED promote => PromoteSound'
         /\ UNCHANGED read => ReadSound'
<1> USE DEF PolicyInv
<1>1. UNCHANGED plans => PlansSound'
  BY DEF PlansSound
<1>2. UNCHANGED <<plans, desired>> => DesiredSound'
  BY DEF DesiredSound, Policy
<1>3. UNCHANGED <<desired, commit>> /\ (\A l \in Lanes : DOMAIN plans[l] \subseteq DOMAIN plans'[l]) =>
        CommitSound'
  BY DEF CommitSound, Fresh
<1>4. UNCHANGED enforceVars => EnforceSound'
  BY DEF EnforceSound, enforceVars
<1>5. UNCHANGED backendVars => BackendSound'
  BY DEF BackendSound, backendVars
<1>6. UNCHANGED <<requests, reconcile, recover>> => ReconcileSound'
  BY DEF ReconcileSound, Bound
<1>7. UNCHANGED <<requests, verified, project>> => ProjectSound'
  BY DEF ProjectSound, Bound
<1>8. UNCHANGED promote => PromoteSound'
  BY DEF PromoteSound
<1>9. UNCHANGED read => ReadSound'
  BY DEF ReadSound
<1> QED
  BY <1>1, <1>2, <1>3, <1>4, <1>5, <1>6, <1>7, <1>8, <1>9

\* What a role may be given is a policy; a child's leaves no way around rules.
LEMMA ComposableFacts ==
  ASSUME NEW b \in Composable
  PROVE  b \in Policies /\ b \in Bundles /\ (Role = "child" => BaseFits(b))
<1>1. b \in Policies /\ b \in Bundles /\ ~Escalates(Role, b)
  BY DEF Composable, Composed
<1>2. ASSUME Role = "child" PROVE BaseFits(b)
  <2>1. Preset["child"] = [internet |-> "filtered", granted |-> {"files"}, managed |-> TRUE]
    BY DEF Preset
  <2>2. Strictness["filtered"] = 1 /\ Strictness["full"] = 0
    BY DEF Strictness
  <2>3. b.internet # "full" /\ b.granted \subseteq {"files"} /\ b.managed
    BY <1>1, <1>2, <2>1, <2>2 DEF Escalates, Policies
  <2> QED
    BY <1>2, <2>3 DEF BaseFits
<1> QED
  BY <1>1, <1>2

LEMMA GenerationFacts ==
  ASSUME DesiredSound, PlansSound, NEW l \in Lanes
  PROVE  Generation(desired[l]) \in 0 .. MaxGeneration[l] /\ Generation(desired[l]) \in Nat
<1>1. MaxGeneration[l] \in Nat
  BY BoundsAssumption
<1> QED
  BY <1>1 DEF DesiredSound, PlansSound, Generation

\* What a plan of the policy lane asks for is a desired state.
LEMMA WantedFacts ==
  ASSUME NEW p \in PolicyPlans
  PROVE  Wanted(p) \in DesiredPolicies /\ Wanted(p) # Nothing /\ ~Wanted(p).verified
<1>1. Wanted(p) \in DesiredPolicies
  BY DEF Wanted, DesiredPolicies, PolicyPlans
<1> QED
  BY <1>1, NothingAssumption DEF Wanted

\* Raising the flag changes nothing else.
LEMMA FlaggedFacts ==
  ASSUME NEW d \in DesiredPolicies
  PROVE  /\ Flagged(d) \in DesiredPolicies /\ Flagged(d) # Nothing
         /\ Flagged(d).generation = d.generation /\ Flagged(d).plan = d.plan
         /\ Flagged(d).content = d.content /\ Flagged(d).verified
<1>1. Flagged(d) \in DesiredPolicies
  BY DEF Flagged, DesiredPolicies
<1> QED
  BY <1>1, NothingAssumption DEF Flagged, DesiredPolicies
\* A plan is legal when it is made.
LEMMA PlanIsSound ==
  ASSUME PolicyInv, NEW l \in Lanes, NEW c \in Contents(l), PlanChange(l, c)
  PROVE  LET p == PlanOf(l, c) IN
         /\ p.observed \in Nat /\ p.observed < MaxGeneration[l]
         /\ l = "policy" => p \in PolicyPlans /\ p.content \in Composable
         /\ l = "parental" =>
              /\ p.content \in RuleSets
              /\ WellFormedRules(p.base.desired.content, p.content)
              /\ p.base.desired.content \in wasInForce
<1> DEFINE p == PlanOf(l, c)
<1> USE DEF PolicyInv
<1>1. p.observed \in Nat /\ p.observed < MaxGeneration[l]
  BY GenerationFacts DEF PlanOf, PlanChange
<1>2. ASSUME l = "policy" PROVE p \in PolicyPlans /\ p.content \in Composable
  <2>1. household \in Nat
    BY BoundsAssumption
  <2>2. c \in Composable
    BY <1>2 DEF PlanChange, Legal
  <2>3. Preset[Role] \in Policies
    <3>1. /\ Preset["parent"] = [internet |-> "full", granted |-> Capabilities, managed |-> FALSE]
          /\ Preset["child"] = [internet |-> "filtered", granted |-> {"files"}, managed |-> TRUE]
          /\ Preset["guest"] = [internet |-> "guest", granted |-> {}, managed |-> FALSE]
      BY DEF Preset
    <3>2. "files" \in Capabilities /\ {"full", "filtered", "guest"} \subseteq Internet
      BY DEF Capabilities, Internet
    <3>3. /\ Preset["parent"] \in Policies
          /\ Preset["child"] \in Policies
          /\ Preset["guest"] \in Policies
      BY <3>1, <3>2 DEF Policies
    <3> QED
      BY <3>3, RoleAssumption DEF Roles
  <2>4. Current(l, desired[l]) \in Policies
    BY <1>2, <2>3 DEF Current, DesiredSound, DesiredPolicies, Policy
  <2>5. p.observed \in Nat
    BY <1>1
  <2>6. p = [household |-> household, base |-> Nothing, observed |-> Generation(desired[l]),
             current |-> Current(l, desired[l]), content |-> c]
    BY <1>2 DEF PlanOf
  <2> QED
    BY <2>1, <2>2, <2>4, <2>5, <2>6, ComposableFacts DEF PolicyPlans
<1>3. ASSUME l = "parental"
      PROVE  /\ p.content \in RuleSets
             /\ WellFormedRules(p.base.desired.content, p.content)
             /\ p.base.desired.content \in wasInForce
  <2>1. p.content = c /\ p.base = verified
    BY <1>3 DEF PlanOf
  <2>2. c \in RuleSets
    BY <1>3 DEF Contents
  <2>3. WellFormedRules(verified.desired.content, c) /\ verified # Nothing
    BY <1>3 DEF PlanChange, Legal, CurrentBase
  <2> QED
    BY <2>1, <2>2, <2>3 DEF ProjectSound
<1> QED
  BY <1>1, <1>2, <1>3

LEMMA LaneKeepsPlans ==
  ASSUME PolicyInv, NEW l \in Lanes, LaneStep(l)
  PROVE  /\ PlansSound'
         /\ \A m \in Lanes : DOMAIN plans[m] \subseteq DOMAIN plans'[m]
<1> USE DEF PolicyInv
<1>1. ASSUME NEW c \in Contents(l), PlanChange(l, c)
      PROVE  PlansSound' /\ \A m \in Lanes : DOMAIN plans[m] \subseteq DOMAIN plans'[m]
  <2> DEFINE p == PlanOf(l, c)
  <2>1. plans' = [plans EXCEPT ![l] = Put(plans[l], p, "planned")] /\ wasInForce' = wasInForce
    BY <1>1 DEF PlanChange, backendVars
  <2>2. /\ DOMAIN plans' = Lanes
        /\ DOMAIN plans'[l] = DOMAIN plans[l] \cup {p}
        /\ \A q \in DOMAIN plans'[l] : plans'[l][q] = IF q = p THEN "planned" ELSE plans[l][q]
        /\ \A m \in Lanes \ {l} : plans'[m] = plans[m]
    <3> DEFINE f == Put(plans[l], p, "planned")
    <3> HIDE DEF p
    <3>1. /\ DOMAIN f = DOMAIN plans[l] \cup {p}
          /\ \A q \in DOMAIN f : f[q] = IF q = p THEN "planned" ELSE plans[l][q]
      BY DEF Put
    <3>2. plans' = [plans EXCEPT ![l] = f]
      BY <2>1
    <3> HIDE DEF f
    <3> QED
      BY <3>1, <3>2 DEF PlansSound
  <2>3. /\ p.observed \in Nat /\ p.observed < MaxGeneration[l]
        /\ l = "policy" => p \in PolicyPlans /\ p.content \in Composable
        /\ l = "parental" =>
             /\ p.content \in RuleSets
             /\ WellFormedRules(p.base.desired.content, p.content)
             /\ p.base.desired.content \in wasInForce
    BY <1>1, PlanIsSound
  <2> HIDE DEF p
  <2> QED
    BY <2>1, <2>2, <2>3 DEF PlansSound, Lanes
<1>2. ASSUME Close(l)
      PROVE  PlansSound' /\ \A m \in Lanes : DOMAIN plans[m] \subseteq DOMAIN plans'[m]
  <2>1. plans' = [plans EXCEPT ![l][commit[l].plan] = "committed"] /\ wasInForce' = wasInForce
    BY <1>2 DEF Close, backendVars
  <2>2. /\ DOMAIN plans' = Lanes
        /\ \A m \in Lanes : DOMAIN plans'[m] = DOMAIN plans[m]
        /\ \A m \in Lanes : \A q \in DOMAIN plans[m] : plans'[m][q] \in {plans[m][q], "committed"}
    BY <2>1 DEF PlansSound
  <2> QED
    BY <2>1, <2>2 DEF PlansSound, Lanes
<1>3. ASSUME UNCHANGED plans, wasInForce' = wasInForce
      PROVE  PlansSound' /\ \A m \in Lanes : DOMAIN plans[m] \subseteq DOMAIN plans'[m]
  BY <1>3 DEF PlansSound
<1>4. ASSUME NEW p \in DOMAIN plans[l], Confirm(l, p)
      PROVE  UNCHANGED plans /\ wasInForce' = wasInForce
  BY <1>4 DEF Confirm, backendVars
<1>5. ASSUME Write(l) \/ Verify(l) \/ Finish(l)
      PROVE  UNCHANGED plans /\ wasInForce' = wasInForce
  BY <1>5 DEF Write, Verify, Finish, backendVars
<1> QED
  BY <1>1, <1>2, <1>3, <1>4, <1>5 DEF LaneStep

LEMMA LaneKeepsCommit ==
  ASSUME PolicyInv, NEW l \in Lanes, LaneStep(l)
  PROVE  DesiredSound' /\ CommitSound'
<1> USE DEF PolicyInv
<1>g. \A m \in Lanes : DOMAIN plans[m] \subseteq DOMAIN plans'[m]
  BY LaneKeepsPlans
<1>w. wasInForce' = wasInForce
  BY DEF LaneStep, PlanChange, Confirm, Write, Verify, Finish, Close, backendVars
<1>d. UNCHANGED desired => DesiredSound'
  BY <1>g, <1>w DEF DesiredSound, Policy
<1>1. ASSUME NEW c \in Contents(l), PlanChange(l, c) PROVE DesiredSound' /\ CommitSound'
  <2>1. UNCHANGED <<desired, commit>>
    BY <1>1 DEF PlanChange
  <2> QED
    BY <1>g, <1>w, <2>1, <1>d, PolicyKept
<1>2. ASSUME NEW p \in DOMAIN plans[l], Confirm(l, p) PROVE DesiredSound' /\ CommitSound'
  <2>1. PICK step \in {"write", "finish"} :
          commit' = [commit EXCEPT ![l] = [plan |-> p, read |-> desired[l], at |-> step]]
    BY <1>2 DEF Confirm
  <2>2. UNCHANGED <<desired, plans>>
    BY <1>2 DEF Confirm
  <2>3. desired[l] # Wanted(p) => Fresh(l, p)
    BY <1>2 DEF Confirm, Interrupted
  <2>4. /\ DOMAIN commit' = Lanes
        /\ commit'[l] = [plan |-> p, read |-> desired[l], at |-> step]
        /\ \A m \in Lanes \ {l} : commit'[m] = commit[m]
    BY <2>1 DEF CommitSound
  <2>5. CommitSound'
    BY <2>2, <2>3, <2>4 DEF CommitSound, Fresh
  <2> QED
    BY <2>2, <2>5, <1>d
<1>3. ASSUME Write(l) PROVE DesiredSound' /\ CommitSound'
  <2> DEFINE p == commit[l].plan
  <2>1. /\ UNCHANGED plans
        /\ commit[l] # Nothing /\ commit[l].at = "write"
        /\ desired' = [desired EXCEPT ![l] = IF commit[l].read = Wanted(p) THEN @ ELSE Wanted(p)]
        /\ commit' = [commit EXCEPT ![l].at = "verify"]
    BY <1>3 DEF Write
  <2>2. p \in DOMAIN plans[l]
    BY <2>1 DEF CommitSound
  <2>3. /\ DOMAIN desired' = Lanes
        /\ desired'[l] \in {desired[l], Wanted(p)}
        /\ \A m \in Lanes \ {l} : desired'[m] = desired[m]
    BY <2>1 DEF DesiredSound
  <2>4. /\ DOMAIN commit' = Lanes
        /\ DOMAIN commit'[l] = {"plan", "read", "at"}
        /\ commit'[l].plan = p /\ commit'[l].at = "verify"
        /\ \A m \in Lanes \ {l} : commit'[m] = commit[m]
    BY <2>1 DEF CommitSound
  <2>5. CommitSound'
    BY <2>1, <2>2, <2>3, <2>4 DEF CommitSound, Fresh
  <2>6. Wanted(p).plan = p /\ Wanted(p).content = p.content /\ Wanted(p).generation = p.observed + 1
    BY DEF Wanted
  <2>7. l = "policy" => Wanted(p) \in DesiredPolicies /\ ~Wanted(p).verified
    BY <2>2, WantedFacts DEF PlansSound
  <2> HIDE DEF p
  <2>8. DesiredSound'
    BY <1>w, <2>1, <2>2, <2>3, <2>6, <2>7 DEF DesiredSound, Policy, Lanes
  <2> QED
    BY <2>5, <2>8
<1>4. ASSUME Verify(l) PROVE DesiredSound' /\ CommitSound'
  <2>1. UNCHANGED <<desired, plans>> /\ commit[l] # Nothing /\ commit' = [commit EXCEPT ![l].at = "finish"]
    BY <1>4 DEF Verify
  <2>2. /\ DOMAIN commit' = Lanes
        /\ DOMAIN commit'[l] = {"plan", "read", "at"}
        /\ commit'[l].plan = commit[l].plan /\ commit'[l].at = "finish"
        /\ \A m \in Lanes \ {l} : commit'[m] = commit[m]
    BY <2>1 DEF CommitSound
  <2>3. CommitSound'
    BY <2>1, <2>2 DEF CommitSound, Fresh
  <2> QED
    BY <2>1, <2>3, <1>d
<1>5. ASSUME Finish(l) \/ Close(l) PROVE DesiredSound' /\ CommitSound'
  <2>1. /\ UNCHANGED desired /\ commit[l] # Nothing
        /\ \/ commit' = [commit EXCEPT ![l] = [commit[l] EXCEPT !.at = "close"]]
           \/ commit' = [commit EXCEPT ![l] = Nothing]
    BY <1>5 DEF Finish, Close
  <2>2. /\ DOMAIN commit' = Lanes
        /\ \A m \in Lanes \ {l} : commit'[m] = commit[m]
        /\ commit'[l] # Nothing =>
             /\ DOMAIN commit'[l] = {"plan", "read", "at"}
             /\ commit'[l].plan = commit[l].plan /\ commit'[l].at = "close"
    BY <2>1 DEF CommitSound
  <2>3. CommitSound'
    BY <1>g, <2>1, <2>2 DEF CommitSound, Fresh
  <2> QED
    BY <2>1, <2>3, <1>d
<1> QED
  BY <1>1, <1>2, <1>3, <1>4, <1>5 DEF LaneStep

LEMMA EnforceKeeps ==
  ASSUME PolicyInv, EnforceStep
  PROVE  EnforceSound' /\ UNCHANGED <<desiredVars, verified, backendVars>>
<1> USE DEF PolicyInv
<1>1. ASSUME PlanEnforcement(Policy) PROVE EnforceSound'
  <2>1. /\ Policy # Nothing /\ UNCHANGED <<ejobs, enforce, invoked>>
        /\ DOMAIN eplans' = DOMAIN eplans \cup {Policy}
    BY <1>1 DEF PlanEnforcement, Enforceable, Put
  <2>2. Policy \in DesiredPolicies /\ Policy.content \in Composable
    BY <2>1 DEF DesiredSound, PlansSound, Policy, Lanes
  <2> QED
    BY <2>1, <2>2 DEF EnforceSound
<1>2. ASSUME NEW d \in DOMAIN eplans, ConfirmEnforcement(d) PROVE EnforceSound'
  <2>1. UNCHANGED <<ejobs, enforce, invoked>> /\ DOMAIN eplans' = DOMAIN eplans
    BY <1>2 DEF ConfirmEnforcement
  <2> QED
    BY <2>1 DEF EnforceSound
<1>3. ASSUME NEW d \in DOMAIN eplans, Execute(d) PROVE EnforceSound'
  <2>1. /\ UNCHANGED <<eplans, invoked>> /\ d \notin DOMAIN ejobs
        /\ DOMAIN ejobs' = DOMAIN ejobs \cup {d}
        /\ enforce' = [plan |-> d, at |-> "mark", answer |-> Nothing]
    BY <1>3 DEF Execute, Put
  <2> QED
    BY <2>1 DEF EnforceSound
<1>4. ASSUME Mark PROVE EnforceSound'
  <2>1. /\ UNCHANGED <<ejobs, invoked>> /\ enforce # Nothing /\ enforce.at = "mark"
        /\ DOMAIN eplans' = DOMAIN eplans
        /\ enforce' = [enforce EXCEPT !.at = "apply"]
    BY <1>4 DEF Mark
  <2>2. /\ DOMAIN enforce' = {"plan", "at", "answer"}
        /\ enforce'.plan = enforce.plan
    BY <2>1 DEF EnforceSound
  <2> QED
    BY <2>1, <2>2 DEF EnforceSound
<1>5. ASSUME Store PROVE EnforceSound'
  <2>1. /\ UNCHANGED <<ejobs, invoked>> /\ enforce # Nothing
        /\ DOMAIN eplans' = DOMAIN eplans
        /\ enforce' = [enforce EXCEPT !.at = "job"]
    BY <1>5 DEF Store
  <2>2. /\ DOMAIN enforce' = {"plan", "at", "answer"}
        /\ enforce'.plan = enforce.plan /\ enforce'.at = "job"
    BY <2>1 DEF EnforceSound
  <2> QED
    BY <2>1, <2>2 DEF EnforceSound
<1>6. ASSUME EndExecution PROVE EnforceSound'
  <2>1. UNCHANGED <<eplans, invoked>> /\ DOMAIN ejobs' = DOMAIN ejobs /\ enforce' = Nothing
    BY <1>6 DEF EndExecution
  <2> QED
    BY <2>1 DEF EnforceSound
<1>7. UNCHANGED <<desiredVars, verified, backendVars>>
  BY DEF EnforceStep, PlanEnforcement, ConfirmEnforcement, Execute, Mark, Store, EndExecution
<1> QED
  BY <1>1, <1>2, <1>3, <1>4, <1>5, <1>6, <1>7 DEF EnforceStep

\* The one place the backend is asked: the plan was not handed to it before.
LEMMA ApplyKeeps ==
  ASSUME PolicyInv, NEW a \in Answers, Apply(a)
  PROVE  /\ EnforceSound' /\ BackendSound' /\ wasInForce \subseteq wasInForce'
         /\ UNCHANGED <<desiredVars, verified>>
<1> USE DEF PolicyInv
<1> DEFINE p == enforce.plan
<1>1. /\ enforce # Nothing /\ enforce.at = "apply" /\ UNCHANGED <<eplans, ejobs>>
      /\ enforce' = [enforce EXCEPT !.at = "store", !.answer = a]
  BY DEF Apply
<1>2. p \notin DOMAIN invoked /\ p \in DOMAIN ejobs /\ p.content \in Composable
  BY <1>1 DEF EnforceSound
<1>3. DOMAIN invoked' = DOMAIN invoked \cup {p} /\ \A d \in DOMAIN invoked' : invoked'[d] = 1
  <2>1. invoked' = Put(invoked, p, 1)
    BY <1>2 DEF Apply
  <2> QED
    BY <1>2, <2>1 DEF Put, EnforceSound
<1>4. DOMAIN enforce' = {"plan", "at", "answer"} /\ enforce'.plan = p /\ enforce'.at = "store"
  BY <1>1 DEF EnforceSound
<1>5. EnforceSound'
  BY <1>1, <1>2, <1>3, <1>4 DEF EnforceSound
<1>6. p.content \in Bundles
  BY <1>2, ComposableFacts
<1>7. BackendSound' /\ wasInForce \subseteq wasInForce'
  BY <1>6 DEF BackendSound, Apply, backendVars
<1> QED
  BY <1>5, <1>7 DEF Apply

LEMMA BackendKeeps ==
  ASSUME PolicyInv, BackendStep
  PROVE  /\ BackendSound' /\ wasInForce \subseteq wasInForce'
         /\ UNCHANGED <<desiredVars, verified, enforceVars>>
BY DEF PolicyInv, BackendStep, TakeEffect, Reset, BackendSound

\* A change of status leaves what a request binds and proves.
LEMMA StatusKeepsRequests ==
  ASSUME ReconcileSound, NEW n, Bound(n), NEW s \in RequestStatuses,
         requests' = [requests EXCEPT ![n].status = s], wasInForce' = wasInForce
  PROVE  /\ DOMAIN requests' = Numbers
         /\ \A m \in Numbers : Bound(m) => Bound(m)'
         /\ \A m \in Numbers : requests'[m] # Nothing => Bound(m)'
         /\ \A m \in Numbers : Bound(m) => requests'[m].verdict = requests[m].verdict
<1>1. /\ DOMAIN requests' = Numbers /\ n \in Numbers
      /\ requests'[n] = [requests[n] EXCEPT !.status = s]
      /\ \A m \in Numbers \ {n} : requests'[m] = requests[m]
  BY DEF ReconcileSound, Bound
<1>2. /\ requests'[n] \in RequestRecords
      /\ requests'[n].desired = requests[n].desired
      /\ requests'[n].verdict = requests[n].verdict
  BY <1>1 DEF Bound, RequestRecords
<1>3. \A m \in Numbers : Bound(m) => Bound(m)'
  BY <1>1, <1>2 DEF Bound
<1>4. \A m \in Numbers : Bound(m) => requests'[m].verdict = requests[m].verdict
  BY <1>1, <1>2
<1>5. \A m \in Numbers : requests'[m] # Nothing => Bound(m)'
  BY <1>1, <1>3 DEF ReconcileSound
<1> QED
  BY <1>1, <1>3, <1>4, <1>5

\* A judgement: evidence that a policy is in force names one that was read there.
LEMMA JudgeKeepsRequests ==
  ASSUME ReconcileSound, NEW n \in Numbers, Judge, n = reconcile.request,
         Policy = requests[n].desired, Acceptable(reconcile.reading)
  PROVE  /\ wasInForce' = wasInForce
         /\ DOMAIN requests' = Numbers
         /\ \A m \in Numbers : Bound(m) => Bound(m)'
         /\ \A m \in Numbers : requests'[m] # Nothing => Bound(m)'
         /\ \A m \in Numbers \ {n} : requests'[m] = requests[m]
         /\ requests'[n].verdict # Nothing
<1> DEFINE v == Verdict(requests[n].desired.content, reconcile.reading)
<1>1. /\ reconcile # Nothing /\ reconcile.at = "judge"
      /\ requests' = [requests EXCEPT ![n].status = "evidence-persisted", ![n].verdict = v]
      /\ wasInForce' = wasInForce
  BY DEF Judge, KeepReconcile, policyVars, backendVars
<1>2. Bound(n) /\ reconcile.reading \in Readings
  BY <1>1 DEF ReconcileSound
<1> HIDE DEF v
<1>3. /\ DOMAIN requests' = Numbers
      /\ \A m \in Numbers \ {n} : requests'[m] = requests[m]
      /\ requests'[n] = [requests[n] EXCEPT !.status = "evidence-persisted", !.verdict = v]
  BY <1>1, <1>2 DEF ReconcileSound, Bound
<1>r. reconcile.reading.state \in {"enforced", "not-enforced", "unknown"}
  BY <1>2 DEF Readings
<1>v. v \in Verdicts
  BY <1>r DEF v, Verdict, Verdicts
<1>d. /\ requests'[n] \in RequestRecords
      /\ requests'[n].desired = requests[n].desired
      /\ requests'[n].verdict = v
  BY <1>2, <1>3, <1>v DEF Bound, RequestRecords, RequestStatuses
<1>4. ASSUME v = "verified" PROVE requests[n].desired.content \in wasInForce
  <2>2. reconcile.reading.state = "enforced" /\ reconcile.reading.policy = requests[n].desired.content
    BY <1>4, <1>r DEF v, Verdict
  <2>3. requests[n].desired.content \in Policies
    BY <1>2 DEF Bound, DesiredPolicies, RequestRecords
  <2>4. requests[n].desired.content # Nothing
    BY <2>3, NothingAssumption
  <2> QED
    BY <1>1, <2>2, <2>4 DEF ReconcileSound, Acceptable
<1>5. Bound(n)'
  BY <1>1, <1>2, <1>d, <1>4 DEF Bound
<1>6. \A m \in Numbers : Bound(m) => Bound(m)'
  BY <1>1, <1>3, <1>5 DEF Bound
<1>7. \A m \in Numbers : requests'[m] # Nothing => Bound(m)'
  BY <1>3, <1>5, <1>6 DEF ReconcileSound
<1>8. requests'[n].verdict # Nothing
  BY <1>d, <1>v, RequestAssumption
<1> QED
  BY <1>1, <1>3, <1>6, <1>7, <1>8

\* A step of a reconciliation or of its recovery.
LEMMA ReconciliationKeeps ==
  ASSUME PolicyInv, Reconciliation
  PROVE  ReconcileSound' /\ ProjectSound' /\ UNCHANGED <<policyVars, projectVars, promoteVars, read>>
<1> USE DEF PolicyInv
<1>0. UNCHANGED <<policyVars, projectVars, promoteVars, read>>
  BY DEF Reconciliation, Request, Recover, ReadBackend, ReadFails, FailRequest, Judge, EndRequestJob,
         CloseRequest, RecoverJob, RecoverClose, KeepReconcile, KeepRecover
<1>w. wasInForce' = wasInForce /\ backend' = backend /\ UNCHANGED <<verified, project>>
  BY <1>0 DEF policyVars, backendVars, projectVars
\* What a step has to leave as it is.
<1> DEFINE Kept ==
      /\ DOMAIN requests' = Numbers
      /\ \A m \in Numbers : Bound(m) => Bound(m)'
      /\ \A m \in Numbers : requests'[m] # Nothing => Bound(m)'
      /\ \A m \in Numbers : Bound(m) /\ requests[m].verdict = "verified" => requests'[m].verdict = "verified"
<1>u. UNCHANGED requests => Kept
  BY <1>w DEF ReconcileSound, Bound
<1>s. ASSUME NEW n, Bound(n), NEW s \in RequestStatuses, requests' = [requests EXCEPT ![n].status = s]
      PROVE  Kept /\ \A m \in Numbers : Bound(m) => requests'[m].verdict = requests[m].verdict
  BY <1>w, <1>s, StatusKeepsRequests
<1>p. Kept => ProjectSound'
  BY <1>w DEF ProjectSound, Bound
\* The other of the two services stands where it stood.
<1>c. Kept /\ UNCHANGED recover => (recover' # Nothing =>
        DOMAIN recover' = {"request", "good", "at"} /\ Bound(recover.request)')
  BY DEF ReconcileSound, Bound
<1> HIDE DEF Kept
<1>1. ASSUME NEW n \in Numbers, Request(n) PROVE Kept /\ ReconcileSound'
  <2> DEFINE q == [desired |-> Policy, status |-> "running", verdict |-> Nothing]
  <2>1. /\ requests[n] = Nothing /\ requests' = [requests EXCEPT ![n] = q]
        /\ reconcile' = [request |-> n, at |-> "read", reading |-> Nothing]
        /\ UNCHANGED recover
        /\ Policy # Nothing
    BY <1>1 DEF Request, KeepReconcile, Enforceable
  <2>p. Policy \in DesiredPolicies /\ "running" \in RequestStatuses
    BY <2>1 DEF DesiredSound, RequestStatuses
  <2>n. Nothing # "verified"
    BY RequestAssumption DEF Verdicts
  <2>2. q \in RequestRecords /\ q.verdict = Nothing /\ Nothing # "verified"
    BY <2>p, <2>n DEF RequestRecords
  <2> HIDE DEF q
  <2>3. /\ DOMAIN requests' = Numbers /\ requests'[n] = q
        /\ \A m \in Numbers \ {n} : requests'[m] = requests[m]
    BY <2>1 DEF ReconcileSound
  <2>4. ~Bound(n)
    BY <2>1, RequestAssumption DEF Bound
  <2>5. Bound(n)'
    BY <2>2, <2>3 DEF Bound
  <2>6. Kept
    BY <1>w, <2>2, <2>3, <2>4, <2>5 DEF Kept, Bound, ReconcileSound
  <2>7. ReconcileSound'
    BY <1>c, <2>1, <2>2, <2>3, <2>5, <2>6 DEF Kept, ReconcileSound, Bound
  <2> QED
    BY <2>6, <2>7
<1>2. ASSUME NEW r \in Readings, ReadBackend(r) PROVE Kept /\ ReconcileSound'
  <2> DEFINE n == reconcile.request
  <2>1. /\ reconcile # Nothing /\ reconcile.at = "read"
        /\ requests' = [requests EXCEPT ![n].status = "verifying"]
        /\ reconcile' = [reconcile EXCEPT !.at = "judge", !.reading = r]
        /\ UNCHANGED recover
        /\ Truthful(r)
    BY <1>2 DEF ReadBackend, KeepReconcile
  <2>2. Bound(n) /\ requests[n].verdict = Nothing /\ DOMAIN reconcile = {"request", "at", "reading"}
    BY <2>1 DEF ReconcileSound
  <2>3. "verifying" \in RequestStatuses
    BY DEF RequestStatuses
  <2>4. Kept /\ \A m \in Numbers : Bound(m) => requests'[m].verdict = requests[m].verdict
    BY <1>s, <2>1, <2>2, <2>3
  <2>5. /\ DOMAIN reconcile' = {"request", "at", "reading"}
        /\ reconcile'.request = n /\ reconcile'.at = "judge" /\ reconcile'.reading = r
    BY <2>1, <2>2
  <2>6. r.age = "current" /\ r.state = "enforced" => r.policy \in wasInForce' \cup {Nothing}
    BY <1>w, <2>1 DEF Truthful, BackendSound
  <2>7. Bound(n)' /\ requests'[n].verdict = Nothing
    BY <2>2, <2>4, <2>5 DEF Kept, Bound
  <2>8. ReconcileSound'
    BY <1>c, <2>1, <2>4, <2>5, <2>6, <2>7 DEF Kept, ReconcileSound, Bound
  <2> QED
    BY <2>4, <2>8
<1>3. ASSUME NEW n, n = reconcile.request, reconcile # Nothing, FailRequest(n), UNCHANGED recover
      PROVE  Kept /\ ReconcileSound'
  <2>1. Bound(n) /\ requests' = [requests EXCEPT ![n].status = "failed"] /\ reconcile' = Nothing
    BY <1>3 DEF FailRequest, ReconcileSound
  <2>2. Kept
    BY <1>s, <2>1 DEF RequestStatuses
  <2> QED
    BY <1>3, <1>c, <2>1, <2>2 DEF Kept, ReconcileSound
<1>4. ASSUME ReadFails PROVE Kept /\ ReconcileSound'
  BY <1>3, <1>4 DEF ReadFails, KeepReconcile
<1>5. ASSUME Judge PROVE Kept /\ ReconcileSound'
  <2>0. reconcile # Nothing /\ reconcile.at = "judge" /\ UNCHANGED recover
    BY <1>5 DEF Judge, KeepReconcile
  <2>n. PICK n \in Numbers : n = reconcile.request
    BY <2>0 DEF ReconcileSound, Bound
  <2>1. CASE Policy = requests[n].desired /\ Acceptable(reconcile.reading)
    <3>1. reconcile' = [reconcile EXCEPT !.at = "job", !.reading = Nothing]
      BY <1>5, <2>n, <2>1 DEF Judge
    <3>2. /\ Bound(n) /\ requests[n].verdict = Nothing /\ n \in Numbers
          /\ DOMAIN reconcile = {"request", "at", "reading"}
      BY <2>0, <2>n DEF ReconcileSound, Bound
    <3>3. /\ DOMAIN requests' = Numbers
          /\ \A m \in Numbers : Bound(m) => Bound(m)'
          /\ \A m \in Numbers : requests'[m] # Nothing => Bound(m)'
          /\ \A m \in Numbers \ {n} : requests'[m] = requests[m]
      BY <1>5, <2>n, <2>1, <3>2, JudgeKeepsRequests
    <3>4. Nothing # "verified"
      BY RequestAssumption DEF Verdicts
    <3>5. Kept
      BY <3>2, <3>3, <3>4 DEF Kept
    <3>6. DOMAIN reconcile' = {"request", "at", "reading"} /\ reconcile'.request = n /\ reconcile'.at = "job"
      BY <2>n, <3>1, <3>2
    <3>7. ReconcileSound'
      BY <1>c, <2>0, <3>2, <3>3, <3>5, <3>6 DEF Kept, ReconcileSound, Bound
    <3> QED
      BY <3>5, <3>7
  <2>2. CASE ~(Policy = requests[n].desired /\ Acceptable(reconcile.reading))
    BY <1>3, <1>5, <2>n, <2>0, <2>2 DEF Judge
  <2> QED
    BY <2>1, <2>2
<1>6. ASSUME EndRequestJob PROVE Kept /\ ReconcileSound'
  <2>1. /\ reconcile # Nothing /\ UNCHANGED <<requests, recover>>
        /\ reconcile' = [reconcile EXCEPT !.at = "close"] \/ reconcile' = Nothing
    BY <1>6 DEF EndRequestJob, KeepReconcile
  <2>2. Kept
    BY <1>u, <2>1
  <2>3. DOMAIN reconcile = {"request", "at", "reading"} /\ Bound(reconcile.request)
    BY <2>1 DEF ReconcileSound
  <2>4. reconcile' # Nothing =>
          /\ DOMAIN reconcile' = {"request", "at", "reading"}
          /\ reconcile'.request = reconcile.request /\ reconcile'.at = "close"
    BY <2>1, <2>3
  <2>5. ReconcileSound'
    BY <1>c, <2>1, <2>2, <2>3, <2>4 DEF Kept, ReconcileSound, Bound
  <2> QED
    BY <2>2, <2>5
<1>7. ASSUME CloseRequest PROVE Kept /\ ReconcileSound'
  <2>1. /\ reconcile # Nothing /\ UNCHANGED recover
        /\ requests' = [requests EXCEPT ![reconcile.request].status = "completed"]
        /\ reconcile' = Nothing
    BY <1>7 DEF CloseRequest, KeepReconcile
  <2>2. Kept
    BY <1>s, <2>1 DEF RequestStatuses, ReconcileSound
  <2> QED
    BY <1>c, <2>1, <2>2 DEF Kept, ReconcileSound
<1>8. ASSUME NEW n \in Numbers, Recover(n) PROVE Kept /\ ReconcileSound'
  <2>1. /\ UNCHANGED <<requests, reconcile>> /\ requests[n] # Nothing
        /\ recover' = [request |-> n, good |-> Policy = requests[n].desired, at |-> "job"]
    BY <1>8 DEF Recover, KeepRecover
  <2>2. Bound(n)
    BY <2>1 DEF ReconcileSound
  <2>3. DOMAIN recover' = {"request", "good", "at"} /\ recover'.request = n
    BY <2>1
  <2>4. Kept
    BY <1>u, <2>1
  <2>5. Bound(n)'
    BY <2>2, <2>4 DEF Kept, Bound
  <2> QED
    BY <1>w, <2>1, <2>3, <2>4, <2>5 DEF Kept, ReconcileSound, Bound
<1>9. ASSUME RecoverJob PROVE Kept /\ ReconcileSound'
  <2>1. /\ UNCHANGED <<requests, reconcile>> /\ recover # Nothing
        /\ recover' = [recover EXCEPT !.at = "close",
             !.good = @ /\ rjobs[recover.request] \in {"verifying", "succeeded"}]
    BY <1>9 DEF RecoverJob, KeepRecover
  <2>2. DOMAIN recover = {"request", "good", "at"} /\ Bound(recover.request)
    BY <2>1 DEF ReconcileSound
  <2>3. DOMAIN recover' = {"request", "good", "at"} /\ recover'.request = recover.request
    BY <2>1, <2>2
  <2>4. Kept
    BY <1>u, <2>1
  <2> QED
    BY <1>w, <2>1, <2>2, <2>3, <2>4 DEF Kept, ReconcileSound, Bound
<1>10. ASSUME RecoverClose PROVE Kept /\ ReconcileSound'
  <2>1. /\ UNCHANGED reconcile /\ recover # Nothing /\ recover' = Nothing
        /\ requests' = [requests EXCEPT ![recover.request].status =
             IF recover.good THEN "completed" ELSE "recovery-blocked"]
    BY <1>10 DEF RecoverClose, KeepRecover
  <2>2. Bound(recover.request)
    BY <2>1 DEF ReconcileSound
  <2>3. Kept /\ \A m \in Numbers : Bound(m) => requests'[m].verdict = requests[m].verdict
    BY <1>s, <2>1, <2>2 DEF RequestStatuses
  <2> QED
    BY <1>w, <2>1, <2>3 DEF Kept, ReconcileSound, Bound
<1> QED
  BY <1>0, <1>p, <1>1, <1>2, <1>4, <1>5, <1>6, <1>7, <1>8, <1>9, <1>10 DEF Reconciliation

LEMMA ProjectKeeps ==
  ASSUME PolicyInv, ProjectStep
  PROVE  /\ ProjectSound'
         /\ UNCHANGED <<desiredVars, enforceVars, backendVars, reconcileVars, promoteVars, read>>
<1> USE DEF PolicyInv
<1>0. UNCHANGED <<desiredVars, enforceVars, backendVars, reconcileVars, promoteVars, read>>
  BY DEF ProjectStep, Project, ProjectWrite, ProjectMark, ProjectFinish, ProjectClose, KeepProject
<1>w. wasInForce' = wasInForce /\ requests' = requests
  BY <1>0 DEF backendVars, reconcileVars
<1>1. ASSUME NEW n \in Numbers, Project(n) PROVE ProjectSound'
  <2>1. /\ requests[n] # Nothing /\ requests[n].verdict = "verified" /\ UNCHANGED verified
        /\ project' = [request |-> n, at |-> IF VJob(n) = "running" THEN "write" ELSE "finish"]
    BY <1>1 DEF Project, Proven
  <2>2. Bound(n)
    BY <2>1 DEF ReconcileSound
  <2>3. DOMAIN project' = {"request", "at"} /\ project'.request = n
    BY <2>1
  <2> QED
    BY <1>w, <2>1, <2>2, <2>3 DEF ProjectSound, Bound
<1>2. ASSUME ProjectWrite PROVE ProjectSound'
  <2>1. /\ project # Nothing
        /\ verified' \in {verified, Projection(project.request)}
        /\ project' = [project EXCEPT !.at = "mark"] \/ project' = Nothing
    BY <1>2 DEF ProjectWrite
  <2>2. /\ DOMAIN project = {"request", "at"}
        /\ Bound(project.request) /\ requests[project.request].verdict = "verified"
    BY <2>1 DEF ProjectSound
  <2>3. project' # Nothing => DOMAIN project' = {"request", "at"} /\ project'.request = project.request
    BY <2>1, <2>2
  <2>4. Projection(project.request).desired.content \in wasInForce
    BY <2>2 DEF Bound, Projection
  <2> QED
    BY <1>w, <2>1, <2>2, <2>3, <2>4 DEF ProjectSound, Bound
<1>3. ASSUME ProjectMark \/ ProjectFinish \/ ProjectClose PROVE ProjectSound'
  <2>1. /\ project # Nothing /\ UNCHANGED verified
        /\ \/ project' = Nothing
           \/ project' = [project EXCEPT !.at = "finish"]
           \/ project' = [project EXCEPT !.at = "close"]
    BY <1>3 DEF ProjectMark, ProjectFinish, ProjectClose
  <2>2. /\ DOMAIN project = {"request", "at"}
        /\ Bound(project.request) /\ requests[project.request].verdict = "verified"
    BY <2>1 DEF ProjectSound
  <2>3. project' # Nothing => DOMAIN project' = {"request", "at"} /\ project'.request = project.request
    BY <2>1, <2>2
  <2> QED
    BY <1>w, <2>1, <2>2, <2>3 DEF ProjectSound, Bound
<1> QED
  BY <1>0, <1>1, <1>2, <1>3 DEF ProjectStep

\* The flag is raised on the very desired state the evidence binds, and a
\* confirmation that runs at the same time still has what it was checked against.
LEMMA PromoteKeeps ==
  ASSUME PolicyInv, PromoteStep
  PROVE  /\ DesiredSound' /\ CommitSound' /\ PromoteSound'
         /\ UNCHANGED <<household, plans, commit, verified, enforceVars, backendVars,
                        reconcileVars, projectVars, read>>
<1> USE DEF PolicyInv
<1>0. UNCHANGED <<household, plans, commit, verified, enforceVars, backendVars,
                  reconcileVars, projectVars, read>>
  BY DEF PromoteStep, Promote, Swap, PromoteFinish, KeepPromote
<1>w. wasInForce' = wasInForce /\ requests' = requests
  BY <1>0 DEF backendVars, reconcileVars
<1>k. UNCHANGED desired => DesiredSound' /\ CommitSound'
  BY <1>0, <1>w, PolicyKept
<1>1. ASSUME NEW n \in Numbers, Promote(n) PROVE DesiredSound' /\ CommitSound' /\ PromoteSound'
  <2>1. /\ requests[n] # Nothing /\ requests[n].verdict = "verified" /\ UNCHANGED desired
        /\ \/ promote' = Nothing
           \/ BindsPolicy(n) /\ promote' = [request |-> n, read |-> Policy, at |-> "swap"]
    BY <1>1 DEF Promote, Proven
  <2>2. requests[n].desired \in DesiredPolicies /\ requests[n].desired.content \in wasInForce
    BY <2>1 DEF ReconcileSound, Bound, RequestRecords
  <2>3. BindsPolicy(n) => Policy \in DesiredPolicies /\ Policy.content \in wasInForce
    <3>1. BindsPolicy(n) => Policy \in DesiredPolicies
      BY DEF BindsPolicy, DesiredSound
    <3>2. BindsPolicy(n) => Flagged(Policy).content = Policy.content
      BY <3>1, FlaggedFacts
    <3>3. Flagged(requests[n].desired).content = requests[n].desired.content
      BY <2>2, FlaggedFacts
    <3> QED
      BY <2>2, <3>1, <3>2, <3>3 DEF BindsPolicy
  <2>4. promote' # Nothing =>
          /\ DOMAIN promote' = {"request", "read", "at"} /\ promote'.read = Policy /\ BindsPolicy(n)
    BY <2>1
  <2>5. PromoteSound'
    BY <1>w, <2>3, <2>4 DEF PromoteSound
  <2> QED
    BY <1>k, <2>1, <2>5
<1>2. ASSUME Swap PROVE DesiredSound' /\ CommitSound' /\ PromoteSound'
  <2>1. /\ promote # Nothing
        /\ promote' = [promote EXCEPT !.at = "finish"] \/ promote' = Nothing
    BY <1>2 DEF Swap
  <2>2. /\ DOMAIN promote = {"request", "read", "at"}
        /\ promote.read \in DesiredPolicies /\ promote.read.content \in wasInForce
    BY <2>1 DEF PromoteSound
  <2>3. promote' # Nothing => DOMAIN promote' = {"request", "read", "at"} /\ promote'.read = promote.read
    BY <2>1, <2>2
  <2>4. PromoteSound'
    BY <1>w, <2>2, <2>3 DEF PromoteSound
  <2>5. CASE Policy # promote.read
    <3>1. UNCHANGED desired
      BY <1>2, <2>5 DEF Swap
    <3> QED
      BY <1>k, <2>4, <3>1
  <2>6. CASE Policy = promote.read
    <3> DEFINE d == Policy
    <3>1. desired' = [desired EXCEPT !["policy"] = Flagged(d)]
      BY <1>2, <2>6 DEF Swap, Policy
    <3>2. d \in DesiredPolicies /\ d # Nothing /\ d.content \in wasInForce
      BY <2>2, <2>6, NothingAssumption
    <3>3. /\ Flagged(d) \in DesiredPolicies /\ Flagged(d) # Nothing
          /\ Flagged(d).generation = d.generation /\ Flagged(d).plan = d.plan
          /\ Flagged(d).content = d.content
      BY <3>2, FlaggedFacts
    <3>4. /\ DOMAIN desired' = Lanes
          /\ desired'["policy"] = Flagged(d)
          /\ \A m \in Lanes \ {"policy"} : desired'[m] = desired[m]
      BY <3>1 DEF DesiredSound, Lanes
    <3>5. desired["policy"] = d
      BY DEF Policy
    <3> HIDE DEF d
    <3>6. DesiredSound'
      BY <1>0, <1>w, <3>2, <3>3, <3>4, <3>5 DEF DesiredSound, Policy
    <3>7. \A l \in Lanes : Generation(desired'[l]) = Generation(desired[l])
                        /\ Current(l, desired'[l]) = Current(l, desired[l])
      BY <3>2, <3>3, <3>4, <3>5 DEF Generation, Current
    <3>8. CommitSound'
      BY <1>0, <3>7 DEF CommitSound, Fresh
    <3> QED
      BY <2>4, <3>6, <3>8
  <2> QED
    BY <2>5, <2>6
<1>3. ASSUME PromoteFinish PROVE DesiredSound' /\ CommitSound' /\ PromoteSound'
  BY <1>k, <1>3 DEF PromoteFinish, PromoteSound
<1> QED
  BY <1>0, <1>1, <1>2, <1>3 DEF PromoteStep

LEMMA ReadKeeps ==
  ASSUME PolicyInv, ReadDesired \/ ReadVerified \/ EndRead
  PROVE  ReadSound' /\ UNCHANGED <<policyVars, reconcileVars, projectVars, promoteVars>>
<1> USE DEF PolicyInv
<1>0. UNCHANGED <<policyVars, reconcileVars, projectVars, promoteVars>>
  BY DEF ReadDesired, ReadVerified, EndRead, KeepRead
<1>w. wasInForce' = wasInForce
  BY <1>0 DEF policyVars, backendVars
<1>1. ASSUME ReadDesired PROVE ReadSound'
  <2>1. read' = [desired |-> Policy, told |-> Nothing]
    BY <1>1 DEF ReadDesired
  <2>2. Nothing # "verified"
    BY RequestAssumption DEF Verdicts
  <2> QED
    BY <2>1, <2>2 DEF ReadSound
<1>2. ASSUME ReadVerified PROVE ReadSound'
  <2>1. PICK told \in {"refused", "verified", "desired"} :
          /\ read' = [read EXCEPT !.told = told]
          /\ told = "verified" => verified # Nothing /\ verified.desired = read.desired
    BY <1>2 DEF ReadVerified
  <2>2. read # Nothing /\ DOMAIN read = {"desired", "told"}
    BY <1>2 DEF ReadVerified, ReadSound
  <2>3. DOMAIN read' = {"desired", "told"} /\ read'.desired = read.desired /\ read'.told = told
    BY <2>1, <2>2
  <2> QED
    BY <1>w, <2>1, <2>3 DEF ReadSound, ProjectSound
<1>3. ASSUME EndRead PROVE ReadSound'
  BY <1>3 DEF EndRead, ReadSound
<1> QED
  BY <1>0, <1>1, <1>2, <1>3

\* Every part but those about a call in progress is about what is stored.
LEMMA RestartKeeps ==
  ASSUME PolicyInv, Restart
  PROVE  PolicyInv'
<1> USE DEF PolicyInv
<1>1. /\ UNCHANGED <<household, desired, plans, verified, eplans, ejobs, invoked, backendVars, requests>>
      /\ commit' = [l \in Lanes |-> Nothing]
      /\ enforce' = Nothing /\ reconcile' = Nothing /\ recover' = Nothing
      /\ project' = Nothing /\ promote' = Nothing /\ read' = Nothing
  BY DEF Restart
<1>w. wasInForce' = wasInForce
  BY <1>1 DEF backendVars
<1>2. PlansSound' /\ DesiredSound' /\ BackendSound'
  BY <1>1, <1>w, PolicyKept
<1>3. CommitSound'
  BY <1>1 DEF CommitSound
<1>4. EnforceSound'
  BY <1>1 DEF EnforceSound
<1>5. ReconcileSound'
  BY <1>1, <1>w DEF ReconcileSound, Bound
<1>6. ProjectSound' /\ PromoteSound' /\ ReadSound'
  BY <1>1, <1>w DEF ProjectSound, PromoteSound, ReadSound
<1> QED
  BY <1>1, <1>2, <1>3, <1>4, <1>5, <1>6

LEMMA PolicyStart == VerificationInit => PolicyInv
<1> SUFFICES ASSUME VerificationInit PROVE PolicyInv
  OBVIOUS
<1> USE DEF VerificationInit, PolicyInit
<1>1. household \in 0 .. MaxHousehold
  BY BoundsAssumption
<1>2. PlansSound /\ DesiredSound /\ CommitSound
  BY DEF PlansSound, DesiredSound, CommitSound, Lanes, Policy
<1>3. EnforceSound /\ BackendSound
  BY DEF EnforceSound, BackendSound
<1>4. ReconcileSound /\ ProjectSound /\ PromoteSound /\ ReadSound
  BY DEF ReconcileSound, ProjectSound, PromoteSound, ReadSound
<1> QED
  BY <1>1, <1>2, <1>3, <1>4 DEF PolicyInv

LEMMA PolicyStep ==
  ASSUME PolicyInv, VerificationNext
  PROVE  PolicyInv'
<1> DEFINE Others == UNCHANGED <<reconcileVars, projectVars, promoteVars, read>>
<1> USE DEF PolicyInv
<1>1. ASSUME NEW l \in Lanes, LaneStep(l), Others PROVE PolicyInv'
  <2>1. UNCHANGED <<household, verified, enforceVars, backendVars>>
    BY <1>1 DEF LaneStep, PlanChange, Confirm, Write, Verify, Finish, Close
  <2>2. PlansSound' /\ DesiredSound' /\ CommitSound'
    BY <1>1, LaneKeepsPlans, LaneKeepsCommit
  <2>3. EnforceSound' /\ BackendSound' /\ ReconcileSound' /\ ProjectSound' /\ PromoteSound' /\ ReadSound'
    BY <1>1, <2>1, PolicyKept DEF backendVars, reconcileVars, projectVars, promoteVars
  <2> QED
    BY <2>1, <2>2, <2>3
<1>2. ASSUME ChangeHousehold, Others PROVE PolicyInv'
  <2>1. /\ household' \in 0 .. MaxHousehold
        /\ UNCHANGED <<desired, plans, jobs, commit, verified, enforceVars, backendVars>>
    BY <1>2, BoundsAssumption DEF ChangeHousehold
  <2>2. wasInForce' = wasInForce
    BY <2>1 DEF backendVars
  <2> QED
    BY <1>2, <2>1, <2>2, PolicyKept DEF reconcileVars, projectVars, promoteVars
<1>3. ASSUME EnforceStep, Others PROVE PolicyInv'
  <2>1. EnforceSound' /\ UNCHANGED <<desiredVars, verified, backendVars>>
    BY <1>3, EnforceKeeps
  <2> QED
    BY <1>3, <2>1, PolicyKept DEF desiredVars, backendVars, reconcileVars, projectVars, promoteVars
<1>4. ASSUME NEW a \in Answers, Apply(a), Others PROVE PolicyInv'
  <2>1. /\ EnforceSound' /\ BackendSound' /\ wasInForce \subseteq wasInForce'
        /\ UNCHANGED <<desiredVars, verified>>
    BY <1>4, ApplyKeeps
  <2> QED
    BY <1>4, <2>1, PolicyKept DEF desiredVars, reconcileVars, projectVars, promoteVars
<1>5. ASSUME BackendStep, Others PROVE PolicyInv'
  <2>1. /\ BackendSound' /\ wasInForce \subseteq wasInForce'
        /\ UNCHANGED <<desiredVars, verified, enforceVars>>
    BY <1>5, BackendKeeps
  <2> QED
    BY <1>5, <2>1, PolicyKept DEF desiredVars, reconcileVars, projectVars, promoteVars
<1>6. ASSUME Reconciliation PROVE PolicyInv'
  <2>1. /\ ReconcileSound' /\ ProjectSound'
        /\ UNCHANGED <<policyVars, projectVars, promoteVars, read>>
    BY <1>6, ReconciliationKeeps
  <2> QED
    BY <2>1, PolicyKept DEF policyVars, desiredVars, backendVars, promoteVars
<1>7. ASSUME ProjectStep PROVE PolicyInv'
  <2>1. /\ ProjectSound'
        /\ UNCHANGED <<desiredVars, enforceVars, backendVars, reconcileVars, promoteVars, read>>
    BY <1>7, ProjectKeeps
  <2> QED
    BY <2>1, PolicyKept DEF desiredVars, backendVars, reconcileVars, promoteVars
<1>8. ASSUME PromoteStep PROVE PolicyInv'
  <2>1. /\ DesiredSound' /\ CommitSound' /\ PromoteSound'
        /\ UNCHANGED <<household, plans, commit, verified, enforceVars, backendVars,
                       reconcileVars, projectVars, read>>
    BY <1>8, PromoteKeeps
  <2> QED
    BY <2>1, PolicyKept DEF backendVars, reconcileVars, projectVars
<1>9. ASSUME ReadDesired \/ ReadVerified \/ EndRead PROVE PolicyInv'
  <2>1. ReadSound' /\ UNCHANGED <<policyVars, reconcileVars, projectVars, promoteVars>>
    BY <1>9, ReadKeeps
  <2> QED
    BY <2>1, PolicyKept DEF policyVars, desiredVars, backendVars, reconcileVars, projectVars, promoteVars
<1>10. ASSUME Restart PROVE PolicyInv'
  BY <1>10, RestartKeeps
<1> QED
  BY <1>1, <1>2, <1>3, <1>4, <1>5, <1>6, <1>7, <1>8, <1>9, <1>10, PolicySteps

\* What the policy services keep, whatever the role, the bundles, the rules and
\* the interleaving of their calls.
THEOREM PolicyInvariant == VerificationSpec => []PolicyInv
<1>1. ASSUME PolicyInv, UNCHANGED verificationVars PROVE PolicyInv'
  <2>1. /\ UNCHANGED <<household, desired, plans, commit, verified, enforceVars, backendVars>>
        /\ UNCHANGED <<requests, reconcile, recover, project, promote, read>>
    BY <1>1 DEF verificationVars, policyVars, desiredVars, reconcileVars, projectVars, promoteVars
  <2>2. wasInForce' = wasInForce
    BY <2>1 DEF backendVars
  <2> QED
    BY <1>1, <2>1, <2>2, PolicyKept DEF PolicyInv
<1> QED
  BY <1>1, PolicyStart, PolicyStep, PTL DEF VerificationSpec

\* The types of what the policy services keep: no stored policy of a child
\* exceeds the preset of the role.
THEOREM PolicyTypeCorrect == VerificationSpec => []PolicyTypeOK
<1>1. PolicyInv => PolicyTypeOK
  <2> SUFFICES ASSUME PolicyInv PROVE PolicyTypeOK
    OBVIOUS
  <2> USE DEF PolicyInv
  <2>1. \A l \in Lanes : Generation(desired[l]) \in 0 .. MaxGeneration[l]
    BY GenerationFacts
  <2>2. \A l \in Lanes : \A p \in DOMAIN plans[l] : plans[l][p] \in {"planned", "committed"}
    BY DEF PlansSound
  <2>3. Role = "child" /\ Policy # Nothing => BaseFits(Policy.content)
    <3>1. Policy # Nothing => Policy.content \in Composable
      BY DEF DesiredSound, PlansSound, Policy, Lanes
    <3> QED
      BY <3>1, ComposableFacts
  <2>4. \A d \in DOMAIN invoked : d \in DOMAIN eplans
    BY DEF EnforceSound
  <2> QED
    BY <2>1, <2>2, <2>3, <2>4 DEF PolicyTypeOK, BackendSound
<1> QED
  BY <1>1, PolicyInvariant, PTL

\* A policy that is called verified, by the projection, by the flag or to a
\* reader, has been in force at the backend.
THEOREM VerifiedTheorem == VerificationSpec => []VerifiedWasInForce
<1>1. PolicyInv => VerifiedWasInForce
  BY DEF PolicyInv, VerifiedWasInForce, ProjectSound, DesiredSound, ReadSound
<1> QED
  BY <1>1, PolicyInvariant, PTL

\* The backend is asked to apply an enforcement plan at most once.
THEOREM AppliedTheorem == VerificationSpec => []AppliedAtMostOnce
<1>1. PolicyInv => AppliedAtMostOnce
  BY DEF PolicyInv, AppliedAtMostOnce, EnforceSound
<1> QED
  BY <1>1, PolicyInvariant, PTL

LEMMA WellFormedFacts ==
  ASSUME NEW base, NEW r, WellFormedRules(base, r)
  PROVE  /\ base.internet # "full" /\ "vpn" \notin base.granted
         /\ {r.daily, r.weekly, r.session} \subseteq Nat \cup {NoLimit}
         /\ r.grace \in Nat /\ r.bonus \in Nat
<1>1. base.internet # "full" /\ "vpn" \notin base.granted
  BY DEF WellFormedRules
<1>2. r.daily \in Limits(1440) /\ r.weekly \in Limits(10080) /\ r.session \in Limits(1440)
  BY DEF WellFormedRules, Limits
<1>3. r.grace \in Nat
  <2>1. PICK m \in 0 .. 60 : r.grace = m
    BY DEF WellFormedRules
  <2>2. m \in Nat
    OBVIOUS
  <2> QED
    BY <2>1, <2>2
<1>5. r.bonus \in Nat
  <2>1. PICK m \in 0 .. 1440 : r.bonus = m
    BY DEF WellFormedRules
  <2>2. m \in Nat
    OBVIOUS
  <2> QED
    BY <2>1, <2>2
<1>4. Limits(1440) \subseteq Nat \cup {NoLimit} /\ Limits(10080) \subseteq Nat \cup {NoLimit}
  BY DEF Limits
<1> QED
  BY <1>1, <1>2, <1>3, <1>4, <1>5

\* A quota that is not met by more is not met by less.
LEMMA ExhaustedGrows ==
  ASSUME NEW limit \in Nat \cup {NoLimit}, NEW extra \in Nat,
         NEW u \in Nat, NEW v \in Nat, u <= v, ~Exhausted(limit, v, extra)
  PROVE  ~Exhausted(limit, u, extra)
BY DEF Exhausted

\* Rules a parent may write never lift a denial as more is used.
LEMMA WellFormedTightens ==
  ASSUME NEW base, NEW r \in RuleSets, WellFormedRules(base, r)
  PROVE  r \in Tightening
<1>1. SUFFICES ASSUME NEW a \in Accesses, NEW u \in Usages, NEW v \in Usages,
                      u.daily <= v.daily, u.weekly <= v.weekly, u.session <= v.session,
                      Allowed(r, Query(a, v))
               PROVE  Allowed(r, Query(a, u))
  BY DEF Tightening
<1>2. \A w \in Usages : /\ Query(a, w).source = a.source /\ Query(a, w).domain = a.domain
                        /\ Query(a, w).category = a.category /\ Query(a, w).weekday = a.weekday
                        /\ Query(a, w).minute = a.minute
                        /\ Query(a, w).daily = w.daily /\ Query(a, w).weekly = w.weekly
                        /\ Query(a, w).session = w.session
  BY DEF Query
<1>3. /\ u.daily \in Nat /\ u.weekly \in Nat /\ u.session \in Nat
      /\ v.daily \in Nat /\ v.weekly \in Nat /\ v.session \in Nat
  BY UsageAssumption
<1>4. /\ {r.daily, r.weekly, r.session} \subseteq Nat \cup {NoLimit}
      /\ r.grace \in Nat /\ r.bonus \in Nat
  BY WellFormedFacts
<1>5. /\ ~Exhausted(r.weekly, u.weekly, 0) /\ ~Exhausted(r.daily, u.daily, r.bonus)
      /\ ~Exhausted(r.session, u.session, r.grace)
  <2>1. /\ ~Exhausted(r.weekly, v.weekly, 0) /\ ~Exhausted(r.daily, v.daily, r.bonus)
        /\ ~Exhausted(r.session, v.session, r.grace)
    BY <1>1, <1>2 DEF Allowed
  <2> QED
    <3>1. ~Exhausted(r.weekly, u.weekly, 0)
      BY <1>1, <1>3, <1>4, <2>1, ExhaustedGrows
    <3>2. ~Exhausted(r.daily, u.daily, r.bonus)
      BY <1>1, <1>3, <1>4, <2>1, ExhaustedGrows
    <3>3. ~Exhausted(r.session, u.session, r.grace)
      BY <1>1, <1>3, <1>4, <2>1, ExhaustedGrows
    <3> QED
      BY <3>1, <3>2, <3>3
<1>6. InSchedule(r, Query(a, v)) <=> InSchedule(r, Query(a, u))
  BY <1>2 DEF InSchedule
<1> QED
  BY <1>1, <1>2, <1>5, <1>6 DEF Allowed

\* Parental rules rest on a policy that was in force and leaves no way around
\* them, and using more never lifts a denial.
THEOREM RulesTheorem == VerificationSpec => []RulesHold
<1>1. PolicyInv => RulesHold
  <2> SUFFICES ASSUME PolicyInv, desired["parental"] # Nothing
               PROVE  LET d == desired["parental"] IN
                      /\ d.plan.base.desired.content \in wasInForce
                      /\ d.plan.base.desired.content.internet # "full"
                      /\ "vpn" \notin d.plan.base.desired.content.granted
                      /\ d.content \in Tightening
    BY DEF RulesHold
  <2> DEFINE p == desired["parental"].plan
  <2>1. p \in DOMAIN plans["parental"] /\ desired["parental"].content = p.content
    BY DEF PolicyInv, DesiredSound, Lanes
  <2>2. /\ p.content \in RuleSets
        /\ WellFormedRules(p.base.desired.content, p.content)
        /\ p.base.desired.content \in wasInForce
    BY <2>1 DEF PolicyInv, PlansSound
  <2>3. p.content \in Tightening
    BY <2>2, WellFormedTightens
  <2>4. p.base.desired.content.internet # "full" /\ "vpn" \notin p.base.desired.content.granted
    BY <2>2, WellFormedFacts
  <2> QED
    BY <2>1, <2>2, <2>3, <2>4
<1> QED
  BY <1>1, PolicyInvariant, PTL

\* A desired state is only flagged, or replaced by a plan that saw it; the
\* verified projection only moves to a later generation.
THEOREM GenerationsTheorem == VerificationSpec => GenerationsAdvance
<1> DEFINE Advance ==
      /\ \A l \in Lanes : desired'[l] # desired[l] =>
           \/ desired[l] # Nothing /\ desired'[l] = Flagged(desired[l])
           \/ LET p == desired'[l].plan IN
              /\ desired'[l] = Wanted(p)
              /\ p.observed = Generation(desired[l])
              /\ p.current = Current(l, desired[l])
      /\ verified' # verified /\ verified # Nothing =>
           verified'.desired.generation > verified.desired.generation
<1>1. ASSUME PolicyInv, VerificationNext PROVE Advance
  <2>1. ASSUME UNCHANGED <<desired, verified>> PROVE Advance
    BY <2>1
  <2>2. ASSUME NEW l \in Lanes, LaneStep(l) PROVE Advance
    <3>1. UNCHANGED verified
      BY <2>2 DEF LaneStep, PlanChange, Confirm, Write, Verify, Finish, Close
    <3>2. CASE Write(l)
      <4> DEFINE p == commit[l].plan
      <4>1. /\ commit[l] # Nothing /\ commit[l].at = "write"
            /\ desired' = [desired EXCEPT ![l] = IF commit[l].read = Wanted(p) THEN @ ELSE Wanted(p)]
        BY <3>2 DEF Write
      <4>2. /\ \A m \in Lanes \ {l} : desired'[m] = desired[m]
            /\ desired'[l] = IF commit[l].read = Wanted(p) THEN desired[l] ELSE Wanted(p)
        BY <1>1, <4>1 DEF PolicyInv, DesiredSound
      <4>3. commit[l].read # Wanted(p) =>
              p.observed = Generation(desired[l]) /\ p.current = Current(l, desired[l])
        BY <1>1, <4>1 DEF PolicyInv, CommitSound, Fresh
      <4>4. Wanted(p).plan = p
        BY DEF Wanted
      <4> HIDE DEF p
      <4> QED
        BY <3>1, <4>2, <4>3, <4>4
    <3>3. CASE ~Write(l)
      BY <2>1, <2>2, <3>1, <3>3 DEF LaneStep, PlanChange, Confirm, Verify, Finish, Close
    <3> QED
      BY <3>2, <3>3
  <2>3. ASSUME ProjectStep PROVE Advance
    <3>1. UNCHANGED desired
      BY <1>1, <2>3, ProjectKeeps DEF desiredVars
    <3>2. verified' # verified /\ verified # Nothing =>
            verified'.desired.generation > verified.desired.generation
      <4> SUFFICES ASSUME verified' # verified, verified # Nothing
                   PROVE  verified'.desired.generation > verified.desired.generation
        OBVIOUS
      <4>1. ProjectWrite
        BY <2>3 DEF ProjectStep, Project, ProjectMark, ProjectFinish, ProjectClose
      <4>2. verified' = Projection(project.request) /\ Replaceable(project.request)
        BY <4>1 DEF ProjectWrite
      <4>3. verified.desired.generation < requests[project.request].desired.generation
        BY <4>2 DEF Replaceable
      <4> QED
        BY <4>2, <4>3 DEF Projection
    <3> QED
      BY <3>1, <3>2
  <2>4. ASSUME PromoteStep PROVE Advance
    <3>1. UNCHANGED verified
      BY <1>1, <2>4, PromoteKeeps
    <3>2. \/ UNCHANGED desired
          \/ /\ desired["policy"] \in DesiredPolicies
             /\ desired' = [desired EXCEPT !["policy"] = Flagged(@)]
      BY <1>1, <2>4 DEF PromoteStep, Promote, Swap, PromoteFinish, PolicyInv, PromoteSound, Policy
    <3>3. CASE /\ desired["policy"] \in DesiredPolicies
               /\ desired' = [desired EXCEPT !["policy"] = Flagged(@)]
      <4>1. /\ desired'["policy"] = Flagged(desired["policy"]) /\ desired["policy"] # Nothing
            /\ \A m \in Lanes \ {"policy"} : desired'[m] = desired[m]
        BY <1>1, <3>3, NothingAssumption DEF PolicyInv, DesiredSound, Lanes
      <4> QED
        BY <3>1, <4>1
    <3> QED
      BY <2>1, <3>1, <3>2, <3>3
  <2>5. ASSUME EnforceStep PROVE Advance
    BY <1>1, <2>1, <2>5, EnforceKeeps DEF desiredVars
  <2>6. ASSUME NEW a \in Answers, Apply(a) PROVE Advance
    BY <1>1, <2>1, <2>6, ApplyKeeps DEF desiredVars
  <2>7. ASSUME BackendStep PROVE Advance
    BY <1>1, <2>1, <2>7, BackendKeeps DEF desiredVars
  <2>8. ASSUME Reconciliation PROVE Advance
    BY <1>1, <2>1, <2>8, ReconciliationKeeps DEF policyVars, desiredVars
  <2>9. ASSUME ReadDesired \/ ReadVerified \/ EndRead PROVE Advance
    BY <1>1, <2>1, <2>9, ReadKeeps DEF policyVars, desiredVars
  <2>10. ASSUME ChangeHousehold \/ Restart PROVE Advance
    BY <2>1, <2>10 DEF ChangeHousehold, Restart
  <2> HIDE DEF Advance
  <2> QED
    BY <1>1, <2>2, <2>3, <2>4, <2>5, <2>6, <2>7, <2>8, <2>9, <2>10, PolicySteps
<1>2. PolicyInv /\ [VerificationNext]_verificationVars => [Advance]_verificationVars
  BY <1>1
<1> QED
  BY <1>2, PolicyInvariant, PTL DEF VerificationSpec, GenerationsAdvance
=============================================================================
