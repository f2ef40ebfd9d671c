-------------------------- MODULE ActionRunsProofs --------------------------
(***************************************************************************)
(* What holds of the typed action jobs for any number of keys, requests,   *)
(* threads, crashes and store faults.                                      *)
(***************************************************************************)
EXTENDS ActionRuns, TLAPS

-----------------------------------------------------------------------------
(* Type correctness.                                                       *)

\* A transition changes the state and the evidence of one job.
LEMMA TransitionUpdates ==
  ASSUME TypeOK, NEW k \in Keys, NEW expected, NEW new \in Active \cup Terminal, NEW e \in Nat,
         Transition(k, expected, new, e)
  PROVE  /\ job' \in [Keys -> Jobs]
         /\ \A l \in Keys : l # k => job'[l] = job[l]
         /\ job'[k].state = new /\ job'[k].evidence = e /\ job'[k].hash = job[k].hash
         /\ job[k].state = expected
<1> DEFINE row == [job[k] EXCEPT !.state = new, !.evidence = e]
<1>1. job[k] \in Jobs
  BY DEF TypeOK
<1>2. row \in Jobs /\ row.state = new /\ row.evidence = e /\ row.hash = job[k].hash
  BY <1>1 DEF Jobs
<1>3. job' = [job EXCEPT ![k] = row] /\ job[k].state = expected
  BY DEF Transition
<1> HIDE DEF row
<1> QED
  BY <1>2, <1>3 DEF TypeOK

LEMMA LeaveTypes ==
  ASSUME TypeOK, NEW t \in Threads, Leave(t)
  PROVE  /\ pc' \in [Threads -> Steps] /\ key' \in [Threads -> Keys \cup {None}]
         /\ held' \in [Threads -> Active] /\ event' \in [Threads -> Nat]
         /\ \A u \in Threads : IF pc'[u] # "idle" THEN key'[u] \in Keys ELSE held'[u] = "preflight"
BY DEF TypeOK, Leave, Busy, Steps, Active

\* Every variable keeps its type.
THEOREM TypeCorrect == Spec => []TypeOK
<1>1. Init => TypeOK
  BY DEF Init, TypeOK, Jobs, Entries, Steps, Active, Terminal, Busy
<1>2. TypeOK /\ [Next]_vars => TypeOK'
  <2> SUFFICES ASSUME TypeOK, [Next]_vars PROVE TypeOK'
    OBVIOUS
  <2>1. ASSUME NEW t \in Threads, NEW k \in Keys, NEW h \in Hashes, Create(t, k, h) PROVE TypeOK'
    <3>1. [state |-> "preflight", hash |-> h, evidence |-> 0] \in Jobs
      BY DEF Jobs, Active
    <3> QED
      BY <2>1, <3>1 DEF Create, Goto, TypeOK, Busy, Steps
  <2>2. ASSUME NEW k \in Keys, NEW h \in Hashes, Replay(k, h) PROVE TypeOK'
    <3>1. job[k].state \in {"absent"} \cup Active \cup Terminal
      BY DEF TypeOK, Jobs
    <3> QED
      BY <2>2, <3>1 DEF Replay, Answer, TypeOK, Busy, threadVars
  <2>3. ASSUME NEW k \in Keys, NEW h \in Hashes, Conflict(k, h) PROVE TypeOK'
    BY <2>3 DEF Conflict, Audit, Entries, TypeOK, Busy, threadVars
  <2>4. ASSUME NEW t \in Threads, RunStep(t) PROVE TypeOK'
    <3>k. Busy(t) /\ key[t] \in Keys /\ held[t] \in Active /\ event[t] \in Nat
      BY <2>4 DEF RunStep, Start, Execute, Verify, AuditSuccess, AuditFailure, Succeed, Fail,
                  Busy, TypeOK
    <3>1. CASE Start(t)
      <4>1. job' \in [Keys -> Jobs]
        BY <3>1, <3>k, TransitionUpdates DEF Start, Active
      <4> QED
        BY <3>1, <3>k, <4>1 DEF Start, Goto, TypeOK, Busy, Steps, Active
    <3>2. CASE Execute(t)
      BY <3>2, <3>k DEF Execute, Goto, TypeOK, Busy, Steps
    <3>3. CASE Verify(t)
      <4>1. job' \in [Keys -> Jobs]
        BY <3>3, <3>k, TransitionUpdates DEF Verify, Active
      <4> QED
        BY <3>3, <3>k, <4>1 DEF Verify, Goto, TypeOK, Busy, Steps, Active
    <3>4. ASSUME NEW o \in {"succeeded", "failed"}, NEW step \in {"succeed", "fail"},
                 RecordOutcome(t, o, step)
          PROVE TypeOK'
      BY <3>4, <3>k DEF RecordOutcome, Audit, Entries, Goto, TypeOK, Busy, Steps
    <3>5. ASSUME NEW new \in Terminal, Finish(t, held[t], new) PROVE TypeOK'
      <4>1. job' \in [Keys -> Jobs]
        BY <3>5, <3>k, TransitionUpdates DEF Finish
      <4> QED
        BY <3>5, <3>k, <4>1, LeaveTypes DEF Finish, Answer, TypeOK, Busy
    <3>6. ASSUME NEW new \in Terminal, Finish(t, "verifying", new) PROVE TypeOK'
      <4>1. job' \in [Keys -> Jobs]
        BY <3>6, <3>k, TransitionUpdates DEF Finish
      <4> QED
        BY <3>6, <3>k, <4>1, LeaveTypes DEF Finish, Answer, TypeOK, Busy
    <3>7. CASE AuditSuccess(t) \/ AuditFailure(t)
      BY <3>4, <3>7 DEF AuditSuccess, AuditFailure
    <3>8. CASE Succeed(t) \/ Fail(t)
      BY <3>5, <3>6, <3>8 DEF Succeed, Fail, Terminal
    <3> QED
      BY <2>4, <3>1, <3>2, <3>3, <3>7, <3>8 DEF RunStep
  <2>5. ASSUME NEW t \in Threads, StoreRaises(t) PROVE TypeOK'
    <3>1. CASE Leave(t)
      <4>1. UNCHANGED <<job, trail, executed, answer, crashes>> /\ faults' = faults + 1
        BY <2>5 DEF StoreRaises
      <4> QED
        BY <3>1, <4>1, LeaveTypes DEF TypeOK, Busy
    <3>2. CASE ~Leave(t)
      <4>1. /\ UNCHANGED <<job, trail, executed, answer, crashes, key, held, event>>
            /\ faults' = faults + 1 /\ Busy(t) /\ Goto(t, "auditFailure")
        BY <2>5, <3>2 DEF StoreRaises, Busy
      <4> QED
        BY <4>1 DEF Goto, TypeOK, Busy, Steps
    <3> QED
      BY <3>1, <3>2
  <2>6. CASE Crash
    BY <2>6 DEF Crash, TypeOK, Busy, Steps, Active
  <2>7. CASE UNCHANGED vars
    BY <2>7 DEF vars, threadVars, TypeOK, Busy
  <2> QED
    BY <2>1, <2>2, <2>3, <2>4, <2>5, <2>6, <2>7 DEF Next
<1> QED
  BY <1>1, <1>2, PTL DEF Spec

-----------------------------------------------------------------------------
(* The invariant.                                                          *)

\* An audit entry of another job, or a refusal, leaves the last word standing.
LEMMA LastWordStands ==
  ASSUME TypeOK, NEW k \in Keys, NEW i, NEW o, NEW l \in Keys,
         NEW p \in {"succeeded", "failed", "denied"},
         LastWord(k, i, o), Audit(l, p), l = k => p = "denied"
  PROVE  LastWord(k, i, o)'
<1>1. /\ Len(trail) \in Nat /\ Len(trail') = Len(trail) + 1
      /\ \A j \in 1 .. Len(trail) : trail'[j] = trail[j]
      /\ trail'[Len(trail) + 1] = [key |-> l, outcome |-> p]
  BY DEF Audit, TypeOK, Entries
<1>2. /\ i \in 1 .. Len(trail') /\ trail'[i] = [key |-> k, outcome |-> o]
  BY <1>1 DEF LastWord
<1>3. ASSUME NEW j \in i + 1 .. Len(trail'), trail'[j].key = k PROVE trail'[j].outcome = "denied"
  <2>1. CASE j = Len(trail) + 1
    BY <1>1, <1>3, <2>1
  <2>2. CASE j # Len(trail) + 1
    <3>1. i \in 1 .. Len(trail) /\ j \in i + 1 .. Len(trail)
      BY <1>1, <1>3, <2>2 DEF LastWord
    <3> QED
      BY <1>1, <1>3, <3>1 DEF LastWord
  <2> QED
    BY <2>1, <2>2
<1> QED
  BY <1>2, <1>3 DEF LastWord

\* What a driver just wrote is the last word on its job.
LEMMA LastWordWritten ==
  ASSUME TypeOK, NEW k \in Keys, NEW o \in {"succeeded", "failed"}, Audit(k, o),
         NEW i, i = Len(trail) + 1
  PROVE  LastWord(k, i, o)'
<1>1. /\ Len(trail) \in Nat /\ Len(trail') = Len(trail) + 1
      /\ trail'[Len(trail) + 1] = [key |-> k, outcome |-> o]
  BY DEF Audit, TypeOK, Entries
<1> QED
  BY <1>1 DEF LastWord

LEMMA JobInvInit == Init => JobInv
BY DEF Init, JobInv, OneDriver, InStep, NotYet, ExecutedAtMostOnce, EvidenceIsLastWord, Busy,
       Active, Terminal

\* The driver of a job: it holds the job's state, and nobody else drives it.
LEMMA Driver ==
  ASSUME TypeOK, JobInv, NEW t \in Threads, Busy(t)
  PROVE  /\ key[t] \in Keys /\ job[key[t]].state = held[t] /\ held[t] \in Active
         /\ event[t] \in Nat
         /\ \A u \in Threads : Busy(u) /\ u # t => key[u] # key[t]
BY DEF TypeOK, JobInv, OneDriver

LEMMA CreateStep ==
  ASSUME TypeOK, JobInv, NEW t \in Threads, NEW k \in Keys, NEW h \in Hashes, Create(t, k, h)
  PROVE  JobInv'
<1>1. /\ ~Busy(t) /\ job[k].state = "absent" /\ held[t] = "preflight"
      /\ pc' = [pc EXCEPT ![t] = "start"] /\ key' = [key EXCEPT ![t] = k]
      /\ job' = [job EXCEPT ![k] = [state |-> "preflight", hash |-> h, evidence |-> 0]]
      /\ UNCHANGED <<trail, held, event, executed>>
  BY DEF Create, Goto, TypeOK
<1>2. \A u \in Threads : Busy(u) => key[u] # k
  BY <1>1, Driver DEF Active
<1>3. /\ job'[k].state = "preflight" /\ \A l \in Keys : l # k => job'[l] = job[l]
      /\ pc'[t] = "start" /\ key'[t] = k
      /\ \A u \in Threads : u # t => pc'[u] = pc[u] /\ key'[u] = key[u]
  BY <1>1 DEF TypeOK
<1>4. OneDriver'
  BY <1>1, <1>2, <1>3 DEF OneDriver, JobInv, Busy
<1>5. InStep'
  BY <1>1, <1>3 DEF InStep, JobInv, LastWord, Busy
<1>6. NotYet' /\ ExecutedAtMostOnce'
  BY <1>1, <1>3 DEF NotYet, ExecutedAtMostOnce, JobInv
<1>7. EvidenceIsLastWord'
  BY <1>1, <1>3 DEF EvidenceIsLastWord, JobInv, LastWord, Terminal
<1> QED
  BY <1>4, <1>5, <1>6, <1>7 DEF JobInv

LEMMA ConflictStep ==
  ASSUME TypeOK, JobInv, NEW k \in Keys, NEW h \in Hashes, Conflict(k, h)
  PROVE  JobInv'
<1>1. Audit(k, "denied") /\ UNCHANGED <<job, pc, key, held, event, executed>>
  BY DEF Conflict, threadVars
<1>2. OneDriver' /\ NotYet' /\ ExecutedAtMostOnce'
  BY <1>1 DEF JobInv, OneDriver, NotYet, ExecutedAtMostOnce, Busy
<1>3. \A i, o : \A l \in Keys : LastWord(l, i, o) => LastWord(l, i, o)'
  BY <1>1, LastWordStands
<1>4. InStep'
  BY <1>1, <1>3, Driver DEF JobInv, InStep, Busy
<1>5. EvidenceIsLastWord'
  BY <1>1, <1>3 DEF JobInv, EvidenceIsLastWord
<1> QED
  BY <1>2, <1>4, <1>5 DEF JobInv

LEMMA RunStepKeeps ==
  ASSUME TypeOK, JobInv, NEW t \in Threads, RunStep(t)
  PROVE  JobInv'
<1> DEFINE k == key[t]
<1>1. Busy(t)
  BY DEF RunStep, Start, Execute, Verify, AuditSuccess, AuditFailure, Succeed, Fail, Busy
<1>2. /\ k \in Keys /\ job[k].state = held[t] /\ held[t] \in Active /\ event[t] \in Nat
      /\ \A u \in Threads : Busy(u) /\ u # t => key[u] # k
  BY <1>1, Driver
<1> HIDE DEF k
\* The job moves on with its driver.
<1>3. ASSUME NEW new \in Active, NEW step \in {"execute", "audit"},
             Transition(k, held[t], new, 0), Goto(t, step), held' = [held EXCEPT ![t] = new],
             UNCHANGED <<trail, key, event, executed>>, new # "preflight",
             step = "execute" => new = "running" /\ held[t] = "preflight",
             step = "audit" => new = "verifying"
      PROVE  JobInv'
  <2>1. /\ job'[k].state = new /\ \A l \in Keys : l # k => job'[l] = job[l]
        /\ pc'[t] = step /\ held'[t] = new
        /\ \A u \in Threads : u # t => pc'[u] = pc[u] /\ held'[u] = held[u]
    <3>1. job'[k].state = new /\ \A l \in Keys : l # k => job'[l] = job[l]
      BY <1>2, <1>3, TransitionUpdates
    <3> QED
      BY <1>3, <3>1 DEF Goto, TypeOK
  <2>2. OneDriver'
    BY <1>1, <1>2, <1>3, <2>1, Driver DEF OneDriver, JobInv, Busy, k
  <2>3. \A i, o : \A l \in Keys : LastWord(l, i, o) => LastWord(l, i, o)'
    BY <1>3 DEF LastWord
  <2>4. InStep'
    BY <1>2, <1>3, <2>1, <2>3, Driver DEF InStep, JobInv, NotYet, Busy, k
  <2>5. NotYet' /\ ExecutedAtMostOnce'
    BY <1>2, <1>3, <2>1 DEF NotYet, ExecutedAtMostOnce, JobInv, Active
  <2>6. EvidenceIsLastWord'
    BY <1>2, <1>3, <2>1, <2>3 DEF EvidenceIsLastWord, JobInv, Terminal, Active
  <2> QED
    BY <2>2, <2>4, <2>5, <2>6 DEF JobInv
<1>4. CASE Start(t)
  <2>1. held[t] = "preflight"
    BY <1>4 DEF Start, JobInv, InStep
  <2> QED
    BY <1>3, <1>4, <2>1 DEF Start, Active, k
<1>5. CASE Verify(t)
  <2>1. held[t] = "running"
    BY <1>5 DEF Verify, JobInv, InStep
  <2> QED
    BY <1>3, <1>5, <2>1 DEF Verify, Active, k
<1>6. CASE Execute(t)
  <2>1. PICK step \in {"verify", "auditFailure"} :
          /\ pc' = [pc EXCEPT ![t] = step]
          /\ executed' = [executed EXCEPT ![k] = @ + 1]
          /\ UNCHANGED <<job, trail, key, held, event>>
    BY <1>6 DEF Execute, Goto, k
  <2>2. /\ held[t] = "running" /\ executed[k] = 0
    BY <1>6 DEF Execute, JobInv, InStep, k
  <2>3. /\ pc'[t] = step /\ executed'[k] = 1
        /\ \A u \in Threads : u # t => pc'[u] = pc[u]
        /\ \A l \in Keys : l # k => executed'[l] = executed[l]
    BY <1>2, <2>1, <2>2 DEF TypeOK
  <2>4. OneDriver'
    BY <1>1, <2>1, <2>3 DEF OneDriver, JobInv, Busy
  <2>5. \A i, o : \A l \in Keys : LastWord(l, i, o) => LastWord(l, i, o)'
    BY <2>1 DEF LastWord
  <2>6. InStep'
    BY <1>2, <2>1, <2>2, <2>3, <2>5, Driver DEF InStep, JobInv, Busy
  <2>7. NotYet' /\ ExecutedAtMostOnce'
    BY <1>2, <2>1, <2>2, <2>3 DEF NotYet, ExecutedAtMostOnce, JobInv
  <2>8. EvidenceIsLastWord'
    BY <2>1, <2>5 DEF EvidenceIsLastWord, JobInv
  <2> QED
    BY <2>4, <2>6, <2>7, <2>8 DEF JobInv
\* The driver records how its action ended.
<1>7. ASSUME NEW o \in {"succeeded", "failed"}, NEW step \in {"succeed", "fail"},
             RecordOutcome(t, o, step), pc[t] \in {"audit", "auditFailure"},
             step = "succeed" => o = "succeeded" /\ pc[t] = "audit",
             step = "fail" => o = "failed" /\ pc[t] = "auditFailure"
      PROVE  JobInv'
  <2>1. /\ Audit(k, o) /\ event' = [event EXCEPT ![t] = Len(trail) + 1]
        /\ pc' = [pc EXCEPT ![t] = step] /\ UNCHANGED <<job, key, held, executed>>
    BY <1>7 DEF RecordOutcome, Goto, k
  <2>2. /\ pc'[t] = step /\ event'[t] = Len(trail) + 1
        /\ \A u \in Threads : u # t => pc'[u] = pc[u] /\ event'[u] = event[u]
    BY <2>1 DEF TypeOK
  <2>3. OneDriver' /\ NotYet' /\ ExecutedAtMostOnce'
    BY <1>1, <2>1, <2>2 DEF OneDriver, NotYet, ExecutedAtMostOnce, JobInv, Busy
  <2>4. LastWord(k, event[t], o)'
    BY <1>2, <2>1, <2>2, LastWordWritten DEF k
  <2>5. \A i, p : \A l \in Keys : l # k /\ LastWord(l, i, p) => LastWord(l, i, p)'
    BY <1>2, <2>1, LastWordStands
  <2>6. InStep'
    <3>1. ASSUME NEW u \in Threads, u # t PROVE InStep!(u)'
      BY <1>2, <2>1, <2>2, <2>5, <3>1, Driver DEF InStep, JobInv, Busy
    <3>2. InStep!(t)'
      BY <1>7, <2>1, <2>2, <2>4 DEF InStep, JobInv, k
    <3> QED
      BY <3>1, <3>2 DEF InStep
  <2>7. EvidenceIsLastWord'
    BY <1>2, <2>1, <2>5 DEF EvidenceIsLastWord, JobInv, Terminal, Active
  <2> QED
    BY <2>3, <2>6, <2>7 DEF JobInv
<1>8. CASE AuditSuccess(t) \/ AuditFailure(t)
  BY <1>7, <1>8 DEF AuditSuccess, AuditFailure
\* The job ends, and its driver leaves.
<1>9. ASSUME NEW new \in Terminal, Finish(t, held[t], new), LastWord(k, event[t], new)
      PROVE  JobInv'
  <2>1. /\ Transition(k, held[t], new, event[t]) /\ Leave(t) /\ UNCHANGED <<trail, executed>>
    BY <1>9 DEF Finish, k
  <2>2. /\ job'[k].state = new /\ job'[k].evidence = event[t]
        /\ \A l \in Keys : l # k => job'[l] = job[l]
    BY <1>2, <2>1, TransitionUpdates
  <2>3. /\ pc'[t] = "idle"
        /\ \A u \in Threads : u # t =>
             pc'[u] = pc[u] /\ key'[u] = key[u] /\ held'[u] = held[u] /\ event'[u] = event[u]
    BY <2>1 DEF Leave, TypeOK
  <2>4. OneDriver'
    BY <1>1, <1>2, <2>2, <2>3, Driver DEF OneDriver, JobInv, Busy
  <2>5. \A i, o : \A l \in Keys : LastWord(l, i, o) => LastWord(l, i, o)'
    BY <2>1 DEF LastWord
  <2>6. InStep'
    BY <2>1, <2>3, <2>5, Driver DEF InStep, JobInv, Busy
  <2>7. NotYet' /\ ExecutedAtMostOnce'
    BY <1>2, <2>1, <2>2 DEF NotYet, ExecutedAtMostOnce, JobInv, Terminal
  <2>8. EvidenceIsLastWord'
    <3>1. ASSUME NEW l \in Keys, job'[l].state \in Terminal
          PROVE  LastWord(l, job[l].evidence, job[l].state)'
      <4>1. PICK i, o : i = job'[l].evidence /\ o = job'[l].state
        OBVIOUS
      <4>2. LastWord(l, i, o)
        BY <1>9, <2>2, <3>1, <4>1 DEF EvidenceIsLastWord, JobInv
      <4>3. LastWord(l, i, o)'
        BY <2>5, <4>2
      <4> QED
        BY <4>1, <4>3
    <3> QED
      BY <3>1 DEF EvidenceIsLastWord
  <2> QED
    BY <2>4, <2>6, <2>7, <2>8 DEF JobInv
<1>10. CASE Succeed(t) \/ Fail(t)
  BY <1>9, <1>10 DEF Succeed, Fail, JobInv, InStep, Terminal, k
<1> QED
  BY <1>4, <1>5, <1>6, <1>8, <1>10 DEF RunStep

LEMMA StoreRaisesKeeps ==
  ASSUME TypeOK, JobInv, NEW t \in Threads, StoreRaises(t)
  PROVE  JobInv'
<1>1. UNCHANGED <<job, trail, executed>> /\ Busy(t)
  BY DEF StoreRaises, Busy
<1>2. \A i, o : \A l \in Keys : LastWord(l, i, o) => LastWord(l, i, o)'
  BY <1>1 DEF LastWord
<1>3. NotYet' /\ ExecutedAtMostOnce' /\ EvidenceIsLastWord'
  BY <1>1, <1>2 DEF NotYet, ExecutedAtMostOnce, EvidenceIsLastWord, JobInv
<1>4. \A u \in Threads : u # t =>
        pc'[u] = pc[u] /\ key'[u] = key[u] /\ held'[u] = held[u] /\ event'[u] = event[u]
  BY DEF StoreRaises, Goto, Leave, TypeOK
<1>5. CASE pc'[t] = "idle"
  BY <1>1, <1>2, <1>3, <1>4, <1>5, Driver DEF OneDriver, InStep, JobInv, Busy
<1>6. CASE pc'[t] # "idle"
  <2>1. /\ pc[t] \in {"verify", "audit", "succeed"} /\ pc'[t] = "auditFailure"
        /\ UNCHANGED <<key, held, event>>
    BY <1>1, <1>6 DEF StoreRaises, Goto, Leave, TypeOK
  <2>2. held[t] \in {"running", "verifying"}
    BY <2>1 DEF JobInv, InStep
  <2>3. OneDriver'
    BY <1>1, <1>4, <2>1, Driver DEF OneDriver, JobInv, Busy
  <2>4. InStep'
    BY <1>1, <1>2, <1>4, <2>1, <2>2, Driver DEF InStep, JobInv, Busy
  <2> QED
    BY <1>3, <2>3, <2>4 DEF JobInv
<1> QED
  BY <1>5, <1>6

\* Every step keeps the invariant.
LEMMA JobInvStep ==
  ASSUME TypeOK, JobInv, [Next]_vars
  PROVE  JobInv'
<1>1. ASSUME NEW t \in Threads, NEW k \in Keys, NEW h \in Hashes, Create(t, k, h) PROVE JobInv'
  BY <1>1, CreateStep
<1>2. ASSUME UNCHANGED <<job, trail, threadVars, executed>> PROVE JobInv'
  <2>1. \A i, o : \A l \in Keys : LastWord(l, i, o) => LastWord(l, i, o)'
    BY <1>2 DEF LastWord
  <2>2. OneDriver' /\ NotYet' /\ ExecutedAtMostOnce' /\ EvidenceIsLastWord'
    BY <1>2, <2>1 DEF JobInv, OneDriver, NotYet, ExecutedAtMostOnce, EvidenceIsLastWord, Busy, threadVars
  <2>3. InStep'
    BY <1>2, <2>1, Driver DEF JobInv, InStep, Busy, threadVars
  <2> QED
    BY <2>2, <2>3 DEF JobInv
<1>3. ASSUME NEW k \in Keys, NEW h \in Hashes, Replay(k, h) PROVE JobInv'
  BY <1>2, <1>3 DEF Replay
<1>4. ASSUME NEW k \in Keys, NEW h \in Hashes, Conflict(k, h) PROVE JobInv'
  BY <1>4, ConflictStep
<1>5. ASSUME NEW t \in Threads, RunStep(t) PROVE JobInv'
  BY <1>5, RunStepKeeps
<1>6. ASSUME NEW t \in Threads, StoreRaises(t) PROVE JobInv'
  BY <1>6, StoreRaisesKeeps
<1>7. CASE Crash
  <2>1. UNCHANGED <<job, trail, executed>> /\ \A t \in Threads : pc'[t] = "idle"
    BY <1>7 DEF Crash
  <2>2. \A i, o : \A l \in Keys : LastWord(l, i, o) => LastWord(l, i, o)'
    BY <2>1 DEF LastWord
  <2> QED
    BY <2>1, <2>2 DEF JobInv, OneDriver, InStep, NotYet, ExecutedAtMostOnce, EvidenceIsLastWord, Busy
<1>8. CASE UNCHANGED vars
  BY <1>2, <1>8 DEF vars
<1> QED
  BY <1>1, <1>3, <1>4, <1>5, <1>6, <1>7, <1>8 DEF Next

-----------------------------------------------------------------------------
\* An idempotency key never executes its action twice: no retry, replay,
\* conflict, store failure or restart makes a second execution.
THEOREM OnceTheorem == Spec => []ExecutedAtMostOnce
<1>1. TypeOK /\ JobInv /\ [Next]_vars => JobInv'
  BY JobInvStep
<1>2. JobInv => ExecutedAtMostOnce
  BY DEF JobInv
<1> QED
  BY <1>1, <1>2, JobInvInit, TypeCorrect, PTL DEF Spec

\* The evidence of a finished job is the last word of the audit trail on it,
\* although a success may be audited before the transition that fails.
THEOREM EvidenceTheorem == Spec => []EvidenceIsLastWord
<1>1. TypeOK /\ JobInv /\ [Next]_vars => JobInv'
  BY JobInvStep
<1>2. JobInv => EvidenceIsLastWord
  BY DEF JobInv
<1> QED
  BY <1>1, <1>2, JobInvInit, TypeCorrect, PTL DEF Spec

\* A job has one driver, whose expected state is the stored one: concurrent
\* requests never make transition_action_job refuse.
THEOREM OneDriverTheorem == Spec => []OneDriver
<1>1. TypeOK /\ JobInv /\ [Next]_vars => JobInv'
  BY JobInvStep
<1>2. JobInv => OneDriver
  BY DEF JobInv
<1> QED
  BY <1>1, <1>2, JobInvInit, TypeCorrect, PTL DEF Spec

-----------------------------------------------------------------------------
\* No step touches a finished job or the request a job belongs to, and an
\* answer is the state the job then has.
LEMMA JobMoves ==
  ASSUME TypeOK, JobInv, [Next]_vars, NEW l \in Keys
  PROVE  /\ job[l].state \in Terminal => job'[l] = job[l]
         /\ job[l].hash # None => job'[l].hash = job[l].hash
         /\ answer'[l] = answer[l] \/ answer'[l] = job'[l].state
<1> DEFINE Moves == /\ job[l].state \in Terminal => job'[l] = job[l]
                    /\ job[l].hash # None => job'[l].hash = job[l].hash
                    /\ answer'[l] = answer[l] \/ answer'[l] = job'[l].state
<1>1. ASSUME UNCHANGED <<job, answer>> PROVE Moves
  BY <1>1
<1>2. ASSUME NEW t \in Threads, NEW k \in Keys, NEW h \in Hashes, Create(t, k, h) PROVE Moves
  BY <1>2 DEF Create, TypeOK, JobInv, NotYet, Terminal
<1>3. ASSUME NEW k \in Keys, NEW h \in Hashes, Replay(k, h) PROVE Moves
  BY <1>3 DEF Replay, Answer, TypeOK
<1>4. ASSUME NEW t \in Threads, RunStep(t) PROVE Moves
  <2>1. Busy(t) /\ key[t] \in Keys /\ held[t] \in Active /\ event[t] \in Nat
    BY <1>4 DEF RunStep, Start, Execute, Verify, AuditSuccess, AuditFailure, Succeed, Fail, Busy, TypeOK
  <2>2. ASSUME NEW expected \in Active, NEW new \in Active \cup Terminal, NEW e \in Nat,
               Transition(key[t], expected, new, e),
               answer' \in {answer, [answer EXCEPT ![key[t]] = new]}
        PROVE  Moves
    <3>k. PICK k \in Keys : k = key[t]
      BY <2>1
    <3>1. /\ \A m \in Keys : m # k => job'[m] = job[m]
          /\ job'[k].state = new /\ job'[k].hash = job[k].hash
          /\ job[k].state = expected
      <4>1. Transition(k, expected, new, e)
        BY <2>2, <3>k
      <4> QED
        BY <2>2, <4>1, TransitionUpdates
    <3>2. answer'[l] = answer[l] \/ (l = k /\ answer'[l] = new)
      BY <2>2, <3>k DEF TypeOK
    <3> QED
      BY <3>1, <3>2 DEF Active, Terminal
  <2>3. CASE Start(t)
    BY <2>2, <2>3 DEF Start, Active
  <2>4. CASE Verify(t)
    BY <2>2, <2>4 DEF Verify, Active
  <2>5. CASE Succeed(t)
    BY <2>1, <2>2, <2>5 DEF Succeed, Finish, Answer, Active, Terminal
  <2>6. CASE Fail(t)
    BY <2>1, <2>2, <2>6 DEF Fail, Finish, Answer, Terminal
  <2>7. CASE Execute(t) \/ AuditSuccess(t) \/ AuditFailure(t)
    BY <1>1, <2>7 DEF Execute, AuditSuccess, AuditFailure, RecordOutcome
  <2> QED
    BY <1>4, <2>3, <2>4, <2>5, <2>6, <2>7 DEF RunStep
<1>5. CASE \/ \E k \in Keys, h \in Hashes : Conflict(k, h)
           \/ \E t \in Threads : StoreRaises(t)
           \/ Crash \/ UNCHANGED vars
  BY <1>1, <1>5 DEF Conflict, StoreRaises, Crash, vars
<1> QED
  BY <1>2, <1>3, <1>4, <1>5 DEF Next

\* A finished job, and the request a job was created for, never change again.
THEOREM FinishedTheorem == Spec => FinishedStaysFinished
<1>1. TypeOK /\ JobInv /\ [Next]_vars => KeepsFinished
  BY JobMoves DEF KeepsFinished
<1>2. TypeOK /\ JobInv /\ [Next]_vars => JobInv'
  BY JobInvStep
<1> QED
  BY <1>1, <1>2, JobInvInit, TypeCorrect, PTL DEF Spec, FinishedStaysFinished

\* Whoever was told how a job ended was told so for good: no repeated request,
\* crash or store fault gives the job another end.
THEOREM AnswersTheorem == Spec => []AnswersStand
<1>1. Init => AnswersStand
  BY DEF Init, AnswersStand, Terminal
<1>2. TypeOK /\ JobInv /\ AnswersStand /\ [Next]_vars => AnswersStand'
  BY JobMoves DEF AnswersStand
<1>3. TypeOK /\ JobInv /\ [Next]_vars => JobInv'
  BY JobInvStep
<1> QED
  BY <1>1, <1>2, <1>3, JobInvInit, TypeCorrect, PTL DEF Spec
=============================================================================
