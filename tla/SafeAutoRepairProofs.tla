------------------------ MODULE SafeAutoRepairProofs ------------------------
(***************************************************************************)
(* What holds of safe automatic repair for any number of keys, workers,    *)
(* jobs and generations, wherever workers die and however the resource and *)
(* the policy move.                                                        *)
(***************************************************************************)
EXTENDS SafeAutoRepair, TLAPS

-----------------------------------------------------------------------------
(* The transition table.                                                   *)

LEMMA Table ==
  /\ Transitions["admitted"] = {"running"}
  /\ Transitions["running"] = {"verifying", "failed", "reconcile"}
  /\ Transitions["verifying"] = {"succeeded", "failed"}
  /\ \A s \in {"succeeded", "failed", "reconcile"} : Transitions[s] = {}
BY DEF Transitions, States

\* A save moves the one job it names, along the table.
LEMMA Saved ==
  ASSUME jobs \in [Created -> States], NEW j \in Created, NEW from, NEW to \in States, Save(j, from, to)
  PROVE  /\ jobs' \in [Created -> States] /\ Created' = Created
         /\ \A i \in Created : i # j => jobs'[i] = jobs[i]
         /\ jobs[j] = from /\ jobs'[j] = to /\ to \in Transitions[from]
BY DEF Save, Created

-----------------------------------------------------------------------------
(* The inductive invariant.                                                *)

Driving == {"execute", "record"}
Reporting == {"record", "confirm", "readBack", "complete"}

Reviewed(j) == j.recommendation.candidate.generation

\* Types; how often an action has run is left to RunsInPlace.
Types ==
  /\ resource \in Observations
  /\ policy \in BOOLEAN
  /\ history \subseteq Recommendations
  /\ Created \subseteq JobIds
  /\ jobs \in [Created -> States]
  /\ runs \in [JobIds -> Nat]
  /\ ranOn \in [JobIds -> (0 .. MaxGeneration) \cup {None}]
  /\ work \in [Workers -> JobIds \cup {None}]
  /\ pc \in [Workers -> {"idle", "execute", "record", "confirm", "readBack", "complete"}]
  /\ verdict \in [Workers -> BOOLEAN]
  /\ \A w \in Workers : pc[w] # "idle" => work[w] \in Created

\* A job was admitted on a generation that has been reached; its action has not
\* run before it is claimed, has run once it is verifying, and ran on no
\* generation before the reviewed one and none beyond the current one.
RunsInPlace ==
  \A j \in JobIds :
    /\ runs[j] \in {0, 1}
    /\ j \notin Created => runs[j] = 0
    /\ j \in Created =>
         /\ Eligible(j.recommendation)
         /\ Reviewed(j) <= resource.generation
         /\ jobs[j] = "admitted" => runs[j] = 0
         /\ jobs[j] \in {"verifying", "succeeded"} => runs[j] = 1
    /\ runs[j] = 1 =>
         /\ ranOn[j] \in 0 .. MaxGeneration
         /\ Reviewed(j) <= ranOn[j] /\ ranOn[j] <= resource.generation

\* One worker at a time drives a running job to its result.
OneDriver ==
  \A v, w \in Workers :
    v # w /\ pc[v] \in Driving /\ pc[w] \in Driving => work[v] # work[w]

\* Where a worker stands, its job has got to.
WorkersInPlace ==
  \A w \in Workers :
    /\ pc[w] \in Driving => jobs[work[w]] = "running"
    /\ pc[w] = "execute" => runs[work[w]] = 0
    /\ pc[w] \in Reporting => runs[work[w]] = 1
    /\ pc[w] = "complete" /\ verdict[w] => ranOn[work[w]] = Reviewed(work[w])

IInv == Types /\ RunsInPlace /\ OneDriver /\ WorkersInPlace /\ SuccessOnReviewedGeneration

-----------------------------------------------------------------------------
(* Each action keeps it.                                                   *)

LEMMA WorkerVars ==
  ASSUME Types, NEW w \in Workers, NEW step, Goto(w, step)
  PROVE  pc'[w] = step /\ \A v \in Workers : v # w => pc'[v] = pc[v]
BY DEF Types, Goto

LEMMA LeaveVars ==
  ASSUME Types, NEW w \in Workers, Leave(w)
  PROVE  /\ pc' \in [Workers -> {"idle", "execute", "record", "confirm", "readBack", "complete"}]
         /\ work' \in [Workers -> JobIds \cup {None}]
         /\ verdict' \in [Workers -> BOOLEAN]
         /\ pc'[w] = "idle"
         /\ \A v \in Workers : v # w => pc'[v] = pc[v] /\ work'[v] = work[v] /\ verdict'[v] = verdict[v]
BY DEF Types, Leave, Goto

\* What no worker and no job has a part in.
LEMMA WorldSteps ==
  ASSUME IInv, Append \/ Advance \/ Drift \/ ChangePolicy
  PROVE  IInv'
<1> USE BoundsAssumption
<1>1. Types' /\ UNCHANGED <<jobs, runs, ranOn, work, pc, verdict>>
  <2>1. CASE Append
    BY <2>1 DEF IInv, Append, Types, Created, world, ghosts, workerVars, Current, Recommendations, Candidates
  <2>2. CASE Advance \/ Drift \/ ChangePolicy
    BY <2>2 DEF IInv, Advance, Drift, ChangePolicy, Types, Created, ghosts, workerVars
  <2> QED
    BY <2>1, <2>2
<1>2. resource.generation <= resource'.generation /\ resource.generation \in Nat /\ resource'.generation \in Nat
  BY DEF IInv, Types, Observations, Append, Advance, Drift, ChangePolicy, world
<1>3. RunsInPlace'
  <2> SUFFICES ASSUME NEW j \in JobIds PROVE RunsInPlace!(j)'
    BY DEF RunsInPlace
  <2>1. Reviewed(j) \in Nat
    BY DEF JobIds, Recommendations, Candidates, Observations, Reviewed
  <2> QED
    BY <1>1, <1>2, <2>1 DEF IInv, RunsInPlace, Created, Eligible, Reviewed
<1> QED
  BY <1>1, <1>3 DEF IInv, OneDriver, WorkersInPlace, SuccessOnReviewedGeneration, Created, Reviewed

LEMMA CreateStep ==
  ASSUME IInv, NEW r \in Recommendations, NEW k \in Keys, Create(r, k)
  PROVE  IInv'
<1> DEFINE j == [recommendation |-> r, key |-> k]
<1>1. /\ j \in JobIds /\ j \notin Created /\ j.recommendation = r
      /\ jobs' = [i \in Created \cup {j} |-> IF i = j THEN "admitted" ELSE jobs[i]]
      /\ Admissible(r)
      /\ UNCHANGED <<resource, policy, history, runs, ranOn, work, pc, verdict>>
  BY DEF Create, JobIds, Keep, world, ghosts, workerVars
<1>2. Created' = Created \cup {j} /\ jobs' \in [Created' -> States]
  BY <1>1 DEF Created, States, IInv, Types
<1>3. jobs'[j] = "admitted" /\ \A i \in Created : i # j /\ jobs'[i] = jobs[i]
  BY <1>1
<1>4. Eligible(r) /\ Reviewed(j) = resource.generation
  BY <1>1 DEF Admissible, Current, Reviewed
<1> HIDE DEF j
<1>5. Types'
  BY <1>1, <1>2 DEF IInv, Types
<1>6. RunsInPlace'
  <2> SUFFICES ASSUME NEW i \in JobIds PROVE RunsInPlace!(i)'
    BY DEF RunsInPlace
  <2>1. CASE i = j
    <3>1. runs[j] = 0
      BY <1>1 DEF IInv, RunsInPlace
    <3>2. resource.generation \in Nat
      BY DEF IInv, Types, Observations
    <3> QED
      BY <1>1, <1>2, <1>3, <1>4, <2>1, <3>1, <3>2 DEF Eligible, Reviewed
  <2>2. CASE i # j
    BY <1>1, <1>2, <1>3, <2>2 DEF IInv, RunsInPlace, Eligible, Reviewed
  <2> QED
    BY <2>1, <2>2
<1>7. OneDriver' /\ WorkersInPlace'
  BY <1>1, <1>3 DEF IInv, Types, OneDriver, WorkersInPlace, Driving, Reporting, Reviewed
<1>8. SuccessOnReviewedGeneration'
  BY <1>1, <1>2, <1>3 DEF IInv, SuccessOnReviewedGeneration
<1> QED
  BY <1>5, <1>6, <1>7, <1>8 DEF IInv

LEMMA StartStep ==
  ASSUME IInv, NEW w \in Workers, NEW j \in Created, Start(w, j)
  PROVE  IInv'
<1>1. /\ jobs' \in [Created -> States] /\ Created' = Created
      /\ \A i \in Created : i # j => jobs'[i] = jobs[i]
      /\ jobs[j] = "admitted" /\ jobs'[j] = "running"
  BY Saved DEF Start, IInv, Types, States
<1>2. /\ UNCHANGED <<resource, policy, history, runs, ranOn, verdict>>
      /\ pc[w] = "idle" /\ pc'[w] = "execute" /\ work'[w] = j
      /\ \A v \in Workers : v # w => pc'[v] = pc[v] /\ work'[v] = work[v]
      /\ j \in JobIds
  BY WorkerVars DEF Start, IInv, Types, world, ghosts
<1>3. Types'
  BY <1>1, <1>2 DEF IInv, Types, Start, Goto
<1>4. RunsInPlace'
  BY <1>1, <1>2 DEF IInv, RunsInPlace, Eligible, Reviewed
<1>5. OneDriver'
  <2>1. \A v \in Workers : pc[v] \in Driving => work[v] # j
    BY <1>1 DEF IInv, WorkersInPlace
  <2> QED
    BY <1>2, <2>1 DEF IInv, OneDriver
<1>6. WorkersInPlace'
  <2>1. runs[j] = 0
    BY <1>1, <1>2 DEF IInv, RunsInPlace
  <2>2. \A v \in Workers : pc[v] # "idle" => work[v] \in Created
    BY DEF IInv, Types
  <2> QED
    BY <1>1, <1>2, <2>1, <2>2 DEF IInv, WorkersInPlace, Driving, Reporting, Reviewed
<1>7. SuccessOnReviewedGeneration'
  BY <1>1, <1>2 DEF IInv, SuccessOnReviewedGeneration
<1> QED
  BY <1>3, <1>4, <1>5, <1>6, <1>7 DEF IInv

LEMMA ResumeStep ==
  ASSUME IInv, NEW w \in Workers, NEW j \in Created, Resume(w, j)
  PROVE  IInv'
<1>1. /\ UNCHANGED <<resource, policy, history, jobs, runs, ranOn, verdict>>
      /\ pc'[w] = "readBack" /\ work'[w] = j /\ jobs[j] = "verifying"
      /\ \A v \in Workers : v # w => pc'[v] = pc[v] /\ work'[v] = work[v]
      /\ j \in JobIds
  BY WorkerVars DEF Resume, IInv, Types, world, ghosts
<1>2. Types'
  BY <1>1 DEF IInv, Types, Resume, Goto, Created
<1>3. RunsInPlace' /\ SuccessOnReviewedGeneration'
  BY <1>1 DEF IInv, RunsInPlace, SuccessOnReviewedGeneration, Created, Reviewed
<1>4. OneDriver'
  BY <1>1 DEF IInv, OneDriver, Driving
<1>5. WorkersInPlace'
  <2>1. runs[j] = 1
    BY <1>1 DEF IInv, RunsInPlace
  <2> QED
    BY <1>1, <2>1 DEF IInv, WorkersInPlace, Driving, Reporting, Reviewed
<1> QED
  BY <1>2, <1>3, <1>4, <1>5 DEF IInv

LEMMA ExecuteStep ==
  ASSUME IInv, NEW w \in Workers, Execute(w)
  PROVE  IInv'
<1> USE BoundsAssumption
<1> DEFINE j == work[w]
<1>1. /\ j \in Created /\ j \in JobIds /\ jobs[j] = "running" /\ runs[j] = 0 /\ pc[w] = "execute"
      /\ Reviewed(j) <= resource.generation
      /\ Reviewed(j) \in Nat /\ resource.generation \in 0 .. MaxGeneration
  <2>1. j \in Created /\ j \in JobIds /\ jobs[j] = "running" /\ runs[j] = 0 /\ pc[w] = "execute"
    BY DEF Execute, IInv, Types, WorkersInPlace, Driving
  <2>2. Reviewed(j) \in Nat /\ resource.generation \in 0 .. MaxGeneration
    BY <2>1 DEF IInv, Types, JobIds, Recommendations, Candidates, Observations, Reviewed
  <2> QED
    BY <2>1, <2>2 DEF IInv, RunsInPlace
<1>2. /\ UNCHANGED <<policy, history, jobs>>
      /\ runs'[j] = 1 /\ ranOn'[j] = resource.generation
      /\ \A i \in JobIds : i # j => runs'[i] = runs[i] /\ ranOn'[i] = ranOn[i]
      /\ runs' \in [JobIds -> Nat] /\ ranOn' \in [JobIds -> (0 .. MaxGeneration) \cup {None}]
  BY <1>1 DEF Execute, IInv, Types
<1>3. resource' \in Observations /\ resource'.generation = resource.generation
  BY DEF Execute, IInv, Types, Observations, Statuses
<1>4. /\ pc'[w] \in {"record", "idle"}
      /\ pc'[w] = "record" => work'[w] = j
      /\ \A v \in Workers : v # w => pc'[v] = pc[v] /\ work'[v] = work[v] /\ verdict'[v] = verdict[v]
      /\ pc' \in [Workers -> {"idle", "execute", "record", "confirm", "readBack", "complete"}]
      /\ work' \in [Workers -> JobIds \cup {None}] /\ verdict' \in [Workers -> BOOLEAN]
  BY LeaveVars, WorkerVars DEF Execute, IInv, Types, Goto
<1>5. \A v \in Workers : v # w /\ pc[v] \in Driving => work[v] # j
  BY <1>1 DEF IInv, OneDriver, Driving
<1> HIDE DEF j
<1>6. Types'
  BY <1>1, <1>2, <1>3, <1>4 DEF IInv, Types, Created
<1>7. RunsInPlace'
  <2> SUFFICES ASSUME NEW i \in JobIds PROVE RunsInPlace!(i)'
    BY DEF RunsInPlace
  <2>1. CASE i = j
    BY <1>1, <1>2, <1>3, <2>1 DEF IInv, RunsInPlace, Created, Reviewed
  <2>2. CASE i # j
    BY <1>2, <1>3, <2>2 DEF IInv, RunsInPlace, Created, Reviewed
  <2> QED
    BY <2>1, <2>2
<1>8. OneDriver'
  BY <1>4, <1>5 DEF IInv, OneDriver, Driving
<1>9. WorkersInPlace'
  <2> SUFFICES ASSUME NEW v \in Workers PROVE WorkersInPlace!(v)'
    BY DEF WorkersInPlace
  <2>1. CASE v = w
    BY <1>1, <1>2, <1>4, <2>1 DEF Driving, Reporting
  <2>2. CASE v # w /\ pc[v] = "idle"
    BY <1>4, <2>2 DEF Driving, Reporting
  <2>3. CASE v # w /\ pc[v] # "idle" /\ work[v] = j
    <3>1. pc[v] \notin Driving /\ pc[v] \notin Reporting
      BY <1>1, <1>5, <2>3 DEF IInv, WorkersInPlace
    <3> QED
      BY <1>4, <2>3, <3>1 DEF Driving, Reporting
  <2>4. CASE v # w /\ pc[v] # "idle" /\ work[v] # j
    <3>1. work[v] \in JobIds
      BY <2>4 DEF IInv, Types
    <3> QED
      BY <1>2, <1>4, <2>4, <3>1 DEF IInv, WorkersInPlace, Reviewed
  <2> QED
    BY <2>1, <2>2, <2>3, <2>4
<1>10. SuccessOnReviewedGeneration'
  BY <1>1, <1>2 DEF IInv, Types, SuccessOnReviewedGeneration, Created
<1> QED
  BY <1>6, <1>7, <1>8, <1>9, <1>10 DEF IInv

LEMMA RecordStep ==
  ASSUME IInv, NEW w \in Workers, Record(w)
  PROVE  IInv'
<1> DEFINE j == work[w]
<1>1. j \in Created /\ j \in JobIds /\ jobs[j] = "running" /\ runs[j] = 1 /\ pc[w] = "record"
  BY DEF Record, IInv, Types, WorkersInPlace, Driving, Reporting
<1>2. /\ jobs' \in [Created -> States] /\ Created' = Created
      /\ \A i \in Created : i # j => jobs'[i] = jobs[i]
      /\ jobs'[j] \in {"verifying", "failed", "reconcile"}
  <2>1. PICK to \in {"verifying", "failed", "reconcile"} : Save(j, "running", to)
    BY DEF Record
  <2>2. to \in States
    BY DEF States
  <2> QED
    BY <1>1, <2>1, <2>2, Saved DEF IInv, Types
<1>3. /\ UNCHANGED <<resource, policy, history, runs, ranOn>>
      /\ pc'[w] \in {"confirm", "idle"}
      /\ pc'[w] = "confirm" => work'[w] = j
      /\ \A v \in Workers : v # w => pc'[v] = pc[v] /\ work'[v] = work[v] /\ verdict'[v] = verdict[v]
      /\ pc' \in [Workers -> {"idle", "execute", "record", "confirm", "readBack", "complete"}]
      /\ work' \in [Workers -> JobIds \cup {None}] /\ verdict' \in [Workers -> BOOLEAN]
  <2>1. CASE Leave(w)
    BY <2>1, LeaveVars DEF Record, IInv, world, ghosts
  <2>2. CASE Goto(w, "confirm") /\ UNCHANGED <<work, verdict>>
    BY <2>2, WorkerVars DEF Record, IInv, Types, Goto, world, ghosts
  <2> QED
    BY <2>1, <2>2 DEF Record
<1>4. \A v \in Workers : v # w /\ pc[v] \in Driving => work[v] # j
  BY <1>1 DEF IInv, OneDriver, Driving
<1> HIDE DEF j
<1>5. Types'
  BY <1>1, <1>2, <1>3 DEF IInv, Types
<1>6. RunsInPlace'
  BY <1>1, <1>2, <1>3 DEF IInv, RunsInPlace, Eligible, Reviewed
<1>7. OneDriver'
  BY <1>3 DEF IInv, OneDriver, Driving
<1>8. WorkersInPlace'
  <2>1. \A v \in Workers : pc[v] # "idle" => work[v] \in Created
    BY DEF IInv, Types
  <2> QED
    BY <1>1, <1>2, <1>3, <1>4, <2>1 DEF IInv, WorkersInPlace, Driving, Reporting, Reviewed
<1>9. SuccessOnReviewedGeneration'
  BY <1>2, <1>3 DEF IInv, SuccessOnReviewedGeneration
<1> QED
  BY <1>5, <1>6, <1>7, <1>8, <1>9 DEF IInv

LEMMA ConfirmStep ==
  ASSUME IInv, NEW w \in Workers, Confirm(w) \/ Die(w)
  PROVE  IInv'
<1>1. /\ UNCHANGED <<resource, policy, history, jobs, runs, ranOn>>
      /\ \/ pc'[w] = "idle"
         \/ pc[w] = "confirm" /\ pc'[w] = "readBack" /\ work'[w] = work[w] /\ work[w] \in Created
      /\ \A v \in Workers : v # w => pc'[v] = pc[v] /\ work'[v] = work[v] /\ verdict'[v] = verdict[v]
      /\ pc' \in [Workers -> {"idle", "execute", "record", "confirm", "readBack", "complete"}]
      /\ work' \in [Workers -> JobIds \cup {None}] /\ verdict' \in [Workers -> BOOLEAN]
  <2>1. CASE Leave(w)
    BY <2>1, LeaveVars DEF Confirm, Die, IInv, world, ghosts
  <2>2. CASE Confirm(w) /\ Goto(w, "readBack") /\ UNCHANGED <<work, verdict>>
    BY <2>2, WorkerVars DEF Confirm, IInv, Types, Goto, world, ghosts
  <2> QED
    BY <2>1, <2>2 DEF Confirm, Die
<1>2. Types'
  BY <1>1 DEF IInv, Types, Created
<1>3. RunsInPlace' /\ SuccessOnReviewedGeneration'
  BY <1>1 DEF IInv, RunsInPlace, SuccessOnReviewedGeneration, Created, Reviewed
<1>4. OneDriver'
  BY <1>1 DEF IInv, OneDriver, Driving
<1>5. WorkersInPlace'
  BY <1>1 DEF IInv, WorkersInPlace, Driving, Reporting, Reviewed
<1> QED
  BY <1>2, <1>3, <1>4, <1>5 DEF IInv

\* The read-back matches at the reviewed generation only, and the action ran on
\* a generation between the reviewed and the current one.
LEMMA ReadBackStep ==
  ASSUME IInv, NEW w \in Workers, ReadBack(w)
  PROVE  IInv'
<1> DEFINE j == work[w]
<1>1. j \in Created /\ j \in JobIds /\ runs[j] = 1 /\ pc[w] = "readBack"
  BY DEF ReadBack, IInv, Types, WorkersInPlace, Reporting
<1>2. /\ UNCHANGED <<resource, policy, history, jobs, runs, ranOn, work>>
      /\ pc'[w] = "complete"
      /\ \A v \in Workers : v # w => pc'[v] = pc[v] /\ verdict'[v] = verdict[v]
      /\ pc' \in [Workers -> {"idle", "execute", "record", "confirm", "readBack", "complete"}]
      /\ verdict'[w] = Matched(j.recommendation, resource)
      /\ verdict' \in [Workers -> BOOLEAN]
  BY WorkerVars DEF ReadBack, IInv, Types, Goto, world, ghosts, Matched
<1>3. verdict'[w] => ranOn[j] = Reviewed(j)
  <2>1. verdict'[w] => resource.generation = Reviewed(j)
    BY <1>2 DEF Matched, Reviewed
  <2>2. /\ ranOn[j] \in 0 .. MaxGeneration /\ Reviewed(j) <= ranOn[j] /\ ranOn[j] <= resource.generation
    BY <1>1 DEF IInv, RunsInPlace
  <2>3. Reviewed(j) \in Nat /\ resource.generation \in Nat
    BY <1>1 DEF IInv, Types, JobIds, Recommendations, Candidates, Observations, Reviewed
  <2> QED
    BY <2>1, <2>2, <2>3
<1> HIDE DEF j
<1>4. Types'
  BY <1>1, <1>2 DEF IInv, Types, Created, j
<1>5. RunsInPlace' /\ SuccessOnReviewedGeneration'
  BY <1>2 DEF IInv, RunsInPlace, SuccessOnReviewedGeneration, Created, Reviewed
<1>6. OneDriver'
  BY <1>2 DEF IInv, OneDriver, Driving
<1>7. WorkersInPlace'
  BY <1>1, <1>2, <1>3 DEF IInv, WorkersInPlace, Driving, Reporting, Reviewed, j
<1> QED
  BY <1>4, <1>5, <1>6, <1>7 DEF IInv

LEMMA CompleteStep ==
  ASSUME IInv, NEW w \in Workers, Complete(w)
  PROVE  IInv'
<1> DEFINE j == work[w]
<1>1. /\ j \in Created /\ j \in JobIds /\ runs[j] = 1 /\ jobs[j] = "verifying"
      /\ verdict[w] => ranOn[j] = Reviewed(j)
  BY DEF Complete, Save, IInv, Types, WorkersInPlace, Reporting
<1>2. /\ jobs' \in [Created -> States] /\ Created' = Created
      /\ \A i \in Created : i # j => jobs'[i] = jobs[i]
      /\ jobs'[j] \in {"succeeded", "failed"}
      /\ jobs'[j] = "succeeded" => verdict[w]
  <2>1. PICK to \in {"succeeded", "failed"} : Save(j, "verifying", to) /\ (to = "succeeded" => verdict[w])
    BY DEF Complete
  <2>2. to \in States
    BY DEF States
  <2> QED
    BY <1>1, <2>1, <2>2, Saved DEF IInv, Types
<1>3. /\ UNCHANGED <<resource, policy, history, runs, ranOn>>
      /\ pc'[w] = "idle"
      /\ \A v \in Workers : v # w => pc'[v] = pc[v] /\ work'[v] = work[v] /\ verdict'[v] = verdict[v]
      /\ pc' \in [Workers -> {"idle", "execute", "record", "confirm", "readBack", "complete"}]
      /\ work' \in [Workers -> JobIds \cup {None}] /\ verdict' \in [Workers -> BOOLEAN]
  BY LeaveVars DEF Complete, IInv, world, ghosts
<1> HIDE DEF j
<1>4. Types'
  BY <1>2, <1>3 DEF IInv, Types
<1>5. RunsInPlace'
  BY <1>1, <1>2, <1>3 DEF IInv, RunsInPlace, Eligible, Reviewed
<1>6. OneDriver'
  BY <1>3 DEF IInv, OneDriver, Driving
<1>7. WorkersInPlace'
  <2>1. \A v \in Workers : pc[v] # "idle" => work[v] \in Created
    BY DEF IInv, Types
  <2> QED
    BY <1>1, <1>2, <1>3, <2>1 DEF IInv, WorkersInPlace, Driving, Reporting, Reviewed
<1>8. SuccessOnReviewedGeneration'
  BY <1>1, <1>2, <1>3 DEF IInv, SuccessOnReviewedGeneration, Reviewed
<1> QED
  BY <1>4, <1>5, <1>6, <1>7, <1>8 DEF IInv

LEMMA Invariant == Spec => []IInv
<1> USE BoundsAssumption
<1>1. Init => IInv
  <2> SUFFICES ASSUME Init PROVE IInv
    OBVIOUS
  <2>1. Created = {} /\ jobs \in [Created -> States]
    BY DEF Init, Created
  <2>2. Types
    BY <2>1 DEF Init, Types
  <2> QED
    BY <2>1, <2>2 DEF Init, IInv, RunsInPlace, OneDriver, WorkersInPlace, SuccessOnReviewedGeneration,
       Driving, Reporting
<1>2. IInv /\ [Next]_vars => IInv'
  <2> SUFFICES ASSUME IInv, [Next]_vars PROVE IInv'
    OBVIOUS
  <2>1. CASE UNCHANGED vars
    BY <2>1 DEF vars, world, ghosts, workerVars, IInv, Types, RunsInPlace, OneDriver, WorkersInPlace,
       SuccessOnReviewedGeneration, Created, Reviewed
  <2> QED
    BY <2>1, WorldSteps, CreateStep, StartStep, ResumeStep, ExecuteStep, RecordStep, ConfirmStep,
       ReadBackStep, CompleteStep DEF Next
<1> QED
  BY <1>1, <1>2, PTL DEF Spec

-----------------------------------------------------------------------------
(* The theorems.                                                           *)

\* Every variable of the repair model keeps its type.
THEOREM TypeCorrect == Spec => []TypeOK
<1>1. IInv => TypeOK
  BY DEF IInv, Types, RunsInPlace, TypeOK
<1> QED
  BY <1>1, Invariant, PTL

\* However often workers are called for a job, wherever they die and however
\* they race, its action runs at most once.
THEOREM OnceTheorem == Spec => []RunAtMostOnce
<1>1. IInv => RunAtMostOnce
  BY DEF IInv, RunsInPlace, RunAtMostOnce
<1> QED
  BY <1>1, Invariant, PTL

\* A job that succeeded ran its action on the generation that was reviewed.
THEOREM ReviewedTheorem == Spec => []SuccessOnReviewedGeneration
<1>1. IInv => SuccessOnReviewedGeneration
  BY DEF IInv
<1> QED
  BY <1>1, Invariant, PTL

\* The history can always be read, and shows "fixed" only where an action ran.
THEOREM HistoryTheorem == Spec => []HistoryReadable
<1>1. IInv => HistoryReadable
  <2> SUFFICES ASSUME IInv, NEW r \in history
               PROVE  /\ "error" \notin Shown(r)
                      /\ "fixed" \in Shown(r) => \E j \in Of(r) : runs[j] = 1
    BY DEF HistoryReadable
  <2>1. CASE Of(r) = {}
    BY <2>1 DEF Shown, Status
  <2>2. CASE Of(r) # {}
    <3>1. ASSUME NEW j \in Of(r)
          PROVE  Status(r, j) # "error" /\ (Status(r, j) = "fixed" => runs[j] = 1)
      <4>1. j \in Created /\ j \in JobIds /\ Eligible(r) /\ jobs[j] \in States
        BY DEF Of, IInv, Types, RunsInPlace
      <4>2. CASE jobs[j] = "succeeded"
        BY <4>1, <4>2 DEF Status, IInv, RunsInPlace
      <4>3. CASE jobs[j] # "succeeded"
        BY <4>1, <4>3 DEF Status, States
      <4> QED
        BY <4>2, <4>3
    <3> QED
      BY <2>2, <3>1 DEF Shown
  <2> QED
    BY <2>1, <2>2
<1> QED
  BY <1>1, Invariant, PTL

\* No step takes a job back, changes how it ended or forgets it.
THEOREM AdvanceTheorem == Spec => JobsOnlyAdvance
<1>1. IInv /\ [Next]_vars => [Advances]_vars
  <2> SUFFICES ASSUME IInv, Next PROVE Advances \/ UNCHANGED jobs
    BY DEF Advances, Created, vars
  <2>1. ASSUME NEW j \in Created, NEW from, NEW to \in States, Save(j, from, to) PROVE Advances
    BY <2>1, Saved DEF IInv, Types, Advances, Created
  <2>2. ASSUME NEW r \in Recommendations, NEW k \in Keys, Create(r, k) PROVE Advances
    BY <2>2 DEF Create, Advances, Created
  <2>3. ASSUME NEW w \in Workers, Record(w) PROVE Advances
    <3>1. work[w] \in Created
      BY <2>3 DEF Record, IInv, Types
    <3> QED
      BY <2>1, <2>3, <3>1 DEF Record, States
  <2>4. ASSUME NEW w \in Workers, Complete(w) PROVE Advances
    <3>1. work[w] \in Created
      BY <2>4 DEF Complete, IInv, Types
    <3>2. PICK to \in {"succeeded", "failed"} : Save(work[w], "verifying", to)
      BY <2>4 DEF Complete
    <3> QED
      BY <2>1, <3>1, <3>2 DEF States
  <2>5. ASSUME NEW w \in Workers, NEW j \in Created, Start(w, j) PROVE Advances
    BY <2>1, <2>5 DEF Start, States
  <2> QED
    BY <2>2, <2>3, <2>4, <2>5 DEF Next, Append, Advance, Drift, ChangePolicy, Resume, Execute, Confirm, ReadBack, Die
<1> QED
  BY <1>1, Invariant, PTL DEF Spec, JobsOnlyAdvance
=============================================================================
