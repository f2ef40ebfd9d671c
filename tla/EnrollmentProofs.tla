------------------------- MODULE EnrollmentProofs -------------------------
(***************************************************************************)
(* What holds of one enrollment plan for any number of request keys,       *)
(* threads and crashes: of its execution by itself, and of the execution   *)
(* with the verification, cleanup and scrub that follow it.                *)
(***************************************************************************)
EXTENDS EnrollmentOutcome, TLAPS

-----------------------------------------------------------------------------
(* The inductive invariant, in the order its parts rest on one another.    *)

\* The lock admits one request at a time.
OneRequest == \A t, u \in Threads : Busy(t) /\ Busy(u) => t = u

AttemptState(step) ==
  CASE step = "run" -> "preflight"
    [] step \in {"start", "failSafe", "failUnsure", "accept"} -> "running"
    [] step = "succeed" -> "verifying"
    [] OTHER -> "succeeded"

\* A start or retry under way works on the latest attempt, in the state its
\* step has put it, of a plan without receipt; its copy is the envelope.
InAttempt ==
  /\ \A t \in Threads : pc[t] \in AttemptSteps =>
       /\ attempts # <<>> /\ work[t] = Latest
       /\ job[Latest].state = AttemptState(pc[t])
       /\ env.receipt = None /\ copy[t] = env
  /\ env.cancel # None => env.receipt # None

CancelState(step) ==
  CASE step = "cancelRun" -> "preflight"
    [] step \in {"cancel", "cancelFail", "cancelAccept"} -> "running"
    [] step = "cancelSucceed" -> "verifying"
    [] OTHER -> "succeeded"

\* A cancellation under way is the only one there ever was.
InCancel ==
  \A t \in Threads : pc[t] \in CancelSteps =>
    /\ job[work[t]].state = CancelState(pc[t])
    /\ \A d \in CancelKeys \ {work[t]} : job[d].state = "absent"
    /\ env.receipt # None /\ env.cancel = None /\ copy[t] = env

\* No attempt can have been accepted yet: there is none, the latest failed
\* safely or has not reached the provider, or a thread knows that it failed.
Untried ==
  \/ attempts = <<>>
  \/ SafelyFailed(Latest) \/ job[Latest].state = "preflight"
  \/ \E t \in Threads : pc[t] \in {"start", "failSafe"}

\* What the provider accepted, read off the latest attempt.
Tried ==
  /\ AcceptedAtMostOnce
  /\ Untried => accepted = 0
  /\ attempts # <<>> /\ job[Latest].state \in {"verifying", "succeeded"} => accepted = 1
  /\ \A t \in Threads : pc[t] = "accept" => accepted = 1

\* A job that has not reached the provider has sent nothing.
OneCommand ==
  /\ OneCommandPerJob
  /\ \A k \in AttemptKeys : job[k].state \in {"absent", "preflight"} => commands[k] = 0
  /\ \A t \in Threads : pc[t] = "start" => commands[work[t]] = 0

\* The same of the cancellation.
OneCancel ==
  /\ cancelled \in 0..1
  /\ (\A q \in CancelKeys : job[q].state \in {"absent", "preflight"}) => cancelled = 0
  /\ \A q \in CancelKeys : job[q].state \in {"verifying", "succeeded"} => cancelled = 1
  /\ \A t \in Threads : /\ pc[t] = "cancel" => cancelled = 0
                        /\ pc[t] = "cancelAccept" => cancelled = 1
  /\ env.cancel # None => cancelled = 1

PlanInv ==
  /\ TypeOK /\ OneRequest /\ InAttempt /\ InCancel
  /\ SeriesEndsInDoubt /\ Tried /\ OneCommand /\ OneCancel

-----------------------------------------------------------------------------
(* What the helpers do.                                                    *)

ProgramPlaces == {"idle"} \cup AttemptSteps \cup CancelSteps

LEMMA EnterFacts ==
  ASSUME TypeOK, NEW t \in Threads, NEW k, NEW step, NEW again, Enter(t, k, step, again)
  PROVE  /\ \A u \in Threads : ~Busy(u)
         /\ pc'[t] = step /\ work'[t] = k /\ copy'[t] = env
         /\ \A u \in Threads : u # t => pc'[u] = "idle"
         /\ UNCHANGED <<env, commands, accepted, cancelled, crashes>>
BY DEF Enter, LockFree, Busy, Goto, TypeOK, provider

LEMMA EnterTypes ==
  ASSUME TypeOK, NEW t \in Threads, NEW k \in Keys, NEW step \in AttemptSteps \cup CancelSteps,
         NEW again \in BOOLEAN, Enter(t, k, step, again),
         step \in AttemptSteps => k \in AttemptKeys, step \in CancelSteps => k \in CancelKeys,
         attempts' \in Seq(AttemptKeys), job' \in [Keys -> Jobs]
  PROVE  TypeOK'
<1>1. copy' \in [Threads -> Envelope] /\ resumed' \in [Threads -> BOOLEAN]
      /\ work' \in [Threads -> Keys \cup {None}] /\ pc' \in [Threads -> ProgramPlaces]
  BY DEF Enter, Goto, TypeOK, ProgramPlaces
<1>2. \A u \in Threads : (pc'[u] \in AttemptSteps => work'[u] \in AttemptKeys)
                      /\ (pc'[u] \in CancelSteps => work'[u] \in CancelKeys)
  BY EnterFacts DEF AttemptSteps, CancelSteps
<1> QED
  BY <1>1, <1>2 DEF Enter, TypeOK, provider, ProgramPlaces

LEMMA LeaveFacts ==
  ASSUME TypeOK, NEW t \in Threads, Leave(t)
  PROVE  /\ pc'[t] = "idle"
         /\ \A u \in Threads : u # t => pc'[u] = pc[u]
         /\ pc' \in [Threads -> ProgramPlaces] /\ work' \in [Threads -> Keys \cup {None}]
         /\ copy' \in [Threads -> Envelope] /\ resumed' \in [Threads -> BOOLEAN]
         /\ \A u \in Threads : (pc'[u] \in AttemptSteps => work'[u] \in AttemptKeys)
                            /\ (pc'[u] \in CancelSteps => work'[u] \in CancelKeys)
<1>1. Blank \in Envelope
  BY DEF Blank, Envelope
<1> QED
  BY <1>1 DEF Leave, TypeOK, ProgramPlaces, AttemptSteps, CancelSteps

\* Another step of the same request.
LEMMA GotoFacts ==
  ASSUME TypeOK, NEW t \in Threads, NEW step, Goto(t, step), UNCHANGED <<work, copy, resumed>>,
         \/ pc[t] \in AttemptSteps /\ step \in AttemptSteps
         \/ pc[t] \in CancelSteps /\ step \in CancelSteps
  PROVE  /\ pc'[t] = step
         /\ \A u \in Threads : u # t => pc'[u] = pc[u]
         /\ pc' \in [Threads -> ProgramPlaces]
         /\ \A u \in Threads : (pc'[u] \in AttemptSteps => work'[u] \in AttemptKeys)
                            /\ (pc'[u] \in CancelSteps => work'[u] \in CancelKeys)
BY DEF Goto, TypeOK, ProgramPlaces, AttemptSteps, CancelSteps

LEMMA MoveFacts ==
  ASSUME TypeOK, NEW t \in Threads, work[t] \in Keys, NEW from, NEW to \in States, Move(t, from, to)
  PROVE  /\ job[work[t]].state = from
         /\ job' \in [Keys -> Jobs]
         /\ job'[work[t]].state = to /\ job'[work[t]].retrySafe = job[work[t]].retrySafe
         /\ \A k \in Keys : k # work[t] => job'[k] = job[k]
<1> DEFINE new == [job[work[t]] EXCEPT !.state = to]
<1>1. new \in Jobs /\ new.state = to /\ new.retrySafe = job[work[t]].retrySafe
  <2>1. job[work[t]] \in Jobs
    BY DEF TypeOK
  <2> QED
    BY <2>1 DEF Jobs
<1>2. job' = [job EXCEPT ![work[t]] = new]
  BY DEF Move
<1> HIDE DEF new
<1> QED
  BY <1>1, <1>2 DEF Move, TypeOK

LEMMA CreateFacts ==
  ASSUME TypeOK, NEW k \in AttemptKeys, NEW parent \in AttemptKeys \cup {None}, CreateAttempt(k, parent)
  PROVE  /\ job[k].state = "absent"
         /\ job' \in [Keys -> Jobs]
         /\ job'[k].state = "preflight"
         /\ \A i \in Keys : i # k => job'[i] = job[i]
         /\ attempts' \in Seq(AttemptKeys)
         /\ attempts' # <<>> /\ Latest' = k
         /\ Len(attempts') = Len(attempts) + 1
         /\ \A i \in 1 .. Len(attempts) : attempts'[i] = attempts[i]
<1> DEFINE new == [NoJob EXCEPT !.state = "preflight", !.retryOf = parent]
<1>1. new \in Jobs /\ new.state = "preflight"
  BY DEF NoJob, Jobs, States
<1>2. job' = [job EXCEPT ![k] = new] /\ attempts' = Append(attempts, k) /\ job[k].state = "absent"
  BY DEF CreateAttempt
<1> HIDE DEF new
<1>3. job' \in [Keys -> Jobs] /\ job'[k].state = "preflight" /\ \A i \in Keys : i # k => job'[i] = job[i]
  BY <1>1, <1>2 DEF TypeOK, Keys
<1>4. attempts \in Seq(AttemptKeys)
  BY DEF TypeOK
<1> QED
  BY <1>2, <1>3, <1>4 DEF Latest

LEMMA FailFacts ==
  ASSUME TypeOK, NEW t \in Threads, Fail(t)
  PROVE  /\ job' \in [Keys -> Jobs]
         /\ job'[work[t]].state = "failed"
         /\ job'[work[t]].retrySafe <=> pc[t] = "failSafe"
         /\ \A k \in Keys : k # work[t] => job'[k] = job[k]
<1>k. work[t] \in Keys /\ job \in [Keys -> Jobs]
  BY DEF Fail, TypeOK, AttemptSteps, Keys
<1>1. PICK b \in BOOLEAN : /\ b <=> pc[t] = "failSafe"
                           /\ job' = [job EXCEPT ![work[t]].state = "failed", ![work[t]].retrySafe = b]
  BY DEF Fail
<1> DEFINE new == [job[work[t]] EXCEPT !.state = "failed", !.retrySafe = b]
<1>2. new \in Jobs /\ new.state = "failed" /\ new.retrySafe = b
  BY <1>k DEF Jobs, States
<1>3. job' = [job EXCEPT ![work[t]] = new]
  BY <1>1, <1>k
<1> HIDE DEF new
<1> QED
  BY <1>1, <1>2, <1>3, <1>k

LEMMA AcceptFacts ==
  ASSUME TypeOK, NEW t \in Threads, Accept(t) \/ CancelAccept(t)
  PROVE  /\ work[t] \in Keys
         /\ job' \in [Keys -> Jobs]
         /\ job'[work[t]].state = "verifying"
         /\ \A k \in Keys : k # work[t] => job'[k] = job[k]
<1>k. work[t] \in Keys /\ job \in [Keys -> Jobs]
  BY DEF Accept, CancelAccept, TypeOK, AttemptSteps, CancelSteps, Keys
<1>1. PICK r \in {"bare", "typed"} :
        job' = [job EXCEPT ![work[t]].state = "verifying", ![work[t]].result = r]
  BY DEF Accept, CancelAccept
<1> DEFINE new == [job[work[t]] EXCEPT !.state = "verifying", !.result = r]
<1>2. new \in Jobs /\ new.state = "verifying"
  BY <1>k DEF Jobs, States
<1>3. job' = [job EXCEPT ![work[t]] = new]
  BY <1>1, <1>k
<1> HIDE DEF new
<1> QED
  BY <1>2, <1>3, <1>k

LEMMA BeginCancelFacts ==
  ASSUME TypeOK, NEW t \in Threads, NEW q \in CancelKeys, BeginCancel(t, q)
  PROVE  /\ job' \in [Keys -> Jobs]
         /\ job'[q].state = "preflight"
         /\ \A k \in Keys : k # q => job'[k] = job[k]
<1> DEFINE new == [job[q] EXCEPT !.state = "preflight"]
<1>1. new \in Jobs /\ new.state = "preflight"
  BY DEF TypeOK, Jobs, States, Keys
<1>2. job' = [job EXCEPT ![q] = new]
  BY DEF BeginCancel
<1> HIDE DEF new
<1> QED
  BY <1>1, <1>2 DEF TypeOK, Keys

\* The latest attempt is one.
LEMMA LatestType ==
  ASSUME TypeOK, attempts # <<>>
  PROVE  Latest \in AttemptKeys /\ Latest \in Keys /\ Len(attempts) >= 1
BY DEF TypeOK, Latest, Keys

-----------------------------------------------------------------------------
(* Types and the lock.                                                     *)

LEMMA TypeStep ==
  ASSUME TypeOK, [Next]_vars
  PROVE  TypeOK'
<1> USE DEF provider, durable
<1>t. job \in [Keys -> Jobs] /\ attempts \in Seq(AttemptKeys) /\ AttemptKeys \subseteq Keys
      /\ CancelKeys \subseteq Keys
  BY DEF TypeOK, Keys
<1>1. ASSUME NEW t \in Threads, NEW k \in Keys, BeginStart(t, k) \/ BeginRetry(t, k) PROVE TypeOK'
  <2>1. k \in AttemptKeys /\ Enter(t, k, "run", FALSE)
    BY <1>1 DEF BeginStart, BeginRetry, AttemptKeys
  <2>2. PICK parent \in AttemptKeys \cup {None} : CreateAttempt(k, parent)
    BY <1>1, LatestType DEF BeginStart, BeginRetry
  <2> QED
    BY <2>1, <2>2, CreateFacts, EnterTypes DEF AttemptSteps, CancelSteps
<1>2. ASSUME NEW t \in Threads, NEW k \in Keys, Resume(t, k) \/ Finalize(t, k) PROVE TypeOK'
  BY <1>1, <1>2, <1>t, EnterTypes DEF Resume, Finalize, AttemptSteps, CancelSteps
<1>3. ASSUME NEW t \in Threads, NEW k \in Keys, BeginCancel(t, k) PROVE TypeOK'
  BY <1>3, <1>t, BeginCancelFacts, EnterTypes DEF BeginCancel, AttemptSteps, CancelSteps
<1>4. ASSUME NEW t \in Threads, NEW k \in Keys, ResumeCancel(t, k) PROVE TypeOK'
  BY <1>4, <1>t, EnterTypes DEF ResumeCancel, AttemptSteps, CancelSteps
<1>5. ASSUME NEW t \in Threads, Run(t) \/ Succeed(t) PROVE TypeOK'
  <2>1. work[t] \in Keys
    BY <1>5, <1>t DEF Run, Succeed, TypeOK, AttemptSteps
  <2>2. job' \in [Keys -> Jobs]
    BY <1>5, <2>1, MoveFacts DEF Run, Succeed, States
  <2> QED
    BY <1>5, <2>2, GotoFacts DEF Run, Succeed, TypeOK, AttemptSteps, CancelSteps, ProgramPlaces
<1>6. ASSUME NEW t \in Threads, CancelRun(t) \/ CancelSucceed(t) PROVE TypeOK'
  <2>1. work[t] \in Keys
    BY <1>6, <1>t DEF CancelRun, CancelSucceed, TypeOK, CancelSteps
  <2>2. job' \in [Keys -> Jobs]
    BY <1>6, <2>1, MoveFacts DEF CancelRun, CancelSucceed, States
  <2> QED
    BY <1>6, <2>2, GotoFacts DEF CancelRun, CancelSucceed, TypeOK, AttemptSteps, CancelSteps, ProgramPlaces
<1>7. ASSUME NEW t \in Threads, StartAtProvider(t) PROVE TypeOK'
  <2>1. commands' \in [AttemptKeys -> Nat]
    BY <1>7 DEF StartAtProvider, TypeOK, AttemptSteps
  <2>2. accepted' \in Nat
    BY <1>7 DEF StartAtProvider, TypeOK
  <2> QED
    BY <1>7, <2>1, <2>2, GotoFacts DEF StartAtProvider, TypeOK, AttemptSteps, CancelSteps, ProgramPlaces
<1>8. ASSUME NEW t \in Threads, CancelAtProvider(t) PROVE TypeOK'
  BY <1>8, GotoFacts DEF CancelAtProvider, TypeOK, AttemptSteps, CancelSteps, ProgramPlaces
<1>9. ASSUME NEW t \in Threads, Fail(t) PROVE TypeOK'
  BY <1>9, FailFacts, LeaveFacts DEF Fail, TypeOK, ProgramPlaces
<1>10. ASSUME NEW t \in Threads, CancelFail(t) PROVE TypeOK'
  <2>1. work[t] \in Keys
    BY <1>10, <1>t DEF CancelFail, TypeOK, CancelSteps
  <2>2. job' \in [Keys -> Jobs]
    BY <1>10, <2>1, MoveFacts DEF CancelFail, States
  <2> QED
    BY <1>10, <2>2, LeaveFacts DEF CancelFail, TypeOK, ProgramPlaces
<1>11. ASSUME NEW t \in Threads, Accept(t) \/ CancelAccept(t) PROVE TypeOK'
  BY <1>11, AcceptFacts, GotoFacts DEF Accept, CancelAccept, TypeOK, AttemptSteps, CancelSteps, ProgramPlaces
<1>12. ASSUME NEW t \in Threads, StoreReceipt(t) \/ StoreCancel(t) PROVE TypeOK'
  <2>1. env' \in Envelope
    BY <1>12 DEF StoreReceipt, StoreCancel, TypeOK, Envelope, AttemptSteps, CancelSteps
  <2> QED
    BY <1>12, <2>1, LeaveFacts DEF StoreReceipt, StoreCancel, TypeOK, ProgramPlaces
<1>13. CASE Crash
  <2>1. Blank \in Envelope
    BY DEF Blank, Envelope
  <2> QED
    BY <1>13, <2>1 DEF Crash, TypeOK, AttemptSteps, CancelSteps
<1>14. CASE UNCHANGED vars
  BY <1>14 DEF vars, threadVars, TypeOK
<1> HIDE DEF provider, durable
<1> QED
  BY <1>1, <1>2, <1>3, <1>4, <1>5, <1>6, <1>7, <1>8, <1>9, <1>10, <1>11, <1>12, <1>13, <1>14
     DEF Next, Steps

LEMMA LockStep ==
  ASSUME TypeOK, OneRequest, [Next]_vars
  PROVE  OneRequest'
<1>1. ASSUME \A u \in Threads : pc'[u] = "idle" \/ pc'[u] = pc[u] PROVE OneRequest'
  BY <1>1 DEF OneRequest, Busy
<1>2. ASSUME NEW t \in Threads, NEW k \in Keys, NEW step, NEW again, Enter(t, k, step, again)
      PROVE  OneRequest'
  BY <1>2, EnterFacts DEF OneRequest, Busy
<1>3. ASSUME NEW t \in Threads, Steps(t) PROVE Busy(t) /\ \A u \in Threads : u # t => pc'[u] = pc[u]
  <2>1. Busy(t)
    BY <1>3 DEF Steps, Run, StartAtProvider, Fail, Accept, Succeed, StoreReceipt, CancelRun,
       CancelAtProvider, CancelFail, CancelAccept, CancelSucceed, StoreCancel, Busy
  <2>2. Leave(t) \/ \E step \in AttemptSteps \cup CancelSteps : Goto(t, step)
    BY <1>3 DEF Steps, Run, StartAtProvider, Fail, Accept, Succeed, StoreReceipt, CancelRun,
       CancelAtProvider, CancelFail, CancelAccept, CancelSucceed, StoreCancel, AttemptSteps, CancelSteps
  <2> QED
    BY <2>1, <2>2 DEF Leave, Goto, TypeOK
<1>4. ASSUME NEW t \in Threads, Steps(t) PROVE OneRequest'
  BY <1>3, <1>4 DEF OneRequest, Busy
<1>5. CASE Crash \/ UNCHANGED vars
  BY <1>1, <1>5 DEF Crash, vars, threadVars
<1> QED
  BY <1>2, <1>4, <1>5 DEF Next, BeginStart, BeginRetry, Resume, Finalize, BeginCancel, ResumeCancel

-----------------------------------------------------------------------------
(* Frames: a step of one kind of request does not disturb the other kind.  *)

Attempted == InAttempt /\ SeriesEndsInDoubt /\ Tried /\ OneCommand
Cancelled == InCancel /\ OneCancel

LEMMA AttemptFrame ==
  ASSUME TypeOK, Attempted, UNCHANGED <<attempts, accepted, commands>>,
         env'.receipt = env.receipt, env'.cancel # None => env.receipt # None,
         \A k \in AttemptKeys : job'[k] = job[k],
         \A u \in Threads : pc'[u] \notin AttemptSteps
  PROVE  Attempted'
<1>1. attempts # <<>> => Latest \in AttemptKeys /\ Latest' = Latest
  BY LatestType DEF Latest
<1>2. InAttempt'
  BY DEF InAttempt, Attempted
<1>3. SeriesEndsInDoubt'
  <2>1. \A i \in 1 .. Len(attempts) - 1 : attempts[i] \in AttemptKeys
    BY DEF TypeOK
  <2> QED
    BY <1>1, <2>1 DEF Attempted, SeriesEndsInDoubt, SafelyFailed
<1>4. Tried'
  <2>1. Untried' => Untried
    BY <1>1 DEF Untried, SafelyFailed, AttemptSteps
  <2> QED
    BY <1>1, <2>1 DEF Attempted, Tried, AcceptedAtMostOnce, AttemptSteps
<1>5. OneCommand'
  BY DEF Attempted, OneCommand, OneCommandPerJob, AttemptSteps
<1> QED
  BY <1>2, <1>3, <1>4, <1>5 DEF Attempted

LEMMA CancelFrame ==
  ASSUME Cancelled, UNCHANGED cancelled, env'.cancel = env.cancel,
         \A q \in CancelKeys : job'[q] = job[q],
         \A u \in Threads : pc'[u] \notin CancelSteps
  PROVE  Cancelled'
<1>1. InCancel'
  BY DEF InCancel
<1>2. OneCancel'
  BY DEF Cancelled, OneCancel, CancelSteps
<1> QED
  BY <1>1, <1>2 DEF Cancelled

\* A step of the latest attempt leaves the earlier ones as they are.
LEMMA EarlierKept ==
  ASSUME TypeOK, SeriesEndsInDoubt, attempts # <<>>, UNCHANGED attempts,
         ~SafelyFailed(Latest),
         \A k \in Keys : k # Latest => job'[k] = job[k]
  PROVE  /\ Latest' = Latest
         /\ \A i \in 1 .. Len(attempts') - 1 : SafelyFailed(attempts[i])'
<1>1. Latest' = Latest
  BY DEF Latest
<1>2. ASSUME NEW i \in 1 .. Len(attempts) - 1 PROVE SafelyFailed(attempts[i])'
  <2>1. attempts[i] \in Keys /\ SafelyFailed(attempts[i])
    BY DEF TypeOK, SeriesEndsInDoubt, Keys
  <2>2. job'[attempts[i]] = job[attempts[i]]
    BY <2>1
  <2> QED
    BY <2>1, <2>2 DEF SafelyFailed
<1> QED
  BY <1>1, <1>2

-----------------------------------------------------------------------------
(* Start and retry.                                                        *)

LEMMA AttemptStates ==
  /\ AttemptState("run") = "preflight" /\ AttemptState("start") = "running"
  /\ AttemptState("failSafe") = "running" /\ AttemptState("failUnsure") = "running"
  /\ AttemptState("accept") = "running" /\ AttemptState("succeed") = "verifying"
  /\ AttemptState("receipt") = "succeeded"
BY DEF AttemptState

LEMMA BeginAttempt ==
  ASSUME TypeOK, Attempted, NEW t \in Threads, NEW k \in AttemptKeys, NEW parent \in AttemptKeys \cup {None},
         CreateAttempt(k, parent), Enter(t, k, "run", FALSE), env.receipt = None,
         attempts = <<>> \/ SafelyFailed(Latest)
  PROVE  Attempted'
<1>e. /\ pc'[t] = "run" /\ work'[t] = k /\ copy'[t] = env
      /\ \A u \in Threads : u # t => pc'[u] = "idle"
      /\ UNCHANGED <<env, commands, accepted>>
  BY EnterFacts
<1>c. /\ job[k].state = "absent" /\ job'[k].state = "preflight"
      /\ \A i \in Keys : i # k => job'[i] = job[i]
      /\ attempts' # <<>> /\ Latest' = k /\ Len(attempts') = Len(attempts) + 1
      /\ \A i \in 1 .. Len(attempts) : attempts'[i] = attempts[i]
  BY CreateFacts
<1>n. Len(attempts) \in Nat /\ \A i \in 1 .. Len(attempts) : attempts[i] \in AttemptKeys /\ attempts[i] \in Keys
  BY DEF TypeOK, Keys
<1>1. InAttempt'
  BY <1>e, <1>c, AttemptStates DEF InAttempt, Attempted, AttemptSteps
<1>2. SeriesEndsInDoubt'
  <2>1. ASSUME NEW i \in 1 .. Len(attempts) PROVE SafelyFailed(attempts[i])
    <3>1. CASE i = Len(attempts)
      BY <1>n, <3>1 DEF Latest
    <3>2. CASE i # Len(attempts)
      BY <1>n, <3>2 DEF Attempted, SeriesEndsInDoubt
    <3> QED
      BY <3>1, <3>2
  <2>2. ASSUME NEW i \in 1 .. Len(attempts) PROVE job'[attempts'[i]].state = "failed" /\ job'[attempts'[i]].retrySafe
    BY <1>c, <1>n, <2>1 DEF SafelyFailed
  <2>3. \A i \in 1 .. Len(attempts') - 1 : SafelyFailed(attempts[i])'
    BY <1>c, <1>n, <2>2 DEF SafelyFailed
  <2> QED
    BY <1>e, <2>3 DEF SeriesEndsInDoubt
<1>3. Tried'
  <2>1. accepted = 0
    BY DEF Attempted, Tried, Untried
  <2> QED
    BY <1>e, <1>c, <2>1 DEF Tried, AcceptedAtMostOnce
<1>4. OneCommand'
  BY <1>e, <1>c DEF Attempted, OneCommand, OneCommandPerJob, Keys
<1> QED
  BY <1>1, <1>2, <1>3, <1>4 DEF Attempted

LEMMA ResumeAttempt ==
  ASSUME TypeOK, Attempted, NEW t \in Threads, NEW k \in AttemptKeys, Resume(t, k) \/ Finalize(t, k)
  PROVE  Attempted'
<1>s. PICK step \in {"run", "succeed"} : Enter(t, k, step, TRUE) /\ job[k].state = AttemptState(step)
  BY AttemptStates DEF Resume, Finalize
<1>e. /\ pc'[t] = step /\ work'[t] = k /\ copy'[t] = env
      /\ \A u \in Threads : u # t => pc'[u] = "idle"
      /\ UNCHANGED <<env, commands, accepted>>
  BY <1>s, EnterFacts
<1>u. UNCHANGED <<attempts, job>> /\ attempts # <<>> /\ Latest = k /\ env.receipt = None
  BY DEF Resume, Finalize, SameRequest
<1>l. Latest' = k
  BY <1>u DEF Latest
<1>1. InAttempt'
  BY <1>s, <1>e, <1>u, <1>l DEF InAttempt, Attempted, AttemptSteps
<1>2. SeriesEndsInDoubt'
  BY <1>e, <1>u DEF Attempted, SeriesEndsInDoubt, SafelyFailed
<1>3. Tried'
  <2>1. Untried' => Untried
    BY <1>e, <1>u, <1>l DEF Untried, SafelyFailed
  <2> QED
    BY <1>e, <1>u, <1>l, <2>1 DEF Attempted, Tried, AcceptedAtMostOnce
<1>4. OneCommand'
  BY <1>e, <1>u DEF Attempted, OneCommand, OneCommandPerJob
<1> QED
  BY <1>1, <1>2, <1>3, <1>4 DEF Attempted

\* Where an attempt under way stands.
LEMMA InProgress ==
  ASSUME TypeOK, OneRequest, Attempted, NEW t \in Threads, pc[t] \in AttemptSteps
  PROVE  /\ \A u \in Threads : u # t => pc[u] = "idle"
         /\ attempts # <<>> /\ work[t] = Latest /\ Latest \in AttemptKeys /\ Latest \in Keys
         /\ job[Latest].state = AttemptState(pc[t]) /\ job[Latest].state # "failed"
         /\ ~SafelyFailed(Latest)
         /\ env.receipt = None /\ env.cancel = None /\ copy[t] = env
         /\ env \in Envelope
<1>1. \A u \in Threads : u # t => pc[u] = "idle"
  BY DEF OneRequest, Busy, AttemptSteps
<1>2. job[Latest].state = AttemptState(pc[t]) /\ attempts # <<>>
  BY DEF Attempted, InAttempt
<1>3. AttemptState(pc[t]) # "failed"
  BY AttemptStates DEF AttemptSteps
<1> QED
  BY <1>1, <1>2, <1>3, LatestType DEF Attempted, InAttempt, SafelyFailed, TypeOK

LEMMA RunStep ==
  ASSUME TypeOK, OneRequest, Attempted, NEW t \in Threads, Run(t)
  PROVE  Attempted'
<1>p. pc[t] = "run" /\ UNCHANGED <<env, attempts, commands, accepted, work, copy>>
  BY DEF Run, provider
<1>w. /\ \A u \in Threads : u # t => pc[u] = "idle"
      /\ attempts # <<>> /\ work[t] = Latest /\ Latest \in AttemptKeys /\ Latest \in Keys
      /\ job[Latest].state = "preflight" /\ ~SafelyFailed(Latest)
      /\ env.receipt = None /\ env.cancel = None /\ copy[t] = env
  BY <1>p, InProgress, AttemptStates DEF AttemptSteps
<1>g. pc'[t] = "start" /\ \A u \in Threads : u # t => pc'[u] = "idle"
  BY <1>p, <1>w, GotoFacts DEF Run, AttemptSteps
<1>m. job'[Latest].state = "running" /\ \A k \in Keys : k # Latest => job'[k] = job[k]
  BY <1>w, MoveFacts DEF Run, States
<1>l. Latest' = Latest /\ \A i \in 1 .. Len(attempts') - 1 : SafelyFailed(attempts[i])'
  BY <1>p, <1>w, <1>m, EarlierKept DEF Attempted
<1>1. InAttempt'
  BY <1>p, <1>w, <1>g, <1>m, <1>l, AttemptStates DEF InAttempt, AttemptSteps
<1>2. SeriesEndsInDoubt'
  BY <1>p, <1>w, <1>l DEF SeriesEndsInDoubt
<1>3. Tried'
  <2>1. accepted = 0
    BY <1>w DEF Attempted, Tried, Untried
  <2> QED
    BY <1>p, <1>g, <1>m, <1>l, <2>1 DEF Tried, AcceptedAtMostOnce
<1>4. OneCommand'
  <2>1. commands[Latest] = 0
    BY <1>w DEF Attempted, OneCommand
  <2> QED
    BY <1>p, <1>w, <1>g, <1>m, <2>1 DEF Attempted, OneCommand, OneCommandPerJob, Keys
<1> QED
  BY <1>1, <1>2, <1>3, <1>4 DEF Attempted

LEMMA StartStep ==
  ASSUME TypeOK, OneRequest, Attempted, NEW t \in Threads, StartAtProvider(t)
  PROVE  Attempted'
<1>p. pc[t] = "start" /\ UNCHANGED <<env, attempts, job, work, copy>>
  BY DEF StartAtProvider, durable
<1>w. /\ \A u \in Threads : u # t => pc[u] = "idle"
      /\ attempts # <<>> /\ work[t] = Latest /\ Latest \in AttemptKeys
      /\ job[Latest].state = "running" /\ ~SafelyFailed(Latest)
      /\ env.receipt = None /\ env.cancel = None /\ copy[t] = env
  BY <1>p, InProgress, AttemptStates DEF AttemptSteps
<1>z. accepted = 0 /\ commands[Latest] = 0
  BY <1>p, <1>w DEF Attempted, Tried, Untried, OneCommand
<1>g. \/ pc'[t] = "accept" /\ accepted' = 1
      \/ pc'[t] = "failSafe" /\ accepted' = 0
      \/ pc'[t] = "failUnsure" /\ accepted' \in {0, 1}
  BY <1>z DEF StartAtProvider, Goto, TypeOK
<1>o. \A u \in Threads : u # t => pc'[u] = "idle"
  BY <1>w DEF StartAtProvider, Goto, TypeOK
<1>l. Latest' = Latest
  BY <1>p DEF Latest
<1>1. InAttempt'
  BY <1>p, <1>w, <1>g, <1>o, <1>l, AttemptStates DEF InAttempt, AttemptSteps
<1>2. SeriesEndsInDoubt'
  BY <1>p, <1>w DEF Attempted, SeriesEndsInDoubt, SafelyFailed
<1>3. Tried'
  BY <1>p, <1>w, <1>g, <1>o, <1>l DEF Tried, Untried, AcceptedAtMostOnce, SafelyFailed
<1>4. OneCommand'
  <2>1. commands' = [commands EXCEPT ![Latest] = 1]
    BY <1>w, <1>z DEF StartAtProvider
  <2>2. commands \in [AttemptKeys -> Nat]
    BY DEF TypeOK
  <2>3. \A k \in AttemptKeys : commands'[k] = IF k = Latest THEN 1 ELSE commands[k]
    BY <2>1, <2>2
  <2>4. \A u \in Threads : pc'[u] # "start"
    BY <1>g, <1>o
  <2> QED
    BY <1>p, <1>w, <2>3, <2>4 DEF Attempted, OneCommand, OneCommandPerJob
<1> QED
  BY <1>1, <1>2, <1>3, <1>4 DEF Attempted

LEMMA FailStep ==
  ASSUME TypeOK, OneRequest, Attempted, NEW t \in Threads, Fail(t)
  PROVE  Attempted'
<1>p. pc[t] \in {"failSafe", "failUnsure"} /\ UNCHANGED <<env, attempts, commands, accepted>>
  BY DEF Fail, provider
<1>w. /\ \A u \in Threads : u # t => pc[u] = "idle"
      /\ attempts # <<>> /\ work[t] = Latest /\ Latest \in AttemptKeys /\ Latest \in Keys
      /\ job[Latest].state = "running" /\ ~SafelyFailed(Latest)
      /\ env.receipt = None /\ env.cancel = None
  BY <1>p, InProgress, AttemptStates DEF AttemptSteps
<1>g. \A u \in Threads : pc'[u] = "idle"
  BY <1>w, LeaveFacts DEF Fail
<1>m. /\ job'[Latest].state = "failed" /\ (job'[Latest].retrySafe <=> pc[t] = "failSafe")
      /\ \A k \in Keys : k # Latest => job'[k] = job[k]
  BY <1>w, FailFacts
<1>l. Latest' = Latest /\ \A i \in 1 .. Len(attempts') - 1 : SafelyFailed(attempts[i])'
  BY <1>p, <1>w, <1>m, EarlierKept DEF Attempted
<1>1. InAttempt'
  BY <1>p, <1>w, <1>g DEF InAttempt, AttemptSteps
<1>2. SeriesEndsInDoubt'
  BY <1>p, <1>w, <1>l DEF SeriesEndsInDoubt
<1>3. Tried'
  <2>1. Untried' => accepted = 0
    <3>1. Untried' => pc[t] = "failSafe"
      BY <1>p, <1>w, <1>g, <1>m, <1>l DEF Untried, SafelyFailed
    <3> QED
      BY <3>1 DEF Attempted, Tried, Untried
  <2> QED
    BY <1>p, <1>g, <1>m, <1>l, <2>1 DEF Attempted, Tried, AcceptedAtMostOnce
<1>4. OneCommand'
  BY <1>p, <1>w, <1>g, <1>m DEF Attempted, OneCommand, OneCommandPerJob, Keys
<1> QED
  BY <1>1, <1>2, <1>3, <1>4 DEF Attempted

\* Acceptance is recorded in the job: verifying, then succeeded.
LEMMA AcceptStep ==
  ASSUME TypeOK, OneRequest, Attempted, NEW t \in Threads, Accept(t) \/ Succeed(t)
  PROVE  Attempted'
<1>p. pc[t] \in {"accept", "succeed"} /\ UNCHANGED <<env, attempts, commands, accepted, work, copy>>
  BY DEF Accept, Succeed, provider
<1>w. /\ \A u \in Threads : u # t => pc[u] = "idle"
      /\ attempts # <<>> /\ work[t] = Latest /\ Latest \in AttemptKeys /\ Latest \in Keys
      /\ job[Latest].state = AttemptState(pc[t]) /\ ~SafelyFailed(Latest)
      /\ env.receipt = None /\ env.cancel = None /\ copy[t] = env
  BY <1>p, InProgress DEF AttemptSteps
<1>z. accepted = 1
  BY <1>p, <1>w, AttemptStates DEF Attempted, Tried
<1>g. \/ pc'[t] = "succeed" /\ job'[Latest].state = "verifying"
      \/ pc'[t] = "receipt" /\ job'[Latest].state = "succeeded"
  BY <1>w, AcceptFacts, MoveFacts DEF Accept, Succeed, Goto, TypeOK, States
<1>o. \A u \in Threads : u # t => pc'[u] = "idle"
  BY <1>w DEF Accept, Succeed, Goto, TypeOK
<1>m. \A k \in Keys : k # Latest => job'[k] = job[k]
  BY <1>w, AcceptFacts, MoveFacts DEF Succeed, States
<1>l. Latest' = Latest /\ \A i \in 1 .. Len(attempts') - 1 : SafelyFailed(attempts[i])'
  BY <1>p, <1>w, <1>m, EarlierKept DEF Attempted
<1>1. InAttempt'
  BY <1>p, <1>w, <1>g, <1>o, <1>l, AttemptStates DEF InAttempt, AttemptSteps
<1>2. SeriesEndsInDoubt'
  BY <1>p, <1>w, <1>l DEF SeriesEndsInDoubt
<1>3. Tried'
  <2>1. ~Untried'
    BY <1>p, <1>w, <1>g, <1>o, <1>l DEF Untried, SafelyFailed
  <2> QED
    BY <1>p, <1>z, <2>1 DEF Tried, AcceptedAtMostOnce
<1>4. OneCommand'
  BY <1>p, <1>w, <1>g, <1>o, <1>m DEF Attempted, OneCommand, OneCommandPerJob, Keys
<1> QED
  BY <1>1, <1>2, <1>3, <1>4 DEF Attempted

LEMMA ReceiptStep ==
  ASSUME TypeOK, OneRequest, Attempted, NEW t \in Threads, StoreReceipt(t)
  PROVE  /\ Attempted'
         /\ accepted = 1 /\ env.receipt = None /\ env.cancel = None
         /\ env'.receipt # None /\ env'.cancel = None
<1>p. pc[t] = "receipt" /\ UNCHANGED <<attempts, job, commands, accepted>>
  BY DEF StoreReceipt, provider
<1>w. /\ \A u \in Threads : u # t => pc[u] = "idle"
      /\ attempts # <<>> /\ work[t] = Latest /\ Latest \in AttemptKeys
      /\ job[Latest].state = "succeeded"
      /\ env.receipt = None /\ env.cancel = None /\ copy[t] = env /\ env \in Envelope
  BY <1>p, InProgress, AttemptStates DEF AttemptSteps
<1>g. \A u \in Threads : pc'[u] = "idle"
  BY <1>w, LeaveFacts DEF StoreReceipt
<1>e. env'.receipt = Latest /\ env'.cancel = None /\ Latest # None
  BY <1>w, KeysAssumption DEF StoreReceipt, Envelope, Keys
<1>l. Latest' = Latest
  BY <1>p DEF Latest
<1>1. InAttempt'
  BY <1>g, <1>e DEF InAttempt, AttemptSteps
<1>2. SeriesEndsInDoubt'
  BY <1>p, <1>w, <1>e, <1>l DEF Attempted, SeriesEndsInDoubt, SafelyFailed
<1>3. Tried'
  <2>1. Untried' => Untried
    BY <1>p, <1>g, <1>l DEF Untried, SafelyFailed
  <2> QED
    BY <1>p, <1>g, <1>l, <2>1 DEF Attempted, Tried, AcceptedAtMostOnce
<1>4. OneCommand'
  BY <1>p, <1>g DEF Attempted, OneCommand, OneCommandPerJob
<1>5. accepted = 1
  BY <1>w DEF Attempted, Tried
<1> QED
  BY <1>1, <1>2, <1>3, <1>4, <1>5, <1>w, <1>e DEF Attempted

-----------------------------------------------------------------------------
(* Cancel.                                                                 *)

LEMMA CancelStates ==
  /\ CancelState("cancelRun") = "preflight" /\ CancelState("cancel") = "running"
  /\ CancelState("cancelFail") = "running" /\ CancelState("cancelAccept") = "running"
  /\ CancelState("cancelSucceed") = "verifying" /\ CancelState("cancelReceipt") = "succeeded"
BY DEF CancelState

LEMMA BeginCancelStep ==
  ASSUME TypeOK, Cancelled, NEW t \in Threads, NEW q \in CancelKeys, BeginCancel(t, q) \/ ResumeCancel(t, q)
  PROVE  Cancelled'
<1>s. PICK step \in {"cancelRun", "cancelSucceed"}, again \in BOOLEAN :
        Enter(t, q, step, again) /\ job'[q].state = CancelState(step)
  BY BeginCancelFacts, CancelStates DEF BeginCancel, ResumeCancel
<1>e. /\ pc'[t] = step /\ work'[t] = q /\ copy'[t] = env
      /\ \A u \in Threads : u # t => pc'[u] = "idle"
      /\ UNCHANGED <<env, cancelled>>
  BY <1>s, EnterFacts
<1>u. /\ env.receipt # None /\ env.cancel = None
      /\ \A d \in CancelKeys \ {q} : job'[d].state = "absent" /\ job[d].state = "absent"
      /\ \/ job[q].state = "absent" /\ job'[q].state = "preflight"
         \/ job'[q].state = job[q].state
  BY BeginCancelFacts DEF BeginCancel, ResumeCancel, Keys
<1>1. InCancel'
  BY <1>s, <1>e, <1>u DEF InCancel, CancelSteps
<1>2. OneCancel'
  <2>1. \A d \in CancelKeys : /\ job'[d].state \in {"absent", "preflight"} => job[d].state \in {"absent", "preflight"}
                              /\ job'[d].state \in {"verifying", "succeeded"} => job[d].state = job'[d].state
    BY <1>u
  <2> QED
    BY <1>e, <2>1 DEF Cancelled, OneCancel
<1> QED
  BY <1>1, <1>2 DEF Cancelled

\* Where a cancellation under way stands.
LEMMA InCancelling ==
  ASSUME TypeOK, OneRequest, Cancelled, NEW t \in Threads, pc[t] \in CancelSteps
  PROVE  /\ \A u \in Threads : u # t => pc[u] = "idle"
         /\ work[t] \in CancelKeys /\ work[t] \in Keys /\ work[t] \notin AttemptKeys /\ work[t] # None
         /\ job[work[t]].state = CancelState(pc[t])
         /\ \A d \in CancelKeys \ {work[t]} : job[d].state = "absent"
         /\ env.receipt # None /\ env.cancel = None /\ copy[t] = env /\ env \in Envelope
<1>1. \A u \in Threads : u # t => pc[u] = "idle"
  BY DEF OneRequest, Busy, CancelSteps
<1>2. work[t] \in CancelKeys /\ env \in Envelope
  BY DEF TypeOK
<1> QED
  BY <1>1, <1>2, KeysAssumption DEF Cancelled, InCancel, Keys

LEMMA CancelRunStep ==
  ASSUME TypeOK, OneRequest, Cancelled, NEW t \in Threads, CancelRun(t)
  PROVE  Cancelled' /\ (\A k \in AttemptKeys : job'[k] = job[k]) /\ \A u \in Threads : pc'[u] \notin AttemptSteps
<1>p. pc[t] = "cancelRun" /\ UNCHANGED <<env, cancelled, work, copy>>
  BY DEF CancelRun, provider
<1>w. /\ \A u \in Threads : u # t => pc[u] = "idle"
      /\ work[t] \in CancelKeys /\ work[t] \in Keys /\ work[t] \notin AttemptKeys
      /\ job[work[t]].state = "preflight"
      /\ \A d \in CancelKeys \ {work[t]} : job[d].state = "absent"
      /\ env.receipt # None /\ env.cancel = None /\ copy[t] = env
  BY <1>p, InCancelling, CancelStates DEF CancelSteps
<1>g. pc'[t] = "cancel" /\ \A u \in Threads : u # t => pc'[u] = "idle"
  BY <1>p, <1>w, GotoFacts DEF CancelRun, CancelSteps
<1>m. job'[work[t]].state = "running" /\ \A k \in Keys : k # work[t] => job'[k] = job[k]
  BY <1>w, MoveFacts DEF CancelRun, States
<1>1. InCancel'
  BY <1>p, <1>w, <1>g, <1>m, CancelStates DEF InCancel, CancelSteps, Keys
<1>2. OneCancel'
  <2>1. cancelled = 0
    BY <1>w DEF Cancelled, OneCancel
  <2> QED
    BY <1>p, <1>w, <1>g, <1>m, <2>1 DEF OneCancel, Keys
<1> QED
  BY <1>1, <1>2, <1>w, <1>g, <1>m DEF Cancelled, Keys, AttemptSteps

LEMMA CancelAtProviderStep ==
  ASSUME TypeOK, OneRequest, Cancelled, NEW t \in Threads, CancelAtProvider(t)
  PROVE  /\ Cancelled' /\ \A u \in Threads : pc'[u] \notin AttemptSteps
         /\ cancelled = 0 /\ cancelled' = 1 /\ env.receipt # None /\ env.cancel = None
<1>p. pc[t] = "cancel" /\ UNCHANGED <<env, job, work, copy>>
  BY DEF CancelAtProvider, durable
<1>w. /\ \A u \in Threads : u # t => pc[u] = "idle"
      /\ work[t] \in CancelKeys
      /\ job[work[t]].state = "running"
      /\ \A d \in CancelKeys \ {work[t]} : job[d].state = "absent"
      /\ env.receipt # None /\ env.cancel = None /\ copy[t] = env
  BY <1>p, InCancelling, CancelStates DEF CancelSteps
<1>z. cancelled = 0 /\ cancelled' = 1
  BY <1>p DEF CancelAtProvider, Cancelled, OneCancel
<1>g. pc'[t] \in {"cancelAccept", "cancelFail"} /\ \A u \in Threads : u # t => pc'[u] = "idle"
  BY <1>w DEF CancelAtProvider, Goto, TypeOK
<1>1. InCancel'
  BY <1>p, <1>w, <1>g, CancelStates DEF InCancel, CancelSteps
<1>2. OneCancel'
  BY <1>p, <1>w, <1>g, <1>z DEF OneCancel
<1> QED
  BY <1>1, <1>2, <1>w, <1>g, <1>z DEF Cancelled, AttemptSteps

LEMMA CancelFailStep ==
  ASSUME TypeOK, OneRequest, Cancelled, NEW t \in Threads, CancelFail(t)
  PROVE  Cancelled' /\ (\A k \in AttemptKeys : job'[k] = job[k]) /\ \A u \in Threads : pc'[u] \notin AttemptSteps
<1>p. pc[t] = "cancelFail" /\ UNCHANGED <<env, cancelled>>
  BY DEF CancelFail, provider
<1>w. /\ \A u \in Threads : u # t => pc[u] = "idle"
      /\ work[t] \in CancelKeys /\ work[t] \in Keys /\ work[t] \notin AttemptKeys
      /\ \A d \in CancelKeys \ {work[t]} : job[d].state = "absent"
      /\ env.receipt # None /\ env.cancel = None
  BY <1>p, InCancelling DEF CancelSteps
<1>g. \A u \in Threads : pc'[u] = "idle"
  BY <1>w, LeaveFacts DEF CancelFail
<1>m. job'[work[t]].state = "failed" /\ \A k \in Keys : k # work[t] => job'[k] = job[k]
  BY <1>w, MoveFacts DEF CancelFail, States
<1>1. InCancel'
  BY <1>g DEF InCancel, CancelSteps
<1>2. OneCancel'
  BY <1>p, <1>w, <1>g, <1>m DEF Cancelled, OneCancel, Keys
<1> QED
  BY <1>1, <1>2, <1>w, <1>g, <1>m DEF Cancelled, Keys, AttemptSteps

LEMMA CancelAcceptStep ==
  ASSUME TypeOK, OneRequest, Cancelled, NEW t \in Threads, CancelAccept(t) \/ CancelSucceed(t)
  PROVE  Cancelled' /\ (\A k \in AttemptKeys : job'[k] = job[k]) /\ \A u \in Threads : pc'[u] \notin AttemptSteps
<1>p. pc[t] \in {"cancelAccept", "cancelSucceed"} /\ UNCHANGED <<env, cancelled, work, copy>>
  BY DEF CancelAccept, CancelSucceed, provider
<1>w. /\ \A u \in Threads : u # t => pc[u] = "idle"
      /\ work[t] \in CancelKeys /\ work[t] \in Keys /\ work[t] \notin AttemptKeys
      /\ job[work[t]].state = CancelState(pc[t])
      /\ \A d \in CancelKeys \ {work[t]} : job[d].state = "absent"
      /\ env.receipt # None /\ env.cancel = None /\ copy[t] = env
  BY <1>p, InCancelling DEF CancelSteps
<1>z. cancelled = 1
  BY <1>p, <1>w, CancelStates DEF Cancelled, OneCancel
<1>g. \/ pc'[t] = "cancelSucceed" /\ job'[work[t]].state = "verifying"
      \/ pc'[t] = "cancelReceipt" /\ job'[work[t]].state = "succeeded"
  <2>1. CASE CancelAccept(t)
    BY <1>w, <2>1, AcceptFacts DEF CancelAccept, Goto, TypeOK
  <2>2. CASE CancelSucceed(t)
    BY <1>w, <2>2, MoveFacts DEF CancelSucceed, Goto, TypeOK, States
  <2> QED
    BY <2>1, <2>2
<1>o. \A u \in Threads : u # t => pc'[u] = "idle"
  BY <1>w DEF CancelAccept, CancelSucceed, Goto, TypeOK
<1>m. \A k \in Keys : k # work[t] => job'[k] = job[k]
  BY <1>w, AcceptFacts, MoveFacts DEF CancelSucceed, States
<1>1. InCancel'
  BY <1>p, <1>w, <1>g, <1>o, <1>m, CancelStates DEF InCancel, CancelSteps, Keys
<1>2. OneCancel'
  BY <1>p, <1>w, <1>g, <1>o, <1>m, <1>z DEF OneCancel, Keys
<1> QED
  BY <1>1, <1>2, <1>w, <1>g, <1>o, <1>m DEF Cancelled, Keys, AttemptSteps

LEMMA StoreCancelStep ==
  ASSUME TypeOK, OneRequest, Cancelled, NEW t \in Threads, StoreCancel(t)
  PROVE  /\ Cancelled' /\ \A u \in Threads : pc'[u] \notin AttemptSteps
         /\ cancelled = 1 /\ env.receipt # None /\ env.cancel = None
         /\ env'.receipt = env.receipt /\ env'.cancel # None
<1>p. pc[t] = "cancelReceipt" /\ UNCHANGED <<job, cancelled>>
  BY DEF StoreCancel, provider
<1>w. /\ \A u \in Threads : u # t => pc[u] = "idle"
      /\ work[t] \in CancelKeys /\ work[t] # None
      /\ job[work[t]].state = "succeeded"
      /\ env.receipt # None /\ env.cancel = None /\ copy[t] = env /\ env \in Envelope
  BY <1>p, InCancelling, CancelStates DEF CancelSteps
<1>z. cancelled = 1
  BY <1>w DEF Cancelled, OneCancel
<1>g. \A u \in Threads : pc'[u] = "idle"
  BY <1>w, LeaveFacts DEF StoreCancel
<1>e. env'.receipt = env.receipt /\ env'.cancel = work[t]
  BY <1>w DEF StoreCancel, Envelope
<1>1. InCancel'
  BY <1>g DEF InCancel, CancelSteps
<1>2. OneCancel'
  BY <1>p, <1>g, <1>z DEF Cancelled, OneCancel
<1> QED
  BY <1>1, <1>2, <1>w, <1>g, <1>e, <1>z DEF Cancelled, AttemptSteps

-----------------------------------------------------------------------------
(* Each step, whole.                                                       *)

\* The phase of SingleEnrollment.
Phase == IF env.cancel # None THEN "cancel-requested"
         ELSE IF env.receipt # None THEN "provider-accepted" ELSE "planned"

Promised ==
  \/ enrollment!ProviderAccepts \/ enrollment!RecordAcceptance
  \/ enrollment!CommandCancel \/ enrollment!RecordCancel
  \/ UNCHANGED <<accepted, Phase, cancelled>>

\* Steps of a start or retry leave the cancellation alone.
LEMMA AttemptActions ==
  ASSUME PlanInv, NEW t \in Threads,
         \/ \E k \in Keys : BeginStart(t, k) \/ BeginRetry(t, k) \/ Resume(t, k) \/ Finalize(t, k)
         \/ Run(t) \/ StartAtProvider(t) \/ Fail(t) \/ Accept(t) \/ Succeed(t) \/ StoreReceipt(t)
  PROVE  Attempted' /\ Cancelled' /\ Promised
<1>i. TypeOK /\ OneRequest /\ Attempted /\ Cancelled
  BY DEF PlanInv, Attempted, Cancelled
<1>d. \A q \in CancelKeys : q \in Keys /\ q \notin AttemptKeys
  BY KeysAssumption DEF Keys
<1>f. ASSUME UNCHANGED cancelled, env'.cancel = env.cancel, \A q \in CancelKeys : job'[q] = job[q],
             \A u \in Threads : pc'[u] = "idle" \/ pc'[u] \in AttemptSteps
      PROVE  Cancelled'
  BY <1>f, <1>i, CancelFrame DEF AttemptSteps, CancelSteps
<1>q. ASSUME UNCHANGED <<env, accepted, cancelled>> PROVE Promised
  BY <1>q DEF Promised, Phase
<1>1. ASSUME NEW k \in Keys, BeginStart(t, k) \/ BeginRetry(t, k) PROVE Attempted' /\ Cancelled' /\ Promised
  <2>1. k \in AttemptKeys /\ Enter(t, k, "run", FALSE)
    BY <1>1 DEF BeginStart, BeginRetry, AttemptKeys
  <2>2. PICK parent \in AttemptKeys \cup {None} :
          CreateAttempt(k, parent) /\ env.receipt = None /\ (attempts = <<>> \/ SafelyFailed(Latest))
    BY <1>1, <1>i, LatestType DEF BeginStart, BeginRetry
  <2>3. Attempted'
    BY <1>i, <2>1, <2>2, BeginAttempt
  <2> QED
    <3>1. \A q \in CancelKeys : job'[q] = job[q]
      BY <1>i, <1>d, <2>1, <2>2, CreateFacts
    <3>2. /\ UNCHANGED <<env, accepted, cancelled>>
          /\ \A u \in Threads : pc'[u] = "idle" \/ pc'[u] \in AttemptSteps
      BY <1>i, <2>1, EnterFacts DEF AttemptSteps
    <3> QED
      BY <1>f, <1>q, <2>3, <3>1, <3>2
<1>2. ASSUME NEW k \in Keys, Resume(t, k) \/ Finalize(t, k) PROVE Attempted' /\ Cancelled' /\ Promised
  <2>1. k \in AttemptKeys /\ UNCHANGED job
    BY <1>2 DEF Resume, Finalize
  <2>2. PICK step \in {"run", "succeed"} : Enter(t, k, step, TRUE)
    BY <1>2 DEF Resume, Finalize
  <2>3. Attempted'
    BY <1>2, <1>i, <2>1, ResumeAttempt
  <2> QED
    BY <1>i, <1>f, <1>q, <2>1, <2>2, <2>3, EnterFacts DEF AttemptSteps
<1>w. ASSUME pc[t] \in AttemptSteps
      PROVE  /\ \A u \in Threads : u # t => pc[u] = "idle"
             /\ work[t] \in AttemptKeys /\ work[t] \in Keys
  BY <1>i, <1>w, InProgress
<1>3. ASSUME Run(t) \/ Accept(t) \/ Succeed(t) PROVE Attempted' /\ Cancelled' /\ Promised
  <2>1. pc[t] \in AttemptSteps /\ UNCHANGED <<env, accepted, cancelled, work, copy, resumed>>
    BY <1>3 DEF Run, Accept, Succeed, AttemptSteps, provider
  <2>2. Attempted'
    BY <1>3, <1>i, RunStep, AcceptStep
  <2>3. \A u \in Threads : pc'[u] = "idle" \/ pc'[u] \in AttemptSteps
    BY <1>3, <1>i, <1>w, <2>1 DEF Run, Accept, Succeed, Goto, TypeOK, AttemptSteps
  <2>4. \A q \in CancelKeys : job'[q] = job[q]
    BY <1>3, <1>i, <1>d, <1>w, <2>1, MoveFacts, AcceptFacts DEF Run, Succeed, States
  <2> QED
    BY <1>f, <1>q, <2>1, <2>2, <2>3, <2>4
<1>4. ASSUME StartAtProvider(t) PROVE Attempted' /\ Cancelled' /\ Promised
  <2>1. pc[t] = "start" /\ pc[t] \in AttemptSteps /\ UNCHANGED <<env, job, cancelled>>
    BY <1>4 DEF StartAtProvider, AttemptSteps, durable
  <2>2. Attempted'
    BY <1>4, <1>i, StartStep
  <2>3. \A u \in Threads : pc'[u] = "idle" \/ pc'[u] \in AttemptSteps
    BY <1>4, <1>i, <1>w, <2>1 DEF StartAtProvider, Goto, TypeOK, AttemptSteps
  <2>4. accepted = 0 /\ accepted' \in {0, 1} /\ Phase = "planned" /\ UNCHANGED Phase
    <3>1. accepted = 0
      BY <1>i, <2>1 DEF Attempted, Tried, Untried
    <3>2. env.receipt = None /\ env.cancel = None
      BY <1>i, <2>1, InProgress
    <3> QED
      BY <1>4, <2>1, <3>1, <3>2 DEF StartAtProvider, Phase
  <2>5. Promised
    BY <2>1, <2>4 DEF Promised, enrollment!ProviderAccepts, Phase
  <2> QED
    BY <1>f, <2>1, <2>2, <2>3, <2>5
<1>5. ASSUME Fail(t) PROVE Attempted' /\ Cancelled' /\ Promised
  <2>1. pc[t] \in AttemptSteps /\ UNCHANGED <<env, accepted, cancelled>>
    BY <1>5 DEF Fail, AttemptSteps, provider
  <2>2. Attempted'
    BY <1>5, <1>i, FailStep
  <2>3. \A u \in Threads : pc'[u] = "idle"
    BY <1>5, <1>i, <1>w, <2>1, LeaveFacts DEF Fail
  <2>4. \A q \in CancelKeys : job'[q] = job[q]
    BY <1>5, <1>i, <1>d, <1>w, <2>1, FailFacts
  <2> QED
    BY <1>f, <1>q, <2>1, <2>2, <2>3, <2>4
<1>6. ASSUME StoreReceipt(t) PROVE Attempted' /\ Cancelled' /\ Promised
  <2>1. pc[t] \in AttemptSteps /\ UNCHANGED <<job, accepted, cancelled>>
    BY <1>6 DEF StoreReceipt, AttemptSteps, provider
  <2>2. /\ Attempted' /\ accepted = 1 /\ env.receipt = None /\ env.cancel = None
        /\ env'.receipt # None /\ env'.cancel = None
    BY <1>6, <1>i, ReceiptStep
  <2>3. \A u \in Threads : pc'[u] = "idle"
    BY <1>6, <1>i, <1>w, <2>1, LeaveFacts DEF StoreReceipt
  <2>4. Promised
    BY <2>1, <2>2 DEF Promised, enrollment!RecordAcceptance
  <2> QED
    BY <1>f, <2>1, <2>2, <2>3, <2>4
<1> QED
  BY <1>1, <1>2, <1>3, <1>4, <1>5, <1>6

\* Steps of a cancellation leave the attempts alone.
LEMMA CancelActions ==
  ASSUME PlanInv, NEW t \in Threads,
         \/ \E k \in Keys : BeginCancel(t, k) \/ ResumeCancel(t, k)
         \/ CancelRun(t) \/ CancelAtProvider(t) \/ CancelFail(t) \/ CancelAccept(t) \/ CancelSucceed(t)
         \/ StoreCancel(t)
  PROVE  Attempted' /\ Cancelled' /\ Promised
<1>i. TypeOK /\ OneRequest /\ Attempted /\ Cancelled
  BY DEF PlanInv, Attempted, Cancelled
<1>q. ASSUME UNCHANGED <<env, accepted, cancelled>> PROVE Promised
  BY <1>q DEF Promised, Phase
<1>d. \A k \in AttemptKeys : k \in Keys /\ k \notin CancelKeys
  BY KeysAssumption DEF Keys
<1>c. env.cancel # None => env.receipt # None
  BY <1>i DEF Attempted, InAttempt
<1>f. ASSUME UNCHANGED <<env, attempts, accepted, commands>>, \A k \in AttemptKeys : job'[k] = job[k],
             \A u \in Threads : pc'[u] \notin AttemptSteps
      PROVE  Attempted'
  BY <1>f, <1>i, <1>c, AttemptFrame
<1>1. ASSUME NEW q \in Keys, BeginCancel(t, q) \/ ResumeCancel(t, q) PROVE Attempted' /\ Cancelled' /\ Promised
  <2>1. q \in CancelKeys /\ UNCHANGED attempts
    BY <1>1 DEF BeginCancel, ResumeCancel
  <2>2. PICK step \in CancelSteps, again \in BOOLEAN : Enter(t, q, step, again)
    BY <1>1 DEF BeginCancel, ResumeCancel, CancelSteps
  <2>3. \A k \in AttemptKeys : job'[k] = job[k]
    BY <1>1, <1>i, <1>d, <2>1, BeginCancelFacts DEF ResumeCancel
  <2>4. Cancelled'
    BY <1>1, <1>i, <2>1, BeginCancelStep
  <2> QED
    BY <1>i, <1>f, <1>q, <2>1, <2>2, <2>3, <2>4, EnterFacts DEF AttemptSteps, CancelSteps
<1>2. ASSUME CancelRun(t) \/ CancelFail(t) \/ CancelAccept(t) \/ CancelSucceed(t)
      PROVE  Attempted' /\ Cancelled' /\ Promised
  <2>1. UNCHANGED <<env, attempts, accepted, commands, cancelled>>
    BY <1>2 DEF CancelRun, CancelFail, CancelAccept, CancelSucceed, provider
  <2>2. /\ Cancelled' /\ \A k \in AttemptKeys : job'[k] = job[k]
        /\ \A u \in Threads : pc'[u] \notin AttemptSteps
    BY <1>2, <1>i, CancelRunStep, CancelFailStep, CancelAcceptStep
  <2> QED
    BY <1>f, <1>q, <2>1, <2>2
<1>3. ASSUME CancelAtProvider(t) PROVE Attempted' /\ Cancelled' /\ Promised
  <2>1. UNCHANGED <<env, attempts, job, accepted, commands>>
    BY <1>3 DEF CancelAtProvider, durable
  <2>2. /\ Cancelled' /\ \A u \in Threads : pc'[u] \notin AttemptSteps
        /\ cancelled = 0 /\ cancelled' = 1 /\ env.receipt # None /\ env.cancel = None
    BY <1>3, <1>i, CancelAtProviderStep
  <2>3. Promised
    BY <2>1, <2>2 DEF Promised, enrollment!CommandCancel
  <2> QED
    BY <1>f, <2>1, <2>2, <2>3
<1>4. ASSUME StoreCancel(t) PROVE Attempted' /\ Cancelled' /\ Promised
  <2>1. UNCHANGED <<attempts, job, accepted, commands, cancelled>>
    BY <1>4 DEF StoreCancel, provider
  <2>2. /\ Cancelled' /\ \A u \in Threads : pc'[u] \notin AttemptSteps
        /\ cancelled = 1 /\ env.receipt # None /\ env.cancel = None
        /\ env'.receipt = env.receipt /\ env'.cancel # None
    BY <1>4, <1>i, StoreCancelStep
  <2>3. Attempted'
    BY <1>i, <2>1, <2>2, AttemptFrame
  <2>4. Promised
    BY <2>1, <2>2 DEF Promised, enrollment!RecordCancel
  <2> QED
    BY <2>2, <2>3, <2>4
<1> QED
  BY <1>1, <1>2, <1>3, <1>4

LEMMA NextStep ==
  ASSUME PlanInv, [Next]_vars
  PROVE  PlanInv' /\ Promised
<1>i. TypeOK /\ OneRequest /\ Attempted /\ Cancelled
  BY DEF PlanInv, Attempted, Cancelled
<1>1. Attempted' /\ Cancelled' /\ Promised
  <2>1. CASE Crash
    <3>1. UNCHANGED <<env, attempts, job, commands, accepted, cancelled>> /\ \A u \in Threads : pc'[u] = "idle"
      BY <2>1 DEF Crash, durable, provider
    <3>2. env.cancel # None => env.receipt # None
      BY <1>i DEF Attempted, InAttempt
    <3>3. Attempted'
      BY <1>i, <3>1, <3>2, AttemptFrame DEF AttemptSteps
    <3>4. Cancelled'
      BY <1>i, <3>1, CancelFrame DEF CancelSteps
    <3> QED
      BY <3>1, <3>3, <3>4 DEF Promised, Phase
  <2>2. CASE UNCHANGED vars
    <3>1. UNCHANGED <<env, attempts, job, commands, accepted, cancelled, pc, work, copy>>
      BY <2>2 DEF vars, durable, provider, threadVars
    <3>2. Latest' = Latest
      BY <3>1 DEF Latest
    <3>3. Attempted'
      BY <1>i, <3>1, <3>2 DEF Attempted, InAttempt, SeriesEndsInDoubt, Tried, Untried, OneCommand,
         OneCommandPerJob, AcceptedAtMostOnce, SafelyFailed
    <3>4. Cancelled'
      BY <1>i, <3>1 DEF Cancelled, InCancel, OneCancel
    <3> QED
      BY <3>1, <3>3, <3>4 DEF Promised, Phase
  <2> QED
    BY <2>1, <2>2, AttemptActions, CancelActions DEF Next, Steps
<1>2. TypeOK' /\ OneRequest'
  BY <1>i, TypeStep, LockStep
<1> QED
  BY <1>1, <1>2 DEF PlanInv, Attempted, Cancelled

-----------------------------------------------------------------------------
(* The theorems.                                                           *)

LEMMA InitInv == Init => PlanInv
<1> SUFFICES ASSUME Init PROVE PlanInv
  OBVIOUS
<1>1. Blank \in Envelope /\ Blank.receipt = None /\ Blank.cancel = None
      /\ NoJob \in Jobs /\ NoJob.state = "absent"
  BY DEF Blank, Envelope, NoJob, Jobs, States
<1>2. attempts = <<>> /\ Len(attempts) = 0 /\ \A t \in Threads : pc[t] = "idle"
  BY DEF Init
<1>3. TypeOK
  BY <1>1, KeysAssumption DEF Init, TypeOK, AttemptSteps, CancelSteps
<1>4. OneRequest /\ InAttempt /\ InCancel
  BY <1>1, <1>2 DEF OneRequest, Busy, InAttempt, InCancel, AttemptSteps, CancelSteps, Init
<1>5. SeriesEndsInDoubt /\ Tried
  BY <1>1, <1>2 DEF Init, SeriesEndsInDoubt, Tried, AcceptedAtMostOnce
<1>6. OneCommand /\ OneCancel
  <2>1. \A k \in Keys : job[k].state = "absent"
    BY <1>1 DEF Init
  <2> QED
    BY <1>1, <1>2, <2>1 DEF Init, OneCommand, OneCommandPerJob, OneCancel, Keys
<1> QED
  BY <1>3, <1>4, <1>5, <1>6 DEF PlanInv

\* The inductive invariant of a plan, from which all the others follow.
THEOREM PlanInvariant == Spec => []PlanInv
<1>1. PlanInv /\ [Next]_vars => PlanInv'
  BY NextStep
<1> QED
  BY <1>1, InitInv, PTL DEF Spec

\* Every variable keeps its type, and every request works on a job of its kind.
THEOREM TypeCorrect == Spec => []TypeOK
<1>1. PlanInv => TypeOK
  BY DEF PlanInv
<1> QED
  BY <1>1, PlanInvariant, PTL

\* The provider accepts at most one enrollment command of a plan, however
\* start and retry are repeated and interrupted.
THEOREM AcceptedTheorem == Spec => []AcceptedAtMostOnce
<1>1. PlanInv => AcceptedAtMostOnce
  BY DEF PlanInv, Tried
<1> QED
  BY <1>1, PlanInvariant, PTL

\* An attempt that did not fail safely is the last one of its plan.
THEOREM SeriesTheorem == Spec => []SeriesEndsInDoubt
<1>1. PlanInv => SeriesEndsInDoubt
  BY DEF PlanInv
<1> QED
  BY <1>1, PlanInvariant, PTL

\* A start or retry job sends its command once, resumed or not.
THEOREM CommandTheorem == Spec => []OneCommandPerJob
<1>1. PlanInv => OneCommandPerJob
  BY DEF PlanInv, OneCommand
<1> QED
  BY <1>1, PlanInvariant, PTL

\* Execution and recovery implement the promise of SingleEnrollment.
THEOREM EnrollmentTheorem == Spec => ImplementsEnrollment
<1>1. Init => enrollment!Start
  <2>1. Blank.receipt = None /\ Blank.cancel = None
    BY DEF Blank
  <2> QED
    BY <2>1 DEF Init, enrollment!Start
<1>2. PlanInv /\ [Next]_vars =>
        [\/ enrollment!ProviderAccepts \/ enrollment!RecordAcceptance
         \/ enrollment!CommandCancel \/ enrollment!RecordCancel]_(enrollment!enrollmentVars)
  BY NextStep DEF Promised, Phase, enrollment!enrollmentVars
<1> QED
  BY <1>1, <1>2, PlanInvariant, PTL DEF Spec, ImplementsEnrollment, enrollment!Promise

-----------------------------------------------------------------------------
(* What becomes of the enrollment: the inductive invariant.                *)

VerifySteps == {"mark", "run", "read", "judge", "fail", "reject", "pend", "current", "write",
                "check", "complete", "applied"}
PendingSteps == {"current", "write", "check", "complete", "applied"}

Verifying == [at : VerifySteps, key : VerifyKeys, copy : Verifications,
              holds : BOOLEAN, recovers : BOOLEAN]
Cleaning == [at : {"run", "read", "fail", "succeed", "store"}, key : CleanKeys]
Scrubbing == [at : {"run", "source", "finish", "assert", "succeed", "receipt"},
              key : ScrubKeys, job : States]
Removing == [at : {"scrub"}, key : ScrubKeys, job : States,
             env : Envelope, ver : Verifications, places : SUBSET Places]

\* OutcomeTypeOK of what is stored.
StoredTypes ==
  /\ household \in Households
  /\ places \subseteq Places /\ returning \subseteq Places
  /\ ver \in Verifications /\ clean \in Cleanups
  /\ jobs \in [JobKeys -> States]
  /\ seen \in [VerifyKeys \cup CleanKeys -> DeviceStates \cup {None}]
  /\ held \subseteq Threads

\* What the requests hold, which OutcomeTypeOK says of those under way only.
RequestTypes ==
  /\ v \in Verifying \cup {Rest} /\ c \in Cleaning \cup {Rest}
  /\ x \in [Scrubbers -> Scrubbing \cup Removing \cup {Rest}]

\* The one verification under way has the stored envelope in hand and has put
\* it where its step says; a favourable verdict has its read-back behind it,
\* which no later read-back replaces.
VerificationInPlace ==
  /\ ver.status # "none" => env.receipt # None
  /\ v # Rest => v.copy = ver /\ ver.status # "none"
  /\ v # Rest /\ v.at # "mark" => ver.job = v.key
  /\ v.at = "judge" => jobs[v.key] = "verifying"
  /\ v.at = "pend" => ver.status = "verified"
  /\ v.at \in PendingSteps => ver.status = "pending"
  /\ ver.status = "pending" => ver.job \in VerifyKeys
  /\ ver.receipt # None => jobs[ver.receipt] \in {"verifying", "succeeded", "failed"}
  /\ ver.status \in {"verified", "pending", "applied"} =>
       ver.receipt # None /\ seen[ver.receipt] = "managed"

\* An authorization rests on a read-back of its own and is not taken back.
CleanupInPlace ==
  /\ c # Rest => clean.status \in {"planned", "failed"}
  /\ c.at = "store" => jobs[c.key] = "succeeded"
  /\ clean.status = "authorized" =>
       \E k \in CleanKeys : jobs[k] = "succeeded" /\ seen[k] = "unmanaged"
  /\ \A t \in Scrubbers : x[t] # Rest => clean.status = "authorized"

\* Whoever writes a place without the artifact found it there without; a scrub
\* under way has read an enrollment in force that was rejected.
ArtifactInPlace ==
  /\ ver.status = "none" => "verification" \notin places
  /\ v # Rest /\ ~v.holds => "verification" \notin places
  /\ \A t \in Threads : pc[t] \in CancelSteps /\ t \notin held => "envelope" \notin places
  /\ \A t \in Scrubbers : x[t].at = "scrub" =>
       /\ x[t].env.receipt # None /\ x[t].env.cancel = None
       /\ x[t].ver.status = "rejected"

\* The job of an accepted attempt has the artifact until it is scrubbed: without
\* it, the enrollment was scrubbed.
Scrubbed == env.receipt # None /\ "job" \notin places

JobHolds ==
  env.receipt = None /\ (\E k \in AttemptKeys : job[k].state \in {"verifying", "succeeded"})
    => "job" \in places

\* After a scrub the artifact is, and comes back, only where a writer had it.
ScrubInPlace ==
  /\ Scrubbed =>
       /\ places \subseteq returning /\ ver.status # "none"
       /\ v # Rest /\ v.holds => "verification" \in returning
       /\ \A t \in held : pc[t] \in CancelSteps => "envelope" \in returning
  /\ \A t \in Scrubbers : x[t].at = "succeed" => Scrubbed
  /\ \A k \in ScrubKeys : jobs[k] = "succeeded" => Scrubbed

OutcomeInv ==
  /\ PlanInv /\ StoredTypes /\ RequestTypes
  /\ VerificationInPlace /\ CleanupInPlace /\ ArtifactInPlace /\ JobHolds /\ ScrubInPlace

-----------------------------------------------------------------------------
(* What the helpers of the outcome do.                                     *)

LEMMA OutcomeTypeSplit ==
  StoredTypes /\ RequestTypes => OutcomeTypeOK
BY DEF StoredTypes, RequestTypes, OutcomeTypeOK, Verifying, Cleaning, Scrubbing, Removing, Rest

\* A request that is not at rest is one of the kinds.
LEMMA UnderWay ==
  ASSUME RequestTypes
  PROVE  /\ v # Rest => v \in Verifying
         /\ c # Rest => c \in Cleaning
         /\ v.at # "rest" => v # Rest
         /\ c.at # "rest" => c # Rest
         /\ \A t \in Scrubbers : /\ x[t].at # "rest" => x[t] # Rest
                                 /\ x[t] # Rest => x[t] \in Scrubbing \cup Removing
                                 /\ x[t].at = "scrub" => x[t] \in Removing
BY DEF RequestTypes, Verifying, Cleaning, Scrubbing, Removing, Rest

LEMMA ToFacts ==
  ASSUME jobs \in [JobKeys -> States], NEW k \in JobKeys, NEW from, NEW to \in States, To(k, from, to)
  PROVE  /\ jobs' \in [JobKeys -> States]
         /\ jobs[k] = from /\ jobs'[k] = to
         /\ \A i \in JobKeys : i # k => jobs'[i] = jobs[i]
BY DEF To

LEMMA KeysApart ==
  /\ \A k \in VerifyKeys : k \in JobKeys /\ k \notin CleanKeys /\ k \notin ScrubKeys
  /\ \A k \in CleanKeys : k \in JobKeys /\ k \notin VerifyKeys /\ k \notin ScrubKeys
  /\ \A k \in ScrubKeys : k \in JobKeys /\ k \notin VerifyKeys /\ k \notin CleanKeys
  /\ None \notin JobKeys
BY OutcomeAssumption DEF JobKeys

-----------------------------------------------------------------------------
(* Verification.                                                           *)

\* What a step of the verification does to the jobs and read-backs: one of its
\* own job, which goes forward, and is read back once.
VerifyMoves ==
  /\ jobs' \in [JobKeys -> States]
  /\ seen' \in [VerifyKeys \cup CleanKeys -> DeviceStates \cup {None}]
  /\ \A k \in CleanKeys \cup ScrubKeys : jobs'[k] = jobs[k]
  /\ \A k \in CleanKeys : seen'[k] = seen[k]
  /\ \A k \in VerifyKeys :
       /\ k # v.key => jobs'[k] = jobs[k] /\ seen'[k] = seen[k]
       /\ jobs[k] \in {"verifying", "succeeded", "failed"} =>
            jobs'[k] \in {"verifying", "succeeded", "failed"} /\ seen'[k] = seen[k]

LEMMA VerifyJobs ==
  ASSUME StoredTypes, RequestTypes, VerifyStep
  PROVE  v \in Verifying /\ v # Rest /\ VerifyMoves
<1> USE KeysApart
<1>1. v \in Verifying /\ v # Rest
  BY UnderWay DEF VerifyStep, MarkRunning, RunVerify, ReadDevice, Judge, FailVerification, Reject,
     Pend, ReadCurrent, WriteHousehold, CheckHousehold, Complete, Applied
<1>2. v.key \in VerifyKeys /\ v.key \in JobKeys
  BY <1>1 DEF Verifying
<1> SUFFICES VerifyMoves
  BY <1>1
<1>3. CASE UNCHANGED <<jobs, seen>>
  BY <1>3 DEF StoredTypes, VerifyMoves
<1>4. ASSUME NEW from \in States, NEW to \in States, To(v.key, from, to), UNCHANGED seen,
             from \in {"verifying", "succeeded", "failed"} => to \in {"verifying", "succeeded", "failed"}
      PROVE  VerifyMoves
  BY <1>2, <1>4, ToFacts DEF StoredTypes, VerifyMoves
<1>5. CASE RunVerify \/ Reject \/ Complete
  <2>1. UNCHANGED seen
    BY <1>5 DEF RunVerify, Reject, Complete
  <2>2. \/ To(v.key, "preflight", "running") \/ To(v.key, "verifying", "failed")
        \/ To(v.key, "verifying", "succeeded") \/ UNCHANGED jobs
    BY <1>5 DEF RunVerify, Reject, Complete
  <2> QED
    BY <1>3, <1>4, <2>1, <2>2 DEF States
<1>6. CASE ReadDevice
  <2>1. CASE To(v.key, "running", "failed") /\ UNCHANGED seen
    BY <1>4, <2>1 DEF States
  <2>2. ASSUME NEW state \in DeviceStates, To(v.key, "running", "verifying"),
               seen' = [seen EXCEPT ![v.key] = state]
        PROVE  VerifyMoves
    <3>1. jobs[v.key] = "running" /\ jobs' \in [JobKeys -> States]
          /\ \A k \in JobKeys : k # v.key => jobs'[k] = jobs[k]
      BY <1>2, <2>2, ToFacts DEF StoredTypes, States
    <3>2. seen' \in [VerifyKeys \cup CleanKeys -> DeviceStates \cup {None}]
          /\ \A k \in VerifyKeys \cup CleanKeys : k # v.key => seen'[k] = seen[k]
      BY <1>2, <2>2 DEF StoredTypes
    <3> QED
      BY <1>2, <3>1, <3>2 DEF VerifyMoves
  <2> QED
    BY <1>6, <2>1, <2>2 DEF ReadDevice
<1>7. CASE ReadCurrent \/ CheckHousehold
  <2>1. UNCHANGED seen /\ (UNCHANGED jobs \/ (/\ jobs[v.key] = "verifying"
                                              /\ jobs' = [jobs EXCEPT ![v.key] = "failed"]))
    BY <1>7 DEF ReadCurrent, CheckHousehold
  <2> QED
    BY <1>3, <1>4, <2>1 DEF To, States
<1> QED
  BY <1>1, <1>3, <1>5, <1>6, <1>7 DEF VerifyStep, MarkRunning, Judge, FailVerification, Pend,
     WriteHousehold, Applied, Write

LEMMA WriteFacts ==
  ASSUME v \in Verifying, places \subseteq Places,
         NEW next \in VerifySteps, NEW change \in Verifications, Write(next, change)
  PROVE  /\ ver' = change /\ v' \in Verifying /\ v' # Rest
         /\ v'.at = next /\ v'.copy = change /\ v'.key = v.key /\ v'.holds = v.holds
         /\ places' \subseteq Places /\ places' = Rewritten("verification", v.holds)
BY DEF Write, Verifying, VerifySteps, Rest, Rewritten, Places

\* The next step of a verification that writes no envelope.
LEMMA MoveOnFacts ==
  ASSUME v \in Verifying, NEW next \in VerifySteps, v' = [v EXCEPT !.at = next]
  PROVE  /\ v' \in Verifying /\ v' # Rest
         /\ v'.at = next /\ v'.copy = v.copy /\ v'.key = v.key /\ v'.holds = v.holds
BY DEF Verifying, VerifySteps, Rest

LEMMA RewrittenFacts ==
  ASSUME places \subseteq Places, NEW p \in Places, NEW b
  PROVE  /\ Rewritten(p, b) \subseteq Places
         /\ \A y \in Places : y # p => (y \in Rewritten(p, b) <=> y \in places)
         /\ p \in Rewritten(p, b) <=> b
BY DEF Rewritten

\* A verification under way stays one, of the same job and with the same copy
\* of the artifact, or comes to rest; the only place it writes is its own.
VerifyShape ==
  /\ v' = Rest \/ (v' # Rest /\ v' \in Verifying /\ v'.key = v.key /\ v'.holds = v.holds)
  /\ UNCHANGED places \/ places' = Rewritten("verification", v.holds)
  /\ ver'.status # "none" /\ v'.at # "mark"
  /\ household' \in {household, Base} \/ (household' = ExpectedSnapshot /\ v.at = "write")

LEMMA VerifyStepInv ==
  ASSUME StoredTypes, RequestTypes, VerificationInPlace, VerifyStep, env' = env
  PROVE  StoredTypes' /\ RequestTypes' /\ VerificationInPlace' /\ VerifyShape
<1>k. v \in Verifying /\ v # Rest /\ VerifyMoves
  BY VerifyJobs
<1>v. /\ v.key \in VerifyKeys /\ v.copy \in Verifications /\ v.at \in VerifySteps
      /\ v.copy = ver /\ ver.status # "none" /\ env.receipt # None /\ ver \in Verifications
      /\ places \subseteq Places /\ household \in Households
  BY <1>k DEF Verifying, VerificationInPlace, StoredTypes
<1>h. Base \in Households /\ ExpectedSnapshot \in Households
  BY OutcomeAssumption DEF Base, ExpectedSnapshot, Households
<1>n. Rest.at = "rest" /\ Rest.at \notin VerifySteps /\ Rest.at \notin PendingSteps
  BY DEF Rest, VerifySteps, PendingSteps
<1>o. UNCHANGED <<clean, held, c, x, returning>>
  BY DEF VerifyStep, MarkRunning, RunVerify, ReadDevice, Judge, FailVerification, Reject, Pend,
     ReadCurrent, WriteHousehold, CheckHousehold, Complete, Applied, verOnly
\* What does not depend on the step: a settled read-back stays.
<1>r. ASSUME ver'.receipt = ver.receipt, ver'.status = ver.status \/ ver'.status \in {"running", "failed"}
                                            \/ (ver.status \in {"verified", "pending"})
      PROVE  /\ ver'.receipt # None => jobs'[ver'.receipt] \in {"verifying", "succeeded", "failed"}
             /\ ver'.status \in {"verified", "pending", "applied"} =>
                  ver'.receipt # None /\ seen'[ver'.receipt] = "managed"
  <2>1. ver.receipt # None => ver.receipt \in VerifyKeys
    BY <1>v DEF Verifications
  <2> QED
    BY <1>r, <1>k, <2>1 DEF VerificationInPlace, VerifyMoves
<1>t. ASSUME v' \in Verifying \cup {Rest}, ver' \in Verifications, places' \subseteq Places,
             household' \in Households
      PROVE  StoredTypes' /\ RequestTypes'
  BY <1>t, <1>o, <1>k DEF StoredTypes, RequestTypes, VerifyMoves
<1>u. ASSUME UNCHANGED <<ver, places>>, household' \in {household, Base} \/ (household' = ExpectedSnapshot /\ v.at = "write"),
             v' = Rest \/ \E next \in VerifySteps \ {"mark", "judge", "pend"} :
                            /\ v' = [v EXCEPT !.at = next]
                            /\ v.at # "mark" /\ (next \in PendingSteps => v.at \in PendingSteps)
      PROVE  StoredTypes' /\ RequestTypes' /\ VerificationInPlace' /\ VerifyShape
  <2>1. CASE v' = Rest
    <3>1. VerificationInPlace'
      BY <1>u, <1>r, <1>v, <1>n, <2>1 DEF VerificationInPlace
    <3> QED
      BY <1>u, <1>t, <1>v, <1>h, <1>n, <2>1, <3>1 DEF VerifyShape
  <2>2. ASSUME NEW next \in VerifySteps \ {"mark", "judge", "pend"}, v' = [v EXCEPT !.at = next],
               v.at # "mark", next \in PendingSteps => v.at \in PendingSteps
        PROVE  StoredTypes' /\ RequestTypes' /\ VerificationInPlace' /\ VerifyShape
    <3>1. /\ v' \in Verifying /\ v' # Rest
          /\ v'.at = next /\ v'.copy = v.copy /\ v'.key = v.key /\ v'.holds = v.holds
      BY <1>k, <2>2, MoveOnFacts
    <3>2. VerificationInPlace'
      BY <1>u, <1>r, <1>v, <1>k, <2>2, <3>1 DEF VerificationInPlace
    <3> QED
      BY <1>u, <1>t, <1>v, <1>h, <2>2, <3>1, <3>2 DEF VerifyShape
  <2> QED
    BY <1>u, <2>1, <2>2
<1>w. ASSUME NEW next \in VerifySteps \ {"mark", "judge"}, NEW change \in Verifications, Write(next, change),
             UNCHANGED household,
             change.status # "none", change.job = v.key,
             next = "pend" => change.status = "verified",
             next \in PendingSteps => change.status = "pending",
             change.receipt # None => jobs'[change.receipt] \in {"verifying", "succeeded", "failed"},
             change.status \in {"verified", "pending", "applied"} =>
               change.receipt # None /\ seen'[change.receipt] = "managed"
      PROVE  StoredTypes' /\ RequestTypes' /\ VerificationInPlace' /\ VerifyShape
  <2>1. /\ ver' = change /\ v' \in Verifying /\ v' # Rest
        /\ v'.at = next /\ v'.copy = change /\ v'.key = v.key /\ v'.holds = v.holds
        /\ places' \subseteq Places /\ places' = Rewritten("verification", v.holds)
    BY <1>w, <1>k, <1>v, WriteFacts
  <2>2. VerificationInPlace'
    BY <1>w, <1>v, <2>1 DEF VerificationInPlace
  <2> QED
    BY <1>w, <1>t, <1>v, <2>1, <2>2 DEF VerifyShape
<1>e. ASSUME NEW status \in {"failed", "applied"}, ver' = [v.copy EXCEPT !.status = status],
             places' = Rewritten("verification", v.holds), v' = Rest, UNCHANGED household,
             status = "applied" => ver.status = "pending"
      PROVE  StoredTypes' /\ RequestTypes' /\ VerificationInPlace' /\ VerifyShape
  <2>1. ver' \in Verifications /\ ver'.status = status /\ ver'.receipt = ver.receipt
    BY <1>e, <1>v DEF Verifications, VerStatuses
  <2>2. places' \subseteq Places
    BY <1>e, <1>v, RewrittenFacts DEF Places
  <2>3. VerificationInPlace'
    BY <1>e, <1>r, <1>v, <1>n, <2>1 DEF VerificationInPlace
  <2> QED
    BY <1>e, <1>t, <1>v, <1>n, <2>1, <2>2, <2>3 DEF VerifyShape
<1>1. CASE MarkRunning
  <2> DEFINE change == [v.copy EXCEPT !.status = "running", !.job = v.key]
  <2>1. change \in Verifications /\ change.status = "running" /\ change.job = v.key
        /\ change.receipt = ver.receipt
    BY <1>v DEF Verifications, VerStatuses
  <2>2. Write("run", change) /\ UNCHANGED <<household, jobs, seen>>
    BY <1>1 DEF MarkRunning
  <2> HIDE DEF change
  <2> QED
    BY <1>w, <2>1, <2>2 DEF VerifySteps, PendingSteps, VerificationInPlace
<1>2. CASE RunVerify
  BY <1>2, <1>u DEF RunVerify, verOnly, VerifySteps, PendingSteps
<1>3. CASE ReadDevice
  <2>1. CASE v' = [v EXCEPT !.at = "fail"]
    BY <1>3, <2>1, <1>u DEF ReadDevice, verOnly, VerifySteps, PendingSteps
  <2>2. CASE v' = [v EXCEPT !.at = "judge"] /\ To(v.key, "running", "verifying")
    <3>1. /\ v' \in Verifying /\ v' # Rest
          /\ v'.at = "judge" /\ v'.copy = v.copy /\ v'.key = v.key /\ v'.holds = v.holds
      BY <1>k, <2>2, MoveOnFacts DEF VerifySteps
    <3>2. UNCHANGED <<ver, places, household>> /\ v.at = "read"
      BY <1>3 DEF ReadDevice
    <3>3. jobs'[v.key] = "verifying"
      BY <2>2, <1>v, KeysApart, ToFacts DEF States, StoredTypes
    <3>4. VerificationInPlace'
      BY <1>r, <1>v, <1>k, <3>1, <3>2, <3>3 DEF VerificationInPlace, PendingSteps
    <3> QED
      BY <1>t, <1>v, <3>1, <3>2, <3>4 DEF VerifyShape
  <2> QED
    BY <1>3, <2>1, <2>2 DEF ReadDevice
<1>4. CASE Judge
  <2>1. PICK verdict \in {"verified", "rejected"} :
          /\ verdict \in Verdicts(seen[v.key])
          /\ Write(IF verdict = "verified" THEN "pend" ELSE "reject",
                   [v.copy EXCEPT !.status = verdict, !.receipt = v.key])
    BY <1>4 DEF Judge, Verdicts
  <2> DEFINE change == [v.copy EXCEPT !.status = verdict, !.receipt = v.key]
             next == IF verdict = "verified" THEN "pend" ELSE "reject"
  <2>2. v.at = "judge" /\ UNCHANGED <<household, jobs, seen>>
    BY <1>4 DEF Judge
  <2>3. change \in Verifications /\ change.status = verdict /\ change.receipt = v.key /\ change.job = ver.job
    BY <1>v DEF Verifications, VerStatuses
  <2>4. jobs[v.key] = "verifying" /\ ver.job = v.key /\ v.key # None
    BY <1>k, <1>v, <2>2, KeysApart DEF VerificationInPlace
  <2>5. verdict = "verified" => seen[v.key] = "managed"
    BY <2>1 DEF Verdicts
  <2>6. Write(next, change) /\ next \in VerifySteps \ {"mark", "judge"}
        /\ (next = "pend" => verdict = "verified") /\ next \notin PendingSteps
    BY <2>1 DEF VerifySteps, PendingSteps
  <2> HIDE DEF change, next
  <2> QED
    BY <1>w, <2>2, <2>3, <2>4, <2>5, <2>6
<1>5. CASE FailVerification
  BY <1>5, <1>e DEF FailVerification
<1>6. CASE Reject
  BY <1>6, <1>u DEF Reject, verOnly
<1>7. CASE Pend
  <2> DEFINE change == [v.copy EXCEPT !.status = "pending", !.expected = TRUE]
  <2>1. change \in Verifications /\ change.status = "pending" /\ change.job = ver.job
        /\ change.receipt = ver.receipt
    BY <1>v DEF Verifications, VerStatuses
  <2>2. Write("current", change) /\ v.at = "pend" /\ UNCHANGED <<household, jobs, seen>>
    BY <1>7 DEF Pend
  <2>3. ver.status = "verified" /\ ver.job = v.key
    BY <1>k, <2>2 DEF VerificationInPlace
  <2> HIDE DEF change
  <2> QED
    BY <1>w, <2>1, <2>2, <2>3 DEF VerifySteps, PendingSteps, VerificationInPlace
<1>8. CASE ReadCurrent
  <2>1. v' = Rest \/ v' = [v EXCEPT !.at = "write"] \/ v' = [v EXCEPT !.at = "check"]
    BY <1>8 DEF ReadCurrent
  <2> QED
    BY <1>8, <1>u, <2>1 DEF ReadCurrent, verOnly, VerifySteps, PendingSteps
<1>9. CASE WriteHousehold
  BY <1>9, <1>u DEF WriteHousehold, verOnly, VerifySteps, PendingSteps
<1>10. CASE CheckHousehold
  <2>1. v' = Rest \/ v' = [v EXCEPT !.at = "complete"]
    BY <1>10 DEF CheckHousehold
  <2>2. household' \in {household, Base}
    BY <1>10 DEF CheckHousehold
  <2> QED
    BY <1>10, <1>u, <2>1, <2>2 DEF CheckHousehold, verOnly, VerifySteps, PendingSteps
<1>11. CASE Complete
  BY <1>11, <1>u DEF Complete, verOnly, VerifySteps, PendingSteps
<1>12. CASE Applied
  <2>1. ver.status = "pending"
    BY <1>12 DEF Applied, VerificationInPlace, PendingSteps
  <2> QED
    BY <1>12, <1>e, <2>1 DEF Applied
<1> QED
  BY <1>1, <1>2, <1>3, <1>4, <1>5, <1>6, <1>7, <1>8, <1>9, <1>10, <1>11, <1>12 DEF VerifyStep

\* What ManagedOnlyIfVerified and ScrubbedOnlyIfRejected ask of one step.
ManagedStep ==
  household'.managed /\ ~household.managed =>
    /\ env.receipt # None
    /\ ver.status = "pending" /\ ver.receipt # None /\ seen[ver.receipt] = "managed"

RemovedStep ==
  (\E p \in places : p \notin places') =>
    /\ InForce /\ ver.status = "rejected"
    /\ \E k \in CleanKeys : jobs[k] = "succeeded" /\ seen[k] = "unmanaged"

Artifacts == ArtifactInPlace /\ JobHolds /\ ScrubInPlace

\* Cleanup is not disturbed by what leaves its requests, jobs and read-backs alone.
LEMMA CleanupFrame ==
  ASSUME RequestTypes, CleanupInPlace, UNCHANGED <<clean, c, x>>,
         \A k \in CleanKeys : jobs'[k] = jobs[k] /\ seen'[k] = seen[k]
  PROVE  CleanupInPlace'
<1>1. c.at = "store" => c.key \in CleanKeys
  BY UnderWay DEF Cleaning
<1> QED
  BY <1>1 DEF CleanupInPlace

LEMMA VerifyArtifacts ==
  ASSUME StoredTypes, RequestTypes, VerificationInPlace, Artifacts, v \in Verifying, v # Rest,
         VerifyShape, UNCHANGED <<env, pc, job, held, x, returning>>,
         \A k \in ScrubKeys : jobs'[k] = jobs[k]
  PROVE  Artifacts' /\ RemovedStep
<1>1. /\ \A p \in Places : p # "verification" => (p \in places' <=> p \in places)
      /\ "verification" \in places' => "verification" \in places \/ v.holds
      /\ "verification" \in places => "verification" \in places'
      /\ places' \subseteq Places /\ places \subseteq Places
  <2>1. "verification" \in Places /\ places \subseteq Places
    BY DEF Places, StoredTypes
  <2>2. "verification" \in places => v.holds
    BY DEF Artifacts, ArtifactInPlace, Verifying
  <2> QED
    BY <2>1, <2>2, RewrittenFacts DEF VerifyShape
<1>2. ver.status # "none" /\ ver'.status # "none"
  BY DEF VerificationInPlace, VerifyShape
<1>3. (Scrubbed' <=> Scrubbed) /\ "job" \in Places /\ "envelope" \in Places
  BY <1>1 DEF Scrubbed, Places
<1>4. ArtifactInPlace'
  BY <1>1, <1>2, <1>3 DEF Artifacts, ArtifactInPlace, VerifyShape
<1>5. JobHolds'
  BY <1>1, <1>3 DEF Artifacts, JobHolds
<1>6. ScrubInPlace'
  <2>1. Scrubbed => places' \subseteq returning
    BY <1>1 DEF Artifacts, ScrubInPlace
  <2> QED
    BY <1>2, <1>3, <2>1 DEF Artifacts, ScrubInPlace, VerifyShape
<1>7. RemovedStep
  BY <1>1 DEF RemovedStep
<1> QED
  BY <1>4, <1>5, <1>6, <1>7 DEF Artifacts

\* One step of the verification, or the entry into it.
LEMMA VerificationActions ==
  ASSUME OutcomeInv, PlanVerification \/ VerifyStep \/ \E k \in VerifyKeys : BeginVerify(k)
  PROVE  /\ UNCHANGED vars
         /\ (StoredTypes /\ RequestTypes /\ VerificationInPlace /\ CleanupInPlace /\ Artifacts)'
         /\ ManagedStep /\ RemovedStep
<1>i. StoredTypes /\ RequestTypes /\ VerificationInPlace /\ CleanupInPlace /\ Artifacts
  BY DEF OutcomeInv, Artifacts
<1>o. UNCHANGED <<vars, clean, held, c, x, returning>>
  BY DEF PlanVerification, BeginVerify, VerifyStep, MarkRunning, RunVerify, ReadDevice, Judge,
     FailVerification, Reject, Pend, ReadCurrent, WriteHousehold, CheckHousehold, Complete, Applied, verOnly
<1>e. UNCHANGED <<env, pc, job>>
  BY <1>o DEF vars, durable, threadVars
<1>1. CASE VerifyStep
  <2>1. v \in Verifying /\ v # Rest /\ VerifyMoves
    BY <1>i, <1>1, VerifyJobs
  <2>2. StoredTypes' /\ RequestTypes' /\ VerificationInPlace' /\ VerifyShape
    BY <1>i, <1>1, <1>e, VerifyStepInv
  <2>3. CleanupInPlace'
    BY <1>i, <1>o, <2>1, CleanupFrame DEF VerifyMoves
  <2>4. Artifacts' /\ RemovedStep
    BY <1>i, <1>o, <1>e, <2>1, <2>2, VerifyArtifacts DEF VerifyMoves
  <2>5. ManagedStep
    <3>1. ASSUME household' = ExpectedSnapshot, v.at = "write" PROVE ManagedStep
      <4>1. ver.status = "pending" /\ env.receipt # None
        BY <1>i, <3>1 DEF VerificationInPlace, PendingSteps
      <4> QED
        BY <1>i, <4>1 DEF ManagedStep, VerificationInPlace
    <3> QED
      BY <2>2, <3>1 DEF VerifyShape, ManagedStep, Base
  <2> QED
    BY <1>o, <2>2, <2>3, <2>4, <2>5
<1>2. CASE PlanVerification
  <2>1. /\ v = Rest /\ ver.status = "none" /\ env.receipt # None
        /\ ver' = [ver EXCEPT !.status = "planned"]
        /\ places' = Rewritten("verification", "envelope" \in places)
        /\ UNCHANGED <<household, jobs, seen, v>>
    BY <1>2 DEF PlanVerification, InForce
  <2>2. ver' \in Verifications /\ ver'.status = "planned" /\ ver'.receipt = ver.receipt /\ ver.status = "none"
    BY <1>i, <2>1 DEF StoredTypes, Verifications, VerStatuses
  <2>3. /\ places' \subseteq Places /\ places \subseteq Places
        /\ \A p \in Places : p # "verification" => (p \in places' <=> p \in places)
        /\ "verification" \notin places /\ "job" \in Places /\ "envelope" \in Places
    <3>1. "verification" \in Places /\ places \subseteq Places /\ "verification" \notin places
          /\ "job" \in Places /\ "envelope" \in Places
      BY <1>i, <2>1 DEF Places, StoredTypes, Artifacts, ArtifactInPlace
    <3> QED
      BY <2>1, <3>1, RewrittenFacts
  <2>4. StoredTypes' /\ RequestTypes'
    BY <1>i, <1>o, <2>1, <2>2, <2>3 DEF StoredTypes, RequestTypes
  <2>5. VerificationInPlace'
    BY <1>i, <1>e, <2>1, <2>2 DEF VerificationInPlace, Rest, PendingSteps
  <2>6. CleanupInPlace'
    BY <1>i, <1>o, <2>1, CleanupFrame
  <2>7. ~Scrubbed /\ ~Scrubbed'
    BY <1>i, <1>e, <2>1, <2>3 DEF Artifacts, ScrubInPlace, Scrubbed
  <2>8. Artifacts'
    <3>1. ArtifactInPlace'
      BY <1>i, <1>o, <1>e, <2>1, <2>2, <2>3 DEF Artifacts, ArtifactInPlace
    <3>2. JobHolds'
      BY <1>e, <2>1 DEF JobHolds
    <3>3. ScrubInPlace'
      BY <1>i, <1>o, <2>1, <2>7 DEF Artifacts, ScrubInPlace
    <3> QED
      BY <3>1, <3>2, <3>3 DEF Artifacts
  <2>9. RemovedStep /\ ManagedStep
    BY <2>1, <2>3 DEF RemovedStep, ManagedStep
  <2> QED
    BY <1>o, <2>4, <2>5, <2>6, <2>8, <2>9
<1>3. ASSUME NEW k \in VerifyKeys, BeginVerify(k)
      PROVE  /\ (StoredTypes /\ RequestTypes /\ VerificationInPlace /\ CleanupInPlace /\ Artifacts)'
             /\ ManagedStep /\ RemovedStep
  <2>1. /\ v = Rest /\ ver.status # "none" /\ env.receipt # None
        /\ To(k, "absent", "preflight")
        /\ v' = [at |-> "mark", key |-> k, copy |-> ver, holds |-> "verification" \in places,
                 recovers |-> FALSE]
        /\ UNCHANGED <<household, places, ver, seen>>
    BY <1>3 DEF BeginVerify, InForce
  <2>2. /\ jobs' \in [JobKeys -> States]
        /\ jobs[k] = "absent" /\ jobs'[k] = "preflight"
        /\ \A i \in JobKeys : i # k => jobs'[i] = jobs[i]
    BY <1>i, <2>1, KeysApart, ToFacts DEF StoredTypes, States
  <2>3. v' \in Verifying /\ v' # Rest /\ v'.at = "mark" /\ v'.copy = ver /\ v'.key = k
        /\ (v'.holds <=> "verification" \in places)
    <3>1. PICK has \in BOOLEAN :
            /\ has <=> "verification" \in places
            /\ v' = [at |-> "mark", key |-> k, copy |-> ver, holds |-> has, recovers |-> FALSE]
      <4>1. ("verification" \in places) \in BOOLEAN
        OBVIOUS
      <4> WITNESS ("verification" \in places) \in BOOLEAN
      <4> QED
        BY <2>1, Zenon
    <3>2. v' \in Verifying /\ v'.at = "mark" /\ v'.copy = ver /\ v'.key = k /\ v'.holds = has
      BY <1>i, <3>1 DEF StoredTypes, Verifying, VerifySteps
    <3> QED
      BY <3>1, <3>2 DEF Rest
  <2>4. StoredTypes' /\ RequestTypes'
    BY <1>i, <1>o, <2>1, <2>2, <2>3 DEF StoredTypes, RequestTypes
  <2>5. VerificationInPlace'
    <3>1. ver.receipt # None => ver.receipt \in VerifyKeys
      BY <1>i DEF StoredTypes, Verifications
    <3> QED
      BY <1>i, <1>e, <2>1, <2>2, <2>3, <3>1, KeysApart DEF VerificationInPlace, PendingSteps
  <2>6. CleanupInPlace'
    BY <1>i, <1>o, <2>1, <2>2, KeysApart, CleanupFrame
  <2>7. Artifacts'
    <3>1. ArtifactInPlace'
      BY <1>i, <1>o, <1>e, <2>1, <2>3 DEF Artifacts, ArtifactInPlace
    <3>2. JobHolds' /\ (Scrubbed' <=> Scrubbed)
      BY <1>i, <1>e, <2>1 DEF Artifacts, JobHolds, Scrubbed
    <3>3. \A i \in ScrubKeys : jobs'[i] = jobs[i]
      BY <2>2, KeysApart
    <3>4. ScrubInPlace'
      BY <1>i, <1>o, <1>e, <2>1, <2>3, <3>2, <3>3 DEF Artifacts, ScrubInPlace
    <3> QED
      BY <3>1, <3>2, <3>4 DEF Artifacts
  <2>8. RemovedStep /\ ManagedStep
    BY <2>1 DEF RemovedStep, ManagedStep
  <2> QED
    BY <2>4, <2>5, <2>6, <2>7, <2>8
<1> QED
  BY <1>o, <1>1, <1>2, <1>3

-----------------------------------------------------------------------------
(* Cleanup.                                                                *)

\* Verification and artifacts rest on nothing that a cleanup plan changes.
LEMMA VerificationFrame ==
  ASSUME StoredTypes, RequestTypes, VerificationInPlace, UNCHANGED <<ver, v>>,
         env.receipt # None => env'.receipt # None,
         \A k \in VerifyKeys : jobs'[k] = jobs[k] /\ seen'[k] = seen[k]
  PROVE  VerificationInPlace'
<1>1. v.at = "judge" => v.key \in VerifyKeys
  BY UnderWay DEF Verifying
<1>2. ver.receipt # None => ver.receipt \in VerifyKeys
  BY DEF StoredTypes, Verifications
<1> QED
  BY <1>1, <1>2 DEF VerificationInPlace

LEMMA ArtifactsFrame ==
  ASSUME Artifacts, UNCHANGED <<places, ver, v, held, x, returning, env, pc, job>>,
         \A k \in ScrubKeys : jobs'[k] = jobs[k]
  PROVE  Artifacts' /\ RemovedStep
BY DEF Artifacts, ArtifactInPlace, JobHolds, ScrubInPlace, Scrubbed, RemovedStep

LEMMA CleanupActions ==
  ASSUME OutcomeInv, PlanCleanup \/ CleanupStep \/ \E k \in CleanKeys : BeginCleanup(k)
  PROVE  /\ UNCHANGED vars
         /\ (StoredTypes /\ RequestTypes /\ VerificationInPlace /\ CleanupInPlace /\ Artifacts)'
         /\ ManagedStep /\ RemovedStep
<1>i. StoredTypes /\ RequestTypes /\ VerificationInPlace /\ CleanupInPlace /\ Artifacts
  BY DEF OutcomeInv, Artifacts
<1>o. UNCHANGED <<vars, household, places, ver, held, v, x, returning>>
  BY DEF PlanCleanup, BeginCleanup, CleanupStep, RunCleanup, ReadProvider, FailCleanup,
     SucceedCleanup, StoreCleanup, cleanOnly
<1>e. UNCHANGED <<env, pc, job>>
  BY <1>o DEF vars, durable, threadVars
<1>m. ManagedStep
  BY <1>o DEF ManagedStep
<1>t. clean \in Cleanups /\ jobs \in [JobKeys -> States] /\ ver \in Verifications /\ household \in Households
      /\ seen \in [VerifyKeys \cup CleanKeys -> DeviceStates \cup {None}]
  BY <1>i DEF StoredTypes
\* A step at least keeps what the others rest on.
<1>f. ASSUME clean' \in Cleanups, jobs' \in [JobKeys -> States],
             seen' \in [VerifyKeys \cup CleanKeys -> DeviceStates \cup {None}],
             c' \in Cleaning \cup {Rest}, CleanupInPlace',
             \A k \in VerifyKeys : jobs'[k] = jobs[k] /\ seen'[k] = seen[k],
             \A k \in ScrubKeys : jobs'[k] = jobs[k]
      PROVE  /\ (StoredTypes /\ RequestTypes /\ VerificationInPlace /\ CleanupInPlace /\ Artifacts)'
             /\ RemovedStep
  <2>1. StoredTypes' /\ RequestTypes'
    BY <1>i, <1>o, <1>f DEF StoredTypes, RequestTypes
  <2>2. VerificationInPlace'
    BY <1>i, <1>o, <1>e, <1>f, VerificationFrame
  <2>3. Artifacts' /\ RemovedStep
    BY <1>i, <1>o, <1>e, <1>f, ArtifactsFrame
  <2> QED
    BY <1>f, <2>1, <2>2, <2>3
\* Nobody executes a cleanup that is not authorized.
<1>x. clean.status # "authorized" => \A t \in Scrubbers : x[t] = Rest
  BY <1>i DEF CleanupInPlace
<1>n. Rest.at = "rest"
  BY DEF Rest
<1>1. CASE PlanCleanup
  <2>1. c' = c /\ c = Rest /\ clean.status = "none" /\ UNCHANGED <<jobs, seen>>
        /\ clean' = [status |-> "planned", base |-> household, receipt |-> ver.receipt, done |-> FALSE]
    BY <1>1 DEF PlanCleanup
  <2>2. clean' \in Cleanups /\ clean'.status = "planned"
    BY <1>t, <2>1 DEF Cleanups, Verifications
  <2>3. CleanupInPlace'
    BY <1>x, <1>o, <1>n, <2>1, <2>2 DEF CleanupInPlace
  <2> QED
    BY <1>f, <1>m, <1>o, <1>i, <1>t, <2>1, <2>2, <2>3 DEF RequestTypes
<1>2. ASSUME NEW k \in CleanKeys, BeginCleanup(k)
      PROVE  /\ (StoredTypes /\ RequestTypes /\ VerificationInPlace /\ CleanupInPlace /\ Artifacts)'
             /\ RemovedStep
  <2>1. /\ clean.status \in {"planned", "failed"} /\ To(k, "absent", "preflight")
        /\ c' = [at |-> "run", key |-> k] /\ UNCHANGED <<clean, seen>>
    BY <1>2 DEF BeginCleanup
  <2>2. /\ jobs' \in [JobKeys -> States]
        /\ \A i \in JobKeys : i # k => jobs'[i] = jobs[i]
    BY <1>t, <2>1, KeysApart, ToFacts DEF States
  <2>3. c' \in Cleaning /\ c'.at = "run"
    BY <2>1 DEF Cleaning
  <2>4. CleanupInPlace'
    BY <1>x, <1>o, <2>1, <2>3 DEF CleanupInPlace
  <2> QED
    BY <1>f, <1>t, <2>1, <2>2, <2>3, <2>4, KeysApart
<1>3. CASE CleanupStep
  <2>1. c \in Cleaning /\ c # Rest /\ c.key \in CleanKeys /\ c.key \in JobKeys
        /\ clean.status \in {"planned", "failed"}
    <3>1. c \in Cleaning /\ c # Rest
      BY <1>3, <1>i, UnderWay DEF CleanupStep, RunCleanup, ReadProvider, FailCleanup, SucceedCleanup, StoreCleanup
    <3> QED
      BY <3>1, <1>i, KeysApart DEF CleanupInPlace, Cleaning
  <2>2. ASSUME NEW from, NEW to \in States, To(c.key, from, to), UNCHANGED clean,
               NEW next \in {"read", "fail", "succeed", "store"}, c' = [c EXCEPT !.at = next],
               next = "store" => to = "succeeded",
               \/ UNCHANGED seen
               \/ \E state \in DeviceStates : seen' = [seen EXCEPT ![c.key] = state]
        PROVE  /\ (StoredTypes /\ RequestTypes /\ VerificationInPlace /\ CleanupInPlace /\ Artifacts)'
               /\ RemovedStep
    <3>1. /\ jobs' \in [JobKeys -> States] /\ jobs'[c.key] = to
          /\ \A i \in JobKeys : i # c.key => jobs'[i] = jobs[i]
      BY <1>t, <2>1, <2>2, ToFacts
    <3>2. seen' \in [VerifyKeys \cup CleanKeys -> DeviceStates \cup {None}]
          /\ \A k \in VerifyKeys : seen'[k] = seen[k]
      BY <1>t, <2>1, <2>2, KeysApart
    <3>3. c' \in Cleaning /\ c'.at = next /\ c'.key = c.key
      BY <2>1, <2>2 DEF Cleaning
    <3>4. CleanupInPlace'
      BY <1>x, <1>o, <2>1, <2>2, <3>1, <3>3 DEF CleanupInPlace
    <3> QED
      BY <1>f, <1>t, <2>1, <2>2, <3>1, <3>2, <3>3, <3>4, KeysApart
  <2>3. ASSUME NEW status \in {"failed", "authorized", "blocked"}, clean' = [clean EXCEPT !.status = status],
               c' = Rest, UNCHANGED <<jobs, seen>>,
               status = "authorized" => jobs[c.key] = "succeeded" /\ seen[c.key] = "unmanaged"
        PROVE  /\ (StoredTypes /\ RequestTypes /\ VerificationInPlace /\ CleanupInPlace /\ Artifacts)'
               /\ RemovedStep
    <3>1. clean' \in Cleanups /\ clean'.status = status
      BY <1>t, <2>3 DEF Cleanups
    <3>2. CleanupInPlace'
      BY <1>x, <1>o, <1>n, <2>1, <2>3, <3>1 DEF CleanupInPlace
    <3> QED
      BY <1>f, <1>t, <2>3, <3>1, <3>2
  <2>4. CASE RunCleanup
    BY <1>m, <1>o, <2>2, <2>4 DEF RunCleanup, States
  <2>5. CASE ReadProvider
    BY <1>m, <1>o, <2>2, <2>5 DEF ReadProvider, States
  <2>6. CASE FailCleanup
    BY <1>m, <1>o, <2>3, <2>6 DEF FailCleanup
  <2>7. CASE SucceedCleanup
    BY <1>m, <1>o, <2>2, <2>7 DEF SucceedCleanup, States
  <2>8. CASE StoreCleanup
    <3>1. PICK status \in {"authorized", "blocked"} :
            /\ clean' = [clean EXCEPT !.status = status]
            /\ status = "authorized" => seen[c.key] = "unmanaged"
      BY <2>8 DEF StoreCleanup, Authorizes
    <3>2. c.at = "store" /\ c' = Rest /\ UNCHANGED <<jobs, seen>>
      BY <2>8 DEF StoreCleanup
    <3>3. jobs[c.key] = "succeeded"
      BY <1>i, <3>2 DEF CleanupInPlace
    <3> QED
      BY <1>m, <1>o, <2>3, <3>1, <3>2, <3>3
  <2> QED
    BY <1>3, <1>m, <1>o, <2>4, <2>5, <2>6, <2>7, <2>8 DEF CleanupStep
<1> QED
  BY <1>1, <1>2, <1>3, <1>m, <1>o

-----------------------------------------------------------------------------
(* Execution of a cleanup.                                                 *)

LEMMA GoesFacts ==
  ASSUME RequestTypes, NEW t \in Scrubbers,
         NEW at \in {"run", "source", "finish", "assert", "succeed", "receipt"},
         NEW k \in ScrubKeys, NEW found \in States, Goes(t, at, k, found)
  PROVE  /\ x' \in [Scrubbers -> Scrubbing \cup Removing \cup {Rest}]
         /\ x'[t].at = at /\ \A u \in Scrubbers : u # t => x'[u] = x[u]
BY DEF RequestTypes, Goes, Scrubbing

LEMMA EndsFacts ==
  ASSUME RequestTypes, NEW t \in Scrubbers, Ends(t)
  PROVE  /\ x' \in [Scrubbers -> Scrubbing \cup Removing \cup {Rest}]
         /\ x'[t] = Rest /\ x'[t].at = "rest" /\ \A u \in Scrubbers : u # t => x'[u] = x[u]
BY DEF RequestTypes, Ends, Rest

\* A step of a scrub that moves no artifact leaves everything but its job, its
\* place and the receipt alone.
LEMMA ScrubFrame ==
  ASSUME OutcomeInv, NEW t \in Scrubbers,
         UNCHANGED <<vars, household, ver, held, seen, v, c, places, returning>>,
         x' \in [Scrubbers -> Scrubbing \cup Removing \cup {Rest}],
         \A u \in Scrubbers : u # t => x'[u] = x[u],
         jobs' \in [JobKeys -> States],
         \A k \in JobKeys \ ScrubKeys : jobs'[k] = jobs[k],
         \A k \in ScrubKeys : jobs'[k] = "succeeded" => jobs[k] = "succeeded" \/ Scrubbed,
         clean' \in Cleanups, clean'.status = clean.status, clean.status = "authorized",
         x'[t].at = "scrub" => /\ x'[t].env.receipt # None /\ x'[t].env.cancel = None
                               /\ x'[t].ver.status = "rejected",
         x'[t].at = "succeed" => Scrubbed
  PROVE  /\ (StoredTypes /\ RequestTypes /\ VerificationInPlace /\ CleanupInPlace /\ Artifacts)'
         /\ ManagedStep /\ RemovedStep
<1>i. StoredTypes /\ RequestTypes /\ VerificationInPlace /\ CleanupInPlace /\ Artifacts
  BY DEF OutcomeInv, Artifacts
<1>e. UNCHANGED <<env, pc, job>>
  BY DEF vars, durable, threadVars
<1>k. \A k \in VerifyKeys \cup CleanKeys : jobs'[k] = jobs[k]
  BY KeysApart
<1>1. StoredTypes' /\ RequestTypes'
  BY <1>i DEF StoredTypes, RequestTypes
<1>2. VerificationInPlace'
  BY <1>i, <1>e, <1>k, VerificationFrame
<1>3. CleanupInPlace'
  <2>1. c.at = "store" => c.key \in CleanKeys
    BY <1>i, UnderWay DEF Cleaning
  <2> QED
    BY <1>i, <1>k, <2>1 DEF CleanupInPlace
<1>4. Artifacts'
  <2>1. (Scrubbed' <=> Scrubbed) /\ JobHolds'
    BY <1>i, <1>e DEF Scrubbed, Artifacts, JobHolds
  <2>2. ArtifactInPlace'
    BY <1>i, <1>e DEF Artifacts, ArtifactInPlace
  <2>3. ScrubInPlace'
    BY <1>i, <1>e, <2>1 DEF Artifacts, ScrubInPlace
  <2> QED
    BY <2>1, <2>2, <2>3 DEF Artifacts
<1> QED
  BY <1>1, <1>2, <1>3, <1>4 DEF ManagedStep, RemovedStep

LEMMA ScrubActions ==
  ASSUME OutcomeInv, NEW t \in Scrubbers, ScrubStep(t) \/ \E k \in ScrubKeys : BeginScrub(t, k)
  PROVE  /\ UNCHANGED vars
         /\ (StoredTypes /\ RequestTypes /\ VerificationInPlace /\ CleanupInPlace /\ Artifacts)'
         /\ ManagedStep /\ RemovedStep
<1>i. StoredTypes /\ RequestTypes /\ VerificationInPlace /\ CleanupInPlace /\ Artifacts /\ PlanInv
  BY DEF OutcomeInv, Artifacts
<1>o. UNCHANGED <<vars, household, ver, held, seen, v, c>>
  BY DEF BeginScrub, ScrubStep, RunScrub, ReadSource, Scrub, FinishScrub, AssertScrubbed, SucceedScrub,
     StoreScrub, scrubOnly
<1>e. UNCHANGED <<env, pc, job>>
  BY <1>o DEF vars, durable, threadVars
<1>t. /\ clean \in Cleanups /\ jobs \in [JobKeys -> States] /\ ver \in Verifications
      /\ env \in Envelope /\ places \subseteq Places
      /\ x \in [Scrubbers -> Scrubbing \cup Removing \cup {Rest}]
  BY <1>i DEF StoredTypes, RequestTypes, PlanInv, TypeOK
<1> DEFINE Goal == /\ (StoredTypes /\ RequestTypes /\ VerificationInPlace /\ CleanupInPlace /\ Artifacts)'
                   /\ ManagedStep /\ RemovedStep
<1> SUFFICES Goal
  BY <1>o
<1>a. ASSUME ScrubStep(t)
      PROVE  /\ x[t] \in Scrubbing \cup Removing /\ x[t].key \in ScrubKeys /\ x[t].key \in JobKeys
             /\ x[t].job \in States /\ clean.status = "authorized"
  <2>1. x[t] \in Scrubbing \cup Removing /\ x[t] # Rest
    BY <1>a, <1>i, UnderWay DEF ScrubStep, RunScrub, ReadSource, Scrub, FinishScrub, AssertScrubbed,
       SucceedScrub, StoreScrub
  <2> QED
    BY <1>i, <2>1, KeysApart DEF CleanupInPlace, Scrubbing, Removing
\* The thread goes on, with its job moved or not.
<1>g. ASSUME NEW k \in ScrubKeys, NEW found \in States,
             NEW at \in {"run", "source", "finish", "assert", "succeed", "receipt"}, Goes(t, at, k, found),
             clean.status = "authorized", UNCHANGED <<places, returning, clean>>,
             at = "succeed" => Scrubbed,
             \/ UNCHANGED jobs
             \/ \E from, to \in States : To(k, from, to) /\ (to = "succeeded" => Scrubbed)
      PROVE  Goal
  <2>1. k \in JobKeys
    BY KeysApart
  <2>2. /\ jobs' \in [JobKeys -> States] /\ \A i \in JobKeys : i # k => jobs'[i] = jobs[i]
        /\ jobs'[k] = "succeeded" => jobs[k] = "succeeded" \/ Scrubbed
    BY <1>g, <1>t, <2>1, ToFacts
  <2>3. /\ x' \in [Scrubbers -> Scrubbing \cup Removing \cup {Rest}]
        /\ x'[t].at = at /\ \A u \in Scrubbers : u # t => x'[u] = x[u]
    BY <1>g, <1>i, GoesFacts
  <2>4. x'[t].at # "scrub" /\ (x'[t].at = "succeed" => Scrubbed)
    BY <1>g, <2>3
  <2>5. \A i \in ScrubKeys : jobs'[i] = "succeeded" => jobs[i] = "succeeded" \/ Scrubbed
    BY <2>2, KeysApart
  <2> QED
    BY <1>g, <1>o, <1>t, <2>2, <2>3, <2>4, <2>5, ScrubFrame
\* The thread ends, with the receipt stored or not.
<1>q. ASSUME Ends(t), clean.status = "authorized", UNCHANGED <<places, returning, jobs>>,
             clean' \in Cleanups, clean'.status = clean.status
      PROVE  Goal
  <2>1. /\ x' \in [Scrubbers -> Scrubbing \cup Removing \cup {Rest}]
        /\ x'[t].at = "rest" /\ \A u \in Scrubbers : u # t => x'[u] = x[u]
    BY <1>q, <1>i, EndsFacts
  <2> QED
    BY <1>q, <1>o, <1>t, <2>1, ScrubFrame
<1>j. ASSUME ScrubStep(t), NEW from \in States, NEW to \in States,
             NEW at \in {"run", "source", "finish", "assert", "succeed", "receipt"}, JobStep(t, from, to, at),
             UNCHANGED <<places, returning, clean>>,
             at = "succeed" \/ to = "succeeded" => Scrubbed
      PROVE  Goal
  BY <1>j, <1>a, <1>g, <1>q, <1>t DEF JobStep
<1>1. ASSUME NEW k \in ScrubKeys, BeginScrub(t, k) PROVE Goal
  <2>1. clean.status = "authorized" /\ UNCHANGED <<places, clean, returning>>
    BY <1>1 DEF BeginScrub
  <2>2. \/ To(k, "absent", "preflight") /\ Goes(t, "run", k, "preflight")
        \/ jobs[k] = "preflight" /\ UNCHANGED jobs /\ Goes(t, "run", k, "preflight")
        \/ jobs[k] \in {"running", "verifying"} /\ UNCHANGED jobs /\ Goes(t, "source", k, jobs[k])
        \/ jobs[k] = "succeeded" /\ UNCHANGED jobs /\ Goes(t, "finish", k, jobs[k])
    BY <1>1 DEF BeginScrub
  <2>3. jobs[k] \in States /\ "preflight" \in States /\ "absent" \in States
    BY <1>t, KeysApart DEF States
  <2> QED
    BY <1>g, <2>1, <2>2, <2>3
<1>2. CASE RunScrub(t)
  BY <1>2, <1>j DEF RunScrub, ScrubStep, States
<1>3. CASE ReadSource(t)
  <2>1. CASE ~SourceIntact
    BY <1>3, <1>a, <1>q, <1>t, <2>1 DEF ReadSource, ScrubStep
  <2>2. CASE SourceIntact
    <3> DEFINE r == [at |-> "scrub", key |-> x[t].key, job |-> x[t].job,
                     env |-> env, ver |-> ver, places |-> places]
    <3>1. r \in Removing /\ r.at = "scrub" /\ r.env = env /\ r.ver = ver
      BY <1>3, <1>a, <1>t DEF Removing, ScrubStep
    <3>2. x' = [x EXCEPT ![t] = r] /\ UNCHANGED <<places, clean, jobs, returning>>
      BY <1>3, <2>2 DEF ReadSource
    <3>3. env.receipt # None /\ env.cancel = None /\ ver.status = "rejected"
      BY <2>2 DEF SourceIntact, InForce
    <3> HIDE DEF r
    <3>4. /\ x' \in [Scrubbers -> Scrubbing \cup Removing \cup {Rest}]
          /\ x'[t] = r /\ \A u \in Scrubbers : u # t => x'[u] = x[u]
      BY <1>t, <3>1, <3>2
    <3>5. clean.status = "authorized"
      BY <1>3, <1>a DEF ScrubStep
    <3> QED
      BY <1>o, <1>t, <3>1, <3>2, <3>3, <3>4, <3>5, ScrubFrame
  <2> QED
    BY <2>1, <2>2
<1>4. CASE Scrub(t)
  <2>1. /\ x[t].at = "scrub" /\ UNCHANGED <<clean, jobs>> /\ x[t] \in Removing
        /\ x[t].key \in ScrubKeys /\ x[t].job \in States /\ clean.status = "authorized"
    BY <1>4, <1>a, <1>i, UnderWay DEF Scrub, ScrubStep
  <2>2. CASE ~(x[t].places # {} /\ UnmovedSource(t))
    BY <1>4, <1>g, <1>q, <1>t, <2>1, <2>2 DEF Scrub
  <2>3. CASE x[t].places # {} /\ UnmovedSource(t)
    <3>1. places' = {} /\ returning' = InHand /\ Goes(t, "finish", x[t].key, x[t].job)
      BY <1>4, <2>3 DEF Scrub
    <3>2. InForce /\ ver.status = "rejected"
      BY <1>i, <2>1, <2>3 DEF UnmovedSource, InForce, Artifacts, ArtifactInPlace
    <3>3. /\ x' \in [Scrubbers -> Scrubbing \cup Removing \cup {Rest}]
          /\ x'[t].at = "finish" /\ \A u \in Scrubbers : u # t => x'[u] = x[u]
      BY <1>i, <2>1, <3>1, GoesFacts
    <3>4. returning' \subseteq Places
      BY <3>1 DEF InHand, Places
    <3>5. StoredTypes' /\ RequestTypes'
      BY <1>i, <1>o, <2>1, <3>1, <3>3, <3>4 DEF StoredTypes, RequestTypes
    <3>6. VerificationInPlace'
      BY <1>i, <1>o, <1>e, <2>1, VerificationFrame
    <3>7. CleanupInPlace'
      BY <1>i, <1>o, <2>1, <3>3 DEF CleanupInPlace
    <3>8. Artifacts'
      <4>1. ArtifactInPlace'
        BY <1>i, <1>o, <1>e, <3>1, <3>3 DEF Artifacts, ArtifactInPlace
      <4>2. JobHolds' /\ Scrubbed'
        BY <1>e, <3>1, <3>2 DEF JobHolds, InForce, Scrubbed
      <4>3. \A u \in held : pc[u] \in CancelSteps => "envelope" \in returning'
        BY <1>i, <3>1 DEF StoredTypes, InHand, PlanInv, TypeOK
      <4>4. v # Rest /\ v.holds => "verification" \in returning'
        BY <3>1 DEF InHand
      <4>5. ScrubInPlace'
        BY <1>i, <1>o, <1>e, <2>1, <3>1, <3>2, <3>3, <4>2, <4>3, <4>4 DEF Artifacts, ScrubInPlace
      <4> QED
        BY <4>1, <4>2, <4>5 DEF Artifacts
    <3>9. ManagedStep /\ RemovedStep
      BY <1>i, <1>o, <2>1, <3>2 DEF ManagedStep, RemovedStep, CleanupInPlace
    <3> QED
      BY <3>5, <3>6, <3>7, <3>8, <3>9
  <2> QED
    BY <2>2, <2>3
<1>5. CASE FinishScrub(t)
  <2>1. CASE x[t].job = "running"
    BY <1>5, <1>j, <2>1 DEF FinishScrub, ScrubStep, States
  <2>2. CASE x[t].job # "running"
    BY <1>5, <1>a, <1>g, <2>2 DEF FinishScrub, ScrubStep
  <2> QED
    BY <2>1, <2>2
<1>6. CASE AssertScrubbed(t)
  <2>1. CASE SourceIntact /\ places = {}
    <3>1. Scrubbed
      BY <2>1 DEF SourceIntact, InForce, Scrubbed
    <3> QED
      BY <1>6, <1>a, <1>g, <2>1, <3>1 DEF AssertScrubbed, ScrubStep
  <2>2. CASE ~(SourceIntact /\ places = {})
    BY <1>6, <1>a, <1>q, <1>t, <2>2 DEF AssertScrubbed, ScrubStep
  <2> QED
    BY <2>1, <2>2
<1>7. CASE SucceedScrub(t)
  <2>1. Scrubbed
    BY <1>7, <1>i DEF SucceedScrub, Artifacts, ScrubInPlace
  <2>2. CASE x[t].job = "verifying"
    BY <1>7, <1>j, <2>1, <2>2 DEF SucceedScrub, ScrubStep, States
  <2>3. CASE x[t].job # "verifying"
    BY <1>7, <1>a, <1>g, <2>3 DEF SucceedScrub, ScrubStep
  <2> QED
    BY <2>2, <2>3
<1>8. CASE StoreScrub(t)
  <2>1. clean' \in Cleanups /\ clean'.status = clean.status
    BY <1>8, <1>t DEF StoreScrub, Cleanups
  <2> QED
    BY <1>8, <1>a, <1>q, <2>1 DEF StoreScrub, ScrubStep
<1> QED
  BY <1>1, <1>2, <1>3, <1>4, <1>5, <1>6, <1>7, <1>8 DEF ScrubStep

-----------------------------------------------------------------------------
(* Execution beside verification and cleanup.                              *)

LEMMA ExecutionIsNext ==
  ASSUME ExecutionStep \/ \E t \in Threads : RequestStep(t)
  PROVE  Next
<1>1. CASE ExecutionStep
  BY <1>1 DEF ExecutionStep, Next
<1>2. CASE \E t \in Threads : RequestStep(t)
  BY <1>2 DEF RequestStep, Next, Steps
<1> QED
  BY <1>1, <1>2

\* A recorded acceptance stays recorded.
LEMMA ReceiptStays ==
  ASSUME PlanInv, [Next]_vars
  PROVE  PlanInv' /\ (env.receipt # None => env'.receipt # None)
<1>1. PlanInv' /\ Promised
  BY NextStep
<1>2. (env.cancel # None => env.receipt # None) /\ (env'.cancel # None => env'.receipt # None)
  BY <1>1 DEF PlanInv, InAttempt
<1>3. env.receipt # None => Phase # "planned"
  BY DEF Phase
<1>4. Phase # "planned" => Phase' # "planned"
  BY <1>1 DEF Promised, Phase, enrollment!ProviderAccepts, enrollment!RecordAcceptance,
     enrollment!CommandCancel, enrollment!RecordCancel
<1>5. Phase' # "planned" => env'.receipt # None
  BY <1>2 DEF Phase
<1> QED
  BY <1>1, <1>3, <1>4, <1>5

\* What an execution step does to the artifact: nothing, unless it accepts or
\* stores a receipt.
LEMMA ExecutionArtifacts ==
  ASSUME OutcomeInv, ExecutionStep \/ \E t \in Threads : RequestStep(t)
  PROVE  places' \subseteq Places /\ held' \subseteq Threads /\ Artifacts' /\ RemovedStep
<1>i. StoredTypes /\ Artifacts /\ PlanInv /\ TypeOK /\ OneRequest /\ Attempted /\ Cancelled
      /\ places \subseteq Places /\ held \subseteq Threads
  BY DEF OutcomeInv, PlanInv, Artifacts, Attempted, Cancelled, StoredTypes
<1>u. UNCHANGED <<household, ver, clean, jobs, seen, v, c, x, returning>>
  BY DEF ExecutionStep, RequestStep, Unmoved
<1>p. "job" \in Places /\ "envelope" \in Places /\ "verification" \in Places
  BY DEF Places
<1>d. \A k \in AttemptKeys : k \in Keys /\ k \notin CancelKeys
  BY KeysAssumption DEF Keys
<1> DEFINE Accepted(k) == job[k].state \in {"verifying", "succeeded"}
           Goal == places' \subseteq Places /\ held' \subseteq Threads /\ Artifacts' /\ RemovedStep
<1> SUFFICES Goal
  OBVIOUS
<1>f. ASSUME UNCHANGED <<places, held, env>>,
             \A u \in Threads : pc'[u] \in CancelSteps => pc[u] \in CancelSteps,
             \A k \in AttemptKeys : Accepted(k)' => Accepted(k)
      PROVE  Goal
  <2>1. (Scrubbed' <=> Scrubbed) /\ JobHolds'
    BY <1>f, <1>i DEF Scrubbed, Artifacts, JobHolds
  <2>2. ArtifactInPlace'
    BY <1>f, <1>i, <1>u DEF Artifacts, ArtifactInPlace
  <2>3. ScrubInPlace'
    BY <1>f, <1>i, <1>u, <2>1 DEF Artifacts, ScrubInPlace
  <2> QED
    BY <1>f, <1>i, <2>1, <2>2, <2>3 DEF Artifacts, RemovedStep
<1>w. ASSUME NEW t \in Threads, pc[t] \in AttemptSteps \cup CancelSteps
      PROVE  work[t] \in Keys /\ (pc[t] \in AttemptSteps => work[t] \in AttemptKeys)
             /\ (pc[t] \in CancelSteps => work[t] \in CancelKeys)
             /\ \A u \in Threads : u # t => pc[u] = "idle"
  BY <1>i, <1>w DEF TypeOK, Keys, OneRequest, Busy, AttemptSteps, CancelSteps
<1>1. ASSUME NEW t \in Threads, NEW k \in Keys, UNCHANGED <<places, held>>,
             BeginStart(t, k) \/ BeginRetry(t, k) \/ Resume(t, k) \/ Finalize(t, k)
      PROVE  Goal
  <2>1. k \in AttemptKeys /\ \E step \in {"run", "succeed"}, again \in BOOLEAN : Enter(t, k, step, again)
    BY <1>1 DEF BeginStart, BeginRetry, Resume, Finalize, AttemptKeys
  <2>2. UNCHANGED env /\ \A u \in Threads : pc'[u] \notin CancelSteps
    BY <1>i, <2>1, EnterFacts DEF CancelSteps
  <2>3. \A i \in AttemptKeys : Accepted(i)' => Accepted(i)
    <3>1. CASE UNCHANGED job
      BY <3>1
    <3>2. ASSUME NEW parent \in AttemptKeys \cup {None}, CreateAttempt(k, parent)
          PROVE  \A i \in AttemptKeys : Accepted(i)' => Accepted(i)
      BY <1>d, <1>i, <2>1, <3>2, CreateFacts
    <3>3. BeginStart(t, k) \/ BeginRetry(t, k) => \E parent \in AttemptKeys \cup {None} : CreateAttempt(k, parent)
      BY <1>i, LatestType DEF BeginStart, BeginRetry
    <3> QED
      BY <1>1, <3>1, <3>2, <3>3 DEF Resume, Finalize
  <2> QED
    BY <1>1, <1>f, <2>2, <2>3
<1>2. ASSUME NEW t \in Threads, NEW k \in Keys, BeginCancel(t, k) \/ ResumeCancel(t, k),
             held' = IF "envelope" \in places THEN held \cup {t} ELSE held \ {t}, UNCHANGED places
      PROVE  Goal
  <2>1. k \in CancelKeys /\ \E step \in CancelSteps, again \in BOOLEAN : Enter(t, k, step, again)
    BY <1>2 DEF BeginCancel, ResumeCancel, CancelSteps
  <2>2. UNCHANGED env /\ \A u \in Threads : u # t => pc'[u] = "idle"
    BY <1>i, <2>1, EnterFacts
  <2>3. \A i \in AttemptKeys : job'[i] = job[i]
    BY <1>2, <1>d, <1>i, <2>1, BeginCancelFacts DEF ResumeCancel
  <2>4. (Scrubbed' <=> Scrubbed) /\ JobHolds'
    BY <1>2, <1>i, <2>2, <2>3 DEF Scrubbed, Artifacts, JobHolds
  <2>5. \A u \in Threads : pc'[u] \in CancelSteps => u = t
    BY <2>2 DEF CancelSteps
  <2>6. ArtifactInPlace'
    BY <1>2, <1>i, <1>u, <2>5 DEF Artifacts, ArtifactInPlace
  <2>7. ScrubInPlace'
    <3>1. \A u \in held' : pc'[u] \in CancelSteps => "envelope" \in places
      BY <1>2, <1>i, <2>5
    <3> QED
      BY <1>2, <1>i, <1>u, <2>4, <3>1 DEF Artifacts, ScrubInPlace
  <2> QED
    BY <1>2, <1>i, <2>4, <2>6, <2>7 DEF Artifacts, RemovedStep
<1>3. ASSUME NEW t \in Threads, UNCHANGED <<places, held>>,
             \/ Run(t) \/ StartAtProvider(t) \/ Fail(t) \/ Succeed(t) \/ CancelRun(t)
             \/ CancelAtProvider(t) \/ CancelFail(t) \/ CancelAccept(t) \/ CancelSucceed(t)
      PROVE  Goal
  <2>1. /\ pc[t] \in AttemptSteps \cup CancelSteps /\ UNCHANGED env
        /\ \/ Leave(t)
           \/ pc[t] \in AttemptSteps /\ \E step \in AttemptSteps : Goto(t, step)
           \/ pc[t] \in CancelSteps /\ \E step \in CancelSteps : Goto(t, step)
    BY <1>3 DEF Run, StartAtProvider, Fail, Succeed, CancelRun, CancelAtProvider, CancelFail,
       CancelAccept, CancelSucceed, AttemptSteps, CancelSteps, durable
  <2>2. \A u \in Threads : pc'[u] \in CancelSteps => pc[u] \in CancelSteps
    BY <1>i, <2>1 DEF Leave, Goto, TypeOK, AttemptSteps, CancelSteps
  <2>3. \A i \in AttemptKeys : Accepted(i)' => Accepted(i)
    <3>1. CASE StartAtProvider(t) \/ CancelAtProvider(t)
      BY <3>1 DEF StartAtProvider, CancelAtProvider, durable
    <3>2. CASE Run(t) \/ CancelRun(t) \/ CancelFail(t)
      <4>1. Move(t, "preflight", "running") \/ Move(t, "running", "failed")
        BY <3>2 DEF Run, CancelRun, CancelFail
      <4> QED
        BY <1>d, <1>i, <1>w, <2>1, <4>1, MoveFacts DEF States
    <3>3. CASE Succeed(t) \/ CancelSucceed(t)
      <4>1. Move(t, "verifying", "succeeded")
        BY <3>3 DEF Succeed, CancelSucceed
      <4> QED
        BY <1>d, <1>i, <1>w, <2>1, <4>1, MoveFacts DEF States
    <3>4. CASE Fail(t)
      BY <1>d, <1>i, <3>4, FailFacts
    <3>5. CASE CancelAccept(t)
      <4>1. work[t] \in CancelKeys
        BY <1>i, <3>5 DEF CancelAccept, TypeOK, CancelSteps
      <4> QED
        BY <1>d, <1>i, <3>5, <4>1, AcceptFacts
    <3> QED
      BY <1>3, <3>1, <3>2, <3>3, <3>4, <3>5
  <2> QED
    BY <1>3, <1>f, <2>1, <2>2, <2>3
<1>4. ASSUME NEW t \in Threads, Accept(t), places' = places \cup {"job"}, UNCHANGED held PROVE Goal
  <2>1. pc[t] \in AttemptSteps /\ UNCHANGED env /\ Goto(t, "succeed")
    BY <1>4 DEF Accept, AttemptSteps
  <2>2. env.receipt = None
    BY <1>i, <2>1 DEF Attempted, InAttempt
  <2>3. \A u \in Threads : pc'[u] \notin CancelSteps
    BY <1>i, <1>w, <2>1 DEF Goto, TypeOK, CancelSteps
  <2>4. ~Scrubbed /\ ~Scrubbed' /\ JobHolds'
    BY <1>4, <2>1, <2>2 DEF Scrubbed, JobHolds
  <2>5. ArtifactInPlace'
    BY <1>4, <1>i, <1>u, <2>3 DEF Artifacts, ArtifactInPlace
  <2>6. ScrubInPlace'
    BY <1>i, <1>u, <2>4 DEF Artifacts, ScrubInPlace
  <2> QED
    BY <1>4, <1>i, <1>p, <2>4, <2>5, <2>6 DEF Artifacts, RemovedStep
<1>5. ASSUME NEW t \in Threads, StoreReceipt(t), places' = places \cup {"envelope"}, UNCHANGED held PROVE Goal
  <2>1. pc[t] = "receipt" /\ pc[t] \in AttemptSteps /\ UNCHANGED job
    BY <1>5 DEF StoreReceipt, AttemptSteps
  <2>2. env.receipt = None /\ env'.receipt # None
    BY <1>5, <1>i, ReceiptStep
  <2>3. \A u \in Threads : pc'[u] \notin CancelSteps
    BY <1>5, <1>i, <1>w, <2>1, LeaveFacts DEF StoreReceipt, CancelSteps
  <2>4. "job" \in places
    <3>1. attempts # <<>> /\ job[Latest].state = "succeeded" /\ Latest \in AttemptKeys
      BY <1>i, <2>1, LatestType DEF Attempted, InAttempt, AttemptState
    <3> QED
      BY <1>i, <2>2, <3>1 DEF Artifacts, JobHolds
  <2>5. ~Scrubbed /\ ~Scrubbed' /\ JobHolds'
    BY <1>5, <2>2, <2>4 DEF Scrubbed, JobHolds
  <2>6. ArtifactInPlace'
    BY <1>5, <1>i, <1>u, <2>3 DEF Artifacts, ArtifactInPlace
  <2>7. ScrubInPlace'
    BY <1>i, <1>u, <2>5 DEF Artifacts, ScrubInPlace
  <2> QED
    BY <1>5, <1>i, <1>p, <2>5, <2>6, <2>7 DEF Artifacts, RemovedStep
<1>6. ASSUME NEW t \in Threads, StoreCancel(t), places' = Rewritten("envelope", t \in held), UNCHANGED held
      PROVE  Goal
  <2>1. pc[t] \in CancelSteps /\ UNCHANGED job
    BY <1>6 DEF StoreCancel, CancelSteps
  <2>2. env.receipt # None /\ env'.receipt # None
    BY <1>6, <1>i, StoreCancelStep
  <2>3. \A u \in Threads : pc'[u] \notin CancelSteps
    BY <1>6, <1>i, <1>w, <2>1, LeaveFacts DEF StoreCancel, CancelSteps
  <2>4. /\ \A p \in Places : p # "envelope" => (p \in places' <=> p \in places)
        /\ "envelope" \in places' <=> t \in held
        /\ places' \subseteq Places
    BY <1>6, <1>i, <1>p, RewrittenFacts
  <2>5. "envelope" \in places => t \in held
    BY <1>i, <2>1 DEF Artifacts, ArtifactInPlace
  <2>6. Scrubbed /\ t \in held => "envelope" \in returning
    BY <1>i, <2>1 DEF Artifacts, ScrubInPlace
  <2>7. (Scrubbed' <=> Scrubbed) /\ JobHolds'
    BY <1>p, <2>2, <2>4 DEF Scrubbed, JobHolds
  <2>8. ArtifactInPlace'
    BY <1>i, <1>p, <1>u, <2>3, <2>4 DEF Artifacts, ArtifactInPlace
  <2>9. ScrubInPlace'
    <3>1. Scrubbed => places' \subseteq returning
      BY <1>i, <2>4, <2>6 DEF Artifacts, ScrubInPlace
    <3> QED
      BY <1>6, <1>i, <1>u, <2>3, <2>7, <3>1 DEF Artifacts, ScrubInPlace
  <2>10. RemovedStep
    BY <1>i, <2>4, <2>5 DEF RemovedStep
  <2> QED
    BY <1>6, <1>i, <2>4, <2>7, <2>8, <2>9, <2>10 DEF Artifacts
<1> QED
  BY <1>1, <1>2, <1>3, <1>4, <1>5, <1>6 DEF ExecutionStep, RequestStep

LEMMA ExecutionActions ==
  ASSUME OutcomeInv, ExecutionStep \/ \E t \in Threads : RequestStep(t)
  PROVE  OutcomeInv' /\ ManagedStep /\ RemovedStep
<1>i. StoredTypes /\ RequestTypes /\ VerificationInPlace /\ CleanupInPlace /\ PlanInv
  BY DEF OutcomeInv
<1>u. UNCHANGED <<household, ver, clean, jobs, seen, v, c, x, returning>>
  BY DEF ExecutionStep, RequestStep, Unmoved
<1>1. PlanInv' /\ (env.receipt # None => env'.receipt # None)
  BY <1>i, ExecutionIsNext, ReceiptStays
<1>2. places' \subseteq Places /\ held' \subseteq Threads /\ Artifacts' /\ RemovedStep
  BY ExecutionArtifacts
<1>3. StoredTypes' /\ RequestTypes'
  BY <1>i, <1>u, <1>2 DEF StoredTypes, RequestTypes
<1>4. VerificationInPlace' /\ CleanupInPlace'
  BY <1>i, <1>u, <1>1, VerificationFrame, CleanupFrame
<1> QED
  BY <1>u, <1>1, <1>2, <1>3, <1>4 DEF OutcomeInv, Artifacts, ManagedStep

\* All requests die, and recovery takes up a pending verification with the
\* envelope as it is stored.
LEMMA RestartStep ==
  ASSUME OutcomeInv, Restart
  PROVE  OutcomeInv' /\ ManagedStep /\ RemovedStep
<1>i. StoredTypes /\ RequestTypes /\ VerificationInPlace /\ CleanupInPlace /\ Artifacts /\ PlanInv
  BY DEF OutcomeInv, Artifacts
<1>c. /\ Crash /\ UNCHANGED <<household, places, ver, clean, jobs, seen, returning>>
      /\ c' = Rest /\ x' = [t \in Scrubbers |-> Rest] /\ held' = {}
      /\ v' = IF ver.status = "pending" THEN Recovering ELSE Rest
  BY DEF Restart
<1>e. UNCHANGED <<env, job>> /\ \A t \in Threads : pc'[t] = "idle"
  BY <1>c DEF Crash, durable
<1>n. Rest.at = "rest"
  BY DEF Rest
<1>1. PlanInv'
  BY <1>c, <1>i, NextStep DEF Next
<1>2. ASSUME ver.status = "pending"
      PROVE  /\ v' \in Verifying /\ v' # Rest /\ v'.at = "current" /\ v'.copy = ver /\ v'.key = ver.job
             /\ (v'.holds <=> "verification" \in places)
  <2>1. PICK has \in BOOLEAN :
          /\ has <=> "verification" \in places
          /\ v' = [at |-> "current", key |-> ver.job, copy |-> ver, holds |-> has, recovers |-> TRUE]
    <3>1. ("verification" \in places) \in BOOLEAN
      OBVIOUS
    <3>2. v' = [at |-> "current", key |-> ver.job, copy |-> ver,
                holds |-> "verification" \in places, recovers |-> TRUE]
      BY <1>2, <1>c DEF Recovering
    <3> WITNESS ("verification" \in places) \in BOOLEAN
    <3> QED
      BY <3>2, Zenon
  <2>2. v' \in Verifying /\ v'.at = "current" /\ v'.copy = ver /\ v'.key = ver.job /\ v'.holds = has
    BY <1>2, <1>i, <2>1 DEF StoredTypes, VerificationInPlace, Verifying, VerifySteps
  <2> QED
    BY <2>1, <2>2 DEF Rest
<1>3. StoredTypes' /\ RequestTypes'
  BY <1>i, <1>c, <1>2 DEF StoredTypes, RequestTypes
<1>4. VerificationInPlace'
  BY <1>i, <1>c, <1>e, <1>n, <1>2 DEF VerificationInPlace, PendingSteps
<1>5. CleanupInPlace'
  BY <1>i, <1>c, <1>n DEF CleanupInPlace
<1>6. ArtifactInPlace'
  BY <1>i, <1>c, <1>e, <1>n, <1>2 DEF Artifacts, ArtifactInPlace, CancelSteps
<1>7. JobHolds' /\ (Scrubbed' <=> Scrubbed)
  BY <1>i, <1>c, <1>e DEF Artifacts, JobHolds, Scrubbed
<1>8. ScrubInPlace'
  BY <1>i, <1>c, <1>n, <1>2, <1>7 DEF Artifacts, ScrubInPlace
<1> QED
  BY <1>c, <1>1, <1>3, <1>4, <1>5, <1>6, <1>7, <1>8 DEF OutcomeInv, ManagedStep, RemovedStep

LEMMA PlanFrame ==
  ASSUME PlanInv, UNCHANGED vars
  PROVE  PlanInv'
BY NextStep

LEMMA ChangeStep ==
  ASSUME OutcomeInv, ChangeHousehold
  PROVE  OutcomeInv' /\ ManagedStep /\ RemovedStep
<1>1. /\ household \in Households /\ household.version < MaxHousehold
      /\ household' = [household EXCEPT !.version = @ + 1]
      /\ UNCHANGED <<vars, places, ver, clean, jobs, seen, held, v, c, x, returning>>
  BY DEF OutcomeInv, StoredTypes, ChangeHousehold
<1>2. household' \in Households /\ household'.managed = household.managed
  BY <1>1, OutcomeAssumption DEF Households
<1>3. UNCHANGED <<env, pc, job>>
  BY <1>1 DEF vars, durable, threadVars
<1>4. PlanInv'
  BY <1>1, PlanFrame DEF OutcomeInv
<1>5. StoredTypes' /\ RequestTypes'
  BY <1>1, <1>2 DEF OutcomeInv, StoredTypes, RequestTypes
<1>6. VerificationInPlace' /\ CleanupInPlace'
  BY <1>1, <1>3, VerificationFrame, CleanupFrame DEF OutcomeInv
<1>7. Artifacts' /\ RemovedStep
  BY <1>1, <1>3, ArtifactsFrame DEF OutcomeInv, Artifacts
<1> QED
  BY <1>2, <1>4, <1>5, <1>6, <1>7 DEF OutcomeInv, Artifacts, ManagedStep

LEMMA OutcomeStep ==
  ASSUME OutcomeInv, [OutcomeNext]_allVars
  PROVE  OutcomeInv' /\ ManagedStep /\ RemovedStep
<1>1. CASE ExecutionStep \/ \E t \in Threads : RequestStep(t)
  BY <1>1, ExecutionActions
<1>2. CASE PlanVerification \/ VerifyStep \/ \E k \in VerifyKeys : BeginVerify(k)
  BY <1>2, VerificationActions, PlanFrame DEF OutcomeInv, Artifacts
<1>3. CASE PlanCleanup \/ CleanupStep \/ \E k \in CleanKeys : BeginCleanup(k)
  BY <1>3, CleanupActions, PlanFrame DEF OutcomeInv, Artifacts
<1>4. ASSUME NEW t \in Scrubbers, ScrubStep(t) \/ \E k \in ScrubKeys : BeginScrub(t, k)
      PROVE  OutcomeInv' /\ ManagedStep /\ RemovedStep
  BY <1>4, ScrubActions, PlanFrame DEF OutcomeInv, Artifacts
<1>5. CASE ChangeHousehold
  BY <1>5, ChangeStep
<1>6. CASE Restart
  BY <1>6, RestartStep
<1>7. CASE UNCHANGED allVars
  <2>1. UNCHANGED <<vars, household, places, ver, clean, jobs, seen, held, v, c, x, returning>>
    BY <1>7 DEF allVars, outcome
  <2>2. UNCHANGED <<env, pc, job>>
    BY <2>1 DEF vars, durable, threadVars
  <2>3. PlanInv' /\ StoredTypes' /\ RequestTypes'
    BY <2>1, PlanFrame DEF OutcomeInv, StoredTypes, RequestTypes
  <2>4. VerificationInPlace' /\ CleanupInPlace'
    BY <2>1, <2>2, VerificationFrame, CleanupFrame DEF OutcomeInv
  <2>5. Artifacts' /\ RemovedStep
    BY <2>1, <2>2, ArtifactsFrame DEF OutcomeInv, Artifacts
  <2> QED
    BY <2>1, <2>3, <2>4, <2>5 DEF OutcomeInv, Artifacts, ManagedStep
<1> QED
  BY <1>1, <1>2, <1>3, <1>4, <1>5, <1>6, <1>7 DEF OutcomeNext

-----------------------------------------------------------------------------
(* The theorems about the outcome.                                         *)

LEMMA OutcomeInitInv == OutcomeInit => OutcomeInv
<1> SUFFICES ASSUME OutcomeInit PROVE OutcomeInv
  OBVIOUS
<1>1. PlanInv /\ env = Blank /\ env.receipt = None /\ \A t \in Threads : pc[t] = "idle"
  BY InitInv DEF OutcomeInit, Init, Blank
<1>2. /\ household = Base /\ places = {} /\ held = {} /\ returning = {}
      /\ ver = [status |-> "none", job |-> None, receipt |-> None, expected |-> FALSE]
      /\ clean = [status |-> "none", base |-> Base, receipt |-> None, done |-> FALSE]
      /\ jobs = [k \in JobKeys |-> "absent"]
      /\ seen = [k \in VerifyKeys \cup CleanKeys |-> None]
      /\ v = Rest /\ c = Rest /\ x = [t \in Scrubbers |-> Rest]
  BY DEF OutcomeInit
<1>3. Base \in Households
  BY OutcomeAssumption DEF Base, Households
<1>4. ver \in Verifications /\ clean \in Cleanups
  BY <1>2, <1>3 DEF Verifications, VerStatuses, Cleanups
<1>5. StoredTypes /\ RequestTypes
  BY <1>2, <1>3, <1>4 DEF StoredTypes, RequestTypes, States
<1>6. VerificationInPlace /\ CleanupInPlace
  BY <1>2 DEF VerificationInPlace, CleanupInPlace, Rest, PendingSteps
<1>7. ~Scrubbed
  BY <1>1 DEF Scrubbed
<1>8. \A k \in AttemptKeys : job[k].state = "absent"
  <2>1. job = [k \in Keys |-> NoJob] /\ NoJob.state = "absent"
    BY DEF OutcomeInit, Init, NoJob
  <2> QED
    BY <2>1 DEF Keys
<1>9. ArtifactInPlace /\ JobHolds /\ ScrubInPlace
  <2>1. \A k \in ScrubKeys : jobs[k] = "absent"
    BY <1>2, KeysApart
  <2> QED
    BY <1>1, <1>2, <1>7, <1>8, <2>1 DEF ArtifactInPlace, JobHolds, ScrubInPlace, Rest
<1> QED
  BY <1>1, <1>5, <1>6, <1>9 DEF OutcomeInv

\* The inductive invariant of execution, verification and cleanup together.
THEOREM OutcomeInvariant == OutcomeSpec => []OutcomeInv
<1>1. OutcomeInv /\ [OutcomeNext]_allVars => OutcomeInv'
  BY OutcomeStep
<1> QED
  BY <1>1, OutcomeInitInv, PTL DEF OutcomeSpec

\* Everything that is stored, and every request under way, keeps its type.
THEOREM OutcomeTypeCorrect == OutcomeSpec => []OutcomeTypeOK
<1>1. OutcomeInv => OutcomeTypeOK
  BY OutcomeTypeSplit DEF OutcomeInv
<1> QED
  BY <1>1, OutcomeInvariant, PTL

\* After a cleanup has succeeded the artifact is nowhere, or only where a
\* cancellation or a verification wrote the copy it had taken before.
THEOREM CleanedTheorem == OutcomeSpec => []CleanedStaysClean
<1>1. OutcomeInv => CleanedStaysClean
  BY DEF OutcomeInv, ScrubInPlace, CleanedStaysClean
<1> QED
  BY <1>1, OutcomeInvariant, PTL

\* The device is marked managed only by a pending verification whose read-back
\* showed it enrolled, of an enrollment the provider accepted.
THEOREM ManagedTheorem == OutcomeSpec => ManagedOnlyIfVerified
<1>1. OutcomeInv /\ [OutcomeNext]_allVars =>
        [household'.managed /\ ~household.managed =>
           /\ env.receipt # None
           /\ ver.status = "pending" /\ ver.receipt # None /\ seen[ver.receipt] = "managed"]_allVars
  BY OutcomeStep DEF ManagedStep
<1> QED
  BY <1>1, OutcomeInvariant, PTL DEF OutcomeSpec, ManagedOnlyIfVerified

\* The artifact is taken away only from a rejected, uncancelled enrollment of a
\* device that a cleanup's own read-back found unmanaged.
THEOREM ScrubbedTheorem == OutcomeSpec => ScrubbedOnlyIfRejected
<1>1. OutcomeInv /\ [OutcomeNext]_allVars =>
        [(\E p \in places : p \notin places') =>
           /\ InForce /\ ver.status = "rejected"
           /\ \E k \in CleanKeys : jobs[k] = "succeeded" /\ seen[k] = "unmanaged"]_allVars
  BY OutcomeStep DEF RemovedStep
<1> QED
  BY <1>1, OutcomeInvariant, PTL DEF OutcomeSpec, ScrubbedOnlyIfRejected

\* Verification, cleanup and recovery beside it leave the execution what it is.
LEMMA OutcomeExecutes ==
  ASSUME [OutcomeNext]_allVars
  PROVE  [Next]_vars
<1>1. CASE ExecutionStep \/ \E t \in Threads : RequestStep(t)
  BY <1>1, ExecutionIsNext
<1>2. CASE Restart
  BY <1>2 DEF Restart, Next
<1>3. CASE PlanVerification \/ VerifyStep \/ \E k \in VerifyKeys : BeginVerify(k)
  BY <1>3 DEF PlanVerification, BeginVerify, VerifyStep, MarkRunning, RunVerify, ReadDevice, Judge,
     FailVerification, Reject, Pend, ReadCurrent, WriteHousehold, CheckHousehold, Complete, Applied, verOnly
<1>4. CASE PlanCleanup \/ CleanupStep \/ \E k \in CleanKeys : BeginCleanup(k)
  BY <1>4 DEF PlanCleanup, BeginCleanup, CleanupStep, RunCleanup, ReadProvider, FailCleanup,
     SucceedCleanup, StoreCleanup, cleanOnly
<1>5. CASE \E t \in Scrubbers : ScrubStep(t) \/ \E k \in ScrubKeys : BeginScrub(t, k)
  BY <1>5 DEF BeginScrub, ScrubStep, RunScrub, ReadSource, Scrub, FinishScrub, AssertScrubbed,
     SucceedScrub, StoreScrub, scrubOnly
<1>6. CASE ChangeHousehold \/ UNCHANGED allVars
  BY <1>6 DEF ChangeHousehold, allVars
<1> QED
  BY <1>1, <1>2, <1>3, <1>4, <1>5, <1>6 DEF OutcomeNext

\* Also beside verification, cleanup and their recovery, the execution keeps
\* the promise of SingleEnrollment.
THEOREM OutcomeEnrollmentTheorem == OutcomeSpec => ImplementsEnrollment
<1>1. OutcomeInit => Init
  BY DEF OutcomeInit
<1>2. [OutcomeNext]_allVars => [Next]_vars
  BY OutcomeExecutes
<1>3. OutcomeSpec => Spec
  BY <1>1, <1>2, PTL DEF OutcomeSpec, Spec
<1> QED
  BY <1>3, EnrollmentTheorem
=============================================================================
