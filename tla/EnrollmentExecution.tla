------------------------ MODULE EnrollmentExecution ------------------------
(***************************************************************************)
(* The execution of one enrollment plan: start, retry and cancel at the    *)
(* provider, each with a job of its own, and the recovery that a repeated  *)
(* request finds after a crash.                                            *)
(*                                                                         *)
(* The service holds its lock from the first read to the last write of a   *)
(* request, and makes one store or provider call per step; the process may *)
(* die between any two.  Requests that are refused before they change      *)
(* anything (a stale plan among them) are left out, and so is the audit    *)
(* entry that follows a receipt, which nothing reads.                      *)
(***************************************************************************)
EXTENDS Integers, Sequences

CONSTANTS
  StartKeys,   \* idempotency keys of start requests, with their actor
  RetryKeys,   \* idempotency keys of retry requests
  CancelKeys,  \* idempotency keys of cancel requests
  Threads,     \* request threads
  None,        \* no job
  MaxCrashes   \* bound on the number of process crashes

AttemptKeys == StartKeys \cup RetryKeys
Keys == AttemptKeys \cup CancelKeys

ASSUME KeysAssumption ==
  /\ StartKeys \cap RetryKeys = {}
  /\ AttemptKeys \cap CancelKeys = {}
  /\ None \notin Keys
  /\ MaxCrashes \in Nat

VARIABLES
  env,        \* the plan's envelope in cluster_meta
  attempts,   \* its start and retry jobs, oldest first
  job,        \* the action job of each key
  commands,   \* start commands sent for each job
  accepted,   \* enrollment commands the provider accepted, answered or not
  cancelled,  \* cancel commands sent
  pc,         \* where a request thread stands
  work,       \* its job
  copy,       \* its copy of the envelope
  resumed,    \* it resumes the job of an interrupted request
  crashes

threadVars == <<pc, work, copy, resumed>>
provider == <<commands, accepted, cancelled>>
durable == <<env, attempts, job>>
vars == <<durable, provider, threadVars, crashes>>

States == {"absent", "preflight", "running", "verifying", "succeeded", "failed"}
Active == {"preflight", "running", "verifying"}
AttemptSteps == {"run", "start", "failSafe", "failUnsure", "accept", "succeed", "receipt"}
CancelSteps == {"cancelRun", "cancel", "cancelFail", "cancelAccept", "cancelSucceed", "cancelReceipt"}

Envelope == [receipt : AttemptKeys \cup {None}, cancel : CancelKeys \cup {None}]
Jobs == [state : States,
         retrySafe : BOOLEAN,                     \* of a failed attempt
         retryOf : AttemptKeys \cup {None},
         result : {"none", "typed", "bare"}]      \* the document kept at verifying

NoJob == [state |-> "absent", retrySafe |-> FALSE, retryOf |-> None, result |-> "none"]
Blank == [receipt |-> None, cancel |-> None]

Busy(t) == pc[t] # "idle"
LockFree == \A t \in Threads : ~Busy(t)

TypeOK ==
  /\ env \in Envelope
  /\ attempts \in Seq(AttemptKeys)
  /\ job \in [Keys -> Jobs]
  /\ commands \in [AttemptKeys -> Nat]
  /\ accepted \in Nat /\ cancelled \in Nat /\ crashes \in Nat
  /\ pc \in [Threads -> {"idle"} \cup AttemptSteps \cup CancelSteps]
  /\ work \in [Threads -> Keys \cup {None}]
  /\ copy \in [Threads -> Envelope]
  /\ resumed \in [Threads -> BOOLEAN]
  /\ \A t \in Threads :
       /\ pc[t] \in AttemptSteps => work[t] \in AttemptKeys
       /\ pc[t] \in CancelSteps => work[t] \in CancelKeys

\* plan has stored the envelope: no receipts, no jobs.
Init ==
  /\ env = Blank
  /\ attempts = <<>>
  /\ job = [k \in Keys |-> NoJob]
  /\ commands = [k \in AttemptKeys |-> 0]
  /\ accepted = 0 /\ cancelled = 0 /\ crashes = 0
  /\ pc = [t \in Threads |-> "idle"]
  /\ work = [t \in Threads |-> None]
  /\ copy = [t \in Threads |-> Blank]
  /\ resumed = [t \in Threads |-> FALSE]

Goto(t, step) == pc' = [pc EXCEPT ![t] = step]

\* A request takes the lock, reads the envelope and works on job k.
Enter(t, k, step, again) ==
  /\ LockFree
  /\ Goto(t, step)
  /\ work' = [work EXCEPT ![t] = k]
  /\ copy' = [copy EXCEPT ![t] = env]
  /\ resumed' = [resumed EXCEPT ![t] = again]
  /\ UNCHANGED <<env, provider, crashes>>

Leave(t) ==
  /\ pc' = [pc EXCEPT ![t] = "idle"]
  /\ work' = [work EXCEPT ![t] = None]
  /\ copy' = [copy EXCEPT ![t] = Blank]
  /\ resumed' = [resumed EXCEPT ![t] = FALSE]

\* transition_action_job of the thread's job.
Move(t, from, to) ==
  /\ job[work[t]].state = from
  /\ job' = [job EXCEPT ![work[t]].state = to]

-----------------------------------------------------------------------------
(* Start and retry.                                                        *)

Latest == attempts[Len(attempts)]
SafelyFailed(k) == job[k].state = "failed" /\ job[k].retrySafe

CreateAttempt(k, parent) ==
  /\ job[k].state = "absent"
  /\ job' = [job EXCEPT ![k] = [NoJob EXCEPT !.state = "preflight", !.retryOf = parent]]
  /\ attempts' = Append(attempts, k)

BeginStart(t, k) ==
  /\ k \in StartKeys
  /\ env.receipt = None /\ attempts = <<>>
  /\ CreateAttempt(k, None)
  /\ Enter(t, k, "run", FALSE)

\* Only the latest attempt can be retried, and only if it failed safely.
BeginRetry(t, k) ==
  /\ k \in RetryKeys
  /\ env.receipt = None /\ attempts # <<>>
  /\ SafelyFailed(Latest)
  /\ CreateAttempt(k, Latest)
  /\ Enter(t, k, "run", FALSE)

\* The interrupted request that created the latest attempt comes again: of a
\* retry, the attempt before must be its parent and still a safe failure.
SameRequest(k) ==
  /\ env.receipt = None /\ attempts # <<>> /\ Latest = k
  /\ IF k \in StartKeys THEN Len(attempts) = 1
     ELSE /\ Len(attempts) > 1
          /\ attempts[Len(attempts) - 1] = job[k].retryOf
          /\ SafelyFailed(job[k].retryOf)

\* Mutant: an attempt left at running is resumed as well.
ResumeRunning(t, k) ==
  /\ k \in AttemptKeys
  /\ SameRequest(k)
  /\ job[k].state \in {"preflight", "running"}
  /\ Enter(t, k, IF job[k].state = "preflight" THEN "run" ELSE "start", TRUE)
  /\ UNCHANGED <<attempts, job>>

\* At preflight the provider has not been called.
Resume(t, k) ==
  /\ k \in AttemptKeys
  /\ SameRequest(k)
  /\ job[k].state = "preflight"
  /\ Enter(t, k, "run", TRUE)
  /\ UNCHANGED <<attempts, job>>

\* At verifying its acceptance is durable.
Finalize(t, k) ==
  /\ k \in AttemptKeys
  /\ SameRequest(k)
  /\ job[k].state = "verifying" /\ job[k].result = "typed"
  /\ Enter(t, k, "succeed", TRUE)
  /\ UNCHANGED <<attempts, job>>

Run(t) ==
  /\ pc[t] = "run"
  /\ Move(t, "preflight", "running")
  /\ Goto(t, "start")
  /\ UNCHANGED <<env, attempts, provider, work, copy, resumed, crashes>>

\* adapter.start accepts; or fails and declares that no command was accepted;
\* or fails, times out or answers what is rejected, accepted or not.
StartAtProvider(t) ==
  /\ pc[t] = "start"
  /\ commands' = [commands EXCEPT ![work[t]] = @ + 1]
  /\ \/ Goto(t, "accept") /\ accepted' = accepted + 1
     \/ Goto(t, "failSafe") /\ UNCHANGED accepted
     \/ Goto(t, "failUnsure") /\ accepted' \in {accepted, accepted + 1}
  /\ UNCHANGED <<durable, cancelled, work, copy, resumed, crashes>>

Fail(t) ==
  /\ pc[t] \in {"failSafe", "failUnsure"}
  /\ job[work[t]].state = "running"
  /\ job' = [job EXCEPT ![work[t]].state = "failed", ![work[t]].retrySafe = (pc[t] = "failSafe")]
  /\ Leave(t)
  /\ UNCHANGED <<env, attempts, provider, crashes>>

Accept(t) ==
  /\ pc[t] = "accept"
  /\ job[work[t]].state = "running"
  /\ job' = [job EXCEPT ![work[t]].state = "verifying", ![work[t]].result = "typed"]
  /\ Goto(t, "succeed")
  /\ UNCHANGED <<env, attempts, provider, work, copy, resumed, crashes>>

Succeed(t) ==
  /\ pc[t] = "succeed"
  /\ Move(t, "verifying", "succeeded")
  /\ Goto(t, "receipt")
  /\ UNCHANGED <<env, attempts, provider, work, copy, resumed, crashes>>

StoreReceipt(t) ==
  /\ pc[t] = "receipt"
  /\ env' = [copy[t] EXCEPT !.receipt = work[t]]
  /\ Leave(t)
  /\ UNCHANGED <<attempts, job, provider, crashes>>

-----------------------------------------------------------------------------
(* Cancel.                                                                 *)

\* Mutant: a cancellation that failed may be asked for again.
BeginCancelAgain(t, c) ==
  /\ c \in CancelKeys
  /\ env.receipt # None /\ env.cancel = None
  /\ \A d \in CancelKeys : job[d].state \in {"absent", "failed"}
  /\ job[c].state = "absent"
  /\ job' = [job EXCEPT ![c].state = "preflight"]
  /\ Enter(t, c, "cancelRun", FALSE)
  /\ UNCHANGED attempts

\* The one accepted enrollment, and no cancellation of it before.
BeginCancel(t, c) ==
  /\ c \in CancelKeys
  /\ env.receipt # None /\ env.cancel = None
  /\ \A d \in CancelKeys : job[d].state = "absent"
  /\ job' = [job EXCEPT ![c].state = "preflight"]
  /\ Enter(t, c, "cancelRun", FALSE)
  /\ UNCHANGED attempts

\* The interrupted request comes again: at preflight the provider is called
\* now; at verifying only if the stored result is the document recovery knows.
ResumeCancel(t, c) ==
  /\ c \in CancelKeys
  /\ env.receipt # None /\ env.cancel = None
  /\ \A d \in CancelKeys \ {c} : job[d].state = "absent"
  /\ \/ job[c].state = "preflight" /\ Enter(t, c, "cancelRun", TRUE)
     \/ job[c].state = "verifying" /\ job[c].result = "bare" /\ Enter(t, c, "cancelSucceed", TRUE)
  /\ UNCHANGED <<attempts, job>>

CancelRun(t) ==
  /\ pc[t] = "cancelRun"
  /\ Move(t, "preflight", "running")
  /\ Goto(t, "cancel")
  /\ UNCHANGED <<env, attempts, provider, work, copy, resumed, crashes>>

CancelAtProvider(t) ==
  /\ pc[t] = "cancel"
  /\ cancelled' = cancelled + 1
  /\ \E step \in {"cancelAccept", "cancelFail"} : Goto(t, step)
  /\ UNCHANGED <<durable, commands, accepted, work, copy, resumed, crashes>>

CancelFail(t) ==
  /\ pc[t] = "cancelFail"
  /\ Move(t, "running", "failed")
  /\ Leave(t)
  /\ UNCHANGED <<env, attempts, provider, crashes>>

\* cancel keeps the typed result of the adapter, a resumed one a shorter one.
CancelAccept(t) ==
  /\ pc[t] = "cancelAccept"
  /\ job[work[t]].state = "running"
  /\ job' = [job EXCEPT ![work[t]].state = "verifying",
                        ![work[t]].result = IF resumed[t] THEN "bare" ELSE "typed"]
  /\ Goto(t, "cancelSucceed")
  /\ UNCHANGED <<env, attempts, provider, work, copy, resumed, crashes>>

CancelSucceed(t) ==
  /\ pc[t] = "cancelSucceed"
  /\ Move(t, "verifying", "succeeded")
  /\ Goto(t, "cancelReceipt")
  /\ UNCHANGED <<env, attempts, provider, work, copy, resumed, crashes>>

StoreCancel(t) ==
  /\ pc[t] = "cancelReceipt"
  /\ env' = [copy[t] EXCEPT !.cancel = work[t]]
  /\ Leave(t)
  /\ UNCHANGED <<attempts, job, provider, crashes>>

-----------------------------------------------------------------------------
Crash ==
  /\ crashes < MaxCrashes
  /\ crashes' = crashes + 1
  /\ pc' = [t \in Threads |-> "idle"]
  /\ work' = [t \in Threads |-> None]
  /\ copy' = [t \in Threads |-> Blank]
  /\ resumed' = [t \in Threads |-> FALSE]
  /\ UNCHANGED <<durable, provider>>

Steps(t) ==
  \/ Run(t) \/ StartAtProvider(t) \/ Fail(t) \/ Accept(t) \/ Succeed(t) \/ StoreReceipt(t)
  \/ CancelRun(t) \/ CancelAtProvider(t) \/ CancelFail(t)
  \/ CancelAccept(t) \/ CancelSucceed(t) \/ StoreCancel(t)

Next ==
  \/ \E t \in Threads, k \in Keys :
       \/ BeginStart(t, k) \/ BeginRetry(t, k) \/ Resume(t, k) \/ Finalize(t, k)
       \/ BeginCancel(t, k) \/ ResumeCancel(t, k)
  \/ \E t \in Threads : Steps(t)
  \/ Crash

Spec == Init /\ [][Next]_vars

-----------------------------------------------------------------------------
(* Properties.                                                             *)

\* The provider accepts at most one enrollment command of a plan, whatever is
\* retried, repeated under another key or interrupted: retries follow proven
\* failures only (SafeDeviceManagementEnrollmentExecutionRuntimeService.retry).
AcceptedAtMostOnce == accepted <= 1

\* Every attempt but the latest failed safely, and the receipt is that of the
\* latest one: an attempt in doubt, or under way, ends the series.
SeriesEndsInDoubt ==
  /\ \A i \in 1 .. Len(attempts) - 1 : SafelyFailed(attempts[i])
  /\ env.receipt # None => attempts # <<>> /\ env.receipt = Latest /\ job[Latest].state = "succeeded"

\* A job sends its command once: recovery resumes only before the call and
\* finalises only after its result is durable.
OneCommandPerJob == \A k \in AttemptKeys : commands[k] <= 1

\* The plan keeps the promise of SingleEnrollment: acceptance, receipt, cancel
\* command and cancel receipt in this order, each once and for good.
enrollment == INSTANCE SingleEnrollment WITH
  accepted <- accepted,
  phase <- IF env.cancel # None THEN "cancel-requested"
           ELSE IF env.receipt # None THEN "provider-accepted" ELSE "planned",
  cancelled <- cancelled
ImplementsEnrollment == enrollment!Promise

=============================================================================
