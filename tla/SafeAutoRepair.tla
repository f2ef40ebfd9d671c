--------------------------- MODULE SafeAutoRepair ---------------------------
(***************************************************************************)
(* Safe automatic repair of one derived resource: an observation of the    *)
(* resource becomes a recommendation, a reviewed recommendation that is    *)
(* still the current one is admitted as a job, and a worker drives the job *)
(* without a lock, by compare-and-set alone.                               *)
(*                                                                         *)
(* The resource and the policy move on their own at any time.  A worker    *)
(* may die between any two of its store or adapter calls.  A digest of a   *)
(* document is the document.  Clocks are left out: a job's state never     *)
(* recurs, so the timestamp adds nothing to the compare-and-set.           *)
(***************************************************************************)
EXTENDS Integers, FiniteSets

CONSTANTS
  Keys,           \* idempotency keys
  Workers,        \* worker invocations in progress
  None,
  MaxGeneration,  \* bound on the generation of the resource
  MaxJobs,        \* bound on the jobs created
  MaxHistory      \* bound on the recommendations recorded

ASSUME BoundsAssumption ==
  /\ MaxGeneration \in Nat /\ MaxJobs \in Nat /\ MaxHistory \in Nat
  /\ None \notin Keys

VARIABLES
  resource,   \* the derived resource, as a read of it reports
  policy,     \* whether the current policy allows the action at its risk
  history,    \* recommendations recorded
  jobs,       \* state of each job created
  runs,       \* times the adapter's action was invoked for a job
  ranOn,      \* the generation its action ran on
  work,       \* the job a worker drives
  pc,         \* where the worker stands
  verdict     \* what its read-back showed

workerVars == <<work, pc, verdict>>
ghosts == <<runs, ranOn>>
world == <<resource, policy>>
vars == <<world, history, jobs, ghosts, workerVars>>

-----------------------------------------------------------------------------
(* Observation, candidate, policy, recommendation.                         *)

\* Stale stands for stale and missing, which nothing below tells apart.
Statuses == {"current", "stale", "unknown"}

\* What a read of the resource reports, with evidence that it can be rebuilt.
Observations == [generation : 0 .. MaxGeneration, status : Statuses, recovery : BOOLEAN]

\* The status a candidate is derived from.
Repairable(o) == o.status = "stale"

\* A candidate is an observation and what its action needs; the two actions
\* that are derived are of low risk and need no provider, infrastructure or
\* publication.
Candidates == {o \in Observations : Repairable(o)}

Recommendations == [candidate : Candidates, policy : BOOLEAN]

Eligible(r) == r.policy /\ r.candidate.recovery

Current == [candidate |-> resource, policy |-> policy]

\* Mutant: whether it is eligible is not asked again.
AdmissibleBlocked(r) == Repairable(resource) /\ r = Current

\* A reviewed recommendation is admitted if deriving it again gives the same.
Admissible(r) == Eligible(r) /\ Repairable(resource) /\ r = Current

-----------------------------------------------------------------------------
(* Jobs.                                                                   *)

\* The identity of a job: what was admitted, and the caller's key.
JobIds == [recommendation : Recommendations, key : Keys]

States == {"admitted", "running", "verifying", "succeeded", "failed", "reconcile"}

Transitions == [s \in States |->
  CASE s = "admitted"  -> {"running"}
    [] s = "running"   -> {"verifying", "failed", "reconcile"}
    [] s = "verifying" -> {"succeeded", "failed"}
    [] OTHER           -> {}]

Created == DOMAIN jobs
Of(r) == {j \in Created : j.recommendation = r}

TypeOK ==
  /\ resource \in Observations
  /\ policy \in BOOLEAN
  /\ history \subseteq Recommendations
  /\ Created \subseteq JobIds
  /\ jobs \in [Created -> States]
  /\ runs \in [JobIds -> 0 .. 2]
  /\ ranOn \in [JobIds -> (0 .. MaxGeneration) \cup {None}]
  /\ work \in [Workers -> JobIds \cup {None}]
  /\ pc \in [Workers -> {"idle", "execute", "record", "confirm", "readBack", "complete"}]
  /\ verdict \in [Workers -> BOOLEAN]
  /\ \A w \in Workers : pc[w] # "idle" => work[w] \in Created

Init ==
  /\ resource \in Observations /\ policy \in BOOLEAN
  /\ resource.generation = 0
  /\ history = {}
  /\ jobs = [j \in {} |-> "admitted"]
  /\ runs = [j \in JobIds |-> 0]
  /\ ranOn = [j \in JobIds |-> None]
  /\ work = [w \in Workers |-> None]
  /\ pc = [w \in Workers |-> "idle"]
  /\ verdict = [w \in Workers |-> FALSE]

Keep == UNCHANGED <<world, history, ghosts, workerVars>>

\* A recommendation is recorded once, eligible or not.
Append ==
  /\ Cardinality(history) < MaxHistory
  /\ Repairable(resource)
  /\ history' = history \cup {Current}
  /\ UNCHANGED <<world, jobs, ghosts, workerVars>>

\* Mutant: a job that exists is written again, as a fresh one.
CreateAgain(r, k) ==
  LET j == [recommendation |-> r, key |-> k] IN
  /\ Admissible(r)
  /\ Cardinality(Created \cup {j}) <= MaxJobs
  /\ jobs' = [i \in Created \cup {j} |-> IF i = j THEN "admitted" ELSE jobs[i]]
  /\ Keep

\* create: an existing job is left as it is, or the call is refused.
Create(r, k) ==
  LET j == [recommendation |-> r, key |-> k] IN
  /\ Admissible(r)
  /\ j \notin Created
  /\ Cardinality(Created) < MaxJobs
  /\ jobs' = [i \in Created \cup {j} |-> IF i = j THEN "admitted" ELSE jobs[i]]
  /\ Keep

\* compare_and_set: the state the worker read is still the stored one.
Save(j, from, to) ==
  /\ jobs[j] = from
  /\ to \in Transitions[from]
  /\ jobs' = [jobs EXCEPT ![j] = to]

-----------------------------------------------------------------------------
(* The worker.                                                             *)

Goto(w, step) == pc' = [pc EXCEPT ![w] = step]

Leave(w) ==
  /\ Goto(w, "idle")
  /\ work' = [work EXCEPT ![w] = None]
  /\ verdict' = [verdict EXCEPT ![w] = FALSE]

\* An admitted job is claimed: running is durable before the action is called.
\* get and save are two calls; a job that moved between them is not saved, so
\* reading and claiming are one step here.
Start(w, j) ==
  /\ pc[w] = "idle"
  /\ Save(j, "admitted", "running")
  /\ Goto(w, "execute")
  /\ work' = [work EXCEPT ![w] = j]
  /\ UNCHANGED <<verdict, world, history, ghosts>>

\* Mutant: a job found at running is executed again.
ResumeRunning(w, j) ==
  /\ pc[w] = "idle"
  /\ jobs[j] \in {"running", "verifying"}
  /\ Goto(w, IF jobs[j] = "running" THEN "execute" ELSE "readBack")
  /\ work' = [work EXCEPT ![w] = j]
  /\ UNCHANGED <<verdict, jobs, world, history, ghosts>>

\* A job found at verifying is only read back; any other state is refused, or
\* answered from the job.
Resume(w, j) ==
  /\ pc[w] = "idle"
  /\ jobs[j] = "verifying"
  /\ Goto(w, "readBack")
  /\ work' = [work EXCEPT ![w] = j]
  /\ UNCHANGED <<verdict, jobs, world, history, ghosts>>

\* The adapter's action: it may take effect or not, and answers or raises.
Execute(w) ==
  LET j == work[w] IN
  /\ pc[w] = "execute"
  /\ runs' = [runs EXCEPT ![j] = @ + 1]
  /\ ranOn' = [ranOn EXCEPT ![j] = resource.generation]
  /\ resource' \in {resource, [resource EXCEPT !.status = "current"]}
  /\ \/ Goto(w, "record") /\ UNCHANGED <<work, verdict>>
     \/ Leave(w)
  /\ UNCHANGED <<policy, history, jobs>>

\* The typed result is made durable; only an accepted one goes on.
Record(w) ==
  LET j == work[w] IN
  /\ pc[w] = "record"
  /\ \/ /\ Save(j, "running", "verifying")
        /\ Goto(w, "confirm")
        /\ UNCHANGED <<work, verdict>>
     \/ \E to \in {"failed", "reconcile"} : Save(j, "running", to) /\ Leave(w)
  /\ UNCHANGED <<world, history, ghosts>>

\* save reads the job back after it gave up the lock: another worker may have
\* completed it meanwhile, and then this one gives up.
Confirm(w) ==
  /\ pc[w] = "confirm"
  /\ \/ /\ jobs[work[w]] = "verifying"
        /\ Goto(w, "readBack")
        /\ UNCHANGED <<work, verdict>>
     \/ jobs[work[w]] # "verifying" /\ Leave(w)
  /\ UNCHANGED <<world, history, jobs, ghosts>>

\* Mutant: the generation that was read is not compared.
MatchedAnyGeneration(r, o) == o.status = "current"

\* The post-condition: the content matches, at the generation that was reviewed.
Matched(r, o) ==
  /\ o.generation = r.candidate.generation
  /\ o.status = "current"

ReadBack(w) ==
  /\ pc[w] = "readBack"
  /\ verdict' = [verdict EXCEPT ![w] = Matched(work[w].recommendation, resource)]
  /\ Goto(w, "complete")
  /\ UNCHANGED <<work, world, history, jobs, ghosts>>

Complete(w) ==
  /\ pc[w] = "complete"
  /\ Save(work[w], "verifying", IF verdict[w] THEN "succeeded" ELSE "failed")
  /\ Leave(w)
  /\ UNCHANGED <<world, history, ghosts>>

\* The worker's process dies, an adapter or store call of it raises, or a save
\* finds the job moved.
Die(w) ==
  /\ pc[w] # "idle"
  /\ Leave(w)
  /\ UNCHANGED <<world, history, jobs, ghosts>>

-----------------------------------------------------------------------------
(* The world.                                                              *)

\* A new generation of the resource, in whatever condition.
Advance ==
  /\ resource.generation < MaxGeneration
  /\ resource' \in {o \in Observations : o.generation = resource.generation + 1}
  /\ UNCHANGED <<policy, history, jobs, ghosts, workerVars>>

\* The copy decays, or what a read of it says changes.
Drift ==
  /\ resource' \in {o \in Observations : o.generation = resource.generation}
  /\ resource'.status # "current"
  /\ resource' # resource
  /\ UNCHANGED <<policy, history, jobs, ghosts, workerVars>>

ChangePolicy ==
  /\ policy' = ~policy
  /\ UNCHANGED <<resource, history, jobs, ghosts, workerVars>>

-----------------------------------------------------------------------------

Next ==
  \/ Append \/ Advance \/ Drift \/ ChangePolicy
  \/ \E r \in Recommendations, k \in Keys : Create(r, k)
  \/ \E w \in Workers :
       \/ \E j \in Created : Start(w, j) \/ Resume(w, j)
       \/ Execute(w) \/ Record(w) \/ Confirm(w) \/ ReadBack(w) \/ Complete(w) \/ Die(w)

Spec == Init /\ [][Next]_vars

-----------------------------------------------------------------------------
(* The history a household sees.                                           *)

\* The status shown for a recommendation with its latest job, or "error" when
\* the projection refuses the pair.
Status(r, j) ==
  CASE ~Eligible(r) /\ j # None -> "error"
    [] ~Eligible(r)             -> "blocked"
    [] j = None                 -> "suggested"
    [] OTHER -> [s \in States |->
         CASE s = "admitted"  -> "queued"
           [] s = "running"   -> "in progress"
           [] s = "verifying" -> "verifying"
           [] s = "succeeded" -> "fixed"
           [] s = "failed"    -> "failed"
           [] OTHER           -> "needs review"][jobs[j]]

\* What list may show for r: any of its jobs may be the latest.
Shown(r) == {Status(r, j) : j \in IF Of(r) = {} THEN {None} ELSE Of(r)}

-----------------------------------------------------------------------------
(* Properties.                                                             *)

\* An action whose outcome may have been lost is never invoked again: however
\* often workers are called for a job, wherever they die and however they
\* race, the adapter's action runs at most once for it.
RunAtMostOnce == \A j \in JobIds : runs[j] <= 1

\* The worker does not ask again whether the recommendation is current, but a
\* job succeeds only if its action ran on the generation that was reviewed: a
\* repair overtaken by a new generation never counts as done.
SuccessOnReviewedGeneration ==
  \A j \in Created : jobs[j] = "succeeded" =>
    ranOn[j] = j.recommendation.candidate.generation

\* Reading the history never fails on what is stored, and it shows "fixed" only
\* where an action ran: no blocked recommendation has a job.
HistoryReadable ==
  \A r \in history :
    /\ "error" \notin Shown(r)
    /\ "fixed" \in Shown(r) => \E j \in Of(r) : runs[j] = 1

\* Nothing takes a job back or changes how it ended: a stored state is replaced
\* only by one the transition table allows, also when a create is repeated.
Advances ==
  \A j \in Created :
    j \in DOMAIN jobs' /\ (jobs'[j] # jobs[j] => jobs'[j] \in Transitions[jobs[j]])

JobsOnlyAdvance == [][Advances]_vars
=============================================================================
