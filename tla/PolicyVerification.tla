------------------------- MODULE PolicyVerification -------------------------
(***************************************************************************)
(* From a desired policy to one that may be called verified: the backend   *)
(* is read back and the reading judged (reconciliation, and its recovery   *)
(* after an interruption), the judgement becomes a verified projection or  *)
(* a flag on the desired state, and readers are told which policy is in    *)
(* effect.                                                                 *)
(*                                                                         *)
(* Five services, each with one call in progress.  A reconciliation is     *)
(* numbered by the moment it was requested at, which makes its id unique.  *)
(***************************************************************************)
EXTENDS HouseholdPolicy

CONSTANTS
  MaxRequests,  \* bound on the reconciliations requested
  MaxRestarts,  \* bound on the crashes
  Accesses,     \* accesses a child may try, and
  Usages        \* how much of the day, the week and the session is used

ASSUME UsageAssumption == Usages \subseteq [daily : Nat, weekly : Nat, session : Nat]

VARIABLES
  requests,   \* reconciliations: what each binds, its status, its evidence
  rjobs,      \* their jobs
  reconcile,  \* the reconciliation in progress
  recover,    \* the recovery in progress
  records,    \* projection transitions, by the reconciliation they rest on
  vjobs,      \* their jobs
  project,    \* the projection transition in progress
  fjobs,      \* jobs of the flag transitions
  promote,    \* the flag transition in progress
  read,       \* a reader of the effective policy: what it has read, or was told
  restarts    \* number of crashes so far

reconcileVars == <<requests, rjobs, reconcile, recover>>
projectVars == <<records, vjobs, project>>
promoteVars == <<fjobs, promote>>
verificationVars == <<policyVars, reconcileVars, projectVars, promoteVars, read, restarts>>

Numbers == 1 .. MaxRequests

Policy == desired["policy"]

RequestStatuses ==
  {"running", "verifying", "failed", "evidence-persisted", "completed", "recovery-blocked"}

Verdicts == {"verified", "mismatch", "pending", "blocked"}

RequestRecords ==
  [desired : DesiredPolicies, status : RequestStatuses, verdict : Verdicts \cup {Nothing}]

ASSUME RequestAssumption == Nothing \notin Verdicts \cup RequestRecords

-----------------------------------------------------------------------------
(* Reading the backend and judging what was read.                          *)

\* What an adapter reports: the policy it found, and how old the finding is.
\* A reading within its age tells the truth of its moment; an older one, or
\* one from the future, may tell anything.
Readings ==
  [age : {"current", "outside"}, state : {"enforced"}, policy : Bundles]
    \cup [age : {"current"}, state : {"not-enforced", "unknown"}, policy : {Nothing}]

Truthful(r) ==
  r.age = "current" /\ r.state = "enforced" => backend = r.policy

\* Mutant: the digest of what was found is not compared.
VerdictOnState(wanted, r) ==
  IF r.state = "enforced" THEN "verified"
  ELSE IF r.state = "not-enforced" THEN "pending" ELSE "blocked"

Verdict(wanted, r) ==
  CASE r.state = "enforced" /\ r.policy = wanted -> "verified"
    [] r.state = "enforced" /\ r.policy # wanted -> "mismatch"
    [] r.state = "not-enforced"                  -> "pending"
    [] r.state = "unknown"                       -> "blocked"

Acceptable(r) == r.age = "current"

KeepReconcile == UNCHANGED <<policyVars, recover, projectVars, promoteVars, read>>

\* A request binds the desired state as it is; its job and its envelope are
\* created, and neither is ever met again under another moment's id.
Request(n) ==
  /\ reconcile = Nothing /\ requests[n] = Nothing
  /\ \A m \in Numbers : m < n => requests[m] # Nothing
  /\ Enforceable(Policy)
  /\ requests' = [requests EXCEPT ![n] = [desired |-> Policy, status |-> "running", verdict |-> Nothing]]
  /\ rjobs' = [rjobs EXCEPT ![n] = "running"]
  /\ reconcile' = [request |-> n, at |-> "read", reading |-> Nothing]
  /\ KeepReconcile

ReadBackend(r) ==
  /\ reconcile # Nothing /\ reconcile.at = "read"
  /\ Truthful(r)
  /\ rjobs' = [rjobs EXCEPT ![reconcile.request] = "verifying"]
  /\ requests' = [requests EXCEPT ![reconcile.request].status = "verifying"]
  /\ reconcile' = [reconcile EXCEPT !.at = "judge", !.reading = r]
  /\ KeepReconcile

\* The job fails, and then the envelope.
FailRequest(n) ==
  /\ rjobs' = [rjobs EXCEPT ![n] = "failed"]
  /\ requests' = [requests EXCEPT ![n].status = "failed"]
  /\ reconcile' = Nothing

ReadFails ==
  /\ reconcile # Nothing /\ reconcile.at = "read"
  /\ FailRequest(reconcile.request)
  /\ KeepReconcile

\* The desired state is read again and must be the one that was bound.
Judge ==
  LET n == reconcile.request
      bound == requests[n].desired IN
  /\ reconcile # Nothing /\ reconcile.at = "judge"
  /\ IF Policy = bound /\ Acceptable(reconcile.reading)
     THEN /\ requests' = [requests EXCEPT ![n].status = "evidence-persisted",
                            ![n].verdict = Verdict(bound.content, reconcile.reading)]
          /\ reconcile' = [reconcile EXCEPT !.at = "job", !.reading = Nothing]
          /\ UNCHANGED rjobs
     ELSE FailRequest(n)
  /\ KeepReconcile

\* The job has gone on if a recovery came first, and the call ends there.
EndRequestJob ==
  LET n == reconcile.request IN
  /\ reconcile # Nothing /\ reconcile.at = "job"
  /\ rjobs' = [rjobs EXCEPT ![n] = IF @ = "verifying" THEN "succeeded" ELSE @]
  /\ reconcile' = IF rjobs[n] = "verifying" THEN [reconcile EXCEPT !.at = "close"] ELSE Nothing
  /\ UNCHANGED requests
  /\ KeepReconcile

CloseRequest ==
  /\ reconcile # Nothing /\ reconcile.at = "close"
  /\ requests' = [requests EXCEPT ![reconcile.request].status = "completed"]
  /\ reconcile' = Nothing
  /\ UNCHANGED rjobs
  /\ KeepReconcile

-----------------------------------------------------------------------------
(* Recovery of a reconciliation whose evidence was stored.                 *)

KeepRecover == UNCHANGED <<policyVars, reconcile, projectVars, promoteVars, read>>

Recover(n) ==
  /\ recover = Nothing
  /\ requests[n] # Nothing /\ requests[n].status = "evidence-persisted"
  /\ recover' = [request |-> n, good |-> Policy = requests[n].desired, at |-> "job"]
  /\ UNCHANGED <<requests, rjobs>>
  /\ KeepRecover

\* A job still verifying is finished or failed; one that has succeeded stands.
RecoverJob ==
  LET n == recover.request IN
  /\ recover # Nothing /\ recover.at = "job"
  /\ rjobs' = [rjobs EXCEPT ![n] =
       IF @ # "verifying" THEN @ ELSE IF recover.good THEN "succeeded" ELSE "failed"]
  /\ recover' = [recover EXCEPT !.at = "close",
       !.good = @ /\ rjobs[n] \in {"verifying", "succeeded"}]
  /\ UNCHANGED requests
  /\ KeepRecover

RecoverClose ==
  /\ recover # Nothing /\ recover.at = "close"
  /\ requests' = [requests EXCEPT ![recover.request].status =
       IF recover.good THEN "completed" ELSE "recovery-blocked"]
  /\ recover' = Nothing
  /\ UNCHANGED rjobs
  /\ KeepRecover

-----------------------------------------------------------------------------
(* The verified projection.                                                *)

KeepProject ==
  UNCHANGED <<desiredVars, enforceVars, backendVars, reconcileVars, promoteVars, read>>

\* Evidence that may be acted on.
Proven(n) ==
  /\ requests[n] # Nothing
  /\ requests[n].status = "completed" /\ requests[n].verdict = "verified"

Projection(n) == [desired |-> requests[n].desired, request |-> n]

\* One generation has one projection, and the generation never goes back.
Replaceable(n) ==
  verified # Nothing =>
    \/ verified = Projection(n)
    \/ verified.desired.generation < requests[n].desired.generation

VJob(n) == IF vjobs[n] = Nothing THEN "running" ELSE vjobs[n]

Project(n) ==
  /\ project = Nothing
  /\ Proven(n) /\ Policy = requests[n].desired
  /\ Replaceable(n) /\ records[n] # "completed"
  /\ vjobs' = [vjobs EXCEPT ![n] = VJob(n)]
  /\ records' = [records EXCEPT ![n] = IF @ = Nothing THEN "prepared" ELSE @]
  /\ project' = [request |-> n, at |-> IF VJob(n) = "running" THEN "write" ELSE "finish"]
  /\ UNCHANGED verified
  /\ KeepProject

ProjectWrite ==
  /\ project # Nothing /\ project.at = "write"
  /\ verified' = IF Replaceable(project.request) THEN Projection(project.request) ELSE verified
  /\ project' = IF Replaceable(project.request) THEN [project EXCEPT !.at = "mark"] ELSE Nothing
  /\ UNCHANGED <<records, vjobs>>
  /\ KeepProject

ProjectMark ==
  /\ project # Nothing /\ project.at = "mark"
  /\ records' = [records EXCEPT ![project.request] = "verifying"]
  /\ vjobs' = [vjobs EXCEPT ![project.request] = "verifying"]
  /\ project' = [project EXCEPT !.at = "finish"]
  /\ UNCHANGED verified
  /\ KeepProject

\* The projection is read back before the job and the record are closed.
ProjectFinish ==
  LET n == project.request  good == verified = Projection(n) IN
  /\ project # Nothing /\ project.at = "finish"
  /\ vjobs' = [vjobs EXCEPT ![n] =
       IF @ # "verifying" THEN @ ELSE IF good THEN "succeeded" ELSE "failed"]
  /\ project' = IF good /\ vjobs[n] # "failed" THEN [project EXCEPT !.at = "close"] ELSE Nothing
  /\ UNCHANGED <<records, verified>>
  /\ KeepProject

ProjectClose ==
  /\ project # Nothing /\ project.at = "close"
  /\ records' = [records EXCEPT ![project.request] = "completed"]
  /\ project' = Nothing
  /\ UNCHANGED <<vjobs, verified>>
  /\ KeepProject

-----------------------------------------------------------------------------
(* The verification flag on the desired state.                             *)

KeepPromote ==
  UNCHANGED <<household, plans, jobs, commit, verified, enforceVars, backendVars,
              reconcileVars, projectVars, read>>

Flagged(d) == [d EXCEPT !.verified = TRUE]

\* The binding names everything but the flag.
BindsPolicy(n) == Policy # Nothing /\ Flagged(Policy) = Flagged(requests[n].desired)

\* A job of that evidence that is over is not taken up again.
Promote(n) ==
  /\ promote = Nothing
  /\ Proven(n)
  /\ fjobs[n] \notin {"succeeded", "failed"}
  /\ fjobs' = [fjobs EXCEPT ![n] =
       IF BindsPolicy(n) THEN IF @ = Nothing THEN "running" ELSE @ ELSE "failed"]
  /\ promote' = IF BindsPolicy(n) THEN [request |-> n, read |-> Policy, at |-> "swap"] ELSE Nothing
  /\ UNCHANGED desired
  /\ KeepPromote

\* The desired state read is replaced by compare-and-set; a loser goes on if
\* the state is already what it wanted.
Swap ==
  LET n == promote.request
      won == Policy = promote.read \/ Policy = Flagged(promote.read) IN
  /\ promote # Nothing /\ promote.at = "swap"
  /\ desired' = IF Policy = promote.read THEN [desired EXCEPT !["policy"] = Flagged(@)] ELSE desired
  /\ fjobs' = [fjobs EXCEPT ![n] =
       IF @ # "running" THEN @ ELSE IF won THEN "verifying" ELSE "failed"]
  /\ promote' = IF won THEN [promote EXCEPT !.at = "finish"] ELSE Nothing
  /\ KeepPromote

PromoteFinish ==
  /\ promote # Nothing /\ promote.at = "finish"
  /\ fjobs' = [fjobs EXCEPT ![promote.request] =
       IF Policy = Flagged(promote.read) THEN "succeeded" ELSE "failed"]
  /\ promote' = Nothing
  /\ UNCHANGED desired
  /\ KeepPromote

-----------------------------------------------------------------------------
(* The effective policy, read without a lock: first what is desired, then  *)
(* what is verified.                                                       *)

KeepRead == UNCHANGED <<policyVars, reconcileVars, projectVars, promoteVars>>

ReadDesired ==
  /\ read = Nothing
  /\ read' = [desired |-> Policy, told |-> Nothing]
  /\ KeepRead

\* A flagged desired state, an orphan or a later projection, and one of the
\* same generation that differs are refused; an older one does not count.
ReadVerified ==
  LET d == read.desired
      refused == \/ d # Nothing /\ d.verified
                 \/ verified # Nothing /\ ~Proven(verified.request)
                 \/ verified # Nothing /\ Generation(verified.desired) > Generation(d)
                 \/ /\ verified # Nothing /\ d # Nothing /\ verified.desired # d
                    /\ verified.desired.generation = d.generation
      current == ~refused /\ d # Nothing /\ verified # Nothing /\ verified.desired = d
  IN
  /\ read # Nothing /\ read.told = Nothing
  /\ read' = [read EXCEPT !.told =
       IF refused THEN "refused" ELSE IF current THEN "verified" ELSE "desired"]
  /\ KeepRead

EndRead ==
  /\ read # Nothing /\ read.told # Nothing
  /\ read' = Nothing
  /\ KeepRead

-----------------------------------------------------------------------------

VerificationInit ==
  /\ PolicyInit
  /\ requests = [n \in Numbers |-> Nothing] /\ rjobs = [n \in Numbers |-> Nothing]
  /\ reconcile = Nothing /\ recover = Nothing
  /\ records = [n \in Numbers |-> Nothing] /\ vjobs = [n \in Numbers |-> Nothing]
  /\ project = Nothing
  /\ fjobs = [n \in Numbers |-> Nothing] /\ promote = Nothing
  /\ read = Nothing /\ restarts = 0

Reconciliation ==
  \/ \E n \in Numbers : Request(n) \/ Recover(n)
  \/ \E r \in Readings : ReadBackend(r)
  \/ ReadFails \/ Judge \/ EndRequestJob \/ CloseRequest
  \/ RecoverJob \/ RecoverClose

Transition ==
  \/ \E n \in Numbers : Project(n) \/ Promote(n)
  \/ ProjectWrite \/ ProjectMark \/ ProjectFinish \/ ProjectClose
  \/ Swap \/ PromoteFinish

\* Every call in progress is lost; what is stored is not.
Restart ==
  /\ restarts < MaxRestarts
  /\ restarts' = restarts + 1
  /\ commit' = [l \in Lanes |-> Nothing]
  /\ enforce' = Nothing /\ reconcile' = Nothing /\ recover' = Nothing
  /\ project' = Nothing /\ promote' = Nothing /\ read' = Nothing
  /\ UNCHANGED <<household, desired, plans, jobs, verified, eplans, ejobs, invoked,
                 backendVars, requests, rjobs, records, vjobs, fjobs>>

Call ==
  \/ PolicyNext /\ UNCHANGED <<reconcileVars, projectVars, promoteVars, read>>
  \/ Reconciliation
  \/ Transition
  \/ ReadDesired \/ ReadVerified \/ EndRead

VerificationNext ==
  \/ Call /\ UNCHANGED restarts
  \/ Restart

VerificationSpec == VerificationInit /\ [][VerificationNext]_verificationVars

-----------------------------------------------------------------------------
(* Properties.                                                             *)

\* Types, and what the role allows: no stored policy of the child exceeds the
\* preset of the role, whichever bundle was asked for.
PolicyTypeOK ==
  /\ household \in 0 .. MaxHousehold
  /\ \A l \in Lanes : Generation(desired[l]) \in 0 .. MaxGeneration[l]
  /\ \A l \in Lanes : \A p \in DOMAIN plans[l] : plans[l][p] \in {"planned", "committed"}
  /\ Role = "child" /\ Policy # Nothing => BaseFits(Policy.content)
  /\ late \subseteq Bundles /\ wasInForce \subseteq Bundles
  /\ backend \in wasInForce \cup {Nothing}
  /\ \A d \in DOMAIN invoked : d \in DOMAIN eplans

\* Whatever calls a policy verified, the projection, the flag on the desired
\* state or the answer given to a reader, that policy has been in force at the
\* backend: readings, judgements, evidence, transitions and crashes of five
\* services may interleave in any order.
VerifiedWasInForce ==
  /\ verified # Nothing => verified.desired.content \in wasInForce
  /\ Policy # Nothing /\ Policy.verified => Policy.content \in wasInForce
  /\ read # Nothing /\ read.told = "verified" => read.desired.content \in wasInForce

\* The backend is asked to apply an enforcement plan at most once, although a
\* plan may be executed again after any crash.
AppliedAtMostOnce == \A d \in DOMAIN invoked : invoked[d] <= 1

\* A step that changes a desired state either raises the flag on it, or puts
\* in its place the next generation, by a plan made of exactly the generation
\* and the policy that are replaced: no confirmed change is lost to a plan
\* that did not see it.  The verified projection only moves to a later
\* generation.
GenerationsAdvance ==
  [][/\ \A l \in Lanes : desired'[l] # desired[l] =>
          \/ desired[l] # Nothing /\ desired'[l] = Flagged(desired[l])
          \/ LET p == desired'[l].plan IN
             /\ desired'[l] = Wanted(p)
             /\ p.observed = Generation(desired[l])
             /\ p.current = Current(l, desired[l])
     /\ verified' # verified /\ verified # Nothing =>
          verified'.desired.generation > verified.desired.generation]_verificationVars

\* An access, and what has been used when it is tried.
Query(a, u) ==
  [source |-> a.source, domain |-> a.domain, category |-> a.category,
   weekday |-> a.weekday, minute |-> a.minute,
   daily |-> u.daily, weekly |-> u.weekly, session |-> u.session]

\* Rules under which an access that was denied stays denied as more of the
\* day, of the week or of the session is used.
Tightening ==
  {r \in RuleSets : \A a \in Accesses : \A u, v \in Usages :
     /\ u.daily <= v.daily /\ u.weekly <= v.weekly /\ u.session <= v.session
     /\ Allowed(r, Query(a, v))
     => Allowed(r, Query(a, u))}

\* Parental rules are committed only over a policy of a child that was in force
\* and that leaves no way around them, and using more never lifts a denial.
RulesHold ==
  LET d == desired["parental"] IN
  d # Nothing =>
    /\ d.plan.base.desired.content \in wasInForce
    /\ d.plan.base.desired.content.internet # "full"
    /\ "vpn" \notin d.plan.base.desired.content.granted
    /\ d.content \in Tightening
=============================================================================
