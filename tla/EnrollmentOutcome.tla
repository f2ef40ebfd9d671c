-------------------------- MODULE EnrollmentOutcome -------------------------
(***************************************************************************)
(* What becomes of an accepted enrollment.  Its post-condition is verified *)
(* by a read-back: a verified one makes the device managed in the          *)
(* Household, a rejected one may be cleaned up, which removes the one-time *)
(* enrollment artifact from every place that holds it.                     *)
(*                                                                         *)
(* Composed with EnrollmentExecution, whose cancellation may be under way  *)
(* at any time: execution, verification, cleanup planning and cleanup      *)
(* execution are four services over one store.  The first three have a     *)
(* lock each, so that one request of verification and one of cleanup       *)
(* planning is followed at a time; the fourth is made anew, with its lock, *)
(* for every HTTP request, so that two of its requests run side by side.   *)
(* One verification and one cleanup are planned.                           *)
(***************************************************************************)
EXTENDS EnrollmentExecution, FiniteSets

CONSTANTS
  VerifyKeys, CleanKeys, ScrubKeys,  \* idempotency keys of the three services
  Scrubbers,                         \* threads that execute a cleanup
  MaxHousehold                       \* bound on the Household version

\* A job is found by its action and its key: the services share none.  The
\* Household has room for the change a verification makes.
ASSUME OutcomeAssumption ==
  /\ MaxHousehold \in Nat \ {0}
  /\ None \notin VerifyKeys \cup CleanKeys \cup ScrubKeys
  /\ VerifyKeys \cap CleanKeys = {}
  /\ ScrubKeys \cap (VerifyKeys \cup CleanKeys) = {}

VARIABLES
  household,  \* its version, and whether the device is marked managed
  places,     \* where the artifact is stored
  ver,        \* envelope of the verification
  clean,      \* envelope of the cleanup
  jobs,       \* jobs of the three services
  seen,       \* what the read-back of a job showed
  held,       \* cancelling threads whose copy of the envelope has the artifact
  v, c,       \* the request inside verification and inside cleanup planning
  x,          \* what every scrubbing thread is doing
  returning   \* places a request began to rewrite before they were scrubbed

outcome == <<household, places, ver, clean, jobs, seen, held, v, c, x, returning>>
allVars == <<vars, outcome>>

Places == {"envelope", "job", "verification"}
Households == [version : 0 .. MaxHousehold, managed : BOOLEAN]
JobKeys == VerifyKeys \cup CleanKeys \cup ScrubKeys

\* The snapshot everything was planned on, and that snapshot with the device
\* marked managed.
Base == [version |-> 0, managed |-> FALSE]
ExpectedSnapshot == [version |-> 1, managed |-> TRUE]

VerStatuses == {"none", "planned", "running", "failed", "rejected", "verified", "pending", "applied"}
Verifications == [status : VerStatuses, job : VerifyKeys \cup {None},
                  receipt : VerifyKeys \cup {None}, expected : BOOLEAN]
Cleanups == [status : {"none", "planned", "failed", "authorized", "blocked"},
             base : Households, receipt : VerifyKeys \cup {None}, done : BOOLEAN]

\* An enrolled device may leave again at any time, and one that is not may enroll.
DeviceStates == {"managed", "unmanaged"}

Rest == [at |-> "rest"]

OutcomeTypeOK ==
  /\ household \in Households
  /\ places \subseteq Places /\ returning \subseteq Places
  /\ ver \in Verifications /\ clean \in Cleanups
  /\ jobs \in [JobKeys -> States]
  /\ seen \in [VerifyKeys \cup CleanKeys -> DeviceStates \cup {None}]
  /\ held \subseteq Threads
  /\ v.at # "rest" => v.key \in VerifyKeys /\ v.copy \in Verifications /\ v.holds \in BOOLEAN
  /\ c.at # "rest" => c.key \in CleanKeys
  /\ \A t \in Scrubbers : x[t].at # "rest" => x[t].key \in ScrubKeys /\ x[t].job \in States

OutcomeInit ==
  /\ Init
  /\ household = Base /\ places = {}
  /\ ver = [status |-> "none", job |-> None, receipt |-> None, expected |-> FALSE]
  /\ clean = [status |-> "none", base |-> Base, receipt |-> None, done |-> FALSE]
  /\ jobs = [k \in JobKeys |-> "absent"]
  /\ seen = [k \in VerifyKeys \cup CleanKeys |-> None]
  /\ held = {} /\ returning = {}
  /\ v = Rest /\ c = Rest /\ x = [t \in Scrubbers |-> Rest]

\* transition_action_job; a job that is not in the expected state raises.
To(k, from, to) == jobs[k] = from /\ jobs' = [jobs EXCEPT ![k] = to]

\* Mutant: an envelope is rewritten with the receipt as it was first issued.
RewrittenAnew(place, copyHasIt) == places \cup {place}

\* The artifact is in a place after it is written from a copy of it.
Rewritten(place, copyHasIt) == IF copyHasIt THEN places \cup {place} ELSE places \ {place}

\* Accepted by the provider, and not cancelled.
InForce == env.receipt # None /\ env.cancel = None

-----------------------------------------------------------------------------
(* Execution: what its steps do to the artifact.                           *)

Unmoved == UNCHANGED <<household, ver, clean, jobs, seen, v, c, x, returning>>

\* The result of the provider is kept with its artifact, and the receipt takes
\* it from there.
ExecutionStep ==
  /\ \E t \in Threads, k \in Keys :
       \/ /\ BeginStart(t, k) \/ BeginRetry(t, k) \/ Resume(t, k) \/ Finalize(t, k)
          /\ UNCHANGED <<places, held>>
       \/ /\ BeginCancel(t, k) \/ ResumeCancel(t, k)
          /\ held' = IF "envelope" \in places THEN held \cup {t} ELSE held \ {t}
          /\ UNCHANGED places
  /\ Unmoved

RequestStep(t) ==
  /\ \/ /\ Run(t) \/ StartAtProvider(t) \/ Fail(t) \/ Succeed(t) \/ CancelRun(t)
           \/ CancelAtProvider(t) \/ CancelFail(t) \/ CancelAccept(t) \/ CancelSucceed(t)
        /\ UNCHANGED places
     \/ Accept(t) /\ places' = places \cup {"job"}
     \/ StoreReceipt(t) /\ places' = places \cup {"envelope"}
     \/ StoreCancel(t) /\ places' = Rewritten("envelope", t \in held)
  /\ UNCHANGED held
  /\ Unmoved

-----------------------------------------------------------------------------
(* Verification of the post-condition.                                     *)

verOnly == <<vars, clean, held, c, x, returning>>

\* The plan copies the execution receipt into its own envelope.
PlanVerification ==
  /\ v = Rest /\ ver.status = "none"
  /\ InForce /\ household = Base
  /\ ver' = [ver EXCEPT !.status = "planned"]
  /\ places' = Rewritten("verification", "envelope" \in places)
  /\ UNCHANGED <<verOnly, household, jobs, seen, v>>

\* The Household is the planned one, or already the one this verification makes.
StillValid == household = Base \/ (ver.expected /\ household = ExpectedSnapshot)

\* confirm, up to its job: an applied verification is answered, a key that has
\* a job is refused.
BeginVerify(k) ==
  /\ v = Rest
  /\ ver.status \notin {"none", "applied"}
  /\ InForce /\ StillValid
  /\ To(k, "absent", "preflight")
  /\ v' = [at |-> "mark", key |-> k, copy |-> ver, holds |-> "verification" \in places,
            recovers |-> FALSE]
  /\ UNCHANGED <<verOnly, household, places, ver, seen>>

\* Writes of the whole envelope, from the copy the request has of it.
Write(next, change) ==
  /\ ver' = change /\ v' = [v EXCEPT !.at = next, !.copy = change]
  /\ places' = Rewritten("verification", v.holds)

MarkRunning ==
  /\ v.at = "mark"
  /\ Write("run", [v.copy EXCEPT !.status = "running", !.job = v.key])
  /\ UNCHANGED <<verOnly, household, jobs, seen>>

RunVerify ==
  /\ v.at = "run"
  /\ To(v.key, "preflight", "running")
  /\ v' = [v EXCEPT !.at = "read"]
  /\ UNCHANGED <<verOnly, household, places, ver, seen>>

\* The provider is read; it may raise, and what it answers may be refused.
ReadDevice ==
  /\ v.at = "read"
  /\ \/ /\ To(v.key, "running", "failed")
        /\ v' = [v EXCEPT !.at = "fail"]
        /\ UNCHANGED seen
     \/ /\ To(v.key, "running", "verifying")
        /\ \E state \in DeviceStates : seen' = [seen EXCEPT ![v.key] = state]
        /\ v' = [v EXCEPT !.at = "judge"]
  /\ UNCHANGED <<verOnly, household, places, ver>>

\* Mutant: a device that is not enrolled verifies as well.
VerdictsLenient(state) == {"verified", "rejected"}

\* Only a fresh read-back of an enrolled device with the expected signals is
\* verified; whatever else it shows, or when it is too old, it is rejected.
Verdicts(state) == IF state = "managed" THEN {"verified", "rejected"} ELSE {"rejected"}

Judge ==
  /\ v.at = "judge"
  /\ \E verdict \in Verdicts(seen[v.key]) :
       Write(IF verdict = "verified" THEN "pend" ELSE "reject",
             [v.copy EXCEPT !.status = verdict, !.receipt = v.key])
  /\ UNCHANGED <<verOnly, household, jobs, seen>>

FailVerification ==
  /\ v.at = "fail"
  /\ ver' = [v.copy EXCEPT !.status = "failed"]
  /\ places' = Rewritten("verification", v.holds)
  /\ v' = Rest
  /\ UNCHANGED <<verOnly, household, jobs, seen>>

Reject ==
  /\ v.at = "reject"
  /\ To(v.key, "verifying", "failed")
  /\ v' = Rest
  /\ UNCHANGED <<verOnly, household, places, ver, seen>>

\* The snapshot to write is durable before it is written.
Pend ==
  /\ v.at = "pend"
  /\ Write("current", [v.copy EXCEPT !.status = "pending", !.expected = TRUE])
  /\ UNCHANGED <<verOnly, household, jobs, seen>>

\* The Household is the base, or holds the change already; otherwise the
\* request ends here, and recovery fails the job.
ReadCurrent ==
  /\ v.at = "current"
  /\ IF household \in {Base, ExpectedSnapshot}
     THEN /\ v' = [v EXCEPT !.at = IF household = Base THEN "write" ELSE "check"]
          /\ UNCHANGED jobs
     ELSE /\ v' = Rest
          /\ jobs' = IF v.recovers /\ jobs[v.key] = "verifying"
                     THEN [jobs EXCEPT ![v.key] = "failed"] ELSE jobs
  /\ UNCHANGED <<verOnly, household, places, ver, seen>>

WriteHousehold ==
  /\ v.at = "write"
  /\ household' = ExpectedSnapshot
  /\ v' = [v EXCEPT !.at = "check"]
  /\ UNCHANGED <<verOnly, places, ver, jobs, seen>>

\* A read-back that differs takes the write back.
CheckHousehold ==
  /\ v.at = "check"
  /\ IF household = ExpectedSnapshot
     THEN v' = [v EXCEPT !.at = "complete"] /\ UNCHANGED <<household, jobs>>
     ELSE /\ v' = Rest
          /\ household' = Base
          /\ jobs' = IF v.recovers /\ jobs[v.key] = "verifying"
                     THEN [jobs EXCEPT ![v.key] = "failed"] ELSE jobs
  /\ UNCHANGED <<verOnly, places, ver, seen>>

Complete ==
  /\ v.at = "complete"
  /\ IF jobs[v.key] = "succeeded" THEN UNCHANGED jobs ELSE To(v.key, "verifying", "succeeded")
  /\ v' = [v EXCEPT !.at = "applied"]
  /\ UNCHANGED <<verOnly, household, places, ver, seen>>

Applied ==
  /\ v.at = "applied"
  /\ ver' = [v.copy EXCEPT !.status = "applied"]
  /\ places' = Rewritten("verification", v.holds)
  /\ v' = Rest
  /\ UNCHANGED <<verOnly, household, jobs, seen>>

\* recover_incomplete, before the services answer requests.
Recovering == [at |-> "current", key |-> ver.job, copy |-> ver,
               holds |-> "verification" \in places, recovers |-> TRUE]

VerifyStep ==
  \/ MarkRunning \/ RunVerify \/ ReadDevice \/ Judge \/ FailVerification \/ Reject
  \/ Pend \/ ReadCurrent \/ WriteHousehold \/ CheckHousehold \/ Complete \/ Applied

-----------------------------------------------------------------------------
(* Cleanup: planned and authorized by one service.                         *)

cleanOnly == <<vars, household, places, ver, held, v, x, returning>>

\* The rejected verification that a cleanup rests on is still the stored one,
\* and the Household has not moved.
StillRejected ==
  /\ ver.status = "rejected" /\ ver.receipt = clean.receipt
  /\ household = clean.base /\ ~household.managed

\* Mutant: the read-back is kept where the receipt of the verification belongs.
PlanCleanupMisplaced ==
  /\ c = Rest /\ clean.status = "none"
  /\ ver.status = "rejected" /\ ~household.managed
  /\ clean' = [status |-> "planned", base |-> household, receipt |-> seen[ver.receipt], done |-> FALSE]
  /\ UNCHANGED <<cleanOnly, jobs, seen, c>>

PlanCleanup ==
  /\ c = Rest /\ clean.status = "none"
  /\ ver.status = "rejected" /\ ~household.managed
  /\ clean' = [status |-> "planned", base |-> household, receipt |-> ver.receipt, done |-> FALSE]
  /\ UNCHANGED <<cleanOnly, jobs, seen, c>>

BeginCleanup(k) ==
  /\ c = Rest
  /\ clean.status \in {"planned", "failed"}
  /\ StillRejected
  /\ To(k, "absent", "preflight")
  /\ c' = [at |-> "run", key |-> k]
  /\ UNCHANGED <<cleanOnly, clean, seen>>

RunCleanup ==
  /\ c.at = "run"
  /\ To(c.key, "preflight", "running")
  /\ c' = [c EXCEPT !.at = "read"]
  /\ UNCHANGED <<cleanOnly, clean, seen>>

ReadProvider ==
  /\ c.at = "read"
  /\ \/ To(c.key, "running", "failed") /\ UNCHANGED seen /\ c' = [c EXCEPT !.at = "fail"]
     \/ /\ To(c.key, "running", "verifying")
        /\ \E state \in DeviceStates : seen' = [seen EXCEPT ![c.key] = state]
        /\ c' = [c EXCEPT !.at = "succeed"]
  /\ UNCHANGED <<cleanOnly, clean>>

FailCleanup ==
  /\ c.at = "fail"
  /\ clean' = [clean EXCEPT !.status = "failed"]
  /\ c' = Rest
  /\ UNCHANGED <<cleanOnly, jobs, seen>>

SucceedCleanup ==
  /\ c.at = "succeed"
  /\ To(c.key, "verifying", "succeeded")
  /\ c' = [c EXCEPT !.at = "store"]
  /\ UNCHANGED <<cleanOnly, clean, seen>>

\* Only a fresh read-back of an unmanaged or absent device authorizes.
Authorizes(state) == IF state = "unmanaged" THEN {"authorized", "blocked"} ELSE {"blocked"}

StoreCleanup ==
  /\ c.at = "store"
  /\ \E status \in Authorizes(seen[c.key]) : clean' = [clean EXCEPT !.status = status]
  /\ c' = Rest
  /\ UNCHANGED <<cleanOnly, jobs, seen>>

CleanupStep ==
  RunCleanup \/ ReadProvider \/ FailCleanup \/ SucceedCleanup \/ StoreCleanup

-----------------------------------------------------------------------------
(* Cleanup: executed by another.                                           *)

scrubOnly == <<vars, household, ver, held, seen, v, c>>

\* The enrollment is in force, and the artifact is in all three places or in
\* none.
SourceIntact == InForce /\ ver.status = "rejected" /\ places \in {Places, {}}

\* Where thread t goes on, with the job as it last saw it.
Goes(t, at, k, found) == x' = [x EXCEPT ![t] = [at |-> at, key |-> k, job |-> found]]
Ends(t) == x' = [x EXCEPT ![t] = Rest]

\* A step of t that needs its job in state from and raises if another request
\* has moved it.
JobStep(t, from, to, at) ==
  \/ To(x[t].key, from, to) /\ Goes(t, at, x[t].key, to)
  \/ jobs[x[t].key] # from /\ UNCHANGED jobs /\ Ends(t)

\* A new job, or one that a crash, a refused scrub or a request under way left
\* behind; a job that succeeded is finished again.
BeginScrub(t, k) ==
  /\ x[t] = Rest
  /\ clean.status = "authorized" /\ ~clean.done
  /\ StillRejected /\ SourceIntact
  /\ \/ To(k, "absent", "preflight") /\ Goes(t, "run", k, "preflight")
     \/ jobs[k] = "preflight" /\ UNCHANGED jobs /\ Goes(t, "run", k, "preflight")
     \/ jobs[k] \in {"running", "verifying"} /\ UNCHANGED jobs /\ Goes(t, "source", k, jobs[k])
     \/ jobs[k] = "succeeded" /\ UNCHANGED jobs /\ Goes(t, "finish", k, jobs[k])
  /\ UNCHANGED <<scrubOnly, places, clean, returning>>

RunScrub(t) ==
  /\ x[t].at = "run"
  /\ JobStep(t, "preflight", "running", "source")
  /\ UNCHANGED <<scrubOnly, places, clean, returning>>

ReadSource(t) ==
  /\ x[t].at = "source"
  /\ IF SourceIntact
     THEN x' = [x EXCEPT ![t] = [at |-> "scrub", key |-> x[t].key, job |-> x[t].job,
                                 env |-> env, ver |-> ver, places |-> places]]
     ELSE Ends(t)
  /\ UNCHANGED <<scrubOnly, places, clean, jobs, returning>>

\* Mutant: the verification is not compared inside the transaction.
UnmovedSourceBlind(t) == env = x[t].env

\* The three documents are the ones that were read.
UnmovedSource(t) == env = x[t].env /\ ver = x[t].ver /\ places = x[t].places

\* The places whose writer has a copy of the artifact in hand.
InHand == (IF \E t \in held : work[t] \in CancelKeys THEN {"envelope"} ELSE {})
          \cup (IF v # Rest /\ v.holds THEN {"verification"} ELSE {})

\* One transaction over the three places; none is needed when nothing is there.
Scrub(t) ==
  /\ x[t].at = "scrub"
  /\ IF x[t].places # {} /\ UnmovedSource(t)
     THEN places' = {} /\ returning' = InHand
     ELSE UNCHANGED <<places, returning>>
  /\ IF x[t].places = {} \/ UnmovedSource(t)
     THEN Goes(t, "finish", x[t].key, x[t].job)
     ELSE Ends(t)
  /\ UNCHANGED <<scrubOnly, clean, jobs>>

FinishScrub(t) ==
  /\ x[t].at = "finish"
  /\ IF x[t].job = "running"
     THEN JobStep(t, "running", "verifying", "assert")
     ELSE UNCHANGED jobs /\ Goes(t, "assert", x[t].key, x[t].job)
  /\ UNCHANGED <<scrubOnly, places, clean, returning>>

\* The source is read again and must be without the artifact.
AssertScrubbed(t) ==
  /\ x[t].at = "assert"
  /\ IF SourceIntact /\ places = {}
     THEN Goes(t, "succeed", x[t].key, x[t].job)
     ELSE Ends(t)
  /\ UNCHANGED <<scrubOnly, places, clean, jobs, returning>>

SucceedScrub(t) ==
  /\ x[t].at = "succeed"
  /\ IF x[t].job = "verifying"
     THEN JobStep(t, "verifying", "succeeded", "receipt")
     ELSE UNCHANGED jobs /\ Goes(t, "receipt", x[t].key, x[t].job)
  /\ UNCHANGED <<scrubOnly, places, clean, returning>>

\* A receipt that is there already is the same one or the request raises.
StoreScrub(t) ==
  /\ x[t].at = "receipt"
  /\ clean' = [clean EXCEPT !.done = TRUE]
  /\ Ends(t)
  /\ UNCHANGED <<scrubOnly, places, jobs, returning>>

ScrubStep(t) == RunScrub(t) \/ ReadSource(t) \/ Scrub(t) \/ FinishScrub(t)
                \/ AssertScrubbed(t) \/ SucceedScrub(t) \/ StoreScrub(t)

-----------------------------------------------------------------------------
(* The world.                                                              *)

\* A change of another kind, made from a read of the Household as it is; made
\* before the verification is planned, it only makes the enrollment stale.
ChangeHousehold ==
  /\ ver.status # "none"
  /\ household.version < MaxHousehold
  /\ household' = [household EXCEPT !.version = @ + 1]
  /\ UNCHANGED <<vars, places, ver, clean, jobs, seen, held, v, c, x, returning>>

\* All requests die; recovery takes up a verification that waits to be applied.
Restart ==
  /\ Crash
  /\ v' = IF ver.status = "pending" THEN Recovering ELSE Rest
  /\ c' = Rest /\ x' = [t \in Scrubbers |-> Rest] /\ held' = {}
  /\ UNCHANGED <<household, places, ver, clean, jobs, seen, returning>>

-----------------------------------------------------------------------------

\* Recovery runs before the services answer.
Serving == IF v = Rest THEN TRUE ELSE ~v.recovers

OutcomeNext ==
  \/ Serving /\ (ExecutionStep \/ \E t \in Threads : RequestStep(t))
  \/ PlanVerification \/ VerifyStep \/ (\E k \in VerifyKeys : BeginVerify(k))
  \/ Serving /\ (PlanCleanup \/ CleanupStep \/ \E k \in CleanKeys : BeginCleanup(k))
  \/ Serving /\ \E t \in Scrubbers : ScrubStep(t) \/ \E k \in ScrubKeys : BeginScrub(t, k)
  \/ ChangeHousehold \/ Restart

OutcomeSpec == OutcomeInit /\ [][OutcomeNext]_allVars

-----------------------------------------------------------------------------
(* Properties.                                                             *)

\* The device is marked managed only by a verification of the accepted
\* enrollment that read the device back as enrolled, and only on the Household
\* it was planned on, also when recovery finishes what a crash cut short.
ManagedOnlyIfVerified ==
  [][household'.managed /\ ~household.managed =>
       /\ env.receipt # None
       /\ ver.status = "pending" /\ ver.receipt # None /\ seen[ver.receipt] = "managed"]_allVars

\* The artifact is taken away only from an enrollment that stands rejected and
\* uncancelled, of a device that a read-back for this cleanup found unmanaged;
\* which rejection it is, once the request is under way, is not compared.
ScrubbedOnlyIfRejected ==
  [][(\E p \in places : p \notin places') =>
       /\ InForce /\ ver.status = "rejected"
       /\ \E k \in CleanKeys : jobs[k] = "succeeded" /\ seen[k] = "unmanaged"]_allVars

\* Once the job of a scrub has succeeded, whichever of two requests brought it
\* there, the artifact is back only where a cancellation or a verification wrote
\* the copy it had taken before the scrub.
CleanedStaysClean ==
  (\E k \in ScrubKeys : jobs[k] = "succeeded") => places \subseteq returning
=============================================================================
