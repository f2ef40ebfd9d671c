---------------------------- MODULE HomeServices ----------------------------
(***************************************************************************)
(* One home-service instance and the jobs that operate it.  A job is       *)
(* planned and admitted on an exact generation, claimed by a worker of the *)
(* target node, revalidated, executed, and its result decided against the  *)
(* instance as it then is; a thread applies the prepared commit by         *)
(* compare-and-set between an audit entry of the intent and an audit entry *)
(* of what a read-back showed.                                             *)
(*                                                                         *)
(* Nothing is locked across these steps: other jobs, a direct transition   *)
(* and the death of a thread fall between any two of them.  A resource     *)
(* version is named by the job that wrote it, and a document by the values *)
(* its digest binds.                                                       *)
(***************************************************************************)
EXTENDS Integers

CONSTANTS
  Jobs,           \* operation jobs
  Workers,        \* workers of the target node
  Threads,        \* threads that apply commits
  Operations,     \* operations requested of the jobs
  HasBackup,      \* the profile of the service supports backup
  LocalOnly,      \* the profile forbids external publication
  None,
  MaxGeneration   \* bound on the generation of the instance

ASSUME ConstantsAssumption ==
  /\ HasBackup \in BOOLEAN /\ LocalOnly \in BOOLEAN
  /\ MaxGeneration \in Nat \ {0}
  /\ None \notin Jobs \cup Workers
  /\ "created" \notin Jobs /\ "direct" \notin Jobs
  /\ Operations \subseteq {"install", "configure", "health", "update", "backup", "restore", "remove"}

VARIABLES
  instance,   \* the row of the instance
  log,        \* transitions stored: job |-> the row it wrote
  audit,      \* audit entries of intents and completions
  plan,       \* the plan of each job
  job,        \* its durable state
  claims,     \* workers holding a claim record on it
  holder,     \* the worker whose claim the job is queued under
  result,     \* its execution result
  commit,     \* the commit prepared from the result
  pc,         \* where an applying thread stands
  work,       \* the job whose commit it applies
  seen,       \* the row it read, then its receipt
  verdict     \* what its read-back showed

pipeline == <<plan, job, claims, holder, result, commit>>
threadVars == <<pc, work, seen, verdict>>
vars == <<instance, log, audit, pipeline, threadVars>>

-----------------------------------------------------------------------------
(* Rows, plans and the shape of an operation.                              *)

States == {"planned", "installed", "configured", "ready", "degraded", "removed"}
Active == {"configured", "ready", "degraded"}
Versions == {"created", "direct"} \cup Jobs

Rows == [state : States, generation : 1 .. MaxGeneration, version : Versions, published : BOOLEAN]

\* The state an operation leads to from s, or None where it has no place.
Target(op, s) ==
  CASE op = "install" /\ s = "planned"             -> "installed"
    [] op = "configure" /\ s = "installed"         -> "configured"
    [] op = "health" /\ s \in Active               -> "ready"
    [] op = "update" /\ s \in Active \ {"configured"} -> "ready"
    [] op \in {"backup", "restore"} /\ s \in Active -> s
    [] op = "remove" /\ s # "removed"              -> "removed"
    [] OTHER                                       -> None

Plannable(op, s) == Target(op, s) # None /\ (op \in {"backup", "restore"} => HasBackup)

Plans == [op : Operations, from : States, target : States,
          generation : 1 .. MaxGeneration, version : Versions]
Commits == [source : States, target : States, generation : 1 .. MaxGeneration, version : Versions]

ASSUME NoDocumentAssumption ==
  None \notin Plans \cup Commits \cup Rows \cup {"succeeded", "failed", "verified", "drifted"}

\* The generation and resource version a document was made on.
Base(d) == <<d.generation, d.version>>

\* The row a commit of job j leaves, with the publication flag it was read with.
After(j, published) ==
  [state |-> commit[j].target, generation |-> commit[j].generation + 1,
   version |-> j, published |-> published]

TypeOK ==
  /\ instance \in Rows
  /\ DOMAIN log \subseteq Jobs /\ log \in [DOMAIN log -> Rows]
  /\ audit \subseteq {"requested", "verified", "drifted"} \X Jobs
  /\ plan \in [Jobs -> Plans \cup {None}]
  /\ job \in [Jobs -> {"none", "preflight", "queued", "running", "done"}]
  /\ claims \in [Jobs -> SUBSET Workers]
  /\ holder \in [Jobs -> Workers \cup {None}]
  /\ result \in [Jobs -> {None, "succeeded", "failed"}]
  /\ commit \in [Jobs -> Commits \cup {None}]
  /\ pc \in [Threads -> {"idle", "read", "commit", "verify", "complete"}]
  /\ work \in [Threads -> Jobs \cup {None}]
  /\ seen \in [Threads -> Rows \cup {None}]
  /\ verdict \in [Threads -> {"verified", "drifted", None}]

Init ==
  /\ instance = [state |-> "planned", generation |-> 1, version |-> "created", published |-> FALSE]
  /\ log = [j \in {} |-> instance]
  /\ audit = {}
  /\ plan = [j \in Jobs |-> None]
  /\ job = [j \in Jobs |-> "none"]
  /\ claims = [j \in Jobs |-> {}]
  /\ holder = [j \in Jobs |-> None]
  /\ result = [j \in Jobs |-> None]
  /\ commit = [j \in Jobs |-> None]
  /\ pc = [t \in Threads |-> "idle"]
  /\ work = [t \in Threads |-> None]
  /\ seen = [t \in Threads |-> None]
  /\ verdict = [t \in Threads |-> None]

-----------------------------------------------------------------------------
(* Planning, admission, claim, execution.                                  *)

MakePlan(j, op) ==
  /\ plan[j] = None
  /\ Plannable(op, instance.state)
  /\ plan' = [plan EXCEPT ![j] =
       [op |-> op, from |-> instance.state, target |-> Target(op, instance.state),
        generation |-> instance.generation, version |-> instance.version]]
  /\ UNCHANGED <<instance, log, audit, job, claims, holder, result, commit, threadVars>>

\* admit_operation: approved, bound to a job, and the plan still fits the row.
Admit(j) ==
  /\ plan[j] # None /\ job[j] = "none"
  /\ instance.state = plan[j].from /\ Base(instance) = Base(plan[j])
  /\ job' = [job EXCEPT ![j] = "preflight"]
  /\ UNCHANGED <<instance, log, audit, plan, claims, holder, result, commit, threadVars>>

\* claim_execution: a record only, which several workers may hold.
Claim(j, w) ==
  /\ job[j] = "preflight"
  /\ Base(instance) = Base(plan[j])
  /\ claims' = [claims EXCEPT ![j] = @ \cup {w}]
  /\ UNCHANGED <<instance, log, audit, plan, job, holder, result, commit, threadVars>>

\* External: the job is queued under one of the claims.
Queue(j) ==
  /\ job[j] = "preflight"
  /\ \E w \in claims[j] : holder' = [holder EXCEPT ![j] = w]
  /\ job' = [job EXCEPT ![j] = "queued"]
  /\ UNCHANGED <<instance, log, audit, plan, claims, result, commit, threadVars>>

\* revalidate_execution: the worker's claim is the one the job is queued under
\* and the row has not moved; then the worker executes.
Revalidate(j, w) ==
  /\ job[j] = "queued"
  /\ w \in claims[j] /\ holder[j] = w
  /\ Base(instance) = Base(plan[j])
  /\ job' = [job EXCEPT ![j] = "running"]
  /\ UNCHANGED <<instance, log, audit, plan, claims, holder, result, commit, threadVars>>

\* record_execution_result: the row is still the claimed one.
Record(j, outcome) ==
  /\ job[j] = "running" /\ result[j] = None
  /\ Base(instance) = Base(plan[j])
  /\ result' = [result EXCEPT ![j] = outcome]
  /\ UNCHANGED <<instance, log, audit, plan, job, claims, holder, commit, threadVars>>

\* Mutant: the outcome of the execution is not asked.
DecideAny(j) ==
  /\ result[j] # None /\ commit[j] = None
  /\ Base(instance) = Base(plan[j])
  /\ commit' = [commit EXCEPT ![j] =
       [source |-> instance.state, target |-> plan[j].target,
        generation |-> instance.generation, version |-> instance.version]]
  /\ job' = [job EXCEPT ![j] = "done"]
  /\ UNCHANGED <<instance, log, audit, plan, claims, holder, result, threadVars>>

\* decide_state_transition and prepare_transition_commit: an allowed decision
\* binds result, claim and admission to the row as it is now.
Decide(j) ==
  /\ result[j] = "succeeded" /\ commit[j] = None
  /\ Base(instance) = Base(plan[j])
  /\ plan[j].target = Target(plan[j].op, instance.state)
  /\ commit' = [commit EXCEPT ![j] =
       [source |-> instance.state, target |-> plan[j].target,
        generation |-> instance.generation, version |-> instance.version]]
  /\ job' = [job EXCEPT ![j] = "done"]
  /\ UNCHANGED <<instance, log, audit, plan, claims, holder, result, threadVars>>

-----------------------------------------------------------------------------
(* Apply, verify, complete.                                                *)

Goto(t, step) == pc' = [pc EXCEPT ![t] = step]
See(t, what) == seen' = [seen EXCEPT ![t] = what]

Leave(t) ==
  /\ Goto(t, "idle")
  /\ work' = [work EXCEPT ![t] = None]
  /\ See(t, None)
  /\ verdict' = [verdict EXCEPT ![t] = None]

\* An authorized commit: its intent is audited before anything else.
Intent(t, j) ==
  /\ pc[t] = "idle" /\ commit[j] # None
  /\ audit' = audit \cup {<<"requested", j>>}
  /\ Goto(t, "read")
  /\ work' = [work EXCEPT ![t] = j]
  /\ UNCHANGED <<instance, log, pipeline, seen, verdict>>

IsSource(r, c) == Base(r) = Base(c) /\ r.state = c.source
IsReplay(r, j) ==
  r.generation = commit[j].generation + 1 /\ r.version = j /\ r.state = commit[j].target

\* The row is read, and must be the source of the commit or what it wrote.
Read(t) ==
  LET j == work[t] IN
  /\ pc[t] = "read"
  /\ \/ /\ IsSource(instance, commit[j]) \/ IsReplay(instance, j)
        /\ Goto(t, "commit") /\ See(t, instance)
        /\ UNCHANGED <<work, verdict>>
     \/ ~IsSource(instance, commit[j]) /\ ~IsReplay(instance, j) /\ Leave(t)
  /\ UNCHANGED <<instance, log, audit, pipeline>>

\* Mutant: the row is compared, and the transitions stored are not searched.
TransitionUnlogged(j, row) ==
  /\ Base(instance) = Base(commit[j])
  /\ instance' = row
  /\ UNCHANGED log

\* transition_home_service_instance, for a key that is not stored yet.
Transition(j, row) ==
  /\ j \notin DOMAIN log
  /\ Base(instance) = Base(commit[j])
  /\ instance' = row
  /\ log' = [i \in DOMAIN log \cup {j} |-> IF i = j THEN row ELSE log[i]]

\* The compare-and-set, the stored answer of a replay, or a refusal.
Commit(t) ==
  LET j == work[t]
      row == After(j, seen[t].published)
  IN
  /\ pc[t] = "commit"
  /\ \/ /\ Transition(j, row)
        /\ Goto(t, "verify") /\ See(t, row)
        /\ UNCHANGED <<work, verdict>>
     \/ /\ j \in DOMAIN log /\ row = log[j]
        /\ Goto(t, "verify") /\ See(t, log[j])
        /\ UNCHANGED <<instance, log, work, verdict>>
     \/ /\ IF j \in DOMAIN log THEN row # log[j] ELSE Base(instance) # Base(commit[j])
        /\ Leave(t)
        /\ UNCHANGED <<instance, log>>
  /\ UNCHANGED <<audit, pipeline>>

\* Mutant: the verification looks at the receipt only.
VerifyReceipt(t) ==
  /\ pc[t] = "verify"
  /\ verdict' = [verdict EXCEPT ![t] = "verified"]
  /\ Goto(t, "complete")
  /\ UNCHANGED <<instance, log, audit, pipeline, work, seen>>

\* Mutant: the row is compared with what the commit started from.
VerifySource(t) ==
  /\ pc[t] = "verify"
  /\ verdict' = [verdict EXCEPT ![t] =
       IF IsSource(instance, commit[work[t]]) THEN "verified" ELSE "drifted"]
  /\ Goto(t, "complete")
  /\ UNCHANGED <<instance, log, audit, pipeline, work, seen>>

Verify(t) ==
  /\ pc[t] = "verify"
  /\ verdict' = [verdict EXCEPT ![t] =
       IF instance.state = seen[t].state /\ Base(instance) = Base(seen[t])
         THEN "verified" ELSE "drifted"]
  /\ Goto(t, "complete")
  /\ UNCHANGED <<instance, log, audit, pipeline, work, seen>>

\* The completion is audited only behind the intent it completes.
Complete(t) ==
  /\ pc[t] = "complete"
  /\ <<"requested", work[t]>> \in audit
  /\ audit' = audit \cup {<<verdict[t], work[t]>>}
  /\ Leave(t)
  /\ UNCHANGED <<instance, log, pipeline>>

\* The thread dies, or a call of it raises.
Die(t) ==
  /\ pc[t] # "idle"
  /\ Leave(t)
  /\ UNCHANGED <<instance, log, audit, pipeline>>

\* HomeServiceInstanceStateStore.transition: any state, any flag the profile
\* allows, checked against the row only.
Direct(s, published) ==
  /\ published => ~LocalOnly
  /\ instance.generation < MaxGeneration
  /\ instance' = [state |-> s, generation |-> instance.generation + 1,
                  version |-> "direct", published |-> published]
  /\ UNCHANGED <<log, audit, pipeline, threadVars>>

-----------------------------------------------------------------------------

Next ==
  \/ \E j \in Jobs :
       \/ /\ instance.generation < MaxGeneration
          /\ \E op \in Operations : MakePlan(j, op)
       \/ Admit(j) \/ Queue(j) \/ Decide(j)
       \/ \E w \in Workers : Claim(j, w) \/ Revalidate(j, w)
       \/ \E o \in {"succeeded", "failed"} : Record(j, o)
  \/ \E t \in Threads :
       \/ \E j \in Jobs : Intent(t, j)
       \/ Read(t) \/ Commit(t) \/ Verify(t) \/ Complete(t) \/ Die(t)
  \/ \E s \in States, p \in BOOLEAN : Direct(s, p)

Spec == Init /\ [][Next]_vars

-----------------------------------------------------------------------------
(* Properties.                                                             *)

\* What a step by which a job changes the row finds.
Follows ==
  instance' # instance /\ instance'.version # "direct" =>
    LET j == instance'.version IN
    /\ result[j] = "succeeded"
    /\ instance.state = plan[j].from /\ Base(instance) = Base(plan[j])
    /\ instance'.state = Target(plan[j].op, instance.state)
    /\ <<"requested", j>> \in audit

\* Whatever a job changes is what it was planned, admitted and executed for,
\* on the row it was planned on: no other job and no direct transition came in
\* between, the execution succeeded, and the intent was audited before.
ChangesFollowPlans == [][Follows]_vars

\* A job takes effect at most once, however often its commit is applied, and no
\* two jobs take effect on one generation.
OneWriterPerGeneration ==
  /\ \A i, j \in DOMAIN log : log[i].generation = log[j].generation => i = j
  /\ \A j \in Jobs : instance.version = j => j \in DOMAIN log /\ instance = log[j]

\* What the audit chain says of a completed job is true: "verified" only if the
\* job's own row was in force, "drifted" only if it is not in force any more
\* and never will be.
CompletionIsTrue ==
  \A j \in Jobs :
    /\ <<"verified", j>> \in audit => j \in DOMAIN log /\ <<"requested", j>> \in audit
    /\ <<"drifted", j>> \in audit => j \in DOMAIN log /\ instance.version # j

\* What a step that finds a row verified finds.
InForce ==
  \A t \in Threads : verdict'[t] = "verified" /\ verdict[t] # "verified" =>
    instance = log[work[t]]

\* The row that an audited "verified" stands for is the one that was read: a
\* thread that saw its row in force is contradicted by a later write only.
VerifiedWasInForce == [][InForce]_vars
=============================================================================
