------------------------- MODULE HomeServicesProofs -------------------------
(***************************************************************************)
(* What holds of a home-service instance for any number of jobs, workers   *)
(* and threads, any profile and any number of generations; and of the      *)
(* modules that need such services, for any packages, keys, processes that *)
(* stage archives, policies, revisions and contracts.                      *)
(***************************************************************************)
EXTENDS HomeServices, ModuleContracts, FiniteSetTheorems, TLAPS

-----------------------------------------------------------------------------
(* The inductive invariant.                                                *)

\* A plan was made of an earlier row, or of the one in force, which it knows;
\* there is a generation left for its effect.
PlansInPlace ==
  \A j \in Jobs : plan[j] # None =>
    /\ plan[j].generation <= instance.generation /\ plan[j].generation < MaxGeneration
    /\ plan[j].target = Target(plan[j].op, plan[j].from)
    /\ Base(instance) = Base(plan[j]) => instance.state = plan[j].from

\* A job that has begun has a plan; a commit is that of a plan whose execution
\* succeeded, and asks for the state the plan did.
PipelineInPlace ==
  \A j \in Jobs :
    /\ job[j] # "none" => plan[j] # None
    /\ result[j] # None => plan[j] # None
    /\ commit[j] # None =>
         /\ plan[j] # None /\ result[j] = "succeeded"
         /\ Base(commit[j]) = Base(plan[j]) /\ commit[j].target = plan[j].target

\* A stored row is the effect of the commit of its job, on a generation that
\* has been reached.
LogInPlace ==
  \A j \in DOMAIN log :
    /\ commit[j] # None
    /\ log[j].version = j
    /\ log[j].generation <= instance.generation

\* Whoever applies works on a commit whose intent is audited; past the commit
\* it has seen the stored row; and if it found a row to have drifted, that row
\* is not in force.
ThreadsInPlace ==
  \A t \in Threads :
    /\ pc[t] # "idle" =>
         work[t] \in Jobs /\ commit[work[t]] # None /\ <<"requested", work[t]>> \in audit
    /\ pc[t] = "commit" => seen[t] \in Rows
    /\ pc[t] \in {"verify", "complete"} => work[t] \in DOMAIN log /\ seen[t] = log[work[t]]
    /\ pc[t] = "complete" =>
         /\ verdict[t] \in {"verified", "drifted"}
         /\ verdict[t] = "drifted" => instance.version # work[t]

IInv ==
  /\ TypeOK /\ PlansInPlace /\ PipelineInPlace /\ LogInPlace /\ ThreadsInPlace
  /\ OneWriterPerGeneration /\ CompletionIsTrue

-----------------------------------------------------------------------------
(* Planning, admission, claim, execution.                                  *)

\* What the pipeline does, no row, stored transition or thread sees.
LEMMA PipelineFrame ==
  ASSUME IInv, UNCHANGED <<instance, log, audit, threadVars>>,
         \A j \in Jobs : commit[j] # None => commit'[j] = commit[j]
  PROVE  (LogInPlace /\ ThreadsInPlace /\ OneWriterPerGeneration /\ CompletionIsTrue)'
<1>1. DOMAIN log \subseteq Jobs
  BY DEF IInv, TypeOK
<1>2. LogInPlace'
  BY <1>1 DEF IInv, LogInPlace
<1>3. ThreadsInPlace'
  BY DEF IInv, ThreadsInPlace, threadVars
<1>4. OneWriterPerGeneration' /\ CompletionIsTrue'
  BY DEF IInv, OneWriterPerGeneration, CompletionIsTrue
<1> QED
  BY <1>2, <1>3, <1>4

\* The states an operation leads to.
LEMMA TargetIsState ==
  ASSUME NEW op, NEW s \in States, Target(op, s) # None
  PROVE  Target(op, s) \in States
BY DEF Target, States, Active

LEMMA PlanStep ==
  ASSUME IInv, NEW j \in Jobs, NEW op \in Operations, MakePlan(j, op), instance.generation < MaxGeneration
  PROVE  IInv'
<1> DEFINE p == [op |-> op, from |-> instance.state, target |-> Target(op, instance.state),
                 generation |-> instance.generation, version |-> instance.version]
<1>1. /\ plan[j] = None /\ plan' = [plan EXCEPT ![j] = p]
      /\ UNCHANGED <<instance, log, audit, job, claims, holder, result, commit, threadVars>>
      /\ Target(op, instance.state) # None
  BY DEF MakePlan, Plannable
<1>2. /\ instance \in Rows /\ instance.state \in States /\ instance.generation \in 1 .. MaxGeneration
      /\ instance.version \in Versions
  BY DEF IInv, TypeOK, Rows
<1>3. p \in Plans
  BY <1>1, <1>2, TargetIsState DEF Plans
<1>4. /\ p.generation = instance.generation /\ p.from = instance.state /\ p.op = op
      /\ p.target = Target(op, instance.state) /\ p # None
  BY <1>3, NoDocumentAssumption
<1> HIDE DEF p
<1>5. /\ plan' \in [Jobs -> Plans \cup {None}] /\ plan'[j] = p /\ \A i \in Jobs : i # j => plan'[i] = plan[i]
  BY <1>1, <1>3 DEF IInv, TypeOK
<1>6. TypeOK'
  BY <1>1, <1>5 DEF IInv, TypeOK, threadVars
<1>7. PlansInPlace'
  BY <1>1, <1>2, <1>4, <1>5 DEF IInv, PlansInPlace
<1>8. PipelineInPlace'
  BY <1>1, <1>4, <1>5 DEF IInv, PipelineInPlace
<1>9. (LogInPlace /\ ThreadsInPlace /\ OneWriterPerGeneration /\ CompletionIsTrue)'
  BY <1>1, PipelineFrame
<1> QED
  BY <1>6, <1>7, <1>8, <1>9 DEF IInv

\* Admission, claim, queueing and revalidation move the job only.
LEMMA JobStep ==
  ASSUME IInv, NEW j \in Jobs,
         NEW w \in Workers \cup {None},
         Admit(j) \/ Queue(j) \/ (w \in Workers /\ (Claim(j, w) \/ Revalidate(j, w)))
  PROVE  IInv'
<1>1. UNCHANGED <<instance, log, audit, plan, result, commit, threadVars>>
  BY DEF Admit, Queue, Claim, Revalidate
<1>2. /\ job' \in [Jobs -> {"none", "preflight", "queued", "running", "done"}]
      /\ \A i \in Jobs : job'[i] # "none" => plan[i] # None
  BY DEF IInv, TypeOK, PipelineInPlace, Admit, Queue, Claim, Revalidate
<1>3. claims' \in [Jobs -> SUBSET Workers] /\ holder' \in [Jobs -> Workers \cup {None}]
  BY DEF IInv, TypeOK, Admit, Queue, Claim, Revalidate
<1>4. TypeOK'
  BY <1>1, <1>2, <1>3 DEF IInv, TypeOK, threadVars
<1>5. PlansInPlace' /\ PipelineInPlace'
  BY <1>1, <1>2 DEF IInv, PlansInPlace, PipelineInPlace
<1>6. (LogInPlace /\ ThreadsInPlace /\ OneWriterPerGeneration /\ CompletionIsTrue)'
  BY <1>1, PipelineFrame
<1> QED
  BY <1>4, <1>5, <1>6 DEF IInv

LEMMA RecordStep ==
  ASSUME IInv, NEW j \in Jobs, NEW o \in {"succeeded", "failed"}, Record(j, o)
  PROVE  IInv'
<1>1. /\ UNCHANGED <<instance, log, audit, plan, job, claims, holder, commit, threadVars>>
      /\ result' = [result EXCEPT ![j] = o] /\ job[j] = "running" /\ result[j] = None
  BY DEF Record
<1>2. TypeOK'
  BY <1>1 DEF IInv, TypeOK, threadVars
<1>3. commit[j] = None
  BY <1>1, NoDocumentAssumption DEF IInv, PipelineInPlace
<1>4. PlansInPlace' /\ PipelineInPlace'
  BY <1>1, <1>3 DEF IInv, TypeOK, PlansInPlace, PipelineInPlace
<1>5. (LogInPlace /\ ThreadsInPlace /\ OneWriterPerGeneration /\ CompletionIsTrue)'
  BY <1>1, PipelineFrame
<1> QED
  BY <1>2, <1>4, <1>5 DEF IInv

LEMMA DecideStep ==
  ASSUME IInv, NEW j \in Jobs, Decide(j)
  PROVE  IInv'
<1> DEFINE c == [source |-> instance.state, target |-> plan[j].target,
                 generation |-> instance.generation, version |-> instance.version]
<1>1. /\ UNCHANGED <<instance, log, audit, plan, claims, holder, result, threadVars>>
      /\ commit' = [commit EXCEPT ![j] = c] /\ job' = [job EXCEPT ![j] = "done"]
      /\ result[j] = "succeeded" /\ commit[j] = None /\ Base(instance) = Base(plan[j])
  BY DEF Decide
<1>2. plan[j] # None
  BY <1>1, NoDocumentAssumption DEF IInv, PipelineInPlace
<1>3. c \in Commits
  BY <1>2 DEF IInv, TypeOK, Rows, Plans, Commits
<1>4. c # None /\ c.target = plan[j].target /\ Base(c) = Base(instance)
  BY <1>3, NoDocumentAssumption DEF Base
<1> HIDE DEF c
<1>5. /\ commit' \in [Jobs -> Commits \cup {None}] /\ commit'[j] = c
      /\ \A i \in Jobs : i # j => commit'[i] = commit[i]
  BY <1>1, <1>3 DEF IInv, TypeOK
<1>6. TypeOK'
  BY <1>1, <1>5 DEF IInv, TypeOK, threadVars
<1>7. PlansInPlace'
  BY <1>1 DEF IInv, PlansInPlace
<1>8. PipelineInPlace'
  <2> SUFFICES ASSUME NEW i \in Jobs PROVE PipelineInPlace!(i)'
    BY DEF PipelineInPlace
  <2>1. CASE i = j
    BY <1>1, <1>2, <1>4, <1>5, <2>1 DEF Base
  <2>2. CASE i # j
    BY <1>1, <1>5, <2>2 DEF IInv, TypeOK, PipelineInPlace, Base
  <2> QED
    BY <2>1, <2>2
<1>9. (LogInPlace /\ ThreadsInPlace /\ OneWriterPerGeneration /\ CompletionIsTrue)'
  BY <1>1, <1>5, PipelineFrame
<1> QED
  BY <1>6, <1>7, <1>8, <1>9 DEF IInv

-----------------------------------------------------------------------------
(* Apply, verify, complete.                                                *)

Standing == {"idle", "read", "commit", "verify", "complete"}

LEMMA Moves ==
  ASSUME TypeOK, NEW t \in Threads, NEW step \in Standing, Goto(t, step)
  PROVE  /\ pc' \in [Threads -> {"idle", "read", "commit", "verify", "complete"}]
         /\ pc'[t] = step /\ \A s \in Threads : s # t => pc'[s] = pc[s]
BY DEF TypeOK, Goto, Standing

LEMMA Sees ==
  ASSUME TypeOK, NEW t \in Threads, NEW row \in Rows \cup {None}, See(t, row)
  PROVE  /\ seen' \in [Threads -> Rows \cup {None}]
         /\ seen'[t] = row /\ \A s \in Threads : s # t => seen'[s] = seen[s]
BY DEF TypeOK, See

LEMMA Leaves ==
  ASSUME TypeOK, NEW t \in Threads, Leave(t)
  PROVE  /\ pc' \in [Threads -> {"idle", "read", "commit", "verify", "complete"}]
         /\ work' \in [Threads -> Jobs \cup {None}]
         /\ seen' \in [Threads -> Rows \cup {None}]
         /\ verdict' \in [Threads -> {"verified", "drifted", None}]
         /\ pc'[t] = "idle" /\ verdict'[t] = None
         /\ \A s \in Threads : s # t =>
              pc'[s] = pc[s] /\ work'[s] = work[s] /\ seen'[s] = seen[s] /\ verdict'[s] = verdict[s]
BY DEF TypeOK, Leave, Goto, See

\* What a thread does to itself, no stored document sees.
LEMMA ThreadFrame ==
  ASSUME IInv, UNCHANGED <<instance, log, audit, pipeline>>
  PROVE  (PlansInPlace /\ PipelineInPlace /\ LogInPlace /\ OneWriterPerGeneration /\ CompletionIsTrue)'
<1>1. UNCHANGED <<plan, job, claims, holder, result, commit>>
  BY DEF pipeline
<1>2. (PlansInPlace /\ PipelineInPlace)'
  BY <1>1 DEF IInv, PlansInPlace, PipelineInPlace
<1>3. (LogInPlace /\ OneWriterPerGeneration /\ CompletionIsTrue)'
  BY <1>1 DEF IInv, LogInPlace, OneWriterPerGeneration, CompletionIsTrue
<1> QED
  BY <1>2, <1>3

\* Neither an answer that changes nothing nor the death of a thread disturbs.
LEMMA LeaveStep ==
  ASSUME IInv, NEW t \in Threads, Leave(t), UNCHANGED <<instance, log, audit, pipeline>>
  PROVE  IInv'
<1>1. TypeOK'
  BY Leaves DEF IInv, TypeOK, pipeline
<1>2. ThreadsInPlace'
  BY Leaves DEF IInv, ThreadsInPlace, pipeline
<1> QED
  BY <1>1, <1>2, ThreadFrame DEF IInv

LEMMA IntentStep ==
  ASSUME IInv, NEW t \in Threads, NEW j \in Jobs, Intent(t, j)
  PROVE  IInv'
<1>1. /\ UNCHANGED <<instance, log, plan, job, claims, holder, result, commit, seen, verdict>>
      /\ commit[j] # None /\ audit' = audit \cup {<<"requested", j>>}
      /\ work' = [work EXCEPT ![t] = j]
  BY DEF Intent, pipeline
<1>2. /\ pc' \in [Threads -> {"idle", "read", "commit", "verify", "complete"}]
      /\ pc'[t] = "read" /\ \A s \in Threads : s # t => pc'[s] = pc[s]
  BY Moves DEF IInv, Intent, Standing
<1>3. /\ work' \in [Threads -> Jobs \cup {None}] /\ work'[t] = j
      /\ \A s \in Threads : s # t => work'[s] = work[s]
  BY <1>1 DEF IInv, TypeOK
<1>4. TypeOK'
  BY <1>1, <1>2, <1>3 DEF IInv, TypeOK
<1>5. (PlansInPlace /\ PipelineInPlace /\ LogInPlace /\ OneWriterPerGeneration)'
  BY <1>1 DEF IInv, PlansInPlace, PipelineInPlace, LogInPlace, OneWriterPerGeneration
<1>6. ThreadsInPlace'
  BY <1>1, <1>2, <1>3 DEF IInv, ThreadsInPlace
<1>7. CompletionIsTrue'
  BY <1>1 DEF IInv, CompletionIsTrue
<1> QED
  BY <1>4, <1>5, <1>6, <1>7 DEF IInv

LEMMA ReadStep ==
  ASSUME IInv, NEW t \in Threads, Read(t)
  PROVE  IInv'
<1>1. CASE Leave(t)
  BY <1>1, LeaveStep DEF Read
<1>2. CASE Goto(t, "commit") /\ See(t, instance) /\ UNCHANGED <<work, verdict>>
  <2>1. /\ UNCHANGED <<instance, log, audit, plan, job, claims, holder, result, commit>>
        /\ pc[t] = "read" /\ instance \in Rows
    BY DEF Read, pipeline, IInv, TypeOK
  <2>2. /\ pc' \in [Threads -> {"idle", "read", "commit", "verify", "complete"}]
        /\ pc'[t] = "commit" /\ \A s \in Threads : s # t => pc'[s] = pc[s]
    BY <1>2, Moves DEF IInv, Standing
  <2>3. /\ seen' \in [Threads -> Rows \cup {None}]
        /\ seen'[t] = instance /\ \A s \in Threads : s # t => seen'[s] = seen[s]
    BY <1>2, <2>1, Sees DEF IInv
  <2>4. TypeOK'
    BY <1>2, <2>1, <2>2, <2>3 DEF IInv, TypeOK
  <2>5. ThreadsInPlace'
    BY <1>2, <2>1, <2>2, <2>3 DEF IInv, ThreadsInPlace
  <2> QED
    BY <2>1, <2>4, <2>5, ThreadFrame DEF IInv, pipeline
<1> QED
  BY <1>1, <1>2 DEF Read

\* The row found, and everything behind it, when a commit takes effect.
LEMMA TransitionStep ==
  ASSUME IInv, NEW t \in Threads, pc[t] = "commit",
         NEW row, row = After(work[t], seen[t].published), Transition(work[t], row),
         Goto(t, "verify"), See(t, row), UNCHANGED <<work, verdict, audit, pipeline>>
  PROVE  IInv' /\ Follows
<1> DEFINE j == work[t]
<1>1. /\ j \in Jobs /\ commit[j] # None /\ <<"requested", j>> \in audit /\ seen[t] \in Rows
  BY DEF IInv, ThreadsInPlace
<1>2. /\ j \notin DOMAIN log /\ Base(instance) = Base(commit[j]) /\ instance' = row
      /\ log' = [i \in DOMAIN log \cup {j} |-> IF i = j THEN row ELSE log[i]]
      /\ UNCHANGED <<plan, job, claims, holder, result, commit>>
  BY DEF Transition, pipeline
<1>3. /\ plan[j] # None /\ result[j] = "succeeded"
      /\ Base(commit[j]) = Base(plan[j]) /\ commit[j].target = plan[j].target
  BY <1>1 DEF IInv, PipelineInPlace
<1>4. /\ plan[j] \in Plans /\ commit[j] \in Commits /\ instance \in Rows
  BY <1>1, <1>3 DEF IInv, TypeOK
<1>5. /\ instance.generation = commit[j].generation /\ commit[j].generation = plan[j].generation
  BY <1>2, <1>3 DEF Base
<1>6. /\ plan[j].generation < MaxGeneration /\ instance.state = plan[j].from
      /\ plan[j].target = Target(plan[j].op, plan[j].from)
  BY <1>1, <1>2, <1>3 DEF IInv, PlansInPlace
<1>7. row = [state |-> commit[j].target, generation |-> commit[j].generation + 1,
             version |-> j, published |-> seen[t].published]
  BY DEF After
<1>8. /\ row.state = commit[j].target /\ row.generation = instance.generation + 1 /\ row.version = j
      /\ row \in Rows /\ instance.generation \in Nat
  <2>1. instance.generation \in 1 .. MaxGeneration
    BY <1>4 DEF Rows
  <2>2. commit[j].generation + 1 \in 1 .. MaxGeneration
    BY <1>5, <1>6, <2>1, ConstantsAssumption
  <2>3. commit[j].target \in States /\ seen[t].published \in BOOLEAN /\ j \in Versions
    BY <1>1, <1>4 DEF Commits, Rows, Versions
  <2>4. row \in Rows
    BY <1>7, <2>2, <2>3 DEF Rows
  <2> QED
    BY <1>5, <1>7, <2>1, <2>4, ConstantsAssumption
<1> HIDE DEF j
<1>9. /\ DOMAIN log' = DOMAIN log \cup {j} /\ log'[j] = row
      /\ \A i \in DOMAIN log : i # j /\ log'[i] = log[i]
      /\ log' \in [DOMAIN log' -> Rows] /\ DOMAIN log \subseteq Jobs
  BY <1>2, <1>8 DEF IInv, TypeOK
<1>10. /\ pc' \in [Threads -> {"idle", "read", "commit", "verify", "complete"}]
       /\ pc'[t] = "verify" /\ \A s \in Threads : s # t => pc'[s] = pc[s]
  BY Moves DEF IInv, Standing
<1>11. /\ seen' \in [Threads -> Rows \cup {None}]
       /\ seen'[t] = row /\ \A s \in Threads : s # t => seen'[s] = seen[s]
  BY <1>8, Sees DEF IInv
<1>12. TypeOK'
  BY <1>1, <1>2, <1>8, <1>9, <1>10, <1>11 DEF IInv, TypeOK
<1>13. PlansInPlace'
  <2> SUFFICES ASSUME NEW i \in Jobs, plan[i] # None PROVE PlansInPlace!(i)!2'
    BY <1>2 DEF PlansInPlace
  <2>1. /\ plan[i].generation <= instance.generation /\ plan[i].generation < MaxGeneration
        /\ plan[i].target = Target(plan[i].op, plan[i].from) /\ plan[i] \in Plans
    BY DEF IInv, PlansInPlace, TypeOK
  <2>2. plan[i].generation \in Nat
    BY <2>1 DEF Plans
  <2>3. instance'.generation # plan[i].generation
    BY <1>2, <1>8, <2>1, <2>2
  <2>4. Base(instance') # Base(plan[i])
    BY <2>3 DEF Base
  <2> QED
    BY <1>2, <1>8, <2>1, <2>2, <2>4 DEF Base
<1>14. PipelineInPlace'
  BY <1>2 DEF IInv, PipelineInPlace
<1>15. LogInPlace'
  <2>1. \A i \in DOMAIN log : log[i].generation \in Nat
    BY DEF IInv, TypeOK, Rows
  <2> QED
    BY <1>1, <1>2, <1>8, <1>9, <2>1 DEF IInv, LogInPlace, j
<1>16. OneWriterPerGeneration'
  <2>1. \A i \in DOMAIN log : log[i].generation \in Nat /\ log[i].generation <= instance.generation
    BY DEF IInv, LogInPlace, TypeOK, Rows
  <2>2. \A i \in DOMAIN log : log[i].generation # row.generation
    BY <1>8, <2>1
  <2> QED
    BY <1>2, <1>8, <1>9, <2>2 DEF IInv, OneWriterPerGeneration
<1>17. ThreadsInPlace'
  BY <1>1, <1>2, <1>8, <1>9, <1>10, <1>11 DEF IInv, ThreadsInPlace, j
<1>18. CompletionIsTrue'
  BY <1>2, <1>8, <1>9 DEF IInv, CompletionIsTrue
<1>19. Follows
  BY <1>1, <1>2, <1>3, <1>6, <1>8 DEF Follows
<1> QED
  BY <1>12, <1>13, <1>14, <1>15, <1>16, <1>17, <1>18, <1>19 DEF IInv

LEMMA CommitStep ==
  ASSUME IInv, NEW t \in Threads, Commit(t)
  PROVE  IInv' /\ Follows
<1> DEFINE j == work[t]
           row == After(j, seen[t].published)
<1>1. /\ UNCHANGED <<audit, pipeline>> /\ pc[t] = "commit"
      /\ \/ Transition(j, row) /\ Goto(t, "verify") /\ See(t, row) /\ UNCHANGED <<work, verdict>>
         \/ /\ j \in DOMAIN log /\ row = log[j]
            /\ Goto(t, "verify") /\ See(t, log[j]) /\ UNCHANGED <<instance, log, work, verdict>>
         \/ Leave(t) /\ UNCHANGED <<instance, log>>
  BY Zenon DEF Commit
<1>2. CASE Transition(j, row) /\ Goto(t, "verify") /\ See(t, row) /\ UNCHANGED <<work, verdict>>
  <2> HIDE DEF row
  <2>1. UNCHANGED <<work, verdict, audit, pipeline>>
    BY <1>1, <1>2
  <2> QED
    BY <1>1, <1>2, <2>1, TransitionStep DEF row
<1>3. CASE /\ j \in DOMAIN log /\ Goto(t, "verify") /\ See(t, log[j])
           /\ UNCHANGED <<instance, log, work, verdict>>
  <2> HIDE DEF row, j
  <2>1. log[j] \in Rows
    BY <1>3 DEF IInv, TypeOK
  <2>2. /\ pc' \in [Threads -> {"idle", "read", "commit", "verify", "complete"}]
        /\ pc'[t] = "verify" /\ \A s \in Threads : s # t => pc'[s] = pc[s]
    BY <1>3, Moves DEF IInv, Standing
  <2>3. /\ seen' \in [Threads -> Rows \cup {None}]
        /\ seen'[t] = log[j] /\ \A s \in Threads : s # t => seen'[s] = seen[s]
    BY <1>3, <2>1, Sees DEF IInv
  <2>4. TypeOK'
    BY <1>1, <1>3, <2>2, <2>3 DEF IInv, TypeOK, pipeline
  <2>5. ThreadsInPlace'
    BY <1>1, <1>3, <2>2, <2>3 DEF IInv, ThreadsInPlace, pipeline, j
  <2> QED
    BY <1>1, <1>3, <2>4, <2>5, ThreadFrame DEF IInv, Follows
<1>4. CASE Leave(t) /\ UNCHANGED <<instance, log>>
  BY <1>1, <1>4, LeaveStep DEF Follows
<1> QED
  BY <1>1, <1>2, <1>3, <1>4

\* A row that agrees with the receipt is the stored row; one that does not will
\* not come back.
LEMMA VerifyStep ==
  ASSUME IInv, NEW t \in Threads, Verify(t)
  PROVE  IInv' /\ InForce
<1> DEFINE same == instance.state = seen[t].state /\ Base(instance) = Base(seen[t])
           new == IF same THEN "verified" ELSE "drifted"
<1>1. /\ UNCHANGED <<instance, log, audit, plan, job, claims, holder, result, commit, work, seen>>
      /\ pc[t] = "verify" /\ verdict' = [verdict EXCEPT ![t] = new]
  BY DEF Verify, pipeline
<1>2. /\ pc' \in [Threads -> {"idle", "read", "commit", "verify", "complete"}]
      /\ pc'[t] = "complete" /\ \A s \in Threads : s # t => pc'[s] = pc[s]
  BY Moves DEF IInv, Verify, Standing
<1>3. /\ work[t] \in Jobs /\ work[t] \in DOMAIN log /\ seen[t] = log[work[t]]
      /\ log[work[t]].version = work[t]
      /\ instance.version = work[t] => instance = log[work[t]]
  BY <1>1 DEF IInv, ThreadsInPlace, LogInPlace, OneWriterPerGeneration
<1>4. same <=> instance = log[work[t]]
  BY <1>3 DEF Base
<1>5. ~same => instance.version # work[t]
  BY <1>3, <1>4
<1> HIDE DEF same
<1>6. /\ verdict' \in [Threads -> {"verified", "drifted", None}] /\ verdict'[t] = new
      /\ \A s \in Threads : s # t => verdict'[s] = verdict[s]
  BY <1>1 DEF IInv, TypeOK
<1>7. TypeOK'
  BY <1>1, <1>2, <1>6 DEF IInv, TypeOK
<1>8. ThreadsInPlace'
  BY <1>1, <1>2, <1>3, <1>5, <1>6 DEF IInv, ThreadsInPlace
<1>9. InForce
  BY <1>4, <1>6 DEF InForce
<1> QED
  BY <1>1, <1>7, <1>8, <1>9, ThreadFrame DEF IInv, pipeline

LEMMA CompleteStep ==
  ASSUME IInv, NEW t \in Threads, Complete(t)
  PROVE  IInv'
<1>1. /\ UNCHANGED <<instance, log, plan, job, claims, holder, result, commit>>
      /\ pc[t] = "complete" /\ Leave(t) /\ audit' = audit \cup {<<verdict[t], work[t]>>}
  BY DEF Complete, pipeline
<1>2. /\ work[t] \in Jobs /\ work[t] \in DOMAIN log /\ <<"requested", work[t]>> \in audit
      /\ verdict[t] \in {"verified", "drifted"}
      /\ verdict[t] = "drifted" => instance.version # work[t]
  BY <1>1 DEF IInv, ThreadsInPlace
<1>3. TypeOK'
  BY <1>1, <1>2, Leaves DEF IInv, TypeOK
<1>4. (PlansInPlace /\ PipelineInPlace /\ LogInPlace /\ OneWriterPerGeneration)'
  BY <1>1 DEF IInv, PlansInPlace, PipelineInPlace, LogInPlace, OneWriterPerGeneration
<1>5. ThreadsInPlace'
  BY <1>1, Leaves DEF IInv, ThreadsInPlace
<1>6. CompletionIsTrue'
  BY <1>1, <1>2 DEF IInv, CompletionIsTrue
<1> QED
  BY <1>3, <1>4, <1>5, <1>6 DEF IInv

\* A direct transition makes every plan, commit and verified row a past one.
LEMMA DirectStep ==
  ASSUME IInv, NEW s \in States, NEW published \in BOOLEAN, Direct(s, published)
  PROVE  IInv' /\ Follows
<1>1. /\ UNCHANGED <<log, audit, plan, job, claims, holder, result, commit, pc, work, seen, verdict>>
      /\ instance.generation < MaxGeneration
      /\ instance' = [state |-> s, generation |-> instance.generation + 1,
                      version |-> "direct", published |-> published]
  BY DEF Direct, pipeline, threadVars
<1>2. instance.generation \in 1 .. MaxGeneration /\ MaxGeneration \in Nat
  BY ConstantsAssumption DEF IInv, TypeOK, Rows
<1>3. /\ instance'.generation = instance.generation + 1 /\ instance'.version = "direct"
      /\ instance' \in Rows /\ "direct" \notin Jobs
  BY <1>1, <1>2, ConstantsAssumption DEF Rows, Versions
<1>4. TypeOK'
  BY <1>1, <1>3 DEF IInv, TypeOK
<1>5. PlansInPlace'
  <2> SUFFICES ASSUME NEW i \in Jobs, plan[i] # None PROVE PlansInPlace!(i)!2'
    BY <1>1 DEF PlansInPlace
  <2>1. /\ plan[i].generation <= instance.generation /\ plan[i].generation < MaxGeneration
        /\ plan[i].target = Target(plan[i].op, plan[i].from) /\ plan[i] \in Plans
    BY DEF IInv, PlansInPlace, TypeOK
  <2>2. plan[i].generation \in Nat
    BY <2>1 DEF Plans
  <2>3. instance'.generation # plan[i].generation
    BY <1>2, <1>3, <2>1, <2>2
  <2>4. Base(instance') # Base(plan[i])
    BY <2>3 DEF Base
  <2> QED
    BY <1>1, <1>2, <1>3, <2>1, <2>2, <2>4 DEF Base
<1>6. PipelineInPlace'
  BY <1>1 DEF IInv, PipelineInPlace
<1>7. LogInPlace'
  <2>1. \A i \in DOMAIN log : log[i].generation \in Nat
    BY DEF IInv, TypeOK, Rows
  <2> QED
    BY <1>1, <1>2, <1>3, <2>1 DEF IInv, LogInPlace
<1>8. OneWriterPerGeneration' /\ CompletionIsTrue'
  BY <1>1, <1>3 DEF IInv, OneWriterPerGeneration, CompletionIsTrue
<1>9. ThreadsInPlace'
  BY <1>1, <1>3 DEF IInv, ThreadsInPlace
<1>10. Follows
  BY <1>3 DEF Follows
<1> QED
  BY <1>4, <1>5, <1>6, <1>7, <1>8, <1>9, <1>10 DEF IInv

-----------------------------------------------------------------------------
(* The theorems.                                                           *)

LEMMA StepKeeps ==
  ASSUME IInv, [Next]_vars
  PROVE  IInv' /\ Follows /\ InForce
<1>1. ASSUME NEW j \in Jobs, NEW op \in Operations, instance.generation < MaxGeneration, MakePlan(j, op)
      PROVE  IInv' /\ Follows /\ InForce
  <2>1. UNCHANGED instance /\ UNCHANGED verdict
    BY <1>1 DEF MakePlan, threadVars
  <2> QED
    BY <1>1, <2>1, PlanStep DEF Follows, InForce
<1>2. ASSUME NEW j \in Jobs, Admit(j) \/ Queue(j)
      PROVE  IInv' /\ Follows /\ InForce
  <2>1. UNCHANGED instance /\ UNCHANGED verdict
    BY <1>2 DEF Admit, Queue, threadVars
  <2> QED
    BY <1>2, <2>1, JobStep DEF Follows, InForce
<1>3. ASSUME NEW j \in Jobs, NEW w \in Workers, Claim(j, w) \/ Revalidate(j, w)
      PROVE  IInv' /\ Follows /\ InForce
  <2>1. UNCHANGED instance /\ UNCHANGED verdict
    BY <1>3 DEF Claim, Revalidate, threadVars
  <2> QED
    BY <1>3, <2>1, JobStep DEF Follows, InForce
<1>4. ASSUME NEW j \in Jobs, NEW o \in {"succeeded", "failed"}, Record(j, o)
      PROVE  IInv' /\ Follows /\ InForce
  BY <1>4, RecordStep DEF Record, threadVars, Follows, InForce
<1>5. ASSUME NEW j \in Jobs, Decide(j)
      PROVE  IInv' /\ Follows /\ InForce
  <2>1. UNCHANGED instance /\ UNCHANGED verdict
    BY <1>5 DEF Decide, threadVars
  <2> QED
    BY <1>5, <2>1, DecideStep DEF Follows, InForce
<1>6. ASSUME NEW t \in Threads, NEW j \in Jobs, Intent(t, j)
      PROVE  IInv' /\ Follows /\ InForce
  BY <1>6, IntentStep DEF Intent, Follows, InForce
<1>7. ASSUME NEW t \in Threads, Read(t)
      PROVE  IInv' /\ Follows /\ InForce
  <2>1. UNCHANGED instance
    BY <1>7 DEF Read
  <2>2. CASE Leave(t)
    BY <1>7, <2>1, <2>2, ReadStep, Leaves, NoDocumentAssumption DEF IInv, Follows, InForce
  <2>3. CASE UNCHANGED verdict
    BY <1>7, <2>1, <2>3, ReadStep DEF Follows, InForce
  <2> QED
    BY <1>7, <2>2, <2>3 DEF Read
<1>8. ASSUME NEW t \in Threads, Commit(t)
      PROVE  IInv' /\ Follows /\ InForce
  <2>1. CASE Leave(t)
    BY <1>8, <2>1, CommitStep, Leaves, NoDocumentAssumption DEF IInv, InForce
  <2>2. CASE UNCHANGED verdict
    BY <1>8, <2>2, CommitStep DEF InForce
  <2> QED
    BY <1>8, <2>1, <2>2 DEF Commit
<1>9. ASSUME NEW t \in Threads, Verify(t)
      PROVE  IInv' /\ Follows /\ InForce
  BY <1>9, VerifyStep DEF Verify, Follows
<1>10. ASSUME NEW t \in Threads, Complete(t) \/ Die(t)
       PROVE  IInv' /\ Follows /\ InForce
  <2>1. Leave(t) /\ UNCHANGED instance
    BY <1>10 DEF Complete, Die
  <2>2. IInv'
    BY <1>10, CompleteStep, LeaveStep DEF Die
  <2> QED
    BY <2>1, <2>2, Leaves, NoDocumentAssumption DEF IInv, Follows, InForce
<1>11. ASSUME NEW s \in States, NEW p \in BOOLEAN, Direct(s, p)
       PROVE  IInv' /\ Follows /\ InForce
  <2>1. UNCHANGED verdict
    BY <1>11 DEF Direct, threadVars
  <2> QED
    BY <1>11, <2>1, DirectStep DEF InForce
<1>12. CASE UNCHANGED vars
  <2>1. /\ UNCHANGED <<instance, log, audit, pipeline, threadVars>>
        /\ UNCHANGED <<plan, job, claims, holder, result, commit, pc, work, seen, verdict>>
    BY <1>12 DEF vars, pipeline, threadVars
  <2>2. TypeOK' /\ ThreadsInPlace'
    BY <2>1 DEF IInv, TypeOK, ThreadsInPlace
  <2> QED
    BY <2>1, <2>2, ThreadFrame DEF IInv, Follows, InForce
<1> QED
  BY <1>1, <1>2, <1>3, <1>4, <1>5, <1>6, <1>7, <1>8, <1>9, <1>10, <1>11, <1>12 DEF Next

LEMMA InitHolds ==
  ASSUME Init
  PROVE  IInv
<1>1. instance \in Rows /\ instance.version = "created" /\ DOMAIN log = {} /\ log \in [DOMAIN log -> Rows]
  BY ConstantsAssumption DEF Init, Rows, States, Versions
<1>2. TypeOK
  BY <1>1 DEF Init, TypeOK
<1>3. PlansInPlace /\ PipelineInPlace /\ LogInPlace /\ ThreadsInPlace
  BY <1>1, NoDocumentAssumption DEF Init, PlansInPlace, PipelineInPlace, LogInPlace, ThreadsInPlace
<1>4. OneWriterPerGeneration /\ CompletionIsTrue
  BY <1>1, ConstantsAssumption DEF Init, OneWriterPerGeneration, CompletionIsTrue
<1> QED
  BY <1>2, <1>3, <1>4 DEF IInv

LEMMA Invariant == Spec => []IInv
<1>1. Init => IInv
  BY InitHolds
<1>2. IInv /\ [Next]_vars => IInv'
  BY StepKeeps
<1> QED
  BY <1>1, <1>2, PTL DEF Spec

\* Every variable of the model keeps its type (home_service_*.py, store.py).
THEOREM TypeCorrect == Spec => []TypeOK
<1>1. IInv => TypeOK
  BY DEF IInv
<1> QED
  BY <1>1, Invariant, PTL

\* A job takes effect once, and no two jobs take effect on one generation.
THEOREM WriterTheorem == Spec => []OneWriterPerGeneration
<1>1. IInv => OneWriterPerGeneration
  BY DEF IInv
<1> QED
  BY <1>1, Invariant, PTL

\* What the audit chain says of a completed job is true, and stays true.
THEOREM CompletionTheorem == Spec => []CompletionIsTrue
<1>1. IInv => CompletionIsTrue
  BY DEF IInv
<1> QED
  BY <1>1, Invariant, PTL

\* A job changes the row it was planned on as it was planned, after a successful
\* execution and behind its audited intent.
THEOREM FollowsTheorem == Spec => ChangesFollowPlans
<1>1. IInv /\ [Next]_vars => [Follows]_vars
  BY StepKeeps
<1> QED
  BY <1>1, Invariant, PTL DEF Spec, ChangesFollowPlans

\* A thread calls a row verified only while the stored row of its job is in force.
THEOREM InForceTheorem == Spec => VerifiedWasInForce
<1>1. IInv /\ [Next]_vars => [InForce]_vars
  BY StepKeeps
<1> QED
  BY <1>1, Invariant, PTL DEF Spec, VerifiedWasInForce
-----------------------------------------------------------------------------
(* The modules a home service is offered for: what is stored of their      *)
(* archives, what a decision about them rests on, and what an index shows. *)

\* Only what no trust policy could change is accepted, one package at a time.
AcceptedSound ==
  /\ accepted \subseteq Sound
  /\ IsFiniteSet({Package[p].manifest : p \in accepted})

\* The stager s is the one that linked the archive of p.
Created(s, p) == p \in answer[s] \/ (position[s] = "tidy" /\ staging[s] = p)

\* A stager holds a verified package and as much of a temporary file as its
\* place says; a place is taken by a whole archive, which one stager linked.
StagersSound ==
  /\ \A s \in Stagers :
       /\ position[s] # "idle" => staging[s] \in Staged /\ staging[s] \in accepted
       /\ position[s] \in {"idle", "look"} => temp[s] = "none"
       /\ position[s] = "write" => temp[s] # "complete"
       /\ position[s] = "link" => temp[s] = "complete"
       /\ position[s] = "compare" => store[staging[s]] # "absent"
  /\ \A p \in Staged : store[p] # "partial" /\ (store[p] = "complete" => p \in accepted)
  /\ \A s \in Stagers, p \in Staged : Created(s, p) => store[p] # "absent"
  /\ \A s, u \in Stagers, p \in Staged : Created(s, p) /\ Created(u, p) => s = u

\* A decision is what the evaluation gave for what it names, and it is current
\* if the evaluation gives the same on what the recheck names.
DecisionSound ==
  /\ decision = Missing => revalidation = Missing
  /\ decision # Missing =>
       /\ decision = UnderPolicy(decision.candidates, decision.snapshot, decision.policy)
       /\ \A m, n \in decision.candidates : Manifest[m].id = Manifest[n].id => m = n
  /\ revalidation # Missing /\ revalidation.status = "current" =>
       Drift(decision, UnderPolicy(decision.candidates, revalidation.snapshot, revalidation.policy),
             revalidation.parts) = {}

\* An admission gives the reasons of its snapshot.
AdmissionFits(a) == a.reasons = Reasons(a.manifest, a.snapshot)

\* A binding of all the services of a module joins documents that fit.
BindingFits(b) ==
  LET m == b.binding.manifest
  IN  /\ AdmissionFits(b.binding.admission) /\ b.binding.admission.manifest = m
      /\ b.binding.module = Manifest[m].id
      /\ b.binding.admission.snapshot.host = b.host
      /\ Manifest[m].requests \subseteq b.binding.profile
      /\ DOMAIN b.services = DOMAIN Manifest[m].services
      /\ \A s \in DOMAIN b.services :
           b.services[s].reasons =
             ServiceReasons(b.binding, Manifest[m].services[s], b.services[s].provides)

\* The documents of the chain are about verified manifests, and a state is what a
\* binding with at least one service became when it was compared with another.
ChainSound ==
  /\ admitted # Missing => Evidence(admitted.manifest) /\ AdmissionFits(admitted)
  /\ bound # Missing => DOMAIN bound.services # {}
  /\ states = [i \in Modules |-> states[i]]
  /\ \A i \in Modules : states[i] # Missing =>
       /\ states[i] = State(states[i].original, states[i].binding)
       /\ BindingFits(states[i].binding) /\ Evidence(states[i].binding.binding.manifest)
       /\ states[i].binding.binding.module = i
       /\ DOMAIN states[i].original.services # {}

ModulesInv ==
  ContractsTypeOK /\ AcceptedSound /\ StagersSound /\ DecisionSound /\ ChainSound

LEMMA SoundFacts ==
  /\ Sound \subseteq Packages
  /\ \A p \in Sound : Package[p].manifest \in Manifests
BY DEF Sound, ValidManifests

\* Accepting one more sound package.
LEMMA AcceptOne ==
  ASSUME AcceptedSound, NEW p \in Sound, accepted' = accepted \cup {p}
  PROVE  AcceptedSound' /\ accepted \subseteq accepted'
<1>1. {Package[q].manifest : q \in accepted'} = {Package[q].manifest : q \in accepted} \cup {Package[p].manifest}
  OBVIOUS
<1>2. IsFiniteSet({Package[q].manifest : q \in accepted'})
  BY <1>1, FS_AddElement DEF AcceptedSound
<1> QED
  BY <1>2 DEF AcceptedSound, Sound, Readable, Decodable, Stated, WellFormed

\* A stager that comes to rest leaves what is stored, and has linked nothing new.
LEMMA RestKeeps ==
  ASSUME ArtifactsTypeOK, StagersSound, NEW s \in Stagers, position[s] # "idle", Rest(s),
         UNCHANGED <<keys, accepted, store>>,
         answer' = answer \/ (position[s] = "tidy" /\ answer' = [answer EXCEPT ![s] = @ \cup {staging[s]}])
  PROVE  ArtifactsTypeOK' /\ StagersSound'
<1>1. /\ position' = [position EXCEPT ![s] = "idle"]
      /\ staging' = [staging EXCEPT ![s] = Missing]
      /\ temp' = [temp EXCEPT ![s] = "none"]
  BY DEF Rest, MoveTo
<1>2. staging[s] \in Staged
  BY DEF StagersSound
<1>3. ArtifactsTypeOK'
  <2>1. answer' \in [Stagers -> SUBSET Staged]
    BY <1>2 DEF ArtifactsTypeOK
  <2> QED
    BY <1>1, <2>1 DEF ArtifactsTypeOK
<1>4. \A u \in Stagers, p \in Staged : Created(u, p)' => Created(u, p)
  BY <1>1 DEF Created, ArtifactsTypeOK
<1>5. \A u \in Stagers : u # s =>
        position'[u] = position[u] /\ staging'[u] = staging[u] /\ temp'[u] = temp[u]
  BY <1>1 DEF ArtifactsTypeOK
<1>6. position'[s] = "idle" /\ temp'[s] = "none"
  BY <1>1 DEF ArtifactsTypeOK
<1> QED
  BY <1>3, <1>4, <1>5, <1>6 DEF StagersSound

LEMMA StagerKeeps ==
  ASSUME ArtifactsTypeOK, AcceptedSound, StagersSound, NEW s \in Stagers, StagerStep(s)
  PROVE  ArtifactsTypeOK' /\ AcceptedSound' /\ StagersSound' /\ accepted \subseteq accepted'
<1>1. ASSUME NEW p \in Staged, Stage(s, p)
      PROVE  ArtifactsTypeOK' /\ AcceptedSound' /\ StagersSound' /\ accepted \subseteq accepted'
  <2>1. /\ p \in Sound /\ accepted' = accepted \cup {p} /\ position[s] = "idle"
        /\ staging' = [staging EXCEPT ![s] = p] /\ position' = [position EXCEPT ![s] = "look"]
        /\ UNCHANGED <<keys, store, temp, answer>>
    BY <1>1 DEF Stage, Verified, MoveTo
  <2>2. AcceptedSound' /\ accepted \subseteq accepted'
    BY <2>1, AcceptOne
  <2>3. ArtifactsTypeOK'
    BY <2>1, SoundFacts DEF ArtifactsTypeOK
  <2>4. /\ position'[s] = "look" /\ staging'[s] = p
        /\ \A u \in Stagers : u # s => position'[u] = position[u] /\ staging'[u] = staging[u]
    BY <2>1 DEF ArtifactsTypeOK
  <2>5. \A u \in Stagers, q \in Staged : Created(u, q)' <=> Created(u, q)
    BY <2>1, <2>4 DEF Created
  <2>6. StagersSound'
    BY <2>1, <2>2, <2>4, <2>5 DEF StagersSound
  <2> QED
    BY <2>2, <2>3, <2>6
<1>2. CASE Look(s)
  <2>1. position[s] \in {"look", "compare"} /\ UNCHANGED <<keys, accepted, store, answer>>
    BY <1>2 DEF Look
  <2>2. CASE store[staging[s]] # "absent"
    BY <1>2, <2>1, <2>2, RestKeeps DEF Look, AcceptedSound, Sound, Readable, Decodable, Stated, WellFormed
  <2>3. CASE store[staging[s]] = "absent"
    <3>1. position[s] = "look" /\ position' = [position EXCEPT ![s] = "write"] /\ UNCHANGED <<staging, temp>>
      BY <1>2, <2>1, <2>3 DEF Look, StagersSound, MoveTo
    <3>2. /\ position'[s] = "write"
          /\ \A u \in Stagers : u # s => position'[u] = position[u]
      BY <3>1 DEF ArtifactsTypeOK
    <3>3. \A u \in Stagers, q \in Staged : Created(u, q)' <=> Created(u, q)
      BY <2>1, <3>1, <3>2 DEF Created
    <3>4. ArtifactsTypeOK'
      BY <2>1, <3>1 DEF ArtifactsTypeOK
    <3>5. StagersSound'
      BY <2>1, <3>1, <3>2, <3>3 DEF StagersSound
    <3> QED
      BY <2>1, <3>4, <3>5 DEF AcceptedSound, Sound, Readable, Decodable, Stated, WellFormed
  <2> QED
    BY <2>2, <2>3
<1>3. CASE Write(s)
  <2>1. position[s] = "write" /\ UNCHANGED <<keys, accepted, store, staging, answer>>
    BY <1>3 DEF Write
  <2>2. PICK f \in {"partial", "complete"} :
          /\ temp' = [temp EXCEPT ![s] = f]
          /\ position' = [position EXCEPT ![s] = IF f = "complete" THEN "link" ELSE "write"]
    BY <1>3, <2>1 DEF Write, MoveTo, ArtifactsTypeOK
  <2>3. /\ position'[s] = (IF f = "complete" THEN "link" ELSE "write") /\ temp'[s] = f
        /\ \A u \in Stagers : u # s => position'[u] = position[u] /\ temp'[u] = temp[u]
    BY <2>2 DEF ArtifactsTypeOK
  <2>4. \A u \in Stagers, q \in Staged : Created(u, q)' <=> Created(u, q)
    BY <2>1, <2>3 DEF Created
  <2>5. ArtifactsTypeOK'
    BY <2>1, <2>2 DEF ArtifactsTypeOK
  <2>6. StagersSound'
    BY <2>1, <2>3, <2>4 DEF StagersSound
  <2> QED
    BY <2>1, <2>5, <2>6 DEF AcceptedSound, Sound, Readable, Decodable, Stated, WellFormed
<1>4. CASE Link(s)
  <2>1. position[s] = "link" /\ UNCHANGED <<keys, accepted, staging, temp, answer>>
    BY <1>4 DEF Link
  <2>2. PICK p \in Staged : p = staging[s] /\ p \in accepted
    BY <2>1 DEF StagersSound
  <2>3. temp[s] = "complete"
    BY <2>1 DEF StagersSound
  <2>4. CASE store[p] = "absent"
    <3>1. store' = [store EXCEPT ![p] = "complete"] /\ position' = [position EXCEPT ![s] = "tidy"]
      BY <1>4, <2>2, <2>3, <2>4 DEF Link, MoveTo
    <3>2. /\ position'[s] = "tidy" /\ store'[p] = "complete"
          /\ \A u \in Stagers : u # s => position'[u] = position[u]
          /\ \A q \in Staged : q # p => store'[q] = store[q]
      BY <3>1 DEF ArtifactsTypeOK
    <3>3. \A u \in Stagers, q \in Staged : Created(u, q)' => Created(u, q) \/ (u = s /\ q = p)
      BY <2>1, <2>2, <3>2 DEF Created
    <3>4. \A u \in Stagers : ~Created(u, p)
      BY <2>4 DEF StagersSound
    <3>5. ArtifactsTypeOK'
      BY <2>1, <3>1 DEF ArtifactsTypeOK
    <3>6. \A u \in Stagers :
            /\ position'[u] # "idle" => staging'[u] \in Staged /\ staging'[u] \in accepted'
            /\ position'[u] \in {"idle", "look"} => temp'[u] = "none"
            /\ position'[u] = "write" => temp'[u] # "complete"
            /\ position'[u] = "link" => temp'[u] = "complete"
            /\ position'[u] = "compare" => store'[staging'[u]] # "absent"
      BY <2>1, <2>2, <3>2 DEF StagersSound
    <3>7. StagersSound'
      BY <2>1, <2>2, <3>2, <3>3, <3>4, <3>6 DEF StagersSound
    <3> QED
      BY <2>1, <3>5, <3>7 DEF AcceptedSound, Sound, Readable, Decodable, Stated, WellFormed
  <2>5. CASE store[p] # "absent"
    <3>1. UNCHANGED store /\ position' = [position EXCEPT ![s] = "compare"]
      BY <1>4, <2>2, <2>5 DEF Link, MoveTo
    <3>2. /\ position'[s] = "compare"
          /\ \A u \in Stagers : u # s => position'[u] = position[u]
      BY <3>1 DEF ArtifactsTypeOK
    <3>3. \A u \in Stagers, q \in Staged : Created(u, q)' <=> Created(u, q)
      BY <2>1, <3>2 DEF Created
    <3>4. ArtifactsTypeOK'
      BY <2>1, <3>1 DEF ArtifactsTypeOK
    <3>5. StagersSound'
      BY <2>1, <2>2, <2>5, <3>1, <3>2, <3>3 DEF StagersSound
    <3> QED
      BY <2>1, <3>4, <3>5 DEF AcceptedSound, Sound, Readable, Decodable, Stated, WellFormed
  <2> QED
    BY <2>4, <2>5
<1>5. CASE Tidy(s) \/ Fail(s)
  <2>1. AcceptedSound' /\ accepted \subseteq accepted'
    BY <1>5 DEF Tidy, Fail, AcceptedSound, Sound, Readable, Decodable, Stated, WellFormed
  <2> QED
    BY <1>5, <2>1, RestKeeps DEF Tidy, Fail
<1> QED
  BY <1>1, <1>2, <1>3, <1>4, <1>5 DEF StagerStep

LEMMA ArtifactsKeep ==
  ASSUME ArtifactsTypeOK, AcceptedSound, StagersSound, ArtifactsNext
  PROVE  ArtifactsTypeOK' /\ AcceptedSound' /\ StagersSound' /\ accepted \subseteq accepted'
<1>1. ASSUME NEW p \in Packages, VerifyPackage(p)
      PROVE  ArtifactsTypeOK' /\ AcceptedSound' /\ StagersSound' /\ accepted \subseteq accepted'
  <2>1. p \in Sound /\ accepted' = accepted \cup {p} /\ UNCHANGED <<keys, store, position, staging, temp, answer>>
    BY <1>1 DEF VerifyPackage, Verified, stagerVars
  <2>2. AcceptedSound' /\ accepted \subseteq accepted'
    BY <2>1, AcceptOne
  <2>3. \A u \in Stagers, q \in Staged : Created(u, q)' <=> Created(u, q)
    BY <2>1 DEF Created
  <2>4. ArtifactsTypeOK' /\ StagersSound'
    BY <2>1, <2>2, <2>3 DEF ArtifactsTypeOK, StagersSound
  <2> QED
    BY <2>2, <2>4
<1>2. ASSUME NEW k \in Keys, Demote(k)
      PROVE  ArtifactsTypeOK' /\ AcceptedSound' /\ StagersSound' /\ accepted \subseteq accepted'
  <2>1. UNCHANGED <<accepted, store, position, staging, temp, answer>>
    BY <1>2 DEF Demote, stagerVars
  <2>2. keys' \in [Keys -> {"active", "retired", "revoked"}]
    BY <1>2 DEF Demote, ArtifactsTypeOK
  <2>3. \A u \in Stagers, q \in Staged : Created(u, q)' <=> Created(u, q)
    BY <2>1 DEF Created
  <2>4. ArtifactsTypeOK' /\ StagersSound'
    BY <2>1, <2>2, <2>3 DEF ArtifactsTypeOK, StagersSound
  <2> QED
    BY <2>1, <2>4 DEF AcceptedSound, Sound, Readable, Decodable, Stated, WellFormed
<1> QED
  BY <1>1, <1>2, StagerKeeps DEF ArtifactsNext

-----------------------------------------------------------------------------

\* The versions planned for a set of manifests are versions of the modules.
LEMMA PlannedVersions ==
  ASSUME NEW c \in SUBSET Manifests, NEW s, s.installed \in [Modules -> 0 .. MaxVersion]
  PROVE  Planned(c, s) \in [Modules -> 0 .. MaxVersion]
<1>1. ASSUME NEW i \in Modules, \E m \in c : Manifest[m].id = i
      PROVE  Manifest[CHOOSE m \in c : Manifest[m].id = i].version \in 0 .. MaxVersion
  BY <1>1, ManifestAssumption, AdmissionAssumption
<1> QED
  BY <1>1 DEF Planned

\* Every manifest of an accepted package is one, and so is every candidate.
LEMMA AcceptedManifests ==
  ASSUME AcceptedSound
  PROVE  /\ {Package[p].manifest : p \in accepted} \subseteq Manifests
         /\ \A m : Evidence(m) => m \in Manifests
BY SoundFacts DEF AcceptedSound, Evidence

\* What the decisions and their rechecks keep: the artifacts stay, or grow.
AdmissionInv == AdmissionTypeOK /\ AcceptedSound /\ StagersSound /\ DecisionSound

LEMMA ArtifactsRest ==
  ASSUME ArtifactsTypeOK, AcceptedSound, StagersSound, UNCHANGED artifactVars
  PROVE  ArtifactsTypeOK' /\ AcceptedSound' /\ StagersSound' /\ accepted' = accepted
BY DEF artifactVars, stagerVars, ArtifactsTypeOK, AcceptedSound, StagersSound, Created,
       Sound, Readable, Decodable, Stated, WellFormed

LEMMA DecideKeeps ==
  ASSUME AdmissionInv, decision = Missing, NEW c \in Candidates, DecideSet(c)
  PROVE  AdmissionInv' /\ accepted' = accepted
<1>1. /\ decision' = UnderPolicy(c, Snapshot, policy)
      /\ UNCHANGED <<artifactVars, host, capabilities, installed, policy, changes, revalidation>>
  BY DEF DecideSet, runtimeVars
<1>2. ArtifactsTypeOK' /\ AcceptedSound' /\ StagersSound' /\ accepted' = accepted
  BY <1>1, ArtifactsRest DEF AdmissionInv, AdmissionTypeOK
<1>3. c \subseteq {Package[p].manifest : p \in accepted}
  BY DEF Candidates
<1>4. Planned(c, Snapshot) \in [Modules -> 0 .. MaxVersion]
  BY <1>3, AcceptedManifests, PlannedVersions DEF AdmissionInv, AdmissionTypeOK, Snapshot
<1>5. /\ decision'.candidates = c /\ decision'.snapshot = Snapshot /\ decision'.policy = policy
      /\ decision'.planned = Planned(c, Snapshot)
  BY <1>1 DEF UnderPolicy
<1>6. revalidation' = Missing
  BY <1>1 DEF AdmissionInv, DecisionSound
<1>7. AdmissionTypeOK'
  BY <1>1, <1>2, <1>3, <1>4, <1>5, <1>6 DEF AdmissionInv, AdmissionTypeOK
<1>8. DecisionSound'
  <2>1. \A m, n \in c : Manifest[m].id = Manifest[n].id => m = n
    BY DEF Candidates
  <2>2. decision' = UnderPolicy(decision'.candidates, decision'.snapshot, decision'.policy)
    BY <1>1, <1>5
  <2> HIDE DEF UnderPolicy
  <2> QED
    BY <1>5, <1>6, <2>1, <2>2 DEF DecisionSound
<1> QED
  BY <1>2, <1>7, <1>8 DEF AdmissionInv

LEMMA RecheckKeeps ==
  ASSUME AdmissionInv, NEW parts, NEW pol \in Policies, Recheck(parts, pol)
  PROVE  AdmissionInv' /\ accepted' = accepted
<1> DEFINE fresh == UnderPolicy(decision.candidates, Snapshot, pol)
<1>1. /\ decision # Missing
      /\ revalidation' = [status |-> IF Drift(decision, fresh, parts) = {} THEN "current" ELSE "stale",
                          snapshot |-> Snapshot, policy |-> pol, parts |-> parts]
      /\ UNCHANGED <<artifactVars, host, capabilities, installed, policy, changes, decision>>
  BY DEF Recheck, runtimeVars
<1>2. ArtifactsTypeOK' /\ AcceptedSound' /\ StagersSound' /\ accepted' = accepted
  BY <1>1, ArtifactsRest DEF AdmissionInv, AdmissionTypeOK
<1>3. /\ revalidation'.status \in {"current", "stale"} /\ revalidation'.policy = pol
      /\ revalidation'.snapshot = Snapshot /\ revalidation'.parts = parts
      /\ revalidation'.status = "current" => Drift(decision, fresh, parts) = {}
  <2> HIDE DEF fresh
  <2> QED
    BY <1>1
<1>4. AdmissionTypeOK'
  BY <1>1, <1>2, <1>3 DEF AdmissionInv, AdmissionTypeOK
<1>5. DecisionSound'
  BY <1>1, <1>3 DEF AdmissionInv, DecisionSound
<1> QED
  BY <1>2, <1>4, <1>5 DEF AdmissionInv

LEMMA ChangeKeeps ==
  ASSUME AdmissionInv, Change
  PROVE  AdmissionInv' /\ accepted' = accepted
<1>1. /\ changes < MaxChanges /\ changes' = changes + 1
      /\ UNCHANGED <<artifactVars, decision, revalidation>>
  BY DEF Change
<1>2. ArtifactsTypeOK' /\ AcceptedSound' /\ StagersSound' /\ accepted' = accepted
  BY <1>1, ArtifactsRest DEF AdmissionInv, AdmissionTypeOK
<1>3. /\ host' \in Hosts /\ capabilities' \subseteq Capabilities
      /\ installed' \in [Modules -> 0 .. MaxVersion] /\ policy' \in Policies
  BY DEF Change, AdmissionInv, AdmissionTypeOK, runtimeVars
<1>4. changes' \in 0 .. MaxChanges
  BY <1>1, AdmissionAssumption DEF AdmissionInv, AdmissionTypeOK
<1>5. AdmissionTypeOK'
  BY <1>1, <1>2, <1>3, <1>4 DEF AdmissionInv, AdmissionTypeOK
<1>6. DecisionSound'
  BY <1>1 DEF AdmissionInv, DecisionSound
<1> QED
  BY <1>2, <1>5, <1>6 DEF AdmissionInv

LEMMA ArtifactsStepKeeps ==
  ASSUME AdmissionInv, Artifacts
  PROVE  AdmissionInv' /\ accepted \subseteq accepted'
<1>1. /\ ArtifactsNext
      /\ changes' = changes + (IF keys' = keys THEN 0 ELSE 1) /\ changes' <= MaxChanges
      /\ UNCHANGED <<host, capabilities, installed, policy, decision, revalidation>>
  BY DEF Artifacts, runtimeVars
<1>2. ArtifactsTypeOK' /\ AcceptedSound' /\ StagersSound' /\ accepted \subseteq accepted'
  BY <1>1, ArtifactsKeep DEF AdmissionInv, AdmissionTypeOK
<1>3. changes' \in 0 .. MaxChanges
  BY <1>1, AdmissionAssumption DEF AdmissionInv, AdmissionTypeOK
<1>4. AdmissionTypeOK'
  BY <1>1, <1>2, <1>3 DEF AdmissionInv, AdmissionTypeOK
<1>5. DecisionSound'
  BY <1>1 DEF AdmissionInv, DecisionSound
<1> QED
  BY <1>2, <1>4, <1>5 DEF AdmissionInv

LEMMA AdmissionKeeps ==
  ASSUME AdmissionInv, AdmissionNext
  PROVE  AdmissionInv' /\ accepted \subseteq accepted'
<1>1. decision # Missing => decision.policy \in Policies /\ policy \in Policies
  BY DEF AdmissionInv, AdmissionTypeOK
<1>2. CASE decision # Missing /\ (RecheckSingles \/ RecheckSet \/ RecheckUnderPolicy)
  BY <1>1, <1>2, RecheckKeeps DEF RecheckSingles, RecheckSet, RecheckUnderPolicy
<1> QED
  BY <1>2, ArtifactsStepKeeps, DecideKeeps, ChangeKeeps DEF AdmissionNext

-----------------------------------------------------------------------------

\* The chain stays as it is while packages are accepted, and runtime, profiles and
\* revisions move.
LEMMA ChainStays ==
  ASSUME ModulesInv, AdmissionInv', accepted \subseteq accepted',
         supported' \subseteq Revisions, provided' \in [Services -> SUBSET Contracts],
         UNCHANGED <<admitted, negotiated, bound, states>>
  PROVE  ModulesInv'
<1>1. ContractsTypeOK'
  BY DEF ModulesInv, ContractsTypeOK, AdmissionInv
<1>2. \A m : Evidence(m) => Evidence(m)'
  BY DEF Evidence
<1>3. admitted # Missing => Evidence(admitted.manifest)'
  BY DEF Evidence, ModulesInv, ChainSound
<1>4. \A i \in Modules : states[i] # Missing => Evidence(states[i].binding.binding.manifest)'
  BY DEF Evidence, ModulesInv, ChainSound
<1>5. \A i \in Modules : states'[i] # Missing =>
       /\ states'[i] = State(states'[i].original, states'[i].binding)
       /\ BindingFits(states'[i].binding)
       /\ states'[i].binding.binding.module = i
       /\ DOMAIN states'[i].original.services # {}
  <2> HIDE DEF State, BindingFits
  <2> QED
    BY DEF ModulesInv, ChainSound
<1>6. admitted' # Missing => AdmissionFits(admitted')
  <2> HIDE DEF AdmissionFits
  <2> QED
    BY DEF ModulesInv, ChainSound
<1>7. ChainSound'
  BY <1>3, <1>4, <1>5, <1>6 DEF ModulesInv, ChainSound
<1> QED
  BY <1>1, <1>7 DEF ModulesInv, AdmissionInv

LEMMA AdmissionRests ==
  ASSUME ModulesInv, UNCHANGED admissionVars
  PROVE  AdmissionInv' /\ accepted' = accepted
<1>1. UNCHANGED <<artifactVars, host, capabilities, installed, policy, changes, decision, revalidation>>
  BY DEF admissionVars, runtimeVars
<1>2. ArtifactsTypeOK' /\ AcceptedSound' /\ StagersSound' /\ accepted' = accepted
  BY <1>1, ArtifactsRest DEF ModulesInv, ContractsTypeOK, AdmissionTypeOK
<1>3. AdmissionTypeOK'
  BY <1>1, <1>2 DEF ModulesInv, ContractsTypeOK, AdmissionTypeOK
<1>4. DecisionSound'
  BY <1>1 DEF ModulesInv, DecisionSound
<1> QED
  BY <1>2, <1>3, <1>4 DEF AdmissionInv

LEMMA AdmitKeeps ==
  ASSUME ModulesInv, NEW m \in Manifests, AdmitModule(m)
  PROVE  ModulesInv'
<1>1. /\ Evidence(m) /\ admitted' = Admission(m, Snapshot)
      /\ UNCHANGED admissionVars /\ UNCHANGED <<supported, provided, negotiated, bound, states>>
  BY DEF AdmitModule
<1>2. AdmissionInv' /\ accepted' = accepted
  BY <1>1, AdmissionRests
<1>3. /\ admitted'.manifest = m /\ admitted'.snapshot = Snapshot
      /\ admitted'.reasons = Reasons(m, Snapshot)
  <2> HIDE DEF Reasons, Snapshot
  <2> QED
    BY <1>1 DEF Admission
<1>4. admitted'.snapshot.host \in Hosts /\ Manifest[admitted'.manifest].id \in Modules
  BY <1>3, ManifestAssumption DEF Snapshot, ModulesInv, ContractsTypeOK, AdmissionTypeOK
<1>5. ContractsTypeOK'
  BY <1>1, <1>2, <1>4 DEF ModulesInv, ContractsTypeOK, AdmissionInv
<1>6. AdmissionFits(admitted') /\ Evidence(admitted.manifest)'
  BY <1>1, <1>2, <1>3 DEF AdmissionFits, Evidence
<1>7. \A i \in Modules : states[i] # Missing => Evidence(states[i].binding.binding.manifest)'
  BY <1>1, <1>2 DEF Evidence, ModulesInv, ChainSound
<1>8. ChainSound'
  BY <1>1, <1>6, <1>7 DEF ModulesInv, ChainSound
<1> QED
  BY <1>2, <1>5, <1>8 DEF ModulesInv, AdmissionInv

LEMMA NegotiateKeeps ==
  ASSUME ModulesInv, NEW m, Negotiate(m)
  PROVE  ModulesInv'
<1>1. /\ negotiated' = Negotiation(m, supported, host)
      /\ UNCHANGED admissionVars /\ UNCHANGED <<supported, provided, admitted, bound, states>>
  BY DEF Negotiate
<1>2. AdmissionInv' /\ accepted' = accepted
  BY <1>1, AdmissionRests
<1>3. negotiated'.unsupported \subseteq negotiated'.requested
  BY <1>1 DEF Negotiation
<1>4. ContractsTypeOK'
  BY <1>1, <1>2, <1>3 DEF ModulesInv, ContractsTypeOK, AdmissionInv
<1>5. \A i \in Modules : states[i] # Missing => Evidence(states[i].binding.binding.manifest)'
  BY <1>1, <1>2 DEF Evidence, ModulesInv, ChainSound
<1>6. admitted # Missing => Evidence(admitted.manifest)'
  BY <1>1, <1>2 DEF Evidence, ModulesInv, ChainSound
<1>7. ChainSound'
  BY <1>1, <1>5, <1>6 DEF ModulesInv, ChainSound
<1> QED
  BY <1>2, <1>4, <1>7 DEF ModulesInv, AdmissionInv

\* What a binding of the documents in hand joins.
LEMMA BindingOfReady ==
  ASSUME ModulesInv, Ready,
         NEW b, b = MultiBinding(ModuleBinding(negotiated, admitted), provided)
  PROVE  /\ BindingFits(b) /\ Evidence(b.binding.manifest)
         /\ b.binding.module = Manifest[admitted.manifest].id
         /\ DOMAIN b.services = DOMAIN Manifest[admitted.manifest].services
         /\ DOMAIN b.requirements = DOMAIN Manifest[admitted.manifest].services
<1> DEFINE nb == ModuleBinding(negotiated, admitted)
           m  == admitted.manifest
<1>1. /\ nb.module = Manifest[m].id /\ nb.manifest = m /\ nb.host = negotiated.host
      /\ nb.profile = negotiated.profile /\ nb.admission = admitted
  BY DEF ModuleBinding
<1>2. /\ b.binding = nb /\ b.host = nb.host /\ b.requirements = Requirements(nb)
      /\ b.services = [s \in DOMAIN Manifest[m].services |->
                         ServiceBinding(nb, Requirements(nb)[s], provided[s])]
  <2>1. b = MultiBinding(nb, provided)
    OBVIOUS
  <2> HIDE DEF nb
  <2> QED
    BY <1>1, <2>1 DEF MultiBinding
<1> HIDE DEF nb
<1>3. /\ negotiated.requested \subseteq negotiated.profile
      /\ negotiated.requested = Manifest[m].requests
      /\ negotiated.host = admitted.snapshot.host
      /\ Evidence(m) /\ AdmissionFits(admitted)
  BY DEF Ready, Bindable, ModulesInv, ChainSound
<1>4. ASSUME NEW s \in DOMAIN Manifest[m].services
      PROVE  b.services[s].reasons = ServiceReasons(nb, Manifest[m].services[s], b.services[s].provides)
  <2>1. Requirements(nb)[s].contracts = Manifest[m].services[s]
    BY <1>1 DEF Requirements
  <2>2. /\ b.services[s].provides = provided[s]
        /\ b.services[s].reasons = ServiceReasons(nb, Requirements(nb)[s].contracts, provided[s])
    <3> HIDE DEF ServiceReasons
    <3> QED
      BY <1>2 DEF ServiceBinding
  <2> QED
    BY <2>1, <2>2
<1>5. /\ DOMAIN b.services = DOMAIN Manifest[m].services
      /\ DOMAIN b.requirements = DOMAIN Manifest[m].services
  BY <1>1, <1>2 DEF Requirements
<1> HIDE DEF m
<1>6. BindingFits(b)
  BY <1>1, <1>2, <1>3, <1>4, <1>5 DEF BindingFits, m
<1> QED
  BY <1>1, <1>2, <1>3, <1>5, <1>6 DEF m

LEMMA BindKeeps ==
  ASSUME ModulesInv, Bind
  PROVE  ModulesInv'
<1>1. /\ Ready /\ DOMAIN Manifest[admitted.manifest].services # {}
      /\ bound' = MultiBinding(ModuleBinding(negotiated, admitted), provided)
      /\ UNCHANGED admissionVars /\ UNCHANGED <<supported, provided, admitted, negotiated, states>>
  BY DEF Bind
<1>2. AdmissionInv' /\ accepted' = accepted
  BY <1>1, AdmissionRests
<1>3. DOMAIN bound'.services # {} /\ DOMAIN bound'.services = DOMAIN bound'.requirements
  BY <1>1, BindingOfReady
<1>4. ContractsTypeOK'
  BY <1>1, <1>2, <1>3 DEF ModulesInv, ContractsTypeOK, AdmissionInv
<1>5. \A i \in Modules : states[i] # Missing => Evidence(states[i].binding.binding.manifest)'
  BY <1>1, <1>2 DEF Evidence, ModulesInv, ChainSound
<1>6. admitted # Missing => Evidence(admitted.manifest)'
  BY <1>1, <1>2 DEF Evidence, ModulesInv, ChainSound
<1>7. ChainSound'
  BY <1>1, <1>3, <1>5, <1>6 DEF ModulesInv, ChainSound
<1> QED
  BY <1>2, <1>4, <1>7 DEF ModulesInv, AdmissionInv

\* What a state shows.
LEMMA StateFacts ==
  ASSUME NEW old, NEW new
  PROVE  /\ State(old, new).original = old /\ State(old, new).binding = new
         /\ State(old, new).host = new.host
         /\ State(old, new).freshness <=> State(old, new).effective # "stale"
         /\ State(old, new).effective = Effective(old, new)
         /\ Effective(old, new) \in {"compatible", "blocked", "stale"}
         /\ Effective(old, new) # "stale" <=> ServiceDrift(old, new) = {}
         /\ Effective(old, new) = "compatible" => BlockedServices(new) = {}
<1>1. Status(new) \in {"compatible", "blocked"} /\ (Status(new) = "compatible" <=> BlockedServices(new) = {})
  <2> HIDE DEF BlockedServices
  <2> QED
    BY DEF Status
<1> HIDE DEF ServiceDrift, Status
<1>2. /\ Effective(old, new) \in {"compatible", "blocked", "stale"}
      /\ Effective(old, new) # "stale" <=> ServiceDrift(old, new) = {}
      /\ Effective(old, new) = "compatible" => BlockedServices(new) = {}
  BY <1>1 DEF Effective
<1> HIDE DEF Effective
<1> QED
  BY <1>2 DEF State

LEMMA ShowKeeps ==
  ASSUME ModulesInv, Show
  PROVE  ModulesInv'
<1> DEFINE fresh == MultiBinding(ModuleBinding(negotiated, admitted), provided)
           i == fresh.binding.module
<1>1. /\ Ready /\ bound # Missing
      /\ states' = [states EXCEPT ![i] = State(bound, fresh)]
      /\ UNCHANGED admissionVars /\ UNCHANGED <<supported, provided, admitted, negotiated, bound>>
  BY DEF Show
<1>2. AdmissionInv' /\ accepted' = accepted
  BY <1>1, AdmissionRests
<1>3. BindingFits(fresh) /\ Evidence(fresh.binding.manifest) /\ i = Manifest[admitted.manifest].id
  BY <1>1, BindingOfReady
<1> HIDE DEF fresh
<1>4. i \in Modules
  BY <1>1, <1>3 DEF Ready, ModulesInv, ContractsTypeOK
<1>5. /\ states'[i] = State(bound, fresh)
      /\ \A j \in Modules : j # i => states'[j] = states[j]
      /\ states' = [j \in Modules |-> states'[j]]
  <2> HIDE DEF State, i
  <2>1. states = [j \in Modules |-> states[j]]
    BY DEF ModulesInv, ChainSound
  <2> QED
    BY <1>1, <1>4, <2>1
<1>6. \A j \in Modules : states'[j] # Missing =>
       /\ states'[j].effective \in {"compatible", "blocked", "stale"}
       /\ states'[j].freshness <=> states'[j].effective # "stale"
  <2>1. /\ states'[i].effective \in {"compatible", "blocked", "stale"}
        /\ states'[i].freshness <=> states'[i].effective # "stale"
    <3> DEFINE st == State(bound, fresh)
    <3>1. /\ st.effective \in {"compatible", "blocked", "stale"}
          /\ st.freshness <=> st.effective # "stale"
      BY StateFacts
    <3> HIDE DEF st
    <3>2. states'[i] = st
      BY <1>5 DEF st
    <3> QED
      BY <3>1, <3>2
  <2> QED
    BY <1>5, <2>1 DEF ModulesInv, ContractsTypeOK
<1>7. ContractsTypeOK'
  BY <1>1, <1>2, <1>6 DEF ModulesInv, ContractsTypeOK, AdmissionInv
<1>8. \A j \in Modules : states'[j] # Missing =>
       /\ states'[j] = State(states'[j].original, states'[j].binding)
       /\ BindingFits(states'[j].binding)
       /\ states'[j].binding.binding.module = j
       /\ DOMAIN states'[j].original.services # {}
       /\ Evidence(states'[j].binding.binding.manifest)
  <2>1. states'[i].original = bound /\ states'[i].binding = fresh
    BY <1>5, StateFacts
  <2>2. DOMAIN bound.services # {}
    BY <1>1 DEF ModulesInv, ChainSound
  <2> HIDE DEF i
  <2>3. /\ states'[i] = State(states'[i].original, states'[i].binding)
        /\ BindingFits(states'[i].binding)
        /\ states'[i].binding.binding.module = i
        /\ DOMAIN states'[i].original.services # {}
        /\ Evidence(states'[i].binding.binding.manifest)
    BY <1>3, <1>5, <2>1, <2>2 DEF i
  <2>4. \A j \in Modules : j # i /\ states[j] # Missing =>
       /\ states[j] = State(states[j].original, states[j].binding)
       /\ BindingFits(states[j].binding)
       /\ states[j].binding.binding.module = j
       /\ DOMAIN states[j].original.services # {}
       /\ Evidence(states[j].binding.binding.manifest)
    BY DEF ModulesInv, ChainSound
  <2> QED
    BY <1>5, <2>3, <2>4
<1>9. \A j \in Modules : states'[j] # Missing => Evidence(states[j].binding.binding.manifest)'
  BY <1>2, <1>8 DEF Evidence
<1>10. admitted # Missing => Evidence(admitted.manifest)'
  BY <1>1, <1>2 DEF Evidence, ModulesInv, ChainSound
<1>11. ChainSound'
  BY <1>1, <1>5, <1>8, <1>9, <1>10 DEF ModulesInv, ChainSound
<1> QED
  BY <1>2, <1>7, <1>11 DEF ModulesInv, AdmissionInv

LEMMA ContractsKeep ==
  ASSUME ModulesInv, ContractsNext \/ UNCHANGED chainVars
  PROVE  ModulesInv'
<1>1. AdmissionInv
  BY DEF ModulesInv, ContractsTypeOK, AdmissionInv
<1>2. supported \subseteq Revisions /\ provided \in [Services -> SUBSET Contracts]
  BY DEF ModulesInv, ContractsTypeOK
<1>3. CASE AdmissionNext /\ UNCHANGED contractVars
  BY <1>1, <1>2, <1>3, AdmissionKeeps, ChainStays DEF contractVars
<1>4. CASE \E p \in accepted : AdmitModule(Package[p].manifest) \/ Negotiate(Package[p].manifest)
  <2>1. \A p \in accepted : Package[p].manifest \in Manifests
    BY SoundFacts DEF ModulesInv, AcceptedSound
  <2> QED
    BY <1>4, <2>1, AdmitKeeps, NegotiateKeeps
<1>5. CASE ChangeContracts
  <2>1. /\ changes < MaxChanges /\ changes' = changes + 1
        /\ UNCHANGED <<artifactVars, host, capabilities, installed, policy, decision, revalidation>>
        /\ UNCHANGED <<admitted, negotiated, bound, states>>
    BY <1>5 DEF ChangeContracts, runtimeVars
  <2>2. supported' \subseteq Revisions /\ provided' \in [Services -> SUBSET Contracts]
    BY <1>2, <1>5 DEF ChangeContracts
  <2>3. ArtifactsTypeOK' /\ AcceptedSound' /\ StagersSound' /\ accepted' = accepted
    BY <1>1, <2>1, ArtifactsRest DEF AdmissionInv, AdmissionTypeOK
  <2>4. changes' \in 0 .. MaxChanges
    BY <1>1, <2>1, AdmissionAssumption DEF AdmissionInv, AdmissionTypeOK
  <2>5. AdmissionTypeOK'
    BY <1>1, <2>1, <2>3, <2>4 DEF AdmissionInv, AdmissionTypeOK
  <2>6. DecisionSound'
    BY <1>1, <2>1 DEF AdmissionInv, DecisionSound
  <2>7. AdmissionInv'
    BY <2>3, <2>5, <2>6 DEF AdmissionInv
  <2> QED
    BY <2>1, <2>2, <2>3, <2>7, ChainStays
<1>6. CASE UNCHANGED chainVars
  BY <1>2, <1>6, AdmissionRests, ChainStays DEF chainVars, contractVars
<1> QED
  BY <1>3, <1>4, <1>5, <1>6, BindKeeps, ShowKeeps DEF ContractsNext

LEMMA ContractsStart ==
  ASSUME ContractsInit
  PROVE  ModulesInv
<1>1. ArtifactsTypeOK /\ AcceptedSound /\ StagersSound
  <2>1. {Package[p].manifest : p \in {}} = {}
    OBVIOUS
  <2>2. AcceptedSound
    BY <2>1, FS_EmptySet DEF ContractsInit, AdmissionInit, ArtifactsInit, AcceptedSound
  <2>3. ArtifactsTypeOK
    BY DEF ContractsInit, AdmissionInit, ArtifactsInit, ArtifactsTypeOK
  <2>4. \A s \in Stagers, p \in Staged : ~Created(s, p)
    BY DEF ContractsInit, AdmissionInit, ArtifactsInit, Created
  <2>5. StagersSound
    BY <2>4 DEF ContractsInit, AdmissionInit, ArtifactsInit, StagersSound
  <2> QED
    BY <2>2, <2>3, <2>5
<1>2. AdmissionTypeOK
  BY <1>1, AdmissionAssumption DEF ContractsInit, AdmissionInit, AdmissionTypeOK
<1>3. DecisionSound
  BY DEF ContractsInit, AdmissionInit, DecisionSound
<1>4. ContractsTypeOK /\ ChainSound
  BY <1>2 DEF ContractsInit, ContractsTypeOK, ChainSound
<1> QED
  BY <1>1, <1>3, <1>4 DEF ModulesInv

\* What is accepted, staged, decided, admitted, bound and shown stays sound.
THEOREM ModulesInvariant == ContractsSpec => []ModulesInv
<1>1. ContractsInit => ModulesInv
  BY ContractsStart
<1>2. ModulesInv /\ [ContractsNext]_chainVars => ModulesInv'
  BY ContractsKeep
<1> QED
  BY <1>1, <1>2, PTL DEF ContractsSpec

\* Every document and every place has the shape the functions of the chain give it.
THEOREM ContractsTypeCorrect == ContractsSpec => []ContractsTypeOK
<1>1. ModulesInv => ContractsTypeOK
  BY DEF ModulesInv
<1> QED
  BY <1>1, ModulesInvariant, PTL

\* What is stored is a whole archive of a verified package, and one process at most is
\* told that it created it.
THEOREM StoreTheorem == ContractsSpec => []StoreIsSound
<1>1. ASSUME ModulesInv
      PROVE  StoreIsSound
  <2>1. ASSUME NEW p \in Staged
        PROVE  Cardinality({s \in Stagers : p \in answer[s]}) <= 1
    <3> DEFINE told == {s \in Stagers : p \in answer[s]}
    <3>1. \A s, u \in told : s = u
      BY <1>1 DEF ModulesInv, StagersSound, Created
    <3>2. CASE told = {}
      BY <3>2, FS_EmptySet
    <3>3. CASE told # {}
      <4>1. PICK u \in told : told = {u}
        BY <3>1, <3>3
      <4>2. Cardinality({u}) = 1
        BY FS_Singleton
      <4> HIDE DEF told
      <4>3. Cardinality(told) <= 1
        BY <4>1, <4>2
      <4> QED
        BY <4>3 DEF told
    <3> QED
      BY <3>2, <3>3
  <2> QED
    BY <1>1, <2>1 DEF StoreIsSound, ModulesInv, StagersSound
<1> QED
  BY <1>1, ModulesInvariant, PTL

\* No process ever replaces or removes what another has stored.
THEOREM ObjectsStayTheorem == ContractsSpec => ObjectsStay
<1> DEFINE Stay == \A p \in Staged : store[p] # "absent" => store'[p] = store[p]
<1>1. ASSUME ModulesInv, ContractsNext \/ UNCHANGED chainVars
      PROVE  Stay \/ UNCHANGED artifactVars
  <2>1. CASE ArtifactsNext
    <3>1. ASSUME NEW s \in Stagers, Link(s)
          PROVE  Stay
      BY <1>1, <3>1 DEF Link, ModulesInv, ContractsTypeOK, AdmissionTypeOK, ArtifactsTypeOK
    <3>2. ASSUME NEW s \in Stagers, StagerStep(s), ~Link(s)
          PROVE  UNCHANGED store
      BY <3>2 DEF StagerStep, Stage, Look, Write, Tidy, Fail
    <3>3. (\E p \in Packages : VerifyPackage(p)) \/ (\E k \in Keys : Demote(k)) => UNCHANGED store
      BY DEF VerifyPackage, Demote, stagerVars
    <3> QED
      BY <2>1, <3>1, <3>2, <3>3 DEF ArtifactsNext
  <2>2. CASE ~ArtifactsNext
    BY <1>1, <2>2 DEF ContractsNext, AdmissionNext, Artifacts, DecideSet, RecheckSingles, RecheckSet,
         RecheckUnderPolicy, Recheck, Change, AdmitModule, Negotiate, Bind, Show, ChangeContracts,
         chainVars, admissionVars
  <2> QED
    BY <2>1, <2>2
<1>2. ModulesInv /\ [ContractsNext]_chainVars => [Stay]_artifactVars
  BY <1>1
<1> QED
  BY <1>2, ModulesInvariant, PTL DEF ContractsSpec, ObjectsStay

\* A decision found current under the policy in force is true of the runtime.
THEOREM SetFitsTheorem == ContractsSpec => []CurrentSetFits
<1>1. ASSUME ModulesInv,
             decision # Missing, revalidation # Missing,
             revalidation.status = "current", revalidation.parts = PolicyParts, Compatible(decision),
             revalidation.snapshot = Snapshot, revalidation.policy = policy,
             NEW m \in decision.candidates
      PROVE  /\ host \in Manifest[m].hosts
             /\ Manifest[m].needs \cup policy.required \subseteq capabilities
             /\ Manifest[m].conflicts \cap Together(decision.candidates) = {}
             /\ \A d \in Manifest[m].deps :
                  \/ d.optional /\ d.id \notin Together(decision.candidates)
                  \/ \E n \in decision.candidates :
                       Manifest[n].id = d.id /\ Manifest[n].version >= d.from /\ Manifest[n].version < d.below
                  \/ /\ \A n \in decision.candidates : Manifest[n].id # d.id
                     /\ installed[d.id] # 0 /\ installed[d.id] >= d.from /\ installed[d.id] < d.below
             /\ Manifest[m].id \notin policy.blocked
             /\ policy.restricted => Manifest[m].publisher \in policy.publishers
             /\ Cardinality(decision.candidates) <= policy.limit
  <2> DEFINE c == decision.candidates
             laid == [Snapshot EXCEPT !.installed = Planned(c, Snapshot)]
  <2>1. AdmissionInv
    BY <1>1 DEF ModulesInv, ContractsTypeOK, AdmissionInv
  <2>2. c \subseteq Manifests /\ IsFiniteSet(c)
    <3> DEFINE all == {Package[p].manifest : p \in accepted}
    <3>1. c \subseteq all /\ IsFiniteSet(all) /\ all \subseteq Manifests
      BY <1>1, <2>1, AcceptedManifests DEF AdmissionInv, AdmissionTypeOK, AcceptedSound
    <3> HIDE DEF all
    <3> QED
      BY <3>1, FS_Subset
  <2>3. policy \in Policies /\ installed \in [Modules -> 0 .. MaxVersion]
    BY <2>1 DEF AdmissionInv, AdmissionTypeOK
  <2>4. Drift(decision, UnderPolicy(c, Snapshot, policy), PolicyParts) = {}
    BY <1>1, <2>1 DEF AdmissionInv, DecisionSound
  <2>5. decision.base = BaseReasons(c, Snapshot) /\ decision.reasons = [n \in c |-> PolicyReasons(n, c, Snapshot, policy)]
    <3> DEFINE new == UnderPolicy(c, Snapshot, policy)
    <3>1. new.base = BaseReasons(c, Snapshot) /\ new.reasons = [n \in c |-> PolicyReasons(n, c, Snapshot, policy)]
      BY DEF UnderPolicy
    <3> HIDE DEF new
    <3>2. decision.base = new.base /\ decision.reasons = new.reasons
      BY <2>4 DEF Drift, PolicyParts, SetParts, new
    <3> QED
      BY <3>1, <3>2
  <2>6. decision.base[m] = {} /\ decision.reasons[m] = {}
    BY <1>1 DEF Compatible, Blocked
  <2>7. Reasons(m, laid) = {} /\ PolicyReasons(m, c, Snapshot, policy) = {}
    BY <1>1, <2>5, <2>6 DEF BaseReasons
  <2>8. /\ laid.host = host /\ laid.capabilities = capabilities /\ laid.installed = Planned(c, Snapshot)
        /\ Snapshot.capabilities = capabilities /\ Snapshot.installed = installed
    BY DEF Snapshot
  <2> HIDE DEF laid
  <2>9. /\ host \in Manifest[m].hosts /\ Manifest[m].needs \subseteq capabilities
        /\ \A d \in Manifest[m].deps : Met(d, laid)
        /\ \A k \in Manifest[m].conflicts : laid.installed[k] = 0
    BY <2>7, <2>8 DEF Reasons
  <2>10. /\ ~(Cardinality(c) > policy.limit) /\ policy.required \subseteq capabilities
         /\ Manifest[m].id \notin policy.blocked
         /\ policy.restricted => Manifest[m].publisher \in policy.publishers
    BY <2>7, <2>8 DEF PolicyReasons
  <2>11. Cardinality(c) <= policy.limit
    <3>1. Cardinality(c) \in Nat
      BY <2>2, FS_CardinalityType
    <3>2. policy.limit \in Nat
      BY <2>3, AdmissionAssumption
    <3> QED
      BY <2>10, <3>1, <3>2
  <2>12. \A i \in Modules :
           \/ \E n \in c : Manifest[n].id = i /\ laid.installed[i] = Manifest[n].version
           \/ (\A n \in c : Manifest[n].id # i) /\ laid.installed[i] = installed[i]
    BY <2>8 DEF Planned
  <2>13. \A n \in c : Manifest[n].id \in Modules /\ Manifest[n].version \in Nat \ {0}
    BY <2>2, ManifestAssumption, AdmissionAssumption
  <2>14. \A i \in Together(c) : i \in Modules /\ laid.installed[i] # 0
    BY <2>12, <2>13 DEF Together
  <2>15. Manifest[m].conflicts \cap Together(c) = {}
    BY <2>9, <2>14
  <2>16. ASSUME NEW d \in Manifest[m].deps
         PROVE  \/ d.optional /\ d.id \notin Together(c)
                \/ \E n \in c :
                     Manifest[n].id = d.id /\ Manifest[n].version >= d.from /\ Manifest[n].version < d.below
                \/ /\ \A n \in c : Manifest[n].id # d.id
                   /\ installed[d.id] # 0 /\ installed[d.id] >= d.from /\ installed[d.id] < d.below
    <3>1. d.id \in Modules /\ d.from \in Nat /\ d.below \in Nat
      BY <1>1, <2>2, ManifestAssumption
    <3>2. Met(d, laid)
      BY <2>9
    <3>3. CASE laid.installed[d.id] = 0
      BY <2>14, <3>2, <3>3 DEF Met
    <3>4. CASE laid.installed[d.id] # 0
      <4>1. laid.installed[d.id] \in d.from .. d.below - 1
        BY <3>2, <3>4 DEF Met
      <4> QED
        BY <2>3, <2>12, <2>13, <3>1, <3>4, <4>1
    <3> QED
      BY <3>3, <3>4
  <2> QED
    BY <2>9, <2>10, <2>11, <2>15, <2>16
<1>2. ModulesInv => CurrentSetFits
  BY <1>1 DEF CurrentSetFits
<1> QED
  BY <1>2, ModulesInvariant, PTL

\* An index that says compatible rests on a whole chain for every module in it.
THEOREM IndexTheorem == ContractsSpec => []CompatibleIndexRests
<1>1. ASSUME ModulesInv, NEW h \in Hosts, Summary(h) = "compatible", NEW i \in Shown(h)
      PROVE  LET b == states[i].binding
                 m == b.binding.manifest
             IN  /\ Manifest[m].id = i /\ Evidence(m) /\ LinksCurrent(states[i].original, b)
                 /\ b.binding.admission.snapshot.host = h /\ h \in Manifest[m].hosts
                 /\ Manifest[m].requests \subseteq b.binding.profile
                 /\ \A s \in DOMAIN Manifest[m].services : Manifest[m].services[s] \subseteq b.services[s].provides
                 /\ Snapshot = b.binding.admission.snapshot /\ provided = [s \in Services |->
                       IF s \in DOMAIN b.services THEN b.services[s].provides ELSE provided[s]]
                    => /\ Reasons(m, Snapshot) = {}
                       /\ \A s \in DOMAIN Manifest[m].services : Manifest[m].services[s] \subseteq provided[s]
  <2> DEFINE old == states[i].original
             b == states[i].binding
             m == b.binding.manifest
  <2>1. i \in Modules /\ states[i] # Missing /\ states[i].host = h
    BY <1>1 DEF Shown
  <2>2. /\ states[i] = State(old, b) /\ BindingFits(b) /\ Evidence(m)
        /\ b.binding.module = i /\ DOMAIN old.services # {}
    BY <1>1, <2>1 DEF ModulesInv, ChainSound
  <2>3. m \in Manifests
    BY <1>1, <2>2, AcceptedManifests DEF ModulesInv
  <2>4. states[i].effective = "compatible"
    <3>1. states[i].effective # "stale" /\ states[i].effective # "blocked"
      BY <1>1 DEF Summary
    <3> QED
      BY <1>1, <2>1, <3>1 DEF ModulesInv, ContractsTypeOK
  <2> HIDE DEF old, b, m
  <2>5. b.host = h /\ Effective(old, b) = "compatible"
    <3>1. State(old, b).host = b.host /\ State(old, b).effective = Effective(old, b)
      BY StateFacts
    <3> HIDE DEF State
    <3> QED
      BY <2>1, <2>2, <2>4, <3>1
  <2>6. ServiceDrift(old, b) = {} /\ BlockedServices(b) = {}
    BY <2>5, StateFacts
  <2>7. /\ old.requirements = b.requirements /\ old.host = b.host
        /\ old.binding = b.binding /\ old.services = b.services
    BY <2>6 DEF ServiceDrift
  <2>8. LinksCurrent(old, b)
    BY <2>7 DEF LinksCurrent, ModuleDrift, RequirementDrift, ContractsDrift
  <2>9. /\ AdmissionFits(b.binding.admission) /\ b.binding.admission.manifest = m
        /\ b.binding.module = Manifest[m].id
        /\ b.binding.admission.snapshot.host = b.host
        /\ Manifest[m].requests \subseteq b.binding.profile
        /\ DOMAIN b.services = DOMAIN Manifest[m].services
        /\ \A s \in DOMAIN b.services :
             b.services[s].reasons = ServiceReasons(b.binding, Manifest[m].services[s], b.services[s].provides)
    BY <2>2 DEF BindingFits, m
  <2>10. \A s \in DOMAIN b.services :
           ServiceReasons(b.binding, Manifest[m].services[s], b.services[s].provides) = {}
    BY <2>6, <2>9 DEF BlockedServices
  <2>11. /\ b.binding.admission.reasons = {}
         /\ \A s \in DOMAIN b.services : Manifest[m].services[s] \subseteq b.services[s].provides
    <3>1. \A s \in DOMAIN b.services :
            /\ b.binding.admission.reasons = {}
            /\ Manifest[m].services[s] \subseteq b.services[s].provides
      BY <2>10 DEF ServiceReasons
    <3> QED
      BY <2>2, <2>7, <3>1
  <2>12. Reasons(m, b.binding.admission.snapshot) = {}
    BY <2>9, <2>11 DEF AdmissionFits
  <2>13. h \in Manifest[m].hosts
    BY <2>5, <2>9, <2>12 DEF Reasons
  <2>14. ASSUME Snapshot = b.binding.admission.snapshot,
                provided = [s \in Services |-> IF s \in DOMAIN b.services THEN b.services[s].provides ELSE provided[s]]
         PROVE  /\ Reasons(m, Snapshot) = {}
                /\ \A s \in DOMAIN Manifest[m].services : Manifest[m].services[s] \subseteq provided[s]
    <3>1. \A s \in DOMAIN b.services : provided[s] = b.services[s].provides
      <4>1. DOMAIN b.services \subseteq Services
        BY <2>3, <2>9, ServicesAssumption
      <4> QED
        BY <2>14, <4>1
    <3> HIDE DEF Reasons, Snapshot
    <3> QED
      BY <2>9, <2>11, <2>12, <2>14, <3>1
  <2>15. Manifest[m].id = i
    BY <2>2, <2>9
  <2> QED
    BY <2>2, <2>5, <2>8, <2>9, <2>11, <2>13, <2>14, <2>15 DEF old, b, m
<1>2. ModulesInv => CompatibleIndexRests
  BY <1>1 DEF CompatibleIndexRests
<1> QED
  BY <1>2, ModulesInvariant, PTL
=============================================================================
