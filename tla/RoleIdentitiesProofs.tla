------------------------ MODULE RoleIdentitiesProofs ------------------------
(***************************************************************************)
(* What holds of role identities for any number of actors, members,        *)
(* accounts, provider versions, keys, requests and restarts.               *)
(***************************************************************************)
EXTENDS RoleIdentities, FiniteSetTheorems, TLAPS

-----------------------------------------------------------------------------
(* The inductive invariant.                                                *)

Working == {"enter", "run", "start", "accepted", "readBack", "refused", "audit"}
Executing == {"run", "start", "accepted", "readBack", "refused", "audit", "verified"}
BindingSteps == {"advance", "persist", "bound", "bindFailed", "succeed"}

\* What a request holds, by how far it has come.
Askers == [at : {"observe"}, job : JobIds, plan : Plans]
Executors ==
  [at : Working, job : JobIds, plan : Plans, evidence : Evidence]
Verifiers ==
  [at : {"verified", "audit"}, job : JobIds, plan : Plans, evidence : Evidence,
   identity : 1 .. MaxIdentities]
Binders ==
  [at : BindingSteps, job : JobIds, plan : Plans, household : Households,
   identity : 0 .. MaxIdentities]

Types ==
  /\ household \in Households
  /\ provider \in Qualified \cup {None}
  /\ DOMAIN plans \subseteq Plans /\ plans \in [DOMAIN plans -> Actors]
  /\ directory \in [Accounts -> 0 .. MaxIdentities]
  /\ late \subseteq Accounts
  /\ \E n \in 0 .. MaxIdentities : DOMAIN born = 1 .. n
  /\ born \in [DOMAIN born -> Accounts]
  /\ DOMAIN exec \subseteq JobIds /\ exec \in [DOMAIN exec -> Executions]
  /\ DOMAIN binds \subseteq JobIds /\ binds \in [DOMAIN binds -> Transitions]
  /\ bindings \in [Members -> Bindings \cup {None}]
  /\ bound \in [JobIds -> {0, 1}]
  /\ starts \in [JobIds -> {0, 1}]
  /\ req \in [Requests -> {Idle} \cup Askers \cup Executors \cup Verifiers \cup Binders]
  /\ lock \in [{"execution", "binding"} -> Requests \cup {None}]
  /\ crashes \in 0 .. MaxCrashes

\* An identity that was created for an account.
BornFor(i, u) == i \in DOMAIN born /\ born[i] = u

\* What the directory says of an account is an identity created for it.
DirectoryTrue == \A u \in Accounts : directory[u] # 0 => BornFor(directory[u], u)

\* A job that is not there has started nothing; one that succeeded has started
\* the provider and names an identity created for its plan.
JobsInPlace ==
  \A j \in JobIds :
    /\ j \notin DOMAIN exec => starts[j] = 0
    /\ j \in DOMAIN exec /\ exec[j].state = "succeeded" =>
         starts[j] = 1 /\ BornFor(exec[j].identity, exec[j].plan.account)

\* Whoever executes has the lock and a job of its plan, which has started the
\* provider exactly if the request is past its start.
ExecutorsInPlace ==
  \A r \in Requests : req[r].at \in Executing =>
    LET j == req[r].job IN
    /\ lock["execution"] = r
    /\ j \in DOMAIN exec /\ exec[j].plan = req[r].plan
    /\ exec[j].state = "succeeded" => req[r].at = "audit"
    /\ req[r].at \in {"run", "start"} => starts[j] = 0
    /\ req[r].at \in {"accepted", "readBack", "verified"} => starts[j] = 1
    /\ req[r].at = "verified" => BornFor(req[r].identity, req[r].plan.account)

\* A job that verified the identity i for the plan p.
Proven(p, i, j) ==
  /\ j \in DOMAIN exec /\ exec[j].state = "succeeded"
  /\ exec[j].plan = p /\ exec[j].identity = i

\* Whoever binds has the lock, an unfinished job that rests on a proven
\* execution, and has seen a Household in which the plan was authorized; past
\* the write the binding is in force, past the audit it is audited.
BindersInPlace ==
  \A r \in Requests : req[r].at \in BindingSteps =>
    LET b == req[r].job IN
    /\ lock["binding"] = r
    /\ b \in DOMAIN binds /\ binds[b].state \in Active
    /\ Proven(req[r].plan, req[r].identity, binds[b].execution)
    /\ req[r].household.version = req[r].plan.household
    /\ b.actor \in req[r].household.parents /\ req[r].plan.member \in req[r].household.enabled
    /\ req[r].at \in {"bound", "succeed"} => bindings[req[r].plan.member] = Binding(r)
    /\ req[r].at = "succeed" => bound[b] = 1

\* A binding in force rests on a proven execution too.
BindingsInPlace ==
  \A m \in Members : bindings[m] # None =>
    /\ bindings[m].plan.member = m
    /\ bindings[m].job \in DOMAIN binds
    /\ Proven(bindings[m].plan, bindings[m].identity, binds[bindings[m].job].execution)

IInv ==
  /\ Types /\ DirectoryTrue /\ JobsInPlace /\ ExecutorsInPlace
  /\ BindersInPlace /\ BindingsInPlace /\ AuditedBindings

-----------------------------------------------------------------------------
(* Records and functions.                                                  *)

\* Where a request stands says what it holds.
LEMMA Holds ==
  ASSUME Types, NEW r \in Requests
  PROVE  /\ req[r].at \in Working \ {"audit"} => req[r] \in Executors
         /\ req[r].at = "verified" => req[r] \in Verifiers
         /\ req[r].at \in BindingSteps => req[r] \in Binders
<1>1. req[r] = Idle \/ req[r] \in Askers \/ req[r] \in Executors \/ req[r] \in Verifiers \/ req[r] \in Binders
  BY DEF Types
<1>2. CASE req[r] = Idle
  BY <1>2 DEF Idle, Working, BindingSteps
<1>3. CASE req[r] \in Askers
  <2>1. req[r].at = "observe"
    BY <1>3 DEF Askers
  <2> QED
    BY <2>1 DEF Working, BindingSteps
<1>4. CASE req[r] \in Executors
  <2>1. req[r].at \in Working
    BY <1>4 DEF Executors
  <2> QED
    BY <1>4, <2>1 DEF Working, BindingSteps
<1>5. CASE req[r] \in Verifiers
  <2>1. req[r].at \in {"verified", "audit"}
    BY <1>5 DEF Verifiers
  <2> QED
    BY <1>5, <2>1 DEF Working, BindingSteps
<1>6. CASE req[r] \in Binders
  <2>1. req[r].at \in BindingSteps
    BY <1>6 DEF Binders
  <2> QED
    BY <1>6, <2>1 DEF Working, BindingSteps
<1> QED
  BY <1>1, <1>2, <1>3, <1>4, <1>5, <1>6

LEMMA Asked ==
  ASSUME Types, NEW r \in Requests, req[r].at = "observe"
  PROVE  req[r] \in Askers /\ req[r].job \in JobIds /\ req[r].plan \in Plans
<1>1. req[r] = Idle \/ req[r] \in Askers \/ req[r] \in Executors \/ req[r] \in Verifiers \/ req[r] \in Binders
  BY DEF Types
<1>2. req[r] # Idle /\ req[r] \notin Verifiers
  BY DEF Idle, Verifiers
<1>3. req[r] \notin Executors /\ req[r] \notin Binders
  BY DEF Executors, Binders, Working, BindingSteps
<1>4. req[r] \in Askers
  BY <1>1, <1>2, <1>3
<1> QED
  BY <1>4 DEF Askers

\* A request that executes goes on with its job.
LEMMA ExecutorMoves ==
  ASSUME Types, NEW r \in Requests, req[r].at \in Working \ {"audit"},
         NEW step \in Working, Goto(r, step)
  PROVE  /\ req[r] \in Executors /\ req'[r] \in Executors
         /\ req'[r].at = step /\ req'[r].job = req[r].job /\ req'[r].plan = req[r].plan
         /\ \A s \in Requests : s # r => req'[s] = req[s]
         /\ req' \in [Requests -> {Idle} \cup Askers \cup Executors \cup Verifiers \cup Binders]
<1>1. req[r] \in Executors
  BY Holds
<1>2. req' = [req EXCEPT ![r] = [req[r] EXCEPT !.at = step]]
  BY DEF Goto
<1>3. /\ [req[r] EXCEPT !.at = step] \in Executors
      /\ [req[r] EXCEPT !.at = step].at = step
      /\ [req[r] EXCEPT !.at = step].job = req[r].job
      /\ [req[r] EXCEPT !.at = step].plan = req[r].plan
  BY <1>1 DEF Executors
<1> QED
  BY <1>1, <1>2, <1>3 DEF Types

LEMMA VerifierMoves ==
  ASSUME Types, NEW r \in Requests, req[r].at = "verified", Goto(r, "audit")
  PROVE  /\ req[r] \in Verifiers
         /\ req'[r].at = "audit" /\ req'[r].job = req[r].job /\ req'[r].plan = req[r].plan
         /\ \A s \in Requests : s # r => req'[s] = req[s]
         /\ req' \in [Requests -> {Idle} \cup Askers \cup Executors \cup Verifiers \cup Binders]
<1>1. req[r] \in Verifiers
  BY Holds
<1>2. req' = [req EXCEPT ![r] = [req[r] EXCEPT !.at = "audit"]]
  BY DEF Goto
<1>3. /\ [req[r] EXCEPT !.at = "audit"] \in Verifiers
      /\ [req[r] EXCEPT !.at = "audit"].at = "audit"
      /\ [req[r] EXCEPT !.at = "audit"].job = req[r].job
      /\ [req[r] EXCEPT !.at = "audit"].plan = req[r].plan
  BY <1>1 DEF Verifiers
<1> QED
  BY <1>1, <1>2, <1>3 DEF Types

LEMMA BinderMoves ==
  ASSUME Types, NEW r \in Requests, req[r].at \in BindingSteps, NEW step \in BindingSteps, Goto(r, step)
  PROVE  /\ req[r] \in Binders /\ req'[r] \in Binders
         /\ req'[r].at = step /\ req'[r].job = req[r].job /\ req'[r].plan = req[r].plan
         /\ req'[r].household = req[r].household /\ req'[r].identity = req[r].identity
         /\ \A s \in Requests : s # r => req'[s] = req[s]
         /\ req' \in [Requests -> {Idle} \cup Askers \cup Executors \cup Verifiers \cup Binders]
<1>1. req[r] \in Binders
  BY Holds
<1>2. req' = [req EXCEPT ![r] = [req[r] EXCEPT !.at = step]]
  BY DEF Goto
<1>3. /\ [req[r] EXCEPT !.at = step] \in Binders
      /\ [req[r] EXCEPT !.at = step].at = step
      /\ [req[r] EXCEPT !.at = step].job = req[r].job
      /\ [req[r] EXCEPT !.at = step].plan = req[r].plan
      /\ [req[r] EXCEPT !.at = step].household = req[r].household
      /\ [req[r] EXCEPT !.at = step].identity = req[r].identity
  BY <1>1 DEF Binders
<1> QED
  BY <1>1, <1>2, <1>3 DEF Types

\* An execution job changes its state and nothing else.
LEMMA JobMoves ==
  ASSUME DOMAIN exec \subseteq JobIds, exec \in [DOMAIN exec -> Executions],
         NEW j \in DOMAIN exec, NEW to \in States, exec' = [exec EXCEPT ![j].state = to]
  PROVE  /\ DOMAIN exec' = DOMAIN exec /\ exec' \in [DOMAIN exec -> Executions]
         /\ exec'[j].state = to /\ exec'[j].plan = exec[j].plan /\ exec'[j].identity = exec[j].identity
         /\ \A i \in DOMAIN exec : i # j => exec'[i] = exec[i]
<1>1. exec' = [exec EXCEPT ![j] = [exec[j] EXCEPT !.state = to]]
  OBVIOUS
<1>2. /\ [exec[j] EXCEPT !.state = to] \in Executions
      /\ [exec[j] EXCEPT !.state = to].state = to
      /\ [exec[j] EXCEPT !.state = to].plan = exec[j].plan
      /\ [exec[j] EXCEPT !.state = to].identity = exec[j].identity
  BY DEF Executions
<1> QED
  BY <1>1, <1>2

\* So does a binding job.
LEMMA TransitionMoves ==
  ASSUME DOMAIN binds \subseteq JobIds, binds \in [DOMAIN binds -> Transitions],
         NEW b \in DOMAIN binds, NEW to \in States, binds' = [binds EXCEPT ![b].state = to]
  PROVE  /\ DOMAIN binds' = DOMAIN binds /\ binds' \in [DOMAIN binds -> Transitions]
         /\ binds'[b].state = to /\ binds'[b].execution = binds[b].execution
         /\ \A i \in DOMAIN binds : i # b => binds'[i] = binds[i]
<1>1. binds' = [binds EXCEPT ![b] = [binds[b] EXCEPT !.state = to]]
  OBVIOUS
<1>2. /\ [binds[b] EXCEPT !.state = to] \in Transitions
      /\ [binds[b] EXCEPT !.state = to].state = to
      /\ [binds[b] EXCEPT !.state = to].execution = binds[b].execution
  BY DEF Transitions
<1> QED
  BY <1>1, <1>2

-----------------------------------------------------------------------------
(* What the steps of one service leave to the other.                       *)

\* Jobs that succeeded stay as they are.
Settled ==
  \A j \in DOMAIN exec : j \in DOMAIN exec' /\ (exec[j].state = "succeeded" => exec'[j] = exec[j])

LEMMA ProvenStays ==
  ASSUME Settled, NEW p, NEW i, NEW j, Proven(p, i, j)
  PROVE  Proven(p, i, j)'
BY DEF Settled, Proven

\* A step of a request that does not bind, seen from the binding service.
LEMMA BindingFrame ==
  ASSUME IInv, NEW r \in Requests, UNCHANGED <<binds, bindings, bound>>, Settled,
         lock'["binding"] = lock["binding"],
         \A s \in Requests : s # r => req'[s] = req[s],
         req'[r].at \notin BindingSteps
  PROVE  (BindersInPlace /\ BindingsInPlace /\ AuditedBindings)'
<1>1. BindersInPlace'
  <2> SUFFICES ASSUME NEW s \in Requests, req'[s].at \in BindingSteps
               PROVE BindersInPlace!(s)!2'
    BY DEF BindersInPlace
  <2>1. s # r /\ req'[s] = req[s]
    OBVIOUS
  <2> QED
    BY <2>1, ProvenStays DEF IInv, BindersInPlace, Binding
<1>2. BindingsInPlace'
  BY ProvenStays DEF IInv, BindingsInPlace
<1>3. AuditedBindings'
  BY DEF IInv, AuditedBindings
<1> QED
  BY <1>1, <1>2, <1>3

\* A step of a request that does not execute, seen from the execution service.
LEMMA ExecutionFrame ==
  ASSUME IInv, NEW r \in Requests, UNCHANGED <<exec, starts, directory, born>>,
         lock'["execution"] = lock["execution"],
         \A s \in Requests : s # r => req'[s] = req[s],
         req'[r].at \notin Executing
  PROVE  (DirectoryTrue /\ JobsInPlace /\ ExecutorsInPlace)'
<1>1. (DirectoryTrue /\ JobsInPlace)'
  BY DEF IInv, DirectoryTrue, JobsInPlace, BornFor
<1>2. ExecutorsInPlace'
  <2> SUFFICES ASSUME NEW s \in Requests, req'[s].at \in Executing
               PROVE ExecutorsInPlace!(s)!2'
    BY DEF ExecutorsInPlace
  <2>1. s # r /\ req'[s] = req[s]
    OBVIOUS
  <2> QED
    BY <2>1 DEF IInv, ExecutorsInPlace, BornFor
<1> QED
  BY <1>1, <1>2

\* A request that ends, or has its record replaced.
LEMMA RequestVars ==
  ASSUME Types, NEW r \in Requests,
         NEW new \in {Idle} \cup Askers \cup Executors \cup Verifiers \cup Binders,
         req' = [req EXCEPT ![r] = new]
  PROVE  /\ req'[r] = new /\ \A s \in Requests : s # r => req'[s] = req[s]
         /\ req' \in [Requests -> {Idle} \cup Askers \cup Executors \cup Verifiers \cup Binders]
BY DEF Types

\* One request at a time executes, and one binds.
LEMMA Alone ==
  ASSUME IInv, NEW r \in Requests, \A s \in Requests : s # r => req'[s] = req[s]
  PROVE  /\ req[r].at \in Executing \/ lock["execution"] = None =>
              \A s \in Requests : s # r => req'[s].at \notin Executing
         /\ req[r].at \in BindingSteps \/ lock["binding"] = None =>
              \A s \in Requests : s # r => req'[s].at \notin BindingSteps
<1>1. None \notin Requests
  BY IdentityAssumption
<1> QED
  BY <1>1 DEF IInv, ExecutorsInPlace, BindersInPlace

-----------------------------------------------------------------------------
(* The world.                                                              *)

LEMMA WorldStep ==
  ASSUME IInv, UNCHANGED <<accounts, exec, binds, bindings, bound, starts, req, lock, crashes>>,
         household' \in Households, provider' \in Qualified \cup {None},
         DOMAIN plans' \subseteq Plans, plans' \in [DOMAIN plans' -> Actors]
  PROVE  IInv'
<1>1. Types'
  BY DEF IInv, Types, accounts
<1>2. (DirectoryTrue /\ JobsInPlace /\ ExecutorsInPlace)'
  BY DEF IInv, DirectoryTrue, JobsInPlace, ExecutorsInPlace, BornFor, accounts
<1>3. (BindersInPlace /\ BindingsInPlace /\ AuditedBindings)'
  BY DEF IInv, BindersInPlace, BindingsInPlace, AuditedBindings, Proven, Binding
<1> QED
  BY <1>1, <1>2, <1>3 DEF IInv

LEMMA RegisterStep ==
  ASSUME IInv, NEW v \in Versions, Register(v)
  PROVE  IInv'
BY WorldStep DEF Register, store, IInv, Types

LEMMA PlanStep ==
  ASSUME IInv, NEW a \in Actors, NEW m \in Members, NEW u \in Accounts, Plan(a, m, u)
  PROVE  IInv'
<1> DEFINE p == Build(m, u)
<1>1. p \in Plans
  <2>1. household.version \in 0 .. MaxHousehold
    BY DEF IInv, Types, Households
  <2>2. provider \in Versions
    BY DEF IInv, Types, Plan, Qualified
  <2> QED
    BY <2>1, <2>2 DEF Build, Plans
<1>2. plans' = Put(plans, p, a)
  BY DEF Plan
<1>3. /\ DOMAIN plans' \subseteq Plans /\ plans' \in [DOMAIN plans' -> Actors]
  <2> HIDE DEF p
  <2>1. plans \in [DOMAIN plans -> Actors]
    BY DEF IInv, Types
  <2>2. DOMAIN plans' = DOMAIN plans \cup {p} /\ plans' \in [DOMAIN plans \cup {p} -> Actors]
    BY <1>2, <2>1 DEF Put
  <2> QED
    BY <1>1, <2>2 DEF IInv, Types
<1> QED
  BY <1>3, WorldStep DEF Plan, world, IInv, Types

LEMMA HouseholdStep ==
  ASSUME IInv, ChangeHousehold
  PROVE  IInv'
BY WorldStep DEF ChangeHousehold, store, IInv, Types

\* A new account gets a new identity.
LEMMA Appears ==
  ASSUME Types, DirectoryTrue, NEW u \in Accounts, Appear(u)
  PROVE  /\ directory' \in [Accounts -> 0 .. MaxIdentities]
         /\ \E n \in 0 .. MaxIdentities : DOMAIN born' = 1 .. n
         /\ born' \in [DOMAIN born' -> Accounts]
         /\ \A i, w : BornFor(i, w) => BornFor(i, w)'
         /\ DirectoryTrue'
<1>1. PICK n \in 0 .. MaxIdentities : DOMAIN born = 1 .. n
  BY DEF Types
<1>2. n \in Nat /\ MaxIdentities \in Nat
  BY IdentityAssumption
<1>3. Fresh = n + 1
  <2>1. Cardinality(1 .. n) = IF 1 > n THEN 0 ELSE n - 1 + 1
    BY <1>2, FS_Interval
  <2> QED
    BY <1>1, <1>2, <2>1 DEF Fresh
<1>4. n + 1 \in 0 .. MaxIdentities /\ 1 .. n + 1 = (1 .. n) \cup {n + 1} /\ n + 1 \notin 1 .. n
  BY <1>2, <1>3 DEF Appear
<1>5. /\ DOMAIN born' = 1 .. n + 1 /\ born' \in [DOMAIN born' -> Accounts]
      /\ born'[n + 1] = u /\ \A i \in 1 .. n : born'[i] = born[i]
  <2>1. born \in [1 .. n -> Accounts] /\ born' = Put(born, n + 1, u)
    BY <1>1, <1>3 DEF Appear, Types
  <2>2. /\ DOMAIN born' = (1 .. n) \cup {n + 1} /\ born' \in [(1 .. n) \cup {n + 1} -> Accounts]
        /\ born'[n + 1] = u /\ \A i \in 1 .. n : i # n + 1 => born'[i] = born[i]
    BY <2>1 DEF Put
  <2> QED
    BY <1>4, <2>2
<1>6. \A i, w : BornFor(i, w) => BornFor(i, w)'
  BY <1>1, <1>4, <1>5 DEF BornFor
<1>7. directory' \in [Accounts -> 0 .. MaxIdentities]
  BY <1>3, <1>4 DEF Appear, Types
<1>8. DirectoryTrue'
  BY <1>3, <1>4, <1>5, <1>6 DEF DirectoryTrue, Appear, Types, BornFor
<1> QED
  BY <1>4, <1>5, <1>6, <1>7, <1>8

\* Accounts come and go; identities stay.
LEMMA AccountStep ==
  ASSUME IInv, NEW u \in Accounts, LateEffect(u) \/ Delete(u)
  PROVE  IInv'
<1>1. UNCHANGED <<household, provider, plans, exec, binds, bindings, bound, starts, req, lock, crashes>>
  BY DEF LateEffect, Delete, world, store
<1>2. /\ directory' \in [Accounts -> 0 .. MaxIdentities] /\ late' \subseteq Accounts
      /\ \E n \in 0 .. MaxIdentities : DOMAIN born' = 1 .. n
      /\ born' \in [DOMAIN born' -> Accounts]
      /\ \A i, w : BornFor(i, w) => BornFor(i, w)'
      /\ DirectoryTrue'
  <2>1. CASE LateEffect(u)
    BY <2>1, Appears DEF LateEffect, IInv, Types
  <2>2. CASE Delete(u)
    <3>1. /\ directory' = [directory EXCEPT ![u] = 0] /\ UNCHANGED <<late, born>>
      BY <2>2 DEF Delete
    <3>2. 0 \in 0 .. MaxIdentities
      BY IdentityAssumption
    <3> QED
      BY <3>1, <3>2 DEF IInv, Types, DirectoryTrue, BornFor
  <2> QED
    BY <2>1, <2>2
<1>3. Types'
  BY <1>1, <1>2 DEF IInv, Types
<1>4. (JobsInPlace /\ ExecutorsInPlace)'
  BY <1>1, <1>2 DEF IInv, JobsInPlace, ExecutorsInPlace
<1>5. (BindersInPlace /\ BindingsInPlace /\ AuditedBindings)'
  BY <1>1 DEF IInv, BindersInPlace, BindingsInPlace, AuditedBindings, Proven, Binding
<1> QED
  BY <1>2, <1>3, <1>4, <1>5 DEF IInv

LEMMA CrashStep ==
  ASSUME IInv, Crash
  PROVE  IInv'
<1>1. /\ UNCHANGED <<household, plans, directory, late, born, exec, binds, bindings, bound, starts>>
      /\ \A r \in Requests : req'[r].at = "idle"
  BY DEF Crash, accounts, store, Idle
<1>2. Types'
  BY <1>1, IdentityAssumption DEF IInv, Types, Crash
<1>3. (DirectoryTrue /\ JobsInPlace /\ BindingsInPlace /\ AuditedBindings)'
  BY <1>1 DEF IInv, DirectoryTrue, JobsInPlace, BindingsInPlace, AuditedBindings, Proven, BornFor
<1>4. (ExecutorsInPlace /\ BindersInPlace)'
  BY <1>1 DEF ExecutorsInPlace, BindersInPlace, Executing, BindingSteps
<1> QED
  BY <1>2, <1>3, <1>4 DEF IInv

-----------------------------------------------------------------------------
(* Execution.                                                              *)

\* A request that asks has no part in what is stored.
LEMMA AskStep ==
  ASSUME IInv, NEW r \in Requests, NEW new \in {Idle} \cup Askers \cup Executors,
         new.at \in {"idle", "observe", "enter"},
         req' = [req EXCEPT ![r] = new],
         UNCHANGED <<world, accounts, store, starts, lock, crashes>>
  PROVE  IInv'
<1>1. /\ UNCHANGED <<household, provider, plans, directory, late, born, exec, binds, bindings, bound, starts, lock, crashes>>
  BY DEF world, accounts, store
<1>2. /\ req'[r] = new /\ \A s \in Requests : s # r => req'[s] = req[s]
      /\ req' \in [Requests -> {Idle} \cup Askers \cup Executors \cup Verifiers \cup Binders]
  BY RequestVars DEF IInv
<1>3. Types'
  BY <1>1, <1>2 DEF IInv, Types
<1>4. new.at \notin Executing /\ new.at \notin BindingSteps
  BY DEF Executing, BindingSteps
<1>5. (DirectoryTrue /\ JobsInPlace /\ ExecutorsInPlace)'
  BY <1>1, <1>2, <1>4, ExecutionFrame
<1>6. Settled
  BY <1>1 DEF Settled
<1>7. (BindersInPlace /\ BindingsInPlace /\ AuditedBindings)'
  BY <1>1, <1>2, <1>4, <1>6, BindingFrame
<1> QED
  BY <1>3, <1>5, <1>7 DEF IInv

LEMMA ExecuteStep ==
  ASSUME IInv, NEW r \in Requests, NEW a \in Actors, NEW p \in DOMAIN plans, NEW k \in Keys,
         Execute(r, a, p, k)
  PROVE  IInv'
<1> DEFINE new == [at |-> "observe", job |-> [actor |-> a, key |-> k], plan |-> p]
<1>1. new \in Askers /\ new.at = "observe"
  BY DEF IInv, Types, Askers, JobIds
<1>2. req' = [req EXCEPT ![r] = new] /\ UNCHANGED <<world, accounts, store, starts, lock, crashes>>
  BY DEF Execute
<1> HIDE DEF new
<1> QED
  BY <1>1, <1>2, AskStep

LEMMA ObserveStep ==
  ASSUME IInv, NEW r \in Requests, NEW e \in Evidence, Observe(r, e)
  PROVE  IInv'
<1> DEFINE new == [at |-> "enter", job |-> req[r].job, plan |-> req[r].plan, evidence |-> e]
<1>1. req[r].job \in JobIds /\ req[r].plan \in Plans
  BY Asked DEF IInv, Observe, At
<1>2. new \in Executors /\ new.at = "enter"
  BY <1>1 DEF Executors, Working
<1>3. req' = [req EXCEPT ![r] = new] /\ UNCHANGED <<world, accounts, store, starts, lock, crashes>>
  BY DEF Observe
<1> HIDE DEF new
<1> QED
  BY <1>2, <1>3, AskStep

LEMMA RefuseStep ==
  ASSUME IInv, NEW r \in Requests, Refuse(r)
  PROVE  IInv'
<1>1. Idle.at = "idle"
  BY DEF Idle
<1>2. req' = [req EXCEPT ![r] = Idle] /\ UNCHANGED <<world, accounts, store, starts, lock, crashes>>
  BY DEF Refuse, Done
<1> QED
  BY <1>1, <1>2, AskStep

\* A new job has started nothing.
LEMMA EnterStep ==
  ASSUME IInv, NEW r \in Requests, Enter(r)
  PROVE  IInv'
<1> DEFINE j == req[r].job
           new == [plan |-> req[r].plan, evidence |-> req[r].evidence, state |-> "preflight", identity |-> 0]
<1>1. /\ UNCHANGED <<household, provider, plans, directory, late, born, binds, bindings, bound, starts, crashes>>
      /\ lock["execution"] = None /\ lock' = [lock EXCEPT !["execution"] = r]
      /\ exec' = Put(exec, j, new) /\ j \notin DOMAIN exec
  BY DEF Enter, world, accounts, Take
<1>2. /\ req[r] \in Executors /\ req'[r].at = "run" /\ req'[r].job = j /\ req'[r].plan = req[r].plan
      /\ \A s \in Requests : s # r => req'[s] = req[s]
      /\ req' \in [Requests -> {Idle} \cup Askers \cup Executors \cup Verifiers \cup Binders]
  BY ExecutorMoves DEF IInv, Enter, At, Working
<1>3. j \in JobIds /\ new \in Executions /\ new.plan = req[r].plan /\ new.state = "preflight"
  BY <1>2, IdentityAssumption DEF Executors, Executions, States
<1> HIDE DEF j, new
<1>4. /\ DOMAIN exec' = DOMAIN exec \cup {j} /\ exec' \in [DOMAIN exec' -> Executions]
      /\ exec'[j] = new /\ \A i \in DOMAIN exec : exec'[i] = exec[i]
  BY <1>1, <1>3 DEF IInv, Types, Put
<1>5. Types'
  BY <1>1, <1>2, <1>3, <1>4 DEF IInv, Types
<1>6. DirectoryTrue' /\ JobsInPlace'
  BY <1>1, <1>3, <1>4 DEF IInv, DirectoryTrue, JobsInPlace, BornFor
<1>7. ExecutorsInPlace'
  <2>1. \A s \in Requests : s # r => req'[s].at \notin Executing
    BY <1>1, <1>2, Alone
  <2>2. lock'["execution"] = r /\ starts'[j] = 0
    BY <1>1, <1>3 DEF IInv, Types, JobsInPlace
  <2> QED
    BY <1>2, <1>3, <1>4, <2>1, <2>2 DEF ExecutorsInPlace
<1>8. Settled
  BY <1>4 DEF Settled
<1>9. (BindersInPlace /\ BindingsInPlace /\ AuditedBindings)'
  <2>1. lock'["binding"] = lock["binding"] /\ req'[r].at \notin BindingSteps
    BY <1>1, <1>2 DEF IInv, Types, BindingSteps
  <2> QED
    BY <1>1, <1>2, <1>8, <2>1, BindingFrame
<1> QED
  BY <1>5, <1>6, <1>7, <1>9 DEF IInv

\* The job of an executing request goes one state on, short of success.
LEMMA SaveStep ==
  ASSUME IInv, NEW r \in Requests, req[r].at \in Working \ {"enter", "audit"},
         NEW to \in States \ {"succeeded"}, exec' = [exec EXCEPT ![req[r].job].state = to],
         NEW next \in {"start", "readBack", "audit"}, Goto(r, next),
         next = "start" => req[r].at = "run", next = "readBack" => req[r].at = "accepted",
         UNCHANGED <<world, accounts, plans, binds, bindings, bound, starts, lock, crashes>>
  PROVE  IInv'
<1> DEFINE j == req[r].job
<1>1. /\ UNCHANGED <<household, provider, plans, directory, late, born, binds, bindings, bound, starts, lock, crashes>>
  BY DEF world, accounts
<1>2. /\ req'[r].at = next /\ req'[r].job = j /\ req'[r].plan = req[r].plan
      /\ \A s \in Requests : s # r => req'[s] = req[s]
      /\ req' \in [Requests -> {Idle} \cup Askers \cup Executors \cup Verifiers \cup Binders]
  BY ExecutorMoves DEF IInv, Working
<1>3. /\ lock["execution"] = r /\ j \in DOMAIN exec /\ exec[j].plan = req[r].plan
      /\ exec[j].state # "succeeded" /\ req[r].at \in Executing
      /\ req[r].at = "run" => starts[j] = 0
      /\ req[r].at = "accepted" => starts[j] = 1
  BY DEF IInv, ExecutorsInPlace, Working, Executing
<1> HIDE DEF j
<1>4. /\ DOMAIN exec' = DOMAIN exec /\ exec' \in [DOMAIN exec -> Executions]
      /\ exec'[j].state = to /\ exec'[j].plan = exec[j].plan
      /\ \A i \in DOMAIN exec : i # j => exec'[i] = exec[i]
  BY <1>3, JobMoves DEF IInv, Types, j
<1>5. Types'
  BY <1>1, <1>2, <1>4 DEF IInv, Types
<1>6. DirectoryTrue' /\ JobsInPlace'
  BY <1>1, <1>3, <1>4 DEF IInv, DirectoryTrue, JobsInPlace, BornFor
<1>7. ExecutorsInPlace'
  <2>1. \A s \in Requests : s # r => req'[s].at \notin Executing
    BY <1>2, <1>3, Alone
  <2> QED
    BY <1>1, <1>2, <1>3, <1>4, <2>1 DEF ExecutorsInPlace
<1>8. Settled
  BY <1>3, <1>4 DEF Settled
<1>9. (BindersInPlace /\ BindingsInPlace /\ AuditedBindings)'
  <2>1. req'[r].at \notin BindingSteps
    BY <1>2 DEF BindingSteps
  <2> QED
    BY <1>1, <1>2, <1>8, <2>1, BindingFrame
<1> QED
  BY <1>5, <1>6, <1>7, <1>9 DEF IInv

\* Starting counts once: the job has not started before.
LEMMA StartStep ==
  ASSUME IInv, NEW r \in Requests, Start(r)
  PROVE  IInv'
<1> DEFINE j == req[r].job
<1>1. /\ UNCHANGED <<household, provider, plans, exec, binds, bindings, bound, lock, crashes>>
      /\ starts' = [starts EXCEPT ![j] = @ + 1] /\ req[r].at = "start"
  BY DEF Start, world, store, At
<1>2. PICK next \in {"accepted", "refused"} : Goto(r, next)
  BY DEF Start
<1>3. /\ req[r] \in Executors /\ req'[r].at = next /\ req'[r].job = j /\ req'[r].plan = req[r].plan
      /\ \A s \in Requests : s # r => req'[s] = req[s]
      /\ req' \in [Requests -> {Idle} \cup Askers \cup Executors \cup Verifiers \cup Binders]
  BY <1>1, <1>2, ExecutorMoves DEF IInv, Working
<1>4. /\ lock["execution"] = r /\ j \in DOMAIN exec /\ exec[j].plan = req[r].plan
      /\ exec[j].state # "succeeded" /\ starts[j] = 0
  BY <1>1 DEF IInv, ExecutorsInPlace, Executing
<1>5. j \in JobIds /\ req[r].plan.account \in Accounts
  BY <1>3 DEF Executors, Plans
<1> HIDE DEF j
<1>6. /\ starts' \in [JobIds -> {0, 1}] /\ starts'[j] = 1
      /\ \A i \in JobIds : i # j => starts'[i] = starts[i]
  BY <1>1, <1>4, <1>5 DEF IInv, Types
<1>7. /\ directory' \in [Accounts -> 0 .. MaxIdentities] /\ late' \subseteq Accounts
      /\ \E n \in 0 .. MaxIdentities : DOMAIN born' = 1 .. n
      /\ born' \in [DOMAIN born' -> Accounts]
      /\ \A i, w : BornFor(i, w) => BornFor(i, w)'
      /\ DirectoryTrue'
  <2>1. CASE Appear(req[r].plan.account) /\ UNCHANGED late
    BY <1>5, <2>1, Appears DEF IInv, Types
  <2>2. CASE late' \subseteq Accounts /\ UNCHANGED <<directory, born>>
    BY <2>2 DEF IInv, Types, DirectoryTrue, BornFor
  <2>3. \/ Appear(req[r].plan.account) /\ UNCHANGED late
        \/ late' = late \cup {req[r].plan.account} /\ UNCHANGED <<directory, born>>
        \/ late' = late /\ UNCHANGED <<directory, born>>
    BY Zenon DEF Start, accounts
  <2>4. late \subseteq Accounts /\ late \cup {req[r].plan.account} \subseteq Accounts
    BY <1>5 DEF IInv, Types
  <2> QED
    BY <2>1, <2>2, <2>3, <2>4
<1>8. Types'
  BY <1>1, <1>3, <1>6, <1>7 DEF IInv, Types
<1>9. JobsInPlace'
  BY <1>1, <1>4, <1>6, <1>7 DEF IInv, JobsInPlace
<1>10. ExecutorsInPlace'
  <2>1. \A s \in Requests : s # r => req'[s].at \notin Executing
    BY <1>1, <1>3, Alone DEF Executing
  <2> QED
    BY <1>1, <1>3, <1>4, <1>6, <2>1 DEF ExecutorsInPlace
<1>11. (BindersInPlace /\ BindingsInPlace /\ AuditedBindings)'
  <2>1. Settled /\ req'[r].at \notin BindingSteps
    BY <1>1, <1>3 DEF Settled, BindingSteps
  <2> QED
    BY <1>1, <1>3, <2>1, BindingFrame
<1> QED
  BY <1>7, <1>8, <1>9, <1>10, <1>11 DEF IInv

\* What was read back of the account is an identity created for it.
LEMMA ReadBackStep ==
  ASSUME IInv, NEW r \in Requests, ReadBack(r)
  PROVE  IInv'
<1> DEFINE j == req[r].job
           new(i) == [at |-> "verified", job |-> req[r].job, plan |-> req[r].plan,
                      evidence |-> req[r].evidence, identity |-> i]
<1>1. /\ UNCHANGED <<world, accounts, plans, binds, bindings, bound, starts, lock, crashes>>
      /\ req[r].at = "readBack"
  BY DEF ReadBack, At
<1>2. CASE exec' = [exec EXCEPT ![j].state = "failed"] /\ Goto(r, "audit")
  <2>1. "failed" \in States \ {"succeeded"} /\ "audit" \in {"start", "readBack", "audit"}
    BY DEF States
  <2>2. req[r].at \in Working \ {"enter", "audit"}
    BY <1>1 DEF Working
  <2> QED
    BY <1>1, <1>2, <2>1, <2>2, SaveStep
<1>3. ASSUME NEW o \in Readbacks(req[r].plan.account), Verified(o),
             req' = [req EXCEPT ![r] = new(o.identity)], UNCHANGED exec
      PROVE  IInv'
  <2> DEFINE u == req[r].plan.account
  <2>1. /\ UNCHANGED <<household, provider, plans, directory, late, born, exec, binds, bindings, bound, starts, lock, crashes>>
    BY <1>1, <1>3 DEF world, accounts
  <2>2. req[r] \in Executors
    BY <1>1, Holds DEF IInv, Working
  <2>3. j \in JobIds /\ req[r].plan \in Plans /\ req[r].evidence \in Evidence /\ u \in Accounts
    BY <2>2 DEF Executors, Plans
  <2>4. o.identity = directory[u] /\ directory[u] # 0
    BY <1>3 DEF Readbacks, Verified
  <2>5. o.identity \in 1 .. MaxIdentities /\ BornFor(o.identity, u)
    BY <2>3, <2>4, IdentityAssumption DEF IInv, Types, DirectoryTrue
  <2>6. new(o.identity) \in Verifiers
    BY <2>3, <2>5 DEF Verifiers
  <2>7. /\ req'[r] = new(o.identity)
        /\ \A s \in Requests : s # r => req'[s] = req[s]
        /\ req' \in [Requests -> {Idle} \cup Askers \cup Executors \cup Verifiers \cup Binders]
    BY <1>3, <2>6, RequestVars DEF IInv
  <2>8. req'[r].at = "verified" /\ req'[r].job = j /\ req'[r].plan = req[r].plan /\ req'[r].identity = o.identity
    BY <2>7
  <2> HIDE DEF j, new
  <2>9. /\ lock["execution"] = r /\ j \in DOMAIN exec /\ exec[j].plan = req[r].plan
        /\ exec[j].state # "succeeded" /\ starts[j] = 1
    BY <1>1 DEF IInv, ExecutorsInPlace, Executing, j
  <2>10. Types'
    BY <2>1, <2>7 DEF IInv, Types
  <2>11. DirectoryTrue' /\ JobsInPlace'
    BY <2>1 DEF IInv, DirectoryTrue, JobsInPlace, BornFor
  <2>12. ExecutorsInPlace'
    <3>1. \A s \in Requests : s # r => req'[s].at \notin Executing
      BY <1>1, <2>7, Alone DEF Executing
    <3> QED
      BY <2>1, <2>5, <2>8, <2>9, <3>1 DEF ExecutorsInPlace, BornFor
  <2>13. (BindersInPlace /\ BindingsInPlace /\ AuditedBindings)'
    <3>1. Settled /\ req'[r].at \notin BindingSteps
      BY <2>1, <2>8 DEF Settled, BindingSteps
    <3> QED
      BY <2>1, <2>7, <3>1, BindingFrame
  <2> QED
    BY <2>10, <2>11, <2>12, <2>13 DEF IInv
<1> QED
  BY <1>1, <1>2, <1>3 DEF ReadBack

\* A job succeeds with the identity that was read back.
LEMMA SucceedStep ==
  ASSUME IInv, NEW r \in Requests, Succeed(r)
  PROVE  IInv'
<1> DEFINE j == req[r].job
<1>1. /\ UNCHANGED <<household, provider, plans, directory, late, born, binds, bindings, bound, starts, lock, crashes>>
      /\ req[r].at = "verified" /\ Goto(r, "audit")
  BY DEF Succeed, world, accounts, At
<1>2. /\ req[r] \in Verifiers /\ req'[r].at = "audit" /\ req'[r].job = j /\ req'[r].plan = req[r].plan
      /\ \A s \in Requests : s # r => req'[s] = req[s]
      /\ req' \in [Requests -> {Idle} \cup Askers \cup Executors \cup Verifiers \cup Binders]
  BY <1>1, VerifierMoves DEF IInv
<1>3. /\ lock["execution"] = r /\ j \in DOMAIN exec /\ exec[j].plan = req[r].plan
      /\ exec[j].state # "succeeded" /\ starts[j] = 1
      /\ BornFor(req[r].identity, req[r].plan.account)
  BY <1>1 DEF IInv, ExecutorsInPlace, Executing
<1>4. req[r].identity \in 0 .. MaxIdentities
  BY <1>2, IdentityAssumption DEF Verifiers
<1> DEFINE new == [[exec[j] EXCEPT !.state = "succeeded"] EXCEPT !.identity = req[r].identity]
<1>5. exec' = [exec EXCEPT ![j] = new]
  BY <1>3 DEF Succeed, IInv, Types
<1>6. exec[j] \in Executions
  BY <1>3 DEF IInv, Types
<1>7. /\ new \in Executions /\ new.state = "succeeded" /\ new.plan = exec[j].plan /\ new.identity = req[r].identity
  BY <1>4, <1>6 DEF Executions, States
<1> HIDE DEF j, new
<1>8. /\ DOMAIN exec' = DOMAIN exec /\ exec' \in [DOMAIN exec -> Executions] /\ exec'[j] = new
      /\ \A i \in DOMAIN exec : i # j => exec'[i] = exec[i]
  BY <1>3, <1>5, <1>7 DEF IInv, Types
<1>9. Types'
  BY <1>1, <1>2, <1>8 DEF IInv, Types
<1>10. DirectoryTrue' /\ JobsInPlace'
  BY <1>1, <1>3, <1>7, <1>8 DEF IInv, DirectoryTrue, JobsInPlace, BornFor
<1>11. ExecutorsInPlace'
  <2>1. \A s \in Requests : s # r => req'[s].at \notin Executing
    BY <1>1, <1>2, Alone DEF Executing
  <2> QED
    BY <1>1, <1>2, <1>3, <1>7, <1>8, <2>1 DEF ExecutorsInPlace
<1>12. (BindersInPlace /\ BindingsInPlace /\ AuditedBindings)'
  <2>1. Settled /\ req'[r].at \notin BindingSteps
    BY <1>2, <1>3, <1>8 DEF Settled, BindingSteps
  <2> QED
    BY <1>1, <1>2, <2>1, BindingFrame
<1> QED
  BY <1>9, <1>10, <1>11, <1>12 DEF IInv

LEMMA LeaveStep ==
  ASSUME IInv, NEW r \in Requests, Leave(r)
  PROVE  IInv'
<1>1. /\ UNCHANGED <<household, provider, plans, directory, late, born, exec, binds, bindings, bound, starts, crashes>>
      /\ lock' = [lock EXCEPT !["execution"] = None] /\ req[r].at = "audit" /\ req' = [req EXCEPT ![r] = Idle]
  BY DEF Leave, world, accounts, store, At, Release, Done
<1>2. /\ req'[r].at = "idle" /\ \A s \in Requests : s # r => req'[s] = req[s]
      /\ req' \in [Requests -> {Idle} \cup Askers \cup Executors \cup Verifiers \cup Binders]
  BY <1>1, RequestVars DEF IInv, Idle
<1>3. Types' /\ lock'["binding"] = lock["binding"]
  BY <1>1, <1>2 DEF IInv, Types
<1>4. (DirectoryTrue /\ JobsInPlace)'
  BY <1>1 DEF IInv, DirectoryTrue, JobsInPlace, BornFor
<1>5. ExecutorsInPlace'
  <2>1. \A s \in Requests : s # r => req'[s].at \notin Executing
    BY <1>1, <1>2, Alone DEF Executing
  <2> QED
    BY <1>2, <2>1 DEF ExecutorsInPlace, Executing
<1>6. (BindersInPlace /\ BindingsInPlace /\ AuditedBindings)'
  <2>1. Settled /\ req'[r].at \notin BindingSteps
    BY <1>1, <1>2 DEF Settled, BindingSteps
  <2> QED
    BY <1>1, <1>2, <1>3, <2>1, BindingFrame
<1> QED
  BY <1>3, <1>4, <1>5, <1>6 DEF IInv

LEMMA ExecutionSteps ==
  ASSUME IInv, NEW r \in Requests, ExecutionStep(r)
  PROVE  IInv'
<1>1. CASE \E e \in Evidence : Observe(r, e)
  BY <1>1, ObserveStep
<1>2. CASE Enter(r)
  BY <1>2, EnterStep
<1>3. CASE Refuse(r)
  BY <1>3, RefuseStep
<1>4. CASE Run(r)
  <2>1. req[r].at \in Working \ {"enter", "audit"}
    BY <1>4 DEF Run, At, Working
  <2>2. {"running", "verifying", "failed"} \subseteq States \ {"succeeded"}
    BY DEF States
  <2>3. req[r].at = "run"
    BY <1>4 DEF Run, At
  <2>4. CASE Save(r, "preflight", "running", "start")
    BY <2>1, <2>2, <2>3, <2>4, SaveStep DEF Save
  <2>5. CASE Save(r, "preflight", "failed", "audit")
    BY <2>1, <2>2, <2>5, SaveStep DEF Save
  <2> QED
    BY <1>4, <2>4, <2>5 DEF Run
<1>5. CASE Start(r)
  BY <1>5, StartStep
<1>6. CASE Failed(r)
  <2>1. req[r].at \in Working \ {"enter", "audit"}
    BY <1>6 DEF Failed, At, Working
  <2>2. {"running", "verifying", "failed"} \subseteq States \ {"succeeded"}
    BY DEF States
  <2> QED
    BY <1>6, <2>1, <2>2, SaveStep DEF Failed, Save
<1>7. CASE Accepted(r)
  <2>1. req[r].at \in Working \ {"enter", "audit"}
    BY <1>7 DEF Accepted, At, Working
  <2>2. {"running", "verifying", "failed"} \subseteq States \ {"succeeded"}
    BY DEF States
  <2>3. req[r].at = "accepted"
    BY <1>7 DEF Accepted, At
  <2> QED
    BY <1>7, <2>1, <2>2, <2>3, SaveStep DEF Accepted, Save
<1>8. CASE ReadBack(r)
  BY <1>8, ReadBackStep
<1>9. CASE Succeed(r)
  BY <1>9, SucceedStep
<1>10. CASE Leave(r)
  BY <1>10, LeaveStep
<1> QED
  BY <1>1, <1>2, <1>3, <1>4, <1>5, <1>6, <1>7, <1>8, <1>9, <1>10 DEF ExecutionStep

-----------------------------------------------------------------------------
(* Binding.                                                                *)

\* A binding begins on a proven execution, in a Household that authorizes it.
LEMMA BindStep ==
  ASSUME IInv, NEW r \in Requests, NEW a \in Actors, NEW p \in DOMAIN plans,
         NEW j \in DOMAIN exec, NEW k \in Keys, Bind(r, a, p, j, k)
  PROVE  IInv'
<1> DEFINE b == [actor |-> a, key |-> k]
           new == [at |-> "advance", job |-> b, plan |-> p, household |-> household,
                   identity |-> exec[j].identity]
           job == [execution |-> j, state |-> "preflight"]
<1>1. /\ UNCHANGED <<household, provider, plans, directory, late, born, exec, bindings, bound, starts, crashes>>
      /\ lock["binding"] = None /\ lock' = [lock EXCEPT !["binding"] = r]
      /\ req' = [req EXCEPT ![r] = new] /\ req[r].at = "idle"
      /\ Administers(a, p.member) /\ household.version = p.household
      /\ exec[j].state = "succeeded" /\ exec[j].plan = p
      /\ b \in DOMAIN binds => binds[b].execution = j /\ binds[b].state \in Active
      /\ binds' = IF b \in DOMAIN binds THEN binds ELSE Put(binds, b, job)
  BY DEF Bind, world, accounts, Take, Authorized, Receipt, At
<1>2. b \in JobIds /\ b.actor = a /\ p \in Plans /\ household \in Households /\ exec[j].identity \in 0 .. MaxIdentities
  BY DEF JobIds, IInv, Types, Executions
<1>3. new \in Binders
  BY <1>2 DEF Binders, BindingSteps
<1>4. /\ new.at = "advance" /\ new.job = b /\ new.plan = p /\ new.household = household
      /\ new.identity = exec[j].identity
  OBVIOUS
<1>5. job \in Transitions /\ job.execution = j /\ job.state \in Active
  BY DEF IInv, Types, Transitions, States, Active
<1>6. /\ req'[r] = new /\ \A s \in Requests : s # r => req'[s] = req[s]
      /\ req' \in [Requests -> {Idle} \cup Askers \cup Executors \cup Verifiers \cup Binders]
  BY <1>1, <1>3, RequestVars DEF IInv
<1> HIDE DEF b, new, job
<1>7. /\ DOMAIN binds' = DOMAIN binds \cup {b} /\ binds' \in [DOMAIN binds' -> Transitions]
      /\ binds'[b].execution = j /\ binds'[b].state \in Active
      /\ \A i \in DOMAIN binds : binds'[i] = binds[i]
  <2>1. CASE b \in DOMAIN binds
    BY <1>1, <2>1 DEF IInv, Types
  <2>2. CASE b \notin DOMAIN binds
    <3>1. binds' = [y \in DOMAIN binds \cup {b} |-> IF y = b THEN job ELSE binds[y]]
      BY <1>1, <2>2 DEF Put
    <3> QED
      BY <1>5, <2>2, <3>1 DEF IInv, Types
  <2> QED
    BY <2>1, <2>2
<1>8. Types' /\ lock'["execution"] = lock["execution"] /\ lock'["binding"] = r
  BY <1>1, <1>2, <1>6, <1>7 DEF IInv, Types
<1>9. (DirectoryTrue /\ JobsInPlace /\ ExecutorsInPlace)'
  BY <1>1, <1>4, <1>6, <1>8, ExecutionFrame DEF Executing
<1>10. BindersInPlace'
  <2>1. \A s \in Requests : s # r => req'[s].at \notin BindingSteps
    BY <1>1, <1>6, Alone
  <2>2. Proven(p, exec[j].identity, j)'
    BY <1>1 DEF Proven
  <2>3. a \in household.parents /\ p.member \in household.enabled
    BY <1>1 DEF Administers
  <2> QED
    BY <1>1, <1>2, <1>4, <1>6, <1>7, <1>8, <2>1, <2>2, <2>3 DEF BindersInPlace
<1>11. BindingsInPlace'
  BY <1>1, <1>7 DEF IInv, BindingsInPlace, Proven
<1>12. AuditedBindings'
  BY <1>1, <1>7, <1>2 DEF IInv, AuditedBindings, Active
<1> QED
  BY <1>8, <1>9, <1>10, <1>11, <1>12 DEF IInv

\* What a request that binds knows.
LEMMA Bound ==
  ASSUME IInv, NEW r \in Requests, req[r].at \in BindingSteps
  PROVE  /\ req[r].job \in DOMAIN binds /\ req[r].job \in JobIds /\ req[r].plan \in Plans
         /\ Binding(r) \in Bindings /\ Binding(r) # None
         /\ Binding(r).plan = req[r].plan /\ Binding(r).job = req[r].job
         /\ Binding(r).identity = req[r].identity
         /\ lock["binding"] = r
<1>1. req[r] \in Binders /\ req[r].job \in JobIds /\ req[r].plan \in Plans
  BY Holds DEF IInv, Binders
<1>2. /\ req[r].job \in DOMAIN binds /\ lock["binding"] = r
      /\ Proven(req[r].plan, req[r].identity, binds[req[r].job].execution)
  BY DEF IInv, BindersInPlace
<1>3. req[r].identity \in DOMAIN born
  <2>1. binds[req[r].job].execution \in JobIds
    BY <1>2 DEF IInv, Types, Proven
  <2> QED
    BY <1>2, <2>1 DEF IInv, JobsInPlace, Proven, BornFor
<1>4. req[r].identity \in 1 .. MaxIdentities
  BY <1>3, IdentityAssumption DEF IInv, Types
<1>5. Binding(r) \in Bindings
  BY <1>1, <1>4 DEF Binding, Bindings
<1> QED
  BY <1>1, <1>2, <1>5, NoBindingAssumption DEF Binding

\* The job of a binding goes one state on, or the request turns to the write.
LEMMA AdvanceStep ==
  ASSUME IInv, NEW r \in Requests, AdvanceBinding(r)
  PROVE  IInv'
<1> DEFINE b == req[r].job
<1>1. /\ UNCHANGED <<household, provider, plans, directory, late, born, exec, bindings, bound, starts, lock, crashes>>
      /\ req[r].at = "advance" /\ req[r].at \in BindingSteps
  BY DEF AdvanceBinding, world, accounts, At, BindingSteps
<1>2. b \in DOMAIN binds /\ b \in JobIds
  BY <1>1, Bound
<1>3. CASE binds[b].state = "verifying" /\ Goto(r, "persist") /\ UNCHANGED binds
  <2>1. /\ req'[r].at = "persist" /\ req'[r].job = req[r].job /\ req'[r].plan = req[r].plan
        /\ req'[r].household = req[r].household /\ req'[r].identity = req[r].identity
        /\ \A s \in Requests : s # r => req'[s] = req[s]
        /\ req' \in [Requests -> {Idle} \cup Askers \cup Executors \cup Verifiers \cup Binders]
    BY <1>1, <1>3, BinderMoves DEF IInv, BindingSteps
  <2>2. Types'
    BY <1>1, <1>3, <2>1 DEF IInv, Types
  <2>3. (DirectoryTrue /\ JobsInPlace /\ ExecutorsInPlace)'
    BY <1>1, <2>1, ExecutionFrame DEF Executing
  <2>4. BindersInPlace'
    <3>1. \A s \in Requests : s # r => req'[s].at \notin BindingSteps
      BY <1>1, <2>1, Alone
    <3> QED
      BY <1>1, <1>3, <2>1, <3>1 DEF IInv, BindersInPlace, Proven
  <2>5. BindingsInPlace' /\ AuditedBindings'
    BY <1>1, <1>3 DEF IInv, BindingsInPlace, AuditedBindings, Proven
  <2> QED
    BY <2>2, <2>3, <2>4, <2>5 DEF IInv
<1>4. ASSUME NEW to \in {"running", "verifying"}, binds' = [binds EXCEPT ![b].state = to], UNCHANGED req
      PROVE  IInv'
  <2>1. to \in States /\ to \in Active
    BY DEF States, Active
  <2>2. /\ DOMAIN binds' = DOMAIN binds /\ binds' \in [DOMAIN binds -> Transitions]
        /\ binds'[b].state = to /\ binds'[b].execution = binds[b].execution
        /\ \A i \in DOMAIN binds : i # b => binds'[i] = binds[i]
    BY <1>2, <1>4, <2>1, TransitionMoves DEF IInv, Types
  <2> HIDE DEF b
  <2>3. Types'
    BY <1>1, <1>4, <2>2 DEF IInv, Types
  <2>4. (DirectoryTrue /\ JobsInPlace /\ ExecutorsInPlace)'
    BY <1>1, <1>4 DEF IInv, DirectoryTrue, JobsInPlace, ExecutorsInPlace, BornFor
  <2>5. BindersInPlace'
    <3>1. \A s \in Requests : s # r => req'[s].at \notin BindingSteps
      BY <1>1, <1>4, Alone
    <3> QED
      BY <1>1, <1>2, <1>4, <2>1, <2>2, <3>1 DEF IInv, BindersInPlace, Proven, b
  <2>6. BindingsInPlace'
    BY <1>1, <2>2 DEF IInv, BindingsInPlace, Proven
  <2>7. AuditedBindings'
    BY <1>1, <1>4, <2>2 DEF IInv, AuditedBindings
  <2> QED
    BY <2>3, <2>4, <2>5, <2>6, <2>7 DEF IInv
<1> QED
  BY <1>3, <1>4 DEF AdvanceBinding, SaveBinding

\* The write: the Household is the one that was read, and no binding is replaced.
LEMMA PersistStep ==
  ASSUME IInv, NEW r \in Requests, Persist(r)
  PROVE  IInv' /\ Stands
<1> DEFINE m == req[r].plan.member
<1>1. /\ UNCHANGED <<household, provider, plans, directory, late, born, exec, binds, bound, starts, lock, crashes>>
      /\ req[r].at = "persist" /\ req[r].at \in BindingSteps
  BY DEF Persist, world, accounts, At, BindingSteps
<1>2. PICK next \in {"bound", "bindFailed"} : Goto(r, next)
  BY DEF Persist
<1>3. /\ req'[r].at = next /\ req'[r].job = req[r].job /\ req'[r].plan = req[r].plan
      /\ req'[r].household = req[r].household /\ req'[r].identity = req[r].identity
      /\ \A s \in Requests : s # r => req'[s] = req[s]
      /\ req' \in [Requests -> {Idle} \cup Askers \cup Executors \cup Verifiers \cup Binders]
  BY <1>1, <1>2, BinderMoves DEF IInv, BindingSteps
<1>4. /\ req[r].job \in DOMAIN binds /\ Binding(r) \in Bindings /\ Binding(r) # None
      /\ Binding(r).plan = req[r].plan /\ Binding(r).job = req[r].job
      /\ Binding(r).identity = req[r].identity /\ req[r].plan \in Plans
  BY <1>1, Bound
<1>5. Binding(r)' = Binding(r)
  BY <1>3 DEF Binding
<1>6. m \in Members
  BY <1>4 DEF Plans
<1> HIDE DEF m
<1>7. /\ bindings' \in [Members -> Bindings \cup {None}]
      /\ \A w \in Members : bindings'[w] # bindings[w] =>
           w = m /\ bindings[w] = None /\ bindings'[w] = Binding(r) /\ household = req[r].household
      /\ next = "bound" => bindings'[m] = Binding(r)
  <2>1. CASE Committable(r) /\ bindings' = [bindings EXCEPT ![m] = Binding(r)]
    BY <1>4, <1>6, <2>1 DEF Committable, IInv, Types, m
  <2>2. CASE Goto(r, "bindFailed") /\ UNCHANGED bindings
    <3>1. req'[r].at = "bindFailed"
      BY <1>1, <2>2, BinderMoves DEF IInv, BindingSteps
    <3> QED
      BY <1>3, <2>2, <3>1 DEF IInv, Types
  <2> QED
    BY <2>1, <2>2 DEF Persist, m
<1>8. /\ Proven(req[r].plan, req[r].identity, binds[req[r].job].execution)
      /\ req[r].household.version = req[r].plan.household
      /\ req[r].job.actor \in req[r].household.parents /\ req[r].plan.member \in req[r].household.enabled
  BY <1>1 DEF IInv, BindersInPlace
<1>9. Types'
  BY <1>1, <1>3, <1>7 DEF IInv, Types
<1>10. (DirectoryTrue /\ JobsInPlace /\ ExecutorsInPlace)'
  BY <1>1, <1>3, ExecutionFrame DEF Executing
<1>11. BindersInPlace'
  <2>1. \A s \in Requests : s # r => req'[s].at \notin BindingSteps
    BY <1>1, <1>3, Alone
  <2> QED
    BY <1>1, <1>3, <1>5, <1>7, <2>1 DEF IInv, BindersInPlace, Proven, m
<1>12. BindingsInPlace'
  <2> SUFFICES ASSUME NEW w \in Members, bindings'[w] # None PROVE BindingsInPlace!(w)!2'
    BY DEF BindingsInPlace
  <2>1. CASE bindings'[w] = bindings[w]
    BY <1>1, <2>1 DEF IInv, BindingsInPlace, Proven
  <2>2. CASE bindings'[w] # bindings[w]
    BY <1>1, <1>4, <1>7, <1>8, <2>2 DEF Proven, m
  <2> QED
    BY <2>1, <2>2
<1>13. AuditedBindings'
  BY <1>1, <1>7 DEF IInv, AuditedBindings
<1>14. Stands
  BY <1>4, <1>7, <1>8 DEF Stands, Administers, m
<1> QED
  BY <1>9, <1>10, <1>11, <1>12, <1>13, <1>14 DEF IInv

LEMMA AuditStep ==
  ASSUME IInv, NEW r \in Requests, AuditBound(r)
  PROVE  IInv'
<1> DEFINE b == req[r].job
<1>1. /\ UNCHANGED <<household, provider, plans, directory, late, born, exec, binds, bindings, starts, lock, crashes>>
      /\ req[r].at = "bound" /\ req[r].at \in BindingSteps /\ Goto(r, "succeed")
      /\ bindings[req[r].plan.member] = Binding(r)
      /\ bound' = [bound EXCEPT ![b] = IF bound[b] = 0 THEN 1 ELSE bound[b]]
  BY DEF AuditBound, world, accounts, At, BindingSteps
<1>2. /\ req'[r].at = "succeed" /\ req'[r].job = req[r].job /\ req'[r].plan = req[r].plan
      /\ req'[r].household = req[r].household /\ req'[r].identity = req[r].identity
      /\ \A s \in Requests : s # r => req'[s] = req[s]
      /\ req' \in [Requests -> {Idle} \cup Askers \cup Executors \cup Verifiers \cup Binders]
  BY <1>1, BinderMoves DEF IInv, BindingSteps
<1>3. /\ b \in DOMAIN binds /\ b \in JobIds /\ Binding(r) # None /\ Binding(r).job = b
      /\ req[r].plan.member \in Members /\ Binding(r)' = Binding(r)
  BY <1>1, <1>2, Bound DEF Plans, Binding
<1>4. /\ bound' \in [JobIds -> {0, 1}] /\ bound'[b] = 1
      /\ \A i \in JobIds : i # b => bound'[i] = bound[i]
  BY <1>1, <1>3 DEF IInv, Types
<1>5. Types'
  BY <1>1, <1>2, <1>4 DEF IInv, Types
<1>6. (DirectoryTrue /\ JobsInPlace /\ ExecutorsInPlace)'
  BY <1>1, <1>2, ExecutionFrame DEF Executing
<1>7. BindersInPlace'
  <2>1. \A s \in Requests : s # r => req'[s].at \notin BindingSteps
    BY <1>1, <1>2, Alone
  <2> QED
    BY <1>1, <1>2, <1>3, <1>4, <2>1 DEF IInv, BindersInPlace, Proven
<1>8. BindingsInPlace'
  BY <1>1 DEF IInv, BindingsInPlace, Proven
<1>9. AuditedBindings'
  <2> SUFFICES ASSUME NEW i \in JobIds PROVE AuditedBindings!(i)'
    BY DEF AuditedBindings
  <2>1. CASE i = b
    BY <1>1, <1>3, <1>4, <2>1
  <2>2. CASE i # b
    BY <1>1, <1>4, <2>2 DEF IInv, AuditedBindings
  <2> QED
    BY <2>1, <2>2
<1> QED
  BY <1>5, <1>6, <1>7, <1>8, <1>9 DEF IInv

\* A binding job ends, as failed or, when it is audited, as succeeded.
LEMMA EndStep ==
  ASSUME IInv, NEW r \in Requests, BindingFails(r) \/ BindingSucceeds(r)
  PROVE  IInv'
<1> DEFINE b == req[r].job
<1>1. /\ UNCHANGED <<household, provider, plans, directory, late, born, exec, bindings, bound, starts, crashes>>
      /\ req[r].at \in BindingSteps /\ req' = [req EXCEPT ![r] = Idle]
      /\ lock' = [lock EXCEPT !["binding"] = None]
  BY DEF BindingFails, BindingSucceeds, world, accounts, At, BindingSteps, Release, Done
<1>2. PICK to \in {"failed", "succeeded"} :
        binds' = [binds EXCEPT ![b].state = to] /\ (to = "succeeded" => req[r].at = "succeed")
  BY DEF BindingFails, BindingSucceeds, SaveBinding, At
<1>3. /\ b \in DOMAIN binds /\ b \in JobIds /\ (to = "succeeded" => bound[b] = 1)
  BY <1>1, <1>2, Bound DEF IInv, BindersInPlace
<1>4. to \in States
  BY DEF States
<1>5. /\ DOMAIN binds' = DOMAIN binds /\ binds' \in [DOMAIN binds -> Transitions]
      /\ binds'[b].state = to /\ binds'[b].execution = binds[b].execution
      /\ \A i \in DOMAIN binds : i # b => binds'[i] = binds[i]
  BY <1>2, <1>3, <1>4, TransitionMoves DEF IInv, Types
<1> HIDE DEF b
<1>6. /\ req'[r].at = "idle" /\ \A s \in Requests : s # r => req'[s] = req[s]
      /\ req' \in [Requests -> {Idle} \cup Askers \cup Executors \cup Verifiers \cup Binders]
  BY <1>1, RequestVars DEF IInv, Idle
<1>7. Types' /\ lock'["execution"] = lock["execution"]
  BY <1>1, <1>5, <1>6 DEF IInv, Types
<1>8. (DirectoryTrue /\ JobsInPlace /\ ExecutorsInPlace)'
  BY <1>1, <1>6, <1>7, ExecutionFrame DEF Executing
<1>9. BindersInPlace'
  <2>1. \A s \in Requests : s # r => req'[s].at \notin BindingSteps
    BY <1>1, <1>6, Alone
  <2> QED
    BY <1>6, <2>1 DEF BindersInPlace, BindingSteps
<1>10. BindingsInPlace'
  BY <1>1, <1>5 DEF IInv, BindingsInPlace, Proven
<1>11. AuditedBindings'
  BY <1>1, <1>3, <1>5 DEF IInv, AuditedBindings
<1> QED
  BY <1>7, <1>8, <1>9, <1>10, <1>11 DEF IInv

-----------------------------------------------------------------------------
(* The theorems.                                                           *)

LEMMA StepKeeps ==
  ASSUME IInv, [Next]_vars
  PROVE  IInv' /\ Stands
<1>1. CASE \E v \in Versions : Register(v)
  BY <1>1, RegisterStep DEF Register, store, Stands
<1>2. CASE \E a \in Actors, m \in Members, u \in Accounts : Plan(a, m, u)
  BY <1>2, PlanStep DEF Plan, Stands
<1>3. ASSUME NEW r \in Requests, NEW a \in Actors, NEW p \in DOMAIN plans, NEW k \in Keys, Execute(r, a, p, k)
      PROVE  IInv' /\ Stands
  BY <1>3, ExecuteStep DEF Execute, store, Stands
<1>4. ASSUME NEW r \in Requests, NEW a \in Actors, NEW p \in DOMAIN plans, NEW k \in Keys,
             NEW j \in DOMAIN exec, Bind(r, a, p, j, k)
      PROVE  IInv' /\ Stands
  <2>1. UNCHANGED bindings
    BY <1>4 DEF Bind
  <2> QED
    BY <1>4, <2>1, BindStep DEF Stands
<1>5. ASSUME NEW r \in Requests, ExecutionStep(r)
      PROVE  IInv' /\ Stands
  <2>1. UNCHANGED bindings
    BY <1>5 DEF ExecutionStep, Observe, Enter, Refuse, Run, Start, Failed, Accepted, ReadBack, Succeed,
                Leave, Save, store
  <2> QED
    BY <1>5, <2>1, ExecutionSteps DEF Stands
<1>6. ASSUME NEW r \in Requests, BindingStep(r)
      PROVE  IInv' /\ Stands
  <2>1. CASE AdvanceBinding(r)
    BY <2>1, AdvanceStep DEF AdvanceBinding, Stands
  <2>2. CASE Persist(r)
    BY <2>2, PersistStep
  <2>3. CASE BindingFails(r) \/ BindingSucceeds(r)
    BY <2>3, EndStep DEF BindingFails, BindingSucceeds, Stands
  <2>4. CASE AuditBound(r)
    BY <2>4, AuditStep DEF AuditBound, Stands
  <2> QED
    BY <1>6, <2>1, <2>2, <2>3, <2>4 DEF BindingStep
<1>7. CASE ChangeHousehold
  BY <1>7, HouseholdStep DEF ChangeHousehold, store, Stands
<1>8. CASE Crash
  BY <1>8, CrashStep DEF Crash, store, Stands
<1>9. CASE \E u \in Accounts : LateEffect(u) \/ Delete(u)
  BY <1>9, AccountStep DEF LateEffect, Delete, store, Stands
<1>10. CASE UNCHANGED vars
  <2>1. UNCHANGED <<accounts, exec, binds, bindings, bound, starts, req, lock, crashes, household, provider, plans>>
    BY <1>10 DEF vars, world, accounts, store
  <2> QED
    BY <2>1, WorldStep DEF IInv, Types, Stands
<1> QED
  BY <1>1, <1>2, <1>3, <1>4, <1>5, <1>6, <1>7, <1>8, <1>9, <1>10 DEF Next

LEMMA InitHolds ==
  ASSUME Init
  PROVE  IInv
<1>1. Types
  <2>1. DOMAIN born = 1 .. 0 /\ 0 \in 0 .. MaxIdentities /\ 0 \in 0 .. MaxCrashes
    BY IdentityAssumption DEF Init
  <2>2. /\ DOMAIN plans = {} /\ DOMAIN exec = {} /\ DOMAIN binds = {} /\ DOMAIN born = {}
        /\ plans \in [DOMAIN plans -> Actors] /\ exec \in [DOMAIN exec -> Executions]
        /\ binds \in [DOMAIN binds -> Transitions] /\ born \in [DOMAIN born -> Accounts]
    BY DEF Init
  <2>3. directory \in [Accounts -> 0 .. MaxIdentities]
    BY <2>1 DEF Init
  <2> QED
    BY <2>1, <2>2, <2>3 DEF Init, Types
<1>2. DirectoryTrue /\ JobsInPlace /\ ExecutorsInPlace
  BY DEF Init, DirectoryTrue, JobsInPlace, ExecutorsInPlace, Idle, Executing
<1>3. BindersInPlace /\ BindingsInPlace /\ AuditedBindings
  BY DEF Init, BindersInPlace, BindingsInPlace, AuditedBindings, Idle, BindingSteps
<1> QED
  BY <1>1, <1>2, <1>3 DEF IInv

LEMMA Invariant == Spec => []IInv
<1>1. Init => IInv
  BY InitHolds
<1>2. IInv /\ [Next]_vars => IInv'
  BY StepKeeps
<1> QED
  BY <1>1, <1>2, PTL DEF Spec

\* Every variable of the model keeps its type (role_identity_*.py).
THEOREM TypeCorrect == Spec => []TypeOK
<1>1. IInv => TypeOK
  <2> SUFFICES ASSUME IInv PROVE TypeOK
    OBVIOUS
  <2>1. DOMAIN born \subseteq 1 .. MaxIdentities
    BY IdentityAssumption DEF IInv, Types
  <2>2. bound \in [JobIds -> 0 .. 2] /\ starts \in [JobIds -> 0 .. 2]
    BY DEF IInv, Types
  <2>3. ASSUME NEW r \in Requests
        PROVE  req[r].at \in Steps /\ (req[r].at # "idle" => req[r].job \in JobIds /\ req[r].plan \in Plans)
    <3>1. req[r] = Idle \/ req[r] \in Askers \/ req[r] \in Executors \/ req[r] \in Verifiers \/ req[r] \in Binders
      BY DEF IInv, Types
    <3>2. CASE req[r] = Idle
      BY <3>2 DEF Idle, Steps
    <3>3. CASE req[r] \in Askers
      BY <3>3 DEF Askers, Steps
    <3>4. CASE req[r] \in Executors
      BY <3>4 DEF Executors, Working, Steps
    <3>5. CASE req[r] \in Verifiers
      BY <3>5 DEF Verifiers, Steps
    <3>6. CASE req[r] \in Binders
      BY <3>6 DEF Binders, BindingSteps, Steps
    <3> QED
      BY <3>1, <3>2, <3>3, <3>4, <3>5, <3>6
  <2> QED
    BY <2>1, <2>2, <2>3 DEF IInv, Types, TypeOK
<1> QED
  BY <1>1, Invariant, PTL

\* A start whose outcome may have been lost is not repeated.
THEOREM StartedTheorem == Spec => []StartedAtMostOnce
<1>1. IInv => StartedAtMostOnce
  <2>1. IInv => \A j \in JobIds : starts[j] = 0 \/ starts[j] = 1
    BY DEF IInv, Types
  <2> QED
    BY <2>1 DEF StartedAtMostOnce
<1> QED
  BY <1>1, Invariant, PTL

\* A member is bound to an account that a job started, verified and named for
\* the very plan of the binding.
THEOREM VerifiedTheorem == Spec => []BoundToVerifiedAccount
<1>1. IInv => BoundToVerifiedAccount
  <2> SUFFICES ASSUME IInv, NEW m \in Members, bindings[m] # None PROVE BoundToVerifiedAccount!(m)!2
    BY DEF BoundToVerifiedAccount
  <2> DEFINE j == binds[bindings[m].job].execution
  <2>1. /\ bindings[m].plan.member = m
        /\ Proven(bindings[m].plan, bindings[m].identity, j)
    BY DEF IInv, BindingsInPlace
  <2>2. j \in JobIds
    BY <2>1 DEF IInv, Types, Proven
  <2>3. starts[j] = 1 /\ BornFor(exec[j].identity, exec[j].plan.account)
    BY <2>1, <2>2 DEF IInv, JobsInPlace, Proven
  <2> QED
    BY <2>1, <2>3 DEF Proven, BornFor
<1> QED
  BY <1>1, Invariant, PTL

\* A binding job that succeeded is in force and audited once; no event speaks
\* of a binding that is not there.
THEOREM AuditedTheorem == Spec => []AuditedBindings
<1>1. IInv => AuditedBindings
  BY DEF IInv
<1> QED
  BY <1>1, Invariant, PTL

\* A binding appears in the Household its plan was built for, by a parent who
\* administers it, and is never replaced.
THEOREM StandsTheorem == Spec => BindingsStand
<1>1. IInv /\ [Next]_vars => [Stands]_vars
  BY StepKeeps
<1> QED
  BY <1>1, Invariant, PTL DEF Spec, BindingsStand
=============================================================================
