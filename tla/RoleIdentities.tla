--------------------------- MODULE RoleIdentities ---------------------------
(***************************************************************************)
(* Provider accounts for Household members: a parent plans an account, an  *)
(* execution job has a qualified provider create it and reads it back, and *)
(* a binding job ties the verified account to the member.                  *)
(*                                                                         *)
(* The execution service and the binding service have a lock each; the     *)
(* Household moves on under neither.  A plan is content addressed, so it   *)
(* is its own identifier, and it carries the Household version and the     *)
(* provider version it was built on.  The process may die at any point.    *)
(***************************************************************************)
EXTENDS Integers, FiniteSets

CONSTANTS
  Actors, Members, Accounts,
  Versions,      \* provider versions
  Blockers,      \* the qualification checks that each version failed
  Evidence,      \* evidence digests of preflight observations
  Keys,          \* idempotency keys
  Requests,      \* requests in progress
  None,
  MaxHousehold,  \* bound on the Household version
  MaxIdentities, \* bound on the accounts ever created
  MaxCrashes     \* bound on the restarts

ASSUME IdentityAssumption ==
  /\ DOMAIN Blockers = Versions
  /\ MaxHousehold \in Nat /\ MaxIdentities \in Nat /\ MaxCrashes \in Nat
  /\ None \notin Versions \cup Actors \cup Requests

VARIABLES
  household,  \* its version, its administering parents and enabled members
  provider,   \* the version registered in this process, or None
  plans,      \* stored plans, each with the actor it belongs to
  directory,  \* the provider's accounts: their identity, 0 when absent
  late,       \* accounts an unanswered start may still create
  born,       \* the account name of each identity ever created
  exec,       \* execution jobs
  binds,      \* binding jobs
  bindings,   \* the binding in force for each member
  bound,      \* how many "bound" events the audit chain has for a job
  starts,     \* how often the provider was started for a job
  req,        \* what each request works on
  lock,       \* the request inside each service
  crashes

world == <<household, provider>>
accounts == <<directory, late, born>>
store == <<plans, exec, binds, bindings, bound>>
vars == <<world, accounts, store, starts, req, lock, crashes>>

-----------------------------------------------------------------------------

\* A provider version is qualified when its evidence shows every check passed.
Qualified == {v \in Versions : Blockers[v] = {}}

Plans == [member : Members, account : Accounts,
          household : 0 .. MaxHousehold, provider : Versions]

\* A job is found by its initiator and the caller's key.
JobIds == [actor : Actors, key : Keys]

States == {"preflight", "running", "verifying", "succeeded", "failed"}
Active == {"preflight", "running", "verifying"}

Executions == [plan : Plans, evidence : Evidence, state : States,
               identity : 0 .. MaxIdentities]

\* The request hash of a binding job names the execution job and its receipt.
Transitions == [execution : JobIds, state : States]

\* A binding names the job that wrote it.
Bindings == [plan : Plans, identity : 1 .. MaxIdentities, job : JobIds]

ASSUME NoBindingAssumption == None \notin Bindings

Steps == {"idle", "observe", "enter", "run", "start", "accepted", "readBack",
          "verified", "refused", "audit",
          "advance", "persist", "bound", "bindFailed", "succeed"}

Idle == [at |-> "idle"]

Households == [version : 0 .. MaxHousehold, parents : SUBSET Actors, enabled : SUBSET Members]

TypeOK ==
  /\ household \in Households
  /\ provider \in Qualified \cup {None}
  /\ DOMAIN plans \subseteq Plans /\ plans \in [DOMAIN plans -> Actors]
  /\ directory \in [Accounts -> 0 .. MaxIdentities]
  /\ late \subseteq Accounts
  /\ DOMAIN born \subseteq 1 .. MaxIdentities /\ born \in [DOMAIN born -> Accounts]
  /\ DOMAIN exec \subseteq JobIds /\ exec \in [DOMAIN exec -> Executions]
  /\ DOMAIN binds \subseteq JobIds /\ binds \in [DOMAIN binds -> Transitions]
  /\ bindings \in [Members -> Bindings \cup {None}]
  /\ bound \in [JobIds -> 0 .. 2] /\ starts \in [JobIds -> 0 .. 2]
  /\ \A r \in Requests :
       /\ req[r].at \in Steps
       /\ req[r].at # "idle" => req[r].job \in JobIds /\ req[r].plan \in Plans
  /\ lock \in [{"execution", "binding"} -> Requests \cup {None}]
  /\ crashes \in 0 .. MaxCrashes

Init ==
  /\ household \in {h \in Households : h.version = 0}
  /\ provider = None
  /\ plans = [p \in {} |-> None] /\ exec = [j \in {} |-> None] /\ binds = [j \in {} |-> None]
  /\ directory = [u \in Accounts |-> 0] /\ late = {} /\ born = [i \in {} |-> None]
  /\ bindings = [m \in Members |-> None]
  /\ bound = [j \in JobIds |-> 0] /\ starts = [j \in JobIds |-> 0]
  /\ req = [r \in Requests |-> Idle]
  /\ lock = [s \in {"execution", "binding"} |-> None]
  /\ crashes = 0

Put(f, x, v) == [y \in DOMAIN f \cup {x} |-> IF y = x THEN v ELSE f[y]]

At(r, step) == req[r].at = step
Goto(r, step) == req' = [req EXCEPT ![r].at = step]
Done(r) == req' = [req EXCEPT ![r] = Idle]
Take(s, r) == lock[s] = None /\ lock' = [lock EXCEPT ![s] = r]
Release(s) == lock' = [lock EXCEPT ![s] = None]

-----------------------------------------------------------------------------
(* Provider registration and planning.                                     *)

\* Only a provider whose qualification decision is bound to this very version
\* gets an adapter, once per process.
Register(v) ==
  /\ provider = None
  /\ v \in Qualified
  /\ provider' = v
  /\ UNCHANGED <<household, accounts, store, starts, req, lock, crashes>>

Administers(actor, member) == actor \in household.parents /\ member \in household.enabled

\* A plan for the Household and the provider as they are now.
Build(member, account) ==
  [member |-> member, account |-> account, household |-> household.version, provider |-> provider]

\* A plan is stored once; the same plan of another actor is a conflict.
Plan(actor, member, account) ==
  LET p == Build(member, account) IN
  /\ provider # None
  /\ Administers(actor, member)
  /\ p \notin DOMAIN plans
  /\ plans' = Put(plans, p, actor)
  /\ UNCHANGED <<world, accounts, exec, binds, bindings, bound, starts, req, lock, crashes>>

OwnPlan(actor, p) == p \in DOMAIN plans /\ plans[p] = actor

\* The plan built again now is the same plan.
Revalidates(actor, p) ==
  /\ provider # None
  /\ Administers(actor, p.member)
  /\ Build(p.member, p.account) = p

-----------------------------------------------------------------------------
(* Execution.                                                              *)

Execute(r, actor, p, k) ==
  /\ At(r, "idle")
  /\ OwnPlan(actor, p) /\ Revalidates(actor, p)
  /\ req' = [req EXCEPT ![r] = [at |-> "observe", job |-> [actor |-> actor, key |-> k], plan |-> p]]
  /\ UNCHANGED <<world, accounts, store, starts, lock, crashes>>

\* What the provider can report of the account u: the truth, or nothing useful.
Reports(u) == {IF directory[u] = 0 THEN "absent" ELSE "exists", "conflict", "unknown"}

Ready(state) == state = "absent"

\* The preflight adapter is asked before the lock is taken; only a fresh
\* observation that the account is absent is ready.
Observe(r, e) ==
  /\ At(r, "observe")
  /\ \E state \in Reports(req[r].plan.account) : Ready(state)
  /\ req' = [req EXCEPT ![r] = [at |-> "enter", job |-> @.job, plan |-> @.plan, evidence |-> e]]
  /\ UNCHANGED <<world, accounts, store, starts, lock, crashes>>

\* Mutant: an unfinished job of the same request is taken over.
EnterOrResume(r) ==
  LET j == req[r].job IN
  /\ At(r, "enter")
  /\ Take("execution", r)
  /\ j \in DOMAIN exec => exec[j].state \in Active /\ exec[j].plan = req[r].plan
  /\ exec' = Put(exec, j, [plan |-> req[r].plan, evidence |-> req[r].evidence,
                           state |-> "preflight", identity |-> 0])
  /\ Goto(r, "run")
  /\ UNCHANGED <<world, accounts, plans, binds, bindings, bound, starts, crashes>>

\* A new job.  A key that has a job is answered: with the receipt when the same
\* request succeeded, with a refusal in every other case.
Enter(r) ==
  LET j == req[r].job IN
  /\ At(r, "enter")
  /\ Take("execution", r)
  /\ j \notin DOMAIN exec
  /\ exec' = Put(exec, j, [plan |-> req[r].plan, evidence |-> req[r].evidence,
                           state |-> "preflight", identity |-> 0])
  /\ Goto(r, "run")
  /\ UNCHANGED <<world, accounts, plans, binds, bindings, bound, starts, crashes>>

\* A refused request changes nothing: an account that is not absent, an
\* expired observation, a plan gone stale, a key that has a job.
Refuse(r) ==
  /\ req[r].at \in {"observe", "enter"}
  /\ At(r, "enter") => lock["execution"] = None
  /\ Done(r)
  /\ UNCHANGED <<world, accounts, store, starts, lock, crashes>>

Save(r, from, to, next) ==
  /\ exec[req[r].job].state = from
  /\ exec' = [exec EXCEPT ![req[r].job].state = to]
  /\ Goto(r, next)
  /\ UNCHANGED <<world, accounts, plans, binds, bindings, bound, starts, lock, crashes>>

\* The request for the provider is built; secret references it does not
\* support are refused.
Run(r) ==
  /\ At(r, "run")
  /\ Save(r, "preflight", "running", "start") \/ Save(r, "preflight", "failed", "audit")

Fresh == Cardinality(DOMAIN born) + 1

\* The account u comes into being, unless it is there.
Appear(u) ==
  /\ Fresh <= MaxIdentities
  /\ directory[u] = 0
  /\ directory' = [directory EXCEPT ![u] = Fresh]
  /\ born' = Put(born, Fresh, u)

\* The provider is started: it creates the account now, later or never, and
\* accepts, times out or raises.
Start(r) ==
  LET u == req[r].plan.account IN
  /\ At(r, "start")
  /\ starts' = [starts EXCEPT ![req[r].job] = @ + 1]
  /\ \/ Appear(u) /\ UNCHANGED late
     \/ late' = late \cup {u} /\ UNCHANGED <<directory, born>>
     \/ UNCHANGED accounts
  /\ \E next \in {"accepted", "refused"} : Goto(r, next)
  /\ UNCHANGED <<world, store, lock, crashes>>

Failed(r) == At(r, "refused") /\ Save(r, "running", "failed", "audit")

Accepted(r) == At(r, "accepted") /\ Save(r, "running", "verifying", "readBack")

\* What a read-back may show of the account u: the account as it is, or not
\* known, and its home and profile in any condition.
Readbacks(u) ==
  [account : {IF directory[u] = 0 THEN "absent" ELSE "present", "conflict", "unknown"},
   identity : {directory[u]},
   home : {"ready", "missing", "unknown"},
   profile : {"ready", "missing", "unknown"}]

\* Verified only for an account that is present, with its identity, and whose
\* home and profile are there.
Verified(o) ==
  /\ o.account = "present" /\ o.identity # 0
  /\ o.home = "ready" /\ o.profile = "ready"

\* The provider is read back; the receipt names the identity it reported.
ReadBack(r) ==
  LET j == req[r].job IN
  /\ At(r, "readBack")
  /\ \/ /\ exec' = [exec EXCEPT ![j].state = "failed"]
        /\ Goto(r, "audit")
     \/ \E o \in Readbacks(req[r].plan.account) :
          /\ Verified(o)
          /\ req' = [req EXCEPT ![r] = [at |-> "verified", job |-> @.job, plan |-> @.plan,
                                        evidence |-> @.evidence, identity |-> o.identity]]
          /\ UNCHANGED exec
  /\ UNCHANGED <<world, accounts, plans, binds, bindings, bound, starts, lock, crashes>>

Succeed(r) ==
  LET j == req[r].job IN
  /\ At(r, "verified")
  /\ exec[j].state = "verifying"
  /\ exec' = [exec EXCEPT ![j].state = "succeeded", ![j].identity = req[r].identity]
  /\ Goto(r, "audit")
  /\ UNCHANGED <<world, accounts, plans, binds, bindings, bound, starts, lock, crashes>>

\* The outcome is audited and the lock is released.
Leave(r) ==
  /\ At(r, "audit")
  /\ Release("execution")
  /\ Done(r)
  /\ UNCHANGED <<world, accounts, store, starts, crashes>>

-----------------------------------------------------------------------------
(* Binding.                                                                *)

\* Mutant: the plan of the receipt is not compared.
ReceiptOfAnyPlan(actor, p, j) ==
  /\ j \in DOMAIN exec /\ exec[j].state = "succeeded" /\ j.actor = actor

\* The receipt presented is that of a succeeded job of the same actor for this
\* very plan.
Receipt(actor, p, j) ==
  /\ j \in DOMAIN exec /\ exec[j].state = "succeeded" /\ j.actor = actor
  /\ exec[j].plan = p

\* The Household the plan was built for is still the current one.
Authorized(actor, p) == Administers(actor, p.member) /\ household.version = p.household

\* transition, up to the job: a new one, or an unfinished one of the same
\* request; a finished one is answered or refused.  The Household read here is
\* the one Persist compares with.
Bind(r, actor, p, j, k) ==
  LET b == [actor |-> actor, key |-> k] IN
  /\ At(r, "idle")
  /\ OwnPlan(actor, p)
  /\ Take("binding", r)
  /\ Authorized(actor, p) /\ Receipt(actor, p, j)
  /\ b \in DOMAIN binds => binds[b].execution = j /\ binds[b].state \in Active
  /\ binds' = IF b \in DOMAIN binds THEN binds
              ELSE Put(binds, b, [execution |-> j, state |-> "preflight"])
  /\ req' = [req EXCEPT ![r] = [at |-> "advance", job |-> b, plan |-> p,
                                household |-> household, identity |-> exec[j].identity]]
  /\ UNCHANGED <<world, accounts, plans, exec, bindings, bound, starts, crashes>>

SaveBinding(r, from, to) ==
  /\ binds[req[r].job].state = from
  /\ binds' = [binds EXCEPT ![req[r].job].state = to]

\* A job is brought to verifying from wherever a crash left it.
AdvanceBinding(r) ==
  /\ At(r, "advance")
  /\ \/ SaveBinding(r, "preflight", "running") /\ UNCHANGED req
     \/ SaveBinding(r, "running", "verifying") /\ UNCHANGED req
     \/ binds[req[r].job].state = "verifying" /\ Goto(r, "persist") /\ UNCHANGED binds
  /\ UNCHANGED <<world, accounts, plans, exec, bindings, bound, starts, lock, crashes>>

Binding(r) == [plan |-> req[r].plan, identity |-> req[r].identity, job |-> req[r].job]

\* Mutant: the Household is not compared inside the transaction.
CommittableUnguarded(r) == bindings[req[r].plan.member] \in {None, Binding(r)}

\* The Household is the one that was read, and the member has no other binding.
Committable(r) ==
  /\ household = req[r].household
  /\ bindings[req[r].plan.member] \in {None, Binding(r)}

Persist(r) ==
  /\ At(r, "persist")
  /\ IF Committable(r)
     THEN /\ bindings' = [bindings EXCEPT ![req[r].plan.member] = Binding(r)]
          /\ Goto(r, "bound")
     ELSE /\ Goto(r, "bindFailed")
          /\ UNCHANGED bindings
  /\ UNCHANGED <<world, accounts, plans, exec, binds, bound, starts, lock, crashes>>

BindingFails(r) ==
  /\ At(r, "bindFailed")
  /\ SaveBinding(r, "verifying", "failed")
  /\ Release("binding") /\ Done(r)
  /\ UNCHANGED <<world, accounts, plans, exec, bindings, bound, starts, crashes>>

\* Mutant: the event is written whenever the job gets here.
AuditAgain(r) ==
  LET b == req[r].job IN
  /\ At(r, "bound")
  /\ bindings[req[r].plan.member] = Binding(r)
  /\ bound' = [bound EXCEPT ![b] = @ + 1]
  /\ Goto(r, "succeed")
  /\ UNCHANGED <<world, accounts, plans, exec, binds, bindings, starts, lock, crashes>>

\* The binding is read back, and audited unless the chain has its event.
AuditBound(r) ==
  LET b == req[r].job IN
  /\ At(r, "bound")
  /\ bindings[req[r].plan.member] = Binding(r)
  /\ bound' = [bound EXCEPT ![b] = IF @ = 0 THEN 1 ELSE @]
  /\ Goto(r, "succeed")
  /\ UNCHANGED <<world, accounts, plans, exec, binds, bindings, starts, lock, crashes>>

BindingSucceeds(r) ==
  /\ At(r, "succeed")
  /\ SaveBinding(r, "verifying", "succeeded")
  /\ Release("binding") /\ Done(r)
  /\ UNCHANGED <<world, accounts, plans, exec, bindings, bound, starts, crashes>>

-----------------------------------------------------------------------------
(* The world.                                                              *)

\* A Household change of any kind is a new version.
ChangeHousehold ==
  /\ household.version < MaxHousehold
  /\ household' \in {h \in Households : h.version = household.version + 1}
  /\ UNCHANGED <<provider, accounts, store, starts, req, lock, crashes>>

\* A start that was never answered takes effect.
LateEffect(u) ==
  /\ u \in late
  /\ late' = late \ {u}
  /\ Appear(u)
  /\ UNCHANGED <<world, store, starts, req, lock, crashes>>

\* An account is deleted at the provider.
Delete(u) ==
  /\ directory[u] # 0
  /\ directory' = [directory EXCEPT ![u] = 0]
  /\ UNCHANGED <<world, late, born, store, starts, req, lock, crashes>>

\* The process dies and starts again: the requests, the locks and the
\* registrations are lost.
Crash ==
  /\ crashes < MaxCrashes
  /\ crashes' = crashes + 1
  /\ provider' = None
  /\ req' = [r \in Requests |-> Idle]
  /\ lock' = [s \in {"execution", "binding"} |-> None]
  /\ UNCHANGED <<household, accounts, store, starts>>

-----------------------------------------------------------------------------

ExecutionStep(r) ==
  \/ \E e \in Evidence : Observe(r, e)
  \/ Enter(r) \/ Refuse(r) \/ Run(r) \/ Start(r) \/ Failed(r) \/ Accepted(r)
  \/ ReadBack(r) \/ Succeed(r) \/ Leave(r)

BindingStep(r) ==
  AdvanceBinding(r) \/ Persist(r) \/ BindingFails(r) \/ AuditBound(r) \/ BindingSucceeds(r)

Next ==
  \/ \E v \in Versions : Register(v)
  \/ \E a \in Actors, m \in Members, u \in Accounts : Plan(a, m, u)
  \/ \E r \in Requests :
       \/ \E a \in Actors, p \in DOMAIN plans, k \in Keys :
            \/ Execute(r, a, p, k)
            \/ \E j \in DOMAIN exec : Bind(r, a, p, j, k)
       \/ ExecutionStep(r) \/ BindingStep(r)
  \/ ChangeHousehold \/ Crash
  \/ \E u \in Accounts : LateEffect(u) \/ Delete(u)

Spec == Init /\ [][Next]_vars

-----------------------------------------------------------------------------
(* Properties.                                                             *)

\* A start whose outcome may have been lost is not repeated: however requests
\* race and wherever the process dies, a job starts the provider at most once.
StartedAtMostOnce == \A j \in JobIds : starts[j] <= 1

\* A member is bound to an account that exists or existed under the planned
\* name, that a job of the binding's own actor verified for that very plan, and
\* that this job asked the provider for.
BoundToVerifiedAccount ==
  \A m \in Members : bindings[m] # None =>
    LET b == bindings[m]
        j == binds[b.job].execution
    IN /\ b.plan.member = m
       /\ exec[j].plan = b.plan /\ exec[j].identity = b.identity /\ starts[j] = 1
       /\ b.identity \in DOMAIN born /\ born[b.identity] = b.plan.account

\* What a step that writes a binding finds.
Stands ==
  \A m \in Members : bindings'[m] # bindings[m] =>
    /\ bindings[m] = None
    /\ bindings'[m].plan.household = household.version
    /\ Administers(bindings'[m].job.actor, m)

\* A binding appears while the Household is the one its plan was built for, its
\* writer administers it and the member is enabled; and it is never replaced.
BindingsStand == [][Stands]_vars

\* A binding job that succeeded has its binding in force and exactly one audit
\* event; no event speaks of a binding that is not there.
AuditedBindings ==
  \A b \in JobIds :
    /\ bound[b] <= 1
    /\ b \in DOMAIN binds /\ binds[b].state = "succeeded" => bound[b] = 1
    /\ bound[b] = 1 => \E m \in Members : bindings[m] # None /\ bindings[m].job = b
=============================================================================
