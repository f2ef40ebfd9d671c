-------------------------- MODULE HouseholdPolicy --------------------------
(***************************************************************************)
(* The policy of one member: what the parents want (desired state, in      *)
(* two lanes: the Household policy, and the parental internet rules that   *)
(* rest on it), and how it is brought to one policy backend.               *)
(*                                                                         *)
(* Each service serializes its own calls under its own lock; there is no   *)
(* lock between services, and the store is atomic one write at a time.  A  *)
(* call in progress is lost in a crash, the store is not.  A plan is       *)
(* identified by the digest of its content, so the content is the plan.    *)
(* A job's "running" stands for preflight and running, which every caller  *)
(* resumes alike.  The parent who plans is the one who confirms.           *)
(***************************************************************************)
EXTENDS PolicyRules, FiniteSets

CONSTANTS
  Role,          \* the role of the member the policies are about
  Bundles,       \* policies a parent may ask for, the illegal ones too
  RuleSets,      \* parental rules a parent may ask for
  Nothing,       \* what is not stored, and a service without a call
  MaxGeneration, \* bounds on the generations of the two desired states
  MaxHousehold   \* bound on the changes of the Household

Lanes == {"policy", "parental"}

\* The change plans of the policy lane, and the desired states they ask for.
PolicyPlans ==
  [household : Nat, base : {Nothing}, observed : Nat, current : Policies, content : Policies]

DesiredPolicies ==
  [generation : Nat, plan : PolicyPlans, content : Policies, verified : BOOLEAN]

ASSUME RoleAssumption == Role \in Roles

ASSUME BoundsAssumption == MaxGeneration \in [Lanes -> Nat] /\ MaxHousehold \in Nat

\* Nothing is told from everything that is stored.
ASSUME NothingAssumption == Nothing \notin Policies \cup DesiredPolicies

VARIABLES
  household,  \* number of changes the Household has seen
  desired,    \* the desired state of each lane
  plans,      \* change plans by lane: planned or committed
  jobs,       \* the job of each change plan
  commit,     \* the confirmation a lane's service has in progress
  verified,   \* the verified projection of the policy
  eplans,     \* enforcement plans, by the desired state they bind
  ejobs,      \* their jobs
  enforce,    \* the execution in progress
  invoked,    \* times the backend was asked to apply a plan
  backend,    \* the policy in force at the backend
  late,       \* policies the backend may still put in force
  wasInForce  \* every policy that has been in force

desiredVars == <<household, desired, plans, jobs, commit>>
enforceVars == <<eplans, ejobs, enforce, invoked>>
backendVars == <<backend, late, wasInForce>>
policyVars == <<desiredVars, verified, enforceVars, backendVars>>

-----------------------------------------------------------------------------
(* Desired state: plan and confirm.                                        *)

Generation(d) == IF d = Nothing THEN 0 ELSE d.generation

\* A member without a desired policy has the preset of the role.
Current(lane, d) ==
  IF d # Nothing THEN d.content ELSE IF lane = "policy" THEN Preset[Role] ELSE Nothing

\* The projection is usable as a base only while the desired state it was made
\* from is still the stored one, verification flag included.
CurrentBase == verified # Nothing /\ desired["policy"] = verified.desired

BaseFits(policy) ==
  /\ Role = "child"
  /\ policy.internet # "full" /\ policy.managed
  /\ policy.granted \cap {"vpn", "smartHome", "administration"} = {}

Composable == Composed(Role, Bundles)

\* What a plan proposes is legal for the member.
Legal(lane, content) ==
  IF lane = "policy" THEN content \in Composable
  ELSE /\ CurrentBase /\ BaseFits(verified.desired.content)
       /\ WellFormedRules(verified.desired.content, content)

\* The plan the service makes of a request now.
PlanOf(lane, content) ==
  [household |-> household,
   base      |-> IF lane = "parental" THEN verified ELSE Nothing,
   observed  |-> Generation(desired[lane]),
   current   |-> Current(lane, desired[lane]),
   content   |-> content]

\* The desired state a plan asks for.
Wanted(p) ==
  [generation |-> p.observed + 1, plan |-> p, content |-> p.content, verified |-> FALSE]

Contents(lane) == IF lane = "policy" THEN Bundles ELSE RuleSets

Put(f, x, v) == [y \in DOMAIN f \cup {x} |-> IF y = x THEN v ELSE f[y]]

Job(js, p) == IF p \in DOMAIN js THEN js[p] ELSE Nothing

\* plan: the envelope is written whether one exists or not.
PlanChange(lane, content) ==
  LET p == PlanOf(lane, content) IN
  /\ commit[lane] = Nothing
  /\ Legal(lane, content)
  /\ p.observed < MaxGeneration[lane]
  /\ plans' = [plans EXCEPT ![lane] = Put(@, p, "planned")]
  /\ UNCHANGED <<household, desired, jobs, commit, verified, enforceVars, backendVars>>

\* Mutant: the plan is taken as it is.
FreshUnchecked(lane, p) == TRUE

\* The plan was made of what is stored now.
Fresh(lane, p) ==
  /\ Generation(desired[lane]) = p.observed
  /\ Current(lane, desired[lane]) = p.current

\* An interrupted confirmation had already written what it wanted.
Interrupted(lane, p) ==
  /\ desired[lane] = Wanted(p)
  /\ Job(jobs[lane], p) \in {"running", "verifying", "succeeded"}

BaseHolds(lane, p) == lane = "parental" => CurrentBase /\ p.base = verified

\* confirm, up to the job: one that exists is taken up where it stands.
Confirm(lane, p) ==
  LET job == IF Job(jobs[lane], p) = Nothing THEN "running" ELSE jobs[lane][p] IN
  /\ commit[lane] = Nothing
  /\ p \in DOMAIN plans[lane] /\ plans[lane][p] = "planned"
  /\ p.household = household
  /\ BaseHolds(lane, p)
  /\ Interrupted(lane, p) \/ Fresh(lane, p)
  /\ jobs' = [jobs EXCEPT ![lane] = Put(@, p, job)]
  /\ commit' = [commit EXCEPT ![lane] =
       [plan |-> p, read |-> desired[lane], at |-> IF job = "running" THEN "write" ELSE "finish"]]
  /\ UNCHANGED <<household, desired, plans, verified, enforceVars, backendVars>>

\* The desired state is overwritten unless it was already right when read.
Write(lane) ==
  LET c == commit[lane] IN
  /\ c # Nothing /\ c.at = "write"
  /\ desired' = [desired EXCEPT ![lane] = IF c.read = Wanted(c.plan) THEN @ ELSE Wanted(c.plan)]
  /\ commit' = [commit EXCEPT ![lane].at = "verify"]
  /\ UNCHANGED <<household, plans, jobs, verified, enforceVars, backendVars>>

Verify(lane) ==
  LET c == commit[lane] IN
  /\ c # Nothing /\ c.at = "verify"
  /\ jobs' = [jobs EXCEPT ![lane][c.plan] = "verifying"]
  /\ commit' = [commit EXCEPT ![lane].at = "finish"]
  /\ UNCHANGED <<household, desired, plans, verified, enforceVars, backendVars>>

\* The desired state is read back; a job that has failed stays failed.
Finish(lane) ==
  LET c == commit[lane]  job == jobs[lane][c.plan]  good == desired[lane] = Wanted(c.plan) IN
  /\ c # Nothing /\ c.at = "finish"
  /\ jobs' = [jobs EXCEPT ![lane][c.plan] =
       IF job # "verifying" THEN @ ELSE IF good THEN "succeeded" ELSE "failed"]
  /\ commit' = [commit EXCEPT ![lane] =
       IF good /\ job # "failed" THEN [c EXCEPT !.at = "close"] ELSE Nothing]
  /\ UNCHANGED <<household, desired, plans, verified, enforceVars, backendVars>>

Close(lane) ==
  LET c == commit[lane] IN
  /\ c # Nothing /\ c.at = "close"
  /\ plans' = [plans EXCEPT ![lane][c.plan] = "committed"]
  /\ commit' = [commit EXCEPT ![lane] = Nothing]
  /\ UNCHANGED <<household, desired, jobs, verified, enforceVars, backendVars>>

\* A member or a binding is added to the Household.
ChangeHousehold ==
  /\ household < MaxHousehold
  /\ household' = household + 1
  /\ UNCHANGED <<desired, plans, jobs, commit, verified, enforceVars, backendVars>>

-----------------------------------------------------------------------------
(* Enforcement: plan, confirm, execute.                                    *)

\* Only a desired state that waits for enforcement can be enforced.
Enforceable(d) == d # Nothing /\ ~d.verified /\ d = desired["policy"]

EStatus(d) == IF d \in DOMAIN eplans THEN eplans[d] ELSE Nothing

\* An existing plan is returned as it is.
PlanEnforcement(d) ==
  /\ enforce = Nothing
  /\ Enforceable(d) /\ EStatus(d) = Nothing
  /\ eplans' = Put(eplans, d, "planned")
  /\ UNCHANGED <<desiredVars, verified, ejobs, enforce, invoked, backendVars>>

ConfirmEnforcement(d) ==
  /\ enforce = Nothing
  /\ EStatus(d) = "planned" /\ Enforceable(d)
  /\ eplans' = [eplans EXCEPT ![d] = "confirmed"]
  /\ UNCHANGED <<desiredVars, verified, ejobs, enforce, invoked, backendVars>>

\* Mutant: an execution that was interrupted is taken up again.
ExecuteAgain(d) ==
  /\ enforce = Nothing
  /\ EStatus(d) \in {"confirmed", "invoking"}
  /\ Enforceable(d)
  /\ ejobs' = Put(ejobs, d, "running")
  /\ enforce' = [plan |-> d, at |-> "mark", answer |-> Nothing]
  /\ UNCHANGED <<desiredVars, verified, eplans, invoked, backendVars>>

\* A confirmed plan, and a job of its own, never one that exists: an execution
\* that was interrupted is not taken up again.
Execute(d) ==
  /\ enforce = Nothing
  /\ EStatus(d) = "confirmed"
  /\ Enforceable(d) /\ d \notin DOMAIN ejobs
  /\ ejobs' = Put(ejobs, d, "running")
  /\ enforce' = [plan |-> d, at |-> "mark", answer |-> Nothing]
  /\ UNCHANGED <<desiredVars, verified, eplans, invoked, backendVars>>

Mark ==
  /\ enforce # Nothing /\ enforce.at = "mark"
  /\ eplans' = [eplans EXCEPT ![enforce.plan] = "invoking"]
  /\ enforce' = [enforce EXCEPT !.at = "apply"]
  /\ UNCHANGED <<desiredVars, verified, ejobs, invoked, backendVars>>

\* The backend is asked once.  It takes the policy now, later or never, and
\* whether it answers has nothing to do with that; only a rejection is final.
Apply(answer) ==
  LET p == enforce.plan.content IN
  /\ enforce # Nothing /\ enforce.at = "apply"
  /\ invoked' = Put(invoked, enforce.plan,
       IF enforce.plan \in DOMAIN invoked THEN invoked[enforce.plan] + 1 ELSE 1)
  /\ enforce' = [enforce EXCEPT !.at = "store", !.answer = answer]
  /\ \/ backend' = p /\ wasInForce' = wasInForce \cup {p} /\ answer # "rejected" /\ UNCHANGED late
     \/ late' = late \cup {p} /\ answer # "rejected" /\ UNCHANGED <<backend, wasInForce>>
     \/ UNCHANGED backendVars
  /\ UNCHANGED <<desiredVars, verified, eplans, ejobs>>

Answers == {"accepted", "rejected", "ambiguous"}

Outcome == [accepted |-> "completed", rejected |-> "failed", ambiguous |-> "in-doubt"]

Store ==
  /\ enforce # Nothing /\ enforce.at = "store"
  /\ eplans' = [eplans EXCEPT ![enforce.plan] = Outcome[enforce.answer]]
  /\ enforce' = [enforce EXCEPT !.at = "job"]
  /\ UNCHANGED <<desiredVars, verified, ejobs, invoked, backendVars>>

EndExecution ==
  /\ enforce # Nothing /\ enforce.at = "job"
  /\ ejobs' = [ejobs EXCEPT ![enforce.plan] =
       IF enforce.answer = "accepted" THEN "succeeded" ELSE "failed"]
  /\ enforce' = Nothing
  /\ UNCHANGED <<desiredVars, verified, eplans, invoked, backendVars>>

-----------------------------------------------------------------------------
(* The backend.                                                            *)

TakeEffect(p) ==
  /\ p \in late
  /\ backend' = p /\ late' = late \ {p}
  /\ wasInForce' = wasInForce \cup {p}
  /\ UNCHANGED <<desiredVars, verified, enforceVars>>

\* Someone resets the backend.
Reset ==
  /\ backend # Nothing
  /\ backend' = Nothing
  /\ UNCHANGED <<late, wasInForce, desiredVars, verified, enforceVars>>

-----------------------------------------------------------------------------

PolicyInit ==
  /\ household = 0
  /\ desired = [l \in Lanes |-> Nothing]
  /\ plans = [l \in Lanes |-> [p \in {} |-> "planned"]]
  /\ jobs = [l \in Lanes |-> [p \in {} |-> "running"]]
  /\ commit = [l \in Lanes |-> Nothing]
  /\ verified = Nothing
  /\ eplans = [d \in {} |-> "planned"] /\ ejobs = [d \in {} |-> "running"]
  /\ enforce = Nothing
  /\ invoked = [d \in {} |-> 0]
  /\ backend = Nothing /\ late = {} /\ wasInForce = {}

PolicyNext ==
  \/ \E l \in Lanes :
       \/ \E c \in Contents(l) : PlanChange(l, c)
       \/ \E p \in DOMAIN plans[l] : Confirm(l, p)
       \/ Write(l) \/ Verify(l) \/ Finish(l) \/ Close(l)
  \/ ChangeHousehold
  \/ PlanEnforcement(desired["policy"])
  \/ \E d \in DOMAIN eplans : ConfirmEnforcement(d) \/ Execute(d)
  \/ Mark \/ Store \/ EndExecution
  \/ \E a \in Answers : Apply(a)
  \/ \E p \in late : TakeEffect(p)
  \/ Reset
=============================================================================
