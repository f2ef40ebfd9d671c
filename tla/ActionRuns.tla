----------------------------- MODULE ActionRuns -----------------------------
(***************************************************************************)
(* Typed action jobs: ActionRegistry.run and the job table of StateStore.  *)
(*                                                                         *)
(* A request that passed validation names a job by (actor, action,         *)
(* idempotency key), a scope modelled by one key, and carries a request    *)
(* hash.  The thread that creates the job drives it through the states of  *)
(* transition_action_job; every store call is a transaction of its own, it *)
(* may raise (then it is rolled back), and the process may die between any *)
(* two of them.  Nothing resumes a job after a restart.                    *)
(***************************************************************************)
EXTENDS Integers, Sequences

CONSTANTS
  Keys,         \* (actor, action id, idempotency key) scopes
  Hashes,       \* request hashes: everything else a request says
  Threads,      \* request threads
  None,         \* no key, no hash
  MaxCrashes,   \* bound on the number of process crashes
  MaxFaults,    \* bound on the number of store calls that raise
  MaxTrail      \* bound on the audit trail: refused requests grow it for ever

ASSUME BoundsAssumption ==
  MaxCrashes \in Nat /\ MaxFaults \in Nat /\ MaxTrail \in Nat

ASSUME NoneAssumption == None \notin Keys \cup Hashes

VARIABLES
  job,       \* jobs joined with action_job_metadata
  trail,     \* the audit table
  pc,        \* where a request thread stands in run()
  key,       \* the job it drives
  held,      \* run()'s local variable state
  event,     \* its audit_event_id: a position in the trail
  executed,  \* how often the action of a job was executed
  answer,    \* the job state a request for each key was last answered
  crashes,
  faults

threadVars == <<pc, key, held, event>>
vars == <<job, trail, threadVars, executed, answer, crashes, faults>>

Active == {"preflight", "running", "verifying"}
Terminal == {"succeeded", "failed"}
Steps == {"idle", "start", "execute", "verify", "audit", "succeed", "auditFailure", "fail"}

Jobs == [state : {"absent"} \cup Active \cup Terminal, hash : Hashes \cup {None}, evidence : Nat]
Entries == [key : Keys, outcome : {"succeeded", "failed", "denied"}]

\* transition_action_job's table of allowed moves.
Allowed == {<<"preflight", "running">>, <<"preflight", "failed">>,
            <<"running", "verifying">>, <<"running", "failed">>,
            <<"verifying", "succeeded">>, <<"verifying", "failed">>}

Busy(t) == pc[t] # "idle"

TypeOK ==
  /\ job \in [Keys -> Jobs]
  /\ trail \in Seq(Entries)
  /\ pc \in [Threads -> Steps]
  /\ key \in [Threads -> Keys \cup {None}]
  /\ held \in [Threads -> Active]
  /\ event \in [Threads -> Nat]
  /\ executed \in [Keys -> Nat]
  /\ answer \in [Keys -> {"absent"} \cup Active \cup Terminal]
  /\ crashes \in Nat
  /\ faults \in Nat
  /\ \A t \in Threads : IF Busy(t) THEN key[t] \in Keys ELSE held[t] = "preflight"

Init ==
  /\ job = [k \in Keys |-> [state |-> "absent", hash |-> None, evidence |-> 0]]
  /\ trail = <<>>
  /\ pc = [t \in Threads |-> "idle"]
  /\ key = [t \in Threads |-> None]
  /\ held = [t \in Threads |-> "preflight"]
  /\ event = [t \in Threads |-> 0]
  /\ executed = [k \in Keys |-> 0]
  /\ answer = [k \in Keys |-> "absent"]
  /\ crashes = 0
  /\ faults = 0

Goto(t, step) == pc' = [pc EXCEPT ![t] = step]

\* run() returns or raises: its local variables are gone.
Leave(t) ==
  /\ pc' = [pc EXCEPT ![t] = "idle"]
  /\ key' = [key EXCEPT ![t] = None]
  /\ held' = [held EXCEPT ![t] = "preflight"]
  /\ event' = [event EXCEPT ![t] = 0]

Answer(k, state) == answer' = [answer EXCEPT ![k] = state]

Audit(k, outcome) == trail' = Append(trail, [key |-> k, outcome |-> outcome])

\* transition_action_job: the row must still be in the expected state.
Transition(k, expected, new, evidence) ==
  /\ <<expected, new>> \in Allowed
  /\ job[k].state = expected
  /\ job' = [job EXCEPT ![k] = [@ EXCEPT !.state = new, !.evidence = evidence]]

-----------------------------------------------------------------------------
(* create_action_job, in one transaction.                                  *)

\* Mutant: a request finding an unfinished job takes it over.
CreateOrResume(t, k, h) ==
  /\ ~Busy(t)
  /\ job[k].state \notin Terminal
  /\ job' = [job EXCEPT ![k] = [state |-> "preflight", hash |-> h, evidence |-> 0]]
  /\ Goto(t, "start")
  /\ key' = [key EXCEPT ![t] = k]
  /\ UNCHANGED <<trail, held, event, executed, answer, crashes, faults>>

\* Mutant: a request finding a finished job runs it again.
CreateAgain(t, k, h) ==
  /\ ~Busy(t)
  /\ job[k].state \notin Active
  /\ job' = [job EXCEPT ![k] = [state |-> "preflight", hash |-> h, evidence |-> 0]]
  /\ Goto(t, "start")
  /\ key' = [key EXCEPT ![t] = k]
  /\ UNCHANGED <<trail, held, event, executed, answer, crashes, faults>>

Create(t, k, h) ==
  /\ ~Busy(t)
  /\ job[k].state = "absent"
  /\ job' = [job EXCEPT ![k] = [state |-> "preflight", hash |-> h, evidence |-> 0]]
  /\ Goto(t, "start")
  /\ key' = [key EXCEPT ![t] = k]
  /\ UNCHANGED <<trail, held, event, executed, answer, crashes, faults>>

\* The same request again: the stored job, in whatever state it is.
Replay(k, h) ==
  /\ job[k].state # "absent"
  /\ job[k].hash = h
  /\ Answer(k, job[k].state)
  /\ UNCHANGED <<job, trail, threadVars, executed, crashes, faults>>

\* The key is taken by another request: the API records the refusal.
Conflict(k, h) ==
  /\ job[k].state # "absent"
  /\ job[k].hash # h
  /\ Len(trail) < MaxTrail
  /\ Audit(k, "denied")
  /\ UNCHANGED <<job, threadVars, executed, answer, crashes, faults>>

-----------------------------------------------------------------------------
(* The rest of run(), one store call or execution per step.                *)

Start(t) ==
  /\ pc[t] = "start"
  /\ Transition(key[t], "preflight", "running", 0)
  /\ held' = [held EXCEPT ![t] = "running"]
  /\ Goto(t, "execute")
  /\ UNCHANGED <<trail, key, event, executed, answer, crashes, faults>>

\* Mutant: an exception of the runner escapes.
ExecuteUncaught(t) ==
  /\ pc[t] = "execute"
  /\ executed' = [executed EXCEPT ![key[t]] = @ + 1]
  /\ \/ Goto(t, "verify") /\ UNCHANGED <<key, held, event>>
     \/ Leave(t)
  /\ UNCHANGED <<job, trail, answer, crashes, faults>>

\* The runner returns fields that validate, or anything else: _execute raises.
Execute(t) ==
  /\ pc[t] = "execute"
  /\ executed' = [executed EXCEPT ![key[t]] = @ + 1]
  /\ \E step \in {"verify", "auditFailure"} : Goto(t, step)
  /\ UNCHANGED <<job, trail, key, held, event, answer, crashes, faults>>

Verify(t) ==
  /\ pc[t] = "verify"
  /\ Transition(key[t], "running", "verifying", 0)
  /\ held' = [held EXCEPT ![t] = "verifying"]
  /\ Goto(t, "audit")
  /\ UNCHANGED <<trail, key, event, executed, answer, crashes, faults>>

\* Mutant: the first audit event of the run is kept as its evidence.
RecordFirst(t, outcome, step) ==
  /\ Audit(key[t], outcome)
  /\ event' = [event EXCEPT ![t] = IF @ = 0 THEN Len(trail) + 1 ELSE @]
  /\ Goto(t, step)
  /\ UNCHANGED <<job, key, held, executed, answer, crashes, faults>>

RecordOutcome(t, outcome, step) ==
  /\ Audit(key[t], outcome)
  /\ event' = [event EXCEPT ![t] = Len(trail) + 1]
  /\ Goto(t, step)
  /\ UNCHANGED <<job, key, held, executed, answer, crashes, faults>>

AuditSuccess(t) == pc[t] = "audit" /\ RecordOutcome(t, "succeeded", "succeed")

AuditFailure(t) == pc[t] = "auditFailure" /\ RecordOutcome(t, "failed", "fail")

Finish(t, expected, new) ==
  /\ Transition(key[t], expected, new, event[t])
  /\ Answer(key[t], new)
  /\ Leave(t)
  /\ UNCHANGED <<trail, executed, crashes, faults>>

Succeed(t) == pc[t] = "succeed" /\ Finish(t, "verifying", "succeeded")

Fail(t) == pc[t] = "fail" /\ Finish(t, held[t], "failed")

-----------------------------------------------------------------------------
(* What goes wrong.                                                        *)

\* A store call raises and is rolled back.  Inside the try block that is a
\* failed action like any other; outside it the request ends with an error.
StoreRaises(t) ==
  /\ faults < MaxFaults
  /\ faults' = faults + 1
  /\ \/ /\ pc[t] \in {"verify", "audit", "succeed"}
        /\ Goto(t, "auditFailure")
        /\ UNCHANGED <<key, held, event>>
     \/ /\ pc[t] \in {"start", "auditFailure", "fail"}
        /\ Leave(t)
  /\ UNCHANGED <<job, trail, executed, answer, crashes>>

\* The process dies; the job table and the trail are on disk.
Crash ==
  /\ crashes < MaxCrashes
  /\ crashes' = crashes + 1
  /\ pc' = [t \in Threads |-> "idle"]
  /\ key' = [t \in Threads |-> None]
  /\ held' = [t \in Threads |-> "preflight"]
  /\ event' = [t \in Threads |-> 0]
  /\ UNCHANGED <<job, trail, executed, answer, faults>>

-----------------------------------------------------------------------------
RunStep(t) ==
  \/ Start(t) \/ Execute(t) \/ Verify(t)
  \/ AuditSuccess(t) \/ AuditFailure(t) \/ Succeed(t) \/ Fail(t)

Next ==
  \/ \E k \in Keys, h \in Hashes :
       \/ \E t \in Threads : Create(t, k, h)
       \/ Replay(k, h) \/ Conflict(k, h)
  \/ \E t \in Threads : RunStep(t) \/ StoreRaises(t)
  \/ Crash

Spec == Init /\ [][Next]_vars

\* A request thread runs on; the runner has a timeout.
FairSpec == Spec /\ \A t \in Threads : WF_vars(RunStep(t))

-----------------------------------------------------------------------------
(* Properties.                                                             *)

\* An idempotency key executes its action at most once, whatever is retried,
\* replayed, refused or interrupted.
ExecutedAtMostOnce == \A k \in Keys : executed[k] <= 1

\* A finished job's evidence names an audit entry of that job with that
\* outcome, and no later entry of the job says otherwise.
LastWord(k, i, outcome) ==
  /\ i \in 1 .. Len(trail)
  /\ trail[i] = [key |-> k, outcome |-> outcome]
  /\ \A j \in i + 1 .. Len(trail) : trail[j].key = k => trail[j].outcome = "denied"
EvidenceIsLastWord ==
  \A k \in Keys : job[k].state \in Terminal => LastWord(k, job[k].evidence, job[k].state)

\* One thread drives a job, and the state it holds is the stored one: the
\* expected_state check of transition_action_job never fails.
OneDriver ==
  /\ \A t, u \in Threads : Busy(t) /\ Busy(u) /\ key[t] = key[u] => t = u
  /\ \A t \in Threads : Busy(t) => job[key[t]].state = held[t]

\* Why these hold: where a driver stands says what it holds and what the trail
\* already says, and an action is executed on the way from running on.
InStep ==
  \A t \in Threads :
    /\ pc[t] = "start" => held[t] = "preflight"
    /\ pc[t] \in {"execute", "verify"} => held[t] = "running"
    /\ pc[t] \in {"audit", "succeed"} => held[t] = "verifying"
    /\ pc[t] \in {"auditFailure", "fail"} => held[t] \in {"running", "verifying"}
    /\ pc[t] = "execute" => executed[key[t]] = 0
    /\ pc[t] \in {"succeed", "fail"} =>
         LastWord(key[t], event[t], IF pc[t] = "succeed" THEN "succeeded" ELSE "failed")
NotYet ==
  \A k \in Keys :
    /\ job[k].state \in {"absent", "preflight"} => executed[k] = 0
    /\ job[k].state = "absent" => job[k].hash = None
JobInv == OneDriver /\ InStep /\ NotYet /\ ExecutedAtMostOnce /\ EvidenceIsLastWord

\* A finished job and the request it answers to never change again.
KeepsFinished ==
  \A k \in Keys :
    /\ job[k].state \in Terminal => job'[k] = job[k]
    /\ job[k].hash # None => job'[k].hash = job[k].hash
FinishedStaysFinished == [][KeepsFinished]_vars

\* Every job finishes unless the process died or the store raised.
JobsFinish ==
  \A k \in Keys : job[k].state \in Active ~> (job[k].state \in Terminal \/ crashes + faults > 0)

\* Whoever was told that a job succeeded or failed was told so for good.
AnswersStand == \A k \in Keys : answer[k] \in Terminal => job[k].state = answer[k]

=============================================================================
