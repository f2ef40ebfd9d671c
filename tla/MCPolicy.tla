------------------------------ MODULE MCPolicy ------------------------------
EXTENDS PolicyVerification

\* Two policies a parent may give a child, and one beyond the role for each
\* way of exceeding it.
MCBundles == {
  [internet |-> "filtered", granted |-> {"files"}, managed |-> TRUE],
  [internet |-> "guest", granted |-> {}, managed |-> TRUE],
  [internet |-> "full", granted |-> {}, managed |-> TRUE],
  [internet |-> "filtered", granted |-> {"vpn"}, managed |-> TRUE],
  [internet |-> "guest", granted |-> {}, managed |-> FALSE]}

Mornings == [weekday |-> 0, start |-> 480, end |-> 720]
Afternoons == [weekday |-> 0, start |-> 700, end |-> LastMinute]

MCRules ==
  [source |-> "list", allow |-> {<<"org", "school">>}, deny |-> {<<"com", "games">>},
   allowed |-> {"study"}, denied |-> {"chat"}, schedule |-> {Mornings},
   daily |-> 2, weekly |-> 3, session |-> 1, grace |-> 1, bonus |-> 0]

\* Legal rules, and rules whose windows overlap.
MCRuleSets == {MCRules, [MCRules EXCEPT !.schedule = {Mornings, Afternoons}]}

MCAccesses ==
  [source : {"list", "older list"},
   domain : {<<"org", "school">>, <<"org", "school", "www">>, <<"com", "games", "www">>},
   category : {"study", "chat", "unknown"}, weekday : {0}, minute : {480, 720, LastMinute}]

MCUsages == [daily : 0 .. 3, weekly : 0 .. 4, session : 0 .. 3]

First == [internet |-> "filtered", granted |-> {"files"}, managed |-> TRUE]

MCGenerations == [policy |-> 2, parental |-> 1]

\* The services with a call in progress.
Busy == {s \in {"policy", "parental", "enforce", "reconcile", "recover", "project", "promote", "read"} :
  CASE s \in Lanes       -> commit[s] # Nothing
    [] s = "enforce"     -> enforce # Nothing
    [] s = "reconcile"   -> reconcile # Nothing
    [] s = "recover"     -> recover # Nothing
    [] s = "project"     -> project # Nothing
    [] s = "promote"     -> promote # Nothing
    [] s = "read"        -> read # Nothing}

\* One call at a time, or two of services that write what the other reads.
Pairs == {{"policy", s} : s \in {"parental", "enforce", "reconcile", "project", "promote", "read"}}
  \cup {{"reconcile", "recover"}, {"project", "parental"}, {"project", "read"}}

TwoAtATime ==
  \/ Cardinality(Busy) <= 1
  \/ Busy \in Pairs /\ restarts = 0
  \/ Busy = {"reconcile", "recover"}

\* Two plans are enough for one to go stale, or to follow the other.
FewPlans ==
  /\ Cardinality(DOMAIN plans["policy"]) <= 2
  /\ Cardinality(DOMAIN plans["parental"]) <= 1
  /\ Cardinality(late) <= 1
  /\ backend = Nothing => late = {} \/ wasInForce = {}

\* What comes last: a change of the Household before anything is desired, and
\* once parental rules are planned, or a flag is raised, nothing but what can
\* interfere with them.  A judgement against the backend ends an episode, and a
\* second reconciliation follows a second policy.
Seldom ==
  /\ Generation(Policy) = 1 => Policy.content = First
  /\ household > 0 => desired["policy"] = Nothing
  /\ DOMAIN plans["parental"] # {} => Busy \subseteq {"policy", "parental", "project"}
  /\ \A n \in Numbers : requests[n] # Nothing /\ requests[n].verdict \notin {Nothing, "verified"} =>
       Busy \subseteq {"reconcile", "recover", "read"}
  /\ requests[2] # Nothing => verified # Nothing /\ Generation(Policy) = 2 /\ enforce = Nothing
  /\ (\E n \in Numbers : fjobs[n] # Nothing) => Busy \subseteq {"policy", "promote", "read"}
=============================================================================
