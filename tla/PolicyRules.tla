---------------------------- MODULE PolicyRules ----------------------------
(***************************************************************************)
(* What a Household policy may say and what follows from it: the role      *)
(* presets, the bundles a parent may choose within a preset, the parental  *)
(* internet rules of a child, and the answer they give to one access.      *)
(*                                                                         *)
(* Identifiers are digests of the content they name, so the content stands *)
(* for them.  A domain is the sequence of its labels from the right, so a  *)
(* rule covers a domain when it is a prefix of it.                         *)
(***************************************************************************)
EXTENDS Naturals, SequencesExt

CONSTANT NoLimit

-----------------------------------------------------------------------------
(* Role presets, bundles, composed policies.                               *)

Roles == {"parent", "child", "guest"}

Internet == {"full", "filtered", "guest"}

Strictness == [full |-> 0, filtered |-> 1, guest |-> 2]

Capabilities == {"vpn", "files", "smartHome", "administration"}

Policies ==
  [internet : Internet, granted : SUBSET Capabilities, managed : BOOLEAN]

Preset == [
  parent |-> [internet |-> "full", granted |-> Capabilities, managed |-> FALSE],
  child  |-> [internet |-> "filtered", granted |-> {"files"}, managed |-> TRUE],
  guest  |-> [internet |-> "guest", granted |-> {}, managed |-> FALSE]]

\* Mutant: only the internet level is compared.
EscalatesInternet(role, bundle) ==
  Strictness[bundle.internet] < Strictness[Preset[role].internet]

\* A bundle may only tighten the preset of the member's role.
Escalates(role, bundle) ==
  \/ Strictness[bundle.internet] < Strictness[Preset[role].internet]
  \/ ~(bundle.granted \subseteq Preset[role].granted)
  \/ Preset[role].managed /\ ~bundle.managed

\* The policies composed of bundles: what a bundle asks for, unless it is beyond
\* the role.  The external publication a policy forbids is a constant.
Composed(role, bundles) == {b \in bundles \cap Policies : ~Escalates(role, b)}

-----------------------------------------------------------------------------
(* Parental internet rules of a child.                                     *)

LastMinute == 1439

Limits(most) == (1 .. most) \cup {NoLimit}

\* Minute 1439 is a legal end and ends are exclusive, so the last minute of a
\* day is in no window.
Window(w) ==
  /\ w.weekday \in 0 .. 6
  /\ w.start \in 0 .. LastMinute - 1
  /\ w.end \in w.start + 1 .. LastMinute

Overlap(v, w) ==
  v # w /\ v.weekday = w.weekday /\ v.start < w.end /\ w.start < v.end

\* The rules a parent may write on a given base.
WellFormedRules(base, r) ==
  /\ base.internet # "full" /\ "vpn" \notin base.granted
  /\ r.allow \cap r.deny = {} /\ r.allowed \cap r.denied = {}
  /\ \A w \in r.schedule : Window(w)
  /\ \A v, w \in r.schedule : ~Overlap(v, w)
  /\ r.daily \in Limits(1440) /\ r.weekly \in Limits(10080)
  /\ r.session \in Limits(1440)
  /\ r.grace \in 0 .. 60 /\ r.bonus \in 0 .. 1440
  /\ r.session = NoLimit => r.grace = 0
  /\ r.daily = NoLimit => r.bonus = 0

Covers(rules, domain) == \E d \in rules : IsPrefix(d, domain)

InSchedule(r, q) ==
  \/ r.schedule = {}
  \/ \E w \in r.schedule : w.weekday = q.weekday /\ w.start <= q.minute /\ q.minute < w.end

\* Mutant: the limit is met at one value of the counter only.
ExhaustedExactly(limit, used, extra) == limit # NoLimit /\ used = limit + extra

Exhausted(limit, used, extra) == limit # NoLimit /\ used >= limit + extra

\* An explicitly allowed domain is allowed whatever its category, but only
\* after the denials, the schedule and the quotas have had their say.
Allowed(r, q) ==
  /\ q.source = r.source
  /\ ~Covers(r.deny, q.domain)
  /\ InSchedule(r, q)
  /\ ~Exhausted(r.weekly, q.weekly, 0)
  /\ ~Exhausted(r.daily, q.daily, r.bonus)
  /\ ~Exhausted(r.session, q.session, r.grace)
  /\ \/ Covers(r.allow, q.domain)
     \/ q.category # "unknown" /\ q.category \notin r.denied /\ q.category \in r.allowed
=============================================================================
