--------------------------- MODULE ModuleAdmission ---------------------------
(***************************************************************************)
(* Whether verified modules fit a runtime: the admission of one module, of  *)
(* a set of candidates evaluated together as if all were installed, and of  *)
(* that set under the operator's compatibility policy; and the later        *)
(* revalidation of such a decision against a runtime and a policy that may  *)
(* have moved on.                                                           *)
(*                                                                         *)
(* A decision carries what it was made from, and its identifier is a digest *)
(* of all it carries: two decisions have one identifier iff they are equal. *)
(***************************************************************************)
EXTENDS ModuleArtifacts

CONSTANTS
  Modules,        \* module names
  Hosts,          \* Home Center version, architecture and operating system
  Capabilities,   \* capabilities a runtime may have
  MaxVersion,     \* bound on module versions; 0 is not installed
  Policies,       \* compatibility policies an operator writes
  MaxCandidates,  \* bound on the size of a candidate set
  MaxChanges      \* bound on the changes of runtime, policy and trust

ASSUME AdmissionAssumption ==
  /\ MaxVersion \in Nat /\ MaxCandidates \in Nat /\ MaxChanges \in Nat
  /\ \A p \in Policies :
       /\ p.blocked \subseteq Modules /\ p.required \subseteq Capabilities
       /\ p.limit \in 1 .. 128
       /\ p.restricted \in BOOLEAN /\ (p.restricted <=> p.publishers # {})

\* A version is its place in the order of the module's versions.
ASSUME ManifestAssumption ==
  \A m \in Manifests :
    /\ Manifest[m].id \in Modules /\ Manifest[m].version \in 1 .. MaxVersion
    /\ \A d \in Manifest[m].deps : d.id \in Modules /\ d.from \in Nat /\ d.below \in Nat

VARIABLES
  host, capabilities, installed,  \* the runtime
  policy,                         \* the compatibility policy in force
  changes,                        \* how often these or the trust policy changed
  decision,                       \* a decision about a candidate set
  revalidation                    \* the last revalidation of it

runtimeVars == <<host, capabilities, installed>>
admissionVars == <<artifactVars, runtimeVars, policy, changes, decision, revalidation>>

-----------------------------------------------------------------------------
(* One module on one runtime.                                              *)

Snapshot == [host |-> host, capabilities |-> capabilities, installed |-> installed]

\* A dependency is met by an installed version in its interval; an absent one may be optional.
Met(d, s) ==
  LET v == s.installed[d.id]
  IN  IF v = 0 THEN d.optional ELSE v \in d.from .. d.below - 1

\* Only the verified record of this very manifest is evidence for it.
Evidence(m) == \E p \in accepted : Package[p].manifest = m

Reasons(m, s) ==
  {r \in {"unsupported", "capability_missing", "dependency_unsatisfied", "conflict_present"} :
     CASE r = "unsupported"            -> s.host \notin Manifest[m].hosts
       [] r = "capability_missing"     -> ~(Manifest[m].needs \subseteq s.capabilities)
       [] r = "dependency_unsatisfied" -> \E d \in Manifest[m].deps : ~Met(d, s)
       [] r = "conflict_present"       -> \E c \in Manifest[m].conflicts : s.installed[c] # 0}

\* evaluate_module_compatibility: the decision for one module.
Admission(m, s) == [manifest |-> m, snapshot |-> s, reasons |-> Reasons(m, s)]

-----------------------------------------------------------------------------
(* A set of candidates.                                                    *)

\* Distinct modules, each in scope and with verified evidence.
Candidates ==
  {c \in SUBSET {Package[p].manifest : p \in accepted} :
     /\ c # {} /\ Cardinality(c) <= MaxCandidates
     /\ \A m \in c : InScope(m)
     /\ \A m, n \in c : Manifest[m].id = Manifest[n].id => m = n}

\* The snapshot's modules with every candidate's version laid over them.
Planned(c, s) ==
  [i \in Modules |-> IF \E m \in c : Manifest[m].id = i
                       THEN Manifest[CHOOSE m \in c : Manifest[m].id = i].version
                       ELSE s.installed[i]]

\* Each candidate beside what is installed; as a mutant of the next, the others are forgotten.
ReasonsAlone(c, s) == [m \in c |-> Reasons(m, s)]

BaseReasons(c, s) == [m \in c |-> Reasons(m, [s EXCEPT !.installed = Planned(c, s)])]

\* What the policy holds against a module of the set: the two global reasons are everyone's.
PolicyReasons(m, c, s, pol) ==
  {r \in {"candidate_limit_exceeded", "runtime_capability_required",
          "module_blocked_by_policy", "publisher_not_allowed"} :
     CASE r = "candidate_limit_exceeded"    -> Cardinality(c) > pol.limit
       [] r = "runtime_capability_required" -> ~(pol.required \subseteq s.capabilities)
       [] r = "module_blocked_by_policy"    -> Manifest[m].id \in pol.blocked
       [] r = "publisher_not_allowed"       -> pol.restricted /\ Manifest[m].publisher \notin pol.publishers}

\* evaluate_module_candidate_set_under_policy
UnderPolicy(c, s, pol) ==
  [candidates |-> c, snapshot |-> s, policy |-> pol, planned |-> Planned(c, s),
   alone |-> ReasonsAlone(c, s), base |-> BaseReasons(c, s),
   reasons |-> [m \in c |-> PolicyReasons(m, c, s, pol)]]

Blocked(d) == {m \in d.candidates : d.base[m] # {} \/ d.reasons[m] # {}}
Compatible(d) == Blocked(d) = {}

\* What the revalidation of the admissions, of the set and of the set under policy compare.
SinglesParts == {"candidates", "snapshot", "alone"}
SetParts     == {"candidates", "snapshot", "planned", "base"}
PolicyParts  == SetParts \cup {"policy", "reasons"}

\* The parts of a decision that changed; it is current iff none did.
Drift(old, new, parts) == {f \in parts : old[f] # new[f]}

-----------------------------------------------------------------------------

AdmissionTypeOK ==
  /\ ArtifactsTypeOK
  /\ host \in Hosts /\ capabilities \subseteq Capabilities
  /\ installed \in [Modules -> 0 .. MaxVersion]
  /\ policy \in Policies
  /\ changes \in 0 .. MaxChanges
  /\ decision # Missing =>
       /\ decision.candidates \subseteq {Package[p].manifest : p \in accepted}
       /\ decision.policy \in Policies
       /\ decision.planned \in [Modules -> 0 .. MaxVersion]
  /\ revalidation # Missing =>
       revalidation.status \in {"current", "stale"} /\ revalidation.policy \in Policies

AdmissionInit ==
  /\ ArtifactsInit
  /\ host \in Hosts /\ capabilities = Capabilities
  /\ installed = [i \in Modules |-> 0]
  /\ policy \in Policies
  /\ changes = 0
  /\ decision = Missing /\ revalidation = Missing

\* evaluate_module_candidate_set_under_policy, on the runtime and policy of the moment.
DecideSet(c) ==
  /\ decision' = UnderPolicy(c, Snapshot, policy)
  /\ UNCHANGED <<artifactVars, runtimeVars, policy, changes, revalidation>>

\* A fresh decision from the snapshot the caller hands in is compared with the old one.
Recheck(parts, pol) ==
  /\ decision # Missing
  /\ LET fresh == UnderPolicy(decision.candidates, Snapshot, pol)
     IN  revalidation' = [status |-> IF Drift(decision, fresh, parts) = {} THEN "current" ELSE "stale",
                     snapshot |-> Snapshot, policy |-> pol, parts |-> parts]
  /\ UNCHANGED <<artifactVars, runtimeVars, policy, changes, decision>>

\* revalidate_module_admissions and revalidate_module_candidate_set know no policy.
RecheckSingles == Recheck(SinglesParts, decision.policy)
RecheckSet     == Recheck(SetParts, decision.policy)

\* revalidate_module_candidate_set_under_policy: without a fresh policy the old one counts.
RecheckUnderPolicy == \E pol \in {policy, decision.policy} : Recheck(PolicyParts, pol)

\* External: a module is installed, replaced or removed, and the platform or the policy changes.
Change ==
  /\ changes < MaxChanges /\ changes' = changes + 1
  /\ \/ /\ \E i \in Modules, v \in 0 .. MaxVersion : installed' = [installed EXCEPT ![i] = v]
        /\ UNCHANGED <<host, capabilities, policy>>
     \/ \E c \in Capabilities :
          capabilities' = capabilities \ {c} /\ UNCHANGED <<host, installed, policy>>
     \/ host' \in Hosts /\ UNCHANGED <<capabilities, installed, policy>>
     \/ policy' \in Policies /\ UNCHANGED runtimeVars
  /\ UNCHANGED <<artifactVars, decision, revalidation>>

\* A change of the trust policy counts as a change as well.
Artifacts ==
  /\ ArtifactsNext
  /\ changes' = changes + (IF keys' = keys THEN 0 ELSE 1) /\ changes' <= MaxChanges
  /\ UNCHANGED <<runtimeVars, policy, decision, revalidation>>

AdmissionNext ==
  \/ Artifacts
  \/ decision = Missing /\ \E c \in Candidates : DecideSet(c)
  \/ decision # Missing /\ (RecheckSingles \/ RecheckSet \/ RecheckUnderPolicy)
  \/ Change

-----------------------------------------------------------------------------

\* The modules that would be there if the set were installed now.
Together(c) == {Manifest[m].id : m \in c} \cup {i \in Modules : installed[i] # 0}

\* A decision that calls a set compatible, checked again and found current under the
\* policy in force, tells the truth about the runtime of that moment: installed
\* together, the candidates find every dependency they require among themselves and
\* what is there, none conflicts with another or with what stays, and the policy in
\* force has nothing against any of them, however often runtime and policy changed in
\* between (module_policy_candidate_set_revalidation.py:201-349).
CurrentSetFits ==
  /\ decision # Missing /\ revalidation # Missing
  /\ revalidation.status = "current" /\ revalidation.parts = PolicyParts /\ Compatible(decision)
  /\ revalidation.snapshot = Snapshot /\ revalidation.policy = policy
  =>
  \A m \in decision.candidates :
    /\ host \in Manifest[m].hosts
    /\ Manifest[m].needs \cup policy.required \subseteq capabilities
    /\ Manifest[m].conflicts \cap Together(decision.candidates) = {}
    /\ \A d \in Manifest[m].deps :
         \/ d.optional /\ d.id \notin Together(decision.candidates)
         \/ \E n \in decision.candidates : Manifest[n].id = d.id /\ Manifest[n].version >= d.from /\ Manifest[n].version < d.below
         \/ /\ \A n \in decision.candidates : Manifest[n].id # d.id
            /\ installed[d.id] # 0 /\ installed[d.id] >= d.from /\ installed[d.id] < d.below
    /\ Manifest[m].id \notin policy.blocked
    /\ policy.restricted => Manifest[m].publisher \in policy.publishers
    /\ Cardinality(decision.candidates) <= policy.limit
=============================================================================
