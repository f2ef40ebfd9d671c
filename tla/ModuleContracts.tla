--------------------------- MODULE ModuleContracts ---------------------------
(***************************************************************************)
(* The chain of evidence that a module and the home services it needs speak *)
(* the same contracts: negotiation of contract revisions, its binding to an *)
(* admission of the module, the binding of both to the profiles of the      *)
(* services, the revalidation of that, and the state and index shown to the *)
(* operator.  Every link names the documents before it, which may have been *)
(* made at different times while runtime, profiles and supported revisions  *)
(* moved on.                                                                *)
(***************************************************************************)
EXTENDS ModuleAdmission

CONSTANTS
  Revisions,  \* revisions of the module contracts
  Services,   \* home services of the catalog
  Contracts   \* contracts services provide

\* A required service without a profile is refused before anything is bound.
ASSUME ServicesAssumption == \A m \in Manifests : DOMAIN Manifest[m].services \subseteq Services

VARIABLES
  supported,   \* revisions this Home Center supports
  provided,    \* contracts each service profile provides
  admitted,    \* an admission of a module
  negotiated,  \* a negotiation of its contract revisions
  bound,       \* the aggregate binding made from both and the service profiles
  states       \* compatibility state shown for each module

contractVars == <<supported, provided, admitted, negotiated, bound, states>>
chainVars == <<admissionVars, contractVars>>

-----------------------------------------------------------------------------
(* The documents.                                                          *)

\* negotiate_module_contracts: what of the requested revisions a profile does not have.
Negotiation(m, profile, h) ==
  [host |-> h, profile |-> profile, requested |-> Manifest[m].requests,
   unsupported |-> Manifest[m].requests \ profile]

\* bind_module_contract_admission: compatible, of one Home Center, of known revisions.
Bindable(neg, adm) ==
  /\ neg.unsupported = {} /\ neg.requested \subseteq neg.profile
  /\ neg.requested = Manifest[adm.manifest].requests
  /\ neg.host = adm.snapshot.host

\* ModuleContractAdmissionBinding
ModuleBinding(neg, adm) ==
  [module |-> Manifest[adm.manifest].id, manifest |-> adm.manifest, host |-> neg.host,
   profile |-> neg.profile, requested |-> neg.requested, admission |-> adm]

\* A requirement set per service, all of one module, version and Home Center.
Requirements(mb) ==
  [s \in DOMAIN Manifest[mb.manifest].services |->
     [module |-> mb.module, host |-> mb.host, contracts |-> Manifest[mb.manifest].services[s]]]

\* Mutant: whether the module was admitted is not asked.
ServiceReasonsOpen(mb, needs, provides) ==
  IF needs \subseteq provides THEN {} ELSE {"unsupported_service_contract"}

\* bind_module_home_service_contracts: why a service and a module do not go together.
ServiceReasons(mb, needs, provides) ==
  {r \in {"module_admission_blocked", "unsupported_service_contract"} :
     CASE r = "module_admission_blocked"     -> mb.admission.reasons # {}
       [] r = "unsupported_service_contract" -> ~(needs \subseteq provides)}

\* bind_module_home_service_requirement_set: one requirement set on one profile.
ServiceBinding(mb, req, provides) ==
  [requirements |-> req, provides |-> provides,
   reasons |-> ServiceReasons(mb, req.contracts, provides)]

\* bind_module_home_service_multi_compatibility: all services the module requires, no other.
MultiBinding(mb, provides) ==
  [binding |-> mb, host |-> mb.host, requirements |-> Requirements(mb),
   services |-> [s \in DOMAIN Manifest[mb.manifest].services |->
                   ServiceBinding(mb, Requirements(mb)[s], provides[s])]]

BlockedServices(b) == {s \in DOMAIN b.services : b.services[s].reasons # {}}
Status(b) == IF BlockedServices(b) = {} THEN "compatible" ELSE "blocked"

\* revalidate_module_home_service_multi_compatibility, its reasons in the serialised order.
ServiceDrift(old, new) ==
  {f \in {"requirements", "host", "module", "services", "blocked", "status"} :
     CASE f = "requirements" -> old.requirements # new.requirements
       [] f = "host"         -> old.host # new.host
       [] f = "module"       -> old.binding # new.binding
       [] f = "services"     -> old.services # new.services
       [] f = "blocked"      -> BlockedServices(old) # BlockedServices(new)
       [] f = "status"       -> Status(old) # Status(new)}

\* The revalidations of the single links, each by its own comparison: the module's
\* binding, the binding of a service's contracts, and of a requirement set to it.
ModuleDrift(old, new) ==
  {f \in {"profile", "requested", "host", "module", "manifest", "admission"} : old[f] # new[f]}

ContractsDrift(old, new, s) ==
  {f \in {"binding", "host"} : old[f] # new[f]}
  \cup {f \in {"provides", "reasons"} : old.services[s][f] # new.services[s][f]}
  \cup (IF old.requirements[s].contracts # new.requirements[s].contracts THEN {"contracts"} ELSE {})

RequirementDrift(old, new, s) ==
  ContractsDrift(old, new, s)
  \cup (IF old.requirements[s] # new.requirements[s] THEN {"requirements"} ELSE {})

\* Whether every link of a chain is still what it was.
LinksCurrent(old, new) ==
  /\ ModuleDrift(old.binding, new.binding) = {}
  /\ DOMAIN old.services = DOMAIN new.services
  /\ \A s \in DOMAIN old.services : RequirementDrift(old, new, s) = {}

\* Mutant: a state that drifted keeps what it showed.
EffectiveObserved(old, new) == Status(new)

\* The effective status of a state: what was observed, if nothing drifted.
Effective(old, new) == IF ServiceDrift(old, new) = {} THEN Status(new) ELSE "stale"

\* build_module_home_service_compatibility_state
State(old, new) ==
  [host |-> new.host, binding |-> new, original |-> old, freshness |-> ServiceDrift(old, new) = {},
   effective |-> Effective(old, new)]

Shown(h) == {i \in Modules : states[i] # Missing /\ states[i].host = h}

\* The summary of an index over the states of one Home Center: the worst of them.
Summary(h) ==
  IF \E i \in Shown(h) : states[i].effective = "stale" THEN "stale"
  ELSE IF \E i \in Shown(h) : states[i].effective = "blocked" THEN "blocked"
  ELSE IF Shown(h) # {} THEN "compatible" ELSE "empty"

-----------------------------------------------------------------------------

ContractsTypeOK ==
  /\ AdmissionTypeOK
  /\ supported \subseteq Revisions
  /\ provided \in [Services -> SUBSET Contracts]
  /\ admitted # Missing => Manifest[admitted.manifest].id \in Modules /\ admitted.snapshot.host \in Hosts
  /\ negotiated # Missing => negotiated.unsupported \subseteq negotiated.requested
  /\ bound # Missing => DOMAIN bound.services = DOMAIN bound.requirements
  /\ \A i \in Modules : states[i] # Missing =>
       /\ states[i].effective \in {"compatible", "blocked", "stale"}
       /\ states[i].freshness <=> states[i].effective # "stale"

ContractsInit ==
  /\ AdmissionInit
  /\ supported = Revisions
  /\ provided = [s \in Services |-> Contracts]
  /\ admitted = Missing /\ negotiated = Missing /\ bound = Missing
  /\ states = [i \in Modules |-> Missing]

\* evaluate_module_compatibility
AdmitModule(m) ==
  /\ Evidence(m) /\ InScope(m)
  /\ admitted' = Admission(m, Snapshot)
  /\ UNCHANGED <<admissionVars, supported, provided, negotiated, bound, states>>

Negotiate(m) ==
  /\ Evidence(m)
  /\ negotiated' = Negotiation(m, supported, host)
  /\ UNCHANGED <<admissionVars, supported, provided, admitted, bound, states>>

\* Both documents in hand, whenever they were made.
Ready == admitted # Missing /\ negotiated # Missing /\ Bindable(negotiated, admitted)

Bind ==
  /\ bound = Missing /\ Ready
  /\ DOMAIN Manifest[admitted.manifest].services # {}
  /\ bound' = MultiBinding(ModuleBinding(negotiated, admitted), provided)
  /\ UNCHANGED <<admissionVars, supported, provided, admitted, negotiated, states>>

\* The binding is revalidated against the documents and profiles the caller now has.
Show ==
  /\ bound # Missing /\ Ready
  /\ LET fresh == MultiBinding(ModuleBinding(negotiated, admitted), provided)
     IN  /\ fresh.binding.module = bound.binding.module
         /\ states' = [states EXCEPT ![fresh.binding.module] = State(bound, fresh)]
  /\ UNCHANGED <<admissionVars, supported, provided, admitted, negotiated, bound>>

\* External: a service loses a contract, or an upgrade drops a revision.
ChangeContracts ==
  /\ changes < MaxChanges /\ changes' = changes + 1
  /\ \/ \E r \in supported : supported' = supported \ {r} /\ UNCHANGED provided
     \/ \E s \in Services : \E c \in provided[s] :
          provided' = [provided EXCEPT ![s] = @ \ {c}] /\ UNCHANGED supported
  /\ UNCHANGED <<artifactVars, runtimeVars, policy, decision, revalidation>>
  /\ UNCHANGED <<admitted, negotiated, bound, states>>

ContractsNext ==
  \/ AdmissionNext /\ UNCHANGED contractVars
  \/ \E p \in accepted : AdmitModule(Package[p].manifest) \/ Negotiate(Package[p].manifest)
  \/ Bind \/ Show \/ ChangeContracts

ContractsSpec == ContractsInit /\ [][ContractsNext]_chainVars

-----------------------------------------------------------------------------

\* When the index of a Home Center version says compatible, every module in it rests
\* on a whole chain: a verified package, an admission without reasons on a runtime of
\* that version, revisions all of which a profile of that version supports, and for
\* every service it requires a profile that provides the contracts; no link of the
\* chain would be found stale on its own; and if neither runtime nor profiles moved
\* since, all of that holds now
\* (module_home_service_compatibility_state_index.py:185-258).
CompatibleIndexRests ==
  \A h \in Hosts : Summary(h) = "compatible" =>
    \A i \in Shown(h) :
      LET b == states[i].binding
          m == b.binding.manifest
      IN  /\ Manifest[m].id = i /\ Evidence(m) /\ LinksCurrent(states[i].original, b)
          /\ b.binding.admission.snapshot.host = h /\ h \in Manifest[m].hosts
          /\ Manifest[m].requests \subseteq b.binding.profile
          /\ \A s \in DOMAIN Manifest[m].services : Manifest[m].services[s] \subseteq b.services[s].provides
          /\ Snapshot = b.binding.admission.snapshot /\ provided = [s \in Services |->
                IF s \in DOMAIN b.services THEN b.services[s].provides ELSE provided[s]]
             => /\ Reasons(m, Snapshot) = {}
                /\ \A s \in DOMAIN Manifest[m].services : Manifest[m].services[s] \subseteq provided[s]
=============================================================================
