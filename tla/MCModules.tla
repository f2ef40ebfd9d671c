------------------------------ MODULE MCModules ------------------------------
(* Three good packages of two modules and bad ones, two stagers, one or two  *)
(* changes of everything the decisions depend on.                            *)
EXTENDS ModuleContracts, TLC

CONSTANTS ma, mb, a1, a2, b1, h1, h2, c1, k1, k2, s1, s2, pub, r1, r2, svc, ct

MCActions ==
  {[id |-> i, permission |-> "manage", risk |-> "mutation", idempotent |-> TRUE] :
     i \in {"install", "uninstall", "upgrade", "downgrade"}}
  \cup {[id |-> "probe", permission |-> "view", risk |-> "read-only", idempotent |-> FALSE]}

Base ==
  [id |-> ma, version |-> 1, publisher |-> pub, hosts |-> {h1}, needs |-> {}, deps |-> {},
   conflicts |-> {}, permissions |-> {"manage", "view"}, actions |-> MCActions,
   storage |-> {[id |-> "data", kind |-> "persistent", backup |-> TRUE]},
   backup |-> [required |-> TRUE, data |-> {"data"}, restore |-> TRUE],
   lifecycle |-> [install |-> [action |-> "install", rollback |-> "uninstall"],
                  upgrade |-> [action |-> "upgrade", rollback |-> "downgrade"],
                  remove |-> "uninstall"],
   signers |-> {k1, k2}, threshold |-> 1, development |-> FALSE,
   requests |-> {r1}, services |-> [s \in {svc} |-> {ct}]]

\* mb needs version 2 of ma; version 1 of ma conflicts with mb.  The rest is invalid: a
\* dependency of ma on itself, data without backup, a removal that is no mutation, an
\* action without permission.
MCManifest ==
  LET A1 == [Base EXCEPT !.conflicts = {mb}]
      Good == [m \in {a1, a2, b1} |->
        CASE m = a1 -> A1
          [] m = a2 -> [Base EXCEPT !.version = 2, !.needs = {c1}, !.hosts = {h1, h2}]
          [] m = b1 -> [Base EXCEPT !.id = mb, !.services = [s \in {} |-> {}],
                          !.deps = {[id |-> ma, from |-> 2, below |-> 3, optional |-> FALSE]}]]
  IN  Good
      @@ ("self" :> [A1 EXCEPT !.deps = {[id |-> ma, from |-> 1, below |-> 2, optional |-> TRUE]}])
      @@ ("bare" :> [A1 EXCEPT !.backup.data = {}])
      @@ ("stuck" :> [A1 EXCEPT !.lifecycle.remove = "probe"])
      @@ ("undeclared" :> [A1 EXCEPT !.permissions = {"view"}])

MCManifests == DOMAIN MCManifest

\* Every manifest in a package of its own, and packages of a1 and b1 that hold unsafe
\* names, an ambiguous envelope, another archive or no manifest.
MCPackage ==
  LET Holding(m) == [manifest |-> m, bytes |-> m, statement |-> m, archive |-> "well-formed", envelope |-> "canonical",
                     signatures |-> {[key |-> k1, over |-> m]}]
  IN  [m \in MCManifests |-> Holding(m)]
      @@ ("unsafe" :> [Holding(a1) EXCEPT !.archive = "unsafe"])
      @@ ("ambiguous" :> [Holding(a1) EXCEPT !.envelope = "doubled key"])
      @@ ("other" :> [Holding(b1) EXCEPT !.bytes = a1])
      @@ ("garbage" :> [Holding(a1) EXCEPT !.manifest = Missing])

MCPackages == DOMAIN MCPackage

Open == [blocked |-> {}, restricted |-> FALSE, publishers |-> {}, required |-> {}, limit |-> 2]

MCPolicies ==
  {Open,
   [blocked |-> {mb}, restricted |-> TRUE, publishers |-> {pub}, required |-> {c1}, limit |-> 1]}

\* Staging, a decision on candidates and the chain of contracts read the verified packages
\* and the runtime and write nothing another of the three reads: one is followed at a time, and the object
\* store and the policy differ from the ordinary only for the one that reads them.
Following == {f \in {"staging", "decision", "contracts"} :
                CASE f = "staging"   -> \E p \in Staged : store[p] # "absent" \/ \E s \in Stagers : position[s] # "idle"
                  [] f = "decision"  -> decision # Missing \/ policy # Open
                  [] f = "contracts" -> admitted # Missing \/ negotiated # Missing}

OneAtATime == Cardinality(Following) <= 1

Symmetry == Permutations({s1, s2})
=============================================================================
