--------------------------- MODULE ModuleArtifacts ---------------------------
(***************************************************************************)
(* The artifacts of third-party modules: what a manifest must declare, when *)
(* a package is verified against the trust policy of its publisher, and how *)
(* several processes stage a verified archive in the content-addressed      *)
(* object store, where any of them may die between two system calls.        *)
(*                                                                         *)
(* A digest is the thing it is the digest of; a signature names its key and *)
(* the statement it was made over.                                          *)
(***************************************************************************)
EXTENDS Integers, FiniteSets

CONSTANTS
  Manifests,        \* names of manifests
  Manifest,         \* what each declares
  Packages,         \* names of packages submitted, well-formed or not
  Package,          \* what each holds
  Keys,             \* keys of the trust policy
  PolicyThreshold,  \* signatures that policy asks for
  Stagers,          \* processes that stage archives
  Staged,           \* the packages they are given
  Missing

ASSUME ArtifactsAssumption ==
  /\ Staged \subseteq Packages
  /\ PolicyThreshold \in Nat \ {0}
  /\ Missing \notin Packages

VARIABLES
  keys,      \* state of each key of the trust policy
  accepted,  \* packages with a verified-artifact record
  store,     \* content at the place of each package's archive
  position,  \* where a stager stands
  staging,   \* the package it stages
  temp,      \* content of its temporary file
  answer     \* packages it reported created

stagerVars == <<store, position, staging, temp, answer>>
artifactVars == <<keys, accepted, stagerVars>>

-----------------------------------------------------------------------------
(* What a manifest declares.                                               *)

\* A payload that is not one JSON object of bounded size has no manifest.
Readable(p) == Package[p].manifest # Missing

\* The envelope is canonical base64 of canonical JSON, with every key once.
Decodable(p) == Package[p].envelope = "canonical"

\* Identity, intervals, dependencies and conflicts.
Related(m) ==
  /\ Manifest[m].hosts # {}
  /\ \A d \in Manifest[m].deps : d.id # Manifest[m].id /\ d.from < d.below
  /\ \A d, e \in Manifest[m].deps : d.id = e.id => d = e
  /\ Manifest[m].id \notin Manifest[m].conflicts
  /\ Manifest[m].conflicts \cap {d.id : d \in Manifest[m].deps} = {}

\* Every action runs under a declared permission, and one that mutates can be repeated.
ActionsDeclared(m) ==
  /\ Cardinality(Manifest[m].actions) \in 5 .. 128
  /\ \A a \in Manifest[m].actions :
       /\ a.permission \in Manifest[m].permissions
       /\ a.risk # "read-only" => a.idempotent
  /\ \A a, b \in Manifest[m].actions : a.id = b.id => a = b

\* Exactly the persistent data that asks for it is backed up, and can be restored.
BackedUp(m) ==
  LET persistent == {s.id : s \in {r \in Manifest[m].storage : r.kind = "persistent" /\ r.backup}}
  IN  /\ \A s \in Manifest[m].storage : s.kind = "cache" => ~s.backup
      /\ IF Manifest[m].backup.required
           THEN Manifest[m].backup.data = persistent /\ Manifest[m].backup.restore
           ELSE Manifest[m].backup.data = {} /\ persistent = {} /\ ~Manifest[m].backup.restore

\* Installation and upgrade name a mutation and a different one that undoes it.
Reversible(m) ==
  LET mutations == {a.id : a \in {b \in Manifest[m].actions : b.risk = "mutation"}}
  IN  /\ \A s \in {Manifest[m].lifecycle.install, Manifest[m].lifecycle.upgrade} :
           s.action \in mutations /\ s.rollback \in mutations /\ s.action # s.rollback
      /\ Manifest[m].lifecycle.remove \in mutations

Valid(m) ==
  /\ Related(m) /\ ActionsDeclared(m) /\ BackedUp(m) /\ Reversible(m)
  /\ Manifest[m].threshold \in 1 .. Cardinality(Manifest[m].signers)

ValidManifests == {m \in Manifests : Valid(m)}

\* The module serves the product, not its own development.
InScope(m) == ~Manifest[m].development

-----------------------------------------------------------------------------
(* Verification of a package.                                              *)

ActiveKeys(ks) == {k \in ks : keys[k] = "active"}

\* The trust policy knows the declared signers and enough of them are active.
Trusted(m) ==
  /\ Manifest[m].signers \subseteq Keys
  /\ PolicyThreshold <= Cardinality(ActiveKeys(Manifest[m].signers))

\* Every signature is by a declared key that is not revoked, over this statement,
\* and the active ones reach both thresholds.
Signed(p) ==
  LET signing == {s.key : s \in Package[p].signatures}
  IN  /\ \A s \in Package[p].signatures : s.over = Package[p].statement
      /\ signing \subseteq Manifest[Package[p].manifest].signers
      /\ \A k \in signing : keys[k] # "revoked"
      /\ Cardinality(ActiveKeys(signing)) >= PolicyThreshold
      /\ Cardinality(ActiveKeys(signing)) >= Manifest[Package[p].manifest].threshold

\* The statement is about this manifest and the archive it declares.
Stated(p) == Package[p].statement = Package[p].manifest

\* A gzip tar of regular files and directories with safe, distinct names.
WellFormed(p) == Package[p].archive = "well-formed"

\* What of a package no trust policy can change.
Sound ==
  {p \in Packages :
     /\ Readable(p) /\ Decodable(p) /\ Package[p].manifest \in ValidManifests
     /\ Package[p].bytes = Package[p].manifest
     /\ Stated(p) /\ WellFormed(p)}

Verified(p) == p \in Sound /\ Trusted(Package[p].manifest) /\ Signed(p)

VerifyPackage(p) ==
  /\ p \notin accepted /\ Verified(p)
  /\ accepted' = accepted \cup {p}
  /\ UNCHANGED <<keys, stagerVars>>

\* External: the publisher's trust policy retires or revokes a key.
Demote(k) ==
  /\ keys[k] # "revoked"
  /\ \E st \in {"retired", "revoked"} \ {keys[k]} : keys' = [keys EXCEPT ![k] = st]
  /\ UNCHANGED <<accepted, stagerVars>>

-----------------------------------------------------------------------------
(* Staging: verify, look, write a temporary file, link it, remove it.      *)

ArtifactsTypeOK ==
  /\ keys \in [Keys -> {"active", "retired", "revoked"}]
  /\ accepted \subseteq Packages
  /\ store \in [Staged -> {"absent", "partial", "complete", "foreign"}]
  /\ position \in [Stagers -> {"idle", "look", "write", "link", "compare", "tidy"}]
  /\ staging \in [Stagers -> Staged \cup {Missing}]
  /\ temp \in [Stagers -> {"none", "partial", "complete"}]
  /\ answer \in [Stagers -> SUBSET Staged]

\* The object store may already hold something else at a place.
ArtifactsInit ==
  /\ keys = [k \in Keys |-> "active"]
  /\ accepted = {}
  /\ store \in [Staged -> {"absent", "foreign"}]
  /\ position = [s \in Stagers |-> "idle"]
  /\ staging = [s \in Stagers |-> Missing]
  /\ temp = [s \in Stagers |-> "none"]
  /\ answer = [s \in Stagers |-> {}]

MoveTo(s, at) == position' = [position EXCEPT ![s] = at]

\* A stager comes back to rest; nobody looks at a temporary file again, removed or not.
Rest(s) ==
  /\ MoveTo(s, "idle")
  /\ staging' = [staging EXCEPT ![s] = Missing]
  /\ temp' = [temp EXCEPT ![s] = "none"]

Stage(s, p) ==
  /\ position[s] = "idle" /\ Verified(p)
  /\ accepted' = accepted \cup {p}
  /\ staging' = [staging EXCEPT ![s] = p]
  /\ MoveTo(s, "look")
  /\ UNCHANGED <<keys, store, temp, answer>>

\* Equal bytes end the call; other bytes are a collision; nothing means go on.
Look(s) ==
  /\ position[s] \in {"look", "compare"}
  /\ IF store[staging[s]] = "absent"
       THEN MoveTo(s, "write") /\ UNCHANGED <<staging, temp>>
       ELSE Rest(s)
  /\ UNCHANGED <<keys, accepted, store, answer>>

Write(s) ==
  /\ position[s] = "write"
  /\ \/ temp[s] = "none" /\ temp' = [temp EXCEPT ![s] = "partial"] /\ UNCHANGED position
     \/ temp[s] = "partial" /\ temp' = [temp EXCEPT ![s] = "complete"] /\ MoveTo(s, "link")
  /\ UNCHANGED <<keys, accepted, store, staging, answer>>

\* Mutant: the temporary file is renamed over whatever is there.
LinkOver(s) ==
  /\ position[s] = "link"
  /\ store' = [store EXCEPT ![staging[s]] = temp[s]]
  /\ MoveTo(s, "tidy")
  /\ UNCHANGED <<keys, accepted, staging, temp, answer>>

\* link(2) creates the name or finds it taken, in one step.
Link(s) ==
  /\ position[s] = "link"
  /\ IF store[staging[s]] = "absent"
       THEN store' = [store EXCEPT ![staging[s]] = temp[s]] /\ MoveTo(s, "tidy")
       ELSE MoveTo(s, "compare") /\ UNCHANGED store
  /\ UNCHANGED <<keys, accepted, staging, temp, answer>>

Tidy(s) ==
  /\ position[s] = "tidy"
  /\ answer' = [answer EXCEPT ![s] = @ \cup {staging[s]}]
  /\ Rest(s)
  /\ UNCHANGED <<keys, accepted, store>>

\* Mutant: a failure after the link removes the object as well.
FailUnlinking(s) ==
  /\ position[s] # "idle"
  /\ Rest(s)
  /\ store' = IF position[s] = "tidy" THEN [store EXCEPT ![staging[s]] = "absent"] ELSE store
  /\ UNCHANGED <<keys, accepted, answer>>

\* A system call fails or the process dies: what was linked stays.
Fail(s) ==
  /\ position[s] # "idle"
  /\ Rest(s)
  /\ UNCHANGED <<keys, accepted, store, answer>>

StagerStep(s) ==
  \/ \E p \in Staged : Stage(s, p)
  \/ Look(s) \/ Write(s) \/ Link(s) \/ Tidy(s) \/ Fail(s)

ArtifactsNext ==
  \/ \E p \in Packages : VerifyPackage(p)
  \/ \E k \in Keys : Demote(k)
  \/ \E s \in Stagers : StagerStep(s)

-----------------------------------------------------------------------------

\* What is in the object store is a whole archive of a package that was verified,
\* and of all the processes that staged it at most one is told it created it
\* (module_artifact.py:493-566).
StoreIsSound ==
  \A p \in Staged :
    /\ store[p] # "partial"
    /\ store[p] = "complete" => p \in accepted
    /\ Cardinality({s \in Stagers : p \in answer[s]}) <= 1

\* What is at a place in the object store is never replaced: an archive stays whole,
\* and other bytes found there are a collision and not a file to overwrite
\* (module_artifact.py:534-545).
ObjectsStay == [][\A p \in Staged : store[p] # "absent" => store'[p] = store[p]]_artifactVars
=============================================================================
