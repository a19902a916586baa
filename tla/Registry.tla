------------------------------ MODULE Registry ------------------------------
(***************************************************************************)
(* Handles, deployers and records, and the three places a record lives:    *)
(* RECORDS and the tag index in stable memory, the certified tree on the   *)
(* heap (canisters/names/src/lib.rs, names.rs, store.rs, directory.rs,     *)
(* certify.rs). Every handler here is one message without an await, so one *)
(* action. An upgrade replaces the heap and runs post_upgrade.             *)
(*                                                                         *)
(* Abstracted: the grammar of names, keys and values; time stamps; why a   *)
(* flat name lapses or changes hands, which is Market's subject: here it   *)
(* may happen at any time. Of the provenance keys, "hash" stands for repo, *)
(* commit and module_hash, and "deployer" for deployer and announced_ns.   *)
(***************************************************************************)
EXTENDS Integers, FiniteSets

CONSTANTS
  None,         \* Rust's Option::None
  Principals,   \* callers other than the anonymous one
  Controllers,  \* principals that administer the canister
  Handles,
  Labels,
  FlatNames,
  Canisters,    \* canisters a scoped name may point at
  Tags,
  TagLists,     \* values of a tags record: sets of tags check_tags admits
  Notes,        \* values of a text record without a meaning of its own
  Modules,      \* what a hash may name
  MaxText,      \* MAX_TEXT_RECORDS
  Stored        \* states of an older version's stable memory to upgrade from

VARIABLES
  schema,      \* META "schema"
  market,      \* META "harberger", as far as its layout and market flag go
  handles,     \* HANDLES
  deployers,   \* DEPLOYERS
  records,     \* RECORDS
  tags,        \* TAGS: <<tag, name>>
  tree,        \* TREE: name -> certified bytes
  lapsed       \* flat names whose holder's time is over

vars == <<schema, market, handles, deployers, records, tags, tree, lapsed>>

SCHEMA == 4

ASSUME RegistryAssumption ==
  /\ Controllers \subseteq Principals
  /\ MaxText \in Nat
  /\ TagLists \subseteq SUBSET Tags
  /\ None \notin Principals \cup Canisters \cup FlatNames
  /\ None \notin Modules /\ None \notin Notes /\ None \notin TagLists

-----------------------------------------------------------------------------
(* Data *)

ScopedNames == Handles \X Labels

Names == ScopedNames \cup FlatNames

HandleOf(n) == n[1]

\* An address is the canister, an alias is the name.
Targets == Canisters \cup ScopedNames

Handle == [owner : Principals, deployer : Principals \cup {None}]

ProvenanceKeys == {"hash", "deployer"}
AnnounceKeys == {"deployer"}
Keys == {"tags", "note"} \cup ProvenanceKeys

Values == [tags |-> TagLists, note |-> Notes, hash |-> Modules, deployer |-> Principals]

\* The text records of one name, sorted by key and unique: a function.
Texts == [tags : TagLists \cup {None}, note : Notes \cup {None},
          hash : Modules \cup {None}, deployer : Principals \cup {None}]

Record == [owner : Principals, target : Targets, text : Texts]

Blank == [k \in Keys |-> None]

NewRecord(owner, target) == [owner |-> owner, target |-> target, text |-> Blank]

\* The certified bytes: one line per field and per text record.
Canonical(r) ==
  {<<"owner", r.owner>>, <<"target", r.target>>}
  \cup {<<"text", k, r.text[k]>> : k \in {k \in Keys : r.text[k] # None}}

Markets == {"unset", "v2", "open", "closed"}

Lines ==
  {"owner"} \X Principals \cup {"target"} \X Targets
  \cup UNION {{"text"} \X {k} \X Values[k] : k \in Keys}

\* What an older version leaves: typed, no newer than the code, and every
\* scoped name its handle owner's. A flat name is not a scoped one.
ASSUME StoredAssumption ==
  /\ FlatNames \cap ScopedNames = {}
  /\ None \notin Record /\ None \notin Handle
  /\ \A s \in Stored :
       /\ s.schema \in 1..SCHEMA - 1
       /\ s.market \in Markets
       /\ s.handles \in [Handles -> Handle \cup {None}]
       /\ s.deployers \subseteq Principals
       /\ s.records \in [Names -> Record \cup {None}]
       /\ \A n \in ScopedNames : s.records[n] # None =>
            /\ s.handles[HandleOf(n)] # None
            /\ s.handles[HandleOf(n)].owner = s.records[n].owner

TypeOK ==
  /\ schema \in 1..SCHEMA
  /\ market \in Markets
  /\ handles \in [Handles -> Handle \cup {None}]
  /\ deployers \subseteq Principals
  /\ records \in [Names -> Record \cup {None}]
  /\ tags \subseteq Tags \X Names
  /\ \A n \in Names : tree[n] = None \/ tree[n] \subseteq Lines
  /\ lapsed \subseteq FlatNames

-----------------------------------------------------------------------------
(* Text records *)

HasAnnouncement(text) == text["deployer"] # None

OwnerText(text) == {k \in Keys \ ProvenanceKeys : text[k] # None}

\* set_owner_text refuses the announce keys, the provenance of an announced
\* name, and more than MaxText records of the owner's.
OwnerMaySet(text, key, value) ==
  /\ key \notin AnnounceKeys
  /\ ~(key \in ProvenanceKeys /\ HasAnnouncement(text))
  /\ value # None /\ key \notin ProvenanceKeys =>
       Cardinality(OwnerText(text) \ {key}) < MaxText

ClearProvenance(text) == [k \in Keys |-> IF k \in ProvenanceKeys THEN None ELSE text[k]]

SetProvenance(text, deployer, module) ==
  [text EXCEPT !["deployer"] = deployer, !["hash"] = module]

\* Mutant of Repointed: the announcement goes, the hash stays.
RepointedKeepingHash(r, target) ==
  [r EXCEPT !.target = target,
            !.text = IF r.target # target THEN [@ EXCEPT !["deployer"] = None] ELSE @]

\* Mutant of Repointed: the announcement outlives the change of target.
RepointedAnnounced(r, target) == [r EXCEPT !.target = target]

Repointed(r, target) ==
  [r EXCEPT !.target = target,
            !.text = IF r.target # target THEN ClearProvenance(@) ELSE @]

-----------------------------------------------------------------------------
(* The three places a record lives *)

\* Mutant of Entries: the key's parts in the wrong order.
EntriesByName(n, r) ==
  IF r = None \/ r.text["tags"] = None THEN {} ELSE {n} \X r.text["tags"]

Entries(n, r) ==
  IF r = None \/ r.text["tags"] = None THEN {} ELSE r.text["tags"] \X {n}

\* Mutant of Commit: the old tags are not removed.
CommitKeepingTags(n, r) ==
  /\ tags' = tags \cup Entries(n, r)
  /\ tree' = [tree EXCEPT ![n] = Canonical(r)]
  /\ records' = [records EXCEPT ![n] = r]

\* Mutant of Commit: a name is certified once.
CommitCertifiedOnce(n, r) ==
  /\ tags' = (tags \ Entries(n, records[n])) \cup Entries(n, r)
  /\ tree' = IF tree[n] = None THEN [tree EXCEPT ![n] = Canonical(r)] ELSE tree
  /\ records' = [records EXCEPT ![n] = r]

\* lib.rs commit().
Commit(n, r) ==
  /\ tags' = (tags \ Entries(n, records[n])) \cup Entries(n, r)
  /\ tree' = [tree EXCEPT ![n] = Canonical(r)]
  /\ records' = [records EXCEPT ![n] = r]

Remove(n) ==
  /\ records' = [records EXCEPT ![n] = None]
  /\ tags' = tags \ Entries(n, records[n])
  /\ tree' = [tree EXCEPT ![n] = None]

CertifiedTree(rs) == [n \in Names |-> IF rs[n] = None THEN None ELSE Canonical(rs[n])]

TagIndex(rs) == UNION {Entries(n, rs[n]) : n \in Names}

-----------------------------------------------------------------------------
(* Handlers *)

\* No message is handled before post_upgrade has run.
Running == schema = SCHEMA

OwnsHandle(p, h) == handles[h] # None /\ handles[h].owner = p

\* authorize, authorize_flat.
MayWrite(p, n) ==
  IF n \in ScopedNames THEN OwnsHandle(p, HandleOf(n))
  ELSE records[n] # None /\ records[n].owner = p /\ n \notin lapsed

RegisterHandle(p, h) ==
  /\ Running
  /\ handles[h] = None
  /\ handles' = [handles EXCEPT ![h] = [owner |-> p, deployer |-> None]]
  /\ UNCHANGED <<schema, market, deployers, records, tags, tree, lapsed>>

SetHandleDeployer(p, h, d) ==
  /\ Running
  /\ OwnsHandle(p, h)
  /\ d \in deployers \cup {None}
  /\ handles' = [handles EXCEPT ![h].deployer = d]
  /\ UNCHANGED <<schema, market, deployers, records, tags, tree, lapsed>>

AddDeployer(p, d) ==
  /\ Running /\ p \in Controllers
  /\ deployers' = deployers \cup {d}
  /\ UNCHANGED <<schema, market, handles, records, tags, tree, lapsed>>

RemoveDeployer(p, d) ==
  /\ Running /\ p \in Controllers
  /\ d \in deployers
  /\ deployers' = deployers \ {d}
  /\ UNCHANGED <<schema, market, handles, records, tags, tree, lapsed>>

\* Mutant of HandleAfter: the handle goes to whoever announces under it.
HandleTaken(h, p) == [handles EXCEPT ![h] = [owner |-> p, deployer |-> None]]

\* Mutant of OwnerUnder: a name is its deployer's.
OwnerIsDeployer(h, p) == p

HandleAfter(h, p) ==
  IF handles[h] = None
  THEN [handles EXCEPT ![h] = [owner |-> p, deployer |-> None]] ELSE handles

OwnerUnder(h, p) == IF handles[h] = None THEN p ELSE handles[h].owner

\* An unregistered handle becomes the deployer's. A name that exists keeps
\* its owner and its owner's text.
Announce(p, n, canister, module) ==
  LET h == HandleOf(n)
      r == IF records[n] = None THEN NewRecord(OwnerUnder(h, p), canister)
           ELSE records[n] IN
  /\ Running
  /\ p \in deployers
  /\ handles[h] # None => p \in {handles[h].owner, handles[h].deployer}
  /\ handles' = HandleAfter(h, p)
  /\ Commit(n, [r EXCEPT !.target = canister, !.text = SetProvenance(@, p, module)])
  /\ UNCHANGED <<schema, market, deployers, lapsed>>

\* A name may not alias itself, a flat name only a scoped one.
SetRecord(p, n, target) ==
  /\ Running
  /\ MayWrite(p, n)
  /\ target # n
  /\ n \in FlatNames => target \in ScopedNames
  /\ Commit(n, IF records[n] = None THEN NewRecord(p, target)
               ELSE Repointed(records[n], target))
  /\ UNCHANGED <<schema, market, handles, deployers, lapsed>>

SetText(p, n, key, value) ==
  /\ Running
  /\ MayWrite(p, n)
  /\ records[n] # None
  /\ OwnerMaySet(records[n].text, key, value)
  /\ Commit(n, [records[n] EXCEPT !.text[key] = value])
  /\ UNCHANGED <<schema, market, handles, deployers, lapsed>>

DeleteRecord(p, n) ==
  /\ Running
  /\ MayWrite(p, n)
  /\ records[n] # None
  /\ Remove(n)
  /\ UNCHANGED <<schema, market, handles, deployers, lapsed>>

\* buy() and auction.rs close(): a flat name has a new holder, or the same
\* one again, and its text records are dropped.
ChangeHands(p, n, target) ==
  /\ Running
  /\ Commit(n, NewRecord(p, target))
  /\ lapsed' = lapsed \ {n}
  /\ UNCHANGED <<schema, market, handles, deployers>>

\* Time passes, or set_harberger_config makes the grace period shorter: of
\* some names the balance and the grace period are over.
Lapse(ns) ==
  /\ Running
  /\ \A n \in ns : records[n] # None
  /\ lapsed' = lapsed \cup ns
  /\ UNCHANGED <<schema, market, handles, deployers, records, tags, tree>>

\* set_harberger_config makes the grace period longer: names whose holder's
\* time was over are held again.
Revive(ns) ==
  /\ Running
  /\ lapsed' = lapsed \ ns
  /\ UNCHANGED <<schema, market, handles, deployers, records, tags, tree>>

-----------------------------------------------------------------------------
(* Upgrades *)

\* Before schema 4 an owner could write the announce keys.
WithoutMarkers(rs) ==
  [n \in Names |->
     IF rs[n] = None THEN None
     ELSE [rs[n] EXCEPT !.text = [k \in Keys |-> IF k \in AnnounceKeys THEN None ELSE @[k]]]]

\* Mutant of Rebuilt: the tree is filled before the migration.
RebuiltFromStored(rs) == CertifiedTree(records)

\* certify::rebuild, from the records as migrated.
Rebuilt(rs) == CertifiedTree(rs)

\* The heap is gone; a stable memory newer than the code traps, and the
\* upgrade does not take place.
PostUpgrade ==
  LET migrated == IF schema < 4 THEN WithoutMarkers(records) ELSE records IN
  /\ schema <= SCHEMA
  /\ records' = migrated
  /\ tree' = Rebuilt(migrated)
  /\ tags' = IF schema < 2 THEN TagIndex(migrated) ELSE tags
  /\ market' = IF schema < 3 /\ market = "v2" THEN "closed" ELSE market
  /\ schema' = SCHEMA
  /\ UNCHANGED <<handles, deployers, lapsed>>

-----------------------------------------------------------------------------
(* Specification *)

\* A fresh install, or the stable memory of an older version.
Init ==
  /\ tree = [n \in Names |-> None]
  /\ lapsed = {}
  /\ \/ /\ schema = SCHEMA
        /\ market = "unset"
        /\ handles = [h \in Handles |-> None]
        /\ deployers = {}
        /\ records = [n \in Names |-> None]
        /\ tags = {}
     \/ \E s \in Stored :
          /\ schema = s.schema
          /\ market = s.market
          /\ handles = s.handles
          /\ deployers = s.deployers
          /\ records = s.records
          /\ tags = IF s.schema < 2 THEN {} ELSE TagIndex(s.records)

OwnHandle(p) ==
  \E h \in Handles :
    \/ RegisterHandle(p, h)
    \/ \E d \in Principals \cup {None} : SetHandleDeployer(p, h, d)

WriteName(p) ==
  \E n \in Names :
    \/ \E t \in Targets : SetRecord(p, n, t)
    \/ \E k \in Keys : \E v \in Values[k] \cup {None} : SetText(p, n, k, v)
    \/ DeleteRecord(p, n)

Deploy(p) ==
  \E n \in ScopedNames, c \in Canisters, m \in Modules : Announce(p, n, c, m)

Administer(p) ==
  \E d \in Principals : AddDeployer(p, d) \/ RemoveDeployer(p, d)

Trade ==
  \/ \E p \in Principals, n \in FlatNames, t \in ScopedNames : ChangeHands(p, n, t)
  \/ \E ns \in SUBSET FlatNames : Lapse(ns) \/ Revive(ns)

Next ==
  \/ \E p \in Principals : OwnHandle(p) \/ WriteName(p) \/ Deploy(p)
  \/ \E p \in Controllers : Administer(p)
  \/ Trade
  \/ PostUpgrade

Spec == Init /\ [][Next]_vars

-----------------------------------------------------------------------------
(* What the registry promises *)

\* The tag index is "kept in step on every write" (lib.rs, post_upgrade)
\* and through upgrades from every schema: a tag search finds exactly the
\* names whose record carries the tag.
IndexInStep == Running => tags = TagIndex(records)

\* What is certified is what is stored, for every name, after every write,
\* migration and upgrade: a verifier accepts an honest answer and no other.
TreeInStep == Running => tree = CertifiedTree(records)

\* A scoped name belongs to whoever owns its handle, whoever created it.
OwnersAgree ==
  \A n \in ScopedNames : records[n] # None =>
    OwnsHandle(records[n].owner, HandleOf(n))

\* A handle is "first come, first served; permanent" (lib.rs): no message
\* and no upgrade takes it from its owner.
HandlesPermanent ==
  [][\A h \in Handles : handles[h] # None =>
       handles'[h] # None /\ handles'[h].owner = handles[h].owner]_vars

\* A name that says a deployer announced it, and what it then shows: the
\* deployer, the canister and the code.
Announced(n) == records[n] # None /\ HasAnnouncement(records[n].text)

Attestation(n) ==
  <<records[n].text["deployer"], records[n].target, records[n].text["hash"]>>

\* d may report on n now.
Entitled(d, n) ==
  /\ n \in ScopedNames
  /\ d \in deployers
  /\ handles[HandleOf(n)] # None =>
       d \in {handles[HandleOf(n)].owner, handles[HandleOf(n)].deployer}

\* "What the directory shows is what the deployer reported" (names.rs): a
\* name that says a deployer announced it was announced by a deployer who
\* was allowed to, and shows the canister and code of that announcement.
AttestationsGenuine ==
  [][\A n \in Names : Announced(n)' =>
       \/ Announced(n) /\ Attestation(n)' = Attestation(n)
       \/ Entitled(Attestation(n)'[1], n)]_vars

\* "A stale module_hash would pin the new target to the old code"
\* (names.rs): provenance outlives a change of target only as part of a new
\* announcement.
NoStaleProvenance ==
  [][\A n \in Names :
       /\ records[n] # None /\ records'[n] # None
       /\ records'[n].target # records[n].target
       /\ records'[n].text["hash"] # None
       => Announced(n)']_vars
=============================================================================
