--------------------------- MODULE Registry_proofs ---------------------------
(***************************************************************************)
(* Theorems on Registry, for any number of principals, names, tags and     *)
(* stored states: types, the three copies of a record in step, who owns    *)
(* what, and what announcements attest. The invariant behind them is RInv. *)
(***************************************************************************)
EXTENDS Registry, TLAPS

\* Older versions have an index since schema 2, and it is in step between
\* the upgrade's message and the one before it.
IndexKept == schema >= 2 => tags = TagIndex(records)

RInv == TypeOK /\ TreeInStep /\ IndexKept /\ OwnersAgree

-----------------------------------------------------------------------------
(* Records and texts *)

\* A record without text is a record.
LEMMA NewRecordTyped ==
  ASSUME NEW p \in Principals, NEW t \in Targets
  PROVE  NewRecord(p, t) \in Record
BY DEF NewRecord, Record, Blank, Texts, Keys, ProvenanceKeys

\* The fields of a text.
LEMMA TextFields ==
  ASSUME NEW t \in Texts
  PROVE  /\ t["tags"] \in TagLists \cup {None}
         /\ t["note"] \in Notes \cup {None}
         /\ t["hash"] \in Modules \cup {None}
         /\ t["deployer"] \in Principals \cup {None}
         /\ DOMAIN t = Keys
BY DEF Texts, Keys, ProvenanceKeys

\* What announce writes.
LEMMA SetProvenanceTyped ==
  ASSUME NEW t \in Texts, NEW d \in Principals, NEW m \in Modules
  PROVE  SetProvenance(t, d, m) \in Texts
BY DEF SetProvenance, Texts

\* What a change of target leaves.
LEMMA RepointedTyped ==
  ASSUME NEW r \in Record, NEW t \in Targets
  PROVE  Repointed(r, t) \in Record
<1>1. ClearProvenance(r.text) \in Texts
  BY DEF ClearProvenance, Record, Texts, Keys, ProvenanceKeys
<1> QED BY <1>1 DEF Repointed, Record

\* One text record written or removed.
LEMMA TextWritten ==
  ASSUME NEW t \in Texts, NEW k \in Keys, NEW v \in Values[k] \cup {None}
  PROVE  [t EXCEPT ![k] = v] \in Texts
<1>1. CASE k = "tags" BY <1>1 DEF Texts, Values
<1>2. CASE k = "note" BY <1>2 DEF Texts, Values
<1>3. CASE k = "hash" BY <1>3 DEF Texts, Values
<1>4. CASE k = "deployer" BY <1>4 DEF Texts, Values
<1> QED BY <1>1, <1>2, <1>3, <1>4 DEF Keys, ProvenanceKeys

\* The migration to schema 4 keeps a record a record.
LEMMA MigratedTyped ==
  ASSUME NEW rs \in [Names -> Record \cup {None}]
  PROVE  WithoutMarkers(rs) \in [Names -> Record \cup {None}]
<1> SUFFICES ASSUME NEW n \in Names, rs[n] # None
             PROVE  WithoutMarkers(rs)[n] \in Record
  BY DEF WithoutMarkers
<1> DEFINE u == [k \in Keys |-> IF k \in AnnounceKeys THEN None ELSE rs[n].text[k]]
<1>1. u \in Texts
  BY DEF Record, Texts, Keys, ProvenanceKeys, AnnounceKeys
<1>2. WithoutMarkers(rs)[n] = [rs[n] EXCEPT !.text = u]
  BY DEF WithoutMarkers
<1> QED BY <1>1, <1>2 DEF Record

\* It touches neither owners nor tags.
LEMMA MigratedSame ==
  ASSUME NEW rs \in [Names -> Record \cup {None}], NEW n \in Names, rs[n] # None
  PROVE  /\ WithoutMarkers(rs)[n] # None
         /\ WithoutMarkers(rs)[n].owner = rs[n].owner
         /\ WithoutMarkers(rs)[n].text["tags"] = rs[n].text["tags"]
<1> DEFINE u == [k \in Keys |-> IF k \in AnnounceKeys THEN None ELSE rs[n].text[k]]
<1>1. u \in Texts /\ u["tags"] = rs[n].text["tags"]
  BY DEF Record, Texts, Keys, ProvenanceKeys, AnnounceKeys
<1>2. WithoutMarkers(rs)[n] = [rs[n] EXCEPT !.text = u]
  BY DEF WithoutMarkers
<1> HIDE DEF u
<1>3. rs[n] \in Record
  OBVIOUS
<1>4. [rs[n] EXCEPT !.text = u] = [owner |-> rs[n].owner, target |-> rs[n].target, text |-> u]
  BY <1>3 DEF Record
<1>5. WithoutMarkers(rs)[n] \in Record
  BY <1>1, <1>2, <1>3, <1>4 DEF Record
<1> QED BY <1>1, <1>2, <1>4, <1>5, StoredAssumption

-----------------------------------------------------------------------------
(* Index and tree *)

\* The entries of a record are its own name's.
LEMMA EntriesTyped ==
  ASSUME NEW n \in Names, NEW r \in Record \cup {None}
  PROVE  Entries(n, r) \subseteq Tags \X {n}
BY RegistryAssumption, StoredAssumption, TextFields DEF Entries, Record

\* What is certified of a record is lines.
LEMMA CanonicalTyped ==
  ASSUME NEW r \in Record
  PROVE  Canonical(r) \subseteq Lines
<1>1. r.text \in Texts /\ r.owner \in Principals /\ r.target \in Targets
  BY DEF Record
<1>2. ASSUME NEW k \in Keys, r.text[k] # None
      PROVE  r.text[k] \in Values[k]
  <2>1. CASE k = "tags" BY <1>1, <1>2, <2>1, TextFields DEF Values
  <2>2. CASE k = "note" BY <1>1, <1>2, <2>2, TextFields DEF Values
  <2>3. CASE k = "hash" BY <1>1, <1>2, <2>3, TextFields DEF Values
  <2>4. CASE k = "deployer" BY <1>1, <1>2, <2>4, TextFields DEF Values
  <2> QED BY <2>1, <2>2, <2>3, <2>4 DEF Keys, ProvenanceKeys
<1>3. {<<"text", k, r.text[k]>> : k \in {k \in Keys : r.text[k] # None}}
        \subseteq UNION {{"text"} \X {k} \X Values[k] : k \in Keys}
  BY <1>2
<1> QED BY <1>1, <1>3 DEF Canonical, Lines

\* The index of typed records is typed.
LEMMA IndexTyped ==
  ASSUME NEW rs \in [Names -> Record \cup {None}]
  PROVE  TagIndex(rs) \subseteq Tags \X Names
BY EntriesTyped DEF TagIndex

\* And so is their tree.
LEMMA TreeTyped ==
  ASSUME NEW rs \in [Names -> Record \cup {None}], NEW n \in Names
  PROVE  CertifiedTree(rs)[n] = None \/ CertifiedTree(rs)[n] \subseteq Lines
BY CanonicalTyped DEF CertifiedTree

\* Writing one name's entries anew leaves the index of the records written.
LEMMA IndexUpdate ==
  ASSUME NEW rs \in [Names -> Record \cup {None}], NEW n \in Names,
         NEW r \in Record \cup {None}
  PROVE  TagIndex([rs EXCEPT ![n] = r]) =
           (TagIndex(rs) \ Entries(n, rs[n])) \cup Entries(n, r)
<1> DEFINE qs == [rs EXCEPT ![n] = r]
<1>1. \A m \in Names : qs[m] = IF m = n THEN r ELSE rs[m]
  OBVIOUS
<1>2. \A m \in Names : Entries(m, rs[m]) \subseteq Tags \X {m}
  BY EntriesTyped
<1>3. \A m \in Names : m # n => Entries(m, rs[m]) \cap Entries(n, rs[n]) = {}
  BY <1>2
<1>4. TagIndex(qs) = UNION {Entries(m, qs[m]) : m \in Names}
  BY DEF TagIndex
<1>5. TagIndex(rs) = UNION {Entries(m, rs[m]) : m \in Names}
  BY DEF TagIndex
<1>6. ASSUME NEW e \in TagIndex(qs)
      PROVE  e \in (TagIndex(rs) \ Entries(n, rs[n])) \cup Entries(n, r)
  <2>1. PICK m \in Names : e \in Entries(m, qs[m])
    BY <1>4, <1>6
  <2>2. CASE m = n BY <1>1, <2>1, <2>2
  <2>3. CASE m # n BY <1>1, <1>3, <1>5, <2>1, <2>3
  <2> QED BY <2>2, <2>3
<1>7. ASSUME NEW e \in (TagIndex(rs) \ Entries(n, rs[n])) \cup Entries(n, r)
      PROVE  e \in TagIndex(qs)
  <2>1. CASE e \in Entries(n, r)
    <3>1. e \in Entries(n, qs[n]) BY <1>1, <2>1
    <3> QED BY <1>4, <3>1
  <2>2. CASE e \notin Entries(n, r)
    <3>1. e \in TagIndex(rs) /\ e \notin Entries(n, rs[n]) BY <1>7, <2>2
    <3>2. PICK m \in Names : e \in Entries(m, rs[m]) BY <1>5, <3>1
    <3>3. e \in Entries(m, qs[m]) BY <1>1, <3>1, <3>2
    <3> QED BY <1>4, <3>3
  <2> QED BY <2>1, <2>2
<1> QED BY <1>6, <1>7

\* Writing one name's leaf anew leaves the tree of the records written.
LEMMA TreeUpdate ==
  ASSUME NEW rs \in [Names -> Record \cup {None}], NEW n \in Names,
         NEW r \in Record \cup {None}
  PROVE  CertifiedTree([rs EXCEPT ![n] = r]) =
           [CertifiedTree(rs) EXCEPT ![n] = IF r = None THEN None ELSE Canonical(r)]
BY DEF CertifiedTree

-----------------------------------------------------------------------------
(* What the actions write *)

\* A scoped name is a name, and what stands before the slash is a handle.
LEMMA ScopedHandle ==
  ASSUME NEW n \in ScopedNames
  PROVE  HandleOf(n) \in Handles /\ n \in Names
BY DEF ScopedNames, HandleOf, Names

\* A handle keeps its owner.
Kept(h) == handles[h] # None => handles'[h] # None /\ handles'[h].owner = handles[h].owner

\* Only register_handle, set_handle_deployer and announce write handles.
LEMMA HandlesKept ==
  ASSUME TypeOK, [Next]_vars
  PROVE  \A h \in Handles : Kept(h)
<1> USE DEF Kept
<1>1. CASE handles' = handles
  BY <1>1
<1>2. ASSUME NEW p \in Principals, NEW h \in Handles, RegisterHandle(p, h)
      PROVE  \A g \in Handles : Kept(g)
  BY <1>2 DEF RegisterHandle, TypeOK
<1>3. ASSUME NEW p \in Principals, NEW h \in Handles, NEW d, SetHandleDeployer(p, h, d)
      PROVE  \A g \in Handles : Kept(g)
  <2>1. handles[h] \in Handle
    BY <1>3 DEF SetHandleDeployer, OwnsHandle, TypeOK
  <2> DEFINE written == [owner |-> handles[h].owner, deployer |-> d]
  <2>2. handles' = [handles EXCEPT ![h] = written]
    <3>1. handles[h] = [owner |-> handles[h].owner, deployer |-> handles[h].deployer]
      BY <2>1 DEF Handle
    <3>2. [handles[h] EXCEPT !.deployer = d] = written
      BY <3>1
    <3>3. handles' = [handles EXCEPT ![h] = [handles[h] EXCEPT !.deployer = d]]
      BY <1>3 DEF SetHandleDeployer
    <3> QED BY <3>2, <3>3
  <2>3. [owner |-> handles[h].owner, deployer |-> d] # None
    BY <1>3, <2>1, StoredAssumption DEF SetHandleDeployer, TypeOK, Handle
  <2> QED BY <2>2, <2>3 DEF TypeOK
<1>4. ASSUME NEW p \in Principals, NEW n \in ScopedNames, NEW c, NEW m, Announce(p, n, c, m)
      PROVE  \A g \in Handles : Kept(g)
  BY <1>4, ScopedHandle DEF Announce, HandleAfter, TypeOK
<1>5. CASE UNCHANGED vars
  BY <1>5, <1>1 DEF vars
<1>6. CASE Next
  <2>1. ASSUME NEW p \in Principals, OwnHandle(p) PROVE \A h \in Handles : Kept(h)
    BY <1>2, <1>3, <2>1 DEF OwnHandle
  <2>2. ASSUME NEW p \in Principals, WriteName(p) PROVE handles' = handles
    BY <2>2 DEF WriteName, SetRecord, SetText, DeleteRecord
  <2>3. ASSUME NEW p \in Principals, Deploy(p) PROVE \A h \in Handles : Kept(h)
    BY <1>4, <2>3 DEF Deploy
  <2>4. ASSUME NEW p \in Controllers, Administer(p) PROVE handles' = handles
    BY <2>4 DEF Administer, AddDeployer, RemoveDeployer
  <2>5. Trade => handles' = handles
    BY DEF Trade, ChangeHands, Lapse, Revive
  <2>6. PostUpgrade => handles' = handles
    BY DEF PostUpgrade
  <2> QED BY <1>1, <1>6, <2>1, <2>2, <2>3, <2>4, <2>5, <2>6 DEF Next
<1> QED BY <1>5, <1>6

\* commit keeps the three copies of the record it writes in step.
LEMMA CommitKeeps ==
  ASSUME RInv, Running, NEW n \in Names, NEW r \in Record, Commit(n, r), schema' = schema
  PROVE  /\ records' = [records EXCEPT ![n] = r]
         /\ records' \in [Names -> Record \cup {None}]
         /\ tags' \subseteq Tags \X Names
         /\ \A m \in Names : tree'[m] = None \/ tree'[m] \subseteq Lines
         /\ TreeInStep' /\ IndexKept'
<1>1. records' = [records EXCEPT ![n] = r]
  BY DEF Commit
<1>2. records \in [Names -> Record \cup {None}] /\ r # None
  BY StoredAssumption DEF RInv, TypeOK
<1>3. records' \in [Names -> Record \cup {None}]
  BY <1>1, <1>2
<1>4. tags = TagIndex(records) /\ tree = CertifiedTree(records)
  BY DEF RInv, IndexKept, TreeInStep, Running, SCHEMA
<1>5. tags' = TagIndex(records')
  <2>1. TagIndex(records') =
          (TagIndex(records) \ Entries(n, records[n])) \cup Entries(n, r)
    BY <1>1, <1>2, IndexUpdate
  <2> QED BY <1>4, <2>1 DEF Commit
<1>6. tree' = CertifiedTree(records')
  <2>1. CertifiedTree(records') = [CertifiedTree(records) EXCEPT ![n] = Canonical(r)]
    BY <1>1, <1>2, TreeUpdate
  <2> QED BY <1>4, <2>1 DEF Commit
<1> QED BY <1>1, <1>3, <1>5, <1>6, IndexTyped, TreeTyped DEF TreeInStep, IndexKept

\* So does the removal of a record.
LEMMA RemoveKeeps ==
  ASSUME RInv, Running, NEW n \in Names, Remove(n), schema' = schema
  PROVE  /\ records' = [records EXCEPT ![n] = None]
         /\ records' \in [Names -> Record \cup {None}]
         /\ tags' \subseteq Tags \X Names
         /\ \A m \in Names : tree'[m] = None \/ tree'[m] \subseteq Lines
         /\ TreeInStep' /\ IndexKept'
<1>1. records' = [records EXCEPT ![n] = None]
  BY DEF Remove
<1>2. records \in [Names -> Record \cup {None}]
  BY DEF RInv, TypeOK
<1>3. records' \in [Names -> Record \cup {None}]
  BY <1>1, <1>2
<1>4. tags = TagIndex(records) /\ tree = CertifiedTree(records)
  BY DEF RInv, IndexKept, TreeInStep, Running, SCHEMA
<1>5. tags' = TagIndex(records')
  <2>1. Entries(n, None) = {}
    BY DEF Entries
  <2>2. TagIndex(records') =
          (TagIndex(records) \ Entries(n, records[n])) \cup Entries(n, None)
    BY <1>1, <1>2, IndexUpdate
  <2> QED BY <1>4, <2>1, <2>2 DEF Remove
<1>6. tree' = CertifiedTree(records')
  <2>1. CertifiedTree(records') = [CertifiedTree(records) EXCEPT ![n] = None]
    BY <1>1, <1>2, TreeUpdate
  <2> QED BY <1>4, <2>1 DEF Remove
<1> QED BY <1>1, <1>3, <1>5, <1>6, IndexTyped, TreeTyped DEF TreeInStep, IndexKept

\* A record is its handle's owner's after it is written, if it is then.
LEMMA OwnersKept ==
  ASSUME RInv, NEW n \in Names, NEW r \in Record, records' = [records EXCEPT ![n] = r],
         \A h \in Handles : Kept(h),
         n \in ScopedNames =>
           handles'[HandleOf(n)] # None /\ handles'[HandleOf(n)].owner = r.owner
  PROVE  OwnersAgree'
<1> SUFFICES ASSUME NEW m \in ScopedNames, records'[m] # None
             PROVE  /\ handles'[HandleOf(m)] # None
                    /\ handles'[HandleOf(m)].owner = records'[m].owner
  BY DEF OwnersAgree, OwnsHandle
<1>1. HandleOf(m) \in Handles /\ m \in Names /\ records \in [Names -> Record \cup {None}]
  BY ScopedHandle DEF RInv, TypeOK
<1>2. CASE m = n BY <1>1, <1>2
<1>3. CASE m # n
  <2>1. records'[m] = records[m]
    BY <1>1, <1>3
  <2>2. handles[HandleOf(m)] # None /\ handles[HandleOf(m)].owner = records[m].owner
    BY <2>1 DEF RInv, OwnersAgree, OwnsHandle
  <2>3. Kept(HandleOf(m))
    BY <1>1
  <2> QED BY <2>1, <2>2, <2>3 DEF Kept
<1> QED BY <1>2, <1>3

-----------------------------------------------------------------------------
(* The invariant through every action *)

\* Handlers that write handles and deployers only.
LEMMA HandleStep ==
  ASSUME RInv, UNCHANGED <<schema, market, records, tags, tree, lapsed>>,
         handles' \in [Handles -> Handle \cup {None}], deployers' \subseteq Principals,
         \A h \in Handles : Kept(h)
  PROVE  RInv'
<1>1. TypeOK'
  BY DEF RInv, TypeOK
<1>2. TreeInStep' /\ IndexKept'
  BY DEF RInv, TreeInStep, IndexKept, Running
<1>3. OwnersAgree'
  <2> SUFFICES ASSUME NEW m \in ScopedNames, records[m] # None
               PROVE  /\ handles'[HandleOf(m)] # None
                      /\ handles'[HandleOf(m)].owner = records[m].owner
    BY DEF OwnersAgree, OwnsHandle
  <2>1. handles[HandleOf(m)] # None /\ handles[HandleOf(m)].owner = records[m].owner
    BY DEF RInv, OwnersAgree, OwnsHandle
  <2>2. Kept(HandleOf(m))
    BY ScopedHandle
  <2> QED BY <2>1, <2>2 DEF Kept
<1> QED BY <1>1, <1>2, <1>3 DEF RInv

\* Handlers that commit a record.
LEMMA CommitStep ==
  ASSUME RInv, Running, NEW n \in Names, NEW r \in Record, Commit(n, r),
         UNCHANGED <<schema, market, deployers>>,
         handles' \in [Handles -> Handle \cup {None}], lapsed' \subseteq FlatNames,
         \A h \in Handles : Kept(h),
         n \in ScopedNames =>
           handles'[HandleOf(n)] # None /\ handles'[HandleOf(n)].owner = r.owner
  PROVE  RInv'
<1>1. /\ records' = [records EXCEPT ![n] = r]
      /\ records' \in [Names -> Record \cup {None}]
      /\ tags' \subseteq Tags \X Names
      /\ \A m \in Names : tree'[m] = None \/ tree'[m] \subseteq Lines
      /\ TreeInStep' /\ IndexKept'
  BY CommitKeeps
<1>2. TypeOK'
  BY <1>1 DEF RInv, TypeOK
<1>3. OwnersAgree'
  BY <1>1, OwnersKept
<1> QED BY <1>1, <1>2, <1>3 DEF RInv

\* A recorded name's record.
LEMMA Recorded ==
  ASSUME TypeOK, NEW n \in Names, records[n] # None
  PROVE  records[n] \in Record
BY DEF TypeOK

\* register_handle writes one handle, owned by its caller.
LEMMA RegisterHandleKeeps ==
  ASSUME RInv, NEW p \in Principals, NEW h \in Handles, RegisterHandle(p, h),
         \A g \in Handles : Kept(g)
  PROVE  RInv'
<1>1. [owner |-> p, deployer |-> None] \in Handle
  BY DEF Handle
<1> QED BY <1>1, HandleStep DEF RegisterHandle, RInv, TypeOK

\* set_handle_deployer leaves the owner of the handle.
LEMMA SetHandleDeployerKeeps ==
  ASSUME RInv, NEW p \in Principals, NEW h \in Handles, NEW d \in Principals \cup {None},
         SetHandleDeployer(p, h, d), \A g \in Handles : Kept(g)
  PROVE  RInv'
<1>1. handles \in [Handles -> Handle \cup {None}] /\ handles[h] \in Handle
  BY DEF SetHandleDeployer, OwnsHandle, RInv, TypeOK
<1>2. [handles[h] EXCEPT !.deployer = d] \in Handle
  BY <1>1 DEF Handle
<1>3. handles' = [handles EXCEPT ![h] = [handles[h] EXCEPT !.deployer = d]]
  BY DEF SetHandleDeployer
<1>4. handles' \in [Handles -> Handle \cup {None}]
  BY <1>1, <1>2, <1>3
<1>5. UNCHANGED <<schema, market, deployers, records, tags, tree, lapsed>>
  BY DEF SetHandleDeployer
<1> QED BY <1>4, <1>5, HandleStep DEF RInv, TypeOK

\* add_deployer and remove_deployer write only the list of deployers.
LEMMA DeployersKeep ==
  ASSUME RInv, NEW p \in Principals, NEW d \in Principals,
         AddDeployer(p, d) \/ RemoveDeployer(p, d), \A g \in Handles : Kept(g)
  PROVE  RInv'
BY HandleStep DEF AddDeployer, RemoveDeployer, RInv, TypeOK

\* announce commits a record of the owner of its handle, new or old.
LEMMA AnnounceKeeps ==
  ASSUME RInv, NEW p \in Principals, NEW n \in ScopedNames, NEW c \in Canisters,
         NEW m \in Modules, Announce(p, n, c, m), \A g \in Handles : Kept(g)
  PROVE  RInv'
<1> DEFINE h == HandleOf(n)
           r == IF records[n] = None THEN NewRecord(OwnerUnder(h, p), c) ELSE records[n]
           s == [r EXCEPT !.target = c, !.text = SetProvenance(@, p, m)]
<1>1. h \in Handles /\ n \in Names /\ c \in Targets
  BY ScopedHandle DEF Targets
<1>2. /\ Running /\ Commit(n, s) /\ handles' = HandleAfter(h, p)
      /\ UNCHANGED <<schema, market, deployers, lapsed>>
  BY DEF Announce
<1>3. handles \in [Handles -> Handle \cup {None}]
  BY DEF RInv, TypeOK
<1>4. OwnerUnder(h, p) \in Principals
  BY <1>1, <1>3 DEF OwnerUnder, Handle
<1>5. r \in Record
  BY <1>1, <1>4, NewRecordTyped, Recorded DEF RInv
<1>6. s \in Record /\ s.owner = r.owner
  <2> HIDE DEF r
  <2>1. SetProvenance(r.text, p, m) \in Texts
    BY <1>5, SetProvenanceTyped DEF Record
  <2> DEFINE u == SetProvenance(r.text, p, m)
  <2>2. s = [[r EXCEPT !.target = c] EXCEPT !.text = u]
    BY <1>5 DEF Record
  <2> HIDE DEF u, s
  <2>3. r = [owner |-> r.owner, target |-> r.target, text |-> r.text]
    BY <1>5 DEF Record
  <2>4. s = [owner |-> r.owner, target |-> c, text |-> u]
    BY <2>2, <2>3
  <2>5. u \in Texts
    BY <2>1 DEF u
  <2> QED BY <1>1, <1>5, <2>4, <2>5 DEF Record
<1>7. handles' \in [Handles -> Handle \cup {None}]
  BY <1>1, <1>2, <1>3 DEF HandleAfter, Handle
<1>8. handles'[h] # None /\ handles'[h].owner = r.owner
  <2>1. CASE records[n] # None
    <3>1. handles[h] # None /\ handles[h].owner = r.owner
      BY <2>1 DEF RInv, OwnersAgree, OwnsHandle
    <3> QED BY <1>2, <3>1 DEF HandleAfter
  <2>2. CASE records[n] = None
    <3>1. r.owner = OwnerUnder(h, p)
      BY <2>2 DEF NewRecord
    <3>2. [owner |-> p, deployer |-> None] # None
      BY StoredAssumption DEF Handle
    <3> QED BY <1>1, <1>2, <1>3, <3>1, <3>2 DEF HandleAfter, OwnerUnder
  <2> QED BY <2>1, <2>2
<1> HIDE DEF h, r, s
<1>9. lapsed' \subseteq FlatNames
  BY <1>2 DEF RInv, TypeOK
<1> QED BY <1>1, <1>2, <1>6, <1>7, <1>8, <1>9, CommitStep DEF h

\* Whoever may write a scoped name owns its handle.
LEMMA WriterOwns ==
  ASSUME NEW p, NEW n \in ScopedNames, MayWrite(p, n)
  PROVE  handles[HandleOf(n)] # None /\ handles[HandleOf(n)].owner = p
BY DEF MayWrite, OwnsHandle

\* set_record commits a record of its caller, who owns the handle.
LEMMA SetRecordKeeps ==
  ASSUME RInv, NEW p \in Principals, NEW n \in Names, NEW t \in Targets,
         SetRecord(p, n, t), \A g \in Handles : Kept(g)
  PROVE  RInv'
<1> DEFINE r == IF records[n] = None THEN NewRecord(p, t) ELSE Repointed(records[n], t)
<1>1. /\ Running /\ MayWrite(p, n) /\ Commit(n, r)
      /\ UNCHANGED <<schema, market, handles, deployers, lapsed>>
  BY DEF SetRecord
<1>2. r \in Record
  BY NewRecordTyped, RepointedTyped, Recorded DEF RInv
<1>3. n \in ScopedNames => handles[HandleOf(n)] # None /\ handles[HandleOf(n)].owner = r.owner
  <2> SUFFICES ASSUME n \in ScopedNames
               PROVE  handles[HandleOf(n)] # None /\ handles[HandleOf(n)].owner = r.owner
    OBVIOUS
  <2>1. CASE records[n] = None
    BY <1>1, <2>1, WriterOwns DEF NewRecord
  <2>2. CASE records[n] # None
    <3>1. r.owner = records[n].owner
      BY <2>2, Recorded DEF Repointed, Record, RInv
    <3> QED BY <2>2, <3>1 DEF RInv, OwnersAgree, OwnsHandle
  <2> QED BY <2>1, <2>2
<1> HIDE DEF r
<1>4. handles' \in [Handles -> Handle \cup {None}] /\ lapsed' \subseteq FlatNames
  BY <1>1 DEF RInv, TypeOK
<1> QED BY <1>1, <1>2, <1>3, <1>4, CommitStep

\* set_text commits a record with its owner.
LEMMA SetTextKeeps ==
  ASSUME RInv, NEW p \in Principals, NEW n \in Names, NEW k \in Keys,
         NEW v \in Values[k] \cup {None}, SetText(p, n, k, v), \A g \in Handles : Kept(g)
  PROVE  RInv'
<1> DEFINE u == [records[n].text EXCEPT ![k] = v]
           r == [records[n] EXCEPT !.text = u]
<1>1. /\ Running /\ Commit(n, r) /\ records[n] # None
      /\ UNCHANGED <<schema, market, handles, deployers, lapsed>>
  BY DEF SetText
<1>2. records[n] \in Record
  BY <1>1, Recorded DEF RInv
<1>3. u \in Texts
  BY <1>2, TextWritten DEF Record
<1> HIDE DEF u
<1>4. r \in Record /\ r.owner = records[n].owner
  BY <1>2, <1>3 DEF Record
<1>5. n \in ScopedNames => handles[HandleOf(n)] # None /\ handles[HandleOf(n)].owner = r.owner
  BY <1>1, <1>4 DEF RInv, OwnersAgree, OwnsHandle
<1> HIDE DEF r
<1>6. handles' \in [Handles -> Handle \cup {None}] /\ lapsed' \subseteq FlatNames
  BY <1>1 DEF RInv, TypeOK
<1> QED BY <1>1, <1>4, <1>5, <1>6, CommitStep

\* delete_record takes a record out of all three copies.
LEMMA DeleteRecordKeeps ==
  ASSUME RInv, NEW p \in Principals, NEW n \in Names, DeleteRecord(p, n)
  PROVE  RInv'
<1>1. /\ Running /\ Remove(n)
      /\ UNCHANGED <<schema, market, handles, deployers, lapsed>>
  BY DEF DeleteRecord
<1>2. /\ records' = [records EXCEPT ![n] = None]
      /\ records' \in [Names -> Record \cup {None}]
      /\ tags' \subseteq Tags \X Names
      /\ \A m \in Names : tree'[m] = None \/ tree'[m] \subseteq Lines
      /\ TreeInStep' /\ IndexKept'
  BY <1>1, RemoveKeeps
<1>3. TypeOK'
  BY <1>1, <1>2 DEF RInv, TypeOK
<1>4. OwnersAgree'
  <2> SUFFICES ASSUME NEW m \in ScopedNames, records'[m] # None
               PROVE  OwnsHandle(records[m].owner, HandleOf(m)) /\ records'[m] = records[m]
    BY <1>1 DEF OwnersAgree, OwnsHandle
  <2>1. m \in Names /\ records \in [Names -> Record \cup {None}]
    BY ScopedHandle DEF RInv, TypeOK
  <2>2. records'[m] = records[m]
    BY <1>2, <2>1
  <2> QED BY <2>2 DEF RInv, OwnersAgree
<1> QED BY <1>2, <1>3, <1>4 DEF RInv

\* A sale concerns flat names, which have no handle.
LEMMA ChangeHandsKeeps ==
  ASSUME RInv, NEW p \in Principals, NEW n \in FlatNames, NEW t \in ScopedNames,
         ChangeHands(p, n, t), \A g \in Handles : Kept(g)
  PROVE  RInv'
<1>1. /\ Running /\ Commit(n, NewRecord(p, t)) /\ lapsed' = lapsed \ {n}
      /\ UNCHANGED <<schema, market, handles, deployers>>
  BY DEF ChangeHands
<1>2. n \in Names /\ n \notin ScopedNames /\ t \in Targets
  BY StoredAssumption DEF Names, Targets
<1>3. NewRecord(p, t) \in Record
  BY <1>2, NewRecordTyped
<1>4. handles' \in [Handles -> Handle \cup {None}] /\ lapsed' \subseteq FlatNames
  BY <1>1 DEF RInv, TypeOK
<1> QED BY <1>1, <1>2, <1>3, <1>4, CommitStep

\* A lapse changes no record: settlement is lazy. Nor does its end.
LEMMA LapseKeeps ==
  ASSUME RInv, NEW ns \in SUBSET FlatNames, Lapse(ns) \/ Revive(ns)
  PROVE  RInv'
BY DEF Lapse, Revive, RInv, TypeOK, TreeInStep, IndexKept, OwnersAgree, OwnsHandle, Running

\* post_upgrade rebuilds index and tree after the migration has rewritten the records.
LEMMA PostUpgradeKeeps ==
  ASSUME RInv, PostUpgrade
  PROVE  RInv'
<1> DEFINE rs == IF schema < 4 THEN WithoutMarkers(records) ELSE records
<1>1. /\ records' = rs /\ tree' = CertifiedTree(rs) /\ schema' = SCHEMA
      /\ tags' = IF schema < 2 THEN TagIndex(rs) ELSE tags
      /\ market' \in Markets
      /\ UNCHANGED <<handles, deployers, lapsed>>
  BY DEF PostUpgrade, Rebuilt, RInv, TypeOK, Markets
<1>2. schema \in 1..4 /\ records \in [Names -> Record \cup {None}]
  BY DEF RInv, TypeOK, SCHEMA
<1>3. rs \in [Names -> Record \cup {None}]
  BY <1>2, MigratedTyped
<1>4. TagIndex(WithoutMarkers(records)) = TagIndex(records)
  <2> SUFFICES ASSUME NEW n \in Names
               PROVE  Entries(n, WithoutMarkers(records)[n]) = Entries(n, records[n])
    BY DEF TagIndex
  <2>1. CASE records[n] = None
    BY <2>1 DEF WithoutMarkers
  <2>2. CASE records[n] # None
    BY <1>2, <2>2, MigratedSame DEF Entries
  <2> QED BY <2>1, <2>2
<1>5. \A n \in Names : /\ rs[n] = None <=> records[n] = None
                       /\ rs[n] # None => rs[n].owner = records[n].owner
  <2> SUFFICES ASSUME NEW n \in Names, schema < 4
               PROVE  /\ rs[n] = None <=> records[n] = None
                      /\ rs[n] # None => rs[n].owner = records[n].owner
    OBVIOUS
  <2>1. CASE records[n] = None
    BY <2>1 DEF WithoutMarkers
  <2>2. CASE records[n] # None
    BY <1>2, <2>2, MigratedSame
  <2> QED BY <2>1, <2>2
<1>6. tags' = TagIndex(rs)
  BY <1>1, <1>2, <1>4 DEF RInv, IndexKept
<1> HIDE DEF rs
<1>7. TypeOK'
  BY <1>1, <1>3, <1>6, IndexTyped, TreeTyped DEF RInv, TypeOK, SCHEMA
<1>8. OwnersAgree'
  <2> SUFFICES ASSUME NEW m \in ScopedNames, rs[m] # None
               PROVE  handles[HandleOf(m)] # None /\ handles[HandleOf(m)].owner = rs[m].owner
    BY <1>1 DEF OwnersAgree, OwnsHandle
  <2> QED BY <1>5, ScopedHandle DEF RInv, OwnersAgree, OwnsHandle
<1> QED BY <1>1, <1>6, <1>7, <1>8 DEF RInv, TreeInStep, IndexKept

\* Every step keeps the invariant.
LEMMA RInvKept ==
  ASSUME RInv, [Next]_vars
  PROVE  RInv'
<1>1. \A h \in Handles : Kept(h)
  BY HandlesKept DEF RInv
<1>2. CASE UNCHANGED vars
  BY <1>2 DEF vars, RInv, TypeOK, TreeInStep, IndexKept, OwnersAgree, OwnsHandle, Running
<1>3. ASSUME NEW p \in Principals, OwnHandle(p)
      PROVE  RInv'
  <2>1. PICK h \in Handles :
          \/ RegisterHandle(p, h)
          \/ \E d \in Principals \cup {None} : SetHandleDeployer(p, h, d)
    BY <1>3 DEF OwnHandle
  <2> QED BY <1>1, <2>1, RegisterHandleKeeps, SetHandleDeployerKeeps
<1>4. ASSUME NEW p \in Principals, WriteName(p)
      PROVE  RInv'
  <2>1. PICK n \in Names :
          \/ \E t \in Targets : SetRecord(p, n, t)
          \/ \E k \in Keys : \E v \in Values[k] \cup {None} : SetText(p, n, k, v)
          \/ DeleteRecord(p, n)
    BY <1>4 DEF WriteName
  <2> QED BY <1>1, <2>1, SetRecordKeeps, SetTextKeeps, DeleteRecordKeeps
<1>5. ASSUME NEW p \in Principals, Deploy(p)
      PROVE  RInv'
  BY <1>1, <1>5, AnnounceKeeps DEF Deploy
<1>6. ASSUME NEW p \in Controllers, Administer(p)
      PROVE  RInv'
  <2>1. p \in Principals
    BY RegistryAssumption
  <2> QED BY <1>1, <1>6, <2>1, DeployersKeep DEF Administer
<1>7. CASE Trade
  <2>1. CASE \E p \in Principals, n \in FlatNames, t \in ScopedNames : ChangeHands(p, n, t)
    BY <1>1, <2>1, ChangeHandsKeeps
  <2>2. CASE \E ns \in SUBSET FlatNames : Lapse(ns) \/ Revive(ns)
    BY <1>1, <2>2, LapseKeeps
  <2> QED BY <1>7, <2>1, <2>2 DEF Trade
<1>8. CASE PostUpgrade
  BY <1>8, PostUpgradeKeeps
<1> QED BY <1>2, <1>3, <1>4, <1>5, <1>6, <1>7, <1>8 DEF Next

\* A fresh install and every stored state satisfy it.
LEMMA RInvAtStart ==
  ASSUME Init
  PROVE  RInv
<1>1. tree = [n \in Names |-> None] /\ lapsed = {}
  BY DEF Init
<1>2. CASE /\ schema = SCHEMA /\ market = "unset" /\ deployers = {} /\ tags = {}
           /\ handles = [h \in Handles |-> None]
           /\ records = [n \in Names |-> None]
  <2>1. TagIndex(records) = {}
    BY <1>2 DEF TagIndex, Entries
  <2>2. tree = CertifiedTree(records)
    BY <1>1, <1>2 DEF CertifiedTree
  <2>3. OwnersAgree
    BY <1>2, ScopedHandle DEF OwnersAgree
  <2> QED BY <1>1, <1>2, <2>1, <2>2, <2>3
          DEF RInv, TypeOK, TreeInStep, IndexKept, SCHEMA, Markets
<1>3. ASSUME NEW s \in Stored, schema = s.schema, market = s.market, handles = s.handles,
             deployers = s.deployers, records = s.records,
             tags = IF s.schema < 2 THEN {} ELSE TagIndex(s.records)
      PROVE  RInv
  <2>1. schema \in 1..3 /\ ~Running
    BY <1>3, StoredAssumption DEF SCHEMA, Running
  <2>2. TypeOK
    BY <1>1, <1>3, <2>1, StoredAssumption, IndexTyped DEF TypeOK, SCHEMA
  <2>3. OwnersAgree
    BY <1>3, StoredAssumption DEF OwnersAgree, OwnsHandle
  <2> QED BY <1>3, <2>1, <2>2, <2>3 DEF RInv, TreeInStep, IndexKept
<1> QED BY <1>2, <1>3 DEF Init

-----------------------------------------------------------------------------
(* Provenance: what a step may do to it *)

Genuine(n) ==
  Announced(n)' => \/ Announced(n) /\ Attestation(n)' = Attestation(n)
                   \/ Entitled(Attestation(n)'[1], n)

NotStale(n) ==
  /\ records[n] # None /\ records'[n] # None
  /\ records'[n].target # records[n].target
  /\ records'[n].text["hash"] # None
  => Announced(n)'

\* Nothing happened to the record.
LEMMA RecordSame ==
  ASSUME NEW n, records'[n] = records[n]
  PROVE  Genuine(n) /\ NotStale(n)
BY DEF Genuine, NotStale, Announced, Attestation, HasAnnouncement

\* It is gone, or shows no announcement and no hash.
LEMMA RecordCleared ==
  ASSUME NEW n,
         \/ records'[n] = None
         \/ records'[n].text["deployer"] = None /\ records'[n].text["hash"] = None
  PROVE  Genuine(n) /\ NotStale(n)
BY DEF Genuine, NotStale, Announced, HasAnnouncement

\* It leads where it led, and shows no announcement or the one it showed.
LEMMA RecordLeads ==
  ASSUME NEW n, records[n] # None, records'[n].target = records[n].target,
         \/ records'[n].text["deployer"] = None
         \/ /\ records'[n].text["deployer"] = records[n].text["deployer"]
            /\ records'[n].text["hash"] = records[n].text["hash"]
  PROVE  Genuine(n) /\ NotStale(n)
BY DEF Genuine, NotStale, Announced, Attestation, HasAnnouncement

\* A commit leaves the records of other names alone.
LEMMA CommitElsewhere ==
  ASSUME RInv, NEW n \in Names, NEW r, Commit(n, r), NEW m \in Names
  PROVE  records'[m] = IF m = n THEN r ELSE records[m]
BY DEF Commit, RInv, TypeOK

\* announce by a deployer: whatever it makes visible, its caller may announce.
LEMMA AnnounceGenuine ==
  ASSUME RInv, NEW p \in Principals, NEW n \in ScopedNames, NEW c \in Canisters,
         NEW d \in Modules, Announce(p, n, c, d), NEW m \in Names
  PROVE  Genuine(m) /\ NotStale(m)
<1> DEFINE h == HandleOf(n)
           r == IF records[n] = None THEN NewRecord(OwnerUnder(h, p), c) ELSE records[n]
           s == [r EXCEPT !.target = c, !.text = SetProvenance(@, p, d)]
<1>1. h \in Handles /\ n \in Names /\ c \in Targets
  BY ScopedHandle DEF Targets
<1>2. /\ Commit(n, s) /\ p \in deployers
      /\ handles[h] # None => p \in {handles[h].owner, handles[h].deployer}
  BY DEF Announce
<1>3. records'[m] = IF m = n THEN s ELSE records[m]
  <2> HIDE DEF s
  <2> QED BY <1>1, <1>2, CommitElsewhere
<1>4. CASE m # n
  BY <1>3, <1>4, RecordSame
<1>5. CASE m = n
  <2>1. r \in Record
    <3>1. OwnerUnder(h, p) \in Principals
      BY <1>1 DEF OwnerUnder, Handle, RInv, TypeOK
    <3> QED BY <1>1, <3>1, NewRecordTyped, Recorded DEF RInv
  <2> HIDE DEF r
  <2> DEFINE u == SetProvenance(r.text, p, d)
  <2>2. r.text \in Texts /\ r = [owner |-> r.owner, target |-> r.target, text |-> r.text]
    BY <2>1 DEF Record
  <2>3. u["deployer"] = p /\ p # None
    BY <2>2, RegistryAssumption DEF SetProvenance, Texts
  <2>4. s = [[r EXCEPT !.target = c] EXCEPT !.text = u]
    BY <2>2
  <2> HIDE DEF u
  <2>5. s.text = u
    BY <2>2, <2>4
  <2> HIDE DEF s
  <2>6. records'[n].text["deployer"] = p
    BY <1>3, <1>5, <2>3, <2>5
  <2>7. Entitled(p, n)
    BY <1>2 DEF Entitled
  <2>8. Attestation(n)'[1] = p
    BY <2>6 DEF Attestation
  <2>9. records'[n] # None => Announced(n)'
    BY <2>3, <2>6 DEF Announced, HasAnnouncement
  <2> QED BY <1>5, <2>7, <2>8, <2>9 DEF Genuine, NotStale
<1> QED BY <1>4, <1>5

\* set_record makes no attestation, and takes it away with the target.
LEMMA SetRecordGenuine ==
  ASSUME RInv, NEW p \in Principals, NEW n \in Names, NEW t \in Targets,
         SetRecord(p, n, t), NEW m \in Names
  PROVE  Genuine(m) /\ NotStale(m)
<1> DEFINE r == IF records[n] = None THEN NewRecord(p, t) ELSE Repointed(records[n], t)
<1>1. records'[m] = IF m = n THEN r ELSE records[m]
  <2>1. Commit(n, r)
    BY DEF SetRecord
  <2> HIDE DEF r
  <2> QED BY <2>1, CommitElsewhere
<1>2. CASE m # n
  BY <1>1, <1>2, RecordSame
<1>3. CASE m = n /\ records[n] = None
  <2>1. r.text["deployer"] = None /\ r.text["hash"] = None
    BY <1>3 DEF NewRecord, Blank, Keys, ProvenanceKeys
  <2> QED BY <1>1, <1>3, <2>1, RecordCleared
<1>4. CASE m = n /\ records[n] # None
  <2>1. records[n] \in Record /\ r = Repointed(records[n], t)
    BY <1>4, Recorded DEF RInv
  <2>2. CASE records[n].target # t
    <3>1. r.text = ClearProvenance(records[n].text)
      BY <2>1, <2>2 DEF Repointed, Record
    <3>2. r.text["deployer"] = None /\ r.text["hash"] = None
      BY <3>1 DEF ClearProvenance, Keys, ProvenanceKeys
    <3> QED BY <1>1, <1>4, <3>2, RecordCleared
  <2>3. CASE records[n].target = t
    <3>1. r.text = records[n].text /\ r.target = t
      BY <2>1, <2>3 DEF Repointed, Record
    <3> QED BY <1>1, <1>4, <2>3, <3>1, RecordLeads
  <2> QED BY <2>2, <2>3
<1> QED BY <1>2, <1>3, <1>4

\* set_text writes neither the mark of an announcement nor, under it, the hash.
LEMMA SetTextGenuine ==
  ASSUME RInv, NEW p \in Principals, NEW n \in Names, NEW k \in Keys,
         NEW v \in Values[k] \cup {None}, SetText(p, n, k, v), NEW m \in Names
  PROVE  Genuine(m) /\ NotStale(m)
<1> DEFINE u == [records[n].text EXCEPT ![k] = v]
           r == [records[n] EXCEPT !.text = u]
<1>1. Commit(n, r) /\ records[n] # None /\ OwnerMaySet(records[n].text, k, v)
  BY DEF SetText
<1>2. records[n] \in Record /\ records[n].text \in Texts
  BY <1>1, Recorded DEF RInv, Record
<1>3. records'[m] = IF m = n THEN r ELSE records[m]
  <2> HIDE DEF r
  <2> QED BY <1>1, CommitElsewhere
<1>4. CASE m # n
  BY <1>3, <1>4, RecordSame
<1>5. CASE m = n
  <2>1. u["deployer"] = records[n].text["deployer"]
    BY <1>1, <1>2 DEF OwnerMaySet, AnnounceKeys, Texts
  <2>2. records[n].text["deployer"] = None \/ u["hash"] = records[n].text["hash"]
    BY <1>1, <1>2 DEF OwnerMaySet, HasAnnouncement, ProvenanceKeys, Texts
  <2> HIDE DEF u
  <2>3. r.text = u /\ r.target = records[n].target
    BY <1>2 DEF Record
  <2> QED BY <1>1, <1>3, <1>5, <2>1, <2>2, <2>3, RecordLeads
<1> QED BY <1>4, <1>5

\* Handlers that remove a record make no attestation.
LEMMA RemovalGenuine ==
  ASSUME RInv, NEW p \in Principals, NEW n \in Names, DeleteRecord(p, n), NEW m \in Names
  PROVE  Genuine(m) /\ NotStale(m)
<1>1. records'[m] = IF m = n THEN None ELSE records[m]
  BY DEF DeleteRecord, Remove, RInv, TypeOK
<1> QED BY <1>1, RecordSame, RecordCleared

\* A buyer of a name does not take over what was announced of the old target.
LEMMA ChangeHandsGenuine ==
  ASSUME RInv, NEW p \in Principals, NEW n \in FlatNames, NEW t \in ScopedNames,
         ChangeHands(p, n, t), NEW m \in Names
  PROVE  Genuine(m) /\ NotStale(m)
<1>1. n \in Names /\ Commit(n, NewRecord(p, t))
  BY DEF ChangeHands, Names
<1>2. records'[m] = IF m = n THEN NewRecord(p, t) ELSE records[m]
  BY <1>1, CommitElsewhere
<1>3. NewRecord(p, t).text["deployer"] = None /\ NewRecord(p, t).text["hash"] = None
  BY DEF NewRecord, Blank, Keys, ProvenanceKeys
<1> QED BY <1>2, <1>3, RecordSame, RecordCleared

\* The upgrade makes no attestation: what it cannot vouch for, it forgets.
LEMMA PostUpgradeGenuine ==
  ASSUME RInv, PostUpgrade, NEW m \in Names
  PROVE  Genuine(m) /\ NotStale(m)
<1>1. CASE schema >= 4 \/ records[m] = None
  <2>1. records'[m] = records[m]
    BY <1>1 DEF PostUpgrade, WithoutMarkers, RInv, TypeOK, SCHEMA
  <2> QED BY <2>1, RecordSame
<1>2. CASE schema < 4 /\ records[m] # None
  <2> DEFINE u == [k \in Keys |-> IF k \in AnnounceKeys THEN None ELSE records[m].text[k]]
  <2>1. u["deployer"] = None
    BY DEF Keys, ProvenanceKeys, AnnounceKeys
  <2>2. records'[m] = [records[m] EXCEPT !.text = u]
    BY <1>2 DEF PostUpgrade, WithoutMarkers
  <2> HIDE DEF u
  <2>3. records[m] \in Record
    BY <1>2, Recorded DEF RInv
  <2>4. records'[m].text = u /\ records'[m].target = records[m].target
    BY <2>2, <2>3 DEF Record
  <2> QED BY <1>2, <2>1, <2>4, RecordLeads
<1>3. schema \in 1..4
  BY DEF RInv, TypeOK, SCHEMA
<1> QED BY <1>1, <1>2, <1>3

\* Every step is genuine and leaves nothing stale.
LEMMA StepGenuine ==
  ASSUME RInv, [Next]_vars, NEW m \in Names
  PROVE  Genuine(m) /\ NotStale(m)
<1>1. CASE records' = records
  BY <1>1, RecordSame
<1>2. ASSUME NEW p \in Principals, OwnHandle(p) PROVE records' = records
  BY <1>2 DEF OwnHandle, RegisterHandle, SetHandleDeployer
<1>3. ASSUME NEW p \in Principals, WriteName(p) PROVE Genuine(m) /\ NotStale(m)
  <2>1. PICK n \in Names :
          \/ \E t \in Targets : SetRecord(p, n, t)
          \/ \E k \in Keys : \E v \in Values[k] \cup {None} : SetText(p, n, k, v)
          \/ DeleteRecord(p, n)
    BY <1>3 DEF WriteName
  <2> QED BY <2>1, SetRecordGenuine, SetTextGenuine, RemovalGenuine
<1>4. ASSUME NEW p \in Principals, Deploy(p) PROVE Genuine(m) /\ NotStale(m)
  BY <1>4, AnnounceGenuine DEF Deploy
<1>5. ASSUME NEW p \in Controllers, Administer(p) PROVE records' = records
  BY <1>5 DEF Administer, AddDeployer, RemoveDeployer
<1>6. CASE Trade
  <2>1. CASE \E p \in Principals, n \in FlatNames, t \in ScopedNames : ChangeHands(p, n, t)
    BY <2>1, ChangeHandsGenuine
  <2>2. CASE \E ns \in SUBSET FlatNames : Lapse(ns) \/ Revive(ns)
    BY <1>1, <2>2 DEF Lapse, Revive
  <2> QED BY <1>6, <2>1, <2>2 DEF Trade
<1>7. CASE PostUpgrade
  BY <1>7, PostUpgradeGenuine
<1>8. CASE UNCHANGED vars
  BY <1>1, <1>8 DEF vars
<1> QED BY <1>1, <1>2, <1>3, <1>4, <1>5, <1>6, <1>7, <1>8 DEF Next

-----------------------------------------------------------------------------
(* Theorems *)

\* The invariant holds of every reachable state.
THEOREM RegistryInvariant == Spec => []RInv
<1>1. Init => RInv
  BY RInvAtStart
<1>2. RInv /\ [Next]_vars => RInv'
  BY RInvKept
<1> QED BY <1>1, <1>2, PTL DEF Spec

\* Whatever is written, sold, removed and migrated in whatever order, the
\* certified tree shows exactly the stored records (certify.rs).
THEOREM TreeShowsRecords == Spec => []TreeInStep
<1>1. RInv => TreeInStep
  BY DEF RInv
<1> QED BY <1>1, RegistryInvariant, PTL

\* And the tag index exactly their tags (directory.rs).
THEOREM IndexShowsRecords == Spec => []IndexInStep
<1>1. RInv => IndexInStep
  BY DEF RInv, IndexKept, IndexInStep, Running, SCHEMA
<1> QED BY <1>1, RegistryInvariant, PTL

\* A scoped name is its handle owner's, also when a deployer created it
\* (lib.rs, announce).
THEOREM NamesBelong == Spec => []OwnersAgree
<1>1. RInv => OwnersAgree
  BY DEF RInv
<1> QED BY <1>1, RegistryInvariant, PTL

\* No message and no upgrade takes a handle from its owner (lib.rs).
THEOREM HandlesStay == Spec => HandlesPermanent
<1>1. RInv /\ [Next]_vars =>
        [\A h \in Handles : handles[h] # None =>
           handles'[h] # None /\ handles'[h].owner = handles[h].owner]_vars
  BY HandlesKept DEF RInv, Kept
<1> QED BY <1>1, RegistryInvariant, PTL DEF Spec, HandlesPermanent

\* An owner can neither write nor keep the mark of an announcement: whatever
\* says it was announced shows what an entitled deployer reported (names.rs).
THEOREM ProvenanceGenuine == Spec => AttestationsGenuine
<1>1. RInv /\ [Next]_vars =>
        [\A n \in Names : Announced(n)' =>
           \/ Announced(n) /\ Attestation(n)' = Attestation(n)
           \/ Entitled(Attestation(n)'[1], n)]_vars
  BY StepGenuine DEF Genuine
<1> QED BY <1>1, RegistryInvariant, PTL DEF Spec, AttestationsGenuine

\* No target keeps the hash of another (names.rs, clear_provenance).
THEOREM ProvenanceFresh == Spec => NoStaleProvenance
<1>1. RInv /\ [Next]_vars =>
        [\A n \in Names :
           /\ records[n] # None /\ records'[n] # None
           /\ records'[n].target # records[n].target
           /\ records'[n].text["hash"] # None
           => Announced(n)']_vars
  BY StepGenuine DEF NotStale
<1> QED BY <1>1, RegistryInvariant, PTL DEF Spec, NoStaleProvenance

\* Every variable of the registry keeps its type, from a fresh install and
\* from whatever an older version leaves to migrate (lib.rs, post_upgrade).
THEOREM RegistryTyped == Spec => []TypeOK
<1>1. RInv => TypeOK
  BY DEF RInv
<1> QED BY <1>1, RegistryInvariant, PTL
=============================================================================
