-------------------------- MODULE Refinement_proofs --------------------------
(***************************************************************************)
(* The market implements what two simpler specifications say of it: the    *)
(* registry, of who writes a flat name and when, and the meter, of what a  *)
(* holder pays.                                                            *)
(***************************************************************************)
EXTENDS Terms_proofs, MarketRegistry, MarketTenancy

-----------------------------------------------------------------------------
(* Who holds a name after it was written                                   *)

\* A held name its holder amends is held.
LEMMA AmendedIsHeld ==
  ASSUME TInv, ChecksHold, NEW n \in FlatNames, Amended(n)
  PROVE  Held(cfg, records'[n])
<1> DEFINE r == records[n]
           g == records'[n].flat
<1>1. /\ Held(cfg, r) /\ records'[n] # None /\ g \in Holding
      /\ g.lapsed = LapsedAt(cfg, r.flat, now)
      /\ g.settled = IF r.flat.lapsed = None THEN now ELSE r.flat.settled
  BY AmendedFields
<1>2. cfg \in Config /\ Valid(cfg) /\ now \in Nat
  BY DEF TInv, TypeOK, ChecksHold
<1>3. CASE g.lapsed = None
  <2>1. r.flat.lapsed = None
    BY <1>1, <1>3 DEF LapsedAt, RunsOut
  <2> QED BY <1>1, <1>2, <1>3, <2>1, FreshIsHeld DEF Held
<1>4. CASE g.lapsed # None
  <2>1. LapsedAt(cfg, g, now) = LapsedAt(cfg, r.flat, now)
    BY <1>1, <1>4 DEF LapsedAt, RunsOut
  <2>2. IsFree(cfg, g, now) <=> IsFree(cfg, r.flat, now)
    BY <2>1 DEF IsFree, Status
  <2> QED BY <1>1, <2>2 DEF Held
<1> QED BY <1>3, <1>4

\* A name topped up or sold is held.
LEMMA RenewedIsHeld ==
  ASSUME TInv, ChecksHold, NEW n \in FlatNames, ToppedUp(n) \/ Sold(n)
  PROVE  /\ Held(cfg, records'[n]) /\ records'[n] # None
         /\ records'[n].owner \in Principals /\ records'[n].target \in FlatTargets
<1>1. cfg \in Config /\ Valid(cfg) /\ now \in Nat
  BY DEF TInv, TypeOK, ChecksHold
<1> DEFINE s == records'[n]
<1>2. /\ s \in Record /\ s.flat \in Holding /\ s.flat.settled = now /\ s.flat.lapsed = None
  <2>1. CASE ToppedUp(n)
    <3>1. PICK cf \in Config, x \in Nat : s = [records[n] EXCEPT !.flat = TopUp(cf, @, x, now)]
      BY <2>1 DEF ToppedUp
    <3>2. records[n] \in Record /\ records[n].flat \in Holding /\ HoldingSound(records[n].flat, now)
      BY <2>1, RecordOf DEF ToppedUp
    <3> DEFINE h == TopUp(cf, records[n].flat, x, now)
    <3>3. h \in Holding
      BY <1>1, <3>2, TopUpSound DEF Config
    <3>4. h.settled = now /\ h.lapsed = None
      <4>1. Settle(cf, records[n].flat, now) \in Holding
        BY <1>1, <3>2, SettleSound DEF Config
      <4> QED BY <4>1 DEF TopUp, Holding
    <3> HIDE DEF h
    <3>5. s = [records[n] EXCEPT !.flat = h]
      BY <3>1, <3>2 DEF h
    <3>6. [records[n] EXCEPT !.flat = h] \in Record /\ [records[n] EXCEPT !.flat = h].flat = h
      BY <3>2, <3>3 DEF Record
    <3> QED BY <3>3, <3>4, <3>5, <3>6
  <2>2. CASE Sold(n)
    <3>1. PICK w \in Principals, t \in FlatTargets, x \in Nat, y \in Nat :
            s = [owner |-> w, target |-> t,
                 previous |-> IF records[n] = None THEN None ELSE records[n].target,
                 changed |-> now, flat |-> NewHolding(x, y, now)]
      BY <2>2 DEF Sold
    <3>2. /\ NewHolding(x, y, now) \in Holding /\ NewHolding(x, y, now).settled = now
          /\ NewHolding(x, y, now).lapsed = None
      BY <1>1, NewHoldingSound DEF NewHolding
    <3>3. records[n] # None => records[n].target \in FlatTargets
      BY RecordOf DEF Record
    <3> QED BY <1>1, <3>1, <3>2, <3>3 DEF Record
  <2> QED BY <2>1, <2>2
<1>3. ~IsFree(cfg, s.flat, now)
  BY <1>1, <1>2, FreshIsHeld
<1> QED BY <1>2, <1>3, StartAssumption DEF Held, Record

-----------------------------------------------------------------------------
(* Flat names as the registry sees them                                    *)

\* What is seen of a written name; of the others the same as before.
LEMMA SeenOthers ==
  ASSUME NEW n \in FlatNames, \A m \in FlatNames \ {n} : records'[m] = records[m],
         UNCHANGED <<now, cfg>>
  PROVE  /\ \A m \in AllNames \ {n} : SeenRecords'[m] = SeenRecords[m] /\ SeenTree'[m] = SeenTree[m]
         /\ \A m \in FlatNames \ {n} : m \in SeenLapsed' <=> m \in SeenLapsed
<1>1. \A m \in FlatNames \ {n} : Held(cfg, records[m])' <=> Held(cfg, records[m])
  BY DEF Held
<1> QED BY <1>1 DEF SeenRecords, SeenTree, SeenLapsed, AllNames, IsRecorded

\* A record without text records has no tags and no other certified lines.
LEMMA SeenRecord ==
  ASSUME NEW r
  PROVE  /\ Reg!Entries(None, None) = {}
         /\ \A n : Reg!Entries(n, Seen(r)) = {} /\ Reg!Entries(n, None) = {}
         /\ Reg!Canonical(Seen(r)) = Leaf(r)
         /\ Reg!NewRecord(r.owner, r.target) = Seen(r)
<1>1. Untold["tags"] = None /\ \A k \in Reg!Keys : Untold[k] = None
  BY DEF Untold, Keys, Reg!Keys, Reg!ProvenanceKeys
<1>2. Reg!Keys = Keys
  BY DEF Keys, Reg!Keys, Reg!ProvenanceKeys
<1>3. Reg!Blank = Untold
  BY <1>2 DEF Untold, Reg!Blank
<1> QED BY <1>1, <1>2, <1>3 DEF Reg!Entries, Reg!Canonical, Reg!NewRecord, Seen, Leaf

\* A record that is written is committed.
LEMMA SeenCommit ==
  ASSUME NEW n \in FlatNames, \A m \in FlatNames \ {n} : records'[m] = records[m],
         UNCHANGED <<now, cfg>>, records'[n] # None
  PROVE  Reg!Commit(n, Seen(records'[n]))
<1> DEFINE s == records'[n]
<1>1. n \in AllNames
  BY DEF AllNames
<1>2. SeenRecords'[n] = Seen(s) /\ SeenTree'[n] = Leaf(s)
  BY <1>1 DEF SeenRecords, SeenTree, IsRecorded, Seen, Leaf
<1>3. SeenRecords[n] = None \/ SeenRecords[n] = Seen(records[n])
  BY <1>1 DEF SeenRecords
<1>4. SeenRecords' = [SeenRecords EXCEPT ![n] = Seen(s)]
  BY <1>1, <1>2, SeenOthers DEF SeenRecords
<1>5. SeenTree' = [SeenTree EXCEPT ![n] = Leaf(s)]
  BY <1>1, <1>2, SeenOthers DEF SeenTree
<1>6. /\ Reg!Entries(n, SeenRecords[n]) = {} /\ Reg!Entries(n, Seen(s)) = {}
      /\ Reg!Canonical(Seen(s)) = Leaf(s)
  BY <1>3, SeenRecord
<1> QED BY <1>4, <1>5, <1>6 DEF Reg!Commit

\* A record that is deleted is removed.
LEMMA SeenRemove ==
  ASSUME NEW n \in FlatNames, \A m \in FlatNames \ {n} : records'[m] = records[m],
         UNCHANGED <<now, cfg>>, records'[n] = None
  PROVE  Reg!Remove(n)
<1>1. n \in AllNames
  BY DEF AllNames
<1>2. SeenRecords'[n] = None /\ SeenTree'[n] = None
  BY <1>1 DEF SeenRecords, SeenTree, IsRecorded
<1>3. SeenRecords[n] = None \/ SeenRecords[n] = Seen(records[n])
  BY <1>1 DEF SeenRecords
<1>4. SeenRecords' = [SeenRecords EXCEPT ![n] = None]
  BY <1>1, <1>2, SeenOthers DEF SeenRecords
<1>5. SeenTree' = [SeenTree EXCEPT ![n] = None]
  BY <1>1, <1>2, SeenOthers DEF SeenTree
<1>6. Reg!Entries(n, SeenRecords[n]) = {}
  BY <1>3, SeenRecord
<1> QED BY <1>4, <1>5, <1>6 DEF Reg!Remove

\* A handler that leaves the records as they are seen does nothing here.
LEMMA SeenStutter ==
  ASSUME UNCHANGED <<SeenRecords, SeenTree, SeenLapsed>>
  PROVE  UNCHANGED Reg!vars
BY DEF Reg!vars

\* Who holds a flat name may write it in the registry too.
LEMMA HolderMayWrite ==
  ASSUME TInv, NEW p \in Principals, NEW n \in FlatNames, Holds(p, n)
  PROVE  /\ Reg!Running /\ Reg!MayWrite(p, n)
         /\ n \in Reg!Names /\ n \notin Reg!ScopedNames
         /\ SeenRecords[n] = Seen(records[n]) /\ SeenRecords[n] # None
<1>1. n \notin ScopedNames /\ n \in AllNames /\ n \notin SeenLapsed
  BY AliasAssumption DEF AllNames, SeenLapsed, Holds
<1>2. Reg!ScopedNames = ScopedNames /\ Reg!Names = AllNames
  BY DEF Reg!ScopedNames, Reg!Names, ScopedNames, AllNames
<1>3. records[n] # None /\ records[n].owner = p
  BY DEF Holds, Held
<1>4. SeenRecords[n] = Seen(records[n])
  BY <1>1, <1>3 DEF SeenRecords, IsRecorded
<1>5. Seen(records[n]).owner = p
  BY <1>3 DEF Seen
<1>6. Seen(records[n]) # None
  <2>1. records[n].owner \in Principals /\ records[n].target \in FlatTargets
    BY <1>3, RecordOf DEF Record
  <2> QED BY <2>1, AliasAssumption DEF Seen
<1>7. Reg!Running
  BY DEF Reg!Running, Reg!SCHEMA
<1> QED BY <1>1, <1>2, <1>4, <1>5, <1>6, <1>7 DEF Reg!MayWrite

\* A handler that writes one name does what the registry allows.
LEMMA SeenWrites ==
  ASSUME TInv, ChecksHold, NEW n \in FlatNames, Writes(n), OthersKept(n), UNCHANGED <<now, cfg>>
  PROVE  Reg!Next \/ UNCHANGED Reg!vars
<1>1. \A m \in FlatNames \ {n} : records'[m] = records[m]
  BY DEF OthersKept
<1>2. /\ \A m \in AllNames \ {n} : SeenRecords'[m] = SeenRecords[m] /\ SeenTree'[m] = SeenTree[m]
      /\ \A m \in FlatNames \ {n} : m \in SeenLapsed' <=> m \in SeenLapsed
  BY <1>1, SeenOthers
<1>3. n \in SeenLapsed' <=> records'[n] # None /\ ~Held(cfg, records'[n])
  BY DEF SeenLapsed, Held
<1>4. n \in SeenLapsed <=> records[n] # None /\ ~Held(cfg, records[n])
  BY DEF SeenLapsed
<1>5. SeenLapsed \subseteq FlatNames /\ SeenLapsed' \subseteq FlatNames
  BY DEF SeenLapsed
<1>6. CASE records'[n] = records[n]
  <2>1. SeenRecords' = SeenRecords /\ SeenTree' = SeenTree
    BY <1>1, <1>6 DEF SeenRecords, SeenTree, IsRecorded
  <2>2. SeenLapsed' = SeenLapsed
    BY <1>2, <1>3, <1>4, <1>5, <1>6
  <2> QED BY <2>1, <2>2, SeenStutter
<1>7. CASE Released(n)
  <2>1. PICK p \in Principals : Holds(p, n) /\ records'[n] = None
    BY <1>7 DEF Released
  <2>2. Reg!Remove(n)
    BY <1>1, <2>1, SeenRemove
  <2>3. SeenLapsed' = SeenLapsed
    BY <1>2, <1>3, <1>4, <1>5, <2>1 DEF Holds
  <2>4. Reg!DeleteRecord(p, n)
    BY <2>1, <2>2, <2>3, HolderMayWrite DEF Reg!DeleteRecord
  <2> QED BY <2>1, <2>4, HolderMayWrite DEF Reg!Next, Reg!WriteName
<1>8. CASE Amended(n)
  <2>1. PICK p \in Principals, t \in FlatTargets, x \in Nat :
          /\ Holds(p, n)
          /\ records'[n] = [records[n] EXCEPT
                              !.target = t,
                              !.flat = [Settle(cfg, records[n].flat, now) EXCEPT !.price = x]]
    BY <1>8 DEF Amended
  <2>2. /\ Held(cfg, records[n]) /\ Held(cfg, records'[n]) /\ records'[n] # None
        /\ records'[n].owner = records[n].owner
    BY <1>8, AmendedFields, AmendedIsHeld
  <2>3. records'[n].target = t
    BY <2>1, HolderActs DEF Record
  <2>4. Reg!Commit(n, Seen(records'[n]))
    BY <1>1, <2>2, SeenCommit
  <2>5. Seen(records'[n]) = Reg!Repointed(Seen(records[n]), t)
    <3>1. Reg!ClearProvenance(Untold) = Untold
      BY DEF Reg!ClearProvenance, Reg!Keys, Reg!ProvenanceKeys, Keys, Untold
    <3> DEFINE s == Seen(records[n])
               o == records[n].owner
               y == records[n].target
    <3>2. s = [owner |-> o, target |-> y, text |-> Untold]
      BY DEF Seen
    <3>3. Reg!Repointed(s, t) = [s EXCEPT !.target = t, !.text = Untold]
      <4>1. (IF s.target # t THEN Reg!ClearProvenance(s.text) ELSE s.text) = Untold
        BY <3>1 DEF Seen
      <4> HIDE DEF s
      <4> QED BY <4>1, Zenon DEF Reg!Repointed
    <3>4. Seen(records'[n]) = [owner |-> o, target |-> t, text |-> Untold]
      BY <2>2, <2>3 DEF Seen
    <3> HIDE DEF s, o, y
    <3>5. Reg!Repointed(s, t) = [owner |-> o, target |-> t, text |-> Untold]
      BY <3>2, <3>3
    <3> QED BY <3>4, <3>5 DEF s
  <2>6. t \in Reg!Targets /\ t # n /\ t \in Reg!ScopedNames
    BY AliasAssumption DEF Reg!Targets, Reg!ScopedNames, ScopedNames
  <2>7. SeenLapsed' = SeenLapsed
    BY <1>2, <1>3, <1>4, <1>5, <2>2
  <2>8. Reg!SetRecord(p, n, t)
    BY <2>1, <2>4, <2>5, <2>6, <2>7, HolderMayWrite DEF Reg!SetRecord
  <2> QED BY <2>1, <2>6, <2>8, HolderMayWrite DEF Reg!Next, Reg!WriteName
<1>9. CASE ToppedUp(n) \/ Sold(n)
  <2> DEFINE p == records'[n].owner
             t == records'[n].target
  <2>1. /\ Held(cfg, records'[n]) /\ records'[n] # None
        /\ p \in Principals /\ t \in FlatTargets
    BY <1>9, RenewedIsHeld
  <2>2. Reg!Commit(n, Seen(records'[n]))
    BY <1>1, <2>1, SeenCommit
  <2>3. Seen(records'[n]) = Reg!NewRecord(p, t)
    BY SeenRecord
  <2>4. SeenLapsed' = SeenLapsed \ {n}
    BY <1>2, <1>3, <1>5, <2>1
  <2>5. t \in Reg!ScopedNames
    BY <2>1, AliasAssumption DEF Reg!ScopedNames, ScopedNames
  <2> HIDE DEF p, t
  <2>6. Reg!ChangeHands(p, n, t)
    BY <2>2, <2>3, <2>4 DEF Reg!ChangeHands, Reg!Running, Reg!SCHEMA
  <2> QED BY <2>1, <2>5, <2>6 DEF Reg!Next, Reg!Trade
<1> QED BY <1>6, <1>7, <1>8, <1>9, WrittenRecord

\* As time passes, names lapse and nothing is written.
LEMMA SeenTick ==
  ASSUME TInv, Tick
  PROVE  Reg!Next
<1>1. UNCHANGED <<records, cfg>> /\ now' = now + 1
  BY DEF Tick, canisterVars
<1>2. SeenRecords' = SeenRecords /\ SeenTree' = SeenTree
  BY <1>1 DEF SeenRecords, SeenTree, IsRecorded
<1>3. ASSUME NEW n \in SeenLapsed PROVE n \in SeenLapsed'
  <2>1. n \in FlatNames /\ records[n] # None /\ IsFree(cfg, records[n].flat, now)
    BY <1>3 DEF SeenLapsed, Held
  <2> DEFINE h == records[n].flat
  <2>2. /\ h \in Holding /\ h.settled <= now /\ now \in Nat /\ now + 1 \in Nat /\ now <= now + 1
        /\ cfg.rate \in Nat /\ cfg.grace \in Nat
    BY <2>1, RecordOf DEF TInv, TypeOK, Config, HoldingSound
  <2> HIDE DEF h
  <2>3. IsFree(cfg, h, now) => IsFree(cfg, h, now + 1)
    BY <2>2, FreeForGood
  <2>4. IsFree(cfg, records[n].flat, now + 1)
    BY <2>1, <2>3 DEF h
  <2> QED BY <1>1, <2>1, <2>4 DEF SeenLapsed, Held
<1>4. SeenLapsed' \in SUBSET FlatNames /\ SeenLapsed' = SeenLapsed \cup SeenLapsed'
  BY <1>3 DEF SeenLapsed
<1>5. ASSUME NEW n \in SeenLapsed' PROVE SeenRecords[n] # None
  <2>1. n \in FlatNames /\ records[n] # None
    BY <1>1, <1>5 DEF SeenLapsed
  <2>2. records[n].owner \in Principals /\ records[n].target \in FlatTargets
    BY <2>1, RecordOf DEF Record
  <2>3. Seen(records[n]) # None
    BY <2>2, AliasAssumption DEF Seen
  <2> QED BY <2>1, <2>3 DEF SeenRecords, AllNames, IsRecorded
<1> DEFINE ns == SeenLapsed'
<1>6. ns \in SUBSET FlatNames /\ SeenLapsed' = SeenLapsed \cup ns /\ \A n \in ns : SeenRecords[n] # None
  BY <1>4, <1>5
<1>7. Reg!Lapse(ns)
  BY <1>2, <1>6 DEF Reg!Lapse, Reg!Running, Reg!SCHEMA
<1> HIDE DEF ns
<1> QED BY <1>6, <1>7 DEF Reg!Next, Reg!Trade

\* Under a new config a holding is free when its old end and the new grace
\* period are over, be it that it was settled before the rate changed.
LEMMA GraceDecides ==
  ASSUME NEW cf \in Config, NEW cg \in Config, Valid(cg), NEW t \in Nat,
         NEW h \in Holding, HoldingSound(h, t), NEW g,
         (g = h /\ cg.rate = cf.rate) \/ g = Settle(cf, h, t)
  PROVE  LET l == LapsedAt(cf, h, t) IN
         /\ l \in Nat \cup {None}
         /\ IsFree(cf, h, t) <=> l # None /\ t >= l + cf.grace
         /\ IsFree(cg, g, t) <=> l # None /\ t >= l + cg.grace
<1> DEFINE l == LapsedAt(cf, h, t)
<1>1. cf.rate \in Nat /\ cf.grace \in Nat /\ cg.grace \in Nat
  BY DEF Config
<1>2. /\ Settle(cf, h, t) \in Holding /\ Settle(cf, h, t).lapsed = l
      /\ Settle(cf, h, t).settled = IF h.lapsed = None THEN t ELSE h.settled
  BY <1>1, SettleSound, SettledFields
<1>3. l \in Nat \cup {None}
  BY <1>2 DEF Holding
<1>4. ASSUME NEW cc, cc.grace \in Nat, NEW hh, LapsedAt(cc, hh, t) = l
      PROVE  IsFree(cc, hh, t) <=> l # None /\ t >= l + cc.grace
  <2> HIDE DEF l
  <2>1. CASE l = None
    BY <1>4, <2>1 DEF IsFree, Status
  <2>2. CASE l # None
    <3>1. l \in Nat
      BY <1>3, <2>2
    <3>2. IsFree(cc, hh, t) <=> ~(t < l + cc.grace)
      BY <1>4, <2>2 DEF IsFree, Status
    <3> QED BY <1>4, <2>2, <3>1, <3>2
  <2> QED BY <2>1, <2>2
<1>5. IsFree(cf, h, t) <=> l # None /\ t >= l + cf.grace
  BY <1>1, <1>4
<1>6. CASE g = h /\ cg.rate = cf.rate
  <2>1. RunsOut(cg, h, t) <=> RunsOut(cf, h, t)
    BY <1>6, Zenon DEF RunsOut, TaxDue
  <2>2. LapsedAt(cg, g, t) = l
    BY <1>6, <2>1, Zenon DEF LapsedAt, TicksUntilSpent
  <2>3. IsFree(cg, g, t) <=> l # None /\ t >= l + cg.grace
    BY <1>1, <1>4, <2>2
  <2> QED BY <1>3, <1>5, <2>3
<1>7. CASE g = Settle(cf, h, t)
  <2>1. g \in Holding /\ g.lapsed = l
    BY <1>2, <1>7
  <2>2. CASE l # None
    <3>1. LapsedAt(cg, g, t) = l
      BY <2>1, <2>2 DEF LapsedAt, RunsOut
    <3>2. IsFree(cg, g, t) <=> l # None /\ t >= l + cg.grace
      BY <1>1, <1>4, <3>1
    <3> QED BY <1>3, <1>5, <3>2
  <2>3. CASE l = None
    <3>1. h.lapsed = None
      BY <2>3 DEF LapsedAt, RunsOut
    <3>2. g.settled = t /\ g.lapsed = None
      BY <1>2, <1>7, <2>3, <3>1
    <3>3. ~IsFree(cg, g, t)
      BY <2>1, <3>2, FreshIsHeld
    <3>4. IsFree(cg, g, t) <=> l # None /\ t >= l + cg.grace
      BY <2>3, <3>3
    <3> QED BY <1>3, <1>5, <3>4
  <2> QED BY <2>2, <2>3
<1> QED BY <1>6, <1>7

\* A config may settle every name, which is not seen. A new grace period lets
\* names lapse when it is shorter, and gives names back when it is longer.
LEMMA SeenConfig ==
  ASSUME TInv, TInv', Valid(cfg'), NEW k \in CallIds, ConfigQuoted(k)
  PROVE  Reg!Next
<1>1. /\ now' = now /\ now \in Nat /\ cfg \in Config /\ cfg' \in Config
      /\ cfg.grace \in Nat /\ cfg'.grace \in Nat
      /\ records \in [FlatNames -> Record \cup {None}]
  BY DEF ConfigQuoted, TInv, TypeOK, Config
<1>2. \/ UNCHANGED records /\ cfg'.rate = cfg.rate
      \/ records' = SettledRecords(cfg)
  <2>1. CASE cfg' = cfg
    BY <2>1 DEF ConfigQuoted
  <2>2. CASE cfg' # cfg
    <3> DEFINE next == calls[k].next  q == calls[k].quote
    <3>1. cfg' = [next EXCEPT !.fee = q]
      BY <2>2 DEF ConfigQuoted
    <3>2. next \in Config
      BY Resumed DEF ConfigQuoted, Replied, CallSound
    <3>3. cfg'.rate = next.rate
      BY <3>1, <3>2 DEF Config
    <3> QED BY <2>2, <3>3 DEF ConfigQuoted
  <2> QED BY <2>1, <2>2
<1>3. ASSUME NEW n \in FlatNames, records[n] # None
      PROVE  /\ records[n].flat \in Holding /\ HoldingSound(records[n].flat, now)
             /\ records'[n] # None
             /\ records'[n].owner = records[n].owner /\ records'[n].target = records[n].target
             /\ \/ records'[n].flat = records[n].flat /\ cfg'.rate = cfg.rate
                \/ records'[n].flat = Settle(cfg, records[n].flat, now)
  <2> DEFINE h == records[n].flat  g == Settle(cfg, h, now)
  <2>1. records[n] \in Record /\ h \in Holding /\ HoldingSound(h, now)
    BY <1>3, RecordOf
  <2>2. CASE UNCHANGED records /\ cfg'.rate = cfg.rate
    BY <1>3, <2>1, <2>2
  <2>3. CASE records' = SettledRecords(cfg)
    <3>1. records'[n] = [records[n] EXCEPT !.flat = g]
      BY <1>3, <2>3 DEF SettledRecords
    <3>2. g \in Holding
      BY <1>1, <2>1, SettleSound DEF Config
    <3> HIDE DEF g
    <3>3. [records[n] EXCEPT !.flat = g] \in Record
      BY <2>1, <3>2 DEF Record
    <3>4. /\ records'[n] # None /\ records'[n].flat = g
          /\ records'[n].owner = records[n].owner /\ records'[n].target = records[n].target
      BY <2>1, <3>1, <3>3, StartAssumption DEF Record
    <3> QED BY <2>1, <3>4 DEF g
  <2> QED BY <1>2, <2>2, <2>3
<1>4. ASSUME NEW n \in FlatNames, records[n] = None PROVE records'[n] = None
  BY <1>2, <1>4 DEF SettledRecords
<1>5. SeenRecords' = SeenRecords /\ SeenTree' = SeenTree
  BY <1>3, <1>4 DEF SeenRecords, SeenTree, Seen, Leaf, IsRecorded
<1>6. ASSUME NEW n \in FlatNames
      PROVE  /\ cfg'.grace <= cfg.grace => (n \in SeenLapsed => n \in SeenLapsed')
             /\ cfg'.grace >= cfg.grace => (n \in SeenLapsed' => n \in SeenLapsed)
  <2>1. CASE records[n] = None
    BY <1>4, <2>1 DEF SeenLapsed
  <2>2. CASE records[n] # None
    <3> DEFINE h == records[n].flat
               g == records'[n].flat
               l == LapsedAt(cfg, h, now)
    <3>1. n \in SeenLapsed <=> IsFree(cfg, h, now)
      BY <2>2 DEF SeenLapsed, Held
    <3>2. n \in SeenLapsed' <=> IsFree(cfg', g, now)
      BY <1>1, <1>3, <2>2 DEF SeenLapsed, Held
    <3>3. /\ h \in Holding /\ HoldingSound(h, now)
          /\ (g = h /\ cfg'.rate = cfg.rate) \/ g = Settle(cfg, h, now)
      BY <1>3, <2>2
    <3> HIDE DEF h, g
    <3>4. /\ l \in Nat \cup {None}
          /\ IsFree(cfg, h, now) <=> l # None /\ now >= l + cfg.grace
          /\ IsFree(cfg', g, now) <=> l # None /\ now >= l + cfg'.grace
      BY <1>1, <3>3, GraceDecides
    <3> HIDE DEF l
    <3>5. CASE l = None
      BY <3>1, <3>2, <3>4, <3>5
    <3>6. CASE l # None
      <4>1. l \in Nat
        BY <3>4, <3>6
      <4> QED BY <1>1, <3>1, <3>2, <3>4, <3>6, <4>1
    <3> QED BY <3>5, <3>6
  <2> QED BY <2>1, <2>2
<1>7. SeenLapsed \in SUBSET FlatNames /\ SeenLapsed' \in SUBSET FlatNames
  BY DEF SeenLapsed
<1>8. Reg!Running
  BY DEF Reg!Running, Reg!SCHEMA
<1>9. CASE cfg'.grace <= cfg.grace
  <2> DEFINE ns == SeenLapsed'
  <2>1. SeenLapsed' = SeenLapsed \cup ns
    BY <1>6, <1>7, <1>9
  <2>2. ASSUME NEW n \in ns PROVE SeenRecords[n] # None
    <3>1. n \in FlatNames /\ records[n] # None
      BY <1>4, <2>2 DEF SeenLapsed
    <3>2. records[n].owner \in Principals /\ records[n].target \in FlatTargets
      BY <3>1, RecordOf DEF Record
    <3>3. Seen(records[n]) # None
      BY <3>2, AliasAssumption DEF Seen
    <3> QED BY <3>1, <3>3 DEF SeenRecords, AllNames, IsRecorded
  <2>3. Reg!Lapse(ns)
    BY <1>5, <1>8, <2>1, <2>2 DEF Reg!Lapse
  <2> HIDE DEF ns
  <2>4. ns \in SUBSET FlatNames
    BY <1>7 DEF ns
  <2> QED BY <2>3, <2>4 DEF Reg!Next, Reg!Trade
<1>10. CASE cfg'.grace >= cfg.grace
  <2> DEFINE ns == SeenLapsed \ SeenLapsed'
  <2>1. SeenLapsed' = SeenLapsed \ ns
    BY <1>6, <1>7, <1>10
  <2>2. Reg!Revive(ns)
    BY <1>5, <1>8, <2>1 DEF Reg!Revive
  <2> HIDE DEF ns
  <2>3. ns \in SUBSET FlatNames
    BY <1>7 DEF ns
  <2> QED BY <2>2, <2>3 DEF Reg!Next, Reg!Trade
<1> QED BY <1>1, <1>9, <1>10

\* Whatever payments, auctions, settlements and configs do, flat names are
\* written as the registry says: by their holders while they are held, as a
\* whole when they change hands, and not at all when time or a new config
\* takes them from their holders or gives them back (lib.rs, auction.rs).
THEOREM MarketKeepsRegistry == Spec => FlatNamesAreRegistrys
<1>1. TInv /\ ChecksHold /\ [Next]_vars => [Reg!Next]_(Reg!vars)
  <2> SUFFICES ASSUME TInv, ChecksHold, [Next]_vars
               PROVE  Reg!Next \/ UNCHANGED Reg!vars
    OBVIOUS
  <2>1. CASE Tick
    BY <2>1, SeenTick
  <2>2. ASSUME NEW k \in CallIds, ConfigQuoted(k) PROVE Reg!Next
    <3>1. TInv' /\ Valid(cfg')
      BY StepTyped, ChecksStay DEF ChecksHold
    <3> QED BY <2>2, <3>1, SeenConfig
  <2>3. CASE UNCHANGED <<now, cfg, records, auctions>>
    <3>1. UNCHANGED <<SeenRecords, SeenTree, SeenLapsed>>
      BY <2>3 DEF SeenRecords, SeenTree, SeenLapsed, IsRecorded, Held
    <3> QED BY <3>1, SeenStutter
  <2>4. ASSUME NEW n \in FlatNames, UNCHANGED <<now, cfg>>, Writes(n), OthersKept(n)
        PROVE  Reg!Next \/ UNCHANGED Reg!vars
    BY <2>4, SeenWrites
  <2> QED BY <2>1, <2>2, <2>3, <2>4, OneName
<1> QED BY <1>1, TypedAndSound, ConfigsChecked, PTL DEF Spec, FlatNamesAreRegistrys

-----------------------------------------------------------------------------
(* What a meter would show                                                 *)

Tenant(r, balance, until) ==
  [owner |-> r.owner, price |-> r.flat.price, balance |-> balance, until |-> until]

Show(cf, r, t) ==
  IF r = None \/ IsFree(cf, r.flat, t) THEN None
  ELSE Tenant(r, Settle(cf, r.flat, t).balance, Status(cf, r.flat, t).until)

\* Shown at the config and the time of a state.
LEMMA ShownIs ==
  ASSUME TInv, NEW n \in FlatNames
  PROVE  Meters[n] = Show(cfg, records[n], now)
<1>1. CASE records[n] = None
  BY <1>1 DEF Meters, Shown, Show, Held
<1>2. CASE records[n] # None
  <2>1. Settle(cfg, records[n].flat, now).price = records[n].flat.price
    BY <1>2, RecordOf, SettledFields
  <2> QED BY <1>2, <2>1 DEF Meters, Shown, Show, Held, Tenant
<1> QED BY <1>1, <1>2

\* Shown after a step.
LEMMA ShownNext ==
  ASSUME TInv', NEW n \in FlatNames
  PROVE  Meters'[n] = Show(cfg', records'[n], now')
<1>1. CASE records'[n] = None
  BY <1>1 DEF Meters, Shown, Show, Held
<1>2. CASE records'[n] # None
  <2>1. records'[n].flat \in Holding
    BY <1>2 DEF TInv, TypeOK, Record
  <2>2. Settle(cfg', records'[n].flat, now').price = records'[n].flat.price
    BY <2>1, SettledFields
  <2> QED BY <1>2, <2>2 DEF Meters, Shown, Show, Held, Tenant
<1> QED BY <1>1, <1>2

\* A record shows its balance until that is gone, and then the end of its
\* grace period.
LEMMA ShowForm ==
  ASSUME NEW cf \in Config, NEW r \in Record, NEW t \in Nat, HoldingSound(r.flat, t)
  PROVE  LET l == LapsedAt(cf, r.flat, t)  b == Settle(cf, r.flat, t).balance IN
         /\ b \in Nat
         /\ l = None => /\ Show(cf, r, t) = Tenant(r, b, None)
                        /\ Burn(cf, r.flat) > 0 => b > 0
         /\ l # None => /\ l \in Nat
                        /\ Show(cf, r, t) = IF t < l + cf.grace THEN Tenant(r, 0, l + cf.grace)
                                                                ELSE None
<1> DEFINE h == r.flat
           l == LapsedAt(cf, h, t)
           b == Settle(cf, h, t).balance
<1>1. h \in Holding /\ cf.rate \in Nat /\ cf.grace \in Nat /\ r # None /\ h.settled <= t
  BY StartAssumption DEF Record, Config, HoldingSound
<1>2. b \in Nat /\ (l # None => b = 0) /\ (l = None /\ Burn(cf, h) > 0 => b > 0)
  <2> HIDE DEF h
  <2> QED BY <1>1, BalanceAt, NextTick DEF h
<1>3. l # None => l \in Nat
  <2>1. t <= t
    OBVIOUS
  <2> HIDE DEF h
  <2> QED BY <1>1, <2>1, LapsedForGood DEF h
<1>4. /\ l = None => ~IsFree(cf, h, t) /\ Status(cf, h, t).until = None
      /\ l # None => IF t < l + cf.grace
                     THEN ~IsFree(cf, h, t) /\ Status(cf, h, t).until = l + cf.grace
                     ELSE IsFree(cf, h, t)
  BY DEF IsFree, Status
<1>5. Show(cf, r, t) = IF IsFree(cf, h, t) THEN None ELSE Tenant(r, b, Status(cf, h, t).until)
  BY <1>1 DEF Show
<1> HIDE DEF h, l, b
<1>6. l = None => Show(cf, r, t) = Tenant(r, b, None)
  BY <1>4, <1>5
<1>7. l # None => Show(cf, r, t) = IF t < l + cf.grace THEN Tenant(r, 0, l + cf.grace) ELSE None
  BY <1>2, <1>4, <1>5
<1> QED BY <1>2, <1>3, <1>6, <1>7 DEF h, l, b

\* A holding settled at t shows what is stored of it.
LEMMA ShowFresh ==
  ASSUME NEW cf \in Config, Valid(cf), NEW r \in Record, NEW t \in Nat,
         r.flat.settled = t, r.flat.lapsed = None
  PROVE  Show(cf, r, t) =
           Tenant(r, r.flat.balance,
                  IF r.flat.balance = 0 /\ Burn(cf, r.flat) > 0 THEN t + cf.grace ELSE None)
<1> DEFINE h == r.flat
           k == Burn(cf, h)
<1>1. /\ h \in Holding /\ cf.rate \in Nat /\ cf.grace \in Nat /\ cf.grace > 0
      /\ h.price \in Nat /\ h.balance \in Nat /\ h.settled = t /\ h.lapsed = None
  BY DEF Record, Config, Valid, Holding
<1>2. HoldingSound(h, t)
  BY DEF HoldingSound
<1>3. k \in Nat
  BY <1>1, Times DEF Burn
<1>4. TaxDue(cf, h.price, t - h.settled) = 0
  <2>1. TaxDue(cf, h.price, t - h.settled) = k * (t - t)
    BY DEF TaxDue, Burn
  <2> HIDE DEF k
  <2> QED BY <1>3, <2>1
<1>5. RunsOut(cf, h, t) <=> k > 0 /\ h.balance = 0
  BY <1>1, <1>4 DEF RunsOut, Burn
<1>6. CASE k > 0 /\ h.balance = 0
  <2>1. h.settled + TicksUntilSpent(cf, h) <= t /\ TicksUntilSpent(cf, h) \in Nat
    <3>1. h.settled <= t
      OBVIOUS
    <3>2. RunsOut(cf, h, t) /\ Burn(cf, h) > 0
      BY <1>5, <1>6
    <3> HIDE DEF h, k
    <3> QED BY <1>1, <3>1, <3>2, EndTick
  <2>2. h.settled + TicksUntilSpent(cf, h) = t
    BY <2>1
  <2>3. LapsedAt(cf, h, t) = t
    BY <1>5, <1>6, <2>2 DEF LapsedAt
  <2>4. t < t + cf.grace
    BY <1>1
  <2> QED BY <1>2, <1>6, <2>3, <2>4, ShowForm, StartAssumption
<1>7. CASE ~(k > 0 /\ h.balance = 0)
  <2>1. LapsedAt(cf, h, t) = None /\ Taken(cf, h, t) = 0
    BY <1>4, <1>5, <1>7 DEF LapsedAt, Taken
  <2>2. Settle(cf, h, t).balance = h.balance
    <3>1. Settle(cf, h, t).balance = h.balance - Taken(cf, h, t)
      BY <1>1, SettledFields
    <3> QED BY <1>1, <2>1, <3>1
  <2>3. Show(cf, r, t) = Tenant(r, h.balance, None)
    BY <1>2, <2>1, <2>2, ShowForm
  <2> QED BY <1>7, <2>3
<1> QED BY <1>6, <1>7

\* What a record shows is a tenancy.
LEMMA TenantType ==
  ASSUME NEW r \in Record, NEW b \in Nat, NEW u \in Nat \cup {None}
  PROVE  LET m == Tenant(r, b, u) IN
         /\ m # None /\ m \in Meter!Tenancies
         /\ m.owner = r.owner /\ m.price = r.flat.price /\ m.balance = b /\ m.until = u
<1>1. r.owner \in Principals /\ r.flat.price \in Nat
  BY DEF Record, Holding
<1>2. Tenant(r, b, u) \in [owner : Principals, price : Nat, balance : Nat, until : Nat \cup {None}]
  BY <1>1 DEF Tenant
<1> QED BY <1>2, VacantAssumption DEF Tenant, Meter!Tenancies

\* A tick later a record shows what the meter has counted down to.
LEMMA ShowTick ==
  ASSUME NEW cf \in Config, Valid(cf), NEW r \in Record, NEW t \in Nat, HoldingSound(r.flat, t)
  PROVE  LET m == Show(cf, r, t)
             k == Burn(cf, r.flat)
             c == Greatest(m.balance - k, 0) IN
         /\ k \in Nat
         /\ m = None => Show(cf, r, t + 1) = None
         /\ m # None /\ m.until # None =>
              Show(cf, r, t + 1) = IF t + 1 >= m.until THEN None ELSE m
         /\ m # None /\ m.until = None =>
              Show(cf, r, t + 1) = Tenant(r, c, IF c = 0 /\ k > 0 THEN (t + 1) + cf.grace ELSE None)
<1> DEFINE h == r.flat
           k == Burn(cf, h)
           l == LapsedAt(cf, h, t)
           b == Settle(cf, h, t).balance
           c == Settle(cf, h, t + 1).balance
           v == LapsedAt(cf, h, t + 1)
           m == Show(cf, r, t)
           w == Show(cf, r, t + 1)
<1>1. /\ h \in Holding /\ cf.rate \in Nat /\ cf.grace \in Nat /\ cf.grace > 0
      /\ h.settled <= t /\ None \notin Nat
  BY StartAssumption DEF Record, Config, Valid, HoldingSound
<1>2. t + 1 \in Nat /\ HoldingSound(h, t + 1)
  BY <1>1 DEF HoldingSound, Holding
<1>3. /\ k \in Nat /\ b \in Nat /\ c \in Nat
      /\ l # None => c = 0 /\ v = l
      /\ l = None => /\ k > 0 => b > 0
                     /\ c = Greatest(b - k, 0)
                     /\ v = IF k > 0 /\ b <= k THEN t + 1 ELSE None
  <2>1. HoldingSound(h, t)
    OBVIOUS
  <2> HIDE DEF h
  <2> QED BY <1>1, <2>1, NextTick DEF h
<1>4. /\ l = None => m = Tenant(r, b, None)
      /\ l # None => l \in Nat /\ m = IF t < l + cf.grace THEN Tenant(r, 0, l + cf.grace) ELSE None
  BY ShowForm
<1>5. /\ v = None => w = Tenant(r, c, None)
      /\ v # None => w = IF t + 1 < v + cf.grace THEN Tenant(r, 0, v + cf.grace) ELSE None
  BY <1>2, ShowForm
<1> HIDE DEF h, k, l, b, c, v, m, w
<1>6. CASE l # None
  <2> DEFINE e == l + cf.grace
  <2>1. e \in Nat /\ v = l
    BY <1>1, <1>3, <1>4, <1>6
  <2>2. /\ m = IF t < e THEN Tenant(r, 0, e) ELSE None
        /\ w = IF t + 1 < e THEN Tenant(r, 0, e) ELSE None
    BY <1>4, <1>5, <1>6, <2>1
  <2>3. Tenant(r, 0, e) # None /\ Tenant(r, 0, e).until = e
    BY <2>1, TenantType
  <2> HIDE DEF e
  <2>4. /\ m = None => w = None
        /\ m # None => m.until = e /\ e # None /\ w = IF t + 1 >= e THEN None ELSE m
    BY <1>1, <2>1, <2>2, <2>3
  <2> QED BY <1>3, <2>4 DEF m, w, k, h
<1>7. CASE l = None
  <2>1. m = Tenant(r, b, None) /\ m # None /\ m.until = None /\ m.balance = b
    BY <1>3, <1>4, <1>7, TenantType
  <2>2. w = Tenant(r, c, IF c = 0 /\ k > 0 THEN (t + 1) + cf.grace ELSE None)
    <3>1. CASE k > 0 /\ b <= k
      <4>1. c = 0 /\ v = t + 1
        BY <1>3, <1>7, <3>1 DEF Greatest
      <4>2. t + 1 < v + cf.grace /\ v # None
        BY <1>1, <4>1
      <4> QED BY <1>5, <3>1, <4>1, <4>2
    <3>2. CASE ~(k > 0 /\ b <= k)
      <4>1. v = None /\ ~(c = 0 /\ k > 0)
        BY <1>3, <1>7, <3>2 DEF Greatest
      <4> QED BY <1>5, <4>1
    <3> QED BY <3>1, <3>2
  <2>3. c = Greatest(m.balance - k, 0)
    BY <1>3, <1>7, <2>1
  <2> QED BY <1>3, <2>1, <2>2, <2>3 DEF m, w, k, h
<1> QED BY <1>6, <1>7

\* Time passes for the market as for the meters.
LEMMA MeterTick ==
  ASSUME TInv, TInv', ChecksHold, OneGrace, Tick
  PROVE  Meter!Tick
<1>1. /\ now' = now + 1 /\ cfg' = cfg /\ records' = records
      /\ cfg \in Config /\ Valid(cfg) /\ now \in Nat /\ cfg.grace = InitialConfig.grace
  BY DEF Tick, canisterVars, TInv, TypeOK, ChecksHold, OneGrace
<1>2. ASSUME NEW n \in FlatNames PROVE Meters'[n] = Meter!Metered(Meters[n])
  <2> DEFINE m == Meters[n]
             w == Meters'[n]
             r == records[n]
  <2>1. m = Show(cfg, r, now) /\ w = Show(cfg, r, now + 1)
    BY <1>1, <1>2, ShownIs, ShownNext
  <2>2. CASE r = None
    <3>1. m = None /\ w = None
      BY <2>1, <2>2 DEF Show
    <3> QED BY <3>1 DEF Meter!Metered
  <2>3. CASE r # None
    <3> DEFINE k == Burn(cfg, r.flat)
               b == m.balance
               c == Greatest(b - k, 0)
    <3>1. r \in Record /\ HoldingSound(r.flat, now) /\ now' = now + 1 /\ now + 1 \in Nat
      BY <1>1, <1>2, <2>3, RecordOf
    <3>2. /\ k \in Nat
          /\ m = None => w = None
          /\ m # None /\ m.until # None => w = IF now' >= m.until THEN None ELSE m
          /\ m # None /\ m.until = None =>
               w = Tenant(r, c, IF c = 0 /\ k > 0 THEN now' + cfg.grace ELSE None)
      <4> HIDE DEF m, w, r
      <4> QED BY <1>1, <2>1, <3>1, ShowTick
    <3>3. CASE m = None \/ m.until # None
      BY <3>2, <3>3 DEF Meter!Metered
    <3>4. CASE m # None /\ m.until = None
      <4>1. \E x \in Nat : m = Tenant(r, x, None)
        <5>1. LET l == LapsedAt(cfg, r.flat, now)  x == Settle(cfg, r.flat, now).balance IN
              /\ x \in Nat
              /\ l = None => m = Tenant(r, x, None)
              /\ l # None => /\ l \in Nat
                             /\ m = IF now < l + cfg.grace THEN Tenant(r, 0, l + cfg.grace)
                                                           ELSE None
          BY <1>1, <2>1, <3>1, ShowForm
        <5>2. ASSUME LapsedAt(cfg, r.flat, now) # None PROVE FALSE
          <6> DEFINE e == LapsedAt(cfg, r.flat, now) + cfg.grace
          <6>1. e \in Nat /\ m = Tenant(r, 0, e)
            BY <1>1, <3>4, <5>1, <5>2 DEF Config
          <6>2. e # None
            BY <6>1, StartAssumption
          <6> HIDE DEF e, m, r
          <6>3. 0 \in Nat /\ m.until = e
            BY <3>1, <6>1, TenantType
          <6> QED BY <3>4, <6>2, <6>3
        <5> QED BY <5>1, <5>2
      <4>2. PICK x \in Nat : m = Tenant(r, x, None)
        BY <4>1
      <4>3. b = x /\ m.price * cfg.rate = k /\ m.owner = r.owner /\ m.price = r.flat.price
        <5>1. m.balance = x /\ m.owner = r.owner /\ m.price = r.flat.price
          <6> HIDE DEF m, r
          <6> QED BY <3>1, <4>2 DEF Tenant
        <5> QED BY <5>1 DEF Burn
      <4> DEFINE m1 == [m EXCEPT !.balance = Greatest(@ - m.price * cfg.rate, 0)]
      <4>4. m1 = Tenant(r, c, None)
        BY <4>2, <4>3 DEF Tenant
      <4>5. c \in Nat
        BY <3>2, <4>3 DEF Greatest
      <4>6. Meter!Noticed(m1, cfg.rate, now') =
              Tenant(r, c, IF c = 0 /\ k > 0 THEN now' + cfg.grace ELSE None)
        <5>1. m1.until = None /\ m1.balance = c /\ m1.price * cfg.rate = k
          BY <4>3, <4>4 DEF Tenant
        <5> HIDE DEF m1, c, k
        <5>2. [m1 EXCEPT !.until = now' + cfg.grace] = Tenant(r, c, now' + cfg.grace)
          BY <4>4 DEF Tenant
        <5> QED BY <1>1, <4>4, <5>1, <5>2 DEF Meter!Noticed
      <4>7. Meter!Metered(m) = Meter!Noticed(m1, cfg.rate, now')
        BY <3>4 DEF Meter!Metered, Meter!Greatest, Greatest
      <4> QED BY <3>2, <3>4, <4>6, <4>7
    <3> QED BY <3>3, <3>4
  <2> QED BY <2>2, <2>3
<1>3. Meters' = [n \in FlatNames |-> Meter!Metered(Meters[n])]
  BY <1>2 DEF Meters
<1> QED BY <1>1, <1>3 DEF Meter!Tick

\* A held record settled and then priced or taxed anew shows the meter's
\* reading at the new price and rate.
LEMMA ShowRestated ==
  ASSUME NEW cf \in Config, NEW cg \in Config, Valid(cg),
         cf.grace = InitialConfig.grace, cg.grace = InitialConfig.grace,
         NEW r \in Record, NEW s \in Record, NEW t \in Nat, HoldingSound(r.flat, t),
         s.owner = r.owner,
         s.flat.balance = Settle(cf, r.flat, t).balance,
         s.flat.lapsed = LapsedAt(cf, r.flat, t),
         s.flat.settled = IF r.flat.lapsed = None THEN t ELSE r.flat.settled
  PROVE  LET m == Show(cf, r, t) IN
         IF m = None THEN Show(cg, s, t) = None
         ELSE Show(cg, s, t) = Meter!Noticed([m EXCEPT !.price = s.flat.price], cg.rate, t)
<1> DEFINE l == LapsedAt(cf, r.flat, t)
           b == Settle(cf, r.flat, t).balance
           m == Show(cf, r, t)
           w == Show(cg, s, t)
           k == Burn(cg, s.flat)
           p == s.flat.price
           u == [m EXCEPT !.price = p]
<1>1. /\ None \notin Nat /\ cg.grace \in Nat /\ cf.grace = cg.grace /\ p \in Nat
      /\ s.flat \in Holding /\ r.flat \in Holding
  BY StartAssumption DEF Config, Record, Holding
<1>2. /\ b \in Nat
      /\ l = None => m = Tenant(r, b, None)
      /\ l # None => l \in Nat /\ m = IF t < l + cg.grace THEN Tenant(r, 0, l + cg.grace) ELSE None
  BY <1>1, ShowForm
<1>3. CASE l = None
  <2>1. s.flat.settled = t /\ s.flat.lapsed = None
    <3>1. r.flat.lapsed = None
      BY <1>3 DEF LapsedAt, RunsOut
    <3> QED BY <1>3, <3>1
  <2>2. w = Tenant(s, b, IF b = 0 /\ k > 0 THEN t + cg.grace ELSE None)
    BY <2>1, ShowFresh
  <2>3. m = Tenant(r, b, None) /\ m # None
    <3>1. m = Tenant(r, b, None) /\ b \in Nat /\ None \in Nat \cup {None}
      BY <1>2, <1>3
    <3>2. r # None
      BY StartAssumption
    <3> HIDE DEF b, m
    <3> QED BY <3>1, TenantType
  <2>4. u = Tenant(s, b, None)
    BY <2>3 DEF Tenant
  <2>5. Meter!Noticed(u, cg.rate, t) = Tenant(s, b, IF b = 0 /\ k > 0 THEN t + cg.grace ELSE None)
    <3>1. u.until = None /\ u.balance = b /\ u.price * cg.rate = k
      BY <2>4 DEF Tenant, Burn
    <3> HIDE DEF u, b, k
    <3>2. [u EXCEPT !.until = t + cg.grace] = Tenant(s, b, t + cg.grace)
      BY <2>4 DEF Tenant
    <3> QED BY <1>1, <2>4, <3>1, <3>2 DEF Meter!Noticed
  <2> QED BY <2>2, <2>3, <2>5
<1>4. CASE l # None
  <2> DEFINE e == l + cg.grace
  <2>1. LapsedAt(cg, s.flat, t) = l /\ e \in Nat
    BY <1>1, <1>2, <1>4 DEF LapsedAt, RunsOut
  <2>2. s.flat.settled <= t /\ s.flat.balance = 0
    <3>1. t <= t
      OBVIOUS
    <3>2. Settle(cf, r.flat, t).balance = 0
      BY <1>1, <1>4, BalanceAt DEF Config
    <3> QED BY <3>1, <3>2 DEF HoldingSound
  <2>3. HoldingSound(s.flat, t)
    BY <2>2 DEF HoldingSound
  <2>4. w = IF t < e THEN Tenant(s, 0, e) ELSE None
    BY <1>4, <2>1, <2>3, ShowForm
  <2>5. m = IF t < e THEN Tenant(r, 0, e) ELSE None
    BY <1>2, <1>4
  <2>6. Tenant(r, 0, e) # None
    BY <2>1, TenantType
  <2>7. CASE t < e
    <3>1. m = Tenant(r, 0, e) /\ w = Tenant(s, 0, e) /\ m # None
      BY <2>4, <2>5, <2>6, <2>7
    <3>2. u = Tenant(s, 0, e)
      BY <3>1 DEF Tenant
    <3>3. u.until # None
      BY <1>1, <2>1, <3>2 DEF Tenant
    <3>4. Meter!Noticed(u, cg.rate, t) = u
      BY <3>3 DEF Meter!Noticed
    <3> QED BY <3>1, <3>2, <3>4
  <2>8. CASE ~(t < e)
    BY <2>4, <2>5, <2>8
  <2> QED BY <2>7, <2>8
<1> QED BY <1>3, <1>4

\* What is shown is a tenancy with its notice given where it is due.
LEMMA ShowType ==
  ASSUME NEW cf \in Config, NEW r \in Record, NEW t \in Nat, HoldingSound(r.flat, t),
         Show(cf, r, t) # None
  PROVE  LET m == Show(cf, r, t) IN
         /\ m \in Meter!Tenancies /\ m.owner = r.owner /\ m.price = r.flat.price
         /\ m = Tenant(r, m.balance, m.until)
         /\ m.until = None => /\ m.balance = Settle(cf, r.flat, t).balance
                              /\ LapsedAt(cf, r.flat, t) = None
                              /\ Burn(cf, r.flat) > 0 => m.balance > 0
         /\ m.until # None => m.balance = 0 /\ LapsedAt(cf, r.flat, t) # None
         /\ Meter!Noticed(m, cf.rate, t) = m
<1> DEFINE l == LapsedAt(cf, r.flat, t)
           b == Settle(cf, r.flat, t).balance
           m == Show(cf, r, t)
           k == Burn(cf, r.flat)
<1>1. None \notin Nat /\ cf.grace \in Nat /\ cf.rate \in Nat /\ r.flat.price \in Nat
  BY StartAssumption DEF Config, Record, Holding
<1>2. /\ b \in Nat
      /\ l = None => m = Tenant(r, b, None) /\ (k > 0 => b > 0)
      /\ l # None => l \in Nat /\ m = IF t < l + cf.grace THEN Tenant(r, 0, l + cf.grace) ELSE None
  BY ShowForm
<1>3. CASE l = None
  <2>1. /\ m = Tenant(r, b, None) /\ m \in Meter!Tenancies /\ m.owner = r.owner
        /\ m.price = r.flat.price /\ m.balance = b /\ m.until = None
    BY <1>2, <1>3, TenantType
  <2>2. k > 0 => m.balance > 0
    BY <1>2, <1>3, <2>1
  <2>3. m.price * cf.rate = k
    BY <2>1 DEF Burn
  <2>4. Meter!Noticed(m, cf.rate, t) = m
    <3> HIDE DEF m, k
    <3> QED BY <2>2, <2>3 DEF Meter!Noticed
  <2> QED BY <1>3, <2>1, <2>2, <2>4
<1>4. CASE l # None
  <2> DEFINE e == l + cf.grace
  <2>1. e \in Nat /\ e # None
    BY <1>1, <1>2, <1>4
  <2>2. /\ m = Tenant(r, 0, e) /\ m \in Meter!Tenancies /\ m.owner = r.owner
        /\ m.price = r.flat.price /\ m.balance = 0 /\ m.until = e
    BY <1>2, <1>4, <2>1, TenantType
  <2>3. Meter!Noticed(m, cf.rate, t) = m
    BY <2>1, <2>2 DEF Meter!Noticed
  <2> QED BY <1>4, <2>1, <2>2, <2>3
<1> QED BY <1>3, <1>4

\* A config set while the market runs changes the rate of all meters.
LEMMA MeterConfig ==
  ASSUME TInv, TInv', ChecksHold, ChecksHold', OneGrace, OneGrace',
         NEW k \in CallIds, ConfigQuoted(k)
  PROVE  Meter!SetRate
<1>1. /\ now' = now /\ now \in Nat /\ cfg \in Config /\ cfg' \in Config /\ Valid(cfg')
      /\ cfg.grace = InitialConfig.grace /\ cfg'.grace = InitialConfig.grace
  BY DEF ConfigQuoted, TInv, TypeOK, ChecksHold, OneGrace
<1>2. ASSUME NEW n \in FlatNames
      PROVE  Meters'[n] = IF Meters[n] = None THEN None
                          ELSE Meter!Noticed(Meters[n], cfg'.rate, now)
  <2> DEFINE m == Meters[n]
             w == Meters'[n]
             r == records[n]
             s == records'[n]
  <2>1. m = Show(cfg, r, now) /\ w = Show(cfg', s, now)
    BY <1>1, <1>2, ShownIs, ShownNext
  <2>2. CASE r = None /\ s = None
    BY <2>1, <2>2 DEF Show
  <2>3. CASE r # None /\ s = r /\ cfg'.rate = cfg.rate
    <3>1. SameTerms(cfg', cfg)
      BY <1>1, <2>3 DEF SameTerms
    <3>2. w = m
      BY <2>1, <2>3, <3>1, SameTax DEF Show
    <3>3. m # None => Meter!Noticed(m, cfg'.rate, now) = m
      BY <1>1, <1>2, <2>1, <2>3, RecordOf, ShowType
    <3> QED BY <3>2, <3>3
  <2>4. CASE r # None /\ s # None /\ s = [r EXCEPT !.flat = Settle(cfg, @, now)]
    <3>1. r \in Record /\ s \in Record /\ r.flat \in Holding /\ HoldingSound(r.flat, now)
      BY <1>2, <2>4, RecordOf DEF TInv, TypeOK
    <3>2. s.owner = r.owner /\ s.flat = Settle(cfg, r.flat, now)
      BY <2>4, <3>1 DEF Record
    <3>3. /\ s.flat.balance = Settle(cfg, r.flat, now).balance /\ s.flat.price = r.flat.price
          /\ s.flat.lapsed = LapsedAt(cfg, r.flat, now)
          /\ s.flat.settled = IF r.flat.lapsed = None THEN now ELSE r.flat.settled
      BY <3>1, <3>2, SettledFields
    <3>4. IF m = None THEN w = None
          ELSE w = Meter!Noticed([m EXCEPT !.price = s.flat.price], cfg'.rate, now)
      <4> HIDE DEF m, w, r, s
      <4> QED BY <1>1, <2>1, <3>1, <3>2, <3>3, ShowRestated
    <3>5. m # None => m = Tenant(r, m.balance, m.until)
      <4> HIDE DEF r
      <4> QED BY <1>1, <2>1, <3>1, ShowType
    <3>6. m # None => [m EXCEPT !.price = s.flat.price] = m
      BY <3>3, <3>5 DEF Tenant
    <3> QED BY <3>4, <3>6
  <2>5. s = r /\ (SameTerms(cfg', cfg) \/ cfg'.rate = cfg.rate) => s = r /\ cfg'.rate = cfg.rate
    BY DEF SameTerms
  <2> QED BY <2>2, <2>3, <2>4, <2>5, <1>2, ConfigRecords
<1>3. Meters' = [n \in FlatNames |-> IF Meters[n] = None THEN None
                                     ELSE Meter!Noticed(Meters[n], cfg'.rate, now)]
  BY <1>2 DEF Meters
<1> QED BY <1>1, <1>3 DEF Meter!SetRate, Config

\* A record shows nothing exactly when its name is free.
LEMMA ShowHeld ==
  ASSUME NEW cf \in Config, NEW r \in Record, NEW t \in Nat, HoldingSound(r.flat, t)
  PROVE  Show(cf, r, t) = None <=> IsFree(cf, r.flat, t)
<1>1. ASSUME ~IsFree(cf, r.flat, t) PROVE Show(cf, r, t) # None
  <2> DEFINE l == LapsedAt(cf, r.flat, t)
  <2>1. cf.grace \in Nat /\ Settle(cf, r.flat, t).balance \in Nat /\ (l # None => l \in Nat)
    BY ShowForm DEF Config
  <2>2. Status(cf, r.flat, t).until \in Nat \cup {None}
    BY <2>1 DEF Status
  <2>3. r # None
    BY StartAssumption
  <2> QED BY <1>1, <2>1, <2>2, <2>3, TenantType DEF Show
<1> QED BY <1>1 DEF Show

\* A holding that starts or is topped up with a grace period of tax shows
\* its balance, and no notice.
LEMMA ShowFilled ==
  ASSUME NEW cf \in Config, Valid(cf), NEW s \in Record, NEW t \in Nat,
         s.flat.settled = t, s.flat.lapsed = None,
         s.flat.balance >= MinDeposit(cf, s.flat.price)
  PROVE  LET w == Show(cf, s, t) IN
         /\ w = Tenant(s, s.flat.balance, None) /\ w # None /\ w \in Meter!Tenancies
         /\ w.owner = s.owner /\ w.price = s.flat.price
         /\ w.balance = s.flat.balance /\ w.until = None
         /\ w.balance >= w.price * cf.rate * cf.grace
<1> DEFINE p == s.flat.price
           b == s.flat.balance
           k == Burn(cf, s.flat)
           g == cf.grace
           w == Show(cf, s, t)
<1>1. p \in Nat /\ b \in Nat /\ cf.rate \in Nat /\ g \in Nat /\ g > 0
  BY DEF Record, Holding, Config, Valid
<1>2. k = p * cf.rate /\ k \in Nat
  BY <1>1, Times DEF Burn
<1>3. MinDeposit(cf, p) = k * g
  BY <1>2 DEF MinDeposit, TaxDue
<1>4. k > 0 => b > 0
  <2>1. k * 1 <= k * g
    <3>1. 1 <= g /\ 1 \in Int /\ g \in Int
      BY <1>1
    <3> HIDE DEF k, g
    <3> QED BY <1>2, <3>1, Times
  <2>2. b >= k * g
    BY <1>3
  <2> HIDE DEF k, b
  <2> DEFINE m == k * g
  <2>3. m \in Int /\ b >= m /\ k <= m
    BY <1>1, <1>2, <2>1, <2>2, Times
  <2> HIDE DEF m
  <2> QED BY <1>1, <1>2, <2>3
<1>5. w = Tenant(s, b, IF b = 0 /\ k > 0 THEN t + cf.grace ELSE None)
  BY ShowFresh
<1>6. w = Tenant(s, b, None)
  <2> HIDE DEF k, b, w
  <2> QED BY <1>4, <1>5
<1>7. w # None /\ w \in Meter!Tenancies /\ w.owner = s.owner /\ w.price = p /\ w.balance = b /\ w.until = None
  <2>1. None \in Nat \cup {None} /\ w = Tenant(s, b, None) /\ b \in Nat
    BY <1>1, <1>6
  <2> HIDE DEF w, b, p
  <2>2. Tenant(s, b, None) # None /\ Tenant(s, b, None) \in Meter!Tenancies
    BY <2>1, TenantType
  <2>3. w.owner = s.owner /\ w.price = s.flat.price /\ w.balance = b /\ w.until = None
    BY <2>1 DEF Tenant
  <2> QED BY <2>1, <2>2, <2>3 DEF p
<1>8. w.balance >= w.price * cf.rate * cf.grace
  BY <1>2, <1>3, <1>7
<1> QED BY <1>6, <1>7, <1>8

\* What is written of one name leaves the other meters alone.
LEMMA MeterOthers ==
  ASSUME TInv, TInv', NEW n \in FlatNames, now' = now, cfg' = cfg, OthersKept(n)
  PROVE  /\ Meters[n] = Show(cfg, records[n], now)
         /\ Meters'[n] = Show(cfg, records'[n], now)
         /\ \A w : w = Meters'[n] => Meters' = [Meters EXCEPT ![n] = w]
<1>1. \A m \in FlatNames : /\ Meters[m] = Show(cfg, records[m], now)
                           /\ Meters'[m] = Show(cfg, records'[m], now)
  BY ShownIs, ShownNext
<1>2. \A m \in FlatNames \ {n} : Meters'[m] = Meters[m]
  BY <1>1 DEF OthersKept
<1>3. ASSUME NEW w, w = Meters'[n] PROVE Meters' = [Meters EXCEPT ![n] = w]
  BY <1>2, <1>3 DEF Meters
<1> QED BY <1>1, <1>3

\* A name its holder gives back is a meter's to take away.
LEMMA MeterReleased ==
  ASSUME TInv, TInv', NEW n \in FlatNames, now' = now, cfg' = cfg, OthersKept(n), Released(n)
  PROVE  Meter!Leave(n)
<1>1. Held(cfg, records[n]) /\ records'[n] = None /\ cfg \in Config /\ now \in Nat
  BY DEF Released, Holds, TInv, TypeOK
<1>2. Meters[n] # None
  <2>1. records[n] \in Record /\ HoldingSound(records[n].flat, now)
    BY <1>1, RecordOf DEF Held
  <2>2. Meters[n] = Show(cfg, records[n], now)
    BY MeterOthers
  <2> QED BY <1>1, <2>1, <2>2, ShowHeld DEF Held
<1>3. Meters'[n] = None
  <2>1. Meters'[n] = Show(cfg, records'[n], now)
    BY MeterOthers
  <2> QED BY <1>1, <2>1 DEF Show
<1>4. Meters' = [Meters EXCEPT ![n] = None]
  BY <1>3, MeterOthers
<1> QED BY <1>2, <1>4 DEF Meter!Leave

\* A holder that amends its name reassesses its price, or leaves it.
LEMMA MeterAmended ==
  ASSUME TInv, TInv', ChecksHold, OneGrace, NEW n \in FlatNames, now' = now, cfg' = cfg,
         OthersKept(n), Amended(n)
  PROVE  Meter!Reassess(n)
<1> DEFINE r == records[n]
           s == records'[n]
           m == Meters[n]
           w == Meters'[n]
<1>1. /\ Held(cfg, r) /\ s \in Record /\ s # None /\ s.owner = r.owner /\ s.flat \in Holding
      /\ s.flat.balance = Settle(cfg, r.flat, now).balance
      /\ s.flat.lapsed = LapsedAt(cfg, r.flat, now)
      /\ s.flat.settled = IF r.flat.lapsed = None THEN now ELSE r.flat.settled
  BY AmendedFields
<1>2. /\ cfg \in Config /\ Valid(cfg) /\ now \in Nat /\ cfg.grace = InitialConfig.grace
      /\ r \in Record /\ HoldingSound(r.flat, now)
  BY <1>1, RecordOf DEF TInv, TypeOK, ChecksHold, OneGrace, Held
<1>3. /\ m = Show(cfg, r, now) /\ w = Show(cfg, s, now)
      /\ \A v : v = w => Meters' = [Meters EXCEPT ![n] = v]
  BY MeterOthers
<1>4. HoldingSound(s.flat, now)
  BY <1>1, <1>2 DEF TInv, HoldingsSound
<1> HIDE DEF r, s, m, w
<1>5. m # None
  BY <1>1, <1>2, <1>3, ShowHeld DEF Held
<1>6. w = Meter!Noticed([m EXCEPT !.price = s.flat.price], cfg.rate, now)
  BY <1>1, <1>2, <1>3, <1>5, ShowRestated
<1>7. w # None /\ w.price = s.flat.price
  <2>1. Held(cfg, s)
    BY AmendedIsHeld DEF s
  <2>2. w # None
    BY <1>1, <1>2, <1>3, <1>4, <2>1, ShowHeld DEF Held
  <2> QED BY <1>1, <1>2, <1>3, <1>4, <2>2, ShowType
<1>8. w.price \in Nat
  BY <1>1, <1>7 DEF Holding
<1>9. w = Meter!Noticed([m EXCEPT !.price = w.price], cfg.rate, now)
  BY <1>6, <1>7
<1> QED BY <1>3, <1>5, <1>7, <1>8, <1>9 DEF Meter!Reassess, Meter!Become, m, w

\* A deposit that pays for a grace period puts a name's end off.
LEMMA MeterToppedUp ==
  ASSUME TInv, TInv', ChecksHold, OneGrace, NEW n \in FlatNames, now' = now, cfg' = cfg,
         OthersKept(n), Held(cfg, records[n]), Covered(n),
         NEW cf \in Config, SameTerms(cf, cfg), NEW x \in Nat, x > 0,
         records'[n].owner = records[n].owner,
         records'[n].flat = TopUp(cf, records[n].flat, x, now)
  PROVE  Meter!TopUp(n)
<1> DEFINE r == records[n]
           s == records'[n]
           m == Meters[n]
           w == Meters'[n]
<1>1. /\ cfg \in Config /\ Valid(cfg) /\ now \in Nat /\ cfg.grace = InitialConfig.grace
      /\ r \in Record /\ r.flat \in Holding /\ HoldingSound(r.flat, now)
      /\ s \in Record /\ s # None /\ s.flat.balance >= MinDeposit(cfg, s.flat.price)
  BY RecordOf DEF TInv, TypeOK, ChecksHold, OneGrace, Held, Covered
<1>2. /\ m = Show(cfg, r, now) /\ w = Show(cfg, s, now)
      /\ \A v : v = w => Meters' = [Meters EXCEPT ![n] = v]
  BY MeterOthers
<1> DEFINE b == Settle(cfg, r.flat, now).balance
<1>3. /\ s.flat.settled = now /\ s.flat.lapsed = None /\ s.flat.balance = b + x
      /\ s.flat.price = r.flat.price /\ s.owner = r.owner /\ b \in Nat
  <2>1. s.flat = TopUp(cfg, r.flat, x, now)
    <3>1. Settle(cf, r.flat, now) = Settle(cfg, r.flat, now)
      BY SameTax
    <3>2. TopUp(cf, r.flat, x, now) = TopUp(cfg, r.flat, x, now)
      BY <3>1, Zenon DEF TopUp
    <3> QED BY <3>2
  <2> DEFINE g == Settle(cfg, r.flat, now)
  <2>2. /\ g = [price |-> g.price, balance |-> g.balance, settled |-> g.settled, lapsed |-> g.lapsed]
        /\ g.price = r.flat.price
    BY <1>1, SettledFields
  <2>3. s.flat = [g EXCEPT !.balance = @ + x, !.settled = now, !.lapsed = None]
    BY <2>1 DEF TopUp
  <2>4. b \in Nat
    BY <1>1, BalanceAt DEF Config
  <2> HIDE DEF g, s
  <2>5. s.flat.price = g.price /\ s.flat.balance = g.balance + x /\ s.flat.settled = now /\ s.flat.lapsed = None
    BY <2>2, <2>3, Zenon
  <2> QED BY <2>2, <2>4, <2>5 DEF g, s
<1> HIDE DEF r, s, m, w, b
<1>4. m # None
  BY <1>1, <1>2, ShowHeld DEF Held, r
<1>5. /\ m = Tenant(r, m.balance, m.until) /\ m.balance \in Nat /\ m.balance <= b
      /\ m.price = r.flat.price
  <2>1. /\ m \in Meter!Tenancies /\ m = Tenant(r, m.balance, m.until) /\ m.price = r.flat.price
        /\ m.until = None => m.balance = b
        /\ m.until # None => m.balance = 0
    BY <1>1, <1>2, <1>4, ShowType DEF b
  <2> QED BY <1>3, <2>1 DEF Meter!Tenancies
<1>6. /\ w = Tenant(s, s.flat.balance, None) /\ w # None /\ w \in Meter!Tenancies
      /\ w.price = s.flat.price /\ w.balance = s.flat.balance /\ w.until = None
      /\ w.balance >= w.price * cfg.rate * cfg.grace
  BY <1>1, <1>2, <1>3, ShowFilled
<1>7. w.balance \in Nat /\ w.balance > m.balance
  BY <1>3, <1>5, <1>6 DEF Meter!Tenancies
<1>8. w = [m EXCEPT !.balance = w.balance, !.until = None]
  <2>1. w = [owner |-> r.owner, price |-> r.flat.price, balance |-> w.balance, until |-> None]
    BY <1>3, <1>6 DEF Tenant
  <2>2. m = [owner |-> r.owner, price |-> r.flat.price, balance |-> m.balance, until |-> m.until]
    BY <1>5 DEF Tenant
  <2> DEFINE y == m.balance  v == m.until  z == w.balance
  <2>3. m = Tenant(r, y, v) /\ w = Tenant(r, z, None)
    BY <2>1, <2>2 DEF Tenant
  <2> HIDE DEF y, v, z
  <2>4. w = [m EXCEPT !.balance = z, !.until = None]
    <3> DEFINE k == [m EXCEPT !.balance = z]
    <3>1. k = Tenant(r, z, v)
      BY <2>3 DEF Tenant
    <3>2. [m EXCEPT !.balance = z, !.until = None] = [k EXCEPT !.until = None]
      OBVIOUS
    <3> HIDE DEF k
    <3>3. [k EXCEPT !.until = None] = Tenant(r, z, None)
      BY <3>1 DEF Tenant
    <3> QED BY <2>3, <3>2, <3>3
  <2> QED BY <2>4 DEF z
<1>9. w.balance >= w.price * cfg.rate * InitialConfig.grace
  BY <1>1, <1>6
<1> QED BY <1>2, <1>4, <1>6, <1>7, <1>8, <1>9 DEF Meter!TopUp, Meter!Become, m, w

\* A name that is bought or won starts with a grace period paid for.
LEMMA MeterSold ==
  ASSUME TInv, TInv', ChecksHold, OneGrace, NEW n \in FlatNames, now' = now, cfg' = cfg,
         OthersKept(n), Covered(n),
         records'[n].flat.settled = now, records'[n].flat.lapsed = None,
         Held(cfg, records[n]) => records'[n].owner # records[n].owner
  PROVE  Meter!TakeOver(n)
<1> DEFINE r == records[n]
           s == records'[n]
           m == Meters[n]
           w == Meters'[n]
<1>1. /\ cfg \in Config /\ Valid(cfg) /\ now \in Nat /\ cfg.grace = InitialConfig.grace
      /\ s \in Record /\ s # None /\ s.flat.balance >= MinDeposit(cfg, s.flat.price)
      /\ s.flat.settled = now /\ s.flat.lapsed = None
      /\ Held(cfg, r) => s.owner # r.owner
  BY DEF TInv, TypeOK, ChecksHold, OneGrace, Covered
<1>2. /\ m = Show(cfg, r, now) /\ w = Show(cfg, s, now)
      /\ \A v : v = w => Meters' = [Meters EXCEPT ![n] = v]
  BY MeterOthers
<1>3. m # None => m.owner = r.owner /\ Held(cfg, r)
  <2>1. CASE r = None
    BY <1>2, <2>1 DEF Show
  <2>2. CASE r # None
    <3>1. r \in Record /\ HoldingSound(r.flat, now)
      BY <2>2, RecordOf
    <3> HIDE DEF r, m
    <3> QED BY <1>1, <1>2, <2>2, <3>1, ShowType, ShowHeld DEF Held
  <2> QED BY <2>1, <2>2
<1> HIDE DEF r, s, m, w
<1>4. /\ w # None /\ w \in Meter!Tenancies /\ w.owner = s.owner /\ w.until = None
      /\ w.balance >= w.price * cfg.rate * cfg.grace
  BY <1>1, <1>2, ShowFilled
<1>5. m # None => w.owner # m.owner
  BY <1>1, <1>3, <1>4
<1>6. w.balance >= w.price * cfg.rate * InitialConfig.grace
  BY <1>1, <1>4
<1> QED BY <1>2, <1>4, <1>5, <1>6 DEF Meter!TakeOver, Meter!Become, m, w

\* A step that writes one name is something a meter may do, or shows
\* nothing.
LEMMA MeterWrites ==
  ASSUME TInv, TInv', TermsCurrent, ChecksHold, OneGrace, now' = now, cfg' = cfg,
         NEW n \in FlatNames, Writes(n), OthersKept(n)
  PROVE  Meter!Next \/ Meters' = Meters
<1>1. /\ records \in [FlatNames -> Record \cup {None}]
      /\ cfg \in Config /\ UNCHANGED <<now, cfg>> /\ SameTerms(cfg, cfg)
  BY DEF TInv, TypeOK, SameTerms
<1>2. CASE records'[n] = records[n]
  <2>1. Meters'[n] = Meters[n] /\ \A w : w = Meters'[n] => Meters' = [Meters EXCEPT ![n] = w]
    BY <1>2, MeterOthers
  <2>2. Meters' = [Meters EXCEPT ![n] = Meters[n]]
    BY <2>1
  <2> QED BY <2>2 DEF Meters
<1> SUFFICES ASSUME records'[n] # records[n] PROVE Meter!Next
  BY <1>2
<1>3. ASSUME NEW p \in Principals, DeleteRecord(p, n) PROVE Meter!Next
  <2>1. Released(n)
    BY <1>1, <1>3 DEF DeleteRecord, Released
  <2> QED BY <2>1, MeterReleased DEF Meter!Next
<1>4. ASSUME NEW p \in Principals,
             \/ \E t \in FlatTargets : SetRecord(p, n, t)
             \/ \E x \in Prices : SetPrice(p, n, x)
      PROVE  Meter!Next
  <2>1. Amended(n)
    BY <1>4, HolderWrites
  <2> QED BY <2>1, MeterAmended DEF Meter!Next
<1>5. ASSUME NEW p \in Principals, NEW x \in Prices, NEW t \in FlatTargets, Reveal(p, n, x, t)
      PROVE  FALSE
  BY <1>5 DEF Reveal
<1>6. ASSUME NEW k \in CallIds, calls[k].name = n, BuyPaid(k) PROVE Meter!Next
  <2>1. Unchanged(k)
    BY <1>6 DEF BuyPaid
  <2> DEFINE c == calls[k]  g == NewHolding(c.price, c.amount - c.before.price, now)
             s == records'[n]
  <2>2. /\ s = [owner |-> c.who, target |-> c.alias, previous |-> records[n].target,
                changed |-> now, flat |-> s.flat]
        /\ s # None /\ c.who # records[n].owner /\ s.flat = g
        /\ c.amount - c.before.price >= MinDeposit(cfg, c.price)
    BY <1>6, <2>1, BuyWrites
  <2>3. g.balance = c.amount - c.before.price /\ g.price = c.price /\ g.settled = now /\ g.lapsed = None
    BY DEF NewHolding
  <2> HIDE DEF c, g, s
  <2>4. s.owner = c.who
    BY <2>2
  <2>5. Covered(n)
    BY <2>2, <2>3 DEF Covered, s
  <2>6. s.flat.settled = now /\ s.flat.lapsed = None /\ s.owner # records[n].owner
    BY <2>2, <2>3, <2>4
  <2> QED BY <2>5, <2>6, MeterSold DEF s, Meter!Next
<1>7. ASSUME NEW k \in CallIds, calls[k].name = n, DepositPaid(k) PROVE Meter!Next
  <2>1. Unchanged(k) /\ CanTopUp(calls[k].cfg, records[n].flat, calls[k].amount, now)
    BY <1>7 DEF DepositPaid
  <2>2. /\ SameTerms(calls[k].cfg, cfg) /\ calls[k].amount > 0 /\ calls[k].amount \in Nat
        /\ calls[k].cfg \in Config
    BY <1>7, PaymentName
       DEF DepositPaid, Replied, TermsCurrent, CallCurrent, ChecksHold, CallChecked, Call
  <2>3. /\ records[n] # None /\ records'[n] # None /\ records'[n].owner = records[n].owner
        /\ records'[n].flat = TopUp(calls[k].cfg, records[n].flat, calls[k].amount, now)
        /\ records'[n].flat.price = records[n].flat.price
        /\ records'[n].flat.balance >= MinDeposit(calls[k].cfg, records[n].flat.price)
    BY <1>7, <2>1, DepositWrites
  <2>4. Covered(n)
    BY <2>2, <2>3, SameMinDeposit DEF Covered
  <2>5. Held(cfg, records[n])
    <3>1. ~IsFree(calls[k].cfg, records[n].flat, now)
      BY <2>1 DEF CanTopUp
    <3> QED BY <2>2, <2>3, <3>1, SameTax DEF Held
  <2> QED BY <2>2, <2>3, <2>4, <2>5, MeterToppedUp DEF Meter!Next
<1>8. ASSUME NEW cf \in Config, SameTerms(cf, cfg), BidStep(n, cf) PROVE Meter!Next
  <2>1. /\ ~Held(cfg, records[n]) /\ records'[n] # None
        /\ records'[n].flat.balance = MinDeposit(cfg, records'[n].flat.price)
        /\ \E w \in Principals : \E b \in Bid :
              records'[n] = [owner |-> w, target |-> b.alias,
                             previous |-> IF records[n] = None THEN None ELSE records[n].target,
                             changed |-> now, flat |-> NewHolding(b.revealed, b.opening, now)]
    BY <1>8, BidStepHandsOver
  <2>2. \E b \in Bid : records'[n].flat = NewHolding(b.revealed, b.opening, now)
    BY <2>1
  <2>3. records'[n].flat.settled = now /\ records'[n].flat.lapsed = None
    BY <2>2 DEF NewHolding
  <2>4. records'[n].flat.balance \in Nat
    BY <2>1 DEF TInv, TypeOK, Record, Holding
  <2>5. Covered(n)
    BY <2>1, <2>4 DEF Covered
  <2> QED BY <2>1, <2>3, <2>5, MeterSold DEF Meter!Next
<1>9. ASSUME NEW k \in CallIds, calls[k].name = n, BidPaid(k) PROVE Meter!Next
  <2>1. calls[k] # None /\ calls[k].op # "configure" /\ calls[k].cfg \in Config
    BY <1>9, PaymentName DEF BidPaid, Replied
  <2>2. SameTerms(calls[k].cfg, cfg)
    BY <2>1 DEF TermsCurrent, CallCurrent
  <2> QED BY <1>8, <1>9, <2>1, <2>2, BidIsBidStep
<1>10. CASE CloseAuction(n)
  BY <1>1, <1>8, <1>10, CloseIsBidStep
<1>11. CASE \E p \in Principals :
             \/ DeleteRecord(p, n)
             \/ \E y \in FlatTargets : SetRecord(p, n, y)
             \/ \E x \in Prices : SetPrice(p, n, x)
             \/ \E x \in Prices, y \in FlatTargets : Reveal(p, n, x, y)
  BY <1>3, <1>4, <1>5, <1>11
<1>12. CASE \E k \in CallIds : calls[k].name = n /\ (BuyPaid(k) \/ DepositPaid(k) \/ BidPaid(k))
  BY <1>6, <1>7, <1>9, <1>12
<1> QED BY <1>10, <1>11, <1>12 DEF Writes

\* The settled, lazily taxed records of the market are meters: as long as
\* the tax changes at quiet moments only and keeps its grace period, when a
\* record is settled makes no difference to anybody (harberger.rs,
\* settle_all in lib.rs).
THEOREM LazyTaxIsMetered == Spec /\ [][QuietChange]_vars /\ []OneGrace => LazyTaxIsExact
<1>1. Init /\ TInv => Meter!Init
  <2> SUFFICES ASSUME TInv PROVE Meter!Init
    OBVIOUS
  <2>1. now \in Nat /\ cfg \in Config /\ cfg.rate \in Nat
    BY DEF TInv, TypeOK, Config
  <2>2. ASSUME NEW n \in FlatNames PROVE Meters[n] \in Meter!Tenancies \cup {None}
    <3>1. Meters[n] = Show(cfg, records[n], now)
      BY <2>2, ShownIs
    <3>2. CASE records[n] = None
      BY <3>1, <3>2 DEF Show
    <3>3. CASE records[n] # None
      <4>1. records[n] \in Record /\ HoldingSound(records[n].flat, now)
        BY <2>2, <3>3, RecordOf
      <4> QED BY <2>1, <3>1, <4>1, ShowType
    <3> QED BY <3>2, <3>3
  <2>3. Meters \in [FlatNames -> Meter!Tenancies \cup {None}]
    BY <2>2 DEF Meters
  <2> QED BY <2>1, <2>3 DEF Meter!Init
<1>2. /\ TInv /\ TInv' /\ TermsCurrent /\ ChecksHold /\ ChecksHold' /\ OneGrace /\ OneGrace'
      /\ [Next]_vars
      => [Meter!Next]_<<now, cfg.rate, Meters>>
  <2> SUFFICES ASSUME TInv, TInv', TermsCurrent, ChecksHold, ChecksHold', OneGrace, OneGrace',
                      [Next]_vars
               PROVE  Meter!Next \/ UNCHANGED <<now, cfg.rate, Meters>>
    OBVIOUS
  <2>1. CASE Tick
    BY <2>1, MeterTick DEF Meter!Next
  <2>2. ASSUME NEW k \in CallIds, ConfigQuoted(k) PROVE Meter!Next
    BY <2>2, MeterConfig DEF Meter!Next
  <2>3. CASE UNCHANGED <<now, cfg, records, auctions>>
    BY <2>3 DEF Meters, Shown, Held
  <2>4. ASSUME NEW n \in FlatNames, UNCHANGED <<now, cfg>>, Writes(n), OthersKept(n)
        PROVE  Meter!Next \/ UNCHANGED <<now, cfg.rate, Meters>>
    <3>1. Meter!Next \/ Meters' = Meters
      BY <2>4, MeterWrites
    <3> QED BY <2>4, <3>1
  <2> QED BY <2>1, <2>2, <2>3, <2>4, OneName
<1> QED BY <1>1, <1>2, TypedAndSound, ConfigsChecked, TermsOfTheDay, PTL
        DEF Spec, LazyTaxIsExact, Meter!Spec
=============================================================================
