--------------------------- MODULE Handover_proofs ---------------------------
(***************************************************************************)
(* One remembered target is enough: the latest change of hands of a flat   *)
(* name is visible for the whole window.                                   *)
(***************************************************************************)
EXTENDS Handover, Terms_proofs

-----------------------------------------------------------------------------
(* The inductive invariant                                                 *)

\* Every holding that ended did so before now.
PastOver ==
  /\ past \in [FlatNames -> SUBSET (FlatTargets \X Nat)]
  /\ \A n \in FlatNames : \A e \in past[n] : e[2] <= now

\* A record r that follows ended holdings started when the last of them
\* ended; the target it remembers is the one that led to then; and its tax
\* runs from then at the earliest.
Follows(r, es) ==
  /\ \A e \in es : e[2] <= r.changed
  /\ r.previous # None => <<r.previous, r.changed>> \in es
  /\ r.changed <= r.flat.settled
  /\ r.flat.lapsed # None => r.changed <= r.flat.lapsed

HandoverInv ==
  /\ PastOver
  /\ \A n \in FlatNames : records[n] # None /\ past[n] # {} => Follows(records[n], past[n])

-----------------------------------------------------------------------------

\* A holding does not run out before it starts.
LEMMA LapsesAfter ==
  ASSUME NEW cf, cf.rate \in Nat, NEW h \in Holding, NEW t \in Nat, NEW x \in Nat,
         x <= h.settled, h.lapsed # None => x <= h.lapsed, LapsedAt(cf, h, t) # None
  PROVE  LapsedAt(cf, h, t) \in Nat /\ x <= LapsedAt(cf, h, t)
<1>1. h.settled \in Nat /\ h.lapsed \in Nat \cup {None}
  BY DEF Holding
<1>2. CASE RunsOut(cf, h, t)
  <2>1. Burn(cf, h) > 0 /\ h.lapsed = None
    BY <1>2 DEF RunsOut, Burn
  <2>2. TicksUntilSpent(cf, h) \in Nat
    BY <2>1, EndTick
  <2>3. LapsedAt(cf, h, t) = h.settled + TicksUntilSpent(cf, h)
    BY <1>2 DEF LapsedAt
  <2> DEFINE q == TicksUntilSpent(cf, h)
  <2> HIDE DEF q
  <2>4. q \in Nat /\ LapsedAt(cf, h, t) = h.settled + q
    BY <2>2, <2>3 DEF q
  <2> QED BY <1>1, <2>4
<1>3. CASE ~RunsOut(cf, h, t)
  <2>1. LapsedAt(cf, h, t) = h.lapsed
    BY <1>3 DEF LapsedAt
  <2> QED BY <1>1, <2>1
<1> QED BY <1>2, <1>3

\* A name that is free changed hands before now: a grace period has passed
\* since its record ran out.
LEMMA FreeIsLater ==
  ASSUME TInv, NEW n \in FlatNames, records[n] # None, NEW es, Follows(records[n], es),
         NEW cf \in Config, Valid(cf), ~Held(cf, records[n])
  PROVE  records[n].changed < now
<1> DEFINE r == records[n]
           l == LapsedAt(cf, r.flat, now)
<1>1. /\ r.flat \in Holding /\ r.changed \in Nat /\ now \in Nat
      /\ cf.rate \in Nat /\ cf.grace \in Nat /\ cf.grace > 0
  BY RecordOf DEF TInv, TypeOK, Record, Config, Valid
<1>2. l # None /\ ~(now < l + cf.grace)
  BY DEF Held, IsFree, Status
<1>3. l \in Nat /\ r.changed <= l
  <2>1. r.changed <= r.flat.settled /\ (r.flat.lapsed # None => r.changed <= r.flat.lapsed)
    BY DEF Follows
  <2> HIDE DEF r
  <2> QED BY <1>1, <1>2, <2>1, LapsesAfter
<1> HIDE DEF r, l
<1>4. r.changed < now
  BY <1>1, <1>2, <1>3
<1> QED BY <1>4 DEF r

\* A record that is settled still follows what it followed.
LEMMA SettledFollows ==
  ASSUME TInv, NEW n \in FlatNames, records[n] # None, NEW es, Follows(records[n], es),
         NEW s, s.changed = records[n].changed, s.previous = records[n].previous,
         s.flat.lapsed = LapsedAt(cfg, records[n].flat, now),
         s.flat.settled = IF records[n].flat.lapsed = None THEN now ELSE records[n].flat.settled
  PROVE  Follows(s, es)
<1> DEFINE r == records[n]
<1>1. /\ r.flat \in Holding /\ r.changed \in Nat /\ now \in Nat /\ cfg.rate \in Nat
      /\ r.flat.settled <= now /\ r.flat.settled \in Nat
      /\ r.changed <= r.flat.settled /\ (r.flat.lapsed # None => r.changed <= r.flat.lapsed)
  BY RecordOf DEF TInv, TypeOK, Record, Config, Holding, HoldingSound, Follows
<1>2. s.changed <= s.flat.settled
  BY <1>1
<1>3. s.flat.lapsed # None => s.changed <= s.flat.lapsed
  BY <1>1, LapsesAfter
<1> QED BY <1>2, <1>3 DEF Follows

\* What a name whose record changes hands remembers.
LEMMA Remembered ==
  ASSUME TInv, PastOver, Remember, NEW n \in FlatNames
  PROVE  past'[n] = IF ChangesHands(n) THEN past[n] \cup {<<records[n].target, now>>} ELSE past[n]
BY DEF Remember, PastOver

\* The record of a name that is written follows the holdings that ended.
LEMMA WrittenFollows ==
  ASSUME TInv, ChecksHold, HandoverInv, Remember, NEW n \in FlatNames, Writes(n),
         records'[n] # None, past'[n] # {}
  PROVE  Follows(records'[n], past'[n])
<1> DEFINE r == records[n]
           s == records'[n]
           es == past[n]
<1>1. /\ past'[n] = IF ChangesHands(n) THEN es \cup {<<r.target, now>>} ELSE es
      /\ r # None /\ es # {} => Follows(r, es)
      /\ es \in SUBSET (FlatTargets \X Nat) /\ now \in Nat /\ None \notin FlatTargets
      /\ \A e \in es : e[2] <= now
  BY Remembered, StartAssumption DEF HandoverInv, PastOver, TInv, TypeOK
<1>2. ASSUME r # None, es # {}, ~ChangesHands(n), s.changed = r.changed, s.previous = r.previous,
             s.flat.lapsed = LapsedAt(cfg, r.flat, now),
             s.flat.settled = IF r.flat.lapsed = None THEN now ELSE r.flat.settled
      PROVE  Follows(s, past'[n])
  <2>1. Follows(s, es)
    <3> HIDE DEF s, es
    <3> QED BY <1>1, <1>2, SettledFollows
  <2> QED BY <1>1, <1>2, <2>1
<1>3. CASE s = r
  <2>1. ~ChangesHands(n)
    BY <1>3 DEF ChangesHands
  <2> QED BY <1>1, <1>3, <2>1
<1>4. CASE Released(n)
  BY <1>4 DEF Released
<1>5. CASE Amended(n)
  <2>1. /\ r # None /\ s.owner = r.owner /\ s.changed = r.changed /\ s.previous = r.previous
        /\ s.flat.lapsed = LapsedAt(cfg, r.flat, now)
        /\ s.flat.settled = IF r.flat.lapsed = None THEN now ELSE r.flat.settled
    BY <1>5, AmendedFields DEF Held
  <2>2. ~ChangesHands(n)
    BY <2>1 DEF ChangesHands
  <2>3. es # {}
    BY <1>1, <2>2
  <2> QED BY <1>2, <2>1, <2>2, <2>3
<1>6. CASE ToppedUp(n)
  <2>1. PICK cf \in Config, x \in Nat : s = [r EXCEPT !.flat = TopUp(cf, @, x, now)]
    BY <1>6 DEF ToppedUp
  <2>2. r # None /\ r \in Record /\ r.flat \in Holding
    BY <1>6, RecordOf DEF ToppedUp
  <2> DEFINE g == TopUp(cf, r.flat, x, now)
  <2>3. g.settled = now /\ g.lapsed = None
    <3> DEFINE h == Settle(cf, r.flat, now)
    <3>1. h = [price |-> h.price, balance |-> h.balance, settled |-> h.settled, lapsed |-> h.lapsed]
      BY <2>2, SettledFields
    <3>2. g = [h EXCEPT !.balance = @ + x, !.settled = now, !.lapsed = None]
      BY DEF TopUp
    <3> HIDE DEF h, g
    <3> QED BY <3>1, <3>2, Zenon
  <2>4. s.owner = r.owner /\ s.changed = r.changed /\ s.previous = r.previous /\ s.flat = g
    <3> HIDE DEF g, r
    <3>1. s = [r EXCEPT !.flat = g]
      BY <2>1 DEF g
    <3> HIDE DEF s
    <3> QED BY <2>2, <3>1 DEF Record
  <2>5. ~ChangesHands(n)
    BY <2>4 DEF ChangesHands
  <2>6. Follows(r, es) /\ past'[n] = es
    BY <1>1, <2>2, <2>5
  <2>7. r.changed <= now
    <3>1. /\ r.changed \in Nat /\ r.flat.settled \in Nat /\ r.flat.settled <= now
          /\ r.changed <= r.flat.settled
      BY <2>2, <2>6, RecordOf DEF Record, Holding, HoldingSound, Follows
    <3> HIDE DEF r
    <3> QED BY <1>1, <3>1
  <2> HIDE DEF s, r, es, g
  <2> QED BY <2>3, <2>4, <2>6, <2>7 DEF Follows, s
<1>7. CASE Sold(n)
  <2>1. PICK w \in Principals, t \in FlatTargets, x \in Nat, y \in Nat :
          /\ s = [owner |-> w, target |-> t,
                  previous |-> IF r = None THEN None ELSE r.target,
                  changed |-> now, flat |-> NewHolding(x, y, now)]
          /\ r # None => \/ w # r.owner
                         \/ \E cf \in Config : Valid(cf) /\ ~Held(cf, r)
    BY <1>7 DEF Sold
  <2>2. /\ s.owner = w /\ s.previous = (IF r = None THEN None ELSE r.target) /\ s.changed = now
        /\ s.flat.settled = now /\ s.flat.lapsed = None
    BY <2>1 DEF NewHolding
  <2>3. r # None /\ es # {} => ChangesHands(n)
    <3> SUFFICES ASSUME r # None, es # {} PROVE ChangesHands(n)
      OBVIOUS
    <3>1. CASE w # r.owner
      BY <2>2, <3>1 DEF ChangesHands
    <3>2. ASSUME NEW cf \in Config, Valid(cf), ~Held(cf, r) PROVE ChangesHands(n)
      <4>1. r.changed < now /\ r.changed \in Nat
        <5>1. Follows(r, es)
          BY <1>1
        <5>2. r.changed < now
          <6> HIDE DEF es
          <6> QED BY <3>2, <5>1, FreeIsLater
        <5> QED BY <5>2, RecordOf DEF Record
      <4>2. s.changed # r.changed
        BY <1>1, <2>2, <4>1
      <4> QED BY <4>2 DEF ChangesHands
    <3> QED BY <2>1, <3>1, <3>2
  <2>4. \A e \in past'[n] : e[2] <= s.changed
    BY <1>1, <2>2
  <2>5. s.previous # None => <<s.previous, s.changed>> \in past'[n]
    <3> SUFFICES ASSUME s.previous # None PROVE <<s.previous, s.changed>> \in past'[n]
      OBVIOUS
    <3>1. r # None /\ s.previous = r.target
      BY <2>2
    <3>2. ChangesHands(n)
      BY <1>1, <2>3, <3>1
    <3> QED BY <1>1, <2>2, <3>1, <3>2
  <2>6. s.changed <= s.flat.settled /\ s.flat.lapsed = None
    BY <1>1, <2>2
  <2> QED BY <2>4, <2>5, <2>6 DEF Follows
<1> QED BY <1>3, <1>4, <1>5, <1>6, <1>7, WrittenRecord

\* A step that leaves the records as they are, or settles them, ends no
\* holding.
LEMMA QuietRecord ==
  ASSUME TInv, HandoverInv, Remember, NEW n \in FlatNames,
         \/ records'[n] = records[n]
         \/ /\ records[n] # None /\ records'[n] # None
            /\ records'[n] = [records[n] EXCEPT !.flat = Settle(cfg, @, now)]
  PROVE  /\ past'[n] = past[n]
         /\ records'[n] # None /\ past'[n] # {} => Follows(records'[n], past'[n])
<1> DEFINE r == records[n]
           s == records'[n]
<1>1. past'[n] = IF ChangesHands(n) THEN past[n] \cup {<<r.target, now>>} ELSE past[n]
  BY Remembered DEF HandoverInv
<1>2. CASE s = r
  <2>1. ~ChangesHands(n)
    BY <1>2 DEF ChangesHands
  <2> QED BY <1>1, <1>2, <2>1 DEF HandoverInv
<1>3. CASE r # None /\ s # None /\ s = [r EXCEPT !.flat = Settle(cfg, @, now)]
  <2>1. r \in Record /\ r.flat \in Holding
    BY <1>3, RecordOf
  <2> DEFINE g == Settle(cfg, r.flat, now)
  <2>2. s.owner = r.owner /\ s.changed = r.changed /\ s.previous = r.previous /\ s.flat = g
    <3> HIDE DEF g, r
    <3>1. s = [r EXCEPT !.flat = g]
      BY <1>3 DEF g
    <3> HIDE DEF s
    <3> QED BY <2>1, <3>1 DEF Record
  <2>3. g.lapsed = LapsedAt(cfg, r.flat, now) /\ g.settled = IF r.flat.lapsed = None THEN now ELSE r.flat.settled
    BY <2>1, SettledFields
  <2>4. ~ChangesHands(n) /\ past'[n] = past[n]
    BY <1>1, <1>3, <2>2 DEF ChangesHands
  <2>5. ASSUME past[n] # {} PROVE Follows(s, past[n])
    <3>1. Follows(r, past[n])
      BY <1>3, <2>5 DEF HandoverInv
    <3> HIDE DEF s
    <3> QED BY <1>3, <2>2, <2>3, <3>1, SettledFollows
  <2> QED BY <2>4, <2>5
<1> QED BY <1>2, <1>3

\* Every step, the watcher's note with it, keeps the record of each name following the
\* holdings that ended there.
LEMMA HandoverStep ==
  ASSUME TInv, ChecksHold, HandoverInv, [Next /\ Remember]_<<vars, past>>
  PROVE  HandoverInv'
<1>1. CASE UNCHANGED <<vars, past>>
  BY <1>1 DEF vars, HandoverInv, PastOver, Follows
<1> SUFFICES ASSUME Next, Remember PROVE HandoverInv'
  BY <1>1
<1>2. /\ now \in Nat /\ now' \in Nat /\ now <= now'
      /\ \A n \in FlatNames :
           /\ \/ past'[n] = past[n]
              \/ records[n] # None /\ past'[n] = past[n] \cup {<<records[n].target, now>>}
           /\ records'[n] # None /\ past'[n] # {} => Follows(records'[n], past'[n])
  <2>1. now \in Nat
    BY DEF TInv, TypeOK
  <2>2. ASSUME NEW n \in FlatNames
        PROVE  \/ past'[n] = past[n]
               \/ records[n] # None /\ past'[n] = past[n] \cup {<<records[n].target, now>>}
    BY <2>2, Remembered DEF HandoverInv, ChangesHands
  <2>3. CASE Tick
    BY <2>1, <2>2, <2>3, QuietRecord DEF Tick, canisterVars
  <2>4. ASSUME NEW k \in CallIds, ConfigQuoted(k)
        PROVE  /\ now' = now
               /\ \A n \in FlatNames :
                    records'[n] # None /\ past'[n] # {} => Follows(records'[n], past'[n])
    BY <2>4, ConfigRecords, QuietRecord DEF ConfigQuoted
  <2>5. CASE UNCHANGED <<now, cfg, records, auctions>>
    BY <2>1, <2>2, <2>5, QuietRecord
  <2>6. ASSUME NEW n \in FlatNames, now' = now, Writes(n), OthersKept(n)
        PROVE  \A m \in FlatNames :
                 records'[m] # None /\ past'[m] # {} => Follows(records'[m], past'[m])
    <3>1. records'[n] # None /\ past'[n] # {} => Follows(records'[n], past'[n])
      BY <2>6, WrittenFollows
    <3>2. ASSUME NEW m \in FlatNames \ {n}
          PROVE  records'[m] # None /\ past'[m] # {} => Follows(records'[m], past'[m])
      BY <2>6, <3>2, QuietRecord DEF OthersKept
    <3> QED BY <3>1, <3>2
  <2> QED BY <2>1, <2>2, <2>3, <2>4, <2>5, <2>6, OneName
<1>3. PastOver'
  <2>1. past' \in [FlatNames -> SUBSET (FlatTargets \X Nat)]
    <3>1. \A n \in FlatNames : past'[n] \in SUBSET (FlatTargets \X Nat)
      BY <1>2, RecordOf DEF HandoverInv, PastOver, Record
    <3> QED BY <3>1 DEF Remember
  <2>2. ASSUME NEW n \in FlatNames, NEW e \in past'[n] PROVE e[2] <= now'
    <3>1. CASE e \in past[n]
      <4>1. e[2] \in Nat /\ e[2] <= now
        BY <3>1 DEF HandoverInv, PastOver
      <4> QED BY <1>2, <4>1
    <3>2. CASE e \notin past[n]
      <4>1. e[2] = now
        BY <1>2, <2>2, <3>2
      <4> QED BY <1>2, <4>1
    <3> QED BY <3>1, <3>2
  <2> QED BY <2>1, <2>2 DEF PastOver
<1> QED BY <1>2, <1>3 DEF HandoverInv

\* The page shows whatever the latest change of hands changed.
LEMMA FollowsShows ==
  ASSUME TInv, HandoverInv
  PROVE  LastSaleVisible
<1> SUFFICES ASSUME NEW n \in FlatNames, Held(cfg, records[n]), records[n].previous # None,
                    NEW e \in Latest(n), now - e[2] < WarnNs,
                    \A f \in Latest(n) : f[1] # records[n].target
             PROVE  HandoverPage(n)
  <2>1. ASSUME NEW n \in FlatNames, NEW e \in Latest(n) PROVE ~(now - e[2] < WarnNs) => now - e[2] >= WarnNs
    <3>1. now \in Nat /\ e[2] \in Nat
      BY <2>1 DEF Latest, HandoverInv, PastOver, TInv, TypeOK
    <3> QED BY <3>1, WarnAssumption
  <2> QED BY <2>1 DEF LastSaleVisible
<1> DEFINE r == records[n]
<1>1. r # None /\ r \in Record /\ r.changed \in Nat
  BY RecordOf DEF Held, Record
<1>2. e \in past[n] /\ e[2] \in Nat /\ \A f \in past[n] : f[2] \in Nat /\ f[2] <= e[2]
  BY DEF Latest, HandoverInv, PastOver
<1>3. Follows(r, past[n])
  BY <1>1, <1>2 DEF HandoverInv
<1> DEFINE f == <<r.previous, r.changed>>
<1>4. f \in past[n] /\ f[1] = r.previous /\ f[2] = r.changed
  BY <1>3 DEF Follows
<1>5. e[2] = r.changed
  <2>1. e[2] <= r.changed /\ r.changed <= e[2]
    BY <1>2, <1>3, <1>4 DEF Follows
  <2> HIDE DEF r
  <2> QED BY <1>1, <1>2, <2>1
<1>6. f \in Latest(n)
  BY <1>2, <1>4, <1>5 DEF Latest
<1>7. r.previous # r.target
  BY <1>4, <1>6
<1> QED BY <1>5, <1>7 DEF HandoverPage, Recent

\* Each flat name shows its latest change of hands for as long as the
\* gateway promises: the one previous target a record keeps is enough
\* (gateway.rs handover_page).
THEOREM LastSaleStaysVisible == HandoverSpec => []LastSaleVisible
<1>1. HandoverInit => HandoverInv
  BY DEF HandoverInit, HandoverInv, PastOver
<1>2. [Next /\ Remember]_<<vars, past>> => [Next]_vars
  BY DEF vars
<1>3. HandoverInit => Init
  BY DEF HandoverInit
<1>4. TInv /\ ChecksHold /\ HandoverInv /\ [Next /\ Remember]_<<vars, past>> => HandoverInv'
  BY HandoverStep
<1>5. TInv /\ HandoverInv => LastSaleVisible
  BY FollowsShows
<1> QED BY <1>1, <1>2, <1>3, <1>4, <1>5, TypedAndSound, ConfigsChecked, PTL DEF Spec, HandoverSpec
=============================================================================
