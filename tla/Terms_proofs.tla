----------------------------- MODULE Terms_proofs -----------------------------
(***************************************************************************)
(* What a holder and a bidder may rely on while the tax is changed only    *)
(* at quiet moments: no payment under way, no auction open. A payment that *)
(* arrives late then never acts on other terms than those it was checked   *)
(* against, and nothing but the close of its auction gives a name back.    *)
(***************************************************************************)
EXTENDS Holdings_proofs

-----------------------------------------------------------------------------
(* Only the rate and the grace period matter                               *)

\* Configs with the same tax settle, lapse and free a holding alike.
LEMMA SameTax ==
  ASSUME NEW cf, NEW cg, SameTerms(cf, cg), NEW h, NEW t
  PROVE  /\ Taken(cf, h, t) = Taken(cg, h, t)
         /\ LapsedAt(cf, h, t) = LapsedAt(cg, h, t)
         /\ Settle(cf, h, t) = Settle(cg, h, t)
         /\ Status(cf, h, t) = Status(cg, h, t)
         /\ IsFree(cf, h, t) <=> IsFree(cg, h, t)
<1>1. cf.rate = cg.rate /\ cf.grace = cg.grace
  BY DEF SameTerms
<1>2. RunsOut(cf, h, t) <=> RunsOut(cg, h, t)
  BY <1>1, Zenon DEF RunsOut, TaxDue
<1>3. Taken(cf, h, t) = Taken(cg, h, t)
  BY <1>1, <1>2, Zenon DEF Taken, TaxDue
<1>4. LapsedAt(cf, h, t) = LapsedAt(cg, h, t)
  BY <1>1, <1>2, Zenon DEF LapsedAt, TicksUntilSpent
<1>5. Settle(cf, h, t) = Settle(cg, h, t)
  BY <1>3, <1>4, Zenon DEF Settle
<1>6. Status(cf, h, t) = Status(cg, h, t)
  BY <1>1, <1>4, Zenon DEF Status
<1> QED BY <1>3, <1>4, <1>5, <1>6 DEF IsFree

\* They ask for the same least deposit and know the same holders.
LEMMA SameMinDeposit ==
  ASSUME NEW cf, NEW cg, SameTerms(cf, cg)
  PROVE  /\ \A price : MinDeposit(cf, price) = MinDeposit(cg, price)
         /\ \A r : Held(cf, r) <=> Held(cg, r)
<1>1. \A price : MinDeposit(cf, price) = MinDeposit(cg, price)
  BY Zenon DEF SameTerms, MinDeposit, TaxDue
<1>2. \A r : Held(cf, r) <=> Held(cg, r)
  BY SameTax DEF Held
<1> QED BY <1>1, <1>2

-----------------------------------------------------------------------------
(* The suspended calls                                                     *)

CallsCurrent == \A k \in CallIds : calls[k] # None => CallCurrent(cfg, calls[k])

AuctionsCurrent == \A n \in FlatNames : auctions[n] # None => AuctionCurrent(cfg, auctions[n])

\* The call d is c, further on.
SameCall(c, d) ==
  /\ c # None /\ d.op = c.op /\ d.cfg = c.cfg /\ d.before = c.before
  /\ d.who = c.who /\ d.amount = c.amount /\ d.price = c.price

\* The call c was checked just now.
NewCall(c) ==
  /\ c.cfg = cfg
  /\ c.op = "buy" =>
       /\ c.before.owner # c.who
       /\ c.before.status.state # "free"
       /\ c.amount - c.before.price >= MinDeposit(cfg, c.price)
  /\ c.op = "deposit" => c.amount > 0

\* A suspended call is new or the same as before.
LEMMA CallStep ==
  ASSUME TInv, [Next]_vars, NEW j \in CallIds, calls'[j] # None
  PROVE  SameCall(calls[j], calls'[j]) \/ NewCall(calls'[j])
<1>1. calls \in [CallIds -> Call \cup {None}] /\ None \notin Call
  BY StartAssumption DEF TInv, TypeOK
<1> DEFINE Step(i) == calls'[i] # None => SameCall(calls[i], calls'[i]) \/ NewCall(calls'[i])
           Only(k) == (\A i \in CallIds \ {k} : calls'[i] = calls[i]) /\ Step(k)
<1>2. ASSUME NEW i \in CallIds, calls'[i] = calls[i] PROVE Step(i)
  BY <1>2 DEF SameCall
<1>3. ASSUME NEW k \in CallIds, Only(k) PROVE Step(j)
  BY <1>2, <1>3
<1>4. ASSUME UNCHANGED calls PROVE Step(j)
  BY <1>2, <1>4
<1>5. SUFFICES UNCHANGED calls \/ \E k \in CallIds : Only(k)
  BY <1>3, <1>4
<1>6. ASSUME NEW k \in CallIds, Finish(k) PROVE Only(k)
  BY <1>1, <1>6 DEF Finish
<1>7. ASSUME NEW k \in CallIds, calls[k] # None, NEW c \in Call, calls' = [calls EXCEPT ![k] = c],
             SameCall(calls[k], c)
      PROVE  Only(k)
  BY <1>1, <1>7
<1>8. ASSUME NEW k \in CallIds, calls[k] # None,
             \E stage \in {"sent", "moved", "refused", "charged"} : Stage(k, stage)
      PROVE  Only(k)
  <2>1. PICK stage \in {"sent", "moved", "refused", "charged"} : Stage(k, stage)
    BY <1>8
  <2> DEFINE c == [calls[k] EXCEPT !.stage = stage]
  <2>2. calls' = [calls EXCEPT ![k] = c]
    BY <1>1, <2>1 DEF Stage
  <2>3. c \in Call /\ SameCall(calls[k], c)
    BY <1>1, <1>8 DEF Call, SameCall
  <2> HIDE DEF c, Only
  <2> QED BY <1>7, <1>8, <2>2, <2>3
<1>9. ASSUME NEW k \in CallIds, Resume(k) PROVE Only(k)
  <2>1. CASE FundSelfQuoted(k)
    BY <1>8, <2>1 DEF FundSelfQuoted, Replied
  <2>2. CASE ~FundSelfQuoted(k)
    <3>1. Finish(k)
      BY <1>9, <2>2 DEF Resume, BuyPaid, DepositPaid, BidPaid, PaymentFailed, WithdrawPaid,
        WithdrawFailed, ReplyUndecodable, FeeRejected, FundSelfDone, ConfigQuoted
    <3> QED BY <1>6, <3>1
  <2> QED BY <2>1, <2>2
<1>10. ASSUME NEW k \in CallIds, Execute(k) PROVE Only(k)
  <2>1. CASE LedgerQuotes(k)
    <3>1. calls[k] # None /\ \E l \in Ledgers :
             calls' = [calls EXCEPT ![k].stage = "quoted", ![k].quote = fee[l]]
      <4>1. calls[k] \in Call /\ CallSound(calls[k])
        BY <1>1, <2>1 DEF LedgerQuotes, TInv, CallsSound
      <4>2. calls[k].cfg.ledger \in Ledgers
            /\ (calls[k].op = "configure" => calls[k].next.ledger \in Ledgers)
        BY <4>1 DEF Call, CallSound, Config
      <4> QED BY <2>1, <4>2 DEF LedgerQuotes
    <3>2. PICK l \in Ledgers : calls' = [calls EXCEPT ![k].stage = "quoted", ![k].quote = fee[l]]
      BY <3>1
    <3> DEFINE c == [calls[k] EXCEPT !.stage = "quoted", !.quote = fee[l]]
    <3>3. calls' = [calls EXCEPT ![k] = c]
      BY <1>1, <3>2
    <3>4. fee[l] \in Nat
      BY DEF TInv, TypeOK, LedgerTypeOK
    <3>5. c \in Call /\ SameCall(calls[k], c)
      <4>1. calls[k] \in Call /\ calls[k] # None
        BY <1>1, <3>1
      <4>2. /\ c \in Call /\ c.op = calls[k].op /\ c.cfg = calls[k].cfg
            /\ c.before = calls[k].before
            /\ c.who = calls[k].who /\ c.amount = calls[k].amount /\ c.price = calls[k].price
        BY <3>4, <4>1 DEF Call
      <4> HIDE DEF c
      <4> QED BY <4>1, <4>2 DEF SameCall
    <3> HIDE DEF c, Only
    <3> QED BY <1>7, <3>1, <3>3, <3>5
  <2>2. CASE ~LedgerQuotes(k)
    <3>1. calls[k] # None /\ \E stage \in {"sent", "moved", "refused", "charged"} : Stage(k, stage)
      BY <1>10, <2>2 DEF Execute, LedgerPulls, LedgerPays, LedgerFunds, LedgerReturns,
        LedgerRefuses, Sent
    <3> QED BY <1>8, <3>1
  <2> QED BY <2>1, <2>2
<1>11. ASSUME NEW p \in Principals, CallsOf(p) PROVE UNCHANGED calls
  BY <1>11 DEF CallsOf, DeleteRecord, SetRecord, SetPrice, Reveal
<1>12. ASSUME NEW k \in CallIds, NEW c, calls' = [calls EXCEPT ![k] = c], NewCall(c)
       PROVE  Only(k)
  BY <1>1, <1>12
<1>13. ASSUME NEW p \in Principals, NEW k \in CallIds, NEW n \in FlatNames, NEW x \in Amounts,
              NEW t \in FlatTargets, NEW price \in Prices, Buy(k, p, n, t, price, x)
       PROVE  Only(k)
  <2> DEFINE r == records[n]
             c == [Request("buy", "sent", p) EXCEPT
                     !.name = n, !.alias = t, !.price = price, !.amount = r.flat.price + x,
                     !.before = SnapshotOf(cfg, r)]
  <2>1. calls' = [calls EXCEPT ![k] = c] /\ r # None /\ ~IsFree(cfg, r.flat, now) /\ r.owner # p
        /\ x >= MinDeposit(cfg, price)
    BY <1>13 DEF Buy, Await, Held
  <2>2. c.op = "buy" /\ c.cfg = cfg /\ c.who = p /\ c.price = price /\ c.amount = r.flat.price + x
        /\ c.before = SnapshotOf(cfg, r)
    BY DEF Request
  <2>3. /\ SnapshotOf(cfg, r).owner = r.owner /\ SnapshotOf(cfg, r).price = r.flat.price
        /\ SnapshotOf(cfg, r).status.state # "free"
    BY <2>1 DEF SnapshotOf, IsFree
  <2>4. r.flat.price \in Nat /\ x \in Nat
    BY <2>1, MarketAssumption DEF TInv, TypeOK, Record, Holding
  <2> HIDE DEF c, r
  <2>5. c.amount - c.before.price = x
    BY <2>2, <2>3, <2>4
  <2>6. NewCall(c)
    BY <2>1, <2>2, <2>3, <2>5 DEF NewCall
  <2> QED BY <1>12, <2>1, <2>6
<1>14. ASSUME NEW p \in Principals, PaymentsOf(p) PROVE \E k \in CallIds : Only(k)
  <2>1. ASSUME NEW k \in CallIds, NEW n \in FlatNames, NEW x \in Amounts, Deposit(k, p, n, x)
        PROVE  Only(k)
    <3> DEFINE c == [Request("deposit", "sent", p) EXCEPT
                       !.name = n, !.amount = x, !.before = SnapshotOf(cfg, records[n])]
    <3>1. calls' = [calls EXCEPT ![k] = c] /\ x > 0
      BY <2>1 DEF Deposit, Await
    <3>2. NewCall(c)
      BY <3>1 DEF Request, NewCall
    <3> HIDE DEF c, Only
    <3> QED BY <1>12, <3>1, <3>2
  <2>2. ASSUME NEW k \in CallIds, NEW n \in FlatNames, NEW x \in Amounts, PlaceBid(k, p, n, x)
        PROVE  Only(k)
    BY <1>1, <2>2 DEF PlaceBid, Await, Request, NewCall
  <2> HIDE DEF Only
  <2> QED BY <1>13, <1>14, <2>1, <2>2 DEF PaymentsOf
<1>15. ASSUME NEW p \in Principals, Payout(p) PROVE \E k \in CallIds : Only(k)
  BY <1>1, <1>15 DEF Payout, Withdraw, Await, Request, NewCall
<1>16. ASSUME NEW p \in Controllers, Administer(p)
       PROVE UNCHANGED calls \/ \E k \in CallIds : Only(k)
  BY <1>1, <1>16 DEF Administer, FundSelf, SetHarbergerConfig, SetAuctionConfig, Await, Request,
    NewCall
<1>17. CASE Tick \/ LedgerChangesFee \/ UNCHANGED vars \/ \E n \in FlatNames : CloseAuction(n)
  BY <1>17 DEF Tick, LedgerChangesFee, vars, CloseAuction
<1> HIDE DEF Only, Step
<1> QED BY <1>9, <1>10, <1>11, <1>14, <1>15, <1>16, <1>17 DEF Next

\* A call checked now resumes under the terms it was checked against.
LEMMA CallsStayCurrent ==
  ASSUME TInv, CallsCurrent, SameTerms(cfg', cfg), [Next]_vars
  PROVE  CallsCurrent'
<1>1. \A c : CallCurrent(cfg, c) <=> CallCurrent(cfg', c)
  BY SameMinDeposit DEF CallCurrent, SameTerms
<1>2. ASSUME NEW k \in CallIds, calls'[k] # None PROVE CallCurrent(cfg, calls'[k])
  <2>1. CASE SameCall(calls[k], calls'[k])
    BY <2>1 DEF SameCall, CallsCurrent, CallCurrent
  <2>2. CASE NewCall(calls'[k])
    BY <2>2 DEF NewCall, CallCurrent, SameTerms
  <2> QED BY <1>2, <2>1, <2>2, CallStep
<1> QED BY <1>1, <1>2 DEF CallsCurrent

-----------------------------------------------------------------------------
(* What a step does to one name                                            *)

\* A handler that may write the record or the auction of n.
Writes(n) ==
  \/ \E p \in Principals :
       \/ DeleteRecord(p, n)
       \/ \E t \in FlatTargets : SetRecord(p, n, t)
       \/ \E x \in Prices : SetPrice(p, n, x)
       \/ \E x \in Prices, t \in FlatTargets : Reveal(p, n, x, t)
  \/ \E k \in CallIds : calls[k].name = n /\ (BuyPaid(k) \/ DepositPaid(k) \/ BidPaid(k))
  \/ CloseAuction(n)

OthersKept(n) ==
  \A m \in FlatNames \ {n} : records'[m] = records[m] /\ auctions'[m] = auctions[m]

\* A payment's handler is about a name.
LEMMA PaymentName ==
  ASSUME TInv, NEW k \in CallIds, BuyPaid(k) \/ DepositPaid(k) \/ BidPaid(k)
  PROVE  /\ calls[k] \in Call /\ CallSound(calls[k]) /\ calls[k] # None
         /\ calls[k].name \in FlatNames /\ calls[k].cfg \in Config
<1>1. calls[k] # None /\ calls[k].op \in Payments
  BY DEF BuyPaid, DepositPaid, BidPaid, Replied, Payments
<1> QED BY <1>1, Resumed DEF CallSound

\* Apart from the clock and a new config, a step writes one name at most.
LEMMA OneName ==
  ASSUME TInv, [Next]_vars
  PROVE  \/ Tick
         \/ \E k \in CallIds : ConfigQuoted(k)
         \/ UNCHANGED <<now, cfg, records, auctions>>
         \/ /\ UNCHANGED <<now, cfg>>
            /\ \E n \in FlatNames : Writes(n) /\ OthersKept(n)
<1>1. records \in [FlatNames -> Record \cup {None}] /\ auctions \in [FlatNames -> Running \cup {None}]
  BY DEF TInv, TypeOK
<1> DEFINE Written == UNCHANGED <<now, cfg>> /\ \E n \in FlatNames : Writes(n) /\ OthersKept(n)
           Idle == UNCHANGED <<now, cfg, records, auctions>>
<1>2. ASSUME NEW k \in CallIds, Execute(k) PROVE Idle
  BY <1>2 DEF Execute, LedgerPulls, LedgerPays, LedgerFunds, LedgerReturns, LedgerRefuses,
    LedgerQuotes, canisterVars
<1>3. ASSUME NEW k \in CallIds, Resume(k) PROVE ConfigQuoted(k) \/ Idle \/ Written
  <2>1. CASE BuyPaid(k) \/ DepositPaid(k) \/ BidPaid(k)
    <3> DEFINE n == calls[k].name
    <3>1. n \in FlatNames
      BY <2>1, PaymentName
    <3>2. UNCHANGED <<now, cfg>> /\ OthersKept(n)
      <4>1. CASE BuyPaid(k)
        BY <1>1, <3>1, <4>1 DEF BuyPaid, CommitFlat, OthersKept
      <4>2. CASE DepositPaid(k)
        BY <1>1, <3>1, <4>2 DEF DepositPaid, CommitFlat, OthersKept
      <4>3. CASE BidPaid(k)
        BY <1>1, <3>1, <4>3 DEF BidPaid, CommitFlat, OthersKept
      <4> QED BY <2>1, <4>1, <4>2, <4>3
    <3> QED BY <2>1, <3>1, <3>2 DEF Writes
  <2>2. CASE ~(BuyPaid(k) \/ DepositPaid(k) \/ BidPaid(k))
    BY <1>3, <2>2 DEF Resume, PaymentFailed, WithdrawPaid, WithdrawFailed, ReplyUndecodable,
      FeeRejected, FundSelfQuoted, FundSelfDone, canisterVars
  <2> QED BY <2>1, <2>2
<1>4. ASSUME NEW p \in Principals, CallsOf(p) PROVE Written
  <2>1. PICK n \in FlatNames :
          \/ DeleteRecord(p, n)
          \/ \E t \in FlatTargets : SetRecord(p, n, t)
          \/ \E x \in Prices : SetPrice(p, n, x)
          \/ \E x \in Prices, t \in FlatTargets : Reveal(p, n, x, t)
    BY <1>4 DEF CallsOf
  <2>2. UNCHANGED <<now, cfg>>
    BY <2>1 DEF DeleteRecord, SetRecord, SetPrice, Reveal
  <2>3. OthersKept(n)
    BY <1>1, <2>1 DEF DeleteRecord, SetRecord, SetPrice, Reveal, CommitFlat, OthersKept
  <2>4. Writes(n)
    BY <2>1 DEF Writes
  <2> QED BY <2>2, <2>3, <2>4
<1>5. ASSUME NEW p \in Principals, PaymentsOf(p) \/ Payout(p) PROVE Idle
  BY <1>5 DEF PaymentsOf, Payout, Buy, Deposit, PlaceBid, Withdraw, canisterVars
<1>6. ASSUME NEW p \in Controllers, Administer(p) PROVE Idle
  BY <1>6 DEF Administer, FundSelf, SetHarbergerConfig, SetAuctionConfig, canisterVars
<1>7. ASSUME NEW n \in FlatNames, CloseAuction(n) PROVE Written
  BY <1>1, <1>7 DEF CloseAuction, CommitFlat, OthersKept, Writes
<1>8. CASE LedgerChangesFee \/ UNCHANGED vars
  BY <1>8 DEF LedgerChangesFee, vars, canisterVars
<1> QED BY <1>2, <1>3, <1>4, <1>5, <1>6, <1>7, <1>8 DEF Next

Over(n) == auctions[n] # None /\ Phase(auctions[n], now) = "closed"

\* What a close, or a bid under the config cf, does to a name.
BidStep(n, cf) ==
  LET a == IF Over(n) THEN None ELSE auctions[n] IN
  /\ IF Over(n)
     THEN \E o \in Outcomes(auctions[n]) :
            records'[n] = Closing(cf, auctions[n], records[n], o).record
     ELSE records'[n] = records[n]
  /\ \/ auctions'[n] = a
     \/ /\ a = None => ~Held(cf, records'[n])
        /\ \E p \in Principals, x \in Nat :
             auctions'[n] = AddBid(IF a = None THEN OpenAuction(cf) ELSE a, p, x)

\* Closing an auction does only that.
LEMMA CloseIsBidStep ==
  ASSUME TInv, NEW n \in FlatNames, CloseAuction(n)
  PROVE  BidStep(n, cfg)
<1>1. records \in [FlatNames -> Record \cup {None}] /\ auctions \in [FlatNames -> Running \cup {None}]
  BY DEF TInv, TypeOK
<1>2. Over(n)
  BY DEF CloseAuction, Over
<1>3. PICK o \in Outcomes(auctions[n]) :
        records' = [records EXCEPT ![n] = Closing(cfg, auctions[n], records[n], o).record]
  BY DEF CloseAuction, Closings, CommitFlat
<1>4. records'[n] = Closing(cfg, auctions[n], records[n], o).record
  BY <1>1, <1>3
<1>5. auctions'[n] = None
  BY <1>1 DEF CloseAuction
<1> QED BY <1>2, <1>4, <1>5 DEF BidStep

\* A paid bid closes what is over, and then joins an auction or opens one
\* over a name nobody holds.
LEMMA BidIsBidStep ==
  ASSUME TInv, NEW k \in CallIds, BidPaid(k)
  PROVE  BidStep(calls[k].name, calls[k].cfg)
<1> DEFINE call == calls[k]
           n    == call.name
           a    == IF Over(n) THEN None ELSE auctions[n]
           into == IF a = None THEN OpenAuction(call.cfg) ELSE a
<1>1. /\ records \in [FlatNames -> Record \cup {None}]
      /\ auctions \in [FlatNames -> Running \cup {None}]
      /\ n \in FlatNames
  BY PaymentName DEF TInv, TypeOK
<1>2. call.who \in Principals /\ call.amount \in Nat
  BY PaymentName DEF Call
<1>3. PICK c \in IF Over(n) THEN Closings(call.cfg, n) ELSE {NoClosing(n)} :
        /\ records' = [records EXCEPT ![n] = c.record]
        /\ auctions' = [auctions EXCEPT ![n] =
             IF BidAllowed(call.cfg, a, c.record, call.amount)
             THEN AddBid(into, call.who, call.amount) ELSE a]
  BY DEF BidPaid, CommitFlat, Over
<1> HIDE DEF into
<1>4. records'[n] = c.record
  BY <1>1, <1>3
<1>5. auctions'[n] = IF BidAllowed(call.cfg, a, c.record, call.amount)
                     THEN AddBid(into, call.who, call.amount) ELSE a
  BY <1>1, <1>3
<1>6. IF Over(n)
      THEN \E o \in Outcomes(auctions[n]) :
             records'[n] = Closing(call.cfg, auctions[n], records[n], o).record
      ELSE records'[n] = records[n]
  BY <1>3, <1>4 DEF Closings, NoClosing
<1> HIDE DEF a
<1>7. CASE BidAllowed(call.cfg, a, c.record, call.amount)
  <2>1. a = None => ~Held(call.cfg, records'[n])
    BY <1>4, <1>7 DEF BidAllowed
  <2>2. auctions'[n] = AddBid(into, call.who, call.amount)
    BY <1>5, <1>7
  <2> QED BY <1>2, <1>6, <2>1, <2>2 DEF BidStep, into, a
<1>8. CASE ~BidAllowed(call.cfg, a, c.record, call.amount)
  BY <1>5, <1>6, <1>8 DEF BidStep, a
<1> QED BY <1>7, <1>8

-----------------------------------------------------------------------------
(* What a handler leaves of a record                                       *)

\* The checks before an await, as the resumed handler may count on them.
CallChecked(c) ==
  /\ Valid(c.cfg)
  /\ c.op = "buy" => c.before.owner # c.who
  /\ c.op = "deposit" => c.amount > 0

ChecksHold ==
  /\ Valid(cfg)
  /\ \A k \in CallIds : calls[k] # None => CallChecked(calls[k])

\* A step changes the config to a checked one only.
LEMMA ChecksStay ==
  ASSUME TInv, ChecksHold, [Next]_vars
  PROVE  ChecksHold'
<1>1. Valid(cfg')
  <2>1. CASE cfg' = cfg
    BY <2>1 DEF ChecksHold
  <2>2. CASE cfg' # cfg
    <3>1. PICK k \in CallIds : ConfigQuoted(k)
      BY <2>2, OneName DEF Tick, canisterVars
    <3> DEFINE next == calls[k].next  q == calls[k].quote
    <3>2. cfg' = [next EXCEPT !.fee = q] /\ Valid(next)
      BY <2>2, <3>1 DEF ConfigQuoted
    <3>3. next \in Config
      BY <3>1, Resumed DEF ConfigQuoted, Replied, CallSound
    <3> QED BY <3>2, <3>3 DEF Config, Valid
  <2> QED BY <2>1, <2>2
<1>2. ASSUME NEW k \in CallIds, calls'[k] # None PROVE CallChecked(calls'[k])
  <2>1. CASE SameCall(calls[k], calls'[k])
    BY <2>1 DEF SameCall, ChecksHold, CallChecked
  <2>2. CASE NewCall(calls'[k])
    BY <2>2 DEF NewCall, ChecksHold, CallChecked
  <2> QED BY <1>2, <2>1, <2>2, CallStep
<1> QED BY <1>1, <1>2 DEF ChecksHold, CallChecked

\* The stored config always passes Params::check, and so does the one a
\* suspended handler resumes with (harberger.rs, set_config).
THEOREM ConfigsChecked == Spec => []ChecksHold
<1>1. Init => ChecksHold
  BY ConfigAssumption DEF Init, ChecksHold
<1> QED BY <1>1, ChecksStay, TypedAndSound, PTL DEF Spec

\* A holding that starts or is topped up now is held: even without balance
\* it has its grace period.
LEMMA FreshIsHeld ==
  ASSUME NEW cf \in Config, Valid(cf), NEW h \in Holding, NEW t \in Nat,
         h.settled = t, h.lapsed = None
  PROVE  ~IsFree(cf, h, t)
<1>1. cf.rate \in Nat /\ cf.grace \in Nat /\ cf.grace > 0
  BY DEF Config, Valid
<1>2. CASE RunsOut(cf, h, t)
  <2>1. Burn(cf, h) > 0
    BY <1>2 DEF RunsOut, Burn
  <2>2. TicksUntilSpent(cf, h) \in Nat
    BY <1>1, <2>1, EndTick
  <2>3. LapsedAt(cf, h, t) = t + TicksUntilSpent(cf, h)
    BY <1>2 DEF LapsedAt
  <2> DEFINE q == TicksUntilSpent(cf, h)
  <2> HIDE DEF q
  <2>4. q \in Nat /\ LapsedAt(cf, h, t) = t + q
    BY <2>2, <2>3 DEF q
  <2>5. t < LapsedAt(cf, h, t) + cf.grace
    BY <1>1, <2>4
  <2> QED BY <2>4, <2>5, StartAssumption DEF IsFree, Status
<1>3. CASE ~RunsOut(cf, h, t)
  BY <1>3 DEF LapsedAt, IsFree, Status
<1> QED BY <1>2, <1>3

\* The record and the holding of a recorded name.
LEMMA RecordOf ==
  ASSUME TInv, NEW n \in FlatNames, records[n] # None
  PROVE  /\ records[n] \in Record /\ records[n].flat \in Holding /\ records[n].owner \in Principals
         /\ HoldingSound(records[n].flat, now)
BY DEF TInv, TypeOK, HoldingsSound, Record

-----------------------------------------------------------------------------
(* The auctions                                                            *)

\* A sealed bid leaves the terms of the revealed ones alone.
LEMMA BidKeepsCurrent ==
  ASSUME NEW cf, NEW a \in Running, AuctionCurrent(cf, a), NEW p \in Principals, NEW x \in Nat
  PROVE  AddBid(a, p, x) # None /\ AuctionCurrent(cf, AddBid(a, p, x))
<1> DEFINE b == SealedBid(x)
           c == AddBid(a, p, x)
<1>1. b.revealed = None /\ b \in Bid
  BY DEF SealedBid, Bid
<1>2. c = [a EXCEPT !.bids[p] = b]
  BY DEF AddBid
<1> HIDE DEF b, c
<1>3. c \in Running /\ c.bids = [a.bids EXCEPT ![p] = b]
  BY <1>1, <1>2 DEF Running
<1>4. a.bids \in [Principals -> Bid \cup {None}]
  BY DEF Running
<1>5. \A q \in Revealed(c) : q \in Revealed(a) /\ c.bids[q] = a.bids[q]
  BY <1>1, <1>3, <1>4 DEF Revealed, Bidders
<1>6. AuctionCurrent(cf, c)
  BY <1>5 DEF AuctionCurrent
<1> QED BY <1>3, <1>6, StartAssumption DEF c

\* A new auction has no bids.
LEMMA NewAuctionCurrent ==
  ASSUME NEW cf, NEW cg
  PROVE  AuctionCurrent(cf, OpenAuction(cg))
BY DEF OpenAuction, AuctionCurrent, Revealed, Bidders, NoBids

\* A bid and a close keep to the terms, whichever config they read.
LEMMA BidStepKeeps ==
  ASSUME TInv, TermsCurrent, NEW n \in FlatNames, NEW cf \in Config, SameTerms(cf, cfg),
         BidStep(n, cf), auctions'[n] # None
  PROVE  AuctionCurrent(cfg, auctions'[n]) /\ ~Held(cfg, records'[n])
<1> DEFINE a    == IF Over(n) THEN None ELSE auctions[n]
           into == IF a = None THEN OpenAuction(cf) ELSE a
<1>1. a \in Running \cup {None} /\ now \in Nat /\ terms \in Terms
  BY DEF TInv, TypeOK
<1>2. a # None => a = auctions[n] /\ AuctionCurrent(cfg, a) /\ ~Held(cfg, records[n])
  BY DEF TermsCurrent, FreeWhileAuctioned
<1>3. a # None => records'[n] = records[n]
  BY DEF BidStep
<1>4. \/ auctions'[n] = a
      \/ /\ a = None => ~Held(cf, records'[n])
         /\ \E p \in Principals, x \in Nat : auctions'[n] = AddBid(into, p, x)
  BY DEF BidStep
<1>5. into \in Running /\ AuctionCurrent(cfg, into)
  <2>1. OpenAuction(cf) \in Running
    BY <1>1, OpenAuctionSound
  <2> HIDE DEF a
  <2> QED BY <1>1, <1>2, <2>1, NewAuctionCurrent
<1> HIDE DEF a, into
<1>6. CASE auctions'[n] = a
  BY <1>2, <1>3, <1>6
<1>7. CASE auctions'[n] # a
  <2>1. AuctionCurrent(cfg, auctions'[n])
    BY <1>4, <1>5, <1>7, BidKeepsCurrent
  <2>2. ~Held(cfg, records'[n])
    <3>1. CASE a = None
      BY <1>4, <1>7, <3>1, SameMinDeposit
    <3>2. CASE a # None
      BY <1>2, <1>3, <3>2
    <3> QED BY <3>1, <3>2
  <2> QED BY <2>1, <2>2
<1> QED BY <1>6, <1>7

\* A handler that finds a payment unchanged finds the status it saw.
LEMMA UnchangedStatus ==
  ASSUME NEW k \in CallIds, Unchanged(k)
  PROVE  LET r == records[calls[k].name] IN
         /\ r # None
         /\ calls[k].before.owner = r.owner
         /\ calls[k].before.price = r.flat.price
         /\ calls[k].before.status = Status(calls[k].cfg, r.flat, now)
<1> DEFINE r == records[calls[k].name]
<1>1. r # None /\ SnapshotOf(calls[k].cfg, r) = calls[k].before
  BY DEF Unchanged
<1> QED BY <1>1 DEF SnapshotOf

\* Whatever writes a name gives it no holder while its auction runs.
LEMMA WritesKeepFree ==
  ASSUME TInv, TermsCurrent, NEW n \in FlatNames, Writes(n), auctions'[n] # None
  PROVE  AuctionCurrent(cfg, auctions'[n]) /\ ~Held(cfg, records'[n])
<1>1. /\ records \in [FlatNames -> Record \cup {None}]
      /\ auctions \in [FlatNames -> Running \cup {None}]
  BY DEF TInv, TypeOK
<1>2. auctions[n] # None => AuctionCurrent(cfg, auctions[n]) /\ ~Held(cfg, records[n])
  BY DEF TermsCurrent, FreeWhileAuctioned
<1>3. ASSUME NEW p \in Principals,
             \/ DeleteRecord(p, n)
             \/ \E t \in FlatTargets : SetRecord(p, n, t)
             \/ \E x \in Prices : SetPrice(p, n, x)
      PROVE  FALSE
  <2>1. auctions'[n] = auctions[n] /\ Holds(p, n)
    BY <1>3 DEF DeleteRecord, SetRecord, SetPrice
  <2> QED BY <1>2, <2>1 DEF Holds
<1>4. ASSUME NEW p \in Principals, NEW x \in Prices, NEW t \in FlatTargets, Reveal(p, n, x, t)
      PROVE  AuctionCurrent(cfg, auctions'[n]) /\ ~Held(cfg, records'[n])
  <2> DEFINE a == auctions[n]
             b == [a.bids[p] EXCEPT !.revealed = x, !.alias = t, !.opening = MinDeposit(cfg, x)]
             c == [a EXCEPT !.bids[p] = b]
  <2>1. a \in Running /\ AuctionCurrent(cfg, a) /\ ~Held(cfg, records[n]) /\ p \in Bidders(a)
    BY <1>1, <1>2, <1>4 DEF Reveal
  <2>2. a.bids \in [Principals -> Bid \cup {None}] /\ a.bids[p] \in Bid
    BY <2>1 DEF Running, Bidders
  <2>3. b.revealed = x /\ b.opening = MinDeposit(cfg, x)
    BY <2>2 DEF Bid
  <2>4. auctions'[n] = c
    BY <1>1, <1>4, <2>1, <2>2 DEF Reveal, Running
  <2> HIDE DEF b
  <2>5. c.bids = [a.bids EXCEPT ![p] = b]
    BY <2>1 DEF Running
  <2> HIDE DEF c
  <2>6. AuctionCurrent(cfg, c)
    <3>1. ASSUME NEW q \in Revealed(c)
          PROVE  c.bids[q].opening = MinDeposit(cfg, c.bids[q].revealed)
      <4>1. CASE q = p
        BY <2>2, <2>3, <2>5, <4>1
      <4>2. CASE q # p
        <5>1. q \in Revealed(a) /\ c.bids[q] = a.bids[q]
          BY <2>2, <2>5, <3>1, <4>2 DEF Revealed, Bidders
        <5> QED BY <2>1, <5>1 DEF AuctionCurrent
      <4> QED BY <4>1, <4>2
    <3> QED BY <3>1 DEF AuctionCurrent
  <2>7. records'[n] = records[n]
    BY <1>4 DEF Reveal
  <2> QED BY <2>1, <2>4, <2>6, <2>7
<1>5. ASSUME NEW k \in CallIds, calls[k].name = n, BuyPaid(k) \/ DepositPaid(k)
      PROVE  AuctionCurrent(cfg, auctions'[n]) /\ ~Held(cfg, records'[n])
  <2>1. auctions'[n] = auctions[n]
    BY <1>5 DEF BuyPaid, DepositPaid
  <2>2. ~Held(cfg, records[n])
    BY <1>2, <2>1
  <2>3. CallCurrent(cfg, calls[k]) /\ SameTerms(calls[k].cfg, cfg)
    <3>1. calls[k] # None /\ calls[k].op # "configure"
      BY <1>5 DEF BuyPaid, DepositPaid, Replied
    <3> QED BY <3>1 DEF TermsCurrent, CallCurrent
  <2>4. ASSUME Unchanged(k) PROVE IsFree(calls[k].cfg, records[n].flat, now)
    <3>1. records[n] # None /\ IsFree(cfg, records[n].flat, now)
      BY <1>5, <2>2, <2>4, UnchangedStatus DEF Held
    <3> QED BY <2>3, <3>1, SameTax
  <2>5. UNCHANGED records
    <3>1. CASE BuyPaid(k)
      <4>1. ~Unchanged(k)
        BY <1>5, <2>3, <2>4, <3>1, UnchangedStatus DEF BuyPaid, Replied, CallCurrent, IsFree
      <4> QED BY <3>1, <4>1 DEF BuyPaid
    <3>2. CASE DepositPaid(k)
      <4>1. ~(Unchanged(k) /\ CanTopUp(calls[k].cfg, records[n].flat, calls[k].amount, now))
        BY <2>4 DEF CanTopUp
      <4> QED BY <1>5, <3>2, <4>1 DEF DepositPaid
    <3> QED BY <1>5, <3>1, <3>2
  <2> QED BY <1>2, <2>1, <2>5
<1>6. ASSUME NEW k \in CallIds, calls[k].name = n, BidPaid(k)
      PROVE  AuctionCurrent(cfg, auctions'[n]) /\ ~Held(cfg, records'[n])
  <2>1. calls[k] # None /\ calls[k].op # "configure" /\ calls[k].cfg \in Config
    BY <1>6, PaymentName DEF BidPaid, Replied
  <2>2. SameTerms(calls[k].cfg, cfg)
    BY <2>1 DEF TermsCurrent, CallCurrent
  <2> QED BY <1>6, <2>1, <2>2, BidIsBidStep, BidStepKeeps
<1>7. CASE CloseAuction(n)
  <2>1. cfg \in Config /\ SameTerms(cfg, cfg)
    BY DEF TInv, TypeOK, SameTerms
  <2> QED BY <1>7, <2>1, CloseIsBidStep, BidStepKeeps
<1> QED BY <1>3, <1>4, <1>5, <1>6, <1>7 DEF Writes

-----------------------------------------------------------------------------
(* The terms of the day in every behaviour                                 *)

\* What set_harberger_config leaves of a record: the same, or settled now.
LEMMA ConfigRecords ==
  ASSUME TInv, NEW k \in CallIds, ConfigQuoted(k), NEW n \in FlatNames
  PROVE  \/ records'[n] = records[n] /\ (SameTerms(cfg', cfg) \/ cfg'.rate = cfg.rate)
         \/ records[n] = None /\ records'[n] = None
         \/ /\ records[n] # None
            /\ records'[n] = [records[n] EXCEPT !.flat = Settle(cfg, @, now)]
            /\ records'[n].flat = Settle(cfg, records[n].flat, now)
            /\ records'[n] # None /\ records'[n].owner = records[n].owner
<1> DEFINE next == calls[k].next
           may  == next.ledger # cfg.ledger => NoFundsHeld
<1>1. /\ calls[k] # None /\ calls[k].op = "configure"
      /\ cfg' = IF may /\ Valid(next) THEN [next EXCEPT !.fee = calls[k].quote] ELSE cfg
      /\ \/ may /\ next.rate # cfg.rate /\ records' = SettledRecords(cfg)
         \/ ~(may /\ next.rate # cfg.rate) /\ UNCHANGED records
  BY DEF ConfigQuoted, Replied
<1>2. next \in Config
  BY <1>1, Resumed DEF CallSound
<1> HIDE DEF may
<1>3. CASE UNCHANGED records /\ ~(may /\ next.rate # cfg.rate)
  <2>1. cfg' = cfg \/ (may /\ cfg' = [next EXCEPT !.fee = calls[k].quote])
    BY <1>1
  <2>2. cfg'.rate = cfg.rate
    BY <1>2, <1>3, <2>1 DEF Config
  <2> QED BY <1>3, <2>2
<1>4. CASE records' = SettledRecords(cfg)
  <2>1. records[n] = None => records'[n] = None
    BY <1>4 DEF SettledRecords
  <2>2. ASSUME records[n] # None
        PROVE  /\ records'[n] = [records[n] EXCEPT !.flat = Settle(cfg, @, now)]
               /\ records'[n].flat = Settle(cfg, records[n].flat, now)
               /\ records'[n] # None /\ records'[n].owner = records[n].owner
    <3> DEFINE g == Settle(cfg, records[n].flat, now)
               r == [records[n] EXCEPT !.flat = g]
    <3>1. records'[n] = r
      BY <1>4, <2>2 DEF SettledRecords
    <3>2. records[n] \in Record
      BY <2>2 DEF TInv, TypeOK
    <3>3. g \in Holding
      <4>1. /\ records[n].flat \in Holding /\ HoldingSound(records[n].flat, now)
            /\ cfg.rate \in Nat /\ now \in Nat
        BY <2>2, <3>2 DEF TInv, TypeOK, HoldingsSound, Record, Config
      <4> QED BY <4>1, SettleSound
    <3> HIDE DEF g
    <3>4. r \in Record /\ r.flat = g /\ r.owner = records[n].owner
      BY <3>2, <3>3 DEF Record
    <3> QED BY <3>1, <3>4, StartAssumption DEF g
  <2> QED BY <2>1, <2>2
<1> QED BY <1>1, <1>3, <1>4

\* A step keeps the terms, if it does not change them with business pending.
LEMMA StepTerms ==
  ASSUME TInv, TermsCurrent, QuietChange, [Next]_vars
  PROVE  TermsCurrent'
<1>1. /\ now \in Nat /\ cfg \in Config /\ cfg.rate \in Nat /\ cfg.grace \in Nat
      /\ \A n \in FlatNames : records[n] # None =>
            records[n] \in Record /\ records[n].flat \in Holding /\ HoldingSound(records[n].flat, now)
  BY DEF TInv, TypeOK, HoldingsSound, Record, Config
<1>2. CASE ~SameTerms(cfg', cfg)
  <2>1. PICK k \in CallIds : ConfigQuoted(k)
    BY <1>2, OneName DEF Tick, canisterVars, SameTerms
  <2>2. /\ calls' = [calls EXCEPT ![k] = None] /\ UNCHANGED auctions
    BY <2>1 DEF ConfigQuoted, Finish
  <2>3. \A j \in CallIds : calls'[j] # None => calls'[j].op = "configure"
    BY <1>2, <2>2 DEF QuietChange, TInv, TypeOK
  <2>4. \A n \in FlatNames : auctions'[n] = None
    BY <1>2, <2>2 DEF QuietChange
  <2> QED BY <2>3, <2>4 DEF TermsCurrent, CallCurrent, FreeWhileAuctioned
<1>3. CASE SameTerms(cfg', cfg)
  <2>1. CallsCurrent'
    BY <1>3, CallsStayCurrent DEF TermsCurrent, CallsCurrent
  <2> DEFINE Kept(n) == auctions'[n] # None =>
                          AuctionCurrent(cfg, auctions'[n]) /\ ~Held(cfg, records[n])'
  <2>2. SUFFICES \A n \in FlatNames : Kept(n)
    <3>1. ASSUME NEW n \in FlatNames, auctions'[n] # None, Kept(n)
          PROVE  AuctionCurrent(cfg', auctions'[n]) /\ ~Held(cfg, records[n])'
      <4>1. \A price : MinDeposit(cfg', price) = MinDeposit(cfg, price)
        BY <1>3, SameMinDeposit
      <4> QED BY <3>1, <4>1 DEF AuctionCurrent
    <3> QED BY <2>1, <2>2, <3>1 DEF TermsCurrent, CallsCurrent, FreeWhileAuctioned
  <2>3. ASSUME NEW n \in FlatNames, auctions'[n] = auctions[n], auctions[n] # None
        PROVE  AuctionCurrent(cfg, auctions'[n]) /\ ~Held(cfg, records[n])
    BY <2>3 DEF TermsCurrent, FreeWhileAuctioned
  <2>4. CASE Tick
    <3>1. UNCHANGED <<cfg, records, auctions>> /\ now' = now + 1
      BY <2>4 DEF Tick, canisterVars
    <3>2. ASSUME NEW n \in FlatNames, ~Held(cfg, records[n]) PROVE ~Held(cfg, records[n])'
      <4>1. CASE records[n] = None
        BY <3>1, <4>1 DEF Held
      <4>2. CASE records[n] # None
        <5>1. IsFree(cfg, records[n].flat, now)
          BY <3>2, <4>2 DEF Held
        <5>2. now' \in Nat /\ now <= now' /\ records[n].flat.settled <= now
          BY <1>1, <3>1, <4>2 DEF HoldingSound
        <5>3. IsFree(cfg, records[n].flat, now')
          BY <1>1, <4>2, <5>1, <5>2, FreeForGood
        <5> QED BY <3>1, <5>3 DEF Held
      <4> QED BY <4>1, <4>2
    <3> QED BY <2>3, <3>1, <3>2
  <2>5. ASSUME UNCHANGED <<now, cfg>>, NEW n \in FlatNames,
               auctions'[n] # None => AuctionCurrent(cfg, auctions'[n]) /\ ~Held(cfg, records'[n])
        PROVE  Kept(n)
    BY <2>5 DEF Held
  <2>6. CASE UNCHANGED <<now, cfg, records, auctions>>
    BY <2>3, <2>5, <2>6
  <2>7. ASSUME NEW n \in FlatNames, UNCHANGED <<now, cfg>>, Writes(n), OthersKept(n)
        PROVE  \A m \in FlatNames : Kept(m)
    <3>1. Kept(n)
      BY <2>5, <2>7, WritesKeepFree
    <3>2. ASSUME NEW m \in FlatNames \ {n} PROVE Kept(m)
      <4>1. auctions'[m] = auctions[m] /\ records'[m] = records[m]
        BY <2>7 DEF OthersKept
      <4> QED BY <2>3, <2>5, <2>7, <4>1
    <3> QED BY <3>1, <3>2
  <2>8. ASSUME NEW k \in CallIds, ConfigQuoted(k) PROVE \A n \in FlatNames : Kept(n)
    <3>1. UNCHANGED <<now, auctions>>
      BY <2>8 DEF ConfigQuoted
    <3>2. ASSUME NEW n \in FlatNames, ~Held(cfg, records[n]) PROVE ~Held(cfg, records'[n])
      <4>1. CASE records[n] = None
        BY <2>8, <3>2, <4>1, ConfigRecords DEF Held
      <4>2. CASE records[n] # None
        <5>1. IsFree(cfg, records[n].flat, now)
          BY <3>2, <4>2 DEF Held
        <5>2. IsFree(cfg, Settle(cfg, records[n].flat, now), now)
          BY <1>1, <4>2, <5>1, SettledTwice DEF IsFree
        <5> QED BY <2>8, <4>2, <5>1, <5>2, ConfigRecords DEF Held
      <4> QED BY <4>1, <4>2
    <3>3. ASSUME NEW n \in FlatNames, ~Held(cfg, records'[n]) PROVE ~Held(cfg, records[n])'
      <4>1. ~Held(cfg', records'[n])
        BY <1>3, <3>3, SameMinDeposit
      <4> QED BY <3>1, <4>1 DEF Held
    <3> QED BY <2>3, <3>1, <3>2, <3>3
  <2> QED BY <2>4, <2>6, <2>7, <2>8, OneName
<1> QED BY <1>2, <1>3

\* The opening holdings are under no auction and no payment.
LEMMA InitTerms ==
  ASSUME Init
  PROVE  TermsCurrent
BY DEF Init, TermsCurrent, FreeWhileAuctioned

\* While the tax changes at quiet moments only, resumed handlers and
\* revealed bids are under the terms of the day.
THEOREM TermsOfTheDay == Spec /\ [][QuietChange]_vars => []TermsCurrent
<1>1. Init => TermsCurrent
  BY InitTerms
<1>2. TInv /\ TermsCurrent /\ [Next]_vars /\ [QuietChange]_vars => TermsCurrent'
  <2>1. ASSUME UNCHANGED vars PROVE QuietChange
    BY <2>1 DEF vars, QuietChange, SameTerms
  <2> QED BY <2>1, StepTerms
<1> QED BY <1>1, <1>2, TypedAndSound, PTL DEF Spec

\* "Nothing else gives a free name a holder while its auction runs"
\* (auction.rs, close), however late a payment for the name arrives.
THEOREM AuctionedNamesStayFree == Spec /\ [][QuietChange]_vars => []FreeWhileAuctioned
<1>1. TermsCurrent => FreeWhileAuctioned
  BY DEF TermsCurrent
<1> QED BY <1>1, TermsOfTheDay, PTL

-----------------------------------------------------------------------------
(* What a holder gets for a name                                           *)

\* Its holder settles the name, and gives it another price or target.
Amended(n) ==
  \E p \in Principals, t \in FlatTargets, x \in Nat :
    /\ Holds(p, n)
    /\ records'[n] = [records[n] EXCEPT
                        !.target = t,
                        !.flat = [Settle(cfg, records[n].flat, now) EXCEPT !.price = x]]

\* That is what set_price and set_record do.
LEMMA HolderWrites ==
  ASSUME TInv, NEW p \in Principals, NEW n \in FlatNames,
         \/ \E t \in FlatTargets : SetRecord(p, n, t)
         \/ \E x \in Prices : SetPrice(p, n, x)
  PROVE  Amended(n)
<1> DEFINE r == records[n]
           h == Settle(cfg, r.flat, now)
<1>1. Holds(p, n) /\ records \in [FlatNames -> Record \cup {None}]
  BY DEF SetRecord, SetPrice, TInv, TypeOK
<1>2. r \in Record /\ h \in Holding
  BY <1>1, HolderActs
<1>3. r.target \in FlatTargets /\ h.price \in Nat
  BY <1>2 DEF Record, Holding
<1>4. CASE \E t \in FlatTargets : SetRecord(p, n, t)
  <2>1. PICK t \in FlatTargets : records'[n] = [r EXCEPT !.target = t, !.flat = h]
    BY <1>1, <1>4 DEF SetRecord, CommitFlat
  <2> HIDE DEF h
  <2>2. [h EXCEPT !.price = h.price] = h
    BY <1>2 DEF Holding
  <2>3. records'[n] = [r EXCEPT !.target = t, !.flat = [h EXCEPT !.price = h.price]]
    BY <2>1, <2>2
  <2> QED BY <1>1, <1>3, <2>3 DEF Amended, h
<1>5. CASE \E x \in Prices : SetPrice(p, n, x)
  <2>1. PICK x \in Prices : records'[n] = [r EXCEPT !.flat = [h EXCEPT !.price = x]]
    BY <1>1, <1>5 DEF SetPrice, CommitFlat
  <2> DEFINE g == [h EXCEPT !.price = x]
  <2> HIDE DEF g
  <2>2. [r EXCEPT !.target = r.target, !.flat = g] = [r EXCEPT !.flat = g]
    BY <1>2 DEF Record
  <2>3. records'[n] = [r EXCEPT !.target = r.target, !.flat = [h EXCEPT !.price = x]]
    BY <2>1, <2>2 DEF g
  <2> QED BY <1>1, <1>3, <2>3, MarketAssumption DEF Amended
<1> QED BY <1>4, <1>5

\* What an amended record keeps of the one it was.
LEMMA AmendedFields ==
  ASSUME TInv, NEW n \in FlatNames, Amended(n)
  PROVE  LET r == records[n]  s == records'[n] IN
         /\ Held(cfg, r) /\ s \in Record /\ s # None
         /\ s.owner = r.owner /\ s.changed = r.changed /\ s.previous = r.previous
         /\ s.flat \in Holding
         /\ s.flat.balance = Settle(cfg, r.flat, now).balance
         /\ s.flat.lapsed = LapsedAt(cfg, r.flat, now)
         /\ s.flat.settled = IF r.flat.lapsed = None THEN now ELSE r.flat.settled
<1> DEFINE r == records[n]
           h == Settle(cfg, r.flat, now)
<1>1. PICK p \in Principals, t \in FlatTargets, x \in Nat :
        Holds(p, n) /\ records'[n] = [r EXCEPT !.target = t, !.flat = [h EXCEPT !.price = x]]
  BY DEF Amended
<1>2. r \in Record /\ r.flat \in Holding /\ h \in Holding
  BY <1>1, HolderActs
<1>3. /\ h.lapsed = LapsedAt(cfg, r.flat, now)
      /\ h.settled = IF r.flat.lapsed = None THEN now ELSE r.flat.settled
  BY <1>2, SettledFields
<1> DEFINE g == [h EXCEPT !.price = x]
           s == [r EXCEPT !.target = t, !.flat = g]
<1> HIDE DEF h
<1>4. g \in Holding /\ g.lapsed = h.lapsed /\ g.settled = h.settled /\ g.balance = h.balance
  BY <1>2 DEF Holding
<1> HIDE DEF g
<1>5. /\ s \in Record /\ s.flat = g /\ s.owner = r.owner /\ s.changed = r.changed
      /\ s.previous = r.previous
  BY <1>2, <1>4 DEF Record
<1>6. records'[n] = s
  BY <1>1 DEF g
<1> HIDE DEF s
<1>7. Held(cfg, r)
  BY <1>1 DEF Holds
<1> QED BY <1>3, <1>4, <1>5, <1>6, <1>7, StartAssumption DEF h

\* A paid deposit leaves the name with its holder, with enough on it.
LEMMA DepositWrites ==
  ASSUME TInv, NEW k \in CallIds, DepositPaid(k), Unchanged(k),
         CanTopUp(calls[k].cfg, records[calls[k].name].flat, calls[k].amount, now)
  PROVE  LET n == calls[k].name IN
         /\ records[n] # None /\ records'[n] # None
         /\ records'[n].owner = records[n].owner
         /\ records'[n].flat = TopUp(calls[k].cfg, records[n].flat, calls[k].amount, now)
         /\ records'[n].flat.price = records[n].flat.price
         /\ records'[n].flat.balance >= MinDeposit(calls[k].cfg, records[n].flat.price)
<1> DEFINE call == calls[k]
           n    == call.name
           r    == records[n]
           g    == TopUp(call.cfg, r.flat, call.amount, now)
<1>1. /\ call \in Call /\ n \in FlatNames /\ call.cfg \in Config /\ call.cfg.rate \in Nat
      /\ call.amount \in Nat
  BY PaymentName DEF Call, Config
<1>2. /\ r # None /\ r \in Record /\ r.flat \in Holding /\ HoldingSound(r.flat, now) /\ now \in Nat
      /\ records \in [FlatNames -> Record \cup {None}]
  BY <1>1, RecordOf DEF Unchanged, TInv, TypeOK
<1>3. records'[n] = [r EXCEPT !.flat = g]
  BY <1>1, <1>2 DEF DepositPaid, CommitFlat
<1>4. /\ g \in Holding /\ g.price = r.flat.price
      /\ g.balance = r.flat.balance - Taken(call.cfg, r.flat, now) + call.amount
  BY <1>1, <1>2, TopUpSound
<1>5. Settle(call.cfg, r.flat, now).balance = r.flat.balance - Taken(call.cfg, r.flat, now)
  BY <1>1, <1>2, SettleSound
<1>6. g.balance >= MinDeposit(call.cfg, r.flat.price)
  BY <1>4, <1>5 DEF CanTopUp
<1> HIDE DEF g
<1> DEFINE s == [r EXCEPT !.flat = g]
<1>7. s \in Record /\ s.flat = g /\ s.owner = r.owner
  BY <1>2, <1>4 DEF Record
<1> HIDE DEF s
<1> QED BY <1>2, <1>3, <1>4, <1>6, <1>7, StartAssumption DEF s, g

\* A paid buy that finds the name unchanged pays its holder, and leaves a
\* grace period of tax.
LEMMA BuyWrites ==
  ASSUME TInv, TermsCurrent, NEW k \in CallIds, BuyPaid(k), Unchanged(k)
  PROVE  LET n == calls[k].name  r == records[n] IN
         /\ r # None
         /\ records'[n] = [owner |-> calls[k].who, target |-> calls[k].alias,
                           previous |-> r.target, changed |-> now, flat |-> records'[n].flat]
         /\ records'[n] # None /\ calls[k].who # r.owner
         /\ records'[n].flat = NewHolding(calls[k].price, calls[k].amount - calls[k].before.price, now)
         /\ calls[k].amount - calls[k].before.price >= MinDeposit(cfg, calls[k].price)
         /\ calls[k].price \in Nat /\ calls[k].amount - calls[k].before.price \in Nat
         /\ credits'[r.owner] = credits[r.owner] + (r.flat.price + BalanceNow(n))
<1> DEFINE call == calls[k]
           n    == call.name
           r    == records[n]
           g    == NewHolding(call.price, call.amount - call.before.price, now)
           s    == [owner |-> call.who, target |-> call.alias, previous |-> r.target,
                    changed |-> now, flat |-> g]
           paid == call.before.price + Settle(call.cfg, r.flat, now).balance
<1>1. /\ call # None /\ call.op = "buy" /\ call \in Call /\ CallSound(call) /\ n \in FlatNames
      /\ call.price \in Nat /\ call.who \in Principals /\ call.amount \in Nat
  BY PaymentName DEF BuyPaid, Replied, Call
<1>2. /\ r # None /\ r \in Record /\ now \in Nat /\ r.owner \in Principals /\ r.flat \in Holding
      /\ records \in [FlatNames -> Record \cup {None}]
      /\ credits \in [Principals -> Nat]
  BY <1>1, RecordOf DEF Unchanged, TInv, TypeOK
<1>3. call.before.price \in Nat /\ call.before.price <= call.amount /\ call.alias \in FlatTargets
      /\ call.amount - call.before.price \in Nat
  BY <1>1 DEF CallSound, Snapshots
<1>4. CallCurrent(cfg, call) /\ SameTerms(call.cfg, cfg)
  BY <1>1 DEF TermsCurrent, CallCurrent
<1>5. /\ records' = [records EXCEPT ![n] = s]
      /\ credits' = [credits EXCEPT ![r.owner] = @ + paid]
  BY DEF BuyPaid, CommitFlat, AddCredit
<1>6. paid = r.flat.price + BalanceNow(n)
  BY <1>2, <1>4, SameTax, UnchangedStatus DEF BalanceNow
<1>7. call.who # r.owner
  BY <1>1, <1>4, UnchangedStatus DEF CallCurrent
<1>8. g \in Holding
  BY <1>1, <1>2, <1>3, NewHoldingSound
<1> HIDE DEF paid, g
<1>9. s \in Record /\ s.flat = g
  BY <1>1, <1>2, <1>3, <1>8 DEF Record
<1>10. records'[n] = s /\ credits'[r.owner] = credits[r.owner] + paid
  BY <1>1, <1>2, <1>5
<1>11. call.amount - call.before.price >= MinDeposit(cfg, call.price)
  BY <1>1, <1>4 DEF CallCurrent
<1>12. records'[n] # None /\ records'[n].flat = g
  BY <1>9, <1>10, StartAssumption
<1> QED BY <1>1, <1>2, <1>3, <1>6, <1>7, <1>10, <1>11, <1>12 DEF g

\* A winner opens with the grace period of tax its reveal was checked for.
LEMMA WinnerOpens ==
  ASSUME NEW cf, NEW a \in Running, AuctionSound(a), NEW r, NEW o \in Outcomes(a),
         NEW c, c = Closing(cf, a, r, o)
  PROVE  \/ c.record = r
         \/ LET b == a.bids[o.winner] IN
            /\ o.winner # None /\ o.winner \in Revealed(a) /\ ~Held(cf, r)
            /\ b.revealed \in Nat /\ b.opening \in Nat
            /\ c.record = [owner |-> o.winner, target |-> b.alias,
                           previous |-> IF r = None THEN None ELSE r.target,
                           changed |-> now, flat |-> NewHolding(b.revealed, b.opening, now)]
<1>1. CASE Held(cf, r) \/ o.winner = None
  BY <1>1 DEF Closing, WinnerOf
<1>2. CASE ~Held(cf, r) /\ o.winner # None
  <2> DEFINE b == a.bids[o.winner]
  <2>1. /\ o.winner \in Revealed(a) /\ o.price \in Nat /\ b.revealed \in Nat
        /\ o.price <= b.revealed
    BY <1>2, OutcomeSound
  <2>2. b \in Bid /\ BidCovered(b)
    BY <2>1 DEF Running, Revealed, Bidders, AuctionSound
  <2>3. b.deposit \in Nat /\ b.opening \in Nat
    BY <2>2 DEF Bid
  <2> HIDE DEF b
  <2>4. Least(b.opening, b.deposit - o.price) = b.opening
    BY <2>1, <2>2, <2>3 DEF BidCovered, Least
  <2>5. c.record = [owner |-> o.winner, target |-> b.alias,
                    previous |-> IF r = None THEN None ELSE r.target, changed |-> now,
                    flat |-> NewHolding(b.revealed, Least(b.opening, b.deposit - o.price), now)]
    BY <1>2 DEF Closing, WinnerOf, b
  <2> QED BY <1>2, <2>1, <2>3, <2>4, <2>5 DEF b
<1> QED BY <1>1, <1>2

\* A bid or a close hands over only a name nobody holds.
LEMMA BidStepHandsOver ==
  ASSUME TInv, TermsCurrent, NEW n \in FlatNames, NEW cf \in Config, SameTerms(cf, cfg),
         BidStep(n, cf), records'[n] # records[n]
  PROVE  /\ ~Held(cfg, records[n])
         /\ records'[n] # None
         /\ records'[n].flat.balance = MinDeposit(cfg, records'[n].flat.price)
         /\ \E w \in Principals : \E b \in Bid :
              records'[n] = [owner |-> w, target |-> b.alias,
                             previous |-> IF records[n] = None THEN None ELSE records[n].target,
                             changed |-> now, flat |-> NewHolding(b.revealed, b.opening, now)]
<1> DEFINE a == auctions[n]
<1>1. PICK o \in Outcomes(a) : Over(n) /\ records'[n] = Closing(cf, a, records[n], o).record
  BY DEF BidStep
<1>2. a \in Running /\ AuctionSound(a) /\ AuctionCurrent(cfg, a) /\ now \in Nat
      /\ records[n] \in Record \cup {None}
      /\ (records[n] # None => HoldingSound(records[n].flat, now))
  BY <1>1 DEF Over, TInv, TypeOK, AuctionsSound, HoldingsSound, TermsCurrent
<1> DEFINE b == a.bids[o.winner]
           s == records'[n]
<1>3. /\ o.winner # None /\ o.winner \in Revealed(a) /\ ~Held(cf, records[n])
      /\ b.revealed \in Nat /\ b.opening \in Nat
      /\ s = [owner |-> o.winner, target |-> b.alias,
              previous |-> IF records[n] = None THEN None ELSE records[n].target,
              changed |-> now, flat |-> NewHolding(b.revealed, b.opening, now)]
  BY <1>1, <1>2, WinnerOpens
<1>4. ~Held(cfg, records[n])
  BY <1>3, SameMinDeposit
<1>5. b.opening = MinDeposit(cfg, b.revealed)
  BY <1>2, <1>3 DEF AuctionCurrent
<1>6. s.flat.balance = b.opening /\ s.flat.price = b.revealed
  BY <1>3 DEF NewHolding
<1>7. s \in Record \cup {None}
  BY <1>1, <1>2, ClosingSound
<1>8. s # None
  <2>1. s.flat = NewHolding(b.revealed, b.opening, now)
    BY <1>3
  <2>2. NewHolding(b.revealed, b.opening, now) \in Holding
    BY <1>2, <1>3, NewHoldingSound
  <2>3. o.winner \in Principals /\ b \in Bid /\ b.alias \in FlatTargets
    BY <1>2, <1>3 DEF Running, Revealed, Bidders, AuctionSound, BidCovered
  <2>4. s \in Record
    BY <1>2, <1>3, <2>2, <2>3 DEF Record
  <2> QED BY <2>4, StartAssumption
<1>9. o.winner \in Principals /\ b \in Bid
  BY <1>2, <1>3 DEF Running, Revealed, Bidders
<1> QED BY <1>3, <1>4, <1>5, <1>6, <1>8, <1>9

-----------------------------------------------------------------------------
(* The ways a name is written, as its holder sees them                     *)

Paid(n) ==
  /\ records[n] # None /\ records'[n] = None
  /\ credits'[records[n].owner] = credits[records[n].owner] + BalanceNow(n)

\* What was left of the balance stays on the name, settled to now.
SavedBy(n) ==
  /\ records'[n].flat \in Holding
  /\ records'[n].flat.balance >= BalanceNow(n)
  /\ records'[n].flat.lapsed = None => records'[n].flat.settled = now

Kept(n) ==
  /\ records[n] # None /\ records'[n] # None
  /\ records'[n].owner = records[n].owner
  /\ records'[n].flat \in Holding
  /\ records'[n].flat.lapsed = LapsedAt(cfg, records[n].flat, now)
  /\ SavedBy(n)

Covered(n) ==
  /\ records'[n] # None
  /\ records'[n].flat.balance >= MinDeposit(cfg, records'[n].flat.price)

Filled(n) ==
  Covered(n) /\ records[n] # None /\ records'[n].owner = records[n].owner /\ SavedBy(n)

Bought(n) ==
  /\ Covered(n) /\ records[n] # None
  /\ credits'[records[n].owner]
       = credits[records[n].owner] + (records[n].flat.price + BalanceNow(n))

Won(n) == Covered(n) /\ ~Held(cfg, records[n])

\* Whichever handler writes a name: the holder is paid, and whoever comes
\* after leaves a grace period of tax.
LEMMA WritesPay ==
  ASSUME TInv, TermsCurrent, UNCHANGED <<now, cfg>>, NEW n \in FlatNames, Writes(n),
         records'[n] # records[n]
  PROVE  Paid(n) \/ Kept(n) \/ Filled(n) \/ Bought(n) \/ Won(n)
<1>1. /\ records \in [FlatNames -> Record \cup {None}] /\ credits \in [Principals -> Nat]
      /\ cfg \in Config /\ cfg.rate \in Nat /\ now \in Nat
  BY DEF TInv, TypeOK, Config
<1>2. ASSUME NEW p \in Principals, DeleteRecord(p, n) PROVE Paid(n)
  <2>1. records[n] # None /\ p = records[n].owner
    BY <1>2 DEF DeleteRecord, Holds, Held
  <2>2. records'[n] = None
    BY <1>1, <1>2 DEF DeleteRecord
  <2> DEFINE x == BalanceNow(n)
  <2>3. credits' = [credits EXCEPT ![p] = @ + x]
    BY <1>2, Zenon DEF DeleteRecord, AddCredit, BalanceNow
  <2> HIDE DEF x
  <2>4. credits'[p] = credits[p] + x
    BY <1>1, <2>3
  <2> QED BY <2>1, <2>2, <2>4 DEF x, Paid
<1>3. ASSUME NEW p \in Principals,
             \/ \E t \in FlatTargets : SetRecord(p, n, t)
             \/ \E x \in Prices : SetPrice(p, n, x)
      PROVE  Kept(n)
  <2>1. Amended(n)
    BY <1>3, HolderWrites
  <2>2. records[n] # None
    BY <2>1, AmendedFields DEF Held
  <2> DEFINE g == records'[n].flat  h == records[n].flat
  <2>3. /\ records'[n] # None /\ records'[n].owner = records[n].owner /\ g \in Holding
        /\ g.balance = BalanceNow(n) /\ g.lapsed = LapsedAt(cfg, h, now)
        /\ g.settled = IF h.lapsed = None THEN now ELSE h.settled
    BY <2>1, AmendedFields DEF BalanceNow
  <2>4. h.lapsed # None => LapsedAt(cfg, h, now) # None
    BY DEF LapsedAt, RunsOut
  <2>5. g.balance >= BalanceNow(n)
    BY <2>3 DEF Holding
  <2> QED BY <2>2, <2>3, <2>4, <2>5 DEF Kept, SavedBy
<1>4. ASSUME NEW p \in Principals, NEW x \in Prices, NEW t \in FlatTargets, Reveal(p, n, x, t)
      PROVE  FALSE
  BY <1>4 DEF Reveal
<1>5. ASSUME NEW k \in CallIds, calls[k].name = n, BuyPaid(k) PROVE Bought(n)
  <2>1. Unchanged(k)
    BY <1>5 DEF BuyPaid
  <2> DEFINE c == calls[k]  g == NewHolding(c.price, c.amount - c.before.price, now)
  <2>2. /\ records[n] # None /\ records'[n] # None /\ records'[n].flat = g
        /\ credits'[records[n].owner]
             = credits[records[n].owner] + (records[n].flat.price + BalanceNow(n))
        /\ c.amount - c.before.price >= MinDeposit(cfg, c.price)
    BY <1>5, <2>1, BuyWrites
  <2>3. g.balance = c.amount - c.before.price /\ g.price = c.price
    BY DEF NewHolding
  <2> HIDE DEF c, g
  <2> QED BY <2>2, <2>3 DEF Bought, Covered
<1>6. ASSUME NEW k \in CallIds, calls[k].name = n, DepositPaid(k) PROVE Filled(n)
  <2>1. Unchanged(k) /\ CanTopUp(calls[k].cfg, records[n].flat, calls[k].amount, now)
    BY <1>6 DEF DepositPaid
  <2>2. SameTerms(calls[k].cfg, cfg)
    BY <1>6 DEF DepositPaid, Replied, TermsCurrent, CallCurrent
  <2>3. MinDeposit(calls[k].cfg, records[n].flat.price) = MinDeposit(cfg, records[n].flat.price)
    BY <2>2, SameMinDeposit
  <2> DEFINE g == records'[n].flat  h == records[n].flat  c == calls[k]
  <2>4. /\ records[n] # None /\ records'[n] # None /\ records'[n].owner = records[n].owner
        /\ g = TopUp(c.cfg, h, c.amount, now) /\ g.price = h.price
        /\ g.balance >= MinDeposit(c.cfg, h.price)
    BY <1>6, <2>1, DepositWrites
  <2>5. c.amount \in Nat /\ c.cfg \in Config /\ c.cfg.rate \in Nat
    BY <1>6, PaymentName DEF Call, Config
  <2>6. h \in Holding /\ HoldingSound(h, now)
    BY <2>4, RecordOf
  <2> HIDE DEF h, g, c
  <2>7. /\ g \in Holding /\ g.balance = h.balance - Taken(c.cfg, h, now) + c.amount
    BY <1>1, <2>4, <2>5, <2>6, TopUpSound
  <2>8. BalanceNow(n) = h.balance - Taken(c.cfg, h, now) /\ BalanceNow(n) \in Nat
    BY <1>1, <2>2, <2>6, SameTax, SettledFields, BalanceAt DEF BalanceNow, c, h
  <2>9. g.lapsed = None /\ g.settled = now
    BY <2>4 DEF TopUp, Settle
  <2>10. h.balance - Taken(c.cfg, h, now) + c.amount >= BalanceNow(n)
    BY <2>5, <2>8
  <2> QED BY <2>3, <2>4, <2>7, <2>9, <2>10 DEF Filled, Covered, SavedBy, g, c, h
<1>7. ASSUME NEW cf \in Config, SameTerms(cf, cfg), BidStep(n, cf) PROVE Won(n)
  <2>1. /\ ~Held(cfg, records[n]) /\ records'[n] # None
        /\ records'[n].flat.balance = MinDeposit(cfg, records'[n].flat.price)
        /\ \E w \in Principals : \E b \in Bid :
              records'[n] = [owner |-> w, target |-> b.alias,
                             previous |-> IF records[n] = None THEN None ELSE records[n].target,
                             changed |-> now, flat |-> NewHolding(b.revealed, b.opening, now)]
    BY <1>7, BidStepHandsOver
  <2>2. \E b \in Bid : records'[n].flat.balance = b.opening
    BY <2>1 DEF NewHolding
  <2>3. records'[n].flat.balance \in Nat
    BY <2>2 DEF Bid
  <2> QED BY <2>1, <2>3 DEF Won, Covered
<1>8. ASSUME NEW k \in CallIds, calls[k].name = n, BidPaid(k) PROVE Won(n)
  <2>1. calls[k] # None /\ calls[k].op # "configure" /\ calls[k].cfg \in Config
    BY <1>8, PaymentName DEF BidPaid, Replied
  <2>2. SameTerms(calls[k].cfg, cfg)
    BY <2>1 DEF TermsCurrent, CallCurrent
  <2> QED BY <1>7, <1>8, <2>1, <2>2, BidIsBidStep
<1>9. CASE CloseAuction(n)
  <2>1. SameTerms(cfg, cfg)
    BY DEF SameTerms
  <2> QED BY <1>1, <1>7, <1>9, <2>1, CloseIsBidStep
<1>10. CASE \E p \in Principals :
             \/ DeleteRecord(p, n)
             \/ \E y \in FlatTargets : SetRecord(p, n, y)
             \/ \E x \in Prices : SetPrice(p, n, x)
             \/ \E x \in Prices, y \in FlatTargets : Reveal(p, n, x, y)
  <2>1. PICK p \in Principals :
          \/ DeleteRecord(p, n)
          \/ \E y \in FlatTargets : SetRecord(p, n, y)
          \/ \E x \in Prices : SetPrice(p, n, x)
          \/ \E x \in Prices, y \in FlatTargets : Reveal(p, n, x, y)
    BY <1>10
  <2> QED BY <1>2, <1>3, <1>4, <2>1
<1>11. CASE \E k \in CallIds : calls[k].name = n /\ (BuyPaid(k) \/ DepositPaid(k) \/ BidPaid(k))
  BY <1>5, <1>6, <1>8, <1>11
<1> QED BY <1>9, <1>10, <1>11 DEF Writes

\* A holder loses a name only by running out of balance and grace, or paid
\* in full.
THEOREM HoldersAreCompensated == Spec /\ [][QuietChange]_vars => HolderIsCompensated
<1> DEFINE Due(n) == BalanceNow(n) + IF records'[n] = None THEN 0 ELSE records[n].flat.price
           Fair(n) == LosesName(n) =>
                        \/ IsFree(cfg, records[n].flat, now)
                        \/ credits'[records[n].owner] >= credits[records[n].owner] + Due(n)
<1>1. ASSUME TInv, TermsCurrent, [Next]_vars, NEW n \in FlatNames PROVE Fair(n)
  <2>1. CASE records'[n] = records[n]
    BY <2>1 DEF LosesName
  <2>2. ASSUME records'[n] # records[n], UNCHANGED <<now, cfg>>, Writes(n) PROVE Fair(n)
    <3>1. CASE records[n] = None \/ ~LosesName(n)
      BY <3>1 DEF LosesName
    <3>2. CASE records[n] # None /\ LosesName(n)
      <4> DEFINE c == credits[records[n].owner]  d == credits'[records[n].owner]
                 b == BalanceNow(n)  x == records[n].flat.price
      <4>1. \/ records'[n] = None /\ d = c + b
            \/ records'[n] # None /\ d = c + (x + b)
            \/ IsFree(cfg, records[n].flat, now)
        <5>1. Paid(n) \/ Kept(n) \/ Filled(n) \/ Bought(n) \/ Won(n)
          BY <1>1, <2>2, WritesPay
        <5>5. ~Kept(n) /\ ~Filled(n)
          BY <3>2 DEF LosesName, Kept, Filled, Covered
        <5>2. CASE Paid(n)
          BY <5>2 DEF Paid
        <5>3. CASE Bought(n)
          BY <5>3 DEF Bought, Covered
        <5>4. CASE Won(n)
          BY <3>2, <5>4 DEF Won, Held
        <5> QED BY <5>1, <5>2, <5>3, <5>4, <5>5
      <4>2. /\ records[n].flat \in Holding /\ HoldingSound(records[n].flat, now)
            /\ records[n].owner \in Principals /\ now \in Nat /\ cfg.rate \in Nat
            /\ credits \in [Principals -> Nat]
        BY <1>1, <3>2, RecordOf DEF TInv, TypeOK, Config
      <4>3. c \in Nat /\ b \in Nat /\ x \in Nat
        BY <4>2, BalanceAt DEF BalanceNow, Holding
      <4> HIDE DEF b, c, d, x
      <4>4. CASE records'[n] = None /\ d = c + b
        <5>1. d >= c + (b + 0)
          BY <4>3, <4>4
        <5> QED BY <4>4, <5>1 DEF b, c, d
      <4>5. CASE records'[n] # None /\ d = c + (x + b)
        <5>1. d >= c + (b + x)
          BY <4>3, <4>5
        <5> QED BY <4>5, <5>1 DEF b, c, d, x
      <4>6. CASE IsFree(cfg, records[n].flat, now)
        BY <4>6
      <4> QED BY <4>1, <4>4, <4>5, <4>6
    <3> QED BY <3>1, <3>2
  <2>3. ASSUME NEW k \in CallIds, ConfigQuoted(k) PROVE Fair(n)
    BY <1>1, <2>1, <2>3, ConfigRecords DEF LosesName
  <2> HIDE DEF Fair
  <2>4. CASE Tick
    BY <2>1, <2>4 DEF Tick, canisterVars
  <2>5. ASSUME NEW m \in FlatNames, UNCHANGED <<now, cfg>>, Writes(m), OthersKept(m) PROVE Fair(n)
    BY <2>1, <2>2, <2>5 DEF OthersKept
  <2> QED BY <1>1, <2>1, <2>3, <2>4, <2>5, OneName
<1>2. TInv /\ TermsCurrent /\ [Next]_vars =>
        \A n \in FlatNames : LosesName(n) =>
          LET r == records[n]  p == r.owner
              due == BalanceNow(n) + IF records'[n] = None THEN 0 ELSE r.flat.price IN
            IsFree(cfg, r.flat, now) \/ credits'[p] >= credits[p] + due
  BY <1>1
<1> HIDE DEF Due, Fair
<1> QED BY <1>2, TypedAndSound, TermsOfTheDay, PTL DEF Spec, HolderIsCompensated

\* No name is held on credit: whoever takes one over, and whoever brings one
\* back from its grace period, leaves a grace period of tax on it.
THEOREM NothingOnCredit == Spec /\ [][QuietChange]_vars => NeverOnCredit
<1> DEFINE Anew(n) ==
             /\ records'[n] # None
             /\ \/ records[n] = None \/ records'[n].owner # records[n].owner
                \/ /\ LapsedAt(cfg, records[n].flat, now) # None
                   /\ LapsedAt(cfg, records'[n].flat, now') = None
           Fair(n) == Anew(n) => records'[n].flat.balance >= MinDeposit(cfg, records'[n].flat.price)
<1>1. ASSUME TInv, TermsCurrent, [Next]_vars, NEW n \in FlatNames PROVE Fair(n)
  <2>1. cfg \in Config /\ now \in Nat /\ records \in [FlatNames -> Record \cup {None}]
    BY <1>1 DEF TInv, TypeOK
  <2>2. ASSUME records[n] # None
        PROVE  /\ records[n] \in Record /\ records[n].flat \in Holding
               /\ HoldingSound(records[n].flat, now)
    BY <1>1, <2>2, RecordOf
  <2>3. ASSUME records'[n] = records[n], now' = now PROVE ~Anew(n)
    BY <2>3
  <2>4. CASE Tick
    <3>1. records'[n] = records[n] /\ now' = now + 1
      BY <2>4 DEF Tick, canisterVars
    <3>2. ASSUME records[n] # None, LapsedAt(cfg, records[n].flat, now) # None
          PROVE  LapsedAt(cfg, records[n].flat, now + 1) # None
      <4> DEFINE h == records[n].flat
      <4>1. /\ cfg.rate \in Nat /\ h \in Holding /\ now \in Nat /\ now + 1 \in Nat
            /\ h.settled <= now /\ now <= now + 1
        BY <2>1, <2>2, <3>2 DEF Config, HoldingSound
      <4> HIDE DEF h
      <4>2. LapsedAt(cfg, h, now) # None => LapsedAt(cfg, h, now + 1) = LapsedAt(cfg, h, now)
        BY <4>1, LapsedForGood
      <4> QED BY <3>2, <4>2 DEF h
    <3> QED BY <3>1, <3>2
  <2>5. ASSUME NEW k \in CallIds, ConfigQuoted(k) PROVE ~Anew(n)
    <3>1. now' = now
      BY <2>5 DEF ConfigQuoted
    <3>2. CASE records'[n] = records[n]
      BY <2>3, <3>1, <3>2
    <3>3. CASE records[n] = None /\ records'[n] = None
      BY <3>3
    <3>4. CASE /\ records[n] # None /\ records'[n] # None /\ records'[n].owner = records[n].owner
               /\ records'[n].flat = Settle(cfg, records[n].flat, now)
      <4> DEFINE h == records[n].flat  g == records'[n].flat
      <4>1. g.lapsed = LapsedAt(cfg, h, now)
        BY <3>4 DEF Settle
      <4>2. g.lapsed # None => LapsedAt(cfg, g, now) # None
        BY DEF LapsedAt, RunsOut
      <4> QED BY <3>1, <3>4, <4>1, <4>2
    <3> QED BY <1>1, <2>5, <3>2, <3>3, <3>4, ConfigRecords
  <2>6. ASSUME records'[n] # records[n], UNCHANGED <<now, cfg>>, Writes(n) PROVE Fair(n)
    <3>1. Paid(n) \/ Kept(n) \/ Filled(n) \/ Bought(n) \/ Won(n)
      BY <1>1, <2>6, WritesPay
    <3>2. CASE Paid(n)
      BY <3>2 DEF Paid
    <3>3. CASE Kept(n)
      <4>1. records'[n].flat.lapsed # None => LapsedAt(cfg, records'[n].flat, now) # None
        BY DEF LapsedAt, RunsOut
      <4> QED BY <2>6, <3>3, <4>1 DEF Kept
    <3>4. CASE Covered(n)
      BY <3>4 DEF Covered
    <3> QED BY <3>1, <3>2, <3>3, <3>4 DEF Filled, Bought, Won
  <2> HIDE DEF Anew
  <2>7. ASSUME NEW m \in FlatNames, UNCHANGED <<now, cfg>>, Writes(m), OthersKept(m) PROVE Fair(n)
    BY <2>3, <2>6, <2>7 DEF OthersKept
  <2>8. ASSUME UNCHANGED <<now, cfg, records, auctions>> PROVE Fair(n)
    BY <2>3, <2>8
  <2> QED BY <1>1, <2>4, <2>5, <2>7, <2>8, OneName
<1>2. TInv /\ TermsCurrent /\ [Next]_vars =>
        \A n \in FlatNames :
          LET r == records[n]  s == records'[n] IN
            /\ s # None
            /\ r = None \/ s.owner # r.owner
                 \/ (LapsedAt(cfg, r.flat, now) # None /\ LapsedAt(cfg, s.flat, now') = None)
            => s.flat.balance >= MinDeposit(cfg, s.flat.price)
  BY <1>1
<1> HIDE DEF Anew, Fair
<1> QED BY <1>2, TypedAndSound, TermsOfTheDay, PTL DEF Spec, NeverOnCredit

-----------------------------------------------------------------------------
(* What becomes of a record under whatever terms                           *)

Released(n) == (\E p \in Principals : Holds(p, n)) /\ records'[n] = None

ToppedUp(n) ==
  /\ records[n] # None
  /\ \E cf \in Config, amount \in Nat :
       records'[n] = [records[n] EXCEPT !.flat = TopUp(cf, @, amount, now)]

\* It is another's, or its holder's again after its time was over.
Sold(n) ==
  \E w \in Principals, t \in FlatTargets, x \in Nat, y \in Nat :
    /\ records'[n] = [owner |-> w, target |-> t,
                      previous |-> IF records[n] = None THEN None ELSE records[n].target,
                      changed |-> now, flat |-> NewHolding(x, y, now)]
    /\ records[n] # None =>
         \/ w # records[n].owner
         \/ \E cf \in Config : Valid(cf) /\ ~Held(cf, records[n])

\* A close or a bid hands the name over, or leaves its record alone.
LEMMA BidStepSells ==
  ASSUME TInv, NEW n \in FlatNames, NEW cf \in Config, Valid(cf), BidStep(n, cf),
         records'[n] # records[n]
  PROVE  Sold(n)
<1> DEFINE a == auctions[n]
<1>1. PICK o \in Outcomes(a) : Over(n) /\ records'[n] = Closing(cf, a, records[n], o).record
  BY DEF BidStep
<1>2. a \in Running /\ AuctionSound(a)
  BY <1>1 DEF Over, TInv, TypeOK, AuctionsSound
<1> DEFINE b == a.bids[o.winner]
<1>3. /\ o.winner # None /\ o.winner \in Revealed(a) /\ ~Held(cf, records[n])
      /\ b.revealed \in Nat /\ b.opening \in Nat
      /\ records'[n] = [owner |-> o.winner, target |-> b.alias,
                        previous |-> IF records[n] = None THEN None ELSE records[n].target,
                        changed |-> now, flat |-> NewHolding(b.revealed, b.opening, now)]
  BY <1>1, <1>2, WinnerOpens
<1>4. o.winner \in Principals /\ b.alias \in FlatTargets
  BY <1>2, <1>3 DEF Running, Revealed, Bidders, AuctionSound, BidCovered
<1> HIDE DEF b
<1> QED BY <1>3, <1>4 DEF Sold

\* A paid buy hands the name over, or leaves its record alone.
LEMMA BuySells ==
  ASSUME TInv, ChecksHold, NEW k \in CallIds, BuyPaid(k),
         records'[calls[k].name] # records[calls[k].name]
  PROVE  Sold(calls[k].name)
<1> DEFINE c == calls[k]
           n == c.name
           r == records[n]
           y == c.amount - c.before.price
<1>1. /\ c # None /\ c.op = "buy" /\ c \in Call /\ CallSound(c) /\ n \in FlatNames
      /\ c.price \in Nat /\ c.who \in Principals /\ c.amount \in Nat
  BY PaymentName DEF BuyPaid, Replied, Call
<1>2. /\ c.before.price \in Nat /\ c.before.price <= c.amount /\ c.alias \in FlatTargets
      /\ c.before.owner # c.who
  BY <1>1 DEF CallSound, Snapshots, ChecksHold, CallChecked
<1>3. y \in Nat
  BY <1>1, <1>2
<1>4. Unchanged(k)
  BY DEF BuyPaid
<1>5. r # None /\ c.before.owner = r.owner
  BY <1>4, UnchangedStatus
<1>6. records' = [records EXCEPT ![n] =
        [owner |-> c.who, target |-> c.alias, previous |-> r.target, changed |-> now,
         flat |-> NewHolding(c.price, y, now)]]
  BY <1>4 DEF BuyPaid, CommitFlat
<1> HIDE DEF y
<1>7. records'[n] = [owner |-> c.who, target |-> c.alias, previous |-> r.target, changed |-> now,
                     flat |-> NewHolding(c.price, y, now)]
  BY <1>1, <1>6 DEF TInv, TypeOK
<1> HIDE DEF c
<1>8. Sold(n)
  BY <1>1, <1>2, <1>3, <1>5, <1>7 DEF Sold
<1> QED BY <1>8 DEF c

\* A record that a step writes is released, amended by its holder, topped up
\* or sold.
LEMMA WrittenRecord ==
  ASSUME TInv, ChecksHold, NEW n \in FlatNames, Writes(n), records'[n] # records[n]
  PROVE  Released(n) \/ Amended(n) \/ ToppedUp(n) \/ Sold(n)
<1>1. records \in [FlatNames -> Record \cup {None}]
  BY DEF TInv, TypeOK
<1>2. ASSUME NEW p \in Principals, DeleteRecord(p, n) PROVE Released(n)
  BY <1>1, <1>2 DEF DeleteRecord, Released
<1>3. ASSUME NEW p \in Principals,
             \/ \E t \in FlatTargets : SetRecord(p, n, t)
             \/ \E x \in Prices : SetPrice(p, n, x)
      PROVE  Amended(n)
  BY <1>3, HolderWrites
<1>4. ASSUME NEW p \in Principals, NEW x \in Prices, NEW t \in FlatTargets, Reveal(p, n, x, t)
      PROVE  FALSE
  BY <1>4 DEF Reveal
<1>5. ASSUME NEW k \in CallIds, calls[k].name = n, BuyPaid(k) PROVE Sold(n)
  BY <1>5, BuySells
<1>6. ASSUME NEW k \in CallIds, calls[k].name = n, DepositPaid(k) PROVE ToppedUp(n)
  <2>1. calls[k].cfg \in Config /\ calls[k].amount \in Nat
    BY <1>6, PaymentName DEF Call
  <2>2. /\ records[n] # None
        /\ records' = [records EXCEPT ![n] =
                         [records[n] EXCEPT !.flat = TopUp(calls[k].cfg, @, calls[k].amount, now)]]
    BY <1>6 DEF DepositPaid, Unchanged, CommitFlat
  <2>3. records'[n] = [records[n] EXCEPT !.flat = TopUp(calls[k].cfg, @, calls[k].amount, now)]
    BY <1>1, <2>2
  <2> QED BY <2>1, <2>2, <2>3 DEF ToppedUp
<1>7. ASSUME NEW k \in CallIds, calls[k].name = n, BidPaid(k) PROVE Sold(n)
  <2>1. calls[k].cfg \in Config /\ Valid(calls[k].cfg)
    BY <1>7, PaymentName DEF ChecksHold, CallChecked
  <2> QED BY <1>7, <2>1, BidIsBidStep, BidStepSells
<1>8. CASE CloseAuction(n)
  <2>1. cfg \in Config /\ Valid(cfg)
    BY DEF TInv, TypeOK, ChecksHold
  <2> QED BY <1>8, <2>1, CloseIsBidStep, BidStepSells
<1>9. CASE \E p \in Principals :
             \/ DeleteRecord(p, n)
             \/ \E t \in FlatTargets : SetRecord(p, n, t)
             \/ \E x \in Prices : SetPrice(p, n, x)
             \/ \E x \in Prices, t \in FlatTargets : Reveal(p, n, x, t)
  BY <1>2, <1>3, <1>4, <1>9
<1>10. CASE \E k \in CallIds : calls[k].name = n /\ (BuyPaid(k) \/ DepositPaid(k) \/ BidPaid(k))
  BY <1>5, <1>6, <1>7, <1>10
<1> QED BY <1>8, <1>9, <1>10 DEF Writes

-----------------------------------------------------------------------------
(* What others do to somebody's cycles                                     *)

\* A sum grows with its entries, and one entry may pay for another sum.
LEMMA TotalGrows ==
  ASSUME NEW S, IsFiniteSet(S), NEW f \in [S -> Nat], NEW g \in [S -> Nat],
         \A x \in S : f[x] <= g[x]
  PROVE  Total(f) \in Nat /\ Total(g) \in Nat /\ Total(f) <= Total(g)
<1> DEFINE d == [x \in S |-> g[x] - f[x]]
<1>1. d \in [S -> Nat]
  OBVIOUS
<1>2. Plus(f, d) = g
  BY DEF Plus
<1> HIDE DEF d
<1>3. Total(g) = Total(f) + Total(d)
  BY <1>1, <1>2, TotalPlus
<1>4. Total(f) \in Nat /\ Total(g) \in Nat /\ Total(d) \in Nat
  BY <1>1, CoinsFinite
<1> QED BY <1>3, <1>4

\* All but one entry grow: the sum changes at least by as much as that one.
LEMMA TotalGrowsBut ==
  ASSUME NEW S, IsFiniteSet(S), NEW f \in [S -> Nat], NEW g \in [S -> Nat],
         NEW n \in S, \A x \in S \ {n} : f[x] <= g[x]
  PROVE  Total(f) \in Nat /\ Total(g) \in Nat /\ Total(f) + g[n] <= Total(g) + f[n]
<1> DEFINE e == [f EXCEPT ![n] = g[n]]
<1>1. e \in [S -> Nat] /\ \A x \in S : e[x] <= g[x]
  OBVIOUS
<1>2. g[n] \in Nat /\ f[n] \in Nat
  OBVIOUS
<1>5. \A v \in Nat : Total([f EXCEPT ![n] = v]) = Total(f) - f[n] + v
  BY TotalUpdate
<1>6. Total(e) = Total(f) - f[n] + g[n]
  BY <1>2, <1>5
<1> HIDE DEF e
<1>3. Total(e) \in Nat /\ Total(g) \in Nat /\ Total(e) <= Total(g)
  BY <1>1, TotalGrows
<1>4. Total(f) \in Nat
  BY CoinsFinite
<1> QED BY <1>2, <1>3, <1>4, <1>6

\* A holding settled to a time has its whole balance then.
LEMMA SavedIsThere ==
  ASSUME NEW cf, cf.rate \in Nat, NEW h \in Holding, NEW t \in Nat,
         h.lapsed = None => h.settled = t
  PROVE  Settle(cf, h, t).balance = h.balance
<1>1. Settle(cf, h, t).balance = h.balance - Taken(cf, h, t) /\ h.balance \in Nat /\ h.price \in Nat
  BY SettledFields DEF Holding
<1>2. Taken(cf, h, t) = 0
  <2>1. CASE h.lapsed # None
    BY <2>1 DEF Taken, RunsOut
  <2>2. CASE h.lapsed = None
    <3>1. h.price * cf.rate \in Nat /\ t - h.settled = 0
      BY <1>1, <2>2, Times
    <3>2. TaxDue(cf, h.price, t - h.settled) = 0
      BY <3>1 DEF TaxDue
    <3> QED BY <1>1, <2>2, <3>2 DEF Taken, RunsOut
  <2> QED BY <2>1, <2>2
<1> QED BY <1>1, <1>2

\* The parts of Wealth.
NamedOf(p) ==
  [n \in FlatNames |-> IF records[n] # None /\ records[n].owner = p THEN BalanceNow(n) ELSE 0]

BiddenOf(p) == [n \in FlatNames |-> EscrowOf(auctions)[<<n, p>>]]

UnderWay(p) ==
  [k \in CallIds |-> IF calls[k] # None /\ calls[k].who = p /\ calls[k].op # "fund_self"
                     THEN InTransit(calls[k]) ELSE 0]

WealthTyped(p) ==
  /\ Total([l \in Ledgers |-> accounts[l][p]]) \in Nat
  /\ credits[p] \in Nat
  /\ NamedOf(p) \in [FlatNames -> Nat]
  /\ BiddenOf(p) \in [FlatNames -> Nat]
  /\ UnderWay(p) \in [CallIds -> Nat]

\* Each part is a number.
LEMMA WealthParts == TInv => \A p \in Principals : WealthTyped(p)
<1> SUFFICES ASSUME TInv, NEW p \in Principals PROVE WealthTyped(p)
  OBVIOUS
<1>1. /\ cfg \in Config /\ cfg.rate \in Nat /\ now \in Nat /\ credits \in [Principals -> Nat]
      /\ auctions \in [FlatNames -> Running \cup {None}]
      /\ accounts \in [Ledgers -> [Holders -> Nat]]
      /\ calls \in [CallIds -> Call \cup {None}]
  BY DEF TInv, TypeOK, LedgerTypeOK, Config
<1>2. Total([l \in Ledgers |-> accounts[l][p]]) \in Nat
  <2> DEFINE f == [l \in Ledgers |-> accounts[l][p]]
  <2>1. f \in [Ledgers -> Nat]
    BY <1>1 DEF Holders
  <2> HIDE DEF f
  <2>2. Total(f) \in Nat
    BY <2>1, CoinsFinite, MarketAssumption
  <2> QED BY <2>2 DEF f
<1>3. ASSUME NEW n \in FlatNames, records[n] # None PROVE BalanceNow(n) \in Nat
  BY <1>1, <1>3, RecordOf, BalanceAt DEF BalanceNow
<1>4. ASSUME NEW n \in FlatNames PROVE EscrowOf(auctions)[<<n, p>>] \in Nat
  <2>1. EscrowOf(auctions)[<<n, p>>] = IF auctions[n] = None THEN 0 ELSE Deposits(auctions[n])[p]
    BY DEF EscrowOf
  <2>2. auctions[n] # None => Deposits(auctions[n]) \in [Principals -> Nat]
    BY <1>1, DepositsType
  <2> QED BY <2>1, <2>2
<1>5. ASSUME NEW k \in CallIds, calls[k] # None PROVE InTransit(calls[k]) \in Nat
  BY <1>1, <1>5, InTransitType DEF TInv, CallsSound
<1> QED BY <1>1, <1>2, <1>3, <1>4, <1>5 DEF WealthTyped, NamedOf, BiddenOf, UnderWay

\* So it is after a step.
LEMMA WealthPartsNext == TInv' => (\A p \in Principals : WealthTyped(p))'
<1>1. TInv => \A p \in Principals : WealthTyped(p)
  BY WealthParts
<1> QED BY <1>1, PTL

\* Wealth is the sum of its parts.
LEMMA WealthIs ==
  ASSUME NEW p
  PROVE  Wealth(p) = Total([l \in Ledgers |-> accounts[l][p]]) + credits[p]
                     + Total(NamedOf(p)) + Total(BiddenOf(p)) + Total(UnderWay(p))
BY DEF Wealth, NamedOf, BiddenOf, UnderWay

\* The ledger moves the cycles of the caller only.
LEMMA AccountsOfOthers ==
  ASSUME TInv, [Next]_vars, NEW p \in Principals, ~OwnBusiness(p)
  PROVE  [l \in Ledgers |-> accounts'[l][p]] = [l \in Ledgers |-> accounts[l][p]]
<1>1. /\ accounts \in [Ledgers -> [Holders -> Nat]] /\ p \in Holders /\ p # Canister
      /\ calls \in [CallIds -> Call \cup {None}]
  BY MarketAssumption DEF TInv, TypeOK, LedgerTypeOK, Holders
<1>2. CASE UNCHANGED accounts
  BY <1>2
<1>3. ASSUME NEW k \in CallIds, LedgerPulls(k) \/ LedgerPays(k)
      PROVE  \A l \in Ledgers : accounts'[l][p] = accounts[l][p]
  <2>1. calls[k] # None /\ calls'[k] # calls[k] /\ calls[k].who \in Principals
    BY <1>1, <1>3 DEF LedgerPulls, LedgerPays, Sent, Stage, Call
  <2>2. p # calls[k].who
    BY <1>3, <2>1 DEF OwnBusiness, Replied, LedgerPulls, LedgerPays, Sent
  <2> DEFINE q == calls[k].who
  <2>3. q # Canister /\ q \in Holders
    BY <2>1, MarketAssumption DEF Holders
  <2>4. CASE LedgerPulls(k)
    BY <1>1, <2>2, <2>3, <2>4 DEF LedgerPulls, TransferFrom
  <2>5. CASE LedgerPays(k)
    BY <1>1, <2>2, <2>3, <2>5 DEF LedgerPays, Transfer
  <2> QED BY <1>3, <2>4, <2>5
<1>4. ASSUME NEW k \in CallIds, LedgerFunds(k) \/ LedgerReturns(k)
      PROVE  \A l \in Ledgers : accounts'[l][p] = accounts[l][p]
  BY <1>1, <1>4 DEF LedgerFunds, LedgerReturns, WithdrawCycles, ChargeFee
<1>5. \/ UNCHANGED accounts
      \/ \E k \in CallIds : LedgerPulls(k) \/ LedgerPays(k) \/ LedgerFunds(k) \/ LedgerReturns(k)
  <2>1. ASSUME NEW k \in CallIds, Execute(k)
        PROVE  \/ UNCHANGED accounts
               \/ LedgerPulls(k) \/ LedgerPays(k) \/ LedgerFunds(k) \/ LedgerReturns(k)
    BY <2>1 DEF Execute, LedgerRefuses, LedgerQuotes, ledgerVars
  <2>2. ASSUME NEW k \in CallIds, Resume(k) PROVE UNCHANGED accounts
    BY <2>2 DEF Resume, BuyPaid, DepositPaid, BidPaid, PaymentFailed, WithdrawPaid, WithdrawFailed,
      ReplyUndecodable, FeeRejected, FundSelfQuoted, FundSelfDone, ConfigQuoted, ledgerVars
  <2>3. ASSUME NEW q \in Principals, CallsOf(q) \/ PaymentsOf(q) \/ Payout(q)
        PROVE  UNCHANGED accounts
    BY <2>3 DEF CallsOf, PaymentsOf, Payout, DeleteRecord, SetRecord, SetPrice, Reveal, Buy,
      Deposit, PlaceBid, Withdraw, ledgerVars
  <2>4. ASSUME NEW q \in Controllers, Administer(q) PROVE UNCHANGED accounts
    BY <2>4 DEF Administer, FundSelf, SetHarbergerConfig, SetAuctionConfig, ledgerVars
  <2>5. ASSUME NEW n \in FlatNames, CloseAuction(n) PROVE UNCHANGED accounts
    BY <2>5 DEF CloseAuction, ledgerVars
  <2>6. CASE Tick \/ LedgerChangesFee \/ UNCHANGED vars
    BY <2>6 DEF Tick, LedgerChangesFee, ChangeFee, vars, ledgerVars
  <2> QED BY <2>1, <2>2, <2>3, <2>4, <2>5, <2>6 DEF Next
<1> QED BY <1>2, <1>3, <1>4, <1>5

\* A bid that was paid for is placed or credited back, or its reply is lost.
LEMMA PaidBidResumes ==
  ASSUME TInv, [Next]_vars, NEW k \in CallIds, Replied(k, "bid", "moved"), calls'[k] # calls[k]
  PROVE  BidPaid(k) \/ ReplyUndecodable(k)
<1>1. calls \in [CallIds -> Call \cup {None}] /\ calls[k] # None
  BY DEF TInv, TypeOK, Replied
<1>2. ASSUME NEW j \in CallIds, Execute(j) PROVE FALSE
  <2>1. j # k => calls'[k] = calls[k]
    BY <1>1, <1>2 DEF Execute, LedgerPulls, LedgerPays, LedgerFunds, LedgerReturns, LedgerRefuses,
      LedgerQuotes, Stage
  <2>2. calls[j].stage \in {"sent", "asked"}
    BY <1>2 DEF Execute, LedgerPulls, LedgerPays, LedgerFunds, LedgerReturns, LedgerRefuses,
      LedgerQuotes, Sent
  <2> QED BY <2>1, <2>2 DEF Replied
<1>3. ASSUME NEW j \in CallIds, Resume(j) PROVE BidPaid(k) \/ ReplyUndecodable(k)
  <2>1. Finish(j) \/ Stage(j, "sent")
    BY <1>3 DEF Resume, BuyPaid, DepositPaid, BidPaid, PaymentFailed, WithdrawPaid,
      WithdrawFailed, ReplyUndecodable, FeeRejected, FundSelfQuoted, FundSelfDone, ConfigQuoted
  <2>2. j = k
    BY <1>1, <2>1 DEF Finish, Stage
  <2> QED BY <1>3, <2>2 DEF Resume, BuyPaid, DepositPaid, PaymentFailed, WithdrawPaid,
    WithdrawFailed, FeeRejected, FundSelfQuoted, FundSelfDone, ConfigQuoted, Replied, Payments
<1>4. ASSUME NEW j \in CallIds, NEW c, Await(j, c) PROVE calls'[k] = calls[k]
  BY <1>1, <1>4 DEF Await
<1>5. ASSUME NEW q \in Principals, CallsOf(q) \/ PaymentsOf(q) \/ Payout(q) PROVE FALSE
  <2>1. UNCHANGED calls \/ \E j \in CallIds : \E c : Await(j, c)
    BY <1>5 DEF CallsOf, PaymentsOf, Payout, DeleteRecord, SetRecord, SetPrice, Reveal, Buy,
      Deposit, PlaceBid, Withdraw
  <2> QED BY <1>4, <2>1
<1>6. ASSUME NEW q \in Controllers, Administer(q) PROVE FALSE
  <2>1. UNCHANGED calls \/ \E j \in CallIds : \E c : Await(j, c)
    BY <1>6 DEF Administer, FundSelf, SetHarbergerConfig, SetAuctionConfig
  <2> QED BY <1>4, <2>1
<1>7. CASE Tick \/ LedgerChangesFee \/ UNCHANGED vars \/ \E n \in FlatNames : CloseAuction(n)
  BY <1>7 DEF Tick, LedgerChangesFee, vars, CloseAuction
<1> QED BY <1>2, <1>3, <1>5, <1>6, <1>7 DEF Next

\* What is under way for somebody only grows, but by its own business and by
\* its paid bids.
LEMMA CallsOfOthers ==
  ASSUME TInv, TInv', [Next]_vars, NEW p \in Principals, ~OwnBusiness(p),
         NEW k \in CallIds, ~BidPaid(k)
  PROVE  UnderWay(p)[k] <= UnderWay(p)'[k]
<1>1. UnderWay(p)[k] \in Nat
  BY WealthParts DEF WealthTyped
<1>2. UnderWay(p)'[k] \in Nat
  BY WealthPartsNext DEF WealthTyped
<1>3. CASE calls[k] # None /\ calls[k].who = p /\ calls'[k] # calls[k]
  <2>1. Replied(k, "bid", "moved") /\ unreconciled' = unreconciled
    BY <1>3 DEF OwnBusiness
  <2>2. ReplyUndecodable(k)
    BY <1>3, <2>1, PaidBidResumes
  <2>3. calls[k].amount \in Nat /\ unreconciled \in Nat
    BY <1>3 DEF TInv, TypeOK, Call
  <2>4. calls[k].amount = 0
    BY <2>1, <2>2, <2>3 DEF ReplyUndecodable
  <2>5. UnderWay(p)[k] = 0
    BY <2>1, <2>4 DEF UnderWay, InTransit, Replied, Payments
  <2> QED BY <1>2, <2>5
<1>4. CASE calls[k] # None /\ calls[k].who = p /\ calls'[k] = calls[k]
  <2>1. UnderWay(p)'[k] = UnderWay(p)[k]
    BY <1>4 DEF UnderWay, InTransit
  <2> QED BY <1>1, <2>1
<1>5. CASE ~(calls[k] # None /\ calls[k].who = p)
  <2>1. UnderWay(p)[k] = 0
    BY <1>5 DEF UnderWay
  <2> QED BY <1>2, <2>1
<1> QED BY <1>3, <1>4, <1>5

\* The phases of an auction take time, so one that ended is not open again
\* under the same opening time.
HasPhases(a) == a.commit_ns > 0 /\ a.reveal_ns > 0

PhasesHold ==
  HasPhases(terms) /\ \A n \in FlatNames : auctions[n] # None => HasPhases(auctions[n])

\* Every auction, and the terms of the next one, keep phases that take time.
LEMMA PhasesStay ==
  ASSUME TInv, PhasesHold, [Next]_vars
  PROVE  PhasesHold'
<1>1. auctions \in [FlatNames -> Running \cup {None}]
  BY DEF TInv, TypeOK
<1>2. HasPhases(terms')
  <2>1. UNCHANGED terms \/ \E p \in Controllers, t \in AuctionTerms : SetAuctionConfig(p, t)
    <3>1. ASSUME NEW k \in CallIds, Execute(k) \/ Resume(k) PROVE UNCHANGED terms
      BY <3>1 DEF Execute, LedgerPulls, LedgerPays, LedgerFunds, LedgerReturns, LedgerRefuses,
        LedgerQuotes, Resume, BuyPaid, DepositPaid, BidPaid, PaymentFailed, WithdrawPaid,
        WithdrawFailed, ReplyUndecodable, FeeRejected, FundSelfQuoted, FundSelfDone,
        ConfigQuoted, canisterVars
    <3>2. ASSUME NEW q \in Principals, CallsOf(q) \/ PaymentsOf(q) \/ Payout(q)
          PROVE  UNCHANGED terms
      BY <3>2 DEF CallsOf, PaymentsOf, Payout, DeleteRecord, SetRecord, SetPrice, Reveal, Buy,
        Deposit, PlaceBid, Withdraw, canisterVars
    <3>3. ASSUME NEW q \in Controllers, Administer(q)
          PROVE  UNCHANGED terms \/ \E t \in AuctionTerms : SetAuctionConfig(q, t)
      BY <3>3 DEF Administer, FundSelf, SetHarbergerConfig, canisterVars
    <3>4. ASSUME NEW n \in FlatNames, CloseAuction(n) PROVE UNCHANGED terms
      BY <3>4 DEF CloseAuction
    <3>5. CASE Tick \/ LedgerChangesFee \/ UNCHANGED vars
      BY <3>5 DEF Tick, LedgerChangesFee, vars, canisterVars
    <3> QED BY <3>1, <3>2, <3>3, <3>4, <3>5 DEF Next
  <2>2. CASE UNCHANGED terms
    BY <2>2 DEF PhasesHold
  <2>3. ASSUME NEW p \in Controllers, NEW t \in AuctionTerms, SetAuctionConfig(p, t)
        PROVE  HasPhases(terms')
    BY <2>3 DEF SetAuctionConfig, HasPhases
  <2> QED BY <2>1, <2>2, <2>3
<1>3. ASSUME NEW a, HasPhases(a), NEW p, NEW x
      PROVE  HasPhases([a EXCEPT !.bids = x]) /\ HasPhases(AddBid(a, p, x))
  BY <1>3 DEF HasPhases, AddBid
<1>4. ASSUME NEW cf PROVE HasPhases(OpenAuction(cf))
  BY DEF PhasesHold, HasPhases, OpenAuction
<1>5. ASSUME NEW n \in FlatNames, Writes(n), auctions'[n] # None PROVE HasPhases(auctions'[n])
  <2>1. ASSUME NEW cf, BidStep(n, cf) PROVE HasPhases(auctions'[n])
    <3> DEFINE a == IF Over(n) THEN None ELSE auctions[n]
               into == IF a = None THEN OpenAuction(cf) ELSE a
    <3>1. a # None => HasPhases(a)
      BY DEF PhasesHold
    <3>2. HasPhases(into)
      BY <1>4, <3>1
    <3>3. auctions'[n] = a \/ \E p, x : auctions'[n] = AddBid(into, p, x)
      BY <2>1 DEF BidStep
    <3> HIDE DEF a, into
    <3> QED BY <1>3, <1>5, <3>1, <3>2, <3>3
  <2>2. ASSUME NEW p, NEW x, NEW t, Reveal(p, n, x, t) PROVE HasPhases(auctions'[n])
    BY <1>1, <1>5, <2>2 DEF Reveal, PhasesHold, HasPhases
  <2>3. ASSUME UNCHANGED auctions PROVE HasPhases(auctions'[n])
    BY <1>5, <2>3 DEF PhasesHold
  <2>4. CASE \E p \in Principals :
               \/ DeleteRecord(p, n)
               \/ \E t \in FlatTargets : SetRecord(p, n, t)
               \/ \E x \in Prices : SetPrice(p, n, x)
    BY <2>3, <2>4 DEF DeleteRecord, SetRecord, SetPrice
  <2>5. CASE \E k \in CallIds : BuyPaid(k) \/ DepositPaid(k)
    BY <2>3, <2>5 DEF BuyPaid, DepositPaid
  <2> QED BY <1>5, <2>1, <2>2, <2>4, <2>5, CloseIsBidStep, BidIsBidStep DEF Writes
<1>6. ASSUME NEW n \in FlatNames, auctions'[n] = auctions[n], auctions'[n] # None
      PROVE  HasPhases(auctions'[n])
  BY <1>6 DEF PhasesHold
<1>7. ASSUME NEW n \in FlatNames, auctions'[n] # None PROVE HasPhases(auctions'[n])
  <2>1. CASE auctions'[n] = auctions[n]
    BY <1>6, <1>7, <2>1
  <2>2. CASE auctions'[n] # auctions[n]
    <3>1. Writes(n)
      BY <2>2, OneName DEF Tick, ConfigQuoted, OthersKept, canisterVars
    <3> QED BY <1>5, <1>7, <3>1
  <2> QED BY <2>1, <2>2
<1> QED BY <1>2, <1>7 DEF PhasesHold

\* Apart from bids and closes, nothing touches what is in escrow.
LEMMA EscrowStays ==
  ASSUME TInv, TInv', [Next]_vars, NEW p \in Principals,
         ~\E k \in CallIds : BidPaid(k), ~\E n \in FlatNames : CloseAuction(n)
  PROVE  \A n \in FlatNames : BiddenOf(p)[n] <= BiddenOf(p)'[n]
<1> SUFFICES ASSUME NEW n \in FlatNames PROVE BiddenOf(p)[n] <= BiddenOf(p)'[n]
  OBVIOUS
<1> DEFINE a == auctions[n]
<1>1. BiddenOf(p)[n] \in Nat /\ BiddenOf(p)'[n] \in Nat
  BY WealthParts, WealthPartsNext DEF WealthTyped
<1>2. /\ BiddenOf(p)[n] = (IF a = None \/ a.bids[p] = None THEN 0 ELSE a.bids[p].deposit)
      /\ BiddenOf(p)'[n] =
           (IF a' = None \/ a'.bids[p] = None THEN 0 ELSE a'.bids[p].deposit)
  BY DEF BiddenOf, EscrowOf, Deposits
<1>3. CASE a = None \/ a.bids[p] = None \/ a' = a
  BY <1>1, <1>2, <1>3
<1>4. CASE ~(a = None \/ a.bids[p] = None \/ a' = a)
  <2>1. Writes(n)
    BY <1>4, OneName DEF Tick, ConfigQuoted, OthersKept, canisterVars
  <2>2. /\ a \in Running /\ a.bids \in [Principals -> Bid \cup {None}]
        /\ auctions \in [FlatNames -> Running \cup {None}]
    BY <1>4 DEF TInv, TypeOK, Running
  <2>3. PICK q \in Principals, x \in Prices, t \in FlatTargets : Reveal(q, n, x, t)
    <3>1. CASE \E q \in Principals :
                 \/ DeleteRecord(q, n)
                 \/ \E t \in FlatTargets : SetRecord(q, n, t)
                 \/ \E x \in Prices : SetPrice(q, n, x)
      BY <1>4, <3>1 DEF DeleteRecord, SetRecord, SetPrice
    <3>2. CASE \E k \in CallIds : BuyPaid(k) \/ DepositPaid(k)
      BY <1>4, <3>2 DEF BuyPaid, DepositPaid
    <3> QED BY <2>1, <3>1, <3>2 DEF Writes
  <2> DEFINE b == [a.bids[q] EXCEPT !.revealed = x, !.alias = t, !.opening = MinDeposit(cfg, x)]
  <2>4. a.bids[q] \in Bid
    BY <2>2, <2>3 DEF Reveal, Bidders
  <2>5. b.deposit = a.bids[q].deposit /\ b # None
    <3>1. x \in Nat /\ MinDeposit(cfg, x) \in Nat
      BY MinDepositType, MarketAssumption DEF TInv, TypeOK
    <3>2. b \in Bid
      BY <2>4, <3>1 DEF Bid
    <3> QED BY <2>4, <3>2, StartAssumption DEF Bid
  <2>6. auctions' = [auctions EXCEPT ![n].bids[q] = b]
    BY <2>3 DEF Reveal
  <2> HIDE DEF b
  <2>7. a'.bids = [a.bids EXCEPT ![q] = b] /\ a' # None
    <3>1. a' = [a EXCEPT !.bids[q] = b]
      BY <2>2, <2>6
    <3>2. TInv' => auctions'[n] \in Running \cup {None}
      BY DEF TInv, TypeOK
    <3>3. a'.bids = [a.bids EXCEPT ![q] = b]
      BY <2>2, <3>1 DEF Running
    <3>4. b \in Bid
      BY <1>4, <2>2, <2>5, <2>3, <2>4, MinDepositType, MarketAssumption DEF b, Bid, TInv, TypeOK
    <3>5. [a EXCEPT !.bids[q] = b] \in Running
      BY <2>2, <3>4 DEF Running
    <3> QED BY <3>1, <3>3, <3>5, StartAssumption
  <2>8. a'.bids[p] # None /\ a'.bids[p].deposit = a.bids[p].deposit
    BY <1>4, <2>2, <2>5, <2>7
  <2> QED BY <1>1, <1>2, <1>4, <2>7, <2>8
<1> QED BY <1>3, <1>4

\* The only call that lowers a credit is the withdrawal of its owner.
LEMMA CreditsGrow ==
  ASSUME TInv, TInv', [Next]_vars,
         ~\E k \in CallIds, q \in Principals, x \in Payouts : Withdraw(k, q, x)
  PROVE  \A p \in Principals : credits'[p] >= credits[p]
<1> DEFINE Grow == \A p \in Principals : credits'[p] >= credits[p]
<1>1. /\ credits \in [Principals -> Nat] /\ now \in Nat /\ cfg \in Config
      /\ records \in [FlatNames -> Record \cup {None}]
      /\ auctions \in [FlatNames -> Running \cup {None}]
      /\ calls \in [CallIds -> Call \cup {None}]
  BY DEF TInv, TypeOK
<1>2. CASE UNCHANGED credits
  BY <1>1, <1>2
<1>3. ASSUME NEW q \in Principals, NEW x \in Nat, credits' = AddCredit(credits, q, x) PROVE Grow
  BY <1>1, <1>3 DEF AddCredit
<1>4. ASSUME NEW k \in CallIds, calls[k] # None, CreditBack(k) PROVE Grow
  BY <1>1, <1>3, <1>4 DEF CreditBack, Call
<1>5. ASSUME NEW refunds \in [Principals -> Nat]
      PROVE  /\ Plus(credits, refunds) \in [Principals -> Nat]
             /\ \A p \in Principals : Plus(credits, refunds)[p] >= credits[p]
  BY <1>1 DEF Plus
<1>6. ASSUME NEW n \in FlatNames, auctions[n] # None, NEW cf \in Config, NEW c \in Closings(cf, n)
      PROVE  c.refunds \in [Principals -> Nat]
  <2>1. PICK o \in Outcomes(auctions[n]) : c = Closing(cf, auctions[n], records[n], o)
    BY <1>6 DEF Closings
  <2>2. /\ auctions[n] \in Running /\ AuctionSound(auctions[n])
        /\ records[n] \in Record \cup {None}
        /\ records[n] # None => HoldingSound(records[n].flat, now)
    BY <1>1, <1>6 DEF TInv, AuctionsSound, HoldingsSound
  <2> QED BY <1>1, <2>1, <2>2, ClosingSound
<1>7. ASSUME NEW n \in FlatNames, CloseAuction(n) PROVE Grow
  <2>1. PICK c \in Closings(cfg, n) : credits' = Plus(credits, c.refunds)
    BY <1>7 DEF CloseAuction
  <2> QED BY <1>1, <1>5, <1>6, <1>7, <2>1 DEF CloseAuction
<1>8. ASSUME NEW p \in Principals, NEW n \in FlatNames, DeleteRecord(p, n) PROVE Grow
  <2> DEFINE x == Settle(cfg, records[n].flat, now).balance
  <2>1. x \in Nat
    BY <1>8, HolderActs DEF DeleteRecord, Holding
  <2>2. credits' = AddCredit(credits, p, x)
    BY <1>8 DEF DeleteRecord
  <2> HIDE DEF x
  <2> QED BY <1>3, <2>1, <2>2
<1>9. ASSUME NEW k \in CallIds, BuyPaid(k) PROVE Grow
  <2> DEFINE c == calls[k]  r == records[c.name]
             x == c.before.price + Settle(c.cfg, r.flat, now).balance
  <2>1. c \in Call /\ CallSound(c) /\ c.op = "buy" /\ c.name \in FlatNames /\ c.cfg \in Config /\ c # None
    BY <1>9, PaymentName DEF BuyPaid, Replied
  <2>2. CASE Unchanged(k)
    <3>1. r # None /\ credits' = AddCredit(credits, r.owner, x)
      BY <1>9, <2>2 DEF BuyPaid, Unchanged
    <3>2. r.flat \in Holding /\ HoldingSound(r.flat, now) /\ r.owner \in Principals
      BY <2>1, <3>1, RecordOf
    <3>3. c.before.price \in Nat /\ c.cfg.rate \in Nat
      BY <2>1 DEF CallSound, Snapshots, Config
    <3>4. Settle(c.cfg, r.flat, now).balance \in Nat
      BY <1>1, <3>2, <3>3, BalanceAt
    <3>5. x \in Nat
      BY <3>3, <3>4
    <3> HIDE DEF x, r
    <3> QED BY <1>3, <3>1, <3>2, <3>5
  <2>3. CASE ~Unchanged(k)
    BY <1>4, <1>9, <2>1, <2>3 DEF BuyPaid
  <2> QED BY <2>2, <2>3
<1>10. ASSUME NEW k \in CallIds, DepositPaid(k) PROVE Grow
  BY <1>2, <1>4, <1>10, PaymentName DEF DepositPaid
<1>11. ASSUME NEW k \in CallIds, BidPaid(k) PROVE Grow
  <2> DEFINE n == calls[k].name
  <2>1. /\ calls[k] \in Call /\ calls[k].cfg \in Config /\ n \in FlatNames
        /\ calls[k].who \in Principals /\ calls[k].amount \in Nat
    BY <1>11, PaymentName DEF Call
  <2>2. PICK c \in IF Over(n) THEN Closings(calls[k].cfg, n) ELSE {NoClosing(n)} :
          \E back \in {calls[k].amount,
                       Deposits(IF Over(n) \/ auctions[n] = None
                                THEN OpenAuction(calls[k].cfg) ELSE auctions[n])[calls[k].who]} :
            credits' = AddCredit(Plus(credits, c.refunds), calls[k].who, back)
    BY <1>11, Zenon DEF BidPaid, Over
  <2>3. PICK back \in {calls[k].amount,
                       Deposits(IF Over(n) \/ auctions[n] = None
                                THEN OpenAuction(calls[k].cfg) ELSE auctions[n])[calls[k].who]} :
            credits' = AddCredit(Plus(credits, c.refunds), calls[k].who, back)
    BY <2>2
  <2>4. c.refunds \in [Principals -> Nat]
    BY <1>6, <2>1, <2>2 DEF Over, NoClosing
  <2>5. back \in Nat
    <3>1. OpenAuction(calls[k].cfg) \in Running
      BY <1>1, <2>1, OpenAuctionSound DEF TInv, TypeOK
    <3> QED BY <1>1, <2>1, <2>3, <3>1, DepositsType
  <2>6. /\ Plus(credits, c.refunds) \in [Principals -> Nat]
        /\ \A p \in Principals : Plus(credits, c.refunds)[p] >= credits[p]
    BY <1>5, <2>4
  <2> DEFINE d == Plus(credits, c.refunds)
  <2> HIDE DEF d
  <2>7. d \in [Principals -> Nat] /\ \A p \in Principals : d[p] >= credits[p]
    BY <2>6 DEF d
  <2>8. credits' = [d EXCEPT ![calls[k].who] = @ + back]
    BY <2>3 DEF AddCredit, d
  <2> QED BY <1>1, <2>1, <2>5, <2>7, <2>8
<1>12. ASSUME NEW k \in CallIds, Execute(k) \/ Resume(k) PROVE Grow
  <2>1. CASE Execute(k)
    BY <1>2, <2>1 DEF Execute, LedgerPulls, LedgerPays, LedgerFunds, LedgerReturns, LedgerRefuses,
      LedgerQuotes, canisterVars, books
  <2>2. CASE WithdrawFailed(k)
    BY <1>4, <2>2 DEF WithdrawFailed, Replied
  <2>3. CASE \/ PaymentFailed(k) \/ WithdrawPaid(k) \/ ReplyUndecodable(k) \/ FeeRejected(k)
             \/ FundSelfQuoted(k) \/ FundSelfDone(k) \/ ConfigQuoted(k)
    BY <1>2, <2>3 DEF PaymentFailed, WithdrawPaid, ReplyUndecodable, FeeRejected, FundSelfQuoted,
      FundSelfDone, ConfigQuoted, canisterVars, books
  <2> QED BY <1>9, <1>10, <1>11, <1>12, <2>1, <2>2, <2>3 DEF Resume
<1>13. ASSUME NEW p \in Principals, CallsOf(p) \/ PaymentsOf(p) \/ Payout(p) PROVE Grow
  <2>1. CASE CallsOf(p)
    BY <1>2, <1>8, <2>1 DEF CallsOf, SetRecord, SetPrice, Reveal, books
  <2>2. CASE PaymentsOf(p)
    BY <1>2, <2>2 DEF PaymentsOf, Buy, Deposit, PlaceBid, canisterVars, books
  <2> QED BY <1>13, <2>1, <2>2 DEF Payout
<1>14. ASSUME NEW p \in Controllers, Administer(p) PROVE Grow
  BY <1>2, <1>14 DEF Administer, FundSelf, SetHarbergerConfig, SetAuctionConfig, canisterVars, books
<1>15. CASE Tick \/ LedgerChangesFee \/ UNCHANGED vars
  BY <1>2, <1>15 DEF Tick, LedgerChangesFee, vars, canisterVars, books
<1> QED BY <1>7, <1>12, <1>13, <1>14, <1>15 DEF Next

\* Whichever handler writes a name, what the holder had on it stays there or
\* is credited.
LEMMA ShareKept ==
  ASSUME TInv, TInv', TermsCurrent, UNCHANGED <<now, cfg>>, NEW n \in FlatNames, Writes(n),
         NEW p \in Principals, credits'[p] >= credits[p]
  PROVE  credits[p] + NamedOf(p)[n] <= credits'[p] + NamedOf(p)'[n]
<1>1. /\ cfg \in Config /\ cfg.rate \in Nat /\ now \in Nat
      /\ credits[p] \in Nat /\ credits'[p] \in Nat
      /\ NamedOf(p)[n] \in Nat /\ NamedOf(p)'[n] \in Nat
  BY WealthParts, WealthPartsNext DEF TInv, TypeOK, Config, WealthTyped
<1>2. NamedOf(p)'[n] = IF records'[n] # None /\ records'[n].owner = p
                       THEN Settle(cfg, records'[n].flat, now).balance ELSE 0
  BY DEF NamedOf, BalanceNow
<1>3. CASE records[n] = None \/ records[n].owner # p
  <2>1. NamedOf(p)[n] = 0
    BY <1>3 DEF NamedOf
  <2> QED BY <1>1, <2>1
<1>4. CASE records[n] # None /\ records[n].owner = p /\ records'[n] # records[n]
  <2>1. NamedOf(p)[n] = BalanceNow(n)
    BY <1>4 DEF NamedOf
  <2>2. records[n].flat \in Holding /\ HoldingSound(records[n].flat, now)
    BY <1>4, RecordOf
  <2>3. CASE Paid(n)
    BY <1>1, <1>4, <2>1, <2>3 DEF Paid
  <2>4. CASE records'[n] # None /\ records'[n].owner = records[n].owner /\ SavedBy(n)
    <3>1. Settle(cfg, records'[n].flat, now).balance = records'[n].flat.balance
      BY <1>1, <2>4, SavedIsThere DEF SavedBy
    <3>2. NamedOf(p)'[n] >= NamedOf(p)[n]
      BY <1>2, <1>4, <2>1, <2>4, <3>1 DEF SavedBy
    <3> QED BY <1>1, <3>2
  <2>5. CASE Bought(n)
    <3>1. records[n].flat.price \in Nat
      BY <2>2 DEF Holding
    <3> QED BY <1>1, <1>4, <2>1, <2>5, <3>1 DEF Bought
  <2>6. CASE Won(n)
    <3>1. IsFree(cfg, records[n].flat, now)
      BY <1>4, <2>6 DEF Won, Held
    <3>2. Taken(cfg, records[n].flat, now) = records[n].flat.balance
      BY <1>1, <2>2, <3>1, FreeIsSpent
    <3>3. BalanceNow(n) = records[n].flat.balance - Taken(cfg, records[n].flat, now)
      BY <2>2, SettledFields DEF BalanceNow
    <3>4. BalanceNow(n) = 0
      BY <2>2, <3>2, <3>3 DEF Holding
    <3> QED BY <1>1, <2>1, <3>4
  <2>7. Paid(n) \/ Kept(n) \/ Filled(n) \/ Bought(n) \/ Won(n)
    BY <1>4, WritesPay
  <2>8. Kept(n) \/ Filled(n) => records'[n] # None /\ records'[n].owner = records[n].owner /\ SavedBy(n)
    BY DEF Kept, Filled, Covered
  <2> QED BY <2>3, <2>4, <2>5, <2>6, <2>7, <2>8
<1>5. CASE records[n] # None /\ records[n].owner = p /\ records'[n] = records[n]
  <2>1. NamedOf(p)'[n] = NamedOf(p)[n]
    BY <1>2, <1>5 DEF NamedOf, BalanceNow
  <2> QED BY <1>1, <2>1
<1> QED BY <1>3, <1>4, <1>5

\* What somebody has grows if its credit and one name do, or what it has
\* under way and its credit, and the rest of what it has does not shrink.
LEMMA WealthGrows ==
  ASSUME TInv, TInv', NEW p \in Principals,
         [l \in Ledgers |-> accounts'[l][p]] = [l \in Ledgers |-> accounts[l][p]],
         \A n \in FlatNames : BiddenOf(p)[n] <= BiddenOf(p)'[n],
         credits[p] + Total(NamedOf(p)) + Total(UnderWay(p))
           <= credits'[p] + Total(NamedOf(p)') + Total(UnderWay(p)')
  PROVE  Wealth(p)' >= Wealth(p)
<1> DEFINE a == Total([l \in Ledgers |-> accounts[l][p]])
           c == credits[p]   n == Total(NamedOf(p))
           b == Total(BiddenOf(p))   u == Total(UnderWay(p))
           d == credits'[p]  m == Total(NamedOf(p)')
           e == Total(BiddenOf(p)')  v == Total(UnderWay(p)')
<1>1. Wealth(p) = a + c + n + b + u
  BY WealthIs
<1>2. Wealth(p)' = a + d + m + e + v
  BY DEF Wealth, NamedOf, BiddenOf, UnderWay
<1>3. /\ a \in Nat /\ c \in Nat /\ d \in Nat
      /\ NamedOf(p) \in [FlatNames -> Nat] /\ NamedOf(p)' \in [FlatNames -> Nat]
      /\ BiddenOf(p) \in [FlatNames -> Nat] /\ BiddenOf(p)' \in [FlatNames -> Nat]
      /\ UnderWay(p) \in [CallIds -> Nat] /\ UnderWay(p)' \in [CallIds -> Nat]
  BY WealthParts, WealthPartsNext DEF WealthTyped
<1>4. /\ n \in Nat /\ m \in Nat /\ u \in Nat /\ v \in Nat
      /\ b \in Nat /\ e \in Nat /\ b <= e
  BY <1>3, CoinsFinite, TotalGrows, MarketAssumption
<1>5. c + n + u <= d + m + v
  OBVIOUS
<1> HIDE DEF a, b, c, d, e, m, n, u, v
<1>6. a + c + n + b + u <= a + d + m + e + v
  BY <1>3, <1>4, <1>5
<1>7. a + c + n + b + u \in Nat /\ a + d + m + e + v \in Nat
  BY <1>3, <1>4
<1> QED BY <1>1, <1>2, <1>6, <1>7

\* What is taken out of a credit is under way.
LEMMA WithdrawKeepsWealth ==
  ASSUME TInv, TInv', NEW k \in CallIds, NEW q \in Principals, NEW x \in Payouts,
         Withdraw(k, q, x), NEW p \in Principals
  PROVE  credits[p] + Total(NamedOf(p)) + Total(UnderWay(p))
           <= credits'[p] + Total(NamedOf(p)') + Total(UnderWay(p)')
<1>1. /\ calls \in [CallIds -> Call \cup {None}] /\ credits \in [Principals -> Nat] /\ x \in Nat
      /\ calls[k] = None /\ UNCHANGED <<now, cfg, records>>
      /\ calls' = [calls EXCEPT ![k] = [Request("withdraw", "sent", q) EXCEPT !.amount = x]]
      /\ credits' = [credits EXCEPT ![q] = @ - x]
  BY MarketAssumption DEF TInv, TypeOK, Withdraw, Await
<1>2. NamedOf(p)' = NamedOf(p)
  BY <1>1 DEF NamedOf, BalanceNow
<1>3. /\ NamedOf(p) \in [FlatNames -> Nat] /\ credits[p] \in Nat /\ credits'[p] \in Nat
      /\ UnderWay(p) \in [CallIds -> Nat] /\ UnderWay(p)' \in [CallIds -> Nat]
  BY WealthParts, WealthPartsNext DEF WealthTyped
<1>4. UnderWay(p)[k] = 0 /\ UnderWay(p)'[k] = IF p = q THEN x ELSE 0
  <2> DEFINE r == [Request("withdraw", "sent", q) EXCEPT !.amount = x]
  <2>1. calls'[k] = r
    BY <1>1
  <2>2. r.op = "withdraw" /\ r.stage = "sent" /\ r.who = q /\ r.amount = x
    BY DEF Request
  <2>3. r # None
    <3>1. r \in Call
      BY <1>1, RequestType DEF TInv, TypeOK, Call
    <3> QED BY <3>1, StartAssumption
  <2> HIDE DEF r
  <2>4. InTransit(r) = x
    BY <2>2, <2>3 DEF InTransit, Payments
  <2> QED BY <1>1, <2>1, <2>2, <2>3, <2>4 DEF UnderWay
<1>5. \A j \in CallIds \ {k} : UnderWay(p)[j] <= UnderWay(p)'[j]
  <2> SUFFICES ASSUME NEW j \in CallIds \ {k} PROVE UnderWay(p)[j] <= UnderWay(p)'[j]
    OBVIOUS
  <2>1. calls'[j] = calls[j]
    BY <1>1
  <2>2. UnderWay(p)'[j] = UnderWay(p)[j]
    BY <2>1 DEF UnderWay, InTransit
  <2> QED BY <1>3, <2>2
<1> DEFINE n == Total(NamedOf(p))  u == Total(UnderWay(p))  v == Total(UnderWay(p)')
           y == UnderWay(p)[k]  z == UnderWay(p)'[k]
<1>6. u \in Nat /\ v \in Nat /\ u + z <= v + y
  BY <1>3, <1>5, TotalGrowsBut, MarketAssumption
<1>7. n \in Nat
  BY <1>3, CoinsFinite, MarketAssumption
<1>8. y = 0 /\ z = (IF p = q THEN x ELSE 0) /\ credits'[p] = credits[p] - (IF p = q THEN x ELSE 0)
  BY <1>1, <1>3, <1>4
<1> HIDE DEF n, u, v, y, z
<1>9. credits[p] + n + u <= credits'[p] + n + v
  BY <1>1, <1>3, <1>6, <1>7, <1>8
<1> QED BY <1>2, <1>9 DEF n, u, v

\* Settling takes only the tax that was due anyway.
LEMMA SettlingKeepsWorth ==
  ASSUME TInv, TInv', NEW k \in CallIds, ConfigQuoted(k), cfg' = cfg, NEW p \in Principals
  PROVE  \A n \in FlatNames : NamedOf(p)'[n] = NamedOf(p)[n]
<1> SUFFICES ASSUME NEW n \in FlatNames PROVE NamedOf(p)'[n] = NamedOf(p)[n]
  OBVIOUS
<1>1. now' = now /\ cfg \in Config /\ cfg.rate \in Nat /\ now \in Nat
  BY DEF ConfigQuoted, TInv, TypeOK, Config
<1>2. NamedOf(p)'[n] = IF records'[n] # None /\ records'[n].owner = p
                       THEN Settle(cfg, records'[n].flat, now).balance ELSE 0
  BY <1>1 DEF NamedOf, BalanceNow
<1>3. NamedOf(p)[n] = IF records[n] # None /\ records[n].owner = p
                      THEN Settle(cfg, records[n].flat, now).balance ELSE 0
  BY DEF NamedOf, BalanceNow
<1>4. CASE records'[n] = records[n]
  BY <1>2, <1>3, <1>4
<1>5. CASE /\ records[n] # None /\ records'[n] # None /\ records'[n].owner = records[n].owner
           /\ records'[n].flat = Settle(cfg, records[n].flat, now)
  <2> DEFINE h == records[n].flat
  <2>1. h \in Holding /\ HoldingSound(h, now)
    BY <1>5, RecordOf
  <2>2. Settle(cfg, Settle(cfg, h, now), now).balance = Settle(cfg, h, now).balance
    <3> HIDE DEF h
    <3> QED BY <1>1, <2>1, SettledTwice
  <2> QED BY <1>2, <1>3, <1>5, <2>2
<1> QED BY <1>4, <1>5, ConfigRecords

\* The price of an outcome is the second price of its winner.
LEMMA PriceIsSecond ==
  ASSUME NEW a \in Running, NEW o \in Outcomes(a), o.winner # None
  PROVE  SecondPrice(a, o.winner) = o.price
<1> DEFINE R == Rivals(a, o.winner)
<1>1. o.price \in R /\ \A x \in R : x <= o.price
  BY DEF Outcomes
<1>2. \A x \in R : x \in Nat
  BY DEF Rivals, Running, Revealed, Bidders, Bid
<1> HIDE DEF R
<1>3. \A x \in R : (\A y \in R : y <= x) => x = o.price
  BY <1>1, <1>2
<1>4. (CHOOSE x \in R : \A y \in R : y <= x) = o.price
  BY <1>1, <1>3
<1> QED BY <1>4 DEF SecondPrice, R

\* Whose auction closes has of its escrow what it may not lose: as a refund,
\* or as the balance it opens the name with.
LEMMA CloseCosts ==
  ASSUME TInv, TInv', ChecksHold, TermsCurrent, UNCHANGED <<now, cfg>>,
         NEW n \in FlatNames, Over(n), NEW cf, SameTerms(cf, cfg),
         NEW o \in Outcomes(auctions[n]),
         NEW c, c = Closing(cf, auctions[n], records[n], o), records'[n] = c.record,
         NEW p \in Principals
  PROVE  /\ CloseCost(n, p) \in Nat /\ c.refunds[p] \in Nat
         /\ BiddenOf(p)[n] + NamedOf(p)[n] <= c.refunds[p] + NamedOf(p)'[n] + CloseCost(n, p)
<1> DEFINE a == auctions[n]  r == records[n]  b == a.bids[p]
<1>1. /\ a \in Running /\ AuctionSound(a) /\ a # None
      /\ r \in Record \cup {None} /\ cfg \in Config /\ cfg.rate \in Nat /\ now \in Nat
      /\ records'[n] \in Record \cup {None}
  BY DEF Over, TInv, TypeOK, AuctionsSound, Config
<1>2. ~Held(cfg, r) /\ WinnerOf(cf, r, o) = o.winner
  BY <1>1, SameMinDeposit DEF TermsCurrent, FreeWhileAuctioned, WinnerOf
<1>3. NamedOf(p)[n] = 0
  <2>1. CASE r = None \/ r.owner # p
    BY <2>1 DEF NamedOf
  <2>2. CASE r # None /\ r.owner = p
    <3>1. r.flat \in Holding /\ HoldingSound(r.flat, now)
      BY <2>2, RecordOf
    <3>2. Taken(cfg, r.flat, now) = r.flat.balance
      BY <1>1, <1>2, <2>2, <3>1, FreeIsSpent DEF Held
    <3>3. BalanceNow(n) = r.flat.balance - Taken(cfg, r.flat, now)
      BY <3>1, SettledFields DEF BalanceNow
    <3>4. BalanceNow(n) = 0
      BY <3>1, <3>2, <3>3 DEF Holding
    <3> QED BY <2>2, <3>4 DEF NamedOf
  <2> QED BY <2>1, <2>2
<1>4. BiddenOf(p)[n] = (IF p \in Bidders(a) THEN b.deposit ELSE 0)
  BY <1>1 DEF BiddenOf, EscrowOf, Deposits, Bidders
<1>5. /\ p \in Bidders(a) => b \in Bid /\ b.deposit \in Nat /\ b.opening \in Nat
      /\ Revealed(a) \subseteq Bidders(a)
      /\ p \in Revealed(a) => BidCovered(b)
  BY <1>1 DEF Bidders, Running, Bid, Revealed, AuctionSound
<1>6. NamedOf(p)'[n] \in Nat
  BY WealthPartsNext DEF WealthTyped
<1>7. CASE p = o.winner
  <2>1. p # None /\ o.winner # None
    BY <1>7, StartAssumption
  <2>2. /\ p \in Revealed(a) /\ o.price \in Nat /\ b.revealed \in Nat /\ o.price <= b.revealed
    BY <1>1, <1>7, <2>1, OutcomeSound
  <2>3. b \in Bid /\ BidCovered(b) /\ b.deposit \in Nat /\ b.opening \in Nat /\ p \in Bidders(a)
    BY <1>5, <2>2
  <2> DEFINE x == b.opening
             h == NewHolding(b.revealed, x, now)
             s == [owner |-> p, target |-> b.alias,
                   previous |-> IF r = None THEN None ELSE r.target, changed |-> now, flat |-> h]
  <2>4. Least(b.opening, b.deposit - o.price) = x
    BY <2>2, <2>3 DEF BidCovered, Least
  <2>5. c.refunds = Refunds(a, o, o.price + x) /\ c.record = s
    BY <1>2, <1>7, <2>1, <2>4 DEF Closing
  <2>6. c.refunds[p] = b.deposit - (o.price + x)
    BY <1>7, <2>2, <2>5 DEF Refunds
  <2>7. h \in Holding /\ h.lapsed = None /\ h.settled = now /\ h.balance = x
    BY <1>1, <2>2, <2>3, NewHoldingSound DEF NewHolding
  <2> HIDE DEF h, x
  <2>8. s \in Record /\ s.owner = p /\ s.flat = h
    BY <1>1, <2>3, <2>7 DEF Record, BidCovered
  <2>9. records'[n] = s /\ s # None
    BY <2>5, <2>8, StartAssumption
  <2> HIDE DEF s
  <2>10. NamedOf(p)'[n] = x
    <3>1. Settle(cfg, h, now).balance = x
      BY <1>1, <2>7, SavedIsThere
    <3> QED BY <2>8, <2>9, <3>1 DEF NamedOf, BalanceNow
  <2>11. ~Holds(p, n) /\ Holds(p, n)'
    <3>1. ~IsFree(cfg, h, now)
      BY <1>1, <2>7, FreshIsHeld DEF ChecksHold
    <3> QED BY <1>2, <2>8, <2>9, <3>1 DEF Holds, Held
  <2>12. CloseCost(n, p) = o.price
    <3>1. SecondPrice(a, p) = o.price
      BY <1>1, <1>7, <2>1, PriceIsSecond
    <3>2. CloseCost(n, p) = SecondPrice(a, p)
      BY <2>2, <2>11 DEF CloseCost
    <3> QED BY <3>1, <3>2
  <2>13. b.deposit >= o.price + x /\ x \in Nat
    BY <2>2, <2>3 DEF BidCovered, x
  <2> QED BY <1>3, <1>4, <2>2, <2>3, <2>6, <2>10, <2>12, <2>13
<1>8. CASE p # o.winner
  <2>1. c.refunds[p] = IF p \in Revealed(a) THEN b.deposit ELSE 0
    <3>1. \E kept : c.refunds = Refunds(a, o, kept)
      BY DEF Closing
    <3>2. p \in Revealed(a) => b.deposit - 0 = b.deposit
      BY <1>5
    <3> QED BY <1>8, <3>1, <3>2 DEF Refunds
  <2>2. ~Holds(p, n)'
    <3>1. CASE o.winner = None
      <4>1. c.record = r
        BY <1>2, <3>1 DEF Closing
      <4> QED BY <1>2, <4>1 DEF Holds, Held
    <3>2. CASE o.winner # None
      <4>1. c.record.owner = o.winner
        BY <1>2, <3>2 DEF Closing
      <4> QED BY <1>8, <4>1 DEF Holds
    <3> QED BY <3>1, <3>2
  <2>3. CloseCost(n, p) = IF p \in Bidders(a) \ Revealed(a) THEN b.deposit ELSE 0
    BY <2>2 DEF CloseCost
  <2>4. CASE p \in Revealed(a)
    BY <1>3, <1>4, <1>5, <1>6, <2>1, <2>3, <2>4
  <2>5. CASE p \notin Revealed(a)
    BY <1>3, <1>4, <1>5, <1>6, <2>1, <2>3, <2>5
  <2> QED BY <2>4, <2>5
<1> QED BY <1>7, <1>8

\* An auction that is over and is none, or another, afterwards is closed.
LEMMA OverCloses ==
  ASSUME TInv, PhasesHold, NEW n \in FlatNames, Over(n),
         \/ auctions'[n] = None
         \/ \E cf, q, x : auctions'[n] = AddBid(OpenAuction(cf), q, x)
  PROVE  Closes(n)
<1>1. auctions[n] # None /\ Phase(auctions[n], now) = "closed"
  BY DEF Over
<1>2. /\ HasPhases(auctions[n]) /\ auctions[n].opened \in Nat /\ now \in Nat
      /\ auctions[n].commit_ns \in Nat /\ auctions[n].reveal_ns \in Nat
  BY <1>1 DEF PhasesHold, Running, TInv, TypeOK
<1>3. auctions[n].opened # now
  BY <1>1, <1>2 DEF Phase, RevealUntil, CommitUntil, HasPhases
<1>4. CASE \E cf, q, x : auctions'[n] = AddBid(OpenAuction(cf), q, x)
  <2>1. auctions'[n].opened = now
    BY <1>4 DEF AddBid, OpenAuction
  <2> QED BY <1>1, <1>3, <2>1 DEF Closes
<1> QED BY <1>1, <1>4 DEF Closes

\* What a step on one name moves between somebody's credit, its escrow on
\* that name, the name and a call of its own: it loses the cost at most.
LEMMA WealthMoves ==
  ASSUME TInv, TInv', UNCHANGED <<now, cfg, accounts>>, NEW n \in FlatNames, OthersKept(n),
         NEW p \in Principals, NEW extra \in Nat, NEW gain \in Nat, NEW cost \in Nat,
         Total(UnderWay(p)) <= Total(UnderWay(p)') + extra,
         credits'[p] + BiddenOf(p)'[n] = credits[p] + gain + extra,
         BiddenOf(p)[n] + NamedOf(p)[n] <= gain + NamedOf(p)'[n] + cost
  PROVE  Wealth(p)' + cost >= Wealth(p)
<1> DEFINE A == Total([l \in Ledgers |-> accounts[l][p]])
           c == credits[p]    d == credits'[p]
           N == Total(NamedOf(p))   M == Total(NamedOf(p)')
           B == Total(BiddenOf(p))  E == Total(BiddenOf(p)')
           u == Total(UnderWay(p))  v == Total(UnderWay(p)')
           x == NamedOf(p)[n]   y == NamedOf(p)'[n]
           e == BiddenOf(p)[n]  f == BiddenOf(p)'[n]
<1>1. /\ A \in Nat /\ c \in Nat /\ d \in Nat
      /\ NamedOf(p) \in [FlatNames -> Nat] /\ NamedOf(p)' \in [FlatNames -> Nat]
      /\ BiddenOf(p) \in [FlatNames -> Nat] /\ BiddenOf(p)' \in [FlatNames -> Nat]
      /\ UnderWay(p) \in [CallIds -> Nat] /\ UnderWay(p)' \in [CallIds -> Nat]
  BY WealthParts, WealthPartsNext DEF WealthTyped
<1>2. ASSUME NEW j \in FlatNames \ {n}
      PROVE  NamedOf(p)[j] <= NamedOf(p)'[j] /\ BiddenOf(p)[j] <= BiddenOf(p)'[j]
  <2>1. records'[j] = records[j] /\ auctions'[j] = auctions[j]
    BY DEF OthersKept
  <2>2. NamedOf(p)'[j] = NamedOf(p)[j]
    BY <2>1 DEF NamedOf, BalanceNow
  <2>3. BiddenOf(p)'[j] = BiddenOf(p)[j]
    BY <2>1 DEF BiddenOf, EscrowOf
  <2>4. NamedOf(p)[j] \in Nat /\ BiddenOf(p)[j] \in Nat
    BY <1>1
  <2> QED BY <2>2, <2>3, <2>4
<1>3. N \in Nat /\ M \in Nat /\ N + y <= M + x
  BY <1>1, <1>2, TotalGrowsBut, MarketAssumption
<1>4. B \in Nat /\ E \in Nat /\ B + f <= E + e
  BY <1>1, <1>2, TotalGrowsBut, MarketAssumption
<1>5. u \in Nat /\ v \in Nat /\ u <= v + extra
  BY <1>1, CoinsFinite, MarketAssumption
<1>6. x \in Nat /\ y \in Nat /\ e \in Nat /\ f \in Nat
  BY <1>1
<1>7. d + f = c + gain + extra /\ e + x <= gain + y + cost
  OBVIOUS
<1>8. Wealth(p) = A + c + N + B + u
  BY WealthIs
<1>9. Wealth(p)' = A + d + M + E + v
  BY DEF Wealth, NamedOf, BiddenOf, UnderWay
<1> HIDE DEF A, c, d, N, M, B, E, u, v, x, y, e, f
<1> QED BY <1>1, <1>3, <1>4, <1>5, <1>6, <1>7, <1>8, <1>9

\* A bid put down is the only change to what is in escrow.
LEMMA BidDeposits ==
  ASSUME NEW a \in Running, NEW q \in Principals, NEW x \in Nat
  PROVE  /\ AddBid(a, q, x) # None
         /\ \A p \in Principals :
              Deposits(AddBid(a, q, x))[p] = IF p = q THEN x ELSE Deposits(a)[p]
<1> DEFINE b == SealedBid(x)
           c == [a EXCEPT !.bids[q] = b]
<1>1. b \in Bid /\ b.deposit = x
  BY DEF SealedBid, Bid
<1> HIDE DEF b
<1>2. c \in Running /\ c.bids = [a.bids EXCEPT ![q] = b] /\ a.bids \in [Principals -> Bid \cup {None}]
  BY <1>1 DEF Running
<1> HIDE DEF c
<1>3. \A p \in Principals : Deposits(c)[p] = IF p = q THEN x ELSE Deposits(a)[p]
  BY <1>1, <1>2, StartAssumption DEF Deposits
<1> QED BY <1>2, <1>3, StartAssumption DEF AddBid, b, c

\* A close costs nobody more than its forfeit or its price.
LEMMA CloseKeepsWealth ==
  ASSUME TInv, TInv', ChecksHold, TermsCurrent, PhasesHold, NEW n \in FlatNames,
         CloseAuction(n), NEW p \in Principals
  PROVE  Closes(n) /\ Wealth(p)' + CloseCost(n, p) >= Wealth(p)
<1>1. /\ records \in [FlatNames -> Record \cup {None}]
      /\ auctions \in [FlatNames -> Running \cup {None}] /\ credits \in [Principals -> Nat]
  BY DEF TInv, TypeOK
<1>2. Over(n) /\ UNCHANGED <<now, cfg, accounts, calls>> /\ SameTerms(cfg, cfg)
  BY DEF CloseAuction, Over, ledgerVars, SameTerms
<1>3. PICK o \in Outcomes(auctions[n]) :
        LET c == Closing(cfg, auctions[n], records[n], o) IN
        credits' = Plus(credits, c.refunds) /\ records' = [records EXCEPT ![n] = c.record]
  BY DEF CloseAuction, Closings, CommitFlat
<1> DEFINE c == Closing(cfg, auctions[n], records[n], o)
           cost == CloseCost(n, p)
           gain == c.refunds[p]
<1>4. c = Closing(cfg, auctions[n], records[n], o)
  OBVIOUS
<1> HIDE DEF c
<1>5. credits' = Plus(credits, c.refunds) /\ records' = [records EXCEPT ![n] = c.record]
  BY <1>3, <1>4
<1>6. records'[n] = c.record
  BY <1>1, <1>5
<1>7. /\ auctions' = [auctions EXCEPT ![n] = None]
      /\ auctions'[n] = None
  BY <1>1 DEF CloseAuction
<1>8. OthersKept(n)
  BY <1>1, <1>5, <1>7 DEF OthersKept
<1>9. Closes(n)
  BY <1>2, <1>7, OverCloses
<1>10. /\ cost \in Nat /\ gain \in Nat
       /\ BiddenOf(p)[n] + NamedOf(p)[n] <= gain + NamedOf(p)'[n] + cost
  BY <1>2, <1>4, <1>6, CloseCosts
<1>11. BiddenOf(p)'[n] = 0
  BY <1>7 DEF BiddenOf, EscrowOf
<1>12. credits'[p] = credits[p] + gain /\ credits[p] \in Nat
  BY <1>1, <1>5 DEF Plus
<1>13. UnderWay(p)' = UnderWay(p) /\ UnderWay(p) \in [CallIds -> Nat]
  BY <1>2, WealthParts DEF UnderWay, InTransit, WealthTyped
<1>14. Total(UnderWay(p)) <= Total(UnderWay(p)') + 0
  BY <1>13, CoinsFinite, MarketAssumption
<1> HIDE DEF cost, gain
<1>15. credits'[p] + BiddenOf(p)'[n] = credits[p] + gain + 0
  BY <1>10, <1>11, <1>12
<1>16. 0 \in Nat
  OBVIOUS
<1>17. Wealth(p)' + cost >= Wealth(p)
  BY <1>2, <1>8, <1>10, <1>14, <1>15, <1>16, WealthMoves
<1> QED BY <1>9, <1>17 DEF cost

\* What a paid bid adds to somebody's credit and escrow is its refund of the
\* auction that ended, its escrow in the one that goes on, and its payment.
LEMMA BidMoves ==
  ASSUME TInv, NEW k \in CallIds, BidPaid(k), NEW p \in Principals, NEW n, n = calls[k].name,
         NEW c \in IF Over(n) THEN Closings(calls[k].cfg, n) ELSE {NoClosing(n)},
         c.refunds \in [Principals -> Nat],
         LET a == IF Over(n) THEN None ELSE auctions[n]
             ok == BidAllowed(calls[k].cfg, a, c.record, calls[k].amount)
             into == IF a = None THEN OpenAuction(calls[k].cfg) ELSE a
             back == IF ok THEN Deposits(into)[calls[k].who] ELSE calls[k].amount IN
         /\ credits' = AddCredit(Plus(credits, c.refunds), calls[k].who, back)
         /\ auctions' = [auctions EXCEPT ![n] =
              IF ok THEN AddBid(into, calls[k].who, calls[k].amount) ELSE a]
  PROVE  /\ credits'[p] + BiddenOf(p)'[n] =
              credits[p] + (IF Over(n) THEN c.refunds[p] ELSE BiddenOf(p)[n])
                         + (IF p = calls[k].who THEN calls[k].amount ELSE 0)
         /\ Over(n) => \/ auctions'[n] = None
                       \/ \E cf, q, x : auctions'[n] = AddBid(OpenAuction(cf), q, x)
<1> DEFINE call == calls[k]  who == call.who  amount == call.amount
           a == IF Over(n) THEN None ELSE auctions[n]
           ok == BidAllowed(call.cfg, a, c.record, amount)
           into == IF a = None THEN OpenAuction(call.cfg) ELSE a
           back == IF ok THEN Deposits(into)[who] ELSE amount
           x == IF a = None THEN 0 ELSE Deposits(a)[p]
<1>1. /\ n \in FlatNames /\ who \in Principals /\ amount \in Nat /\ call.cfg \in Config
      /\ auctions \in [FlatNames -> Running \cup {None}] /\ credits \in [Principals -> Nat]
      /\ now \in Nat /\ terms \in Terms
  BY PaymentName DEF Call, TInv, TypeOK
<1>2. /\ credits' = AddCredit(Plus(credits, c.refunds), who, back)
      /\ auctions'[n] = IF ok THEN AddBid(into, who, amount) ELSE a
  BY <1>1
<1>3. into \in Running /\ \A q \in Principals : a = None => Deposits(into)[q] = 0
  BY <1>1, OpenAuctionSound
<1>4. \A q \in Principals : Deposits(into)[q] \in Nat
  BY <1>3, DepositsType
<1>5. Deposits(into)[p] = x /\ x \in Nat
  BY <1>3, <1>4
<1>6. BiddenOf(p)[n] = (IF auctions[n] = None THEN 0 ELSE Deposits(auctions[n])[p])
  BY <1>1 DEF BiddenOf, EscrowOf
<1>7. BiddenOf(p)'[n] = (IF auctions'[n] = None THEN 0 ELSE Deposits(auctions'[n])[p])
  BY <1>1 DEF BiddenOf, EscrowOf
<1>8. (IF Over(n) THEN c.refunds[p] ELSE BiddenOf(p)[n]) = c.refunds[p] + x
  <2>1. CASE Over(n)
    BY <2>1
  <2>2. CASE ~Over(n)
    <3>1. c.refunds[p] = 0
      BY <2>2 DEF NoClosing
    <3>2. BiddenOf(p)[n] = x
      BY <1>6, <2>2
    <3> QED BY <1>5, <2>2, <3>1, <3>2
  <2> QED BY <2>1, <2>2
<1> DEFINE z == IF ok THEN (IF p = who THEN amount ELSE x) ELSE x
<1>9. BiddenOf(p)'[n] = z
  <2>1. CASE ok
    <3>1. AddBid(into, who, amount) # None
          /\ Deposits(AddBid(into, who, amount))[p] = IF p = who THEN amount ELSE x
      BY <1>1, <1>3, <1>5, BidDeposits
    <3> HIDE DEF ok, into, x, a
    <3> QED BY <1>2, <1>7, <2>1, <3>1
  <2>2. CASE ~ok
    BY <1>2, <1>7, <2>2
  <2> QED BY <2>1, <2>2
<1>10. back \in Nat
  <2> HIDE DEF ok, into
  <2> QED BY <1>1, <1>4
<1> HIDE DEF back
<1>11. credits'[p] = credits[p] + c.refunds[p] + IF p = who THEN back ELSE 0
  <2> DEFINE g == Plus(credits, c.refunds)
  <2>1. g \in [Principals -> Nat] /\ g[p] = credits[p] + c.refunds[p]
    BY <1>1 DEF Plus
  <2> HIDE DEF g
  <2>2. credits' = [g EXCEPT ![who] = @ + back]
    BY <1>2 DEF AddCredit, g
  <2>3. credits[p] \in Nat /\ c.refunds[p] \in Nat
    BY <1>1
  <2> HIDE DEF who
  <2>4. CASE p = who
    BY <1>10, <2>1, <2>2, <2>3, <2>4
  <2>5. CASE p # who
    <3>1. credits'[p] = g[p]
      BY <2>1, <2>2, <2>5
    <3>2. (IF p = who THEN back ELSE 0) = 0
      BY <2>5
    <3> QED BY <2>1, <2>3, <3>1, <3>2
  <2> QED BY <2>4, <2>5
<1>12. (IF p = who THEN back ELSE 0) + z = x + IF p = who THEN amount ELSE 0
  <2>1. CASE ok
    <3>1. back = Deposits(into)[who]
      BY <2>1 DEF back
    <3> HIDE DEF ok, into, x
    <3> QED BY <1>1, <1>5, <2>1, <3>1
  <2>2. CASE ~ok
    <3>1. back = amount
      BY <2>2 DEF back
    <3> HIDE DEF ok, x
    <3> QED BY <1>1, <1>5, <2>2, <3>1
  <2> QED BY <2>1, <2>2
<1>13. credits'[p] + BiddenOf(p)'[n] =
         credits[p] + (IF Over(n) THEN c.refunds[p] ELSE BiddenOf(p)[n])
                    + (IF p = who THEN amount ELSE 0)
  <2>1. credits[p] \in Nat /\ c.refunds[p] \in Nat /\ z \in Nat
    BY <1>1, <1>5
  <2> DEFINE g == IF Over(n) THEN c.refunds[p] ELSE BiddenOf(p)[n]
             y == IF p = who THEN back ELSE 0
             w == IF p = who THEN amount ELSE 0
  <2>2. g = c.refunds[p] + x /\ y \in Nat /\ w \in Nat /\ y + z = x + w
        /\ credits'[p] = credits[p] + c.refunds[p] + y
    BY <1>1, <1>8, <1>10, <1>11, <1>12
  <2> HIDE DEF g, y, w, z, x
  <2>3. credits'[p] + BiddenOf(p)'[n] = credits[p] + g + w
    BY <1>5, <1>9, <2>1, <2>2
  <2> QED BY <2>3 DEF g, w
<1>14. Over(n) => \/ auctions'[n] = None
                  \/ \E cf, q, y : auctions'[n] = AddBid(OpenAuction(cf), q, y)
  <2>1. CASE Over(n) /\ ok
    <3>1. into = OpenAuction(call.cfg)
      BY <2>1
    <3>2. auctions'[n] = AddBid(into, who, amount)
      BY <1>2, <2>1
    <3> QED BY <3>1, <3>2
  <2>2. CASE Over(n) /\ ~ok
    BY <1>2, <2>2
  <2> QED BY <2>1, <2>2
<1> QED BY <1>13, <1>14

\* A paid bid costs nobody anything, but by the close it begins with.
LEMMA BidKeepsWealth ==
  ASSUME TInv, TInv', ChecksHold, TermsCurrent, PhasesHold, NEW k \in CallIds, BidPaid(k),
         NEW p \in Principals, NEW n \in FlatNames, n = calls[k].name
  PROVE  \/ Wealth(p)' >= Wealth(p)
         \/ Closes(n) /\ Wealth(p)' + CloseCost(n, p) >= Wealth(p)
<1> DEFINE cf == calls[k].cfg
           extra == IF p = calls[k].who THEN calls[k].amount ELSE 0
<1>1. /\ calls[k] \in Call /\ calls[k] # None /\ calls[k].op = "bid" /\ calls[k].stage = "moved"
      /\ cf \in Config /\ calls[k].amount \in Nat
      /\ records \in [FlatNames -> Record \cup {None}] /\ calls \in [CallIds -> Call \cup {None}]
      /\ auctions \in [FlatNames -> Running \cup {None}] /\ now \in Nat
  BY PaymentName DEF BidPaid, Replied, Call, TInv, TypeOK
<1>2. SameTerms(cf, cfg)
  BY <1>1 DEF TermsCurrent, CallCurrent
<1>3. UNCHANGED <<now, cfg, accounts>>
  BY DEF BidPaid, ledgerVars
<1>4. PICK c \in IF Over(n) THEN Closings(cf, n) ELSE {NoClosing(n)} :
        LET a == IF Over(n) THEN None ELSE auctions[n]
            ok == BidAllowed(cf, a, c.record, calls[k].amount)
            into == IF a = None THEN OpenAuction(cf) ELSE a
            back == IF ok THEN Deposits(into)[calls[k].who] ELSE calls[k].amount IN
        /\ credits' = AddCredit(Plus(credits, c.refunds), calls[k].who, back)
        /\ records' = [records EXCEPT ![n] = c.record]
        /\ auctions' = [auctions EXCEPT ![n] =
             IF ok THEN AddBid(into, calls[k].who, calls[k].amount) ELSE a]
  BY DEF BidPaid, CommitFlat, Over
<1>5. c.refunds \in [Principals -> Nat]
  <2>1. CASE Over(n)
    <3>1. PICK o \in Outcomes(auctions[n]) : c = Closing(cf, auctions[n], records[n], o)
      BY <2>1, <1>4 DEF Closings
    <3>2. /\ auctions[n] \in Running /\ AuctionSound(auctions[n])
          /\ records[n] \in Record \cup {None}
          /\ records[n] # None => HoldingSound(records[n].flat, now)
      BY <1>1, <2>1 DEF TInv, AuctionsSound, HoldingsSound, Over
    <3> QED BY <1>1, <3>1, <3>2, ClosingSound
  <2>2. CASE ~Over(n)
    BY <1>4, <2>2 DEF NoClosing
  <2> QED BY <2>1, <2>2
<1>6. /\ credits'[p] + BiddenOf(p)'[n] =
           credits[p] + (IF Over(n) THEN c.refunds[p] ELSE BiddenOf(p)[n]) + extra
      /\ Over(n) => \/ auctions'[n] = None
                    \/ \E cg, q, x : auctions'[n] = AddBid(OpenAuction(cg), q, x)
  BY <1>4, <1>5, BidMoves
<1>7. records'[n] = c.record /\ OthersKept(n)
  BY <1>1, <1>4 DEF OthersKept
<1>8. extra \in Nat /\ Total(UnderWay(p)) <= Total(UnderWay(p)') + extra
  <2>1. UnderWay(p) \in [CallIds -> Nat] /\ UnderWay(p)' \in [CallIds -> Nat]
    BY WealthParts, WealthPartsNext DEF WealthTyped
  <2>2. calls' = [calls EXCEPT ![k] = None]
    BY DEF BidPaid, Finish
  <2>3. UnderWay(p)[k] = extra /\ extra \in Nat
    BY <1>1 DEF UnderWay, InTransit, Payments
  <2>4. UnderWay(p)'[k] = 0
    BY <1>1, <2>2 DEF UnderWay
  <2>5. ASSUME NEW j \in CallIds \ {k} PROVE UnderWay(p)[j] <= UnderWay(p)'[j]
    <3>1. calls'[j] = calls[j]
      BY <1>1, <2>2
    <3>2. UnderWay(p)'[j] = UnderWay(p)[j]
      BY <3>1 DEF UnderWay, InTransit
    <3> QED BY <2>1, <3>2
  <2>6. /\ Total(UnderWay(p)) \in Nat /\ Total(UnderWay(p)') \in Nat
        /\ Total(UnderWay(p)) + UnderWay(p)'[k] <= Total(UnderWay(p)') + UnderWay(p)[k]
    BY <2>1, <2>5, TotalGrowsBut, MarketAssumption
  <2> HIDE DEF extra
  <2> QED BY <2>3, <2>4, <2>6
<1> HIDE DEF extra, cf
<1>9. CASE Over(n)
  <2> DEFINE gain == c.refunds[p]
             cost == CloseCost(n, p)
  <2>1. PICK o \in Outcomes(auctions[n]) : c = Closing(cf, auctions[n], records[n], o)
    BY <1>4, <1>9 DEF Closings
  <2>2. /\ cost \in Nat /\ gain \in Nat
        /\ BiddenOf(p)[n] + NamedOf(p)[n] <= gain + NamedOf(p)'[n] + cost
    BY <1>2, <1>3, <1>7, <1>9, <2>1, CloseCosts
  <2>3. credits'[p] + BiddenOf(p)'[n] = credits[p] + gain + extra
    BY <1>6, <1>9
  <2> HIDE DEF gain, cost
  <2>4. Wealth(p)' + cost >= Wealth(p)
    BY <1>3, <1>7, <1>8, <2>2, <2>3, WealthMoves
  <2>5. Closes(n)
    BY <1>6, <1>9, OverCloses
  <2> QED BY <2>4, <2>5 DEF cost
<1>10. CASE ~Over(n)
  <2> DEFINE gain == BiddenOf(p)[n]
  <2>1. records'[n] = records[n]
    BY <1>4, <1>7, <1>10 DEF NoClosing
  <2>2. NamedOf(p)'[n] = NamedOf(p)[n]
    BY <1>3, <2>1 DEF NamedOf, BalanceNow
  <2>3. gain \in Nat /\ NamedOf(p)[n] \in Nat
    BY WealthParts DEF WealthTyped
  <2>4. BiddenOf(p)[n] + NamedOf(p)[n] <= gain + NamedOf(p)'[n] + 0
    BY <2>2, <2>3
  <2>5. credits'[p] + BiddenOf(p)'[n] = credits[p] + gain + extra
    BY <1>6, <1>10
  <2> HIDE DEF gain
  <2>6. 0 \in Nat
    OBVIOUS
  <2>7. Wealth(p)' + 0 >= Wealth(p)
    BY <1>3, <1>7, <1>8, <2>3, <2>4, <2>5, <2>6, WealthMoves
  <2>8. Wealth(p)' \in Nat
    <3>1. \A q \in Principals : WealthTyped(q)'
      BY WealthPartsNext
    <3>2. /\ Total([l \in Ledgers |-> accounts'[l][p]]) \in Nat /\ credits'[p] \in Nat
          /\ Total(NamedOf(p)') \in Nat /\ Total(BiddenOf(p)') \in Nat
          /\ Total(UnderWay(p)') \in Nat
      BY <3>1, CoinsFinite, MarketAssumption DEF WealthTyped
    <3>3. Wealth(p)' = Total([l \in Ledgers |-> accounts'[l][p]]) + credits'[p]
                       + Total(NamedOf(p)') + Total(BiddenOf(p)') + Total(UnderWay(p)')
      BY DEF Wealth, NamedOf, BiddenOf, UnderWay
    <3> QED BY <3>2, <3>3
  <2> QED BY <2>7, <2>8
<1> QED BY <1>9, <1>10

\* Any other step, for somebody whose own calls rest.
LEMMA RestKeepsWealth ==
  ASSUME TInv, TermsCurrent, [Next]_vars, UNCHANGED <<now, cfg>>,
         NEW p \in Principals, ~OwnBusiness(p),
         ~\E k \in CallIds : BidPaid(k), ~\E n \in FlatNames : CloseAuction(n)
  PROVE  Wealth(p)' >= Wealth(p)
<1>1. TInv'
  BY StepTyped
<1> DEFINE n == Total(NamedOf(p))   m == Total(NamedOf(p)')
           u == Total(UnderWay(p))  v == Total(UnderWay(p)')
           c == credits[p]          d == credits'[p]
<1>2. /\ c \in Nat /\ d \in Nat
      /\ NamedOf(p) \in [FlatNames -> Nat] /\ NamedOf(p)' \in [FlatNames -> Nat]
      /\ UnderWay(p) \in [CallIds -> Nat] /\ UnderWay(p)' \in [CallIds -> Nat]
  BY <1>1, WealthParts, WealthPartsNext DEF WealthTyped
<1>3. u \in Nat /\ v \in Nat /\ u <= v
  <2>1. \A k \in CallIds : UnderWay(p)[k] <= UnderWay(p)'[k]
    BY <1>1, CallsOfOthers
  <2> QED BY <1>2, <2>1, TotalGrows, MarketAssumption
<1>4. n \in Nat /\ m \in Nat
  BY <1>2, CoinsFinite, MarketAssumption
<1>5. SUFFICES c + n + u <= d + m + v
  <2>1. \A i \in FlatNames : BiddenOf(p)[i] <= BiddenOf(p)'[i]
    BY <1>1, EscrowStays
  <2>2. [l \in Ledgers |-> accounts'[l][p]] = [l \in Ledgers |-> accounts[l][p]]
    BY AccountsOfOthers
  <2> QED BY <1>1, <1>5, <2>1, <2>2, WealthGrows
<1>6. CASE \E k \in CallIds, q \in Principals, x \in Payouts : Withdraw(k, q, x)
  BY <1>1, <1>6, WithdrawKeepsWealth
<1>7. CASE ~\E k \in CallIds, q \in Principals, x \in Payouts : Withdraw(k, q, x)
  <2>1. c <= d
    BY <1>1, <1>2, <1>7, CreditsGrow
  <2>2. ASSUME \A i \in FlatNames : NamedOf(p)'[i] = NamedOf(p)[i] PROVE m = n
    <3>1. NamedOf(p)' = NamedOf(p)
      BY <1>2, <2>2
    <3> QED BY <3>1
  <2>3. CASE UNCHANGED <<now, cfg, records, auctions>>
    <3>1. \A i \in FlatNames : NamedOf(p)'[i] = NamedOf(p)[i]
      BY <2>3 DEF NamedOf, BalanceNow
    <3>2. m = n
      BY <2>2, <3>1
    <3> HIDE DEF c, d, m, n, u, v
    <3> QED BY <1>2, <1>3, <1>4, <2>1, <3>2
  <2>4. ASSUME NEW k \in CallIds, ConfigQuoted(k) PROVE c + n + u <= d + m + v
    <3>1. m = n
      BY <1>1, <2>2, <2>4, SettlingKeepsWorth
    <3> HIDE DEF c, d, m, n, u, v
    <3> QED BY <1>2, <1>3, <1>4, <2>1, <3>1
  <2>5. ASSUME NEW i \in FlatNames, Writes(i), OthersKept(i) PROVE c + n + u <= d + m + v
    <3> DEFINE x == NamedOf(p)[i]  y == NamedOf(p)'[i]
    <3>1. x \in Nat /\ y \in Nat
      BY <1>2
    <3>2. c + x <= d + y
      BY <1>1, <1>2, <2>1, <2>5, ShareKept
    <3>3. \A j \in FlatNames \ {i} : NamedOf(p)[j] <= NamedOf(p)'[j]
      <4> SUFFICES ASSUME NEW j \in FlatNames \ {i} PROVE NamedOf(p)[j] <= NamedOf(p)'[j]
        OBVIOUS
      <4>1. records'[j] = records[j]
        BY <2>5 DEF OthersKept
      <4>2. NamedOf(p)'[j] = NamedOf(p)[j]
        BY <4>1 DEF NamedOf, BalanceNow
      <4>3. NamedOf(p)[j] \in Nat
        BY <1>2
      <4> QED BY <4>2, <4>3
    <3>4. n + y <= m + x
      BY <1>2, <3>3, TotalGrowsBut, MarketAssumption
    <3> HIDE DEF c, d, m, n, u, v, x, y
    <3> QED BY <1>2, <1>3, <1>4, <3>1, <3>2, <3>4
  <2>6. ~Tick
    BY DEF Tick, TInv, TypeOK
  <2> QED BY <2>3, <2>4, <2>5, <2>6, OneName
<1> QED BY <1>6, <1>7

\* The step, for everybody with no business of its own in it.
LEMMA StepKeepsWealth ==
  ASSUME TInv, ChecksHold, TermsCurrent, PhasesHold, [Next]_vars, UNCHANGED <<now, cfg>>,
         NEW p \in Principals, ~OwnBusiness(p)
  PROVE  \/ Wealth(p)' >= Wealth(p)
         \/ \E n \in FlatNames : Closes(n) /\ Wealth(p)' + CloseCost(n, p) >= Wealth(p)
<1>1. TInv'
  BY StepTyped
<1>2. ASSUME NEW k \in CallIds, BidPaid(k)
      PROVE  \/ Wealth(p)' >= Wealth(p)
             \/ \E n \in FlatNames : Closes(n) /\ Wealth(p)' + CloseCost(n, p) >= Wealth(p)
  <2>1. calls[k].name \in FlatNames
    BY <1>2, PaymentName
  <2> QED BY <1>1, <1>2, <2>1, BidKeepsWealth
<1>3. ASSUME NEW n \in FlatNames, CloseAuction(n)
      PROVE  Closes(n) /\ Wealth(p)' + CloseCost(n, p) >= Wealth(p)
  BY <1>1, <1>3, CloseKeepsWealth
<1> QED BY <1>2, <1>3, RestKeepsWealth

\* Whatever others do, in whatever order their payments arrive: at a given
\* moment and under a given config nobody loses a cycle by it, and nobody by
\* a bid of its own. Settlement, sales, top-ups by others, refunds of late
\* payments and of bids leave everybody with at least what it had. Who bid in
\* an auction that is closed has its whole deposit afterwards, as credit and
\* as the balance of the name, less what it never revealed or, when the name
\* comes to it, less the second price.
THEOREM NothingLostUninvited == Spec /\ [][QuietChange]_vars => NoUninvitedLoss
<1>1. Init => PhasesHold
  BY TermsAssumption DEF Init, PhasesHold, HasPhases
<1>2. TInv /\ PhasesHold /\ [Next]_vars => PhasesHold'
  BY PhasesStay
<1>3. Spec => []PhasesHold
  BY <1>1, <1>2, TypedAndSound, PTL DEF Spec
<1>4. TInv /\ ChecksHold /\ TermsCurrent /\ PhasesHold /\ [Next]_vars =>
        (now' = now /\ cfg' = cfg =>
           \A p \in Principals :
             \/ OwnBusiness(p)
             \/ Wealth(p)' >= Wealth(p)
             \/ \E n \in FlatNames :
                  Closes(n) /\ Wealth(p)' + CloseCost(n, p) >= Wealth(p))
  BY StepKeepsWealth
<1> QED BY <1>3, <1>4, ConfigsChecked, TypedAndSound, TermsOfTheDay, PTL
        DEF Spec, NoUninvitedLoss
=============================================================================
