------------------------------- MODULE Market -------------------------------
(***************************************************************************)
(* The market in flat names: holdings under the Harberger tax, auctions of *)
(* free names, credits, the treasury, and the calls to the cycles ledger   *)
(* each payment awaits (canisters/names/src/lib.rs, auction.rs,            *)
(* harberger.rs, store.rs). A handler without an await is one action. A    *)
(* handler with an await is one action up to it and one per way it may     *)
(* resume; between the two every other action may run. A resumed handler   *)
(* still uses the config it read at its start.                             *)
(*                                                                         *)
(* Abstracted: text records and the created/updated stamps of a record,    *)
(* the tag index and the certified tree, grammar checks on names.          *)
(***************************************************************************)
EXTENDS Ledger

CONSTANTS
  FlatNames,        \* flat names
  Controllers,      \* principals that administer the canister
  CallIds,          \* open call contexts: bounds the calls in flight
  InitialConfig,    \* the stored harberger::Config at the start
  Configs,          \* configs set_harberger_config may be called with
  InitialTerms,     \* the stored auction::Config at the start
  AuctionTerms,     \* configs set_auction_config may be called with
  Opening,          \* names already held at the start, fully accounted for
  Prices,           \* prices and bids a caller may name
  Amounts,          \* deposits a caller may offer
  Payouts,          \* amounts a caller may ask to be paid out
  MaxRate,          \* the highest rate Params::check admits
  MaxTime,          \* bound on time
  MaxUnreconciled,  \* bound on the sum of undecodable replies
  FundSelfAtOnce    \* bound on fund_self calls in flight

VARIABLES
  now,            \* ic_cdk::api::time()
  cfg,            \* META "harberger"
  terms,          \* META "auction"
  records,        \* RECORDS, flat names only
  auctions,       \* AUCTIONS
  credits,        \* CREDITS
  collected,      \* META "tax_collected"
  withdrawn,      \* META "tax_withdrawn"
  proceeds,       \* META "auction_proceeds"
  unreconciled,   \* META "unreconciled"
  calls           \* handlers suspended at an await

ASSUME MarketAssumption ==
  /\ IsFiniteSet(FlatNames) /\ IsFiniteSet(Principals) /\ IsFiniteSet(CallIds)
  /\ IsFiniteSet(Ledgers)
  /\ Canister \notin Principals
  /\ Controllers \subseteq Principals
  /\ Fees \cup Prices \cup Amounts \cup Payouts \subseteq Nat
  /\ Wallet \in Nat /\ MaxTime \in Nat /\ MaxRate \in Nat

books == <<credits, collected, withdrawn, proceeds, unreconciled>>
canisterVars == <<cfg, terms, records, auctions, books>>
vars == <<now, cfg, terms, records, auctions, credits, collected, withdrawn,
          proceeds, unreconciled, calls, accounts, fee>>

-----------------------------------------------------------------------------
(* Data *)

\* fee is the pinned one; open is flat_names_open.
Config == [ledger : Ledgers, rate : Nat, min_price : Nat, grace : Nat,
           fee : Nat, open : BOOLEAN]

\* auction::Config: what an auction opens with.
Terms == [commit_ns : Nat, reveal_ns : Nat, reserve : Nat]

Record == [owner : Principals, target : FlatTargets, previous : FlatTargets \cup {None},
           changed : Nat, flat : Holding]

\* auction::Running.
Running == [opened : Nat, commit_ns : Nat, reveal_ns : Nat, reserve : Nat,
            bids : [Principals -> Bid \cup {None}]]

\* Mutant of SnapshotOf: the price is not compared after the payment.
SnapshotWithoutPrice(cf, r) ==
  [owner |-> r.owner, price |-> 0, changed |-> r.changed,
   status |-> Status(cf, r.flat, now)]

\* Mutant of SnapshotOf: it is not compared whether the name is free by now.
SnapshotWithoutStatus(cf, r) ==
  [owner |-> r.owner, price |-> r.flat.price, changed |-> r.changed,
   status |-> [state |-> "active", until |-> None]]

\* lib.rs Snapshot.
SnapshotOf(cf, r) ==
  [owner |-> r.owner, price |-> r.flat.price, changed |-> r.changed,
   status |-> Status(cf, r.flat, now)]

Snapshots ==
  [owner : Principals, price : Nat, changed : Nat,
   status : [state : {"active", "grace", "free"}, until : Nat \cup {None}]]

\* A suspended handler: who called it, the locals it resumes with, and
\* where its request to the ledger is. "asked" and "quoted": an icrc1_fee
\* query out, and answered with quote. "sent", "moved", "refused" and
\* "charged": a transfer out, executed, failed, and failed keeping the fee.
Call == [op    : {"buy", "deposit", "bid", "withdraw", "fund_self", "configure"},
         stage : {"asked", "quoted", "sent", "moved", "refused", "charged"},
         who : Principals, cfg : Config, name : FlatNames \cup {None},
         alias : FlatTargets \cup {None}, price : Nat, amount : Nat,
         before : Snapshots \cup {None}, quote : Nat, next : Config \cup {None}]

Request(op, stage, who) ==
  [op |-> op, stage |-> stage, who |-> who, cfg |-> cfg, name |-> None,
   alias |-> None, price |-> 0, amount |-> 0, before |-> None, quote |-> 0,
   next |-> None]

\* What the program starts from, and the values Rust's types keep apart.
ASSUME StartAssumption ==
  /\ InitialConfig \in Config /\ Configs \subseteq Config
  /\ InitialTerms \in Terms /\ AuctionTerms \subseteq Terms
  /\ Opening \in [FlatNames -> Record \cup {None}]
  /\ \A n \in FlatNames : Opening[n] # None =>
       LET h == Opening[n].flat IN h.settled = 0 /\ (h.lapsed # None => h.balance = 0)
  /\ None \notin Nat \cup Principals \cup FlatNames \cup FlatTargets
  /\ None \notin Record /\ None \notin Running /\ None \notin Bid /\ None \notin Call

Payments == {"buy", "deposit", "bid"}

TypeOK ==
  /\ LedgerTypeOK
  /\ now \in Nat
  /\ cfg \in Config
  /\ terms \in Terms
  /\ records \in [FlatNames -> Record \cup {None}]
  /\ auctions \in [FlatNames -> Running \cup {None}]
  /\ credits \in [Principals -> Nat]
  /\ collected \in Nat
  /\ withdrawn \in Nat
  /\ proceeds \in Nat
  /\ unreconciled \in Nat
  /\ calls \in [CallIds -> Call \cup {None}]

-----------------------------------------------------------------------------
(* Sums *)

Balances == [n \in FlatNames |-> IF records[n] = None THEN 0 ELSE records[n].flat.balance]

EscrowOf(as) ==
  [x \in FlatNames \X Principals |-> IF as[x[1]] = None THEN 0 ELSE Deposits(as[x[1]])[x[2]]]

Prepaid == Total(Balances)
CreditsOutstanding == Total(credits)
Escrowed == Total(EscrowOf(auctions))

\* What the canister owes its users.
Liabilities == Prepaid + CreditsOutstanding + Escrowed

AddCredit(cr, p, amount) == [cr EXCEPT ![p] = @ + amount]

\* InFlight::count: the calls that hold a guard. set_harberger_config has none.
InFlight == Cardinality({k \in CallIds : calls[k] # None /\ calls[k].op # "configure"})

\* Mutant of NoFundsHeld: suspended calls are forgotten.
NoFundsInBooks ==
  /\ \A n \in FlatNames : records[n] = None
  /\ CreditsOutstanding = 0 /\ Escrowed = 0
  /\ collected <= withdrawn /\ unreconciled = 0

NoFundsHeld ==
  /\ \A n \in FlatNames : records[n] = None
  /\ CreditsOutstanding = 0
  /\ Escrowed = 0
  /\ collected <= withdrawn
  /\ unreconciled = 0
  /\ InFlight = 0

-----------------------------------------------------------------------------
(* Checks and effects the handlers share *)

\* auction.rs holder(): a lapsed record is held by no one.
Held(cf, r) == r # None /\ ~IsFree(cf, r.flat, now)

\* Mutant of Holds: a lapsed name is still its last holder's.
HoldsRecorded(p, n) == records[n] # None /\ records[n].owner = p

\* authorize_flat.
Holds(p, n) == Held(cfg, records[n]) /\ records[n].owner = p

Reserve(cf) == Greatest(terms.reserve, cf.min_price)

\* check_bid on auction a and record r of one name.
BidAllowed(cf, a, r, deposit) ==
  \/ /\ a # None /\ Phase(a, now) = "commit"
     /\ deposit >= a.reserve
  \/ /\ a # None /\ Phase(a, now) = "closed" /\ Winners(a) = {}
     /\ deposit >= Reserve(cf)
  \/ /\ a = None /\ ~Held(cf, r)
     /\ deposit >= Reserve(cf)


\* A name somebody holds voids the win.
WinnerOf(cf, r, o) == IF Held(cf, r) THEN None ELSE o.winner

\* Mutant of Refunds: with a winner, every revealed deposit goes back to it.
RefundsToWinner(a, o, kept) ==
  [p \in Principals |->
     CASE p = o.winner -> Total([q \in Revealed(a) |-> a.bids[q].deposit]) - kept
       [] o.winner = None /\ p \in Revealed(a) -> a.bids[p].deposit
       [] OTHER -> 0]

\* Mutant of Refunds: a win that is void is charged its price all the same.
RefundsOfVoidWin(a, o, kept) ==
  [p \in Principals |->
     IF p \notin Revealed(a) THEN 0
     ELSE a.bids[p].deposit - IF p = o.winner THEN Greatest(kept, o.price) ELSE 0]

\* A revealed deposit goes back to its bidder, the winner's less what is kept
\* of it; of a void win nothing is kept.
Refunds(a, o, kept) ==
  [p \in Principals |->
     IF p \notin Revealed(a) THEN 0
     ELSE a.bids[p].deposit - IF p = o.winner THEN kept ELSE 0]

\* Everything auction.rs close() works out before it writes: who gets what
\* when auction a, over a name whose record is r, closes with outcome o.
Closing(cf, a, r, o) ==
  LET winner  == WinnerOf(cf, r, o)
      price   == IF winner = None THEN 0 ELSE o.price
      opening == IF winner = None THEN 0
                 ELSE Least(a.bids[winner].opening, a.bids[winner].deposit - price)
      income  == price + Total(Forfeits(a))
      holding == NewHolding(a.bids[winner].revealed, opening, now)
  IN [refunds |-> Refunds(a, o, price + opening),
      income  |-> income,
      tax     |-> IF winner = None \/ r = None THEN 0 ELSE Taken(cf, r.flat, now),
      record  |-> IF winner = None THEN r
                  ELSE [owner    |-> winner,
                        target   |-> a.bids[winner].alias,
                        previous |-> IF r = None THEN None ELSE r.target,
                        changed  |-> now,
                        flat     |-> holding]]

\* The auction a bid opens when none is running.
OpenAuction(cf) ==
  [opened |-> now, commit_ns |-> terms.commit_ns, reveal_ns |-> terms.reveal_ns,
   reserve |-> Reserve(cf), bids |-> NoBids]

-----------------------------------------------------------------------------
(* Handlers without an await *)

\* Write n's record, settled to now, and count the tax that took.
CommitFlat(n, r, tax) ==
  /\ records' = [records EXCEPT ![n] = r]
  /\ collected' = collected + tax

SetPrice(p, n, price) ==
  /\ price >= cfg.min_price
  /\ Holds(p, n)
  /\ LET h == Settle(cfg, records[n].flat, now) IN
       CommitFlat(n, [records[n] EXCEPT !.flat = [h EXCEPT !.price = price]],
                  Taken(cfg, records[n].flat, now))
  /\ UNCHANGED <<cfg, terms, auctions, credits, withdrawn, proceeds, unreconciled,
                 calls, now, ledgerVars>>

\* set_record on a flat name; with the target it has, set_text.
SetRecord(p, n, t) ==
  /\ Holds(p, n)
  /\ CommitFlat(n, [records[n] EXCEPT !.target = t, !.flat = Settle(cfg, @, now)],
                Taken(cfg, records[n].flat, now))
  /\ UNCHANGED <<cfg, terms, auctions, credits, withdrawn, proceeds, unreconciled,
                 calls, now, ledgerVars>>

\* delete_record on a flat name: the unspent balance is credited.
DeleteRecord(p, n) ==
  /\ Holds(p, n)
  /\ LET h == records[n].flat IN
       /\ collected' = collected + Taken(cfg, h, now)
       /\ credits' = AddCredit(credits, p, Settle(cfg, h, now).balance)
  /\ records' = [records EXCEPT ![n] = None]
  /\ UNCHANGED <<cfg, terms, auctions, withdrawn, proceeds, unreconciled,
                 calls, now, ledgerVars>>

\* Mutant of Covers: the opening balance is not asked for.
CoversBid(b, amount, need) == b.deposit >= amount

\* The deposit must cover the bid and the tax it opens with.
Covers(b, amount, need) == b.deposit >= amount + need

Reveal(p, n, amount, t) ==
  /\ auctions[n] # None
  /\ LET a == auctions[n]  need == MinDeposit(cfg, amount) IN
       /\ Phase(a, now) = "reveal"
       /\ p \in Bidders(a)
       /\ a.bids[p].revealed \in {None, amount}
       /\ Covers(a.bids[p], amount, need)
       /\ auctions' = [auctions EXCEPT ![n].bids[p] =
                         [@ EXCEPT !.revealed = amount, !.alias = t, !.opening = need]]
  /\ UNCHANGED <<cfg, terms, records, books, calls, now, ledgerVars>>

\* Mutant of Closings: an auction without a winner has none.
ClosingsWithWinner(cf, n) ==
  {Closing(cf, auctions[n], records[n], o) : o \in {o \in Outcomes(auctions[n]) : o.winner # None}}

Closings(cf, n) ==
  {Closing(cf, auctions[n], records[n], o) : o \in Outcomes(auctions[n])}

\* Credit the refunds, hand over the name, count the price, the forfeits
\* and the tax.
CloseAuction(n) ==
  /\ auctions[n] # None /\ Phase(auctions[n], now) = "closed"
  /\ \E c \in Closings(cfg, n) :
       /\ credits' = Plus(credits, c.refunds)
       /\ CommitFlat(n, c.record, c.tax + c.income)
       /\ proceeds' = proceeds + c.income
  /\ auctions' = [auctions EXCEPT ![n] = None]
  /\ UNCHANGED <<cfg, terms, withdrawn, unreconciled, calls, now, ledgerVars>>

\* The terms at the start are the default ones or were set.
ASSUME TermsAssumption == InitialTerms.commit_ns > 0 /\ InitialTerms.reveal_ns > 0

SetAuctionConfig(p, t) ==
  /\ p \in Controllers
  /\ t.commit_ns > 0 /\ t.reveal_ns > 0
  /\ terms' = t
  /\ UNCHANGED <<cfg, records, auctions, books, calls, now, ledgerVars>>

-----------------------------------------------------------------------------
(* Handlers up to their await *)

Await(k, call) ==
  /\ calls[k] = None
  /\ calls' = [calls EXCEPT ![k] = call]

\* max_price, the limit the buyer sets, is at least the price it sees; the
\* price cannot then exceed it later without the snapshots differing.
Buy(k, p, n, t, price, deposit) ==
  /\ price >= cfg.min_price
  /\ deposit >= MinDeposit(cfg, price)
  /\ Held(cfg, records[n])
  /\ records[n].owner # p
  /\ Await(k, [Request("buy", "sent", p) EXCEPT
                 !.name = n, !.alias = t, !.price = price,
                 !.amount = records[n].flat.price + deposit,
                 !.before = SnapshotOf(cfg, records[n])])
  /\ UNCHANGED <<canisterVars, now, ledgerVars>>

Deposit(k, p, n, amount) ==
  /\ amount > 0
  /\ Held(cfg, records[n])
  /\ CanTopUp(cfg, records[n].flat, amount, now)
  /\ Await(k, [Request("deposit", "sent", p) EXCEPT
                 !.name = n, !.amount = amount, !.before = SnapshotOf(cfg, records[n])])
  /\ UNCHANGED <<canisterVars, now, ledgerVars>>

\* bid: the market flag is asked here and only here.
PlaceBid(k, p, n, deposit) ==
  /\ cfg.open
  /\ BidAllowed(cfg, auctions[n], records[n], deposit)
  /\ Await(k, [Request("bid", "sent", p) EXCEPT !.name = n, !.amount = deposit])
  /\ UNCHANGED <<canisterVars, now, ledgerVars>>

\* The credit is taken before the ledger is asked to pay it.
Withdraw(k, p, amount) ==
  /\ amount > cfg.fee
  /\ credits[p] >= amount
  /\ credits' = [credits EXCEPT ![p] = @ - amount]
  /\ Await(k, [Request("withdraw", "sent", p) EXCEPT !.amount = amount])
  /\ UNCHANGED <<cfg, terms, records, auctions, collected, withdrawn, proceeds,
                 unreconciled, now, ledgerVars>>

Available == collected - withdrawn

\* The amount is checked against the tax available before the fee query.
FundSelf(k, p, amount) ==
  /\ p \in Controllers
  /\ amount > cfg.fee
  /\ amount <= Available
  /\ Cardinality({j \in CallIds : calls[j] # None /\ calls[j].op = "fund_self"})
       < FundSelfAtOnce
  /\ Await(k, [Request("fund_self", "asked", p) EXCEPT !.amount = amount])
  /\ UNCHANGED <<canisterVars, now, ledgerVars>>

SetHarbergerConfig(k, p, c) ==
  /\ p \in Controllers
  /\ c.ledger # cfg.ledger => NoFundsHeld
  /\ Await(k, [Request("configure", "asked", p) EXCEPT !.next = c])
  /\ UNCHANGED <<canisterVars, now, ledgerVars>>

-----------------------------------------------------------------------------
(* The ledger executes a request *)

Stage(k, stage) == calls' = [calls EXCEPT ![k].stage = stage]

Sent(k) == calls[k] # None /\ calls[k].stage = "sent"

LedgerPulls(k) ==
  /\ Sent(k) /\ calls[k].op \in Payments
  /\ TransferFrom(calls[k].cfg.ledger, calls[k].who, calls[k].amount, calls[k].cfg.fee)
  /\ Stage(k, "moved")
  /\ UNCHANGED <<canisterVars, now>>

LedgerPays(k) ==
  /\ Sent(k) /\ calls[k].op = "withdraw"
  /\ Transfer(calls[k].cfg.ledger, calls[k].who,
              calls[k].amount - calls[k].cfg.fee, calls[k].cfg.fee)
  /\ Stage(k, "moved")
  /\ UNCHANGED <<canisterVars, now>>

LedgerFunds(k) ==
  /\ Sent(k) /\ calls[k].op = "fund_self"
  /\ WithdrawCycles(calls[k].cfg.ledger, calls[k].amount - calls[k].cfg.fee)
  /\ Stage(k, "moved")
  /\ UNCHANGED <<canisterVars, now>>

LedgerReturns(k) ==
  /\ Sent(k) /\ calls[k].op = "fund_self"
  /\ ChargeFee(calls[k].cfg.ledger, calls[k].amount - calls[k].cfg.fee)
  /\ Stage(k, "charged")
  /\ UNCHANGED <<canisterVars, now>>

\* Too little allowance or balance, another fee, or the ledger is down.
LedgerRefuses(k) ==
  /\ Sent(k)
  /\ Stage(k, "refused")
  /\ UNCHANGED <<canisterVars, now, ledgerVars>>

\* icrc1_fee, asked of the ledger the config names or is to name.
LedgerQuotes(k) ==
  /\ calls[k] # None /\ calls[k].stage = "asked"
  /\ LET l == IF calls[k].op = "configure" THEN calls[k].next.ledger
                                           ELSE calls[k].cfg.ledger IN
       calls' = [calls EXCEPT ![k].stage = "quoted", ![k].quote = fee[l]]
  /\ UNCHANGED <<canisterVars, now, ledgerVars>>
-----------------------------------------------------------------------------
(* Handlers resumed with the ledger's reply *)

Finish(k) == calls' = [calls EXCEPT ![k] = None]

Replied(k, op, stage) == calls[k] # None /\ calls[k].op = op /\ calls[k].stage = stage

\* Mutant of CreditBack: a payment that came too late is kept.
CreditBackLost(k) == UNCHANGED credits

CreditBack(k) == credits' = AddCredit(credits, calls[k].who, calls[k].amount)

\* The name is as it was when the caller was told what to pay.
Unchanged(k) ==
  LET r == records[calls[k].name] IN
    r # None /\ SnapshotOf(calls[k].cfg, r) = calls[k].before

BuyPaid(k) ==
  LET call == calls[k]  r == records[call.name]  h == Settle(call.cfg, r.flat, now) IN
  /\ Replied(k, "buy", "moved")
  /\ Finish(k)
  /\ \/ /\ Unchanged(k)
        /\ credits' = AddCredit(credits, r.owner, call.before.price + h.balance)
        /\ CommitFlat(call.name,
                      [owner |-> call.who, target |-> call.alias, previous |-> r.target,
                       changed |-> now,
                       flat |-> NewHolding(call.price, call.amount - call.before.price, now)],
                      Taken(call.cfg, r.flat, now))
     \/ /\ ~Unchanged(k)
        /\ CreditBack(k)
        /\ UNCHANGED <<records, collected>>
  /\ UNCHANGED <<cfg, terms, auctions, withdrawn, proceeds, unreconciled, now, ledgerVars>>

DepositPaid(k) ==
  LET call == calls[k]
      r    == records[call.name]
      ok   == Unchanged(k) /\ CanTopUp(call.cfg, r.flat, call.amount, now) IN
  /\ Replied(k, "deposit", "moved")
  /\ Finish(k)
  /\ \/ /\ ok
        /\ CommitFlat(call.name,
                      [r EXCEPT !.flat = TopUp(call.cfg, @, call.amount, now)],
                      Taken(call.cfg, r.flat, now))
        /\ UNCHANGED credits
     \/ /\ ~ok
        /\ CreditBack(k)
        /\ UNCHANGED <<records, collected>>
  /\ UNCHANGED <<cfg, terms, auctions, withdrawn, proceeds, unreconciled, now, ledgerVars>>

\* An auction that goes on is closed with nothing to settle.
NoClosing(n) ==
  [refunds |-> [p \in Principals |-> 0], income |-> 0, tax |-> 0, record |-> records[n]]

\* place_bid: an ended auction is closed first, then the bid is checked
\* again. A bid that is refused now is credited back, but the close stands.
BidPaid(k) ==
  LET call  == calls[k]
      n     == call.name
      ended == auctions[n] # None /\ Phase(auctions[n], now) = "closed"
      a     == IF ended THEN None ELSE auctions[n] IN
  /\ Replied(k, "bid", "moved")
  /\ Finish(k)
  /\ \E c \in IF ended THEN Closings(call.cfg, n) ELSE {NoClosing(n)} :
       LET ok   == BidAllowed(call.cfg, a, c.record, call.amount)
           into == IF a = None THEN OpenAuction(call.cfg) ELSE a
           back == IF ok THEN Deposits(into)[call.who] ELSE call.amount IN
         /\ credits' = AddCredit(Plus(credits, c.refunds), call.who, back)
         /\ CommitFlat(n, c.record, c.tax + c.income)
         /\ proceeds' = proceeds + c.income
         /\ auctions' = [auctions EXCEPT ![n] =
              IF ok THEN AddBid(into, call.who, call.amount) ELSE a]
  /\ UNCHANGED <<cfg, terms, withdrawn, unreconciled, now, ledgerVars>>

\* Nothing moved: the method fails and nothing else happens.
PaymentFailed(k) ==
  /\ \E op \in Payments : Replied(k, op, "refused")
  /\ Finish(k)
  /\ UNCHANGED <<canisterVars, now, ledgerVars>>

WithdrawPaid(k) ==
  /\ Replied(k, "withdraw", "moved")
  /\ Finish(k)
  /\ UNCHANGED <<canisterVars, now, ledgerVars>>

WithdrawFailed(k) ==
  /\ Replied(k, "withdraw", "refused")
  /\ Finish(k)
  /\ CreditBack(k)
  /\ UNCHANGED <<cfg, terms, records, auctions, collected, withdrawn, proceeds,
                 unreconciled, now, ledgerVars>>

\* Mutant of ReplyUndecodable: taken for a failure, and credited back.
ReplyTakenForFailure(k) ==
  /\ \E op \in Payments \cup {"withdraw", "fund_self"},
        stage \in {"moved", "refused", "charged"} : Replied(k, op, stage)
  /\ Finish(k)
  /\ unreconciled' = unreconciled + calls[k].amount
  /\ unreconciled' <= MaxUnreconciled
  /\ CreditBack(k)
  /\ UNCHANGED <<cfg, terms, records, auctions, collected, withdrawn, proceeds,
                 now, ledgerVars>>

\* Failure::Undecodable: the ledger may have executed the transfer or not.
ReplyUndecodable(k) ==
  /\ \E op \in Payments \cup {"withdraw", "fund_self"},
        stage \in {"moved", "refused", "charged"} : Replied(k, op, stage)
  /\ Finish(k)
  /\ unreconciled' = unreconciled + calls[k].amount
  /\ unreconciled' <= MaxUnreconciled
  /\ UNCHANGED <<cfg, terms, records, auctions, credits, collected, withdrawn,
                 proceeds, now, ledgerVars>>

\* The fee query failed, or answered another fee than the pinned one.
FeeRejected(k) ==
  /\ \/ calls[k] # None /\ calls[k].stage = "asked"
     \/ Replied(k, "fund_self", "quoted") /\ calls[k].quote # calls[k].cfg.fee
  /\ Finish(k)
  /\ UNCHANGED <<canisterVars, now, ledgerVars>>

\* The withdrawal is noted before the ledger is asked to make it.
FundSelfQuoted(k) ==
  /\ Replied(k, "fund_self", "quoted") /\ calls[k].quote = calls[k].cfg.fee
  /\ withdrawn' = withdrawn + calls[k].amount
  /\ Stage(k, "sent")
  /\ UNCHANGED <<cfg, terms, records, auctions, credits, collected, proceeds,
                 unreconciled, now, ledgerVars>>

\* Mutant of UndoWithdrawn: the refused withdrawal stays noted.
UndoForgotten(amount) == UNCHANGED withdrawn

UndoWithdrawn(amount) == withdrawn' = Greatest(withdrawn - amount, 0)

FundSelfDone(k) ==
  /\ Finish(k)
  /\ \/ Replied(k, "fund_self", "moved") /\ UNCHANGED withdrawn
     \/ Replied(k, "fund_self", "refused") /\ UndoWithdrawn(calls[k].amount)
     \/ Replied(k, "fund_self", "charged")
        /\ UndoWithdrawn(calls[k].amount - calls[k].cfg.fee)
  /\ UNCHANGED <<cfg, terms, records, auctions, credits, collected, proceeds,
                 unreconciled, now, ledgerVars>>

\* Mutant of SettledRecords: the names are not settled first.
RecordsUnsettled(c) == records

\* settle_all: every flat name is settled under the config c.
SettledRecords(c) ==
  [n \in FlatNames |-> IF records[n] = None THEN None
                       ELSE [records[n] EXCEPT !.flat = Settle(c, @, now)]]

TaxOf(c) ==
  Total([n \in FlatNames |-> IF records[n] = None THEN 0 ELSE Taken(c, records[n].flat, now)])

\* Params::check.
Valid(c) == c.rate <= MaxRate /\ c.grace > 0

\* The config at the start is the default one or was set.
ASSUME ConfigAssumption == Valid(InitialConfig)

\* The ledger may still not change under held funds. Names are settled
\* under the old rate before the new config is checked and stored.
ConfigQuoted(k) ==
  LET next == calls[k].next
      may  == next.ledger # cfg.ledger => NoFundsHeld IN
  /\ Replied(k, "configure", "quoted")
  /\ Finish(k)
  /\ IF may /\ next.rate # cfg.rate
     THEN records' = SettledRecords(cfg) /\ collected' = collected + TaxOf(cfg)
     ELSE UNCHANGED <<records, collected>>
  /\ cfg' = IF may /\ Valid(next) THEN [next EXCEPT !.fee = calls[k].quote] ELSE cfg
  /\ UNCHANGED <<terms, auctions, credits, withdrawn, proceeds, unreconciled,
                 now, ledgerVars>>

-----------------------------------------------------------------------------
(* Specification *)

Tick ==
  /\ now < MaxTime
  /\ now' = now + 1
  /\ UNCHANGED <<canisterVars, calls, ledgerVars>>

LedgerChangesFee ==
  /\ \E l \in Ledgers : ChangeFee(l)
  /\ UNCHANGED <<canisterVars, calls, now>>

Execute(k) ==
  \/ LedgerPulls(k) \/ LedgerPays(k) \/ LedgerFunds(k) \/ LedgerReturns(k)
  \/ LedgerRefuses(k) \/ LedgerQuotes(k)

Resume(k) ==
  \/ BuyPaid(k) \/ DepositPaid(k) \/ BidPaid(k) \/ PaymentFailed(k)
  \/ WithdrawPaid(k) \/ WithdrawFailed(k) \/ ReplyUndecodable(k)
  \/ FeeRejected(k) \/ FundSelfQuoted(k) \/ FundSelfDone(k) \/ ConfigQuoted(k)

CallsOf(p) ==
  \E n \in FlatNames :
    \/ DeleteRecord(p, n)
    \/ \E t \in FlatTargets : SetRecord(p, n, t)
    \/ \E x \in Prices : SetPrice(p, n, x)
    \/ \E x \in Prices, t \in FlatTargets : Reveal(p, n, x, t)

PaymentsOf(p) ==
  \E k \in CallIds, n \in FlatNames, x \in Amounts :
    \/ \E t \in FlatTargets, price \in Prices : Buy(k, p, n, t, price, x)
    \/ Deposit(k, p, n, x)
    \/ PlaceBid(k, p, n, x)

Payout(p) ==
  \E k \in CallIds, x \in Payouts : Withdraw(k, p, x)

Administer(p) ==
  \/ \E k \in CallIds, x \in Payouts : FundSelf(k, p, x)
  \/ \E k \in CallIds, c \in Configs : SetHarbergerConfig(k, p, c)
  \/ \E t \in AuctionTerms : SetAuctionConfig(p, t)

Init ==
  /\ now = 0
  /\ cfg = InitialConfig
  /\ terms = InitialTerms
  /\ records = Opening
  /\ auctions = [n \in FlatNames |-> None]
  /\ credits = [p \in Principals |-> 0]
  /\ collected = 0 /\ withdrawn = 0 /\ proceeds = 0 /\ unreconciled = 0
  /\ calls = [k \in CallIds |-> None]
  /\ accounts = [l \in Ledgers |-> [h \in Holders |->
                   CASE h # Canister           -> Wallet
                     [] l = InitialConfig.ledger -> Prepaid
                     [] OTHER                  -> 0]]
  /\ fee = [l \in Ledgers |-> InitialConfig.fee]

Next ==
  \/ Tick
  \/ LedgerChangesFee
  \/ \E k \in CallIds : Execute(k) \/ Resume(k)
  \/ \E p \in Principals : CallsOf(p) \/ PaymentsOf(p) \/ Payout(p)
  \/ \E p \in Controllers : Administer(p)
  \/ \E n \in FlatNames : CloseAuction(n)

Spec == Init /\ [][Next]_vars

\* close_auction has no timer: somebody with a refund or a name to gain is
\* assumed to call it. Nothing else is fair.
FairSpec == Spec /\ \A n \in FlatNames : WF_vars(CloseAuction(n))
=============================================================================
