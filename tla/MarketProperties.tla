-------------------------- MODULE MarketProperties --------------------------
(***************************************************************************)
(* What the market promises its users and its operator (README.md of the   *)
(* repository, sections on flat names and the treasury; comments of        *)
(* lib.rs, auction.rs and harberger.rs).                                   *)
(***************************************************************************)
EXTENDS Market

-----------------------------------------------------------------------------
(* The books *)

\* Cycles that are in the canister's account and in no book yet, or taken
\* out of a book and still in the account, because call c is suspended.
InTransit(c) ==
  IF c = None THEN 0
  ELSE CASE c.op \in Payments /\ c.stage = "moved" -> c.amount
         [] c.op \in {"withdraw", "fund_self"} /\ c.stage \in {"sent", "refused"} -> c.amount
         [] c.stage = "charged" -> c.amount - c.cfg.fee
         [] OTHER -> 0

Transit == Total([k \in CallIds |-> InTransit(calls[k])])

Account == accounts[cfg.ledger][Canister]

Booked == Liabilities + collected - withdrawn + Transit

\* "The counters match the account to the cycle" (README.md): at any
\* moment, whatever calls are suspended, the ledger account holds the
\* prepaid balances, credits and escrow, the tax not withdrawn and what is
\* in transit; it holds more only by amounts noted as unreconciled, and
\* never less.
BooksBalance == Booked <= Account /\ Account <= Booked + unreconciled

\* Prepaid balances, credits and escrow "it must never touch" (lib.rs,
\* Treasury): the account always covers them.
Solvent == Liabilities <= Account

\* A ledger change strands nothing: no other ledger holds cycles of ours.
NothingStranded == \A l \in Ledgers \ {cfg.ledger} : accounts[l][Canister] = 0

\* close(): "the opening balance always fits; min is only a guard", so a
\* winner's refund, price and opening balance come out of the deposit and
\* the winner has terms to close with.
OpeningBalanceFits ==
  \A n \in FlatNames : auctions[n] # None =>
    \A o \in Outcomes(auctions[n]) : o.winner # None =>
      LET b == auctions[n].bids[o.winner] IN
        b.alias # None /\ b.deposit >= o.price + b.opening

-----------------------------------------------------------------------------
(* What a step may do to a name and to its holder *)

BalanceNow(n) == Settle(cfg, records[n].flat, now).balance

LosesName(n) ==
  records[n] # None /\ (records'[n] = None \/ records'[n].owner # records[n].owner)

\* A holder loses a name only by running out of balance and grace, or paid
\* in full: the unspent balance, and when it is taken over the price the
\* holder itself had set by then.
HolderIsCompensated ==
  [][\A n \in FlatNames : LosesName(n) =>
       LET r == records[n]  p == r.owner
           due == BalanceNow(n) + IF records'[n] = None THEN 0 ELSE r.flat.price IN
         IsFree(cfg, r.flat, now) \/ credits'[p] >= credits[p] + due]_vars

\* "A name is never held on credit" (README.md): whoever takes a name over,
\* and whoever brings one back from its grace period, leaves at least one
\* grace period of tax on it.
NeverOnCredit ==
  [][\A n \in FlatNames :
       LET r == records[n]  s == records'[n] IN
         /\ s # None
         /\ r = None \/ s.owner # r.owner
              \/ (LapsedAt(cfg, r.flat, now) # None /\ LapsedAt(cfg, s.flat, now') = None)
         => s.flat.balance >= MinDeposit(cfg, s.flat.price)]_vars

\* Everything p has: at the ledgers, in the canister and on the way between
\* them, names settled to now.
Wealth(p) ==
  Total([l \in Ledgers |-> accounts[l][p]]) + credits[p]
  + Total([n \in FlatNames |-> IF records[n] # None /\ records[n].owner = p
                               THEN BalanceNow(n) ELSE 0])
  + Total([n \in FlatNames |-> EscrowOf(auctions)[<<n, p>>]])
  + Total([k \in CallIds |->
             IF calls[k] # None /\ calls[k].who = p /\ calls[k].op # "fund_self"
             THEN InTransit(calls[k]) ELSE 0])

\* A call of p's own went a step on, unless it is a bid that was paid for and
\* is now placed or credited back.
OwnBusiness(p) ==
  \E k \in CallIds :
    /\ calls[k] # None /\ calls[k].who = p /\ calls'[k] # calls[k]
    /\ Replied(k, "bid", "moved") => unreconciled' # unreconciled

\* n's auction is closed, be it that a new one is opened at once.
Closes(n) ==
  /\ auctions[n] # None
  /\ auctions'[n] = None \/ auctions'[n].opened # auctions[n].opened

\* Second price: the highest of what w's bid had to beat.
SecondPrice(a, w) == CHOOSE x \in Rivals(a, w) : \A y \in Rivals(a, w) : y <= x

\* What p may lose when n's auction closes: a deposit it never revealed, or
\* the second price if the name comes to it, and otherwise nothing.
CloseCost(n, p) ==
  LET a == auctions[n] IN
  CASE p \in Bidders(a) \ Revealed(a)                         -> a.bids[p].deposit
    [] p \in Revealed(a) /\ ~Holds(p, n) /\ Holds(p, n)' -> SecondPrice(a, p)
    [] OTHER                                               -> 0

\* Whatever others do, in whatever order their payments arrive: at a given
\* moment and under a given config nobody loses a cycle by it. Who bid in an
\* auction that is closed, by whomever, has its whole deposit afterwards as
\* credit and opening balance, less its forfeit or the price of the name.
NoUninvitedLoss ==
  [][now' = now /\ cfg' = cfg =>
       \A p \in Principals :
         \/ OwnBusiness(p)
         \/ Wealth(p)' >= Wealth(p)
         \/ \E n \in FlatNames :
              Closes(n) /\ Wealth(p)' + CloseCost(n, p) >= Wealth(p)]_vars

\* "Nothing else gives a free name a holder while its auction runs"
\* (auction.rs, close): under a config that stays, no payment that arrives
\* late, and no call, gives an auctioned name a holder.
FreeWhileAuctioned ==
  \A n \in FlatNames : auctions[n] # None => ~Held(cfg, records[n])

-----------------------------------------------------------------------------
(* Progress *)

Ended(n, o) ==
  auctions[n] # None /\ auctions[n].opened = o /\ Phase(auctions[n], now) = "closed"

\* No auction gets stuck: once it has ended, its escrow is released.
EndedAuctionsClose ==
  \A n \in FlatNames, o \in 0..MaxTime : Ended(n, o) ~> ~Ended(n, o)

-----------------------------------------------------------------------------
(* The inductive invariant behind the theorems of Market_proofs            *)

\* A holding is settled in the past, and one that lapsed has nothing left
\* that could be lost when it is settled or sold again.
HoldingSound(h, time) == h.settled <= time /\ (h.lapsed # None => h.balance = 0)

HoldingsSound ==
  \A n \in FlatNames : records[n] # None => HoldingSound(records[n].flat, now)

\* What reveal checked still holds of every bid it accepted.
BidCovered(b) == b.alias \in FlatTargets /\ b.deposit >= b.revealed + b.opening

AuctionSound(a) == \A p \in Revealed(a) : BidCovered(a.bids[p])

AuctionsSound == \A n \in FlatNames : auctions[n] # None => AuctionSound(auctions[n])

\* What the checks before the await leave behind for the resumed handler.
CallSound(c) ==
  /\ c.op \in Payments =>
       c.name \in FlatNames /\ c.stage \in {"sent", "moved", "refused"}
  /\ c.op = "buy" =>
       c.alias \in FlatTargets /\ c.before \in Snapshots /\ c.before.price <= c.amount
  /\ c.op = "withdraw" =>
       c.amount > c.cfg.fee /\ c.stage \in {"sent", "moved", "refused"}
  /\ c.op = "fund_self" => c.amount > c.cfg.fee
  /\ c.op = "configure" => c.next \in Config /\ c.stage \in {"asked", "quoted"}
  /\ c.op # "configure" => c.cfg.ledger = cfg.ledger

CallsSound == \A k \in CallIds : calls[k] # None => CallSound(calls[k])

\* Withdrawals noted that their handlers may still undo.
Noted(c) ==
  IF c # None /\ c.op = "fund_self" /\ c.stage \in {"sent", "refused", "charged"}
  THEN c.amount ELSE 0

UndoIsExact == Total([k \in CallIds |-> Noted(calls[k])]) <= withdrawn

TInv == TypeOK /\ HoldingsSound /\ AuctionsSound /\ CallsSound

BInv == UndoIsExact /\ NothingStranded /\ BooksBalance

IInv == TInv /\ BInv

-----------------------------------------------------------------------------
(* What the theorems of Books_proofs and Terms_proofs assume of the        *)
(* ledger and of the operator, and the invariants they then need. Without  *)
(* them the runs fee_change, overdraw and stale_rate refute the properties.*)

\* The ledger charges a withdrawal on its way the fee it had quoted.
FeeKept ==
  \A k \in CallIds : Replied(k, "fund_self", "sent") =>
    fee[calls[k].cfg.ledger] = calls[k].cfg.fee

\* Controllers fund the canister one call at a time.
OneFundSelf ==
  \A j, k \in CallIds :
    /\ calls[j] # None /\ calls[j].op = "fund_self"
    /\ calls[k] # None /\ calls[k].op = "fund_self"
    => j = k

\* The tax covers what was withdrawn of it, and what was checked to be.
TreasuryCovers ==
  /\ withdrawn <= collected
  /\ \A k \in CallIds : \A stage \in {"asked", "quoted"} :
       Replied(k, "fund_self", stage) => withdrawn + calls[k].amount <= collected

SameTerms(c, d) == c.rate = d.rate /\ c.grace = d.grace

\* The tax is changed only while no payment is under way and no auction open.
QuietChange ==
  ~SameTerms(cfg', cfg) =>
    /\ \A k \in CallIds : calls[k] # None => calls[k].op = "configure"
    /\ \A n \in FlatNames : auctions[n] = None

\* Then a resumed handler and a winner's bid are under the terms of the day,
CallCurrent(cf, c) ==
  /\ c.op # "configure" => SameTerms(c.cfg, cf)
  /\ c.op = "buy" =>
       /\ c.before.owner # c.who
       /\ c.before.status.state # "free"
       /\ c.amount - c.before.price >= MinDeposit(cf, c.price)

AuctionCurrent(cf, a) ==
  \A p \in Revealed(a) : a.bids[p].opening = MinDeposit(cf, a.bids[p].revealed)

\* and nothing but a close gives an auctioned name a holder.
TermsCurrent ==
  /\ \A k \in CallIds : calls[k] # None => CallCurrent(cfg, calls[k])
  /\ \A n \in FlatNames : auctions[n] # None => AuctionCurrent(cfg, auctions[n])
  /\ FreeWhileAuctioned
=============================================================================
