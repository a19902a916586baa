------------------------------ MODULE Harberger ------------------------------
(***************************************************************************)
(* The Harberger tax on flat names: ic_auction::harberger as               *)
(* canisters/names/src/harberger.rs wraps and uses it. The crate is not in *)
(* the repository, so its arithmetic is taken from how the canister and    *)
(* its tests use it. Time is counted in ticks and the yearly rate in       *)
(* cycles per unit of price and tick, so that no tax is ever a fraction of *)
(* a cycle: the crate's rounding is not modelled.                          *)
(***************************************************************************)
EXTENDS Cycles

CONSTANT None   \* Rust's Option::None

\* The three numbers of a Config the tax depends on (Config::params).
Params == [rate : Nat, min_price : Nat, grace : Nat]

\* What is stored of a holding (store.rs re-exports the crate's struct).
Holding == [price : Nat, balance : Nat, settled : Nat, lapsed : Nat \cup {None}]

NewHolding(price, balance, now) ==
  [price |-> price, balance |-> balance, settled |-> now, lapsed |-> None]

TaxDue(cf, price, ticks) == price * cf.rate * ticks

\* One grace period of tax: the least a claim, buy or top-up must leave.
MinDeposit(cf, price) == TaxDue(cf, price, cf.grace)

\* The tax due since the last settlement has reached the balance.
RunsOut(cf, h, now) ==
  /\ h.lapsed = None
  /\ h.price * cf.rate > 0
  /\ TaxDue(cf, h.price, now - h.settled) >= h.balance

\* ns_until_spent: the ticks the balance lasts from the last settlement.
TicksUntilSpent(cf, h) ==
  (h.balance + h.price * cf.rate - 1) \div (h.price * cf.rate)

\* Mutant of Taken: the tax is not capped at the balance.
TakenUncapped(cf, h, now) ==
  IF h.lapsed # None THEN 0 ELSE TaxDue(cf, h.price, now - h.settled)

\* The tax a settlement at now takes.
Taken(cf, h, now) ==
  CASE h.lapsed # None     -> 0
    [] RunsOut(cf, h, now) -> h.balance
    [] OTHER               -> TaxDue(cf, h.price, now - h.settled)

\* When the holding ran out of balance, as a settlement at now records it.
LapsedAt(cf, h, now) ==
  IF RunsOut(cf, h, now) THEN h.settled + TicksUntilSpent(cf, h) ELSE h.lapsed

\* Mutant of Settle: the time that was paid for is not noted.
SettleAgain(cf, h, now) ==
  [h EXCEPT !.balance = @ - Taken(cf, h, now), !.lapsed = LapsedAt(cf, h, now)]

\* The holding as a settlement at now leaves it.
Settle(cf, h, now) ==
  [h EXCEPT !.balance = @ - Taken(cf, h, now),
            !.lapsed  = LapsedAt(cf, h, now),
            !.settled = IF h.lapsed = None THEN now ELSE @]

\* Status::Grace carries the moment the name becomes free.
Status(cf, h, now) ==
  LET lapsed == LapsedAt(cf, h, now) IN
  IF lapsed = None THEN [state |-> "active", until |-> None]
  ELSE IF now < lapsed + cf.grace THEN [state |-> "grace", until |-> lapsed + cf.grace]
  ELSE [state |-> "free", until |-> None]

IsFree(cf, h, now) == Status(cf, h, now).state = "free"

\* Mutant of CanTopUp: any amount brings a name back from its grace period.
CanTopUpDust(cf, h, amount, now) == ~IsFree(cf, h, now)

\* top_up refuses a holding that is free, and one it would leave on credit.
CanTopUp(cf, h, amount, now) ==
  /\ ~IsFree(cf, h, now)
  /\ Settle(cf, h, now).balance + amount >= MinDeposit(cf, h.price)

TopUp(cf, h, amount, now) ==
  [Settle(cf, h, now) EXCEPT !.balance = @ + amount, !.settled = now, !.lapsed = None]
=============================================================================
