------------------------------ MODULE MC_market ------------------------------
(***************************************************************************)
(* Values for the constants of Market. Times are ticks; amounts are small  *)
(* multiples of the fee.                                                   *)
(***************************************************************************)
EXTENDS MarketTenancy, Expiring, TLC

CONSTANTS alice, bob, carol, name1, target1, ledgerA, ledgerB, call1, call2

\* A rate of one cycle per unit of price and tick, one tick of grace.
BaseConfig == [ledger |-> ledgerA, rate |-> 1, min_price |-> 1, grace |-> 1,
               fee |-> 0, open |-> TRUE]
FeeConfig == [BaseConfig EXCEPT !.fee = 1]

\* Configs a controller may set.
OtherLedger == [BaseConfig EXCEPT !.ledger = ledgerB]
HigherRate == [BaseConfig EXCEPT !.rate = 2]
BothLedgers == {BaseConfig, OtherLedger}
TooHighRate == [BaseConfig EXCEPT !.rate = 3]
Rates == {BaseConfig, HigherRate, TooHighRate}

\* A grace period that brings a name back to its holder.
LongGrace == [BaseConfig EXCEPT !.grace = 4]
Graces == {BaseConfig, LongGrace}

\* With the market closed nobody wins a free name.
ClosedConfig == [BaseConfig EXCEPT !.open = FALSE]
ClosedRates == {[ClosedConfig EXCEPT !.rate = r] : r \in 0..3}

BaseTerms == [commit_ns |-> 1, reveal_ns |-> 1, reserve |-> 0]
HigherReserve == {[BaseTerms EXCEPT !.reserve = 2]}

NothingHeld == [n \in FlatNames |-> None]
AliceHolds ==
  [n \in FlatNames |-> [owner |-> alice, target |-> target1, previous |-> None,
                    changed |-> 0, flat |-> NewHolding(1, 1, 0)]]

\* Nothing left: in grace from the start.
AliceSpent == [n \in FlatNames |-> [AliceHolds[n] EXCEPT !.flat = NewHolding(1, 0, 0)]]

\* Prepaid for longer: tax to fund the canister with, and a balance to release.
AlicePrepaid ==
  [n \in FlatNames |-> [owner |-> alice, target |-> target1, previous |-> None,
                    changed |-> 0, flat |-> NewHolding(2, 6, 0)]]

\* Which call context a handler runs in makes no difference.
CallSymmetry == Permutations(CallIds)
=============================================================================
