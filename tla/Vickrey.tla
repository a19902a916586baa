------------------------------- MODULE Vickrey -------------------------------
(***************************************************************************)
(* Sealed-bid second-price auctions: ic_auction::vickrey as                *)
(* canisters/names/src/auction.rs uses it. The crate is not in the         *)
(* repository. A commitment is a hash, so nothing depends on the sealed    *)
(* amount until it is opened: the amount is chosen when it is revealed,    *)
(* and a second reveal must repeat it. How the crate breaks a tie is not   *)
(* known here; any of the highest bidders may win.                         *)
(***************************************************************************)
EXTENDS Harberger

CONSTANTS
  Principals,    \* callers other than the anonymous one
  FlatTargets    \* scoped names a flat name may alias

\* A commitment with its escrowed deposit, and the terms a reveal fixed.
Bid == [deposit  : Nat,
        revealed : Nat \cup {None},
        alias    : FlatTargets \cup {None},
        opening  : Nat]

NoBids == [p \in Principals |-> None]

SealedBid(deposit) ==
  [deposit |-> deposit, revealed |-> None, alias |-> None, opening |-> 0]

\* A bid replaces the bidder's earlier one.
AddBid(a, p, deposit) == [a EXCEPT !.bids[p] = SealedBid(deposit)]

\* Phases of an auction a with fields opened, commit_ns, reveal_ns.
CommitUntil(a) == a.opened + a.commit_ns
RevealUntil(a) == CommitUntil(a) + a.reveal_ns

Phase(a, now) ==
  IF now < CommitUntil(a) THEN "commit"
  ELSE IF now < RevealUntil(a) THEN "reveal" ELSE "closed"

Bidders(a) == {p \in Principals : a.bids[p] # None}

Revealed(a) == {p \in Bidders(a) : a.bids[p].revealed # None}

Winners(a) ==
  {w \in Revealed(a) :
     /\ a.bids[w].revealed >= a.reserve
     /\ \A p \in Revealed(a) : a.bids[p].revealed <= a.bids[w].revealed}

\* What the winner's bid had to beat: the reserve and the rivals' bids.
Rivals(a, w) == {a.reserve} \cup {a.bids[p].revealed : p \in Revealed(a) \ {w}}

\* Auction::outcome: the winner, if any, and the price. More than one
\* outcome only when bids are tied.
Outcomes(a) ==
  IF Winners(a) = {}
  THEN {[winner |-> None, price |-> 0]}
  ELSE {o \in [winner : Winners(a), price : UNION {Rivals(a, w) : w \in Winners(a)}] :
          /\ o.price \in Rivals(a, o.winner)
          /\ \A x \in Rivals(a, o.winner) : x <= o.price}

Deposits(a) ==
  [p \in Principals |-> IF a.bids[p] = None THEN 0 ELSE a.bids[p].deposit]

\* Mutant of Forfeits: they are counted nowhere.
ForfeitsForgotten(a) == [p \in Principals |-> 0]

\* Settlement.forfeited: a commitment nobody opened.
Forfeits(a) ==
  [p \in Principals |-> IF p \in Bidders(a) \ Revealed(a) THEN a.bids[p].deposit ELSE 0]
=============================================================================
