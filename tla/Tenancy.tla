------------------------------- MODULE Tenancy -------------------------------
(***************************************************************************)
(* What holding a flat name means, told without lazy settlement, auctions  *)
(* or payments: a meter runs on the holder's price and takes the tax from  *)
(* the balance at every tick, at the rate in force at that tick. When the  *)
(* balance is gone the holder has one grace period; then the name is       *)
(* vacant. Market implements this (MarketTenancy).                         *)
(***************************************************************************)
EXTENDS Cycles

CONSTANTS None, FlatNames, Principals, Grace

VARIABLES
  now,       \* the time
  rate,      \* tax per unit of price and tick
  tenancy    \* name -> who holds it on which terms, or None

Tenancies == [owner : Principals, price : Nat, balance : Nat, until : Nat \cup {None}]

\* until is the end of the grace period of a holding whose balance is gone.
Noticed(t, r, time) ==
  IF t.until = None /\ t.balance = 0 /\ t.price * r > 0
  THEN [t EXCEPT !.until = time + Grace] ELSE t

Init ==
  /\ now \in Nat /\ rate \in Nat
  /\ tenancy \in [FlatNames -> Tenancies \cup {None}]

\* One tick of every meter.
Metered(t) ==
  CASE t = None -> None
    [] t # None /\ t.until # None -> IF now' >= t.until THEN None ELSE t
    [] OTHER -> Noticed([t EXCEPT !.balance = Greatest(@ - t.price * rate, 0)], rate, now')

Tick ==
  /\ now' = now + 1
  /\ tenancy' = [n \in FlatNames |-> Metered(tenancy[n])]
  /\ UNCHANGED rate

\* Something happens to n's tenancy at this moment, and to no other.
Become(n, t) ==
  /\ tenancy' = [tenancy EXCEPT ![n] = t]
  /\ UNCHANGED <<now, rate>>

Reassess(n) ==
  LET t == tenancy'[n] IN
  /\ tenancy[n] # None /\ t # None
  /\ t.price \in Nat
  /\ Become(n, Noticed([tenancy[n] EXCEPT !.price = t.price], rate, now))

\* Enough for a grace period: a balance that was gone is back.
TopUp(n) ==
  LET t == tenancy'[n] IN
  /\ tenancy[n] # None /\ t # None
  /\ t.balance \in Nat /\ t.balance > tenancy[n].balance
  /\ t.balance >= t.price * rate * Grace
  /\ Become(n, [tenancy[n] EXCEPT !.balance = t.balance, !.until = None])

\* A vacant name, or a forced sale to somebody else.
TakeOver(n) ==
  LET t == tenancy'[n] IN
  /\ t \in Tenancies
  /\ tenancy[n] # None => t.owner # tenancy[n].owner
  /\ t.until = None
  /\ t.balance >= t.price * rate * Grace
  /\ Become(n, t)

Leave(n) ==
  /\ tenancy[n] # None
  /\ tenancy' = [tenancy EXCEPT ![n] = None]
  /\ UNCHANGED <<now, rate>>

SetRate ==
  /\ rate' \in Nat
  /\ tenancy' = [n \in FlatNames |-> IF tenancy[n] = None THEN None
                                     ELSE Noticed(tenancy[n], rate', now)]
  /\ UNCHANGED now

Next ==
  \/ Tick
  \/ SetRate
  \/ \E n \in FlatNames : Reassess(n) \/ TopUp(n) \/ TakeOver(n) \/ Leave(n)

Spec == Init /\ [][Next]_<<now, rate, tenancy>>
=============================================================================
