----------------------------- MODULE Books_proofs -----------------------------
(***************************************************************************)
(* The books of the market equal its account at the ledger, and the        *)
(* account covers what users are owed: every handler moves cycles from one *)
(* book to another, and every step of the ledger changes the account by    *)
(* what the suspended handler has in transit.                              *)
(***************************************************************************)
EXTENDS Market_proofs

-----------------------------------------------------------------------------
(* How one entry changes a sum                                             *)

BalanceOf(r) == IF r = None THEN 0 ELSE r.flat.balance

DepositsOf(a) == IF a = None THEN 0 ELSE Total(Deposits(a))

\* Writing one record moves the prepaid balances by the difference.
LEMMA PrepaidWritten ==
  ASSUME TInv, NEW n \in FlatNames, NEW r \in Record \cup {None},
         records' = [records EXCEPT ![n] = r]
  PROVE  /\ Prepaid \in Nat /\ Prepaid' \in Nat
         /\ BalanceOf(records[n]) \in Nat /\ BalanceOf(r) \in Nat
         /\ Prepaid' = Prepaid - BalanceOf(records[n]) + BalanceOf(r)
<1>1. records \in [FlatNames -> Record \cup {None}] /\ IsFiniteSet(FlatNames)
  BY MarketAssumption DEF TInv, TypeOK
<1>2. \A s \in Record \cup {None} : BalanceOf(s) \in Nat
  BY DEF BalanceOf, Record, Holding
<1>3. Balances \in [FlatNames -> Nat] /\ Balances[n] = BalanceOf(records[n])
  BY <1>1, <1>2 DEF Balances, BalanceOf
<1>4. Balances' = [Balances EXCEPT ![n] = BalanceOf(r)]
  BY <1>1 DEF Balances, BalanceOf
<1>5. Balances' \in [FlatNames -> Nat]
  BY <1>2, <1>3, <1>4
<1>6. Total(Balances') = Total(Balances) - Balances[n] + BalanceOf(r)
  BY <1>1, <1>2, <1>3, <1>4, TotalUpdate
<1>7. Total(Balances) \in Nat /\ Total(Balances') \in Nat
  BY <1>1, <1>3, <1>5, CoinsFinite
<1> QED BY <1>2, <1>1, <1>3, <1>6, <1>7 DEF Prepaid

\* Writing one auction moves the escrow by the difference of its deposits.
LEMMA EscrowUpdate ==
  ASSUME NEW as \in [FlatNames -> Running \cup {None}], NEW n \in FlatNames,
         NEW a \in Running \cup {None}
  PROVE  /\ Total(EscrowOf(as)) \in Nat
         /\ DepositsOf(as[n]) \in Nat /\ DepositsOf(a) \in Nat
         /\ Total(EscrowOf([as EXCEPT ![n] = a]))
              = Total(EscrowOf(as)) - DepositsOf(as[n]) + DepositsOf(a)
<1> DEFINE Keys == FlatNames \X Principals
           rest == EscrowOf([as EXCEPT ![n] = None])
           held(b) == IF b = None THEN [p \in Principals |-> 0] ELSE Deposits(b)
           row(b) == [x \in Keys |-> IF x[1] = n THEN held(b)[x[2]] ELSE 0]
<1>1. IsFiniteSet(Principals) /\ IsFiniteSet(Keys)
  BY MarketAssumption, FS_Product
<1>2. ASSUME NEW b \in Running \cup {None}
      PROVE  held(b) \in [Principals -> Nat]
  BY DepositsType
<1>3. ASSUME NEW bs \in [FlatNames -> Running \cup {None}]
      PROVE  EscrowOf(bs) \in [Keys -> Nat]
  <2>1. ASSUME NEW m \in FlatNames, NEW p \in Principals, bs[m] # None
        PROVE  Deposits(bs[m])[p] \in Nat
    BY <2>1, DepositsType
  <2> QED BY <2>1 DEF EscrowOf
<1>4. [as EXCEPT ![n] = None] \in [FlatNames -> Running \cup {None}]
  OBVIOUS
<1>5. rest \in [Keys -> Nat]
  BY <1>3, <1>4
<1>6. ASSUME NEW b \in Running \cup {None}
      PROVE  Total(row(b)) = DepositsOf(b) /\ Total(row(b)) \in Nat /\ row(b) \in [Keys -> Nat]
  <2> DEFINE d == held(b)
  <2>1. d \in [Principals -> Nat]
    BY <1>2
  <2>2. Total(d) = DepositsOf(b)
    <3>1. CASE b = None
      <4>1. \A p \in Principals : d[p] = 0
        BY <3>1
      <4>2. d \in [Principals -> Nat] => Total(d) = 0
        <5> HIDE DEF d
        <5> QED BY <1>1, <4>1, TotalBounds
      <4> QED BY <2>1, <3>1, <4>2 DEF DepositsOf
    <3>2. CASE b # None
      BY <3>2 DEF DepositsOf
    <3> QED BY <3>1, <3>2
  <2>3. \A x \in Keys : row(b)[x] = IF x[1] = n THEN d[x[2]] ELSE 0
    OBVIOUS
  <2> HIDE DEF d
  <2>4. row(b) \in [Keys -> Nat]
    BY <2>1, <2>3
  <2>5. IsRow(row(b), FlatNames, Principals, n, d)
    <3> HIDE DEF d, row
    <3> QED BY <2>3, <2>4 DEF IsRow
  <2>6. Total(row(b)) = Total(d)
    <3>1. IsFiniteSet(Principals)
      BY <1>1
    <3> HIDE DEF d, row
    <3> QED BY <2>1, <2>5, <3>1, TotalRow
  <2> QED BY <1>1, <2>1, <2>2, <2>4, <2>6, CoinsFinite
<1>7. ASSUME NEW b \in Running \cup {None}
      PROVE  Total(EscrowOf([as EXCEPT ![n] = b])) = Total(rest) + DepositsOf(b)
  <2>1. EscrowOf([as EXCEPT ![n] = b]) = Plus(rest, row(b))
    <3> DEFINE bs == [as EXCEPT ![n] = b]
    <3>1. EscrowOf(bs) = [x \in Keys |-> IF bs[x[1]] = None THEN 0 ELSE Deposits(bs[x[1]])[x[2]]]
      BY DEF EscrowOf
    <3>2. Plus(rest, row(b)) = [x \in Keys |-> rest[x] + row(b)[x]]
      BY <1>5 DEF Plus
    <3>3. ASSUME NEW x \in Keys
          PROVE  (IF bs[x[1]] = None THEN 0 ELSE Deposits(bs[x[1]])[x[2]]) = rest[x] + row(b)[x]
      <4>1. rest[x] = IF x[1] = n \/ as[x[1]] = None THEN 0 ELSE Deposits(as[x[1]])[x[2]]
        BY DEF EscrowOf
      <4>2. row(b)[x] \in Nat /\ rest[x] \in Nat
        BY <1>5, <1>6
      <4>3. CASE x[1] = n
        <5>1. rest[x] = 0 /\ row(b)[x] = held(b)[x[2]] /\ bs[x[1]] = b
          BY <4>1, <4>3
        <5>2. held(b)[x[2]] = IF b = None THEN 0 ELSE Deposits(b)[x[2]]
          OBVIOUS
        <5> HIDE DEF rest, row, held, bs
        <5> QED BY <4>2, <5>1, <5>2
      <4>4. CASE x[1] # n
        <5>1. row(b)[x] = 0 /\ bs[x[1]] = as[x[1]]
          BY <4>4
        <5>2. rest[x] = IF bs[x[1]] = None THEN 0 ELSE Deposits(bs[x[1]])[x[2]]
          BY <4>1, <4>4
        <5> HIDE DEF rest, row, held, bs
        <5>3. rest[x] = rest[x] + row(b)[x]
          BY <4>2, <5>1
        <5> QED BY <5>2, <5>3, Zenon
      <4> QED BY <4>3, <4>4
    <3> HIDE DEF rest, row, held, bs
    <3> QED BY <3>1, <3>2, <3>3 DEF bs
  <2> HIDE DEF rest, row
  <2>2. Total(Plus(rest, row(b))) = Total(rest) + Total(row(b))
    BY <1>1, <1>5, <1>6, TotalPlus
  <2> QED BY <1>6, <2>1, <2>2
<1>8. as = [as EXCEPT ![n] = as[n]] /\ as[n] \in Running \cup {None}
  OBVIOUS
<1>9. Total(rest) \in Nat
  <2> HIDE DEF rest
  <2> QED BY <1>1, <1>5, CoinsFinite
<1>10. DepositsOf(as[n]) \in Nat /\ DepositsOf(a) \in Nat
  <2> HIDE DEF row
  <2> QED BY <1>6, <1>8
<1> DEFINE before == Total(EscrowOf(as))
           after == Total(EscrowOf([as EXCEPT ![n] = a]))
           others == Total(rest)
           x == DepositsOf(as[n])
           y == DepositsOf(a)
<1>11. before = others + x
  <2> HIDE DEF rest
  <2>1. Total(EscrowOf([as EXCEPT ![n] = as[n]])) = Total(rest) + DepositsOf(as[n])
    BY <1>7, <1>8
  <2> QED BY <1>8, <2>1, Zenon
<1>12. after = others + y
  <2> HIDE DEF rest
  <2> QED BY <1>7, Zenon
<1>13. others \in Nat /\ x \in Nat /\ y \in Nat
  BY <1>9, <1>10
<1> HIDE DEF before, after, others, x, y
<1>14. before \in Nat /\ after = before - x + y
  BY <1>11, <1>12, <1>13
<1> QED BY <1>10, <1>14 DEF before, after, x, y

InTransitOf(cs) == Total([k \in CallIds |-> InTransit(cs[k])])

NotedOf(cs) == Total([k \in CallIds |-> Noted(cs[k])])

CallsFit(cs) == \A k \in CallIds : cs[k] = None \/ (cs[k] \in Call /\ CallSound(cs[k]))

\* Writing one call moves both sums by the difference.
LEMMA CallEntry ==
  ASSUME NEW cs \in [CallIds -> Call \cup {None}], CallsFit(cs), NEW k \in CallIds,
         NEW c, c = None \/ (c \in Call /\ CallSound(c))
  PROVE  LET ds == [cs EXCEPT ![k] = c] IN
         /\ InTransitOf(cs) \in Nat /\ NotedOf(cs) \in Nat
         /\ InTransit(cs[k]) \in Nat /\ Noted(cs[k]) \in Nat
         /\ InTransit(c) \in Nat /\ Noted(c) \in Nat
         /\ Noted(cs[k]) <= NotedOf(cs)
         /\ InTransitOf(ds) = InTransitOf(cs) - InTransit(cs[k]) + InTransit(c)
         /\ NotedOf(ds) = NotedOf(cs) - Noted(cs[k]) + Noted(c)
<1> DEFINE ds == [cs EXCEPT ![k] = c]
           f == [j \in CallIds |-> InTransit(cs[j])]
           g == [j \in CallIds |-> Noted(cs[j])]
           v == InTransit(c)
           w == Noted(c)
<1>1. \A d : d = None \/ (d \in Call /\ CallSound(d)) => InTransit(d) \in Nat /\ Noted(d) \in Nat
  <2>1. InTransit(None) = 0 /\ Noted(None) = 0
    BY DEF InTransit, Noted
  <2>2. ASSUME NEW d \in Call, CallSound(d) PROVE InTransit(d) \in Nat /\ Noted(d) \in Nat
    BY <2>2, InTransitType
  <2> QED BY <2>1, <2>2
<1>2. f \in [CallIds -> Nat] /\ g \in [CallIds -> Nat] /\ IsFiniteSet(CallIds)
  BY <1>1, MarketAssumption DEF CallsFit
<1>3. v \in Nat /\ w \in Nat
  BY <1>1
<1>4. f[k] = InTransit(cs[k]) /\ g[k] = Noted(cs[k])
  OBVIOUS
<1>5. /\ [j \in CallIds |-> InTransit(ds[j])] = [f EXCEPT ![k] = v]
      /\ [j \in CallIds |-> Noted(ds[j])] = [g EXCEPT ![k] = w]
  OBVIOUS
<1>6. /\ InTransitOf(cs) = Total(f) /\ NotedOf(cs) = Total(g)
      /\ InTransitOf(ds) = Total([f EXCEPT ![k] = v])
      /\ NotedOf(ds) = Total([g EXCEPT ![k] = w])
  BY <1>5 DEF InTransitOf, NotedOf
<1> HIDE DEF ds, f, g, v, w
<1>7. Total(f) \in Nat /\ Total(g) \in Nat /\ g[k] <= Total(g)
  BY <1>2, CoinsFinite, TotalBounds
<1>8. Total([f EXCEPT ![k] = v]) = Total(f) - f[k] + v
  BY <1>2, <1>3, TotalUpdate
<1>9. Total([g EXCEPT ![k] = w]) = Total(g) - g[k] + w
  BY <1>2, <1>3, TotalUpdate
<1>10. f[k] \in Nat /\ g[k] \in Nat
  BY <1>2
<1> QED BY <1>3, <1>4, <1>6, <1>7, <1>8, <1>9, <1>10 DEF ds, v, w

BooksTyped ==
  /\ Prepaid \in Nat /\ CreditsOutstanding \in Nat /\ Escrowed \in Nat
  /\ Liabilities \in Nat /\ Transit \in Nat /\ Account \in Nat /\ NotedOf(calls) \in Nat
  /\ collected \in Nat /\ withdrawn \in Nat /\ unreconciled \in Nat

\* Every book is an amount.
LEMMA BookTypes == TInv => BooksTyped
<1> SUFFICES ASSUME TInv PROVE BooksTyped
  OBVIOUS
<1>1. Prepaid \in Nat
  <2>1. \A n \in FlatNames : records[n] # None => records[n].flat.balance \in Nat
    BY DEF TInv, TypeOK, Record, Holding
  <2>2. Balances \in [FlatNames -> Nat]
    BY <2>1 DEF Balances
  <2> QED BY <2>2, CoinsFinite, MarketAssumption DEF Prepaid
<1>2. CreditsOutstanding \in Nat
  BY CoinsFinite, MarketAssumption DEF CreditsOutstanding, TInv, TypeOK
<1>3. Escrowed \in Nat
  <2>1. \A n \in FlatNames, p \in Principals : auctions[n] # None => Deposits(auctions[n])[p] \in Nat
    BY DepositsType DEF TInv, TypeOK
  <2>2. EscrowOf(auctions) \in [FlatNames \X Principals -> Nat]
    BY <2>1 DEF EscrowOf
  <2>3. IsFiniteSet(FlatNames \X Principals)
    BY FS_Product, MarketAssumption
  <2> QED BY <2>2, <2>3, CoinsFinite DEF Escrowed
<1>4. Transit \in Nat /\ NotedOf(calls) \in Nat
  <2>1. \A k \in CallIds : InTransit(calls[k]) \in Nat /\ Noted(calls[k]) \in Nat
    <3>1. InTransit(None) = 0 /\ Noted(None) = 0
      BY DEF InTransit, Noted
    <3> QED BY <3>1, InTransitType DEF TInv, TypeOK, CallsSound
  <2>2. [k \in CallIds |-> InTransit(calls[k])] \in [CallIds -> Nat]
        /\ [k \in CallIds |-> Noted(calls[k])] \in [CallIds -> Nat]
    BY <2>1
  <2> QED BY <2>2, CoinsFinite, MarketAssumption DEF Transit, NotedOf
<1>5. Account \in Nat
  BY DEF Account, TInv, TypeOK, LedgerTypeOK, Config, Holders
<1>6. collected \in Nat /\ withdrawn \in Nat /\ unreconciled \in Nat
  BY DEF TInv, TypeOK
<1> QED BY <1>1, <1>2, <1>3, <1>4, <1>5, <1>6 DEF Liabilities, BooksTyped

\* So it is after a step.
LEMMA BookTypesNext == TInv' => BooksTyped'
BY BookTypes, PTL

\* A handler moves cycles between books, and undoes nothing twice.
LEMMA BooksKeep ==
  ASSUME TInv, TInv', BInv, UNCHANGED <<accounts, withdrawn, unreconciled>>,
         cfg'.ledger = cfg.ledger,
         NotedOf(calls)' <= NotedOf(calls),
         Liabilities' + collected' + Transit' = Liabilities + collected + Transit
  PROVE  BInv'
<1>1. /\ Liabilities' \in Nat /\ Transit' \in Nat /\ NotedOf(calls)' \in Nat
      /\ collected' \in Nat
  BY BookTypesNext DEF BooksTyped
<1>2. /\ Liabilities \in Nat /\ Transit \in Nat /\ NotedOf(calls) \in Nat
      /\ collected \in Nat /\ withdrawn \in Nat /\ unreconciled \in Nat /\ Account \in Nat
  BY BookTypes DEF BooksTyped
<1>3. Account' = Account
  BY DEF Account
<1>4. UndoIsExact'
  BY <1>1, <1>2 DEF BInv, UndoIsExact, NotedOf
<1>5. NothingStranded'
  BY DEF BInv, NothingStranded
<1>6. BooksBalance'
  <2> DEFINE l == Liabilities  m == Liabilities'
             t == Transit      u == Transit'
             c == collected    d == collected'
  <2>1. /\ l \in Nat /\ t \in Nat /\ c \in Nat /\ m \in Nat /\ u \in Nat /\ d \in Nat
        /\ withdrawn \in Nat /\ m + d + u = l + c + t
    BY <1>1, <1>2
  <2>2. Booked = l + c - withdrawn + t /\ Booked' = m + d - withdrawn + u
    BY DEF Booked
  <2> HIDE DEF l, m, t, u, c, d
  <2>3. m + d - withdrawn + u = l + c - withdrawn + t
    BY <2>1
  <2> QED BY <1>3, <2>2, <2>3 DEF BInv, BooksBalance
<1> QED BY <1>4, <1>5, <1>6 DEF BInv

\* Most handlers leave the config alone.
LEMMA HandlerKeeps ==
  ASSUME TInv, TInv', BInv, UNCHANGED <<cfg, accounts, withdrawn, unreconciled>>,
         NotedOf(calls)' <= NotedOf(calls),
         Liabilities' + collected' + Transit' = Liabilities + collected + Transit
  PROVE  BInv'
<1>1. cfg'.ledger = cfg.ledger /\ UNCHANGED <<accounts, withdrawn, unreconciled>>
  OBVIOUS
<1> QED BY <1>1, BooksKeep

\* A step that writes one call moves the sums over the calls by that call.
LEMMA CallsChange ==
  ASSUME TInv, TInv', cfg' = cfg, NEW k \in CallIds, NEW c,
         calls' = [calls EXCEPT ![k] = c]
  PROVE  /\ InTransit(calls[k]) \in Nat /\ Noted(calls[k]) \in Nat
         /\ InTransit(c) \in Nat /\ Noted(c) \in Nat
         /\ Transit \in Nat /\ NotedOf(calls) \in Nat
         /\ Noted(calls[k]) <= NotedOf(calls)
         /\ Transit' = Transit - InTransit(calls[k]) + InTransit(c)
         /\ NotedOf(calls') = NotedOf(calls) - Noted(calls[k]) + Noted(c)
<1>1. calls \in [CallIds -> Call \cup {None}] /\ CallsFit(calls)
  BY DEF TInv, TypeOK, CallsSound, CallsFit
<1>2. c = calls'[k]
  BY <1>1
<1>3. c = None \/ c \in Call
  BY <1>2 DEF TInv, TypeOK
<1>4. c # None => CallSound(c)
  <2>1. c # None => CallSound(calls[k])'
    BY <1>2 DEF TInv, CallsSound
  <2> QED BY <1>2, <2>1 DEF CallSound
<1>5. Transit = InTransitOf(calls) /\ Transit' = InTransitOf(calls')
  BY DEF Transit, InTransitOf
<1> DEFINE ds == [calls EXCEPT ![k] = c]
<1>6. calls' = ds
  OBVIOUS
<1> HIDE DEF ds
<1>7. /\ InTransitOf(calls) \in Nat /\ NotedOf(calls) \in Nat
      /\ InTransit(calls[k]) \in Nat /\ Noted(calls[k]) \in Nat
      /\ InTransit(c) \in Nat /\ Noted(c) \in Nat
      /\ Noted(calls[k]) <= NotedOf(calls)
      /\ InTransitOf(ds) = InTransitOf(calls) - InTransit(calls[k]) + InTransit(c)
      /\ NotedOf(ds) = NotedOf(calls) - Noted(calls[k]) + Noted(c)
  BY <1>1, <1>3, <1>4, CallEntry DEF ds
<1> QED BY <1>5, <1>6, <1>7

\* Writing a call that holds as much as before disturbs no book.
LEMMA OnlyCallKeeps ==
  ASSUME TInv, TInv', BInv, UNCHANGED <<canisterVars, accounts>>,
         NEW k \in CallIds, NEW c, calls' = [calls EXCEPT ![k] = c],
         InTransit(c) = InTransit(calls[k]), Noted(c) <= Noted(calls[k])
  PROVE  BInv'
<1>1. /\ UNCHANGED <<cfg, records, auctions, credits, collected, withdrawn, unreconciled>>
  BY DEF canisterVars, books
<1>2. Liabilities' = Liabilities
  BY <1>1 DEF Liabilities, Prepaid, CreditsOutstanding, Escrowed, Balances
<1>3. /\ InTransit(calls[k]) \in Nat /\ Noted(calls[k]) \in Nat /\ Noted(c) \in Nat
      /\ Transit \in Nat /\ NotedOf(calls) \in Nat
      /\ Transit' = Transit - InTransit(calls[k]) + InTransit(calls[k])
      /\ NotedOf(calls)' = NotedOf(calls) - Noted(calls[k]) + Noted(c)
  BY <1>1, CallsChange
<1> DEFINE t == Transit  u == Transit'  x == InTransit(calls[k])
           m == NotedOf(calls)  n == NotedOf(calls)'
           y == Noted(calls[k])  z == Noted(c)
<1>4. /\ t \in Nat /\ x \in Nat /\ u = t - x + x
      /\ m \in Nat /\ y \in Nat /\ z \in Nat /\ n = m - y + z /\ z <= y
  BY <1>3
<1> HIDE DEF t, u, x, m, n, y, z
<1>5. u = t /\ n <= m
  BY <1>4
<1> USE DEF t, u, m, n
<1>6. Transit' = Transit /\ NotedOf(calls)' <= NotedOf(calls)
  BY <1>5
<1>7. Liabilities' + collected' + Transit' = Liabilities + collected + Transit
  BY <1>1, <1>2, <1>6
<1> QED BY <1>1, <1>6, <1>7, HandlerKeeps

\* A credit adds to what is owed.
LEMMA CreditAdded ==
  ASSUME TInv, NEW p \in Principals, NEW x \in Nat,
         credits' = [credits EXCEPT ![p] = @ + x]
  PROVE  CreditsOutstanding \in Nat /\ CreditsOutstanding' = CreditsOutstanding + x
<1>1. credits \in [Principals -> Nat] /\ IsFiniteSet(Principals)
  BY MarketAssumption DEF TInv, TypeOK
<1>2. credits[p] + x \in Nat /\ x \in Int
  BY <1>1
<1>3. Total([credits EXCEPT ![p] = @ + x]) = Total(credits) + x /\ Total(credits) \in Nat
  BY <1>1, <1>2, TotalAdded, Zenon
<1> QED BY <1>3 DEF CreditsOutstanding

\* A handler that writes one record moves cycles between its balance and
\* the other books.
LEMMA OneRecordKeeps ==
  ASSUME TInv, TInv', BInv, UNCHANGED <<cfg, accounts, withdrawn, unreconciled>>,
         NotedOf(calls)' <= NotedOf(calls),
         NEW n \in FlatNames, NEW r \in Record \cup {None},
         records' = [records EXCEPT ![n] = r],
         BalanceOf(r) + CreditsOutstanding' + Escrowed' + collected' + Transit'
           = BalanceOf(records[n]) + CreditsOutstanding + Escrowed + collected + Transit
  PROVE  BInv'
<1>1. /\ Prepaid \in Nat /\ BalanceOf(records[n]) \in Nat /\ BalanceOf(r) \in Nat
      /\ Prepaid' = Prepaid - BalanceOf(records[n]) + BalanceOf(r)
  BY PrepaidWritten
<1> DEFINE p == Prepaid  c == CreditsOutstanding  e == Escrowed  t == Transit
           pp == Prepaid'  cc == CreditsOutstanding'  ee == Escrowed'  tt == Transit'
           k == collected  kk == collected'
           x == BalanceOf(records[n])  y == BalanceOf(r)
<1>2. /\ p \in Nat /\ c \in Nat /\ e \in Nat /\ t \in Nat /\ k \in Nat
      /\ cc \in Nat /\ ee \in Nat /\ tt \in Nat /\ kk \in Nat
      /\ x \in Nat /\ y \in Nat /\ pp = p - x + y
      /\ y + cc + ee + kk + tt = x + c + e + k + t
  BY <1>1, BookTypes, BookTypesNext DEF BooksTyped
<1> HIDE DEF p, c, e, t, pp, cc, ee, tt, k, kk, x, y
<1>3. (pp + cc + ee) + kk + tt = (p + c + e) + k + t
  BY <1>2
<1>4. Liabilities' + collected' + Transit' = Liabilities + collected + Transit
  BY <1>3 DEF p, c, e, t, pp, cc, ee, tt, k, kk, Liabilities
<1> QED BY <1>4, HandlerKeeps

\* What is not written is not moved.
LEMMA Untouched ==
  /\ UNCHANGED records => UNCHANGED Prepaid
  /\ UNCHANGED credits => UNCHANGED CreditsOutstanding
  /\ UNCHANGED auctions => UNCHANGED Escrowed
  /\ UNCHANGED calls => UNCHANGED Transit /\ NotedOf(calls)' = NotedOf(calls)
BY DEF Prepaid, Balances, CreditsOutstanding, Escrowed, Transit, NotedOf

\* set_price and set_record settle: what the tax takes goes to the treasury.
LEMMA SettledKeeps ==
  ASSUME TInv, TInv', BInv, NEW p, NEW n \in FlatNames, Holds(p, n),
         NEW r \in Record,
         r.flat.balance = Settle(cfg, records[n].flat, now).balance,
         CommitFlat(n, r, Taken(cfg, records[n].flat, now)),
         UNCHANGED <<cfg, terms, auctions, credits, withdrawn, proceeds, unreconciled,
                     calls, now, ledgerVars>>
  PROVE  BInv'
<1> DEFINE b == BalanceOf(records[n])
           d == BalanceOf(r)
           tax == Taken(cfg, records[n].flat, now)
<1>1. /\ records[n] \in Record /\ records[n].flat \in Holding
      /\ HoldingSound(records[n].flat, now) /\ tax \in Nat /\ cfg.rate \in Nat /\ now \in Nat
  BY HolderActs DEF TInv, TypeOK, Config
<1>2. Settle(cfg, records[n].flat, now).balance = records[n].flat.balance - tax
  BY <1>1, SettleSound
<1>3. b = records[n].flat.balance /\ d = b - tax /\ b \in Nat
  BY <1>1, <1>2, StartAssumption DEF BalanceOf, Holding
<1>4. /\ records' = [records EXCEPT ![n] = r] /\ collected' = collected + tax
      /\ UNCHANGED <<CreditsOutstanding, Escrowed, Transit>> /\ accounts' = accounts
      /\ NotedOf(calls)' = NotedOf(calls)
  BY Untouched DEF CommitFlat, ledgerVars
<1> DEFINE c == CreditsOutstanding  e == Escrowed  t == Transit
           cc == CreditsOutstanding'  ee == Escrowed'  tt == Transit'
           k == collected  kk == collected'
<1>5. /\ c \in Nat /\ e \in Nat /\ t \in Nat /\ k \in Nat /\ cc = c /\ ee = e /\ tt = t
      /\ kk = k + tax /\ b \in Nat /\ tax \in Nat /\ d = b - tax
  BY <1>1, <1>3, <1>4, BookTypes DEF BooksTyped
<1> HIDE DEF b, d, tax, c, e, t, cc, ee, tt, k, kk
<1>6. d + cc + ee + kk + tt = b + c + e + k + t
  BY <1>5
<1>7. NotedOf(calls)' <= NotedOf(calls)
  BY <1>4, BookTypes DEF BooksTyped
<1> QED BY <1>4, <1>6, <1>7, OneRecordKeeps DEF b, d, c, e, t, cc, ee, tt, k, kk

-----------------------------------------------------------------------------
(* The handlers without an await                                           *)

\* set_price.
LEMMA SetPriceBooks ==
  ASSUME TInv, TInv', BInv, NEW p \in Principals, NEW n \in FlatNames, NEW price \in Prices,
         SetPrice(p, n, price)
  PROVE  BInv'
<1> DEFINE h == Settle(cfg, records[n].flat, now)
           r == [records[n] EXCEPT !.flat = [h EXCEPT !.price = price]]
<1>1. h \in Holding /\ records[n] \in Record /\ Holds(p, n)
  BY HolderActs DEF SetPrice
<1>2. price \in Nat
  BY MarketAssumption
<1> HIDE DEF h
<1>3. r \in Record /\ r.flat.balance = h.balance
  BY <1>1, <1>2 DEF Record, Holding
<1> USE DEF h
<1>4. /\ CommitFlat(n, r, Taken(cfg, records[n].flat, now))
      /\ UNCHANGED <<cfg, terms, auctions, credits, withdrawn, proceeds, unreconciled,
                     calls, now, ledgerVars>>
  BY DEF SetPrice
<1> HIDE DEF r
<1> QED BY <1>1, <1>3, <1>4, SettledKeeps

\* set_record, and with it set_text.
LEMMA SetRecordBooks ==
  ASSUME TInv, TInv', BInv, NEW p \in Principals, NEW n \in FlatNames, NEW t \in FlatTargets,
         SetRecord(p, n, t)
  PROVE  BInv'
<1> DEFINE h == Settle(cfg, records[n].flat, now)
           r == [records[n] EXCEPT !.target = t, !.flat = h]
<1>1. h \in Holding /\ records[n] \in Record /\ Holds(p, n)
  BY HolderActs DEF SetRecord
<1>2. r \in Record /\ r.flat = h
  <2> HIDE DEF h
  <2> QED BY <1>1, RecordWith
<1>3. /\ CommitFlat(n, r, Taken(cfg, records[n].flat, now))
      /\ UNCHANGED <<cfg, terms, auctions, credits, withdrawn, proceeds, unreconciled,
                     calls, now, ledgerVars>>
  BY DEF SetRecord
<1> HIDE DEF r
<1> QED BY <1>1, <1>2, <1>3, SettledKeeps DEF h

\* delete_record credits the balance the tax leaves.
LEMMA DeleteRecordBooks ==
  ASSUME TInv, TInv', BInv, NEW p \in Principals, NEW n \in FlatNames, DeleteRecord(p, n)
  PROVE  BInv'
<1> DEFINE h == records[n].flat
           b == BalanceOf(records[n])
           d == BalanceOf(None)
           tax == Taken(cfg, h, now)
           x == Settle(cfg, h, now).balance
<1>1. /\ records[n] \in Record /\ h \in Holding /\ HoldingSound(h, now) /\ tax \in Nat
      /\ cfg.rate \in Nat /\ now \in Nat /\ Settle(cfg, h, now) \in Holding
  BY HolderActs DEF DeleteRecord, TInv, TypeOK, Config
<1>2. x = h.balance - tax /\ x \in Nat
  BY <1>1, SettleSound DEF Holding
<1>3. b = h.balance /\ d = 0 /\ h.balance \in Nat
  BY <1>1, StartAssumption DEF BalanceOf, Holding
<1>4. /\ records' = [records EXCEPT ![n] = None] /\ collected' = collected + tax
      /\ credits' = [credits EXCEPT ![p] = @ + x]
      /\ UNCHANGED <<cfg, accounts, auctions, calls, withdrawn, unreconciled>>
  BY DEF DeleteRecord, AddCredit, ledgerVars
<1> HIDE DEF x
<1>5. CreditsOutstanding \in Nat /\ CreditsOutstanding' = CreditsOutstanding + x
  BY <1>2, <1>4, CreditAdded
<1>6. /\ UNCHANGED <<Escrowed, Transit>> /\ NotedOf(calls)' = NotedOf(calls)
  BY <1>4, Untouched
<1> DEFINE c == CreditsOutstanding  e == Escrowed  t == Transit
           cc == CreditsOutstanding'  ee == Escrowed'  tt == Transit'
           k == collected  kk == collected'  g == h.balance
<1>7. /\ c \in Nat /\ e \in Nat /\ t \in Nat /\ k \in Nat /\ cc = c + x /\ ee = e /\ tt = t
      /\ kk = k + tax /\ b = g /\ g \in Nat /\ tax \in Nat /\ d = 0 /\ x = g - tax
  BY <1>1, <1>2, <1>3, <1>4, <1>5, <1>6, BookTypes DEF BooksTyped
<1> HIDE DEF b, d, tax, c, e, t, cc, ee, tt, k, kk, g
<1>8. d + cc + ee + kk + tt = b + c + e + k + t
  BY <1>7
<1>9. NotedOf(calls)' <= NotedOf(calls)
  BY <1>6, BookTypes DEF BooksTyped
<1> QED BY <1>4, <1>8, <1>9, OneRecordKeeps DEF b, d, c, e, t, cc, ee, tt, k, kk

\* reveal opens a bid and leaves its deposit in escrow.
LEMMA RevealBooks ==
  ASSUME TInv, TInv', BInv, NEW p \in Principals, NEW n \in FlatNames, NEW amount \in Prices,
         NEW t \in FlatTargets, Reveal(p, n, amount, t)
  PROVE  BInv'
<1> DEFINE a == auctions[n]
           need == MinDeposit(cfg, amount)
           b == [a.bids[p] EXCEPT !.revealed = amount, !.alias = t, !.opening = need]
           c == [a EXCEPT !.bids[p] = b]
<1>1. /\ a # None /\ a \in Running /\ p \in Bidders(a)
      /\ auctions \in [FlatNames -> Running \cup {None}]
      /\ amount \in Nat /\ cfg \in Config
  BY MarketAssumption DEF Reveal, TInv, TypeOK
<1>2. /\ auctions' = [auctions EXCEPT ![n] = c]
      /\ UNCHANGED <<cfg, records, credits, collected, withdrawn, unreconciled, calls, accounts>>
  BY <1>1 DEF Reveal, books, ledgerVars
<1>3. /\ a.bids \in [Principals -> Bid \cup {None}] /\ a.bids[p] \in Bid
  BY <1>1 DEF Running, Bidders
<1>4. need \in Nat
  BY <1>1, MinDepositType
<1> HIDE DEF need, a
<1>5. b \in Bid /\ b.deposit = a.bids[p].deposit
  BY <1>1, <1>3, <1>4 DEF Bid
<1> HIDE DEF b
<1>6. c \in Running /\ c.bids = [a.bids EXCEPT ![p] = b]
  BY <1>1, <1>5 DEF Running
<1> HIDE DEF c
<1>7. Deposits(c) = Deposits(a)
  BY <1>3, <1>5, <1>6, StartAssumption DEF Deposits
<1>8. DepositsOf(c) = DepositsOf(a)
  BY <1>1, <1>6, <1>7, StartAssumption DEF DepositsOf
<1>9. Escrowed' = Escrowed
  <2> DEFINE es == Total(EscrowOf(auctions))
             et == Total(EscrowOf([auctions EXCEPT ![n] = c]))
             x == DepositsOf(auctions[n])
             y == DepositsOf(c)
  <2>1. es \in Nat /\ x \in Nat /\ et = es - x + y /\ y = x
    BY <1>1, <1>6, <1>8, EscrowUpdate DEF a
  <2> HIDE DEF es, et, x, y
  <2>2. et = es
    BY <2>1
  <2> QED BY <1>2, <2>2 DEF es, et, Escrowed
<1>10. /\ UNCHANGED <<Prepaid, CreditsOutstanding, Transit>> /\ NotedOf(calls)' = NotedOf(calls)
  BY <1>2, Untouched
<1>11. Liabilities' + collected' + Transit' = Liabilities + collected + Transit
  BY <1>2, <1>9, <1>10 DEF Liabilities
<1>12. NotedOf(calls)' <= NotedOf(calls)
  BY <1>10, BookTypes DEF BooksTyped
<1> QED BY <1>2, <1>11, <1>12, HandlerKeeps

\* What a close gives out is what was deposited, and the tax it takes is
\* what was left on the name.
LEMMA ClosingConserves ==
  ASSUME now \in Nat, NEW cf \in Config, NEW a \in Running, AuctionSound(a),
         NEW r \in Record \cup {None}, r # None => HoldingSound(r.flat, now),
         NEW o \in Outcomes(a)
  PROVE  LET c == Closing(cf, a, r, o) IN
         /\ Total(c.refunds) \in Nat
         /\ BalanceOf(c.record) \in Nat
         /\ Total(c.refunds) + c.income + c.tax + BalanceOf(c.record)
              = DepositsOf(a) + BalanceOf(r)
<1> DEFINE winner  == WinnerOf(cf, r, o)
           price   == IF winner = None THEN 0 ELSE o.price
           opening == IF winner = None THEN 0
                      ELSE Least(a.bids[winner].opening, a.bids[winner].deposit - price)
           refunds == [p \in Principals |->
                         IF p \notin Revealed(a) THEN 0
                         ELSE a.bids[p].deposit - IF p = winner THEN price + opening ELSE 0]
           holding == NewHolding(a.bids[winner].revealed, opening, now)
           record  == IF winner = None THEN r
                      ELSE [owner    |-> winner,
                            target   |-> a.bids[winner].alias,
                            previous |-> IF r = None THEN None ELSE r.target,
                            changed  |-> now,
                            flat     |-> holding]
           tax     == IF winner = None \/ r = None THEN 0 ELSE Taken(cf, r.flat, now)
           income  == price + Total(Forfeits(a))
           paid    == price + opening
           kept    == [p \in Principals |-> IF p = winner THEN paid ELSE 0]
<1>1. \A p \in Revealed(a) :
        /\ p \in Principals
        /\ a.bids[p] \in Bid
        /\ a.bids[p].deposit \in Nat /\ a.bids[p].opening \in Nat
        /\ a.bids[p].revealed \in Nat
        /\ BidCovered(a.bids[p])
  BY DEF Running, Revealed, Bidders, Bid, AuctionSound
<1>2. winner # None =>
        /\ winner \in Revealed(a)
        /\ price \in Nat
        /\ price <= a.bids[winner].revealed
  BY OutcomeSound DEF WinnerOf
<1>3. price \in Nat /\ opening \in Nat
  <2>1. CASE winner = None
    BY <2>1
  <2>2. CASE winner # None
    <3> HIDE DEF winner, price
    <3> QED BY <1>1, <1>2, <2>2 DEF Least, BidCovered
  <2> QED BY <2>1, <2>2
<1>4. paid \in Nat /\ (winner # None => a.bids[winner].deposit - paid \in Nat)
  <2> HIDE DEF winner, price
  <2> QED BY <1>1, <1>2, <1>3 DEF Least, BidCovered
<1>5. winner \in Principals \cup {None}
  <2> HIDE DEF winner
  <2> QED BY <1>1, <1>2
<1>6. Closing(cf, a, r, o) =
        [refunds |-> refunds, income |-> income, tax |-> tax, record |-> record]
  <2>1. winner = o.winner \/ (winner = None /\ price + opening = 0)
    BY DEF WinnerOf
  <2>2. refunds = Refunds(a, o, price + opening)
    <3> HIDE DEF winner, price, opening
    <3> QED BY <2>1, RefundsSplit
  <2> HIDE DEF refunds
  <2> QED BY <2>2, Zenon DEF Closing
<1>7. Forfeits(a) \in [Principals -> Nat] /\ Deposits(a) \in [Principals -> Nat]
  BY DepositsType DEF Forfeits, Bidders, Bid, Running
<1>8. kept \in [Principals -> Nat] /\ Total(kept) = paid
  <2>1. CASE winner = None
    <3>1. paid = 0
      BY <2>1
    <3>2. \A p \in Principals : kept[p] = 0
      BY <2>1, StartAssumption
    <3>3. kept \in [Principals -> Nat]
      BY <3>2
    <3> HIDE DEF kept, paid
    <3> QED BY <3>1, <3>2, <3>3, TotalBounds, MarketAssumption
  <2>2. CASE winner # None
    <3>1. winner \in Principals
      BY <1>5, <2>2
    <3> HIDE DEF winner, paid
    <3>2. Total(kept) = paid
      BY <1>4, <3>1, TotalSingle
    <3> QED BY <1>4, <3>2
  <2> QED BY <2>1, <2>2
<1>9. refunds \in [Principals -> Nat]
  <2>1. Closing(cf, a, r, o).refunds \in [Principals -> Nat]
    BY ClosingSound
  <2> HIDE DEF refunds, income, tax, record
  <2> QED BY <1>6, <2>1
<1>10. \A p \in Principals : Deposits(a)[p] = (refunds[p] + Forfeits(a)[p]) + kept[p]
  <2> SUFFICES ASSUME NEW p \in Principals
               PROVE  Deposits(a)[p] = (refunds[p] + Forfeits(a)[p]) + kept[p]
    OBVIOUS
  <2>1. winner = p => winner \in Revealed(a)
    <3> HIDE DEF winner
    <3> QED BY <1>2, StartAssumption
  <2> HIDE DEF winner, paid
  <2>2. paid \in Nat
    BY <1>4
  <2>3. refunds[p] = IF p \notin Revealed(a) THEN 0
                     ELSE a.bids[p].deposit - (IF p = winner THEN paid ELSE 0)
    BY DEF paid
  <2>4. kept[p] = IF p = winner THEN paid ELSE 0
    OBVIOUS
  <2>5. Deposits(a)[p] = IF p \in Bidders(a) THEN a.bids[p].deposit ELSE 0
    BY DEF Deposits, Bidders
  <2>6. Forfeits(a)[p] = IF p \in Bidders(a) \ Revealed(a) THEN a.bids[p].deposit ELSE 0
    BY DEF Forfeits
  <2>7. p \in Bidders(a) => a.bids[p].deposit \in Nat
    BY DEF Bidders, Running, Bid
  <2>8. Revealed(a) \subseteq Bidders(a)
    BY DEF Revealed
  <2> HIDE DEF refunds, kept
  <2> QED BY <2>1, <2>2, <2>3, <2>4, <2>5, <2>6, <2>7, <2>8
<1> HIDE DEF refunds, kept
<1>11. Total(Deposits(a)) = Total(refunds) + Total(Forfeits(a)) + Total(kept)
  <2> DEFINE g == Plus(refunds, Forfeits(a))
  <2>1. g \in [Principals -> Nat] /\ Total(g) = Total(refunds) + Total(Forfeits(a))
    BY <1>7, <1>9, TotalPlus, MarketAssumption
  <2>2. Deposits(a) = Plus(g, kept)
    BY <1>7, <1>8, <1>9, <1>10 DEF Plus
  <2> HIDE DEF g
  <2>3. Total(Plus(g, kept)) = Total(g) + Total(kept)
    BY <1>8, <2>1, TotalPlus, MarketAssumption
  <2> QED BY <2>1, <2>2, <2>3
<1>12. /\ Total(refunds) \in Nat /\ Total(Forfeits(a)) \in Nat
  BY <1>7, <1>9, CoinsFinite, MarketAssumption
<1>13. /\ BalanceOf(record) \in Nat /\ BalanceOf(r) \in Nat /\ tax \in Nat
       /\ tax + BalanceOf(record) = opening + BalanceOf(r)
  <2>1. CASE winner = None
    <3>1. tax = 0 /\ opening = 0 /\ record = r
      BY <2>1
    <3>2. BalanceOf(r) \in Nat
      BY DEF BalanceOf, Record, Holding
    <3> QED BY <3>1, <3>2
  <2>2. CASE winner # None
    <3>1. ~Held(cf, r)
      BY <2>2 DEF WinnerOf
    <3>2. record.flat.balance = opening
      BY <2>2 DEF NewHolding
    <3>3. record \in Record
      <4> HIDE DEF winner, opening
      <4>1. holding \in Holding
        BY <1>1, <1>2, <1>3, <2>2, NewHoldingSound
      <4> HIDE DEF holding
      <4>2. winner \in Principals /\ a.bids[winner].alias \in FlatTargets
        BY <1>1, <1>2, <2>2 DEF BidCovered
      <4>3. (IF r = None THEN None ELSE r.target) \in FlatTargets \cup {None}
        BY DEF Record
      <4> QED BY <2>2, <4>1, <4>2, <4>3 DEF Record
    <3>4. BalanceOf(r) \in Nat /\ tax = BalanceOf(r)
      <4>1. CASE r = None
        BY <4>1 DEF BalanceOf
      <4>2. CASE r # None
        <5>1. /\ r.flat \in Holding /\ HoldingSound(r.flat, now) /\ IsFree(cf, r.flat, now)
              /\ r.flat.balance \in Nat
          BY <3>1, <4>2 DEF Held, Record, Holding
        <5>2. Taken(cf, r.flat, now) = r.flat.balance
          BY <5>1, FreeIsSpent
        <5>3. tax = Taken(cf, r.flat, now)
          BY <2>2, <4>2
        <5> HIDE DEF tax
        <5> QED BY <4>2, <5>1, <5>2, <5>3 DEF BalanceOf
      <4> QED BY <4>1, <4>2
    <3>5. BalanceOf(record) = opening
      <4> HIDE DEF record, opening
      <4> QED BY <3>2, <3>3, StartAssumption DEF BalanceOf
    <3> DEFINE x == BalanceOf(record)  y == BalanceOf(r)
    <3>6. x = opening /\ y \in Nat /\ tax = y /\ opening \in Nat
      BY <1>3, <3>4, <3>5
    <3> HIDE DEF x, y, tax, opening
    <3>7. x \in Nat /\ tax \in Nat /\ tax + x = opening + y
      BY <3>6
    <3> QED BY <3>6, <3>7 DEF x, y
  <2> QED BY <2>1, <2>2
<1> DEFINE rf == Total(refunds)  ff == Total(Forfeits(a))  dd == Total(Deposits(a))
           br == BalanceOf(r)  bs == BalanceOf(record)
<1>14. DepositsOf(a) = dd
  BY StartAssumption DEF DepositsOf
<1>15. /\ rf \in Nat /\ ff \in Nat /\ price \in Nat /\ opening \in Nat
       /\ br \in Nat /\ bs \in Nat /\ tax \in Nat
       /\ dd = rf + ff + (price + opening)
       /\ income = price + ff /\ tax + bs = opening + br
  BY <1>3, <1>8, <1>11, <1>12, <1>13
<1> HIDE DEF rf, ff, dd, br, bs, price, opening, income, tax
<1>16. rf + income + tax + bs = dd + br
  BY <1>15
<1> HIDE DEF record
<1> QED BY <1>6, <1>14, <1>15, <1>16 DEF rf, dd, br, bs

\* Writing one auction, in terms of the state.
LEMMA EscrowWritten ==
  ASSUME TInv, NEW n \in FlatNames, NEW a \in Running \cup {None},
         auctions' = [auctions EXCEPT ![n] = a]
  PROVE  /\ Escrowed \in Nat /\ DepositsOf(auctions[n]) \in Nat /\ DepositsOf(a) \in Nat
         /\ Escrowed' = Escrowed - DepositsOf(auctions[n]) + DepositsOf(a)
<1>1. auctions \in [FlatNames -> Running \cup {None}]
  BY DEF TInv, TypeOK
<1> DEFINE next == [auctions EXCEPT ![n] = a]
<1>2. auctions' = next
  OBVIOUS
<1>3. /\ Total(EscrowOf(auctions)) \in Nat
      /\ DepositsOf(auctions[n]) \in Nat /\ DepositsOf(a) \in Nat
      /\ Total(EscrowOf(next)) = Total(EscrowOf(auctions)) - DepositsOf(auctions[n]) + DepositsOf(a)
  BY <1>1, EscrowUpdate
<1> HIDE DEF next
<1> QED BY <1>2, <1>3 DEF Escrowed

\* close_auction.
LEMMA CloseAuctionBooks ==
  ASSUME TInv, TInv', BInv, NEW n \in FlatNames, CloseAuction(n)
  PROVE  BInv'
<1>1. /\ auctions[n] \in Running /\ AuctionSound(auctions[n])
      /\ records[n] \in Record \cup {None}
      /\ records[n] # None => HoldingSound(records[n].flat, now)
      /\ now \in Nat /\ cfg \in Config
      /\ credits \in [Principals -> Nat]
  BY DEF CloseAuction, TInv, TypeOK, AuctionsSound, HoldingsSound
<1>2. PICK o \in Outcomes(auctions[n]) :
        LET c == Closing(cfg, auctions[n], records[n], o) IN
          /\ credits' = Plus(credits, c.refunds)
          /\ CommitFlat(n, c.record, c.tax + c.income)
          /\ proceeds' = proceeds + c.income
  BY DEF CloseAuction, Closings
<1> DEFINE c == Closing(cfg, auctions[n], records[n], o)
           b == BalanceOf(records[n])  d == BalanceOf(c.record)
           x == Total(c.refunds)  y == DepositsOf(auctions[n])  z == DepositsOf(None)
           tax == c.tax  income == c.income
<1>3. /\ c.refunds \in [Principals -> Nat] /\ c.record \in Record \cup {None}
      /\ income \in Nat /\ tax \in Nat
  BY <1>1, ClosingSound
<1>4. x \in Nat /\ d \in Nat /\ x + income + tax + d = y + b
  BY <1>1, ClosingConserves
<1>5. /\ credits' = Plus(credits, c.refunds)
      /\ records' = [records EXCEPT ![n] = c.record]
      /\ collected' = collected + (tax + income)
  BY <1>2 DEF CommitFlat
<1> HIDE DEF c, tax, income
<1>6. /\ auctions' = [auctions EXCEPT ![n] = None]
      /\ UNCHANGED <<cfg, accounts, withdrawn, unreconciled, calls>>
  BY DEF CloseAuction, ledgerVars
<1>7. z = 0 /\ y \in Nat /\ Escrowed' = Escrowed - y + z
  BY <1>6, EscrowWritten DEF DepositsOf
<1>8. CreditsOutstanding' = CreditsOutstanding + x
  BY <1>1, <1>3, <1>5, TotalPlus, MarketAssumption DEF CreditsOutstanding
<1>9. UNCHANGED <<Transit>> /\ NotedOf(calls)' = NotedOf(calls)
  BY <1>6, Untouched
<1>10. b \in Nat
  BY <1>1 DEF BalanceOf, Record, Holding
<1> DEFINE r == CreditsOutstanding  e == Escrowed  t == Transit
           rr == CreditsOutstanding'  ee == Escrowed'  tt == Transit'
           k == collected  kk == collected'
<1>11. /\ r \in Nat /\ e \in Nat /\ t \in Nat /\ k \in Nat /\ rr = r + x /\ tt = t
       /\ ee = e - y + z /\ kk = k + (tax + income)
  BY <1>5, <1>7, <1>8, <1>9, BookTypes DEF BooksTyped
<1> HIDE DEF b, d, x, y, z, r, e, t, rr, ee, tt, k, kk
<1>12. d + rr + ee + kk + tt = b + r + e + k + t
  BY <1>3, <1>4, <1>7, <1>10, <1>11
<1>13. NotedOf(calls)' <= NotedOf(calls)
  BY <1>9, BookTypes DEF BooksTyped
<1> QED BY <1>3, <1>5, <1>6, <1>12, <1>13, OneRecordKeeps DEF b, d, r, e, t, rr, ee, tt, k, kk

\* A step that writes no book and no account.
LEMMA NothingWritten ==
  ASSUME TInv, TInv', BInv,
         UNCHANGED <<cfg, records, auctions, credits, collected, withdrawn, unreconciled,
                     calls, accounts>>
  PROVE  BInv'
<1>1. /\ UNCHANGED <<Prepaid, CreditsOutstanding, Escrowed, Transit>>
      /\ NotedOf(calls)' = NotedOf(calls)
  BY Untouched
<1>2. Liabilities' + collected' + Transit' = Liabilities + collected + Transit
  BY <1>1 DEF Liabilities
<1>3. NotedOf(calls)' <= NotedOf(calls)
  BY <1>1, BookTypes DEF BooksTyped
<1> QED BY <1>2, <1>3, HandlerKeeps

-----------------------------------------------------------------------------
(* The handlers up to their await                                          *)

\* A call that has not moved anything yet is opened.
LEMMA CallOpened ==
  ASSUME TInv, TInv', BInv, UNCHANGED <<canisterVars, accounts>>,
         NEW k \in CallIds, NEW c, Await(k, c),
         \/ c.op \in Payments /\ c.stage = "sent"
         \/ c.stage = "asked"
  PROVE  BInv'
<1>1. InTransit(c) = 0 /\ InTransit(calls[k]) = 0 /\ Noted(c) = 0 /\ Noted(calls[k]) = 0
  BY DEF Await, InTransit, Noted, Payments
<1>2. calls' = [calls EXCEPT ![k] = c]
  BY DEF Await
<1>3. InTransit(c) = InTransit(calls[k]) /\ Noted(c) <= Noted(calls[k])
  BY <1>1
<1> QED BY <1>2, <1>3, OnlyCallKeeps

\* buy, deposit, bid, fund_self and set_harberger_config only open a call.
LEMMA OpeningBooks ==
  ASSUME TInv, TInv', BInv, NEW k \in CallIds, NEW p \in Principals,
         \/ \E n \in FlatNames, t \in FlatTargets, price \in Prices, x \in Amounts :
              Buy(k, p, n, t, price, x)
         \/ \E n \in FlatNames, x \in Amounts : Deposit(k, p, n, x) \/ PlaceBid(k, p, n, x)
         \/ \E x \in Payouts : FundSelf(k, p, x)
         \/ \E c \in Configs : SetHarbergerConfig(k, p, c)
  PROVE  BInv'
<1>1. UNCHANGED <<canisterVars, accounts>>
  BY DEF Buy, Deposit, PlaceBid, FundSelf, SetHarbergerConfig, ledgerVars
<1> DEFINE opens == \E c : /\ Await(k, c)
                           /\ \/ c.op \in Payments /\ c.stage = "sent"
                              \/ c.stage = "asked"
<1>2. opens
  <2>1. ASSUME NEW n \in FlatNames, NEW t \in FlatTargets, NEW price \in Prices,
               NEW x \in Amounts, Buy(k, p, n, t, price, x)
        PROVE  opens
    <3> DEFINE c == [Request("buy", "sent", p) EXCEPT
                       !.name = n, !.alias = t, !.price = price,
                       !.amount = records[n].flat.price + x,
                       !.before = SnapshotOf(cfg, records[n])]
    <3>1. Await(k, c)
      BY <2>1 DEF Buy
    <3>2. c.op = "buy" /\ c.stage = "sent"
      BY DEF Request
    <3> HIDE DEF c
    <3> QED BY <3>1, <3>2 DEF Payments
  <2>2. ASSUME NEW n \in FlatNames, NEW x \in Amounts, Deposit(k, p, n, x)
        PROVE  opens
    <3> DEFINE c == [Request("deposit", "sent", p) EXCEPT
                       !.name = n, !.amount = x, !.before = SnapshotOf(cfg, records[n])]
    <3>1. Await(k, c)
      BY <2>2 DEF Deposit
    <3>2. c.op = "deposit" /\ c.stage = "sent"
      BY DEF Request
    <3> HIDE DEF c
    <3> QED BY <3>1, <3>2 DEF Payments
  <2>3. ASSUME NEW n \in FlatNames, NEW x \in Amounts, PlaceBid(k, p, n, x)
        PROVE  opens
    <3> DEFINE c == [Request("bid", "sent", p) EXCEPT !.name = n, !.amount = x]
    <3>1. Await(k, c)
      BY <2>3 DEF PlaceBid
    <3>2. c.op = "bid" /\ c.stage = "sent"
      BY DEF Request
    <3> HIDE DEF c
    <3> QED BY <3>1, <3>2 DEF Payments
  <2>4. ASSUME NEW x \in Payouts, FundSelf(k, p, x) PROVE opens
    BY <2>4 DEF FundSelf, Request
  <2>5. ASSUME NEW x \in Configs, SetHarbergerConfig(k, p, x) PROVE opens
    BY <2>5 DEF SetHarbergerConfig, Request
  <2> QED BY <2>1, <2>2, <2>3, <2>4, <2>5
<1> QED BY <1>1, <1>2, CallOpened

\* withdraw takes the credit and has it in transit.
LEMMA WithdrawBooks ==
  ASSUME TInv, TInv', BInv, NEW k \in CallIds, NEW p \in Principals, NEW amount \in Payouts,
         Withdraw(k, p, amount)
  PROVE  BInv'
<1> DEFINE q == Request("withdraw", "sent", p)
           c == [q EXCEPT !.amount = amount]
           w == credits[p] - amount
<1>1. /\ calls[k] = None /\ calls' = [calls EXCEPT ![k] = c]
      /\ credits' = [credits EXCEPT ![p] = w] /\ credits[p] >= amount
      /\ UNCHANGED <<cfg, records, auctions, collected, withdrawn, unreconciled, accounts>>
  BY DEF Withdraw, Await, ledgerVars
<1>2. credits \in [Principals -> Nat] /\ amount \in Nat /\ credits[p] \in Nat /\ cfg \in Config
  BY MarketAssumption DEF TInv, TypeOK
<1>3. w \in Nat /\ w = credits[p] - amount
  BY <1>1, <1>2
<1>4. q \in Call /\ q.op = "withdraw" /\ q.stage = "sent"
  BY <1>2, RequestType DEF Request
<1> HIDE DEF q, w
<1>5. c # None /\ c.op = "withdraw" /\ c.stage = "sent" /\ c.amount = amount
  BY <1>2, <1>4, StartAssumption DEF Call
<1> HIDE DEF c
<1>6. InTransit(c) = amount /\ Noted(c) = 0 /\ InTransit(calls[k]) = 0 /\ Noted(calls[k]) = 0
  BY <1>1, <1>5 DEF InTransit, Noted, Payments
<1>7. /\ Transit \in Nat /\ NotedOf(calls) \in Nat
      /\ Transit' = Transit - InTransit(calls[k]) + InTransit(c)
      /\ NotedOf(calls') = NotedOf(calls) - Noted(calls[k]) + Noted(c)
  BY <1>1, CallsChange
<1>8. CreditsOutstanding' = CreditsOutstanding - credits[p] + w
  <2>1. w \in Nat /\ IsFiniteSet(Principals)
    BY <1>3, MarketAssumption
  <2>2. Total([credits EXCEPT ![p] = w]) = Total(credits) - credits[p] + w
    BY <1>2, <2>1, TotalUpdate, Zenon
  <2> QED BY <1>1, <2>2 DEF CreditsOutstanding
<1>9. UNCHANGED <<Prepaid, Escrowed>>
  BY <1>1, Untouched
<1> DEFINE m == NotedOf(calls)  n == NotedOf(calls)'
           a == Prepaid  b == CreditsOutstanding  e == Escrowed  t == Transit  g == collected
           aa == Prepaid'  bb == CreditsOutstanding'  ee == Escrowed'  tt == Transit'
           gg == collected'  v == credits[p]
<1>10. /\ a \in Nat /\ b \in Nat /\ e \in Nat /\ t \in Nat /\ g \in Nat /\ m \in Nat
       /\ aa = a /\ ee = e /\ gg = g /\ bb = b - v + w /\ tt = t - 0 + amount
       /\ n = m - 0 + 0 /\ v \in Nat /\ w = v - amount
  BY <1>1, <1>2, <1>3, <1>6, <1>7, <1>8, <1>9, BookTypes DEF BooksTyped
<1> HIDE DEF m, n, a, b, e, t, g, aa, bb, ee, tt, gg, v
<1>11. (aa + bb + ee) + gg + tt = (a + b + e) + g + t /\ n <= m
  BY <1>2, <1>3, <1>10
<1>12. Liabilities' + collected' + Transit' = Liabilities + collected + Transit
  BY <1>11 DEF a, b, e, t, g, aa, bb, ee, tt, gg, Liabilities
<1>13. NotedOf(calls)' <= NotedOf(calls)
  BY <1>11 DEF m, n
<1> QED BY <1>1, <1>12, <1>13, HandlerKeeps

-----------------------------------------------------------------------------
(* The ledger                                                              *)

\* What the ledger moves is in transit until the handler resumes.
LEMMA AccountMoves ==
  ASSUME TInv, TInv', BInv, UNCHANGED canisterVars,
         NEW k \in CallIds, NEW c, calls' = [calls EXCEPT ![k] = c],
         Noted(c) <= Noted(calls[k]),
         Account' + InTransit(calls[k]) = Account + InTransit(c),
         \A l \in Ledgers \ {cfg.ledger} : accounts'[l][Canister] = accounts[l][Canister]
  PROVE  BInv'
<1>1. UNCHANGED <<cfg, records, auctions, credits, collected, withdrawn, unreconciled>>
  BY DEF canisterVars, books
<1>2. Liabilities' = Liabilities
  BY <1>1 DEF Liabilities, Prepaid, CreditsOutstanding, Escrowed, Balances
<1>3. /\ InTransit(calls[k]) \in Nat /\ InTransit(c) \in Nat
      /\ Noted(calls[k]) \in Nat /\ Noted(c) \in Nat
      /\ Transit \in Nat /\ NotedOf(calls) \in Nat
      /\ Transit' = Transit - InTransit(calls[k]) + InTransit(c)
      /\ NotedOf(calls)' = NotedOf(calls) - Noted(calls[k]) + Noted(c)
  BY <1>1, CallsChange
<1>4. /\ Liabilities \in Nat /\ Account \in Nat /\ collected \in Nat /\ withdrawn \in Nat
      /\ unreconciled \in Nat
  BY BookTypes DEF BooksTyped
<1>5. Account' \in Nat
  BY BookTypesNext DEF BooksTyped
<1>6. UndoIsExact'
  <2> DEFINE m == NotedOf(calls)  n == NotedOf(calls)'
             y == Noted(calls[k])  z == Noted(c)
  <2>1. /\ m \in Nat /\ y \in Nat /\ z \in Nat /\ n = m - y + z /\ z <= y /\ m <= withdrawn
        /\ withdrawn \in Nat
    BY <1>3, <1>4 DEF BInv, UndoIsExact, NotedOf
  <2> HIDE DEF m, n, y, z
  <2>2. n <= withdrawn
    BY <2>1
  <2> QED BY <1>1, <2>2 DEF n, UndoIsExact, NotedOf
<1>7. NothingStranded'
  BY <1>1 DEF BInv, NothingStranded
<1>8. BooksBalance'
  <2> DEFINE t == Transit  u == Transit'  x == InTransit(calls[k])  y == InTransit(c)
             a == Account  b == Account'  l == Liabilities  m == Liabilities'
             g == collected  h == collected'  w == withdrawn  v == withdrawn'
             r == unreconciled  s == unreconciled'
  <2>1. /\ t \in Nat /\ x \in Nat /\ y \in Nat /\ u = t - x + y
        /\ a \in Nat /\ b \in Nat /\ b + x = a + y
        /\ l \in Nat /\ m = l /\ g \in Nat /\ h = g /\ w \in Nat /\ v = w
        /\ r \in Nat /\ s = r
    BY <1>1, <1>2, <1>3, <1>4, <1>5
  <2>2. l + g - w + t <= a /\ a <= l + g - w + t + r
    BY DEF BInv, BooksBalance, Booked
  <2> HIDE DEF t, u, x, y, a, b, l, m, g, h, w, v, r, s
  <2>3. m + h - v + u <= b /\ b <= m + h - v + u + s
    BY <2>1, <2>2
  <2> QED BY <2>3 DEF t, u, x, y, a, b, l, m, g, h, w, v, r, s, BooksBalance, Booked
<1> QED BY <1>6, <1>7, <1>8 DEF BInv

\* What a request has in transit at each stage.
LEMMA InTransitAt ==
  ASSUME NEW c \in Call, CallSound(c),
         NEW stage \in {"asked", "quoted", "sent", "moved", "refused", "charged"}
  PROVE  LET d == [c EXCEPT !.stage = stage] IN
         /\ d # None
         /\ InTransit(d) =
              CASE c.op \in Payments /\ stage = "moved" -> c.amount
                [] c.op \in {"withdraw", "fund_self"} /\ stage \in {"sent", "refused"} -> c.amount
                [] stage = "charged" -> c.amount - c.cfg.fee
                [] OTHER -> 0
         /\ Noted(d) = IF c.op = "fund_self" /\ stage \in {"sent", "refused", "charged"}
                       THEN c.amount ELSE 0
<1> DEFINE d == [c EXCEPT !.stage = stage]
<1>1. d # None /\ d.op = c.op /\ d.stage = stage /\ d.amount = c.amount /\ d.cfg = c.cfg
  <2>1. d \in Call
    BY DEF Call
  <2> QED BY <2>1, StartAssumption DEF Call
<1> HIDE DEF d
<1>2. /\ InTransit(d) =
           CASE c.op \in Payments /\ stage = "moved" -> c.amount
             [] c.op \in {"withdraw", "fund_self"} /\ stage \in {"sent", "refused"} -> c.amount
             [] stage = "charged" -> c.amount - c.cfg.fee
             [] OTHER -> 0
      /\ Noted(d) = IF c.op = "fund_self" /\ stage \in {"sent", "refused", "charged"}
                    THEN c.amount ELSE 0
  BY <1>1 DEF InTransit, Noted
<1> QED BY <1>1, <1>2 DEF d

\* A request the ledger executes, refuses or answers.
LEMMA LedgerBooks ==
  ASSUME TInv, TInv', BInv, FeeKept, NEW k \in CallIds, Execute(k)
  PROVE  BInv'
<1> DEFINE c == calls[k]
           l == c.cfg.ledger
           x == c.amount
           f == c.cfg.fee
<1>1. calls[k] # None /\ UNCHANGED <<canisterVars, fee>>
  BY DEF Execute, LedgerPulls, LedgerPays, LedgerFunds, LedgerReturns, LedgerRefuses,
         LedgerQuotes, TransferFrom, Transfer, WithdrawCycles, ChargeFee, Sent, ledgerVars
<1>2. /\ calls[k] \in Call /\ CallSound(calls[k]) /\ x \in Nat /\ f \in Nat
      /\ calls[k].cfg \in Config /\ c.who \in Principals
  BY <1>1, Resumed DEF Config
<1>3. /\ accounts \in [Ledgers -> [Holders -> Nat]] /\ cfg.ledger \in Ledgers
      /\ Canister \in Holders /\ c.who \in Holders /\ c.who # Canister
  BY <1>2, MarketAssumption DEF TInv, TypeOK, LedgerTypeOK, Config, Holders
<1>4. c.op # "configure" => l = cfg.ledger
  BY <1>2 DEF CallSound
<1>5. c.op \in {"withdraw", "fund_self"} => x > f
  BY <1>2 DEF CallSound
<1>6. cfg' = cfg
  BY <1>1 DEF canisterVars
<1> DEFINE d(stage) == [c EXCEPT !.stage = stage]
           a == Account  b == Account'
           i == InTransit(c)
<1>7. ASSUME NEW stage \in {"moved", "refused", "charged"}, NEW y \in Nat,
             Stage(k, stage), Noted(d(stage)) <= Noted(c), InTransit(d(stage)) = y,
             b + i = a + y,
             \A m \in Ledgers \ {cfg.ledger} : accounts'[m][Canister] = accounts[m][Canister]
      PROVE  BInv'
  <2>1. calls' = [calls EXCEPT ![k] = d(stage)]
    BY <1>7, <1>1 DEF Stage, TInv, TypeOK
  <2>2. Account' + InTransit(calls[k]) = Account + InTransit(d(stage))
    BY <1>7
  <2>3. UNCHANGED canisterVars
    BY <1>1
  <2> HIDE DEF a, b, d
  <2> QED BY <1>7, <2>1, <2>2, <2>3, AccountMoves
<1>8. a \in Nat /\ a = accounts[cfg.ledger][Canister] /\ b = accounts'[cfg.ledger][Canister]
  BY <1>3, <1>6 DEF Account
<1>9. CASE LedgerPulls(k)
  <2>1. c.op \in Payments /\ c.stage = "sent" /\ Stage(k, "moved") /\ l = cfg.ledger
        /\ TransferFrom(l, c.who, x, f)
    BY <1>4, <1>9 DEF LedgerPulls, Sent, Payments
  <2>2. i = 0 /\ Noted(c) = 0
    BY <1>1, <2>1 DEF InTransit, Noted, Payments
  <2>3. InTransit(d("moved")) = x /\ Noted(d("moved")) = 0
    BY <1>2, <2>1, InTransitAt DEF Payments
  <2>4. /\ b = a + x
        /\ \A m \in Ledgers \ {cfg.ledger} : accounts'[m][Canister] = accounts[m][Canister]
    <3> HIDE DEF l, x, f
    <3> QED BY <1>2, <1>3, <1>8, <2>1 DEF TransferFrom
  <2>5. b + i = a + x /\ Noted(d("moved")) <= Noted(c)
    <3> HIDE DEF a, b, i, x, d
    <3> QED BY <1>2, <1>8, <2>2, <2>3, <2>4
  <2> HIDE DEF a, b, i, x, d, c, l
  <2> QED BY <1>2, <1>7, <2>1, <2>3, <2>4, <2>5
<1>10. CASE LedgerPays(k)
  <2>1. c.op = "withdraw" /\ c.stage = "sent" /\ Stage(k, "moved") /\ l = cfg.ledger
        /\ Transfer(l, c.who, x - f, f)
    BY <1>4, <1>10 DEF LedgerPays, Sent
  <2>2. i = x /\ Noted(c) = 0
    BY <1>1, <2>1 DEF InTransit, Noted, Payments
  <2>3. InTransit(d("moved")) = 0 /\ Noted(d("moved")) = 0
    BY <1>2, <2>1, InTransitAt DEF Payments
  <2>4. /\ b = a - ((x - f) + f)
        /\ \A m \in Ledgers \ {cfg.ledger} : accounts'[m][Canister] = accounts[m][Canister]
    <3> HIDE DEF l, x, f
    <3> QED BY <1>2, <1>3, <1>8, <2>1 DEF Transfer
  <2>5. b + i = a + 0 /\ Noted(d("moved")) <= Noted(c)
    <3> HIDE DEF a, b, i, x, f, d
    <3> QED BY <1>2, <1>8, <2>2, <2>3, <2>4
  <2> HIDE DEF a, b, i, x, d, c, l
  <2> QED BY <1>2, <1>7, <2>1, <2>3, <2>4, <2>5
<1>11. CASE LedgerFunds(k)
  <2>1. c.op = "fund_self" /\ c.stage = "sent" /\ Stage(k, "moved") /\ l = cfg.ledger
        /\ WithdrawCycles(l, x - f)
    BY <1>4, <1>11 DEF LedgerFunds, Sent
  <2>2. i = x /\ Noted(c) = x
    BY <1>1, <2>1 DEF InTransit, Noted, Payments
  <2>3. InTransit(d("moved")) = 0 /\ Noted(d("moved")) = 0
    BY <1>2, <2>1, InTransitAt DEF Payments
  <2>4. fee[l] = f
    BY <1>1, <2>1 DEF FeeKept, Replied
  <2>5. /\ b = a - ((x - f) + f)
        /\ \A m \in Ledgers \ {cfg.ledger} : accounts'[m][Canister] = accounts[m][Canister]
    <3> HIDE DEF l, x, f
    <3> QED BY <1>2, <1>3, <1>8, <2>1, <2>4 DEF WithdrawCycles
  <2>6. b + i = a + 0 /\ Noted(d("moved")) <= Noted(c)
    <3> HIDE DEF a, b, i, x, f, d
    <3> QED BY <1>2, <1>8, <2>2, <2>3, <2>5
  <2> HIDE DEF a, b, i, x, d, c, l
  <2> QED BY <1>2, <1>7, <2>1, <2>3, <2>5, <2>6
<1>12. CASE LedgerReturns(k)
  <2>1. c.op = "fund_self" /\ c.stage = "sent" /\ Stage(k, "charged") /\ l = cfg.ledger
        /\ ChargeFee(l, x - f)
    BY <1>4, <1>12 DEF LedgerReturns, Sent
  <2>2. i = x /\ Noted(c) = x
    BY <1>1, <2>1 DEF InTransit, Noted, Payments
  <2>3. InTransit(d("charged")) = x - f /\ Noted(d("charged")) = x
    BY <1>2, <2>1, InTransitAt DEF Payments
  <2>4. fee[l] = f
    BY <1>1, <2>1 DEF FeeKept, Replied
  <2>5. /\ b = a - f
        /\ \A m \in Ledgers \ {cfg.ledger} : accounts'[m][Canister] = accounts[m][Canister]
    <3> HIDE DEF l, x, f
    <3> QED BY <1>2, <1>3, <1>8, <2>1, <2>4 DEF ChargeFee
  <2>6. b + i = a + (x - f) /\ Noted(d("charged")) <= Noted(c) /\ x - f \in Nat
    <3>1. x > f
      BY <1>5, <2>1
    <3> HIDE DEF a, b, i, x, f, d
    <3> QED BY <1>2, <1>8, <2>2, <2>3, <2>5, <3>1
  <2> HIDE DEF a, b, i, x, d, c, l, f
  <2> QED BY <1>2, <1>7, <2>1, <2>3, <2>5, <2>6
<1>13. CASE LedgerRefuses(k)
  <2>1. c.stage = "sent" /\ calls' = [calls EXCEPT ![k] = d("refused")] /\ UNCHANGED accounts
        /\ c.op # "configure"
    BY <1>1, <1>2, <1>13 DEF LedgerRefuses, Sent, Stage, ledgerVars, TInv, TypeOK, CallSound
  <2>2. InTransit(d("refused")) = InTransit(c) /\ Noted(d("refused")) = Noted(c) /\ Noted(c) \in Nat
    <3>1. InTransit(d("refused")) = IF c.op \in {"withdraw", "fund_self"} THEN x ELSE 0
      BY <1>2, InTransitAt
    <3>2. Noted(d("refused")) = IF c.op = "fund_self" THEN x ELSE 0
      BY <1>2, InTransitAt
    <3>3. InTransit(c) = IF c.op \in {"withdraw", "fund_self"} THEN x ELSE 0
      BY <1>1, <2>1 DEF InTransit, Payments
    <3>4. Noted(c) = IF c.op = "fund_self" THEN x ELSE 0
      BY <1>1, <2>1 DEF Noted
    <3> HIDE DEF d, c, x
    <3> QED BY <1>2, <3>1, <3>2, <3>3, <3>4
  <2>3. Noted(d("refused")) <= Noted(c)
    BY <2>2
  <2> HIDE DEF d
  <2> QED BY <1>1, <2>1, <2>2, <2>3, OnlyCallKeeps
<1>14. CASE LedgerQuotes(k)
  <2> DEFINE q == fee[IF c.op = "configure" THEN c.next.ledger ELSE l]
             e == [c EXCEPT !.stage = "quoted", !.quote = q]
  <2>1. c.stage = "asked" /\ calls' = [calls EXCEPT ![k] = e] /\ UNCHANGED accounts
    BY <1>1, <1>2, <1>14 DEF LedgerQuotes, ledgerVars, TInv, TypeOK
  <2> HIDE DEF q
  <2>2. e.op = c.op /\ e.stage = "quoted"
    BY <1>2 DEF Call
  <2> HIDE DEF e
  <2>3. InTransit(c) = 0 /\ Noted(c) = 0 /\ InTransit(e) = 0 /\ Noted(e) = 0
    BY <1>1, <2>1, <2>2 DEF InTransit, Noted, Payments
  <2>4. InTransit(e) = InTransit(calls[k]) /\ Noted(e) <= Noted(calls[k])
    BY <2>3
  <2> QED BY <1>1, <2>1, <2>4, OnlyCallKeeps
<1> QED BY <1>9, <1>10, <1>11, <1>12, <1>13, <1>14 DEF Execute

-----------------------------------------------------------------------------
(* The handlers resumed                                                    *)

\* A call that ends takes what it had in transit with it.
LEMMA CallEnds ==
  ASSUME TInv, TInv', cfg' = cfg, NEW k \in CallIds, calls[k] # None, Finish(k)
  PROVE  /\ InTransit(calls[k]) \in Nat /\ Noted(calls[k]) \in Nat
         /\ Transit \in Nat /\ NotedOf(calls) \in Nat
         /\ Noted(calls[k]) <= NotedOf(calls)
         /\ Transit' = Transit - InTransit(calls[k])
         /\ NotedOf(calls)' = NotedOf(calls) - Noted(calls[k])
         /\ NotedOf(calls)' <= NotedOf(calls)
<1>1. calls' = [calls EXCEPT ![k] = None]
  BY DEF Finish
<1>2. InTransit(None) = 0 /\ Noted(None) = 0
  BY DEF InTransit, Noted
<1>3. /\ InTransit(calls[k]) \in Nat /\ Noted(calls[k]) \in Nat
      /\ Transit \in Nat /\ NotedOf(calls) \in Nat
      /\ Noted(calls[k]) <= NotedOf(calls)
      /\ Transit' = Transit - InTransit(calls[k]) + InTransit(None)
      /\ NotedOf(calls') = NotedOf(calls) - Noted(calls[k]) + Noted(None)
  BY <1>1, CallsChange
<1> DEFINE t == Transit  u == Transit'  m == NotedOf(calls)  n == NotedOf(calls)'
           x == InTransit(calls[k])  y == Noted(calls[k])
<1>4. /\ x \in Nat /\ y \in Nat /\ t \in Nat /\ m \in Nat /\ y <= m
      /\ u = t - x + 0 /\ n = m - y + 0
  BY <1>2, <1>3
<1> HIDE DEF t, u, m, n, x, y
<1>5. u = t - x /\ n = m - y /\ n <= m
  BY <1>4
<1> QED BY <1>3, <1>5 DEF t, u, m, n, x, y

\* A payment that comes too late, and a payout that failed, are credited.
LEMMA CreditedBack ==
  ASSUME TInv, TInv', BInv, NEW k \in CallIds, calls[k] # None, Finish(k), CreditBack(k),
         InTransit(calls[k]) = calls[k].amount,
         UNCHANGED <<cfg, records, auctions, collected, withdrawn, unreconciled, accounts>>
  PROVE  BInv'
<1> DEFINE x == calls[k].amount
<1>1. x \in Nat /\ calls[k].who \in Principals
  BY Resumed
<1>2. CreditsOutstanding \in Nat /\ CreditsOutstanding' = CreditsOutstanding + x
  BY <1>1, CreditAdded DEF CreditBack, AddCredit
<1>3. Transit \in Nat /\ Transit' = Transit - x /\ NotedOf(calls)' <= NotedOf(calls)
  BY CallEnds
<1>4. UNCHANGED <<Prepaid, Escrowed>>
  BY Untouched
<1> DEFINE a == Prepaid  b == CreditsOutstanding  e == Escrowed  t == Transit  g == collected
           aa == Prepaid'  bb == CreditsOutstanding'  ee == Escrowed'  tt == Transit'
           gg == collected'
<1>5. /\ a \in Nat /\ b \in Nat /\ e \in Nat /\ t \in Nat /\ g \in Nat
      /\ aa = a /\ ee = e /\ gg = g /\ bb = b + x /\ tt = t - x
  BY <1>2, <1>3, <1>4, BookTypes DEF BooksTyped
<1> HIDE DEF x, a, b, e, t, g, aa, bb, ee, tt, gg
<1>6. (aa + bb + ee) + gg + tt = (a + b + e) + g + t
  BY <1>1, <1>5
<1>7. Liabilities' + collected' + Transit' = Liabilities + collected + Transit
  BY <1>6 DEF a, b, e, t, g, aa, bb, ee, tt, gg, Liabilities
<1> QED BY <1>3, <1>7, HandlerKeeps

\* A paid buy gives the payment to the new balance, the price and the
\* unspent balance to the seller, and the tax to the treasury.
LEMMA BuyPaidBooks ==
  ASSUME TInv, TInv', BInv, NEW k \in CallIds, BuyPaid(k)
  PROVE  BInv'
<1> DEFINE call == calls[k]
           n == call.name
           r == records[n]
           h == Settle(call.cfg, r.flat, now)
           x == call.amount
           v == call.before.price
<1>1. /\ call # None /\ call.op = "buy" /\ call.stage = "moved" /\ Finish(k)
      /\ UNCHANGED <<cfg, auctions, withdrawn, unreconciled, accounts>>
  BY DEF BuyPaid, Replied, ledgerVars
<1>2. /\ call \in Call /\ CallSound(call) /\ call.cfg \in Config /\ call.cfg.rate \in Nat
      /\ x \in Nat /\ call.price \in Nat /\ call.who \in Principals
      /\ credits \in [Principals -> Nat] /\ now \in Nat
  BY <1>1, Resumed
<1>3. n \in FlatNames /\ call.alias \in FlatTargets /\ v \in Nat /\ x - v \in Nat
  BY <1>1, <1>2 DEF CallSound, Payments, Snapshots
<1>4. InTransit(calls[k]) = x
  BY <1>1 DEF InTransit, Payments
<1>5. CASE ~Unchanged(k)
  <2>1. CreditBack(k) /\ UNCHANGED <<records, collected>>
    BY <1>5 DEF BuyPaid
  <2> QED BY <1>1, <1>4, <2>1, CreditedBack
<1>6. CASE Unchanged(k)
  <2> DEFINE g == NewHolding(call.price, x - v, now)
             s == [owner |-> call.who, target |-> call.alias, previous |-> r.target,
                   changed |-> now, flat |-> g]
             tax == Taken(call.cfg, r.flat, now)
             due == v + h.balance
             b == BalanceOf(r)  d == BalanceOf(s)  z == h.balance
  <2>1. /\ credits' = [credits EXCEPT ![r.owner] = @ + due]
        /\ records' = [records EXCEPT ![n] = s]
        /\ collected' = collected + tax
    BY <1>6 DEF BuyPaid, CommitFlat, AddCredit
  <2>2. r \in Record /\ r.flat \in Holding /\ HoldingSound(r.flat, now)
        /\ r.target \in FlatTargets /\ r.owner \in Principals /\ r.flat.balance \in Nat
    BY <1>3, <1>6 DEF Unchanged, TInv, TypeOK, HoldingsSound, Record, Holding
  <2>3. tax \in 0..r.flat.balance /\ z = r.flat.balance - tax
    BY <1>2, <2>2, SettleSound
  <2>4. b = r.flat.balance
    BY <2>2, StartAssumption DEF BalanceOf
  <2>5. tax \in Nat /\ z \in Nat /\ z = b - tax /\ b \in Nat /\ due \in Nat /\ due = v + z
    <3>1. r.flat.balance \in Nat /\ due = v + z
      BY <2>2
    <3> HIDE DEF z, tax, b, due, v
    <3> QED BY <1>3, <2>3, <2>4, <3>1
  <2>6. g \in Holding /\ g.balance = x - v
    BY <1>2, <1>3, NewHoldingSound DEF NewHolding
  <2> HIDE DEF g
  <2>7. s \in Record /\ s.flat = g
    BY <1>2, <1>3, <2>2, <2>6 DEF Record
  <2> HIDE DEF s
  <2>8. d = x - v
    BY <2>6, <2>7, StartAssumption DEF BalanceOf
  <2> HIDE DEF due
  <2>9. CreditsOutstanding' = CreditsOutstanding + due
    BY <2>1, <2>2, <2>5, CreditAdded
  <2>10. Transit' = Transit - x /\ NotedOf(calls)' <= NotedOf(calls)
    BY <1>1, <1>4, CallEnds
  <2>11. Escrowed' = Escrowed
    BY <1>1, Untouched
  <2> DEFINE c == CreditsOutstanding  e == Escrowed  t == Transit  m == collected
             cc == CreditsOutstanding'  ee == Escrowed'  tt == Transit'  mm == collected'
  <2>12. /\ c \in Nat /\ e \in Nat /\ t \in Nat /\ m \in Nat
         /\ cc = c + due /\ ee = e /\ tt = t - x /\ mm = m + tax
    BY <2>1, <2>9, <2>10, <2>11, BookTypes DEF BooksTyped
  <2> HIDE DEF x, v, tax, b, d, z, c, e, t, m, cc, ee, tt, mm
  <2>13. d + cc + ee + mm + tt = b + c + e + m + t
    BY <1>2, <1>3, <2>5, <2>8, <2>12
  <2>14. BalanceOf(s) + CreditsOutstanding' + Escrowed' + collected' + Transit'
           = BalanceOf(records[n]) + CreditsOutstanding + Escrowed + collected + Transit
    BY <2>13 DEF d, b, c, e, t, m, cc, ee, tt, mm
  <2> QED BY <1>1, <1>3, <2>1, <2>7, <2>10, <2>14, OneRecordKeeps
<1> QED BY <1>5, <1>6

\* A paid deposit goes to the balance.
LEMMA DepositPaidBooks ==
  ASSUME TInv, TInv', BInv, NEW k \in CallIds, DepositPaid(k)
  PROVE  BInv'
<1> DEFINE call == calls[k]
           n == call.name
           r == records[n]
           x == call.amount
           ok == Unchanged(k) /\ CanTopUp(call.cfg, r.flat, x, now)
<1>1. /\ call # None /\ call.op = "deposit" /\ call.stage = "moved" /\ Finish(k)
      /\ UNCHANGED <<cfg, auctions, withdrawn, unreconciled, accounts>>
  BY DEF DepositPaid, Replied, ledgerVars
<1>2. /\ call \in Call /\ CallSound(call) /\ call.cfg \in Config /\ call.cfg.rate \in Nat
      /\ x \in Nat /\ now \in Nat
  BY <1>1, Resumed
<1>3. n \in FlatNames
  BY <1>1, <1>2 DEF CallSound, Payments
<1>4. InTransit(calls[k]) = x
  BY <1>1 DEF InTransit, Payments
<1>5. CASE ~ok
  <2>1. CreditBack(k) /\ UNCHANGED <<records, collected>>
    BY <1>5 DEF DepositPaid
  <2> QED BY <1>1, <1>4, <2>1, CreditedBack
<1>6. CASE ok
  <2> DEFINE g == TopUp(call.cfg, r.flat, x, now)
             s == [r EXCEPT !.flat = g]
             tax == Taken(call.cfg, r.flat, now)
             b == BalanceOf(r)  d == BalanceOf(s)
  <2>1. r \in Record /\ r.flat \in Holding /\ HoldingSound(r.flat, now)
        /\ r.flat.balance \in Nat
    BY <1>3, <1>6 DEF Unchanged, TInv, TypeOK, HoldingsSound, Record, Holding
  <2>2. /\ UNCHANGED credits
        /\ records' = [records EXCEPT ![n] = s]
        /\ collected' = collected + tax
    BY <1>6 DEF DepositPaid, CommitFlat
  <2>3. tax \in 0..r.flat.balance
    BY <1>2, <2>1, SettleSound
  <2>4. g \in Holding /\ g.balance = r.flat.balance - tax + x
    BY <1>2, <2>1, TopUpSound
  <2> HIDE DEF g
  <2>5. s \in Record /\ s.flat = g
    BY <2>1, <2>4 DEF Record
  <2> HIDE DEF s
  <2>6. b = r.flat.balance /\ d = r.flat.balance - tax + x
    BY <2>1, <2>4, <2>5, StartAssumption DEF BalanceOf
  <2>7. Transit' = Transit - x /\ NotedOf(calls)' <= NotedOf(calls)
    BY <1>1, <1>4, CallEnds
  <2>8. UNCHANGED <<Escrowed, CreditsOutstanding>>
    BY <1>1, <2>2, Untouched
  <2> DEFINE c == CreditsOutstanding  e == Escrowed  t == Transit  m == collected
             cc == CreditsOutstanding'  ee == Escrowed'  tt == Transit'  mm == collected'
             y == r.flat.balance
  <2>9. /\ c \in Nat /\ e \in Nat /\ t \in Nat /\ m \in Nat /\ y \in Nat /\ tax \in Nat
        /\ cc = c /\ ee = e /\ tt = t - x /\ mm = m + tax /\ b = y /\ d = y - tax + x
    BY <2>1, <2>2, <2>3, <2>6, <2>7, <2>8, BookTypes DEF BooksTyped
  <2> HIDE DEF x, tax, b, d, y, c, e, t, m, cc, ee, tt, mm
  <2>10. d + cc + ee + mm + tt = b + c + e + m + t
    BY <1>2, <2>9
  <2>11. BalanceOf(s) + CreditsOutstanding' + Escrowed' + collected' + Transit'
           = BalanceOf(records[n]) + CreditsOutstanding + Escrowed + collected + Transit
    BY <2>10 DEF d, b, c, e, t, m, cc, ee, tt, mm
  <2> QED BY <1>1, <1>3, <2>2, <2>5, <2>7, <2>11, OneRecordKeeps
<1> QED BY <1>5, <1>6

\* A new bid puts its amount in escrow in the place of the bidder's old one.
LEMMA BidEscrow ==
  ASSUME NEW a \in Running, NEW p \in Principals, NEW x \in Nat
  PROVE  /\ DepositsOf(a) \in Nat /\ Deposits(a)[p] \in Nat
         /\ DepositsOf(AddBid(a, p, x)) = DepositsOf(a) - Deposits(a)[p] + x
<1> DEFINE b == SealedBid(x)
           c == AddBid(a, p, x)
<1>1. a.bids \in [Principals -> Bid \cup {None}]
  BY DEF Running
<1>2. b \in Bid /\ b.deposit = x
  BY DEF SealedBid, Bid
<1>3. c = [a EXCEPT !.bids[p] = b]
  BY DEF AddBid
<1> HIDE DEF b, c
<1>4. c \in Running /\ c.bids = [a.bids EXCEPT ![p] = b]
  BY <1>2, <1>3 DEF Running
<1>5. Deposits(c) = [Deposits(a) EXCEPT ![p] = x]
  BY <1>1, <1>2, <1>4, StartAssumption DEF Deposits
<1>6. Deposits(a) \in [Principals -> Nat] /\ IsFiniteSet(Principals)
  BY DepositsType, MarketAssumption
<1>7. Total([Deposits(a) EXCEPT ![p] = x]) = Total(Deposits(a)) - Deposits(a)[p] + x
  BY <1>6, TotalUpdate, Zenon
<1>8. Total(Deposits(a)) \in Nat
  BY <1>6, CoinsFinite
<1>9. DepositsOf(a) = Total(Deposits(a)) /\ DepositsOf(c) = Total(Deposits(c))
  BY <1>4, StartAssumption DEF DepositsOf
<1> QED BY <1>5, <1>6, <1>7, <1>8, <1>9 DEF c

\* A paid bid closes an ended auction, and goes to escrow or to credit.
LEMMA BidPaidBooks ==
  ASSUME TInv, TInv', BInv, NEW k \in CallIds, BidPaid(k)
  PROVE  BInv'
<1> DEFINE call  == calls[k]
           n     == call.name
           x     == call.amount
           ended == auctions[n] # None /\ Phase(auctions[n], now) = "closed"
           a     == IF ended THEN None ELSE auctions[n]
           into  == IF a = None THEN OpenAuction(call.cfg) ELSE a
<1>1. /\ call # None /\ call.op = "bid" /\ call.stage = "moved" /\ Finish(k)
      /\ UNCHANGED <<cfg, withdrawn, unreconciled, accounts>>
  BY DEF BidPaid, Replied, ledgerVars
<1>2. /\ call \in Call /\ CallSound(call) /\ call.cfg \in Config
      /\ x \in Nat /\ call.who \in Principals
      /\ credits \in [Principals -> Nat] /\ now \in Nat
  BY <1>1, Resumed
<1>3. n \in FlatNames /\ terms \in Terms
  BY <1>1, <1>2 DEF CallSound, Payments, TInv, TypeOK
<1>4. /\ records[n] \in Record \cup {None}
      /\ records[n] # None => HoldingSound(records[n].flat, now)
      /\ auctions[n] \in Running \cup {None}
      /\ auctions[n] # None => AuctionSound(auctions[n])
  BY <1>3 DEF TInv, TypeOK, HoldingsSound, AuctionsSound
<1>5. PICK c \in IF ended THEN Closings(call.cfg, n) ELSE {NoClosing(n)} :
        LET ok   == BidAllowed(call.cfg, a, c.record, x)
            back == IF ok THEN Deposits(into)[call.who] ELSE x IN
          /\ credits' = AddCredit(Plus(credits, c.refunds), call.who, back)
          /\ CommitFlat(n, c.record, c.tax + c.income)
          /\ proceeds' = proceeds + c.income
          /\ auctions' = [auctions EXCEPT ![n] =
               IF ok THEN AddBid(into, call.who, x) ELSE a]
  BY DEF BidPaid
<1> DEFINE ok   == BidAllowed(call.cfg, a, c.record, x)
           back == IF ok THEN Deposits(into)[call.who] ELSE x
           next == IF ok THEN AddBid(into, call.who, x) ELSE a
           b == BalanceOf(records[n])  d == BalanceOf(c.record)
           rf == Total(c.refunds)  y == DepositsOf(auctions[n])
           za == DepositsOf(a)  zn == DepositsOf(next)
           tax == c.tax  income == c.income
<1>6. b \in Nat /\ y \in Nat
  BY <1>4, DepositsType, CoinsFinite, MarketAssumption DEF BalanceOf, DepositsOf, Record, Holding
<1>7. /\ c.refunds \in [Principals -> Nat] /\ c.record \in Record \cup {None}
      /\ income \in Nat /\ tax \in Nat /\ rf \in Nat /\ d \in Nat /\ za \in Nat
      /\ rf + income + tax + d + za = y + b
  <2>1. CASE ended
    <3>1. PICK o \in Outcomes(auctions[n]) : c = Closing(call.cfg, auctions[n], records[n], o)
      BY <2>1 DEF Closings
    <3>2. za = 0
      BY <2>1 DEF DepositsOf
    <3>3. /\ c.refunds \in [Principals -> Nat] /\ c.record \in Record \cup {None}
          /\ income \in Nat /\ tax \in Nat
      BY <1>2, <1>4, <2>1, <3>1, ClosingSound
    <3>4. rf \in Nat /\ d \in Nat /\ rf + income + tax + d = y + b
      BY <1>2, <1>4, <2>1, <3>1, ClosingConserves
    <3> HIDE DEF rf, income, tax, d, za, y, b
    <3> QED BY <1>6, <3>2, <3>3, <3>4
  <2>2. CASE ~ended
    <3>1. c = NoClosing(n) /\ a = auctions[n]
      BY <2>2
    <3>2. /\ c.refunds = [p \in Principals |-> 0] /\ income = 0 /\ tax = 0 /\ d = b
          /\ c.record \in Record \cup {None}
      BY <1>4, <3>1 DEF NoClosing
    <3>3. c.refunds \in [Principals -> Nat] /\ \A p \in Principals : c.refunds[p] = 0
      BY <3>2
    <3>4. rf = 0
      BY <3>3, TotalBounds, MarketAssumption
    <3>5. za = y
      BY <3>1
    <3> HIDE DEF rf, income, tax, d, za, y, b
    <3> QED BY <1>6, <3>2, <3>3, <3>4, <3>5
  <2> QED BY <2>1, <2>2
<1>8. into \in Running /\ DepositsOf(into) = za
  <2>1. CASE a = None
    <3>1. into = OpenAuction(call.cfg) /\ za = 0
      BY <2>1 DEF DepositsOf
    <3>2. into \in Running /\ \A p \in Principals : Deposits(into)[p] = 0
      BY <1>2, <1>3, <3>1, OpenAuctionSound
    <3>3. Deposits(into) \in [Principals -> Nat]
      BY <3>2, DepositsType
    <3>4. Total(Deposits(into)) = 0
      BY <3>2, <3>3, TotalBounds, MarketAssumption
    <3> HIDE DEF into, za
    <3> QED BY <3>1, <3>2, <3>4, StartAssumption DEF DepositsOf
  <2>2. CASE a # None
    BY <1>4, <2>2
  <2> QED BY <2>1, <2>2
<1>9. a \in Running \cup {None}
  BY <1>4
<1> HIDE DEF a, into
<1>10. next \in Running \cup {None} /\ back \in Nat /\ zn \in Nat /\ zn + back = za + x
  <2>1. CASE ok
    <3>1. next = AddBid(into, call.who, x) /\ back = Deposits(into)[call.who]
      BY <2>1
    <3>2. back \in Nat /\ zn = za - back + x
      BY <1>2, <1>8, <3>1, BidEscrow
    <3>3. next \in Running
      <4>1. into.bids \in [Principals -> Bid \cup {None}] /\ SealedBid(x) \in Bid
        BY <1>2, <1>8 DEF Running, SealedBid, Bid
      <4> HIDE DEF next
      <4> QED BY <1>2, <1>8, <3>1, <4>1 DEF AddBid, Running
    <3>4. zn \in Nat
      <4> HIDE DEF next
      <4> QED BY <3>3, DepositsType, CoinsFinite, MarketAssumption DEF DepositsOf
    <3> HIDE DEF next, back, za, zn
    <3> QED BY <1>2, <1>7, <3>2, <3>3, <3>4
  <2>2. CASE ~ok
    <3>1. next = a /\ back = x
      BY <2>2
    <3> HIDE DEF ok, next, back, za
    <3> QED BY <1>2, <1>7, <1>9, <3>1 DEF za
  <2> QED BY <2>1, <2>2
<1>11. /\ credits' = [Plus(credits, c.refunds) EXCEPT ![call.who] = @ + back]
       /\ records' = [records EXCEPT ![n] = c.record]
       /\ collected' = collected + (tax + income)
       /\ auctions' = [auctions EXCEPT ![n] = next]
  BY <1>5, Zenon DEF CommitFlat, AddCredit
<1> HIDE DEF back, next, tax, income
<1>12. CreditsOutstanding' = CreditsOutstanding + rf + back
  <2> DEFINE f == Plus(credits, c.refunds)
  <2>1. f \in [Principals -> Nat] /\ Total(f) = Total(credits) + Total(c.refunds)
    BY <1>2, <1>7, TotalPlus, MarketAssumption
  <2>2. credits' = [f EXCEPT ![call.who] = @ + back]
    BY <1>11
  <2> HIDE DEF f
  <2>3. IsFiniteSet(Principals) /\ f[call.who] + back \in Nat /\ back \in Int
    BY <1>2, <1>10, <2>1, MarketAssumption
  <2>4. Total([f EXCEPT ![call.who] = @ + back]) = Total(f) + back
    <3> DEFINE w == call.who
    <3>1. f \in [Principals -> Nat] /\ w \in Principals
      BY <1>2, <2>1
    <3> HIDE DEF w
    <3>2. f[w] + back \in Nat
      BY <1>10, <3>1
    <3>3. Total([f EXCEPT ![w] = @ + back]) = Total(f) + back
      BY <2>3, <3>1, <3>2, TotalAdded, Zenon
    <3> QED BY <3>3 DEF w
  <2> QED BY <2>1, <2>2, <2>4 DEF CreditsOutstanding
<1>13. Escrowed' = Escrowed - y + zn
  BY <1>3, <1>10, <1>11, EscrowWritten
<1>14. Transit' = Transit - x /\ NotedOf(calls)' <= NotedOf(calls)
  <2>1. InTransit(calls[k]) = x
    BY <1>1 DEF InTransit, Payments
  <2> QED BY <1>1, <2>1, CallEnds
<1> DEFINE r == CreditsOutstanding  e == Escrowed  t == Transit  m == collected
           rr == CreditsOutstanding'  ee == Escrowed'  tt == Transit'  mm == collected'
<1>15. /\ r \in Nat /\ e \in Nat /\ t \in Nat /\ m \in Nat
       /\ rr = r + rf + back /\ ee = e - y + zn /\ tt = t - x /\ mm = m + (tax + income)
  BY <1>11, <1>12, <1>13, <1>14, BookTypes DEF BooksTyped
<1> HIDE DEF x, b, d, rf, y, za, zn, r, e, t, m, rr, ee, tt, mm
<1>16. d + rr + ee + mm + tt = b + r + e + m + t
  BY <1>2, <1>6, <1>7, <1>10, <1>15
<1>17. BalanceOf(c.record) + CreditsOutstanding' + Escrowed' + collected' + Transit'
         = BalanceOf(records[n]) + CreditsOutstanding + Escrowed + collected + Transit
  BY <1>16 DEF b, d, r, e, t, m, rr, ee, tt, mm
<1> QED BY <1>1, <1>3, <1>7, <1>11, <1>14, <1>17, OneRecordKeeps

\* A call that had nothing in transit ends and changes nothing else.
LEMMA EndsQuietly ==
  ASSUME TInv, TInv', BInv, NEW k \in CallIds,
         PaymentFailed(k) \/ WithdrawPaid(k) \/ FeeRejected(k)
  PROVE  BInv'
<1>1. calls[k] # None /\ calls' = [calls EXCEPT ![k] = None] /\ UNCHANGED <<canisterVars, accounts>>
  BY DEF PaymentFailed, WithdrawPaid, FeeRejected, Finish, Replied, ledgerVars
<1>2. InTransit(calls[k]) = 0 /\ Noted(calls[k]) = 0 /\ InTransit(None) = 0 /\ Noted(None) = 0
  BY <1>1 DEF PaymentFailed, WithdrawPaid, FeeRejected, Replied, InTransit, Noted, Payments
<1>3. InTransit(None) = InTransit(calls[k]) /\ Noted(None) <= Noted(calls[k])
  BY <1>2
<1> QED BY <1>1, <1>3, OnlyCallKeeps

\* A payout that failed is credited back.
LEMMA WithdrawFailedBooks ==
  ASSUME TInv, TInv', BInv, NEW k \in CallIds, WithdrawFailed(k)
  PROVE  BInv'
<1>1. /\ calls[k] # None /\ Finish(k) /\ CreditBack(k)
      /\ UNCHANGED <<cfg, records, auctions, collected, withdrawn, unreconciled, accounts>>
  BY DEF WithdrawFailed, Replied, ledgerVars
<1>2. InTransit(calls[k]) = calls[k].amount
  BY <1>1 DEF WithdrawFailed, Replied, InTransit, Payments
<1> QED BY <1>1, <1>2, CreditedBack

\* What the books say after a step that writes no book but withdrawn and
\* unreconciled.
LEMMA CountersBooks ==
  ASSUME TInv, TInv', BInv, UNCHANGED <<cfg, records, auctions, credits, collected, accounts>>,
         NotedOf(calls)' <= withdrawn',
         withdrawn' + Transit >= withdrawn + Transit',
         unreconciled' + Transit' + withdrawn >= unreconciled + Transit + withdrawn'
  PROVE  BInv'
<1>1. UNCHANGED <<Liabilities, Account>>
  BY DEF Liabilities, Prepaid, CreditsOutstanding, Escrowed, Balances, Account
<1>2. UndoIsExact'
  BY DEF UndoIsExact, NotedOf
<1>3. NothingStranded'
  BY DEF BInv, NothingStranded
<1>4. BooksBalance'
  <2> DEFINE t == Transit  u == Transit'  a == Account  b == Account'
             l == Liabilities  m == Liabilities'
             g == collected  h == collected'  w == withdrawn  v == withdrawn'
             r == unreconciled  s == unreconciled'
  <2>1. /\ t \in Nat /\ u \in Nat /\ a \in Nat /\ b = a /\ l \in Nat /\ m = l
        /\ g \in Nat /\ h = g /\ w \in Nat /\ v \in Nat /\ r \in Nat /\ s \in Nat
        /\ v + t >= w + u /\ s + u + w >= r + t + v
    BY <1>1, BookTypes, BookTypesNext DEF BooksTyped
  <2>2. l + g - w + t <= a /\ a <= l + g - w + t + r
    BY DEF BInv, BooksBalance, Booked
  <2> HIDE DEF t, u, a, b, l, m, g, h, w, v, r, s
  <2>3. m + h - v + u <= b /\ b <= m + h - v + u + s
    BY <2>1, <2>2
  <2> QED BY <2>3 DEF t, u, a, b, l, m, g, h, w, v, r, s, BooksBalance, Booked
<1> QED BY <1>2, <1>3, <1>4 DEF BInv

\* A reply nobody can read: the whole amount is noted.
LEMMA ReplyUndecodableBooks ==
  ASSUME TInv, TInv', BInv, NEW k \in CallIds, ReplyUndecodable(k)
  PROVE  BInv'
<1> DEFINE x == calls[k].amount
           i == InTransit(calls[k])
<1>1. /\ calls[k] # None /\ Finish(k) /\ unreconciled' = unreconciled + x
      /\ UNCHANGED <<cfg, records, auctions, credits, collected, withdrawn, accounts>>
  BY DEF ReplyUndecodable, Replied, ledgerVars
<1>2. i \in 0..x /\ x \in Nat
  BY <1>1, Resumed, InTransitType
<1>3. Transit \in Nat /\ Transit' = Transit - i /\ NotedOf(calls)' <= NotedOf(calls)
      /\ NotedOf(calls) \in Nat
  BY <1>1, CallEnds
<1>4. NotedOf(calls) <= withdrawn
  BY DEF BInv, UndoIsExact, NotedOf
<1> DEFINE t == Transit  u == Transit'  w == withdrawn  v == withdrawn'
           r == unreconciled  s == unreconciled'  m == NotedOf(calls)  n == NotedOf(calls)'
<1>5. /\ t \in Nat /\ u = t - i /\ w \in Nat /\ v = w /\ r \in Nat /\ s = r + x
      /\ m \in Nat /\ n \in Nat /\ n <= m /\ m <= w
  BY <1>1, <1>3, <1>4, BookTypes, BookTypesNext DEF BooksTyped
<1> HIDE DEF x, i, t, u, w, v, r, s, m, n
<1>6. n <= v /\ v + t >= w + u /\ s + u + w >= r + t + v
  BY <1>2, <1>5
<1>7. /\ NotedOf(calls)' <= withdrawn'
      /\ withdrawn' + Transit >= withdrawn + Transit'
      /\ unreconciled' + Transit' + withdrawn >= unreconciled + Transit + withdrawn'
  BY <1>6 DEF t, u, w, v, r, s, n
<1> QED BY <1>1, <1>7, CountersBooks

\* fund_self notes what it is about to have in transit.
LEMMA FundSelfQuotedBooks ==
  ASSUME TInv, TInv', BInv, NEW k \in CallIds, FundSelfQuoted(k)
  PROVE  BInv'
<1> DEFINE x == calls[k].amount
           d == [calls[k] EXCEPT !.stage = "sent"]
<1>1. /\ calls[k] # None /\ calls[k].op = "fund_self" /\ calls[k].stage = "quoted"
      /\ Stage(k, "sent") /\ withdrawn' = withdrawn + x
      /\ UNCHANGED <<cfg, records, auctions, credits, collected, unreconciled, accounts>>
  BY DEF FundSelfQuoted, Replied, ledgerVars
<1>2. calls[k] \in Call /\ CallSound(calls[k]) /\ x \in Nat
  BY <1>1, Resumed
<1>3. calls' = [calls EXCEPT ![k] = d]
  BY <1>1 DEF Stage, TInv, TypeOK
<1>4. InTransit(d) = x /\ Noted(d) = x
  BY <1>1, <1>2, InTransitAt DEF Payments
<1>5. InTransit(calls[k]) = 0 /\ Noted(calls[k]) = 0
  BY <1>1 DEF InTransit, Noted, Payments
<1> HIDE DEF d
<1>6. /\ Transit \in Nat /\ NotedOf(calls) \in Nat
      /\ Transit' = Transit - InTransit(calls[k]) + InTransit(d)
      /\ NotedOf(calls') = NotedOf(calls) - Noted(calls[k]) + Noted(d)
  BY <1>1, <1>3, CallsChange
<1>7. NotedOf(calls) <= withdrawn
  BY DEF BInv, UndoIsExact, NotedOf
<1> DEFINE t == Transit  u == Transit'  w == withdrawn  v == withdrawn'
           r == unreconciled  s == unreconciled'  m == NotedOf(calls)  n == NotedOf(calls)'
<1>8. /\ t \in Nat /\ u = t - 0 + x /\ w \in Nat /\ v = w + x /\ r \in Nat /\ s = r
      /\ m \in Nat /\ n = m - 0 + x /\ m <= w
  BY <1>1, <1>4, <1>5, <1>6, <1>7, BookTypes DEF BooksTyped
<1> HIDE DEF x, t, u, w, v, r, s, m, n
<1>9. n <= v /\ v + t >= w + u /\ s + u + w >= r + t + v
  BY <1>2, <1>8
<1>10. /\ NotedOf(calls)' <= withdrawn'
       /\ withdrawn' + Transit >= withdrawn + Transit'
       /\ unreconciled' + Transit' + withdrawn >= unreconciled + Transit + withdrawn'
  BY <1>9 DEF t, u, w, v, r, s, n
<1> QED BY <1>1, <1>10, CountersBooks

\* A withdrawal that did not leave is undone, all but the fee it cost.
LEMMA FundSelfDoneBooks ==
  ASSUME TInv, TInv', BInv, NEW k \in CallIds, FundSelfDone(k)
  PROVE  BInv'
<1> DEFINE x == calls[k].amount
           f == calls[k].cfg.fee
           i == InTransit(calls[k])
           y == Noted(calls[k])
<1>1. /\ calls[k] # None /\ calls[k].op = "fund_self" /\ Finish(k)
      /\ UNCHANGED <<cfg, records, auctions, credits, collected, unreconciled, accounts>>
  BY DEF FundSelfDone, Replied, ledgerVars
<1>2. calls[k] \in Call /\ CallSound(calls[k]) /\ x \in Nat /\ f \in Nat /\ x > f
  BY <1>1, Resumed DEF CallSound, Config
<1>3. /\ i \in Nat /\ y \in Nat /\ Transit \in Nat /\ NotedOf(calls) \in Nat
      /\ y <= NotedOf(calls) /\ Transit' = Transit - i
      /\ NotedOf(calls)' = NotedOf(calls) - y
  BY <1>1, CallEnds
<1>4. NotedOf(calls) <= withdrawn
  BY DEF BInv, UndoIsExact, NotedOf
<1>5. withdrawn' = withdrawn - i /\ i <= y
  <2>1. withdrawn \in Nat
    BY BookTypes DEF BooksTyped
  <2>2. CASE Replied(k, "fund_self", "moved") /\ UNCHANGED withdrawn
    <3>1. i = 0 /\ y = 0
      BY <2>2 DEF Replied, InTransit, Noted, Payments
    <3> HIDE DEF i, y
    <3> QED BY <2>1, <2>2, <3>1
  <2>3. CASE Replied(k, "fund_self", "refused") /\ UndoWithdrawn(x)
    <3>1. i = x /\ y = x
      BY <2>3 DEF Replied, InTransit, Noted, Payments
    <3>2. withdrawn' = Greatest(withdrawn - x, 0)
      BY <2>3 DEF UndoWithdrawn
    <3> HIDE DEF i, y, x
    <3> QED BY <1>2, <1>3, <1>4, <2>1, <3>1, <3>2 DEF Greatest
  <2>4. CASE Replied(k, "fund_self", "charged") /\ UndoWithdrawn(x - f)
    <3>1. i = x - f /\ y = x
      BY <2>4 DEF Replied, InTransit, Noted, Payments
    <3>2. withdrawn' = Greatest(withdrawn - (x - f), 0)
      BY <2>4 DEF UndoWithdrawn
    <3> HIDE DEF i, y, x, f
    <3> QED BY <1>2, <1>3, <1>4, <2>1, <3>1, <3>2 DEF Greatest
  <2> QED BY <2>2, <2>3, <2>4 DEF FundSelfDone
<1> DEFINE t == Transit  u == Transit'  w == withdrawn  v == withdrawn'
           r == unreconciled  s == unreconciled'  m == NotedOf(calls)  n == NotedOf(calls)'
<1>6. /\ t \in Nat /\ u = t - i /\ w \in Nat /\ v = w - i /\ r \in Nat /\ s = r
      /\ m \in Nat /\ n = m - y /\ m <= w /\ y <= m
  BY <1>1, <1>3, <1>4, <1>5, BookTypes DEF BooksTyped
<1> HIDE DEF i, y, t, u, w, v, r, s, m, n
<1>7. n <= v /\ v + t >= w + u /\ s + u + w >= r + t + v
  BY <1>3, <1>5, <1>6
<1>8. /\ NotedOf(calls)' <= withdrawn'
      /\ withdrawn' + Transit >= withdrawn + Transit'
      /\ unreconciled' + Transit' + withdrawn >= unreconciled + Transit + withdrawn'
  BY <1>7 DEF t, u, w, v, r, s, n
<1> QED BY <1>1, <1>8, CountersBooks

\* Settling every name moves the tax from the balances to the treasury.
LEMMA SettlingConserves ==
  ASSUME TInv
  PROVE  LET left == [n \in FlatNames |-> IF records[n] = None THEN 0
                                          ELSE Settle(cfg, records[n].flat, now).balance] IN
         /\ TaxOf(cfg) \in Nat
         /\ Total(left) \in Nat
         /\ Total(left) + TaxOf(cfg) = Prepaid
<1> DEFINE left == [n \in FlatNames |-> IF records[n] = None THEN 0
                                        ELSE Settle(cfg, records[n].flat, now).balance]
           taxes == [n \in FlatNames |-> IF records[n] = None THEN 0
                                         ELSE Taken(cfg, records[n].flat, now)]
<1>1. ASSUME NEW n \in FlatNames
      PROVE  /\ left[n] \in Nat /\ taxes[n] \in Nat
             /\ Balances[n] = left[n] + taxes[n]
  <2>1. CASE records[n] = None
    BY <2>1 DEF Balances
  <2>2. CASE records[n] # None
    <3> DEFINE h == records[n].flat
               x == Settle(cfg, h, now).balance
               y == Taken(cfg, h, now)
    <3>1. h \in Holding /\ HoldingSound(h, now) /\ cfg.rate \in Nat /\ now \in Nat
          /\ h.balance \in Nat
      BY <2>2 DEF TInv, TypeOK, HoldingsSound, Record, Holding, Config
    <3>2. y \in 0..h.balance /\ x = h.balance - y
      BY <3>1, SettleSound
    <3>3. left[n] = x /\ taxes[n] = y /\ Balances[n] = h.balance
      BY <2>2 DEF Balances
    <3> HIDE DEF left, taxes, x, y
    <3> QED BY <3>1, <3>2, <3>3
  <2> QED BY <2>1, <2>2
<1>2. left \in [FlatNames -> Nat] /\ taxes \in [FlatNames -> Nat]
  BY <1>1
<1>3. TaxOf(cfg) = Total(taxes)
  BY DEF TaxOf
<1> HIDE DEF left, taxes
<1>4. Balances = Plus(left, taxes)
  BY <1>1, <1>2 DEF Plus, Balances
<1>5. IsFiniteSet(FlatNames)
  BY MarketAssumption
<1>6. Total(Plus(left, taxes)) = Total(left) + Total(taxes)
  BY <1>2, <1>5, TotalPlus
<1>7. Total(left) \in Nat /\ Total(taxes) \in Nat
  BY <1>2, <1>5, CoinsFinite
<1> QED BY <1>3, <1>4, <1>6, <1>7 DEF Prepaid, left

\* While no funds are held, there are none, and the account is empty.
LEMMA NothingHeld ==
  ASSUME TInv, BInv, NoFundsHeld
  PROVE  /\ Prepaid = 0 /\ CreditsOutstanding = 0 /\ Escrowed = 0 /\ Transit = 0
         /\ unreconciled = 0 /\ Account = 0 /\ collected = withdrawn
<1>1. Prepaid = 0
  <2>1. Balances \in [FlatNames -> Nat] /\ \A n \in FlatNames : Balances[n] = 0
    BY DEF NoFundsHeld, Balances
  <2> QED BY <2>1, TotalBounds, MarketAssumption DEF Prepaid
<1>2. Transit = 0
  <2> DEFINE f == [k \in CallIds |-> InTransit(calls[k])]
  <2>1. \A k \in CallIds :
          calls[k] = None
          \/ (calls[k].op = "configure" /\ calls[k] \in Call /\ CallSound(calls[k]))
    BY NobodyInFlight DEF TInv, TypeOK, CallsSound
  <2>2. \A k \in CallIds : f[k] = 0
    BY <2>1 DEF InTransit, Payments, CallSound
  <2>3. f \in [CallIds -> Nat]
    BY <2>2
  <2> HIDE DEF f
  <2>4. Total(f) = 0
    BY <2>2, <2>3, TotalBounds, MarketAssumption
  <2> QED BY <2>4 DEF f, Transit
<1>3. CreditsOutstanding = 0 /\ Escrowed = 0 /\ collected <= withdrawn /\ unreconciled = 0
  BY DEF NoFundsHeld
<1> DEFINE a == Account  l == Liabilities  t == Transit
<1>4. a \in Nat /\ collected \in Nat /\ withdrawn \in Nat /\ t = 0
      /\ a <= l + collected - withdrawn + t + unreconciled
  BY <1>2, BookTypes DEF BooksTyped, BInv, BooksBalance, Booked
<1>5. l = 0
  BY <1>1, <1>3 DEF Liabilities
<1> HIDE DEF a, l, t
<1>6. a = 0 /\ collected = withdrawn
  BY <1>3, <1>4, <1>5
<1> QED BY <1>1, <1>2, <1>3, <1>6 DEF a

\* A config is set under the same ledger, or where there is nothing to move.
LEMMA ConfigQuotedBooks ==
  ASSUME TInv, TInv', BInv, NEW k \in CallIds, ConfigQuoted(k)
  PROVE  BInv'
<1> DEFINE next == calls[k].next
           may  == next.ledger # cfg.ledger => NoFundsHeld
<1>1. /\ calls[k] # None /\ calls[k].op = "configure" /\ calls[k].stage = "quoted"
      /\ calls' = [calls EXCEPT ![k] = None]
      /\ UNCHANGED <<auctions, credits, withdrawn, unreconciled, accounts>>
  BY DEF ConfigQuoted, Replied, Finish, ledgerVars
<1>2. calls[k] \in Call /\ next \in Config /\ cfg \in Config
  BY <1>1, Resumed DEF CallSound
<1>3. Transit' = Transit /\ NotedOf(calls)' <= NotedOf(calls)
  <2>1. InTransit(calls[k]) = 0 /\ Noted(calls[k]) = 0 /\ InTransit(None) = 0 /\ Noted(None) = 0
    BY <1>1 DEF InTransit, Noted, Payments
  <2>2. calls \in [CallIds -> Call \cup {None}] /\ CallsFit(calls)
    BY DEF TInv, TypeOK, CallsSound, CallsFit
  <2> DEFINE ds == [calls EXCEPT ![k] = None]
  <2>3. calls' = ds
    BY <1>1
  <2> HIDE DEF ds
  <2>4. /\ InTransitOf(calls) \in Nat /\ NotedOf(calls) \in Nat
        /\ InTransitOf(ds) = InTransitOf(calls) - InTransit(calls[k]) + InTransit(None)
        /\ NotedOf(ds) = NotedOf(calls) - Noted(calls[k]) + Noted(None)
    BY <2>2, CallEntry DEF ds
  <2>5. InTransitOf(ds) = InTransitOf(calls) /\ NotedOf(ds) <= NotedOf(calls)
    BY <2>1, <2>4
  <2> QED BY <2>3, <2>5 DEF Transit, InTransitOf
<1>4. Prepaid' \in Nat /\ collected' \in Nat /\ Prepaid' + collected' = Prepaid + collected
  <2>1. Prepaid \in Nat /\ collected \in Nat
    BY BookTypes DEF BooksTyped
  <2>2. CASE UNCHANGED <<records, collected>>
    BY <2>1, <2>2 DEF Prepaid, Balances
  <2>3. CASE records' = SettledRecords(cfg) /\ collected' = collected + TaxOf(cfg)
    <3> DEFINE left == [n \in FlatNames |-> IF records[n] = None THEN 0
                                            ELSE Settle(cfg, records[n].flat, now).balance]
    <3>1. TaxOf(cfg) \in Nat /\ Total(left) \in Nat /\ Total(left) + TaxOf(cfg) = Prepaid
      BY SettlingConserves
    <3>2. Balances' = left
      <4>1. ASSUME NEW n \in FlatNames
            PROVE  (IF records'[n] = None THEN 0 ELSE records'[n].flat.balance) = left[n]
        <5>1. CASE records[n] = None
          BY <2>3, <5>1 DEF SettledRecords
        <5>2. CASE records[n] # None
          <6> DEFINE h == Settle(cfg, records[n].flat, now)
          <6>1. records'[n] = [records[n] EXCEPT !.flat = h]
            BY <2>3, <5>2 DEF SettledRecords
          <6>2. records[n] \in Record
            BY <5>2 DEF TInv, TypeOK
          <6>3. records'[n] \in Record \cup {None}
            BY DEF TInv, TypeOK
          <6>4. left[n] = h.balance
            BY <5>2
          <6>5. h \in Holding
            <7>1. records[n].flat \in Holding /\ HoldingSound(records[n].flat, now)
                  /\ cfg.rate \in Nat /\ now \in Nat
              BY <5>2 DEF TInv, TypeOK, HoldingsSound, Record, Config
            <7> QED BY <7>1, SettleSound
          <6> HIDE DEF h
          <6>6. [records[n] EXCEPT !.flat = h] \in Record /\ [records[n] EXCEPT !.flat = h].flat = h
            BY <6>2, <6>5 DEF Record
          <6> QED BY <6>1, <6>4, <6>6, StartAssumption
        <5> QED BY <5>1, <5>2
      <4> HIDE DEF left
      <4> QED BY <4>1 DEF left, Balances
    <3> DEFINE p == Prepaid  q == Prepaid'  c == collected  d == collected'
               x == TaxOf(cfg)  y == Total(left)
    <3>3. p \in Nat /\ c \in Nat /\ x \in Nat /\ y \in Nat /\ y + x = p /\ q = y /\ d = c + x
      BY <2>1, <2>3, <3>1, <3>2 DEF Prepaid
    <3> HIDE DEF p, q, c, d, x, y
    <3>4. q \in Nat /\ d \in Nat /\ q + d = p + c
      BY <3>3
    <3> QED BY <3>4 DEF p, q, c, d
  <2> QED BY <2>2, <2>3 DEF ConfigQuoted
<1>5. UNCHANGED <<CreditsOutstanding, Escrowed>>
  BY <1>1, Untouched
<1>6. cfg'.ledger = cfg.ledger \/ (cfg'.ledger = next.ledger /\ NoFundsHeld)
  <2>1. [next EXCEPT !.fee = calls[k].quote].ledger = next.ledger
    BY <1>2 DEF Config
  <2> QED BY <2>1 DEF ConfigQuoted
<1>7. CASE cfg'.ledger = cfg.ledger
  <2> DEFINE a == Prepaid  b == CreditsOutstanding  e == Escrowed  t == Transit  g == collected
             aa == Prepaid'  bb == CreditsOutstanding'  ee == Escrowed'  tt == Transit'
             gg == collected'
  <2>1. /\ a \in Nat /\ b \in Nat /\ e \in Nat /\ t \in Nat /\ g \in Nat
        /\ aa \in Nat /\ gg \in Nat /\ aa + gg = a + g /\ bb = b /\ ee = e /\ tt = t
    BY <1>3, <1>4, <1>5, BookTypes DEF BooksTyped
  <2> HIDE DEF a, b, e, t, g, aa, bb, ee, tt, gg
  <2>2. (aa + bb + ee) + gg + tt = (a + b + e) + g + t
    BY <2>1
  <2>3. Liabilities' + collected' + Transit' = Liabilities + collected + Transit
    BY <2>2 DEF a, b, e, t, g, aa, bb, ee, tt, gg, Liabilities
  <2> QED BY <1>1, <1>3, <1>7, <2>3, BooksKeep
<1>8. CASE cfg'.ledger = next.ledger /\ next.ledger # cfg.ledger /\ NoFundsHeld
  <2>1. /\ Prepaid = 0 /\ CreditsOutstanding = 0 /\ Escrowed = 0 /\ Transit = 0
        /\ unreconciled = 0 /\ Account = 0 /\ collected = withdrawn
    BY <1>8, NothingHeld
  <2>2. \A l \in Ledgers : accounts[l][Canister] = 0
    BY <2>1 DEF BInv, NothingStranded, Account
  <2>3. NothingStranded'
    BY <1>1, <2>2 DEF NothingStranded
  <2>4. Account' = 0
    BY <1>1, <1>2, <1>8, <2>2 DEF Account, Config
  <2>5. UndoIsExact'
    <3> DEFINE m == NotedOf(calls)  n == NotedOf(calls)'  w == withdrawn
    <3>1. m \in Nat /\ n \in Nat /\ n <= m /\ m <= w /\ w \in Nat
      BY <1>3, BookTypes, BookTypesNext DEF BooksTyped, BInv, UndoIsExact, NotedOf
    <3> HIDE DEF m, n, w
    <3>2. n <= w
      BY <3>1
    <3> QED BY <1>1, <3>2 DEF n, w, UndoIsExact, NotedOf
  <2>6. Booked' = 0
    <3> DEFINE a == Prepaid'  b == CreditsOutstanding'  e == Escrowed'  t == Transit'
               g == collected'  v == withdrawn'  c == collected  w == withdrawn  p == Prepaid
    <3>1. /\ a \in Nat /\ b = 0 /\ e = 0 /\ t = 0 /\ g \in Nat /\ a + g = p + c /\ p = 0
          /\ c = w /\ v = w /\ w \in Nat
      BY <1>1, <1>3, <1>4, <1>5, <2>1, BookTypes DEF BooksTyped
    <3> HIDE DEF a, b, e, t, g, v, c, w, p
    <3>2. (a + b + e) + g - v + t = 0
      BY <3>1
    <3> QED BY <3>2 DEF a, b, e, t, g, v, Booked, Liabilities
  <2>7. BooksBalance'
    <3>1. unreconciled' = 0
      BY <1>1, <2>1
    <3> QED BY <2>4, <2>6, <3>1 DEF BooksBalance
  <2> QED BY <2>3, <2>5, <2>7 DEF BInv
<1> QED BY <1>6, <1>7, <1>8

-----------------------------------------------------------------------------
(* The books in every behaviour                                            *)

\* At the start the account holds the prepaid balances and nothing else is
\* booked.
LEMMA InitBooks ==
  ASSUME Init
  PROVE  BInv
<1>1. /\ InitialConfig.ledger \in Ledgers /\ cfg = InitialConfig /\ Canister \in Holders
      /\ collected = 0 /\ withdrawn = 0 /\ unreconciled = 0
  BY StartAssumption DEF Init, Config, Holders
<1>2. Account = Prepaid
  BY <1>1 DEF Init, Account
<1>3. NothingStranded
  BY <1>1 DEF Init, NothingStranded
<1>4. CreditsOutstanding = 0
  BY TotalBounds, MarketAssumption DEF Init, CreditsOutstanding
<1>5. Escrowed = 0
  <2> DEFINE f == EscrowOf(auctions)
  <2>1. f \in [FlatNames \X Principals -> Nat] /\ \A x \in FlatNames \X Principals : f[x] = 0
    BY DEF Init, EscrowOf
  <2>2. IsFiniteSet(FlatNames \X Principals)
    BY FS_Product, MarketAssumption
  <2> HIDE DEF f
  <2>3. Total(f) = 0
    BY <2>1, <2>2, TotalBounds
  <2> QED BY <2>3 DEF f, Escrowed
<1>6. Transit = 0 /\ NotedOf(calls) = 0
  <2> DEFINE f == [k \in CallIds |-> InTransit(calls[k])]
             g == [k \in CallIds |-> Noted(calls[k])]
  <2>1. \A k \in CallIds : InTransit(calls[k]) = 0 /\ Noted(calls[k]) = 0
    BY DEF Init, InTransit, Noted
  <2>2. /\ f \in [CallIds -> Nat] /\ \A k \in CallIds : f[k] = 0
        /\ g \in [CallIds -> Nat] /\ \A k \in CallIds : g[k] = 0
    BY <2>1
  <2> HIDE DEF f, g
  <2>3. Total(f) = 0 /\ Total(g) = 0
    BY <2>2, TotalBounds, MarketAssumption
  <2> QED BY <2>3 DEF f, g, Transit, NotedOf
<1>7. Prepaid \in Nat
  BY InitTyped, BookTypes DEF BooksTyped
<1>8. Liabilities = Prepaid
  BY <1>4, <1>5, <1>7 DEF Liabilities
<1>9. Booked = Prepaid
  BY <1>1, <1>6, <1>7, <1>8 DEF Booked
<1>10. BooksBalance
  BY <1>1, <1>2, <1>7, <1>9 DEF BooksBalance
<1>11. UndoIsExact
  BY <1>1, <1>6 DEF UndoIsExact, NotedOf
<1> QED BY <1>3, <1>10, <1>11 DEF BInv

\* Every step keeps the books, if the fee charged is the fee quoted.
LEMMA StepBooks ==
  ASSUME TInv, TInv', BInv, FeeKept, [Next]_vars
  PROVE  BInv'
<1>1. CASE Tick
  BY <1>1, NothingWritten DEF Tick, canisterVars, books, ledgerVars
<1>2. CASE LedgerChangesFee
  BY <1>2, NothingWritten DEF LedgerChangesFee, ChangeFee, canisterVars, books
<1>3. ASSUME NEW k \in CallIds, Execute(k) PROVE BInv'
  BY <1>3, LedgerBooks
<1>4. ASSUME NEW k \in CallIds, Resume(k) PROVE BInv'
  BY <1>4, BuyPaidBooks, DepositPaidBooks, BidPaidBooks, EndsQuietly, WithdrawFailedBooks,
     ReplyUndecodableBooks, FundSelfQuotedBooks, FundSelfDoneBooks, ConfigQuotedBooks DEF Resume
<1>5. ASSUME NEW p \in Principals, CallsOf(p) PROVE BInv'
  BY <1>5, DeleteRecordBooks, SetRecordBooks, SetPriceBooks, RevealBooks DEF CallsOf
<1>6. ASSUME NEW p \in Principals, PaymentsOf(p) PROVE BInv'
  BY <1>6, OpeningBooks DEF PaymentsOf
<1>7. ASSUME NEW p \in Principals, Payout(p) PROVE BInv'
  BY <1>7, WithdrawBooks DEF Payout
<1>8. ASSUME NEW p \in Controllers, Administer(p) PROVE BInv'
  <2>1. CASE \E t \in AuctionTerms : SetAuctionConfig(p, t)
    BY <2>1, NothingWritten DEF SetAuctionConfig, books, ledgerVars
  <2>2. CASE ~\E t \in AuctionTerms : SetAuctionConfig(p, t)
    <3>1. p \in Principals
      BY MarketAssumption
    <3> QED BY <1>8, <2>2, <3>1, OpeningBooks DEF Administer
  <2> QED BY <2>1, <2>2
<1>9. ASSUME NEW n \in FlatNames, CloseAuction(n) PROVE BInv'
  BY <1>9, CloseAuctionBooks
<1>10. CASE UNCHANGED vars
  BY <1>10, NothingWritten DEF vars
<1> QED
  BY <1>1, <1>2, <1>3, <1>4, <1>5, <1>6, <1>7, <1>8, <1>9, <1>10 DEF Next

\* The whole invariant holds in every behaviour in which the ledger charges
\* the fee it had quoted, whatever calls interleave, fail or never decode.
THEOREM BooksInvariant == Spec /\ []FeeKept => []IInv
<1>1. Init => BInv
  BY InitBooks
<1>2. TInv /\ TInv' /\ BInv /\ FeeKept /\ [Next]_vars => BInv'
  BY StepBooks
<1>3. TInv /\ BInv => IInv
  BY DEF IInv
<1> QED BY <1>1, <1>2, <1>3, TypedAndSound, PTL DEF Spec

\* "The counters match the account to the cycle" (README.md): the account
\* holds what is booked and in transit, and more only by what is noted as
\* unreconciled.
THEOREM BooksMatch == Spec /\ []FeeKept => []BooksBalance
<1>1. IInv => BooksBalance
  BY DEF IInv, BInv
<1> QED BY <1>1, BooksInvariant, PTL

\* set_harberger_config moves to another ledger only when nothing is left
\* on the old one, whatever payments and payouts were suspended meanwhile.
THEOREM LedgerChangeStrandsNothing == Spec /\ []FeeKept => []NothingStranded
<1>1. IInv => NothingStranded
  BY DEF IInv, BInv
<1> QED BY <1>1, BooksInvariant, PTL

-----------------------------------------------------------------------------
(* The treasury                                                            *)

\* What the tax takes from a record now is an amount.
LEMMA TaxType ==
  ASSUME TInv, NEW cf \in Config, NEW n \in FlatNames, records[n] # None
  PROVE  Taken(cf, records[n].flat, now) \in Nat
<1>1. /\ records[n].flat \in Holding /\ HoldingSound(records[n].flat, now)
      /\ now \in Nat /\ cf.rate \in Nat
  BY DEF TInv, TypeOK, HoldingsSound, Record, Config
<1>2. Taken(cf, records[n].flat, now) \in 0..records[n].flat.balance
  BY <1>1, SettleSound
<1> QED BY <1>1, <1>2 DEF Holding

\* So is everything a close counts.
LEMMA CloseTaxType ==
  ASSUME TInv, NEW cf \in Config, NEW n \in FlatNames, auctions[n] # None,
         NEW c \in Closings(cf, n)
  PROVE  c.income \in Nat /\ c.tax \in Nat
<1>1. /\ auctions[n] \in Running /\ AuctionSound(auctions[n])
      /\ records[n] \in Record \cup {None}
      /\ records[n] # None => HoldingSound(records[n].flat, now)
      /\ now \in Nat
  BY DEF TInv, TypeOK, AuctionsSound, HoldingsSound
<1>2. PICK o \in Outcomes(auctions[n]) : c = Closing(cf, auctions[n], records[n], o)
  BY DEF Closings
<1> QED BY <1>1, <1>2, ClosingSound

\* No step takes tax back: only withdrawals lower what the treasury holds.
LEMMA TaxOnlyGrows ==
  ASSUME TInv, [Next]_vars
  PROVE  collected' >= collected
<1> DEFINE grows == \E x \in Nat : collected' = collected + x
<1>1. collected \in Nat /\ cfg \in Config
  BY DEF TInv, TypeOK
<1>2. SUFFICES grows
  BY <1>1
<1>3. CASE UNCHANGED collected
  BY <1>1, <1>3
<1>4. ASSUME NEW k \in CallIds, Resume(k) PROVE grows
  <2>1. calls[k] # None
    BY <1>4 DEF Resume, BuyPaid, DepositPaid, BidPaid, PaymentFailed, WithdrawPaid, WithdrawFailed,
      ReplyUndecodable, FeeRejected, FundSelfQuoted, FundSelfDone, ConfigQuoted, Replied
  <2>2. calls[k].cfg \in Config /\ (calls[k].op \in Payments => calls[k].name \in FlatNames)
    BY <2>1, Resumed DEF CallSound
  <2>3. CASE BuyPaid(k)
    BY <1>3, <2>2, <2>3, TaxType DEF BuyPaid, Replied, Payments, Unchanged, CommitFlat
  <2>4. CASE DepositPaid(k)
    BY <1>3, <2>2, <2>4, TaxType DEF DepositPaid, Replied, Payments, Unchanged, CommitFlat
  <2>5. CASE BidPaid(k)
    <3> DEFINE n == calls[k].name
    <3>1. n \in FlatNames
      BY <2>2, <2>5 DEF BidPaid, Replied, Payments
    <3>2. PICK c \in IF auctions[n] # None /\ Phase(auctions[n], now) = "closed"
                     THEN Closings(calls[k].cfg, n) ELSE {NoClosing(n)} :
            collected' = collected + (c.tax + c.income)
      BY <2>5 DEF BidPaid, CommitFlat
    <3>3. c.income \in Nat /\ c.tax \in Nat
      BY <2>2, <3>1, <3>2, CloseTaxType DEF NoClosing
    <3> QED BY <3>2, <3>3
  <2>6. CASE ConfigQuoted(k)
    BY <1>3, <2>6, SettlingConserves DEF ConfigQuoted
  <2> QED BY <1>3, <1>4, <2>3, <2>4, <2>5, <2>6 DEF Resume, PaymentFailed, WithdrawPaid,
        WithdrawFailed, ReplyUndecodable, FeeRejected, FundSelfQuoted, FundSelfDone,
        canisterVars, books
<1>5. ASSUME NEW p \in Principals, CallsOf(p) PROVE grows
  BY <1>1, <1>3, <1>5, TaxType
     DEF CallsOf, DeleteRecord, SetRecord, SetPrice, Reveal, Holds, Held, CommitFlat, books
<1>6. ASSUME NEW n \in FlatNames, CloseAuction(n) PROVE grows
  <2>1. PICK c \in Closings(cfg, n) : collected' = collected + (c.tax + c.income)
    BY <1>6 DEF CloseAuction, CommitFlat
  <2>2. c.income \in Nat /\ c.tax \in Nat
    BY <1>1, <1>6, CloseTaxType DEF CloseAuction
  <2> QED BY <2>1, <2>2
<1>7. ASSUME NEW k \in CallIds, Execute(k) PROVE grows
  BY <1>3, <1>7 DEF Execute, LedgerPulls, LedgerPays, LedgerFunds, LedgerReturns, LedgerRefuses,
    LedgerQuotes, canisterVars, books
<1>8. ASSUME NEW p \in Principals, PaymentsOf(p) \/ Payout(p) PROVE grows
  BY <1>3, <1>8 DEF PaymentsOf, Payout, Buy, Deposit, PlaceBid, Withdraw, canisterVars, books
<1>9. ASSUME NEW p \in Controllers, Administer(p) PROVE grows
  BY <1>3, <1>9 DEF Administer, FundSelf, SetHarbergerConfig, SetAuctionConfig, canisterVars, books
<1>10. CASE Tick \/ LedgerChangesFee \/ UNCHANGED vars
  BY <1>3, <1>10 DEF Tick, LedgerChangesFee, vars, canisterVars, books
<1> QED BY <1>4, <1>5, <1>6, <1>7, <1>8, <1>9, <1>10 DEF Next

\* A fund_self call whose amount was checked and is not yet noted.
Checked(c) == c # None /\ c.op = "fund_self" /\ c.stage \in {"asked", "quoted"}

ChecksKept ==
  \A j \in CallIds : Checked(calls[j])' =>
    \/ Checked(calls[j]) /\ calls'[j].amount = calls[j].amount
    \/ calls'[j].amount <= Available

\* Only the resumed fund_self notes a withdrawal, and every amount that
\* waits to be noted was checked.
LEMMA WithdrawnSteps ==
  ASSUME TInv, [Next]_vars, ~\E k \in CallIds : FundSelfQuoted(k)
  PROVE  withdrawn' <= withdrawn /\ ChecksKept
<1>1. withdrawn \in Nat /\ calls \in [CallIds -> Call \cup {None}]
  BY DEF TInv, TypeOK
<1>2. ASSUME UNCHANGED calls PROVE ChecksKept
  BY <1>2 DEF ChecksKept, Checked
<1> DEFINE Only(k) == (\A j \in CallIds \ {k} : calls'[j] = calls[j]) /\ ~Checked(calls[k])'
<1>3. ASSUME NEW k \in CallIds, Only(k) PROVE ChecksKept
  BY <1>3 DEF ChecksKept, Checked
<1>4. ASSUME NEW k \in CallIds, Resume(k) PROVE withdrawn' <= withdrawn /\ ChecksKept
  <2>1. Finish(k)
    BY <1>4 DEF Resume, BuyPaid, DepositPaid, BidPaid, PaymentFailed, WithdrawPaid, WithdrawFailed,
      ReplyUndecodable, FeeRejected, FundSelfDone, ConfigQuoted
  <2>2. ChecksKept
    <3>1. Only(k)
      BY <1>1, <2>1 DEF Finish, Checked
    <3> QED BY <1>3, <3>1
  <2>3. UNCHANGED withdrawn \/ FundSelfDone(k)
    BY <1>4 DEF Resume, BuyPaid, DepositPaid, BidPaid, PaymentFailed, WithdrawPaid, WithdrawFailed,
      ReplyUndecodable, FeeRejected, ConfigQuoted, canisterVars, books
  <2>4. CASE FundSelfDone(k)
    <3>1. /\ calls[k] # None /\ calls[k].op = "fund_self"
          /\ \/ UNCHANGED withdrawn
             \/ UndoWithdrawn(calls[k].amount)
             \/ UndoWithdrawn(calls[k].amount - calls[k].cfg.fee)
      BY <2>4 DEF FundSelfDone, Replied
    <3>2. calls[k].amount \in Nat /\ calls[k].cfg.fee \in Nat /\ calls[k].amount > calls[k].cfg.fee
      BY <3>1, Resumed DEF CallSound, Config
    <3> QED BY <1>1, <2>2, <3>1, <3>2 DEF UndoWithdrawn, Greatest
  <2> QED BY <1>1, <2>2, <2>3, <2>4
<1>5. ASSUME NEW k \in CallIds, Execute(k) PROVE withdrawn' <= withdrawn /\ ChecksKept
  <2>1. UNCHANGED withdrawn /\ calls[k] # None
    BY <1>5 DEF Execute, LedgerPulls, LedgerPays, LedgerFunds, LedgerReturns, LedgerRefuses,
      LedgerQuotes, Sent, canisterVars, books
  <2>2. calls[k] \in Call
    BY <1>1, <2>1
  <2>3. CASE LedgerQuotes(k)
    <3>1. PICK q : calls' = [calls EXCEPT ![k].stage = "quoted", ![k].quote = q]
      BY <2>3 DEF LedgerQuotes
    <3>2. /\ calls'[k].op = calls[k].op /\ calls'[k].amount = calls[k].amount
          /\ \A j \in CallIds \ {k} : calls'[j] = calls[j]
      BY <1>1, <2>2, <3>1 DEF Call
    <3> QED BY <1>1, <2>1, <2>3, <3>2 DEF ChecksKept, Checked, LedgerQuotes
  <2>4. CASE ~LedgerQuotes(k)
    <3>1. \E stage \in {"moved", "charged", "refused"} : Stage(k, stage)
      BY <1>5, <2>4 DEF Execute, LedgerPulls, LedgerPays, LedgerFunds, LedgerReturns, LedgerRefuses
    <3>2. PICK stage \in {"moved", "charged", "refused"} : Stage(k, stage)
      BY <3>1
    <3>3. Only(k)
      BY <1>1, <2>2, <3>2 DEF Stage, Checked, Call
    <3> QED BY <1>1, <1>3, <2>1, <3>3
  <2> QED BY <2>3, <2>4
<1>6. ASSUME NEW p \in Principals, CallsOf(p) \/ PaymentsOf(p) \/ Payout(p)
      PROVE  withdrawn' <= withdrawn /\ ChecksKept
  <2>1. UNCHANGED withdrawn
    BY <1>6 DEF CallsOf, PaymentsOf, Payout, DeleteRecord, SetRecord, SetPrice, Reveal, Buy, Deposit,
      PlaceBid, Withdraw, canisterVars, books
  <2>2. CASE CallsOf(p)
    <3>1. UNCHANGED calls
      BY <2>2 DEF CallsOf, DeleteRecord, SetRecord, SetPrice, Reveal
    <3> QED BY <1>1, <1>2, <2>1, <3>1
  <2>3. CASE PaymentsOf(p) \/ Payout(p)
    <3>1. \E k \in CallIds : Only(k)
      <4>1. ASSUME NEW k \in CallIds, NEW n \in FlatNames, NEW x \in Amounts,
                   NEW t \in FlatTargets, NEW price \in Prices, Buy(k, p, n, t, price, x)
            PROVE  Only(k)
        BY <1>1, <4>1 DEF Buy, Await, Checked, Request
      <4>2. ASSUME NEW k \in CallIds, NEW n \in FlatNames, NEW x \in Amounts,
                   Deposit(k, p, n, x) \/ PlaceBid(k, p, n, x)
            PROVE  Only(k)
        BY <1>1, <4>2 DEF Deposit, PlaceBid, Await, Checked, Request
      <4>3. ASSUME NEW k \in CallIds, NEW x \in Payouts, Withdraw(k, p, x)
            PROVE  Only(k)
        BY <1>1, <4>3 DEF Withdraw, Await, Checked, Request
      <4> HIDE DEF Only
      <4> QED BY <2>3, <4>1, <4>2, <4>3 DEF PaymentsOf, Payout
    <3> QED BY <1>1, <1>3, <2>1, <3>1
  <2> QED BY <1>6, <2>2, <2>3
<1>7. ASSUME NEW p \in Controllers, Administer(p) PROVE withdrawn' <= withdrawn /\ ChecksKept
  <2>1. UNCHANGED withdrawn
    BY <1>7 DEF Administer, FundSelf, SetHarbergerConfig, SetAuctionConfig, canisterVars, books
  <2>2. CASE \E k \in CallIds, x \in Payouts : FundSelf(k, p, x)
    <3>1. PICK k \in CallIds, x \in Payouts :
            /\ x <= Available
            /\ calls' = [calls EXCEPT ![k] = [Request("fund_self", "asked", p) EXCEPT !.amount = x]]
      BY <2>2 DEF FundSelf, Await
    <3>2. calls'[k].amount = x /\ \A j \in CallIds \ {k} : calls'[j] = calls[j]
      BY <1>1, <3>1 DEF Request
    <3> QED BY <1>1, <2>1, <3>1, <3>2 DEF ChecksKept, Checked
  <2>3. CASE \E k \in CallIds, c \in Configs : SetHarbergerConfig(k, p, c)
    <3>1. \E k \in CallIds : Only(k)
      BY <1>1, <2>3 DEF SetHarbergerConfig, Await, Checked, Request
    <3> QED BY <1>1, <1>3, <2>1, <3>1
  <2>4. CASE \E t \in AuctionTerms : SetAuctionConfig(p, t)
    BY <1>1, <1>2, <2>1, <2>4 DEF SetAuctionConfig
  <2> QED BY <1>7, <2>2, <2>3, <2>4 DEF Administer
<1>8. ASSUME NEW n \in FlatNames, CloseAuction(n) PROVE withdrawn' <= withdrawn /\ ChecksKept
  BY <1>1, <1>2, <1>8 DEF CloseAuction
<1>9. CASE Tick \/ LedgerChangesFee \/ UNCHANGED vars
  BY <1>1, <1>2, <1>9 DEF Tick, LedgerChangesFee, vars, canisterVars, books
<1> QED BY <1>4, <1>5, <1>6, <1>7, <1>8, <1>9 DEF Next

\* The tax covers every withdrawal noted, and the one waiting to be noted.
LEMMA StepTreasury ==
  ASSUME TInv, TInv', TreasuryCovers, OneFundSelf, [Next]_vars
  PROVE  TreasuryCovers'
<1>1. /\ collected \in Nat /\ withdrawn \in Nat /\ collected' \in Nat /\ withdrawn' \in Nat
      /\ \A j \in CallIds : calls[j] = None \/ calls[j].amount \in Nat
      /\ \A j \in CallIds : calls'[j] = None \/ calls'[j].amount \in Nat
  BY DEF TInv, TypeOK, Call
<1>2. collected' >= collected
  BY TaxOnlyGrows
<1>3. \A j \in CallIds : Checked(calls[j]) => withdrawn + calls[j].amount <= collected
  BY DEF TreasuryCovers, Replied, Checked
<1>4. SUFFICES /\ withdrawn' <= collected'
               /\ \A j \in CallIds : Checked(calls[j])' => withdrawn' + calls'[j].amount <= collected'
  BY DEF TreasuryCovers, Replied, Checked
<1>5. ASSUME NEW k \in CallIds, FundSelfQuoted(k)
      PROVE  /\ withdrawn' <= collected'
             /\ \A j \in CallIds : Checked(calls[j])' => withdrawn' + calls'[j].amount <= collected'
  <2>1. /\ Checked(calls[k]) /\ withdrawn' = withdrawn + calls[k].amount
        /\ calls' = [calls EXCEPT ![k] = [calls[k] EXCEPT !.stage = "sent"]]
        /\ UNCHANGED collected
    BY <1>5 DEF FundSelfQuoted, Replied, Checked, Stage, TInv, TypeOK
  <2>2. ASSUME NEW j \in CallIds, Checked(calls[j])' PROVE FALSE
    <3>1. j # k
      BY <2>1, <2>2 DEF Checked, TInv, TypeOK, Call
    <3>2. Checked(calls[j])
      BY <2>1, <2>2, <3>1 DEF Checked, TInv, TypeOK
    <3> QED BY <2>1, <3>1, <3>2 DEF Checked, OneFundSelf
  <2> QED BY <1>1, <1>3, <2>1, <2>2
<1>6. CASE ~\E k \in CallIds : FundSelfQuoted(k)
  <2>1. withdrawn' <= withdrawn /\ ChecksKept /\ withdrawn <= collected
    BY <1>6, WithdrawnSteps DEF TreasuryCovers
  <2>2. ASSUME NEW j \in CallIds, Checked(calls[j])' PROVE withdrawn' + calls'[j].amount <= collected'
    <3>1. calls'[j].amount \in Nat
      BY <1>1, <2>2 DEF Checked
    <3>2. withdrawn + calls'[j].amount <= collected
      <4>1. CASE Checked(calls[j]) /\ calls'[j].amount = calls[j].amount
        BY <1>3, <4>1
      <4>2. CASE calls'[j].amount <= Available
        BY <1>1, <3>1, <4>2 DEF Available
      <4> QED BY <2>1, <2>2, <4>1, <4>2 DEF ChecksKept
    <3> QED BY <1>1, <1>2, <2>1, <3>1, <3>2
  <2> QED BY <1>1, <1>2, <2>1, <2>2
<1> QED BY <1>5, <1>6

\* While controllers fund the canister one call at a time, it never notes
\* more withdrawals than it has collected tax.
THEOREM TreasuryCoversWithdrawals == Spec /\ []OneFundSelf => []TreasuryCovers
<1>1. Init => TreasuryCovers
  BY DEF Init, TreasuryCovers, Replied
<1>2. TInv /\ TInv' /\ TreasuryCovers /\ OneFundSelf /\ [Next]_vars => TreasuryCovers'
  BY StepTreasury
<1> QED BY <1>1, <1>2, TypedAndSound, PTL DEF Spec

\* Prepaid balances, credits and escrow, which the treasury "must never
\* touch" (lib.rs), are covered by the account at any moment, under the
\* same two conditions; without either of them a run shows they are not.
THEOREM AccountCoversUsers == Spec /\ []FeeKept /\ []OneFundSelf => []Solvent
<1>1. TInv /\ IInv /\ TreasuryCovers => Solvent
  <2> SUFFICES ASSUME TInv, BInv, TreasuryCovers PROVE Solvent
    BY DEF IInv
  <2> DEFINE l == Liabilities  t == Transit  a == Account
  <2>1. /\ l \in Nat /\ t \in Nat /\ a \in Nat /\ collected \in Nat /\ withdrawn \in Nat
        /\ l + collected - withdrawn + t <= a /\ withdrawn <= collected
    BY BookTypes DEF BooksTyped, BInv, BooksBalance, Booked, TreasuryCovers
  <2> HIDE DEF l, t, a
  <2>2. l <= a
    BY <2>1
  <2> QED BY <2>2 DEF l, a, Solvent, Account
<1> QED BY <1>1, TypedAndSound, BooksInvariant, TreasuryCoversWithdrawals, PTL
=============================================================================
