---------------------------- MODULE Market_proofs ----------------------------
(***************************************************************************)
(* Type correctness of the market, and what it needs: holdings settled in  *)
(* the past, revealed bids covered by their deposits, suspended handlers   *)
(* that hold what they were checked for. The facts about sums come first   *)
(* that the theorems on the books rest on.                                 *)
(***************************************************************************)
EXTENDS MarketProperties, FiniteSetTheorems, TLAPS

-----------------------------------------------------------------------------
(* Sums *)

\* One entry holds as many coins as its amount.
LEMMA PileSize ==
  ASSUME NEW x, NEW n \in Nat
  PROVE  /\ IsFiniteSet({x} \X (1..n))
         /\ Cardinality({x} \X (1..n)) = n
<1>1. IsFiniteSet({x}) /\ Cardinality({x}) = 1
  BY FS_Singleton, Zenon
<1>2. IsFiniteSet(1..n) /\ Cardinality(1..n) = n
  BY FS_Interval
<1>3. /\ IsFiniteSet({x} \X (1..n))
      /\ Cardinality({x} \X (1..n)) = Cardinality({x}) * Cardinality(1..n)
  <2> DEFINE S == {x}
             T == 1..n
  <2> HIDE DEF S, T
  <2>1. IsFiniteSet(S) /\ IsFiniteSet(T)
    BY <1>1, <1>2 DEF S, T
  <2>2. IsFiniteSet(S \X T) /\ Cardinality(S \X T) = Cardinality(S) * Cardinality(T)
    BY <2>1, FS_Product, Zenon
  <2> QED BY <2>2, Zenon DEF S, T
<1>4. Cardinality({x} \X (1..n)) = 1 * n
  BY <1>1, <1>2, <1>3, Zenon
<1>5. 1 * n = n
  OBVIOUS
<1> QED
  BY <1>3, <1>4, <1>5, Zenon

\* A coin is a key and a place in the pile of that key.
LEMMA CoinsMembers ==
  ASSUME NEW f, NEW c
  PROVE  c \in Coins(f) <=> \E x \in DOMAIN f : \E i \in 1..f[x] : c = <<x, i>>
BY DEF Coins

\* A map with finitely many keys holds finitely many coins.
LEMMA CoinsFinite ==
  ASSUME NEW S, IsFiniteSet(S), NEW f \in [S -> Nat]
  PROVE  IsFiniteSet(Coins(f)) /\ Total(f) \in Nat
<1> DEFINE piles == {{x} \X (1..f[x]) : x \in S}
           pile  == [x \in S |-> {x} \X (1..f[x])]
<1>1. pile \in Surjection(S, piles)
  BY Zenon DEF Surjection
<1>2. IsFiniteSet(piles)
  <2> HIDE DEF piles, pile
  <2> QED BY <1>1, FS_Surjection, Zenon
<1>3. ASSUME NEW T \in piles PROVE IsFiniteSet(T)
  <2>1. PICK x \in S : T = {x} \X (1..f[x])
    OBVIOUS
  <2>2. f[x] \in Nat
    OBVIOUS
  <2> QED BY <2>1, <2>2, PileSize, Zenon
<1>4. IsFiniteSet(UNION piles)
  <2> HIDE DEF piles
  <2> QED BY <1>2, <1>3, FS_UNION, Zenon
<1>5. Coins(f) = UNION piles
  BY Zenon DEF Coins
<1>6. IsFiniteSet(Coins(f))
  BY <1>4, <1>5, Zenon
<1> QED
  BY <1>6, FS_CardinalityType, Zenon DEF Total

\* The sum of a pointwise sum is the sum of the sums: the coins of g are
\* stacked, pile by pile, on those of f.
LEMMA TotalPlus ==
  ASSUME NEW S, IsFiniteSet(S), NEW f \in [S -> Nat], NEW g \in [S -> Nat]
  PROVE  /\ Plus(f, g) \in [S -> Nat]
         /\ Total(Plus(f, g)) = Total(f) + Total(g)
<1> DEFINE h     == Plus(f, g)
           top   == Coins(h) \ Coins(f)
           stack == [c \in Coins(g) |-> <<c[1], f[c[1]] + c[2]>>]
<1>1. h \in [S -> Nat] /\ \A x \in S : h[x] = f[x] + g[x]
  BY DEF Plus
<1>2. \A c : c \in Coins(f) <=> \E x \in S : \E i \in 1..f[x] : c = <<x, i>>
  BY CoinsMembers
<1>3. \A c : c \in Coins(g) <=> \E x \in S : \E i \in 1..g[x] : c = <<x, i>>
  BY CoinsMembers
<1>4. \A c : c \in Coins(h) <=> \E x \in S : \E i \in 1..h[x] : c = <<x, i>>
  BY <1>1, CoinsMembers
<1> HIDE DEF h
<1>5. \A x \in S : f[x] \in Nat /\ g[x] \in Nat /\ h[x] = f[x] + g[x]
  BY <1>1
<1>6. Coins(f) \subseteq Coins(h)
  BY <1>2, <1>4, <1>5
<1>7. \A c : c \in top <=>
         \E x \in S : \E i \in 1..g[x] : c = <<x, f[x] + i>>
  <2>1. ASSUME NEW c \in top
        PROVE  \E x \in S : \E i \in 1..g[x] : c = <<x, f[x] + i>>
    <3>1. PICK x \in S : \E j \in 1..h[x] : c = <<x, j>>
      BY <1>4
    <3>2. PICK j \in 1..h[x] : c = <<x, j>>
      BY <3>1
    <3>3. j \notin 1..f[x]
      BY <1>2, <3>2
    <3>4. j - f[x] \in 1..g[x] /\ j = f[x] + (j - f[x])
      BY <1>5, <3>2, <3>3
    <3> QED BY <3>2, <3>4
  <2>2. ASSUME NEW x \in S, NEW i \in Nat, i \in 1..g[x]
        PROVE  <<x, f[x] + i>> \in top
    <3>1. f[x] + i \in 1..h[x] /\ f[x] + i \notin 1..f[x]
      BY <1>5, <2>2
    <3>2. <<x, f[x] + i>> \in Coins(h)
      BY <1>4, <3>1
    <3>3. <<x, f[x] + i>> \notin Coins(f)
      BY <1>2, <3>1
    <3> QED BY <3>2, <3>3
  <2> QED BY <2>1, <2>2
<1>8. \A x \in S : \A i \in 1..g[x] :
         /\ <<x, i>> \in Coins(g)
         /\ stack[<<x, i>>] = <<x, f[x] + i>>
  BY <1>3
<1>9. stack \in Bijection(Coins(g), top)
  <2>1. stack \in [Coins(g) -> top]
    BY <1>3, <1>7, <1>8
  <2>2. ASSUME NEW t \in top PROVE \E c \in Coins(g) : stack[c] = t
    <3>1. PICK x \in S : \E i \in 1..g[x] : t = <<x, f[x] + i>>
      BY <1>7
    <3>2. PICK i \in 1..g[x] : t = <<x, f[x] + i>>
      BY <3>1
    <3>3. <<x, i>> \in Coins(g) /\ stack[<<x, i>>] = t
      BY <1>8, <3>2
    <3> QED BY <3>3
  <2>3. ASSUME NEW a \in Coins(g), NEW b \in Coins(g), stack[a] = stack[b]
        PROVE  a = b
    <3>1. PICK x \in S : \E i \in 1..g[x] : a = <<x, i>>
      BY <1>3
    <3>2. PICK i \in 1..g[x] : a = <<x, i>>
      BY <3>1
    <3>3. PICK y \in S : \E j \in 1..g[y] : b = <<y, j>>
      BY <1>3
    <3>4. PICK j \in 1..g[y] : b = <<y, j>>
      BY <3>3
    <3>5. <<x, f[x] + i>> = <<y, f[y] + j>>
      BY <1>8, <2>3, <3>2, <3>4
    <3>6. x = y /\ f[x] + i = f[x] + j
      BY <3>5
    <3> QED BY <1>5, <3>2, <3>4, <3>6
  <2> HIDE DEF stack, top
  <2>4. DOMAIN stack = Coins(g)
    BY <2>1, Zenon
  <2> QED BY <2>1, <2>2, <2>3, <2>4, Zenon
          DEF Bijection, Injection, Surjection, IsInjective
<1>10. IsFiniteSet(Coins(f)) /\ IsFiniteSet(Coins(g)) /\ Total(f) \in Nat /\ Total(g) \in Nat
  BY CoinsFinite, Zenon
<1>11. IsFiniteSet(top) /\ Cardinality(top) = Total(g)
  <2> HIDE DEF stack, top
  <2>1. ExistsBijection(Coins(g), top)
    BY <1>9, Zenon DEF ExistsBijection
  <2> QED BY <1>10, <2>1, FS_Bijection, Zenon DEF Total
<1>12. Coins(f) \cup top = Coins(h) /\ Coins(f) \cap top = {}
  BY <1>6
<1>13. Cardinality(Coins(f) \cup top)
         = Cardinality(Coins(f)) + Cardinality(top) - Cardinality(Coins(f) \cap top)
  <2> HIDE DEF top
  <2> QED BY <1>10, <1>11, FS_Union, Zenon
<1>14. Total(h) = Total(f) + Total(g) - 0
  <2> HIDE DEF top
  <2> QED BY <1>11, <1>12, <1>13, FS_EmptySet, Zenon DEF Total
<1> QED
  BY <1>1, <1>10, <1>14 DEF h

\* A map with one non-empty entry holds what the entry holds.
LEMMA TotalSingle ==
  ASSUME NEW S, NEW x \in S, NEW v \in Nat
  PROVE  Total([y \in S |-> IF y = x THEN v ELSE 0]) = v
<1> DEFINE f == [y \in S |-> IF y = x THEN v ELSE 0]
<1>1. \A c : c \in Coins(f) <=> \E y \in S : \E i \in 1..f[y] : c = <<y, i>>
  BY CoinsMembers
<1>2. \A y \in S : y # x => 1..f[y] = {}
  OBVIOUS
<1>3. f[x] = v
  OBVIOUS
<1> HIDE DEF f
<1>4. Coins(f) = {x} \X (1..v)
  BY <1>1, <1>2, <1>3
<1> QED
  BY <1>4, PileSize, Zenon DEF f, Total

\* Every entry holds at most the sum, and a sum of nothing is zero.
LEMMA TotalBounds ==
  ASSUME NEW S, IsFiniteSet(S), NEW f \in [S -> Nat]
  PROVE  /\ \A x \in S : f[x] <= Total(f)
         /\ (\A x \in S : f[x] = 0) => Total(f) = 0
<1>1. \A c : c \in Coins(f) <=> \E x \in S : \E i \in 1..f[x] : c = <<x, i>>
  BY CoinsMembers
<1>2. ASSUME NEW x \in S PROVE f[x] <= Total(f)
  <2>1. {x} \X (1..f[x]) \in SUBSET Coins(f)
    BY <1>1
  <2>2. f[x] \in Nat
    OBVIOUS
  <2>3. Cardinality({x} \X (1..f[x])) <= Cardinality(Coins(f))
    <3> DEFINE pile == {x} \X (1..f[x])
    <3> HIDE DEF pile
    <3>1. pile \in SUBSET Coins(f)
      BY <2>1 DEF pile
    <3>2. Cardinality(pile) <= Cardinality(Coins(f))
      BY <3>1, CoinsFinite, FS_Subset, Zenon
    <3> QED BY <3>2 DEF pile
  <2> QED BY <2>2, <2>3, PileSize DEF Total
<1>3. ASSUME \A x \in S : f[x] = 0 PROVE Total(f) = 0
  <2>1. Coins(f) = {}
    BY <1>1, <1>3
  <2> QED BY <2>1, FS_EmptySet, Zenon DEF Total
<1> QED
  BY <1>2, <1>3

\* Writing one entry changes the sum by the difference.
LEMMA TotalUpdate ==
  ASSUME NEW S, IsFiniteSet(S), NEW f \in [S -> Nat], NEW x \in S, NEW v \in Nat
  PROVE  Total([f EXCEPT ![x] = v]) = Total(f) - f[x] + v
<1> DEFINE rest == [f EXCEPT ![x] = 0]
           only(n) == [y \in S |-> IF y = x THEN n ELSE 0]
<1>1. rest \in [S -> Nat] /\ f[x] \in Nat
  OBVIOUS
<1>2. ASSUME NEW n \in Nat PROVE only(n) \in [S -> Nat]
  OBVIOUS
<1>3. f = Plus(rest, only(f[x]))
  BY DEF Plus
<1>4. [f EXCEPT ![x] = v] = Plus(rest, only(v))
  <2>1. Plus(rest, only(v)) = [y \in S |-> rest[y] + only(v)[y]]
    BY DEF Plus
  <2>2. \A y \in S : rest[y] + only(v)[y] = (IF y = x THEN v ELSE f[y])
    OBVIOUS
  <2> QED BY <2>1, <2>2
<1>5. ASSUME NEW n \in Nat PROVE Total(Plus(rest, only(n))) = Total(rest) + n
  <2>1. Total(only(n)) = n
    BY TotalSingle
  <2>2. only(n) \in [S -> Nat]
    BY <1>2
  <2> HIDE DEF rest, only
  <2>3. Total(Plus(rest, only(n))) = Total(rest) + Total(only(n))
    BY <1>1, <2>2, TotalPlus, Zenon
  <2> QED BY <2>1, <2>3, Zenon
<1>6. Total(rest) \in Nat
  <2> HIDE DEF rest
  <2> QED BY <1>1, CoinsFinite, Zenon
<1>7. Total(f) = Total(rest) + f[x]
  <2>1. Total(Plus(rest, only(f[x]))) = Total(rest) + f[x]
    BY <1>1, <1>5
  <2> HIDE DEF rest, only
  <2> QED BY <1>3, <2>1
<1>8. Total([f EXCEPT ![x] = v]) = Total(rest) + v
  <2>1. Total(Plus(rest, only(v))) = Total(rest) + v
    BY <1>5
  <2> HIDE DEF rest, only
  <2> QED BY <1>4, <2>1
<1> HIDE DEF rest
<1> QED
  BY <1>1, <1>6, <1>7, <1>8

\* Adding to one entry adds to the sum, and taking from it takes from it.
LEMMA TotalAdded ==
  ASSUME NEW S, IsFiniteSet(S), NEW f \in [S -> Nat], NEW x \in S, NEW v \in Int,
         f[x] + v \in Nat
  PROVE  Total([f EXCEPT ![x] = @ + v]) = Total(f) + v /\ Total(f) \in Nat
<1> DEFINE w == f[x] + v
           g == [f EXCEPT ![x] = @ + v]
<1>1. g = [f EXCEPT ![x] = w] /\ w \in Nat /\ f[x] \in Nat
  OBVIOUS
<1>2. w = f[x] + v
  OBVIOUS
<1> HIDE DEF w, g
<1>3. Total([f EXCEPT ![x] = w]) = Total(f) - f[x] + w
  BY <1>1, TotalUpdate
<1>4. Total(f) \in Nat
  BY CoinsFinite
<1> DEFINE s == Total(f)  t == Total(g)  u == f[x]
<1>5. s \in Nat /\ u \in Nat /\ t = s - u + w /\ w = u + v
  BY <1>1, <1>2, <1>3, <1>4
<1> HIDE DEF s, t, u
<1>6. t = s + v
  BY <1>5
<1> QED BY <1>4, <1>6 DEF s, t, g

\* Table f has d in row n and is zero elsewhere.
IsRow(f, S, T, n, d) ==
  /\ f \in [S \X T -> Nat]
  /\ \A x \in S \X T : f[x] = IF x[1] = n THEN d[x[2]] ELSE 0

\* Such a table holds what the row holds.
LEMMA TotalRow ==
  ASSUME NEW S, NEW T, IsFiniteSet(T), NEW n \in S, NEW d \in [T -> Nat],
         NEW f, IsRow(f, S, T, n, d)
  PROVE  Total(f) = Total(d)
<1> USE DEF IsRow
<1> DEFINE shift == [c \in Coins(d) |-> <<<<n, c[1]>>, c[2]>>]
<1>1. \A c : c \in Coins(d) <=> \E y \in T : \E i \in 1..d[y] : c = <<y, i>>
  BY CoinsMembers
<1>2. \A c : c \in Coins(f) <=> \E x \in S \X T : \E i \in 1..f[x] : c = <<x, i>>
  BY CoinsMembers
<1>3. \A y \in T : <<n, y>> \in S \X T /\ f[<<n, y>>] = d[y]
  OBVIOUS
<1>4. \A x \in S \X T : x = <<x[1], x[2]>> /\ x[2] \in T /\ (x[1] # n => f[x] = 0)
  OBVIOUS
<1>5. \A y \in T : \A i \in 1..d[y] :
        /\ <<y, i>> \in Coins(d)
        /\ <<<<n, y>>, i>> \in Coins(f)
        /\ shift[<<y, i>>] = <<<<n, y>>, i>>
  BY <1>1, <1>2, <1>3
<1>6. shift \in [Coins(d) -> Coins(f)]
  <2>1. ASSUME NEW c \in Coins(d) PROVE shift[c] \in Coins(f)
    <3>1. PICK y \in T : \E i \in 1..d[y] : c = <<y, i>>
      BY <1>1
    <3>2. PICK i \in 1..d[y] : c = <<y, i>>
      BY <3>1
    <3> HIDE DEF shift
    <3> QED BY <1>5, <3>2
  <2> QED BY <2>1
<1>7. ASSUME NEW e \in Coins(f) PROVE \E c \in Coins(d) : shift[c] = e
  <2>1. PICK x \in S \X T : \E i \in 1..f[x] : e = <<x, i>>
    BY <1>2
  <2>2. PICK i \in 1..f[x] : e = <<x, i>>
    BY <2>1
  <2>3. x[1] = n
    BY <1>4, <2>2
  <2>4. x = <<n, x[2]>> /\ x[2] \in T /\ i \in 1..d[x[2]]
    BY <1>3, <1>4, <2>2, <2>3
  <2>5. <<x[2], i>> \in Coins(d) /\ shift[<<x[2], i>>] = e
    BY <1>5, <2>2, <2>4
  <2> QED BY <2>5
<1>8. ASSUME NEW a \in Coins(d), NEW b \in Coins(d), shift[a] = shift[b]
      PROVE  a = b
  <2>1. PICK y \in T : \E i \in 1..d[y] : a = <<y, i>>
    BY <1>1
  <2>2. PICK i \in 1..d[y] : a = <<y, i>>
    BY <2>1
  <2>3. PICK z \in T : \E j \in 1..d[z] : b = <<z, j>>
    BY <1>1
  <2>4. PICK j \in 1..d[z] : b = <<z, j>>
    BY <2>3
  <2>5. <<<<n, y>>, i>> = <<<<n, z>>, j>>
    BY <1>5, <1>8, <2>2, <2>4
  <2> QED BY <2>2, <2>4, <2>5
<1> HIDE DEF shift
<1>9. shift \in Bijection(Coins(d), Coins(f))
  <2>1. DOMAIN shift = Coins(d)
    BY <1>6, Zenon
  <2> QED BY <1>6, <1>7, <1>8, <2>1, Zenon DEF Bijection, Injection, Surjection, IsInjective
<1>10. ExistsBijection(Coins(d), Coins(f))
  BY <1>9, Zenon DEF ExistsBijection
<1>11. IsFiniteSet(Coins(d))
  BY CoinsFinite, Zenon
<1>12. Cardinality(Coins(d)) = Cardinality(Coins(f))
  BY <1>10, <1>11, FS_Bijection, Zenon
<1> QED BY <1>12, Zenon DEF Total

-----------------------------------------------------------------------------
(* The invariant of the market *)

\* What a settlement takes is there, and leaves a sound holding.
LEMMA SettleSound ==
  ASSUME NEW cf, cf.rate \in Nat, NEW time \in Nat,
         NEW h \in Holding, HoldingSound(h, time)
  PROVE  /\ Taken(cf, h, time) \in 0..h.balance
         /\ Settle(cf, h, time) \in Holding
         /\ Settle(cf, h, time).price = h.price
         /\ Settle(cf, h, time).balance = h.balance - Taken(cf, h, time)
         /\ HoldingSound(Settle(cf, h, time), time)
<1> DEFINE burn  == h.price * cf.rate
           ticks == time - h.settled
<1>1. /\ h.price \in Nat /\ h.balance \in Nat /\ h.settled \in Nat
      /\ h.lapsed \in Nat \cup {None}
      /\ h.settled <= time /\ (h.lapsed # None => h.balance = 0)
  BY DEF Holding, HoldingSound
<1>2. burn \in Nat /\ ticks \in Nat
  BY <1>1
<1>3. TaxDue(cf, h.price, ticks) = burn * ticks /\ burn * ticks \in Nat
  <2> HIDE DEF burn, ticks
  <2>1. burn * ticks \in Nat
    BY <1>2
  <2> QED BY <2>1 DEF TaxDue, burn, ticks
<1>4. burn = 0 => burn * ticks = 0
  <2> HIDE DEF burn, ticks
  <2> QED BY <1>2
<1>5. Taken(cf, h, time) \in 0..h.balance
  <2> HIDE DEF burn, ticks
  <2>1. CASE h.lapsed # None
    BY <1>1, <2>1 DEF Taken
  <2>2. CASE h.lapsed = None /\ RunsOut(cf, h, time)
    BY <1>1, <2>2 DEF Taken
  <2>3. CASE h.lapsed = None /\ ~RunsOut(cf, h, time)
    <3>1. Taken(cf, h, time) = burn * ticks
      BY <1>3, <2>3 DEF Taken, ticks
    <3>2. burn * ticks <= h.balance
      <4>1. burn > 0 => ~(burn * ticks >= h.balance)
        BY <1>3, <2>3 DEF RunsOut, burn, ticks
      <4> QED BY <1>1, <1>2, <1>3, <1>4, <4>1
    <3> QED BY <1>1, <1>3, <3>1, <3>2
  <2> QED BY <2>1, <2>2, <2>3
<1>6. LapsedAt(cf, h, time) \in Nat \cup {None}
  <2>1. ASSUME burn > 0 PROVE TicksUntilSpent(cf, h) \in Nat
    <3> HIDE DEF burn
    <3>1. h.balance + burn - 1 \in Nat
      BY <1>1, <1>2, <2>1
    <3>2. (h.balance + burn - 1) \div burn \in Nat
      BY <1>2, <2>1, <3>1
    <3> QED BY <3>2 DEF TicksUntilSpent, burn
  <2> HIDE DEF burn, ticks
  <2> QED BY <1>1, <2>1 DEF LapsedAt, RunsOut, burn
<1>7. LapsedAt(cf, h, time) # None => h.balance - Taken(cf, h, time) = 0
  BY <1>1 DEF LapsedAt, Taken, RunsOut
<1> HIDE DEF burn, ticks
<1>8. /\ Settle(cf, h, time) =
           [price   |-> h.price,
            balance |-> h.balance - Taken(cf, h, time),
            settled |-> IF h.lapsed = None THEN time ELSE h.settled,
            lapsed  |-> LapsedAt(cf, h, time)]
  <2>1. h = [price |-> h.price, balance |-> h.balance,
             settled |-> h.settled, lapsed |-> h.lapsed]
    BY DEF Holding
  <2> DEFINE taken  == Taken(cf, h, time)
             lapsed == LapsedAt(cf, h, time)
  <2>2. Settle(cf, h, time) =
          [h EXCEPT !.balance = @ - taken, !.lapsed = lapsed,
                    !.settled = IF h.lapsed = None THEN time ELSE @]
    BY DEF Settle
  <2> HIDE DEF taken, lapsed
  <2> QED BY <2>1, <2>2 DEF taken, lapsed
<1>9. h.balance - Taken(cf, h, time) \in Nat
  BY <1>1, <1>5
<1> QED
  BY <1>1, <1>5, <1>6, <1>7, <1>8, <1>9 DEF Holding, HoldingSound

\* A holding sold or claimed anew, and one topped up.
LEMMA NewHoldingSound ==
  ASSUME NEW price \in Nat, NEW balance \in Nat, NEW time \in Nat
  PROVE  /\ NewHolding(price, balance, time) \in Holding
         /\ HoldingSound(NewHolding(price, balance, time), time)
BY DEF NewHolding, Holding, HoldingSound

\* A holding topped up: what is left of its balance and the payment.
LEMMA TopUpSound ==
  ASSUME NEW cf, cf.rate \in Nat, NEW time \in Nat, NEW amount \in Nat,
         NEW h \in Holding, HoldingSound(h, time)
  PROVE  /\ TopUp(cf, h, amount, time) \in Holding
         /\ TopUp(cf, h, amount, time).price = h.price
         /\ TopUp(cf, h, amount, time).balance =
              h.balance - Taken(cf, h, time) + amount
         /\ HoldingSound(TopUp(cf, h, amount, time), time)
<1> DEFINE s == Settle(cf, h, time)
<1>1. s \in Holding /\ s.price = h.price /\ s.balance = h.balance - Taken(cf, h, time)
  BY SettleSound
<1>2. TopUp(cf, h, amount, time) = [s EXCEPT !.balance = @ + amount, !.settled = time, !.lapsed = None]
  BY DEF TopUp
<1> HIDE DEF s
<1>3. TopUp(cf, h, amount, time) =
        [price |-> s.price, balance |-> s.balance + amount, settled |-> time, lapsed |-> None]
  <2>1. s = [price |-> s.price, balance |-> s.balance, settled |-> s.settled, lapsed |-> s.lapsed]
    BY <1>1 DEF Holding
  <2> QED BY <1>2, <2>1
<1> QED BY <1>1, <1>3 DEF Holding, HoldingSound

\* A record with another target or another holding is a record.
LEMMA RecordWith ==
  ASSUME NEW r \in Record, NEW h \in Holding, NEW t \in FlatTargets
  PROVE  /\ [r EXCEPT !.flat = h] \in Record
         /\ [r EXCEPT !.flat = h].flat = h
         /\ [r EXCEPT !.target = t, !.flat = h] \in Record
         /\ [r EXCEPT !.target = t, !.flat = h].flat = h
BY DEF Record

\* A reserve is an amount.
LEMMA ReserveType ==
  ASSUME NEW cf \in Config, terms \in Terms
  PROVE  Reserve(cf) \in Nat
BY DEF Reserve, Greatest, Config, Terms

\* A winner revealed at least what it pays.
LEMMA OutcomeSound ==
  ASSUME NEW a \in Running, NEW o \in Outcomes(a), o.winner # None
  PROVE  /\ o.winner \in Revealed(a)
         /\ o.winner \in Principals
         /\ o.price \in Nat
         /\ a.bids[o.winner].revealed \in Nat
         /\ o.price <= a.bids[o.winner].revealed
<1>1. /\ a.bids \in [Principals -> Bid \cup {None}]
      /\ a.reserve \in Nat
  BY DEF Running
<1>2. \A p \in Revealed(a) : /\ p \in Principals
                            /\ a.bids[p] \in Bid
                            /\ a.bids[p].revealed \in Nat
  BY <1>1 DEF Revealed, Bidders, Bid
<1>3. /\ o.winner \in Winners(a)
      /\ o.price \in Rivals(a, o.winner)
  <2>1. Winners(a) # {}
    BY DEF Outcomes
  <2>2. o \in [winner : Winners(a), price : UNION {Rivals(a, w) : w \in Winners(a)}]
    BY <2>1, Zenon DEF Outcomes
  <2>3. o.price \in Rivals(a, o.winner)
    BY <2>1, Zenon DEF Outcomes
  <2> QED BY <2>2, <2>3
<1>4. \A x \in Rivals(a, o.winner) : x \in Nat /\ x <= a.bids[o.winner].revealed
  BY <1>1, <1>2, <1>3 DEF Rivals, Winners
<1> QED BY <1>2, <1>3, <1>4 DEF Winners

\* Of a win that stands the same is kept whether the winner is told by the
\* outcome or by who gets the name; of a void one nothing.
LEMMA RefundsSplit ==
  ASSUME NEW a, NEW o, NEW winner, NEW kept,
         winner = o.winner \/ (winner = None /\ kept = 0)
  PROVE  Refunds(a, o, kept) =
           [p \in Principals |->
              IF p \notin Revealed(a) THEN 0
              ELSE a.bids[p].deposit - IF p = winner THEN kept ELSE 0]
<1>1. CASE winner = o.winner
  BY <1>1 DEF Refunds
<1>2. CASE kept = 0
  <2>1. \A p : /\ (IF p = o.winner THEN kept ELSE 0) = 0
               /\ (IF p = winner THEN kept ELSE 0) = 0
    BY <1>2
  <2> QED BY <2>1 DEF Refunds
<1> QED BY <1>1, <1>2

\* What a close works out is well typed and leaves a sound holding.
LEMMA ClosingSound ==
  ASSUME now \in Nat, NEW cf \in Config, NEW a \in Running, AuctionSound(a),
         NEW r \in Record \cup {None}, r # None => HoldingSound(r.flat, now),
         NEW o \in Outcomes(a)
  PROVE  LET c == Closing(cf, a, r, o) IN
         /\ c.refunds \in [Principals -> Nat]
         /\ c.income \in Nat
         /\ c.tax \in Nat
         /\ c.record \in Record \cup {None}
         /\ c.record # None => HoldingSound(c.record.flat, now)
<1> DEFINE winner  == WinnerOf(cf, r, o)
           price   == IF winner = None THEN 0 ELSE o.price
           opening == IF winner = None THEN 0
                      ELSE Least(a.bids[winner].opening, a.bids[winner].deposit - price)
           refunds == [p \in Principals |->
                         IF p \notin Revealed(a) THEN 0
                         ELSE a.bids[p].deposit - IF p = winner THEN price + opening ELSE 0]
           holding == NewHolding(a.bids[winner].revealed, opening, now)
           record  == IF winner = None THEN r
                      ELSE [owner    |-> winner,
                            target   |-> a.bids[winner].alias,
                            previous |-> IF r = None THEN None ELSE r.target,
                            changed  |-> now,
                            flat     |-> holding]
           tax     == IF winner = None \/ r = None THEN 0 ELSE Taken(cf, r.flat, now)
           income  == price + Total(Forfeits(a))
<1>1. \A p \in Revealed(a) :
        /\ p \in Principals
        /\ a.bids[p] \in Bid
        /\ a.bids[p].deposit \in Nat /\ a.bids[p].opening \in Nat
        /\ a.bids[p].revealed \in Nat
        /\ BidCovered(a.bids[p])
  BY DEF Running, Revealed, Bidders, Bid, AuctionSound
<1>2. winner # None =>
        /\ winner \in Revealed(a)
        /\ price \in Nat
        /\ price <= a.bids[winner].revealed
  BY OutcomeSound DEF WinnerOf
<1>3. price \in Nat /\ opening \in Nat
  <2>1. CASE winner = None
    BY <2>1
  <2>2. CASE winner # None
    <3> HIDE DEF winner, price
    <3> QED BY <1>1, <1>2, <2>2 DEF Least, BidCovered
  <2> QED BY <2>1, <2>2
<1>4. winner # None => a.bids[winner].deposit - (price + opening) \in Nat
  <2> HIDE DEF winner, price
  <2> QED BY <1>1, <1>2 DEF Least, BidCovered
<1>5. refunds \in [Principals -> Nat]
  <2> HIDE DEF winner, price, opening
  <2> SUFFICES ASSUME NEW p \in Principals PROVE refunds[p] \in Nat
    OBVIOUS
  <2>1. CASE p \notin Revealed(a)
    BY <2>1
  <2>2. CASE p \in Revealed(a) /\ p = winner
    <3>1. winner # None
      BY <2>2, StartAssumption
    <3> QED BY <1>4, <2>2, <3>1
  <2>3. CASE p \in Revealed(a) /\ p # winner
    BY <1>1, <2>3
  <2> QED BY <2>1, <2>2, <2>3
<1>6. Total(Forfeits(a)) \in Nat
  <2>1. Forfeits(a) \in [Principals -> Nat]
    BY DEF Forfeits, Bidders, Bid, Running
  <2> QED BY <2>1, CoinsFinite, MarketAssumption
<1>7. income \in Nat
  <2> HIDE DEF price
  <2> QED BY <1>3, <1>6
<1>8. tax \in Nat
  <2>1. CASE r = None
    BY <2>1
  <2>2. CASE r # None
    <3>1. r.flat \in Holding /\ cf.rate \in Nat /\ HoldingSound(r.flat, now)
      BY <2>2 DEF Record, Config
    <3>2. Taken(cf, r.flat, now) \in 0..r.flat.balance
      BY <3>1, SettleSound
    <3>3. r.flat.balance \in Nat
      BY <3>1 DEF Holding
    <3> HIDE DEF winner
    <3> QED BY <3>2, <3>3
  <2> QED BY <2>1, <2>2
<1>9. winner # None => holding \in Holding /\ HoldingSound(holding, now)
  <2> HIDE DEF winner, opening
  <2> QED BY <1>1, <1>2, <1>3, NewHoldingSound
<1>10. record \in Record \cup {None} /\ (record # None => HoldingSound(record.flat, now))
  <2> HIDE DEF holding
  <2>1. CASE winner = None
    BY <2>1
  <2>2. CASE winner # None
    <3> HIDE DEF winner
    <3>1. winner \in Principals /\ a.bids[winner].alias \in FlatTargets
      BY <1>1, <1>2, <2>2 DEF BidCovered
    <3>2. (IF r = None THEN None ELSE r.target) \in FlatTargets \cup {None}
      BY DEF Record
    <3>3. record \in Record
      BY <1>9, <2>2, <3>1, <3>2 DEF Record
    <3>4. record.flat = holding
      BY <2>2
    <3> QED BY <1>9, <2>2, <3>3, <3>4
  <2> QED BY <2>1, <2>2
<1>11. Closing(cf, a, r, o) =
         [refunds |-> refunds, income |-> income, tax |-> tax, record |-> record]
  <2>1. winner = o.winner \/ (winner = None /\ price + opening = 0)
    BY DEF WinnerOf
  <2>2. refunds = Refunds(a, o, price + opening)
    <3> HIDE DEF winner, price, opening
    <3> QED BY <2>1, RefundsSplit
  <2> HIDE DEF refunds
  <2> QED BY <2>2, Zenon DEF Closing
<1> HIDE DEF refunds, income, tax, record
<1> QED BY <1>5, <1>7, <1>8, <1>10, <1>11

\* A name that is free has no balance left that the tax would not take.
LEMMA FreeIsSpent ==
  ASSUME NEW cf, NEW time \in Nat, NEW h \in Holding, HoldingSound(h, time),
         IsFree(cf, h, time)
  PROVE  Taken(cf, h, time) = h.balance
<1>1. LapsedAt(cf, h, time) # None
  BY DEF IsFree, Status
<1> QED BY <1>1 DEF LapsedAt, Taken, HoldingSound, RunsOut

\* What a suspended handler has in transit, and what it may undo, are amounts.
LEMMA InTransitType ==
  ASSUME NEW c \in Call, CallSound(c)
  PROVE  InTransit(c) \in 0..c.amount /\ Noted(c) \in 0..c.amount /\ c.amount \in Nat
<1>1. c.amount \in Nat /\ c.cfg.fee \in Nat /\ c # None
  BY StartAssumption DEF Call, Config
<1>2. c.stage = "charged" => c.amount > c.cfg.fee
  BY DEF Call, CallSound, Payments
<1> QED BY <1>1, <1>2 DEF InTransit, Noted

-----------------------------------------------------------------------------
(* What a step writes: one record, one auction, one call                   *)

\* One record written, with a sound holding.
LEMMA RecordWritten ==
  ASSUME TInv, now' = now, NEW n \in FlatNames, NEW r \in Record \cup {None},
         r # None => HoldingSound(r.flat, now),
         records' = [records EXCEPT ![n] = r]
  PROVE  records' \in [FlatNames -> Record \cup {None}] /\ HoldingsSound'
<1>1. records \in [FlatNames -> Record \cup {None}] /\ HoldingsSound
  BY DEF TInv, TypeOK
<1>2. records' \in [FlatNames -> Record \cup {None}]
  BY <1>1
<1>3. ASSUME NEW m \in FlatNames, records'[m] # None
      PROVE  HoldingSound(records'[m].flat, now)
  BY <1>1, <1>3 DEF HoldingsSound
<1> QED BY <1>2, <1>3 DEF HoldingsSound, HoldingSound

\* One auction written, whose revealed bids are covered.
LEMMA AuctionWritten ==
  ASSUME TInv, NEW n \in FlatNames, NEW a \in Running \cup {None},
         a # None => AuctionSound(a),
         auctions' = [auctions EXCEPT ![n] = a]
  PROVE  auctions' \in [FlatNames -> Running \cup {None}] /\ AuctionsSound'
BY DEF TInv, TypeOK, AuctionsSound

\* One call written, with sound locals.
LEMMA CallWritten ==
  ASSUME TInv, cfg' = cfg, NEW k \in CallIds, NEW c \in Call \cup {None},
         c # None => CallSound(c),
         calls' = [calls EXCEPT ![k] = c]
  PROVE  calls' \in [CallIds -> Call \cup {None}] /\ CallsSound'
<1>1. calls \in [CallIds -> Call \cup {None}] /\ CallsSound
  BY DEF TInv, TypeOK
<1>2. calls' \in [CallIds -> Call \cup {None}]
  BY <1>1
<1>3. ASSUME NEW j \in CallIds, calls'[j] # None
      PROVE  CallSound(calls'[j])
  BY <1>1, <1>3 DEF CallsSound
<1>4. ASSUME NEW j \in CallIds, calls'[j] # None
      PROVE  CallSound(calls[j])'
  BY <1>3, <1>4 DEF CallSound
<1> QED BY <1>2, <1>4 DEF CallsSound

\* A call that ends leaves the others as they are.
LEMMA CallFinished ==
  ASSUME TInv, cfg' = cfg, NEW k \in CallIds, Finish(k)
  PROVE  calls' \in [CallIds -> Call \cup {None}] /\ CallsSound'
BY CallWritten DEF Finish

\* So does one that the ledger has answered.
LEMMA CallStaged ==
  ASSUME TInv, cfg' = cfg, NEW k \in CallIds, calls[k] # None,
         NEW stage \in {"sent", "moved", "refused", "charged"},
         calls[k].op # "configure", stage = "charged" => calls[k].op = "fund_self",
         Stage(k, stage)
  PROVE  calls' \in [CallIds -> Call \cup {None}] /\ CallsSound'
<1> DEFINE c == [calls[k] EXCEPT !.stage = stage]
<1>1. calls[k] \in Call /\ CallSound(calls[k]) /\ calls \in [CallIds -> Call \cup {None}]
  BY DEF TInv, TypeOK, CallsSound
<1>2. c \in Call
  BY <1>1 DEF Call
<1>3. CallSound(c)
  BY <1>1 DEF Call, CallSound, Payments
<1>4. calls' = [calls EXCEPT ![k] = c]
  BY <1>1 DEF Stage
<1> HIDE DEF c
<1> QED BY <1>2, <1>3, <1>4, CallWritten

\* A call to the ledger as a handler sends it.
LEMMA RequestType ==
  ASSUME cfg \in Config, NEW op, NEW who \in Principals,
         op \in {"buy", "deposit", "bid", "withdraw", "fund_self", "configure"},
         NEW stage \in {"asked", "sent"}
  PROVE  Request(op, stage, who) \in Call
BY DEF Request, Call

-----------------------------------------------------------------------------
(* The handlers without an await                                           *)

\* A holder acts on its name: the record it writes back is settled.
LEMMA HolderActs ==
  ASSUME TInv, NEW p, NEW n \in FlatNames, Holds(p, n)
  PROVE  /\ records[n] \in Record
         /\ records[n].flat \in Holding
         /\ HoldingSound(records[n].flat, now)
         /\ Taken(cfg, records[n].flat, now) \in 0..records[n].flat.balance
         /\ Taken(cfg, records[n].flat, now) \in Nat
         /\ Settle(cfg, records[n].flat, now) \in Holding
         /\ HoldingSound(Settle(cfg, records[n].flat, now), now)
<1>1. records[n] \in Record /\ records[n].flat \in Holding
      /\ HoldingSound(records[n].flat, now) /\ cfg.rate \in Nat /\ now \in Nat
  BY DEF TInv, TypeOK, Holds, Held, HoldingsSound, Record, Config
<1>2. records[n].flat.balance \in Nat
  BY <1>1 DEF Holding
<1> QED BY <1>1, <1>2, SettleSound

\* set_price settles the holding and changes nothing of it but the price.
LEMMA SetPriceKeeps ==
  ASSUME TInv, NEW p \in Principals, NEW n \in FlatNames, NEW price \in Prices,
         SetPrice(p, n, price)
  PROVE  TInv'
<1> DEFINE h == Settle(cfg, records[n].flat, now)
           g == [h EXCEPT !.price = price]
           r == [records[n] EXCEPT !.flat = g]
<1>1. h \in Holding /\ HoldingSound(h, now) /\ records[n] \in Record
      /\ Taken(cfg, records[n].flat, now) \in Nat
  BY HolderActs DEF SetPrice
<1>2. g \in Holding /\ HoldingSound(g, now)
  <2> HIDE DEF h
  <2>1. price \in Nat
    BY MarketAssumption
  <2> QED BY <1>1, <2>1 DEF Holding, HoldingSound
<1>3. r \in Record /\ r.flat = g
  <2> HIDE DEF g
  <2> QED BY <1>1, <1>2 DEF Record
<1>4. /\ records' = [records EXCEPT ![n] = r]
      /\ collected' = collected + Taken(cfg, records[n].flat, now)
      /\ UNCHANGED <<cfg, terms, auctions, credits, withdrawn, proceeds,
                     unreconciled, calls, now, accounts, fee>>
  BY DEF SetPrice, CommitFlat, ledgerVars
<1> HIDE DEF r
<1>5. records' \in [FlatNames -> Record \cup {None}] /\ HoldingsSound'
  BY <1>2, <1>3, <1>4, RecordWritten
<1>6. TypeOK'
  BY <1>1, <1>4, <1>5 DEF TInv, TypeOK, LedgerTypeOK
<1>7. AuctionsSound' /\ CallsSound'
  BY <1>4 DEF TInv, AuctionsSound, CallsSound, CallSound
<1> QED BY <1>5, <1>6, <1>7 DEF TInv

\* set_record settles the holding and repoints the name.
LEMMA SetRecordKeeps ==
  ASSUME TInv, NEW p \in Principals, NEW n \in FlatNames, NEW t \in FlatTargets,
         SetRecord(p, n, t)
  PROVE  TInv'
<1> DEFINE h == Settle(cfg, records[n].flat, now)
           r == [records[n] EXCEPT !.target = t, !.flat = h]
<1>1. h \in Holding /\ HoldingSound(h, now) /\ records[n] \in Record
      /\ Taken(cfg, records[n].flat, now) \in Nat
  BY HolderActs DEF SetRecord
<1>2. /\ records' = [records EXCEPT ![n] = r]
      /\ collected' = collected + Taken(cfg, records[n].flat, now)
      /\ UNCHANGED <<cfg, terms, auctions, credits, withdrawn, proceeds,
                     unreconciled, calls, now, accounts, fee>>
  BY DEF SetRecord, CommitFlat, ledgerVars
<1> HIDE DEF h
<1>3. r \in Record /\ r.flat = h
  BY <1>1, RecordWith
<1> HIDE DEF r
<1>4. records' \in [FlatNames -> Record \cup {None}] /\ HoldingsSound'
  BY <1>1, <1>2, <1>3, RecordWritten
<1>5. TypeOK'
  BY <1>1, <1>2, <1>4 DEF TInv, TypeOK, LedgerTypeOK
<1>6. AuctionsSound' /\ CallsSound'
  BY <1>2 DEF TInv, AuctionsSound, CallsSound, CallSound
<1> QED BY <1>4, <1>5, <1>6 DEF TInv

\* delete_record settles the holding and credits what is left of it.
LEMMA DeleteRecordKeeps ==
  ASSUME TInv, NEW p \in Principals, NEW n \in FlatNames, DeleteRecord(p, n)
  PROVE  TInv'
<1> DEFINE h == records[n].flat
<1>1. Settle(cfg, h, now) \in Holding /\ Taken(cfg, h, now) \in Nat
  BY HolderActs DEF DeleteRecord
<1>2. Settle(cfg, h, now).balance \in Nat
  BY <1>1 DEF Holding
<1>3. /\ records' = [records EXCEPT ![n] = None]
      /\ collected' = collected + Taken(cfg, h, now)
      /\ credits' = [credits EXCEPT ![p] = @ + Settle(cfg, h, now).balance]
      /\ UNCHANGED <<cfg, terms, auctions, withdrawn, proceeds,
                     unreconciled, calls, now, accounts, fee>>
  BY DEF DeleteRecord, AddCredit, ledgerVars
<1>4. records' \in [FlatNames -> Record \cup {None}] /\ HoldingsSound'
  BY <1>3, RecordWritten
<1> HIDE DEF h
<1>5. credits' \in [Principals -> Nat] /\ collected' \in Nat
  BY <1>1, <1>2, <1>3 DEF TInv, TypeOK
<1>6. TypeOK'
  BY <1>3, <1>4, <1>5 DEF TInv, TypeOK, LedgerTypeOK
<1>7. AuctionsSound' /\ CallsSound'
  BY <1>3 DEF TInv, AuctionsSound, CallsSound, CallSound
<1> QED BY <1>4, <1>6, <1>7 DEF TInv

\* A grace period of tax is an amount.
LEMMA MinDepositType ==
  ASSUME NEW cf \in Config, NEW price \in Nat
  PROVE  MinDeposit(cf, price) \in Nat
<1>1. cf.rate \in Nat /\ cf.grace \in Nat
  BY DEF Config
<1> DEFINE burn == price * cf.rate
<1>2. burn \in Nat
  BY <1>1
<1> HIDE DEF burn
<1>3. burn * cf.grace \in Nat
  BY <1>1, <1>2
<1> QED BY <1>3 DEF MinDeposit, TaxDue, burn

\* reveal checks that the sealed amount covers price and opening balance.
LEMMA RevealKeeps ==
  ASSUME TInv, NEW p \in Principals, NEW n \in FlatNames, NEW amount \in Prices,
         NEW t \in FlatTargets, Reveal(p, n, amount, t)
  PROVE  TInv'
<1> DEFINE a    == auctions[n]
           need == MinDeposit(cfg, amount)
           b    == [a.bids[p] EXCEPT !.revealed = amount, !.alias = t, !.opening = need]
           c    == [a EXCEPT !.bids[p] = b]
<1>1. /\ a \in Running /\ AuctionSound(a)
      /\ auctions \in [FlatNames -> Running \cup {None}]
      /\ a.bids \in [Principals -> Bid \cup {None}]
      /\ a.bids[p] \in Bid
      /\ a.bids[p].deposit >= amount + need
  BY DEF Reveal, Covers, TInv, TypeOK, AuctionsSound, Bidders, Running
<1>2. amount \in Nat /\ need \in Nat
  BY MarketAssumption, MinDepositType DEF TInv, TypeOK
<1>3. auctions' = [auctions EXCEPT ![n] = c]
  BY <1>1 DEF Reveal
<1>4. UNCHANGED <<cfg, terms, records, credits, collected, withdrawn, proceeds,
                  unreconciled, calls, now, accounts, fee>>
  BY DEF Reveal, books, ledgerVars
<1> HIDE DEF a, need
<1>5. b \in Bid /\ BidCovered(b)
  BY <1>1, <1>2 DEF Bid, BidCovered
<1> HIDE DEF b
<1>6. c \in Running
  BY <1>1, <1>5 DEF Running
<1>7. AuctionSound(c)
  <2>1. c.bids = [a.bids EXCEPT ![p] = b]
    BY <1>1 DEF Running
  <2> HIDE DEF c
  <2> QED BY <1>1, <1>5, <2>1 DEF AuctionSound, Revealed, Bidders
<1> HIDE DEF c
<1>8. auctions' \in [FlatNames -> Running \cup {None}] /\ AuctionsSound'
  BY <1>3, <1>6, <1>7, AuctionWritten
<1>9. TypeOK' /\ HoldingsSound' /\ CallsSound'
  BY <1>4, <1>8 DEF TInv, TypeOK, LedgerTypeOK, HoldingsSound, HoldingSound, CallsSound, CallSound
<1> QED BY <1>8, <1>9 DEF TInv

\* close_auction writes the winner's record and credits the refunds.
LEMMA CloseAuctionKeeps ==
  ASSUME TInv, NEW n \in FlatNames, CloseAuction(n)
  PROVE  TInv'
<1>1. /\ auctions[n] \in Running /\ AuctionSound(auctions[n])
      /\ records[n] \in Record \cup {None}
      /\ records[n] # None => HoldingSound(records[n].flat, now)
      /\ now \in Nat /\ cfg \in Config
      /\ credits \in [Principals -> Nat] /\ collected \in Nat /\ proceeds \in Nat
  BY DEF CloseAuction, TInv, TypeOK, AuctionsSound, HoldingsSound
<1>2. PICK o \in Outcomes(auctions[n]) :
        LET c == Closing(cfg, auctions[n], records[n], o) IN
          /\ credits' = Plus(credits, c.refunds)
          /\ CommitFlat(n, c.record, c.tax + c.income)
          /\ proceeds' = proceeds + c.income
  BY DEF CloseAuction, Closings
<1> DEFINE c == Closing(cfg, auctions[n], records[n], o)
<1>3. /\ c.refunds \in [Principals -> Nat]
      /\ c.income \in Nat /\ c.tax \in Nat
      /\ c.record \in Record \cup {None}
      /\ c.record # None => HoldingSound(c.record.flat, now)
  BY <1>1, ClosingSound
<1>4. /\ credits' = Plus(credits, c.refunds)
      /\ records' = [records EXCEPT ![n] = c.record]
      /\ collected' = collected + (c.tax + c.income)
      /\ proceeds' = proceeds + c.income
  BY <1>2 DEF CommitFlat
<1>5. auctions' = [auctions EXCEPT ![n] = None]
      /\ UNCHANGED <<cfg, terms, withdrawn, unreconciled, calls, now, accounts, fee>>
  BY DEF CloseAuction, ledgerVars
<1> HIDE DEF c
<1>6. records' \in [FlatNames -> Record \cup {None}] /\ HoldingsSound'
  BY <1>3, <1>4, <1>5, RecordWritten
<1>7. auctions' \in [FlatNames -> Running \cup {None}] /\ AuctionsSound'
  BY <1>5, AuctionWritten
<1>8. credits' \in [Principals -> Nat]
  BY <1>1, <1>3, <1>4, TotalPlus, MarketAssumption
<1>9. TypeOK'
  BY <1>1, <1>3, <1>4, <1>5, <1>6, <1>7, <1>8 DEF TInv, TypeOK, LedgerTypeOK
<1>10. CallsSound'
  BY <1>5 DEF TInv, CallsSound, CallSound
<1> QED BY <1>6, <1>7, <1>9, <1>10 DEF TInv

-----------------------------------------------------------------------------
(* The handlers up to their await                                          *)

\* Only the calls change, to a typed and sound one.
LEMMA OnlyCalls ==
  ASSUME TInv, UNCHANGED <<canisterVars, now, ledgerVars>>,
         calls' \in [CallIds -> Call \cup {None}], CallsSound'
  PROVE  TInv'
<1>1. UNCHANGED <<cfg, terms, records, auctions, credits, collected, withdrawn,
                  proceeds, unreconciled, now, accounts, fee>>
  BY DEF canisterVars, books, ledgerVars
<1> QED
  BY <1>1 DEF TInv, TypeOK, LedgerTypeOK, HoldingsSound, HoldingSound, AuctionsSound

\* What a caller is told a name looks like.
LEMMA SnapshotType ==
  ASSUME now \in Nat, NEW cf \in Config, NEW r \in Record, HoldingSound(r.flat, now)
  PROVE  SnapshotOf(cf, r) \in Snapshots /\ SnapshotOf(cf, r).price = r.flat.price
<1> DEFINE lapsed == LapsedAt(cf, r.flat, now)
<1>1. r.flat \in Holding /\ cf.rate \in Nat /\ cf.grace \in Nat
  BY DEF Record, Config
<1>2. Settle(cf, r.flat, now) \in Holding /\ Settle(cf, r.flat, now).lapsed = lapsed
  BY <1>1, SettleSound DEF Settle, Holding
<1>3. lapsed \in Nat \cup {None}
  BY <1>2 DEF Holding
<1>4. Status(cf, r.flat, now) \in
        [state : {"active", "grace", "free"}, until : Nat \cup {None}]
  <2> HIDE DEF lapsed
  <2>1. CASE lapsed = None
    <3>1. Status(cf, r.flat, now) = [state |-> "active", until |-> None]
      BY <2>1, StartAssumption DEF Status, lapsed
    <3> QED BY <3>1
  <2>2. CASE lapsed # None /\ now < lapsed + cf.grace
    <3>1. Status(cf, r.flat, now) = [state |-> "grace", until |-> lapsed + cf.grace]
      BY <2>2 DEF Status, lapsed
    <3>2. lapsed + cf.grace \in Nat
      BY <1>1, <1>3, <2>2
    <3> QED BY <3>1, <3>2
  <2>3. CASE lapsed # None /\ ~(now < lapsed + cf.grace)
    <3>1. Status(cf, r.flat, now) = [state |-> "free", until |-> None]
      BY <2>3 DEF Status, lapsed
    <3> QED BY <3>1
  <2> QED BY <2>1, <2>2, <2>3
<1>5. r.flat.price \in Nat /\ r.owner \in Principals /\ r.changed \in Nat
  BY <1>1 DEF Record, Holding
<1> QED BY <1>4, <1>5 DEF SnapshotOf, Snapshots

\* What buy checks holds of the locals it suspends with.
LEMMA BuyKeeps ==
  ASSUME TInv, NEW k \in CallIds, NEW p \in Principals, NEW n \in FlatNames,
         NEW t \in FlatTargets, NEW price \in Prices, NEW deposit \in Amounts,
         Buy(k, p, n, t, price, deposit)
  PROVE  TInv'
<1> DEFINE r == records[n]
           q == Request("buy", "sent", p)
           amount == r.flat.price + deposit
           before == SnapshotOf(cfg, r)
           c == [q EXCEPT !.name = n, !.alias = t, !.price = price,
                          !.amount = amount, !.before = before]
<1>1. r \in Record /\ r.flat \in Holding /\ cfg \in Config /\ now \in Nat
      /\ r.flat.price \in Nat /\ cfg.grace \in Nat
  BY DEF Buy, Held, TInv, TypeOK, Record, Holding, Config
<1>2. price \in Nat /\ deposit \in Nat
  BY MarketAssumption
<1>3. HoldingSound(r.flat, now)
  BY DEF Buy, Held, TInv, HoldingsSound
<1>4. SnapshotOf(cfg, r) \in Snapshots /\ SnapshotOf(cfg, r).price = r.flat.price
  BY <1>1, <1>3, SnapshotType
<1>5. q \in Call
  BY <1>1, RequestType
<1>6. q.op = "buy" /\ q.stage = "sent" /\ q.cfg = cfg
  BY DEF Request
<1>7. Await(k, c) /\ UNCHANGED <<canisterVars, now, ledgerVars>>
  BY DEF Buy
<1> HIDE DEF q
<1>8. c \in Call /\ CallSound(c)
  <2>1. before \in Snapshots /\ amount \in Nat /\ before.price <= amount
    BY <1>1, <1>2, <1>4
  <2> HIDE DEF before, amount
  <2>2. c \in Call
    BY <1>2, <1>5, <2>1 DEF Call
  <2>3. /\ c.op = "buy" /\ c.stage = "sent" /\ c.cfg = cfg /\ c.name = n
        /\ c.alias = t /\ c.before = before /\ c.amount = amount
    BY <1>5, <1>6 DEF Call
  <2> HIDE DEF c
  <2> QED BY <2>1, <2>2, <2>3 DEF CallSound, Payments
<1> HIDE DEF c
<1>9. calls' \in [CallIds -> Call \cup {None}] /\ CallsSound'
  BY <1>7, <1>8, CallWritten DEF Await, canisterVars
<1> QED BY <1>7, <1>9, OnlyCalls

\* What deposit checks holds of the locals it suspends with.
LEMMA DepositKeeps ==
  ASSUME TInv, NEW k \in CallIds, NEW p \in Principals, NEW n \in FlatNames,
         NEW amount \in Amounts, Deposit(k, p, n, amount)
  PROVE  TInv'
<1> DEFINE r == records[n]
           q == Request("deposit", "sent", p)
           c == [q EXCEPT !.name = n, !.amount = amount, !.before = SnapshotOf(cfg, r)]
<1>1. r \in Record /\ r.flat \in Holding /\ cfg \in Config /\ now \in Nat
      /\ r.flat.price \in Nat /\ cfg.grace \in Nat /\ amount \in Nat
  BY MarketAssumption DEF Deposit, Held, TInv, TypeOK, Record, Holding, Config
<1>2. HoldingSound(r.flat, now)
  BY DEF Deposit, Held, TInv, HoldingsSound
<1>3. SnapshotOf(cfg, r) \in Snapshots
  BY <1>1, <1>2, SnapshotType
<1>4. q \in Call
  BY <1>1, RequestType
<1>5. q.op = "deposit" /\ q.stage = "sent" /\ q.cfg = cfg
  BY DEF Request
<1>6. Await(k, c) /\ UNCHANGED <<canisterVars, now, ledgerVars>>
  BY DEF Deposit
<1> HIDE DEF q
<1>7. c \in Call /\ CallSound(c)
  BY <1>1, <1>3, <1>4, <1>5 DEF Call, CallSound, Payments
<1> HIDE DEF c
<1>8. calls' \in [CallIds -> Call \cup {None}] /\ CallsSound'
  BY <1>6, <1>7, CallWritten DEF Await, canisterVars
<1> QED BY <1>6, <1>8, OnlyCalls

\* What bid checks holds of the locals it suspends with.
LEMMA PlaceBidKeeps ==
  ASSUME TInv, NEW k \in CallIds, NEW p \in Principals, NEW n \in FlatNames,
         NEW deposit \in Amounts, PlaceBid(k, p, n, deposit)
  PROVE  TInv'
<1> DEFINE q == Request("bid", "sent", p)
           c == [q EXCEPT !.name = n, !.amount = deposit]
<1>1. cfg \in Config /\ deposit \in Nat
  BY MarketAssumption DEF TInv, TypeOK
<1>2. q \in Call
  BY <1>1, RequestType
<1>3. q.op = "bid" /\ q.stage = "sent" /\ q.cfg = cfg
  BY DEF Request
<1>4. Await(k, c) /\ UNCHANGED <<canisterVars, now, ledgerVars>>
  BY DEF PlaceBid
<1> HIDE DEF q
<1>5. c \in Call /\ CallSound(c)
  BY <1>1, <1>2, <1>3 DEF Call, CallSound, Payments
<1> HIDE DEF c
<1>6. calls' \in [CallIds -> Call \cup {None}] /\ CallsSound'
  BY <1>4, <1>5, CallWritten DEF Await, canisterVars
<1> QED BY <1>4, <1>6, OnlyCalls

\* withdraw debits no more than the credit before it suspends.
LEMMA WithdrawKeeps ==
  ASSUME TInv, NEW k \in CallIds, NEW p \in Principals, NEW amount \in Payouts,
         Withdraw(k, p, amount)
  PROVE  TInv'
<1> DEFINE q == Request("withdraw", "sent", p)
           c == [q EXCEPT !.amount = amount]
<1>1. cfg \in Config /\ amount \in Nat /\ amount > cfg.fee
      /\ credits \in [Principals -> Nat]
  BY MarketAssumption DEF TInv, TypeOK, Withdraw
<1>2. q \in Call
  BY <1>1, RequestType
<1>3. q.op = "withdraw" /\ q.stage = "sent" /\ q.cfg = cfg
  BY DEF Request
<1>4. /\ Await(k, c) /\ credits[p] >= amount
      /\ credits' = [credits EXCEPT ![p] = @ - amount]
      /\ UNCHANGED <<cfg, terms, records, auctions, collected, withdrawn, proceeds,
                     unreconciled, now, accounts, fee>>
  BY DEF Withdraw, ledgerVars
<1> HIDE DEF q
<1>5. c \in Call /\ CallSound(c)
  BY <1>1, <1>2, <1>3 DEF Call, CallSound, Payments
<1> HIDE DEF c
<1>6. calls' \in [CallIds -> Call \cup {None}] /\ CallsSound'
  BY <1>4, <1>5, CallWritten DEF Await
<1>7. credits' \in [Principals -> Nat]
  BY <1>1, <1>4
<1> QED
  BY <1>4, <1>6, <1>7 DEF TInv, TypeOK, LedgerTypeOK, HoldingsSound, HoldingSound, AuctionsSound

\* fund_self changes nothing before it suspends.
LEMMA FundSelfKeeps ==
  ASSUME TInv, NEW k \in CallIds, NEW p \in Controllers, NEW amount \in Payouts,
         FundSelf(k, p, amount)
  PROVE  TInv'
<1> DEFINE q == Request("fund_self", "asked", p)
           c == [q EXCEPT !.amount = amount]
<1>1. cfg \in Config /\ amount \in Nat /\ amount > cfg.fee /\ p \in Principals
  BY MarketAssumption DEF TInv, TypeOK, FundSelf
<1>2. q \in Call
  BY <1>1, RequestType
<1>3. q.op = "fund_self" /\ q.cfg = cfg
  BY DEF Request
<1>4. Await(k, c) /\ UNCHANGED <<canisterVars, now, ledgerVars>>
  BY DEF FundSelf
<1> HIDE DEF q
<1>5. c \in Call /\ CallSound(c)
  BY <1>1, <1>2, <1>3 DEF Call, CallSound, Payments
<1> HIDE DEF c
<1>6. calls' \in [CallIds -> Call \cup {None}] /\ CallsSound'
  BY <1>4, <1>5, CallWritten DEF Await, canisterVars
<1> QED BY <1>4, <1>6, OnlyCalls

\* set_harberger_config only suspends with the config it was given.
LEMMA SetHarbergerConfigKeeps ==
  ASSUME TInv, NEW k \in CallIds, NEW p \in Controllers, NEW next \in Configs,
         SetHarbergerConfig(k, p, next)
  PROVE  TInv'
<1> DEFINE q == Request("configure", "asked", p)
           c == [q EXCEPT !.next = next]
<1>1. cfg \in Config /\ next \in Config /\ p \in Principals
  BY MarketAssumption, StartAssumption DEF TInv, TypeOK
<1>2. q \in Call
  BY <1>1, RequestType
<1>3. q.op = "configure" /\ q.stage = "asked"
  BY DEF Request
<1>4. Await(k, c) /\ UNCHANGED <<canisterVars, now, ledgerVars>>
  BY DEF SetHarbergerConfig
<1> HIDE DEF q
<1>5. c \in Call /\ CallSound(c)
  BY <1>1, <1>2, <1>3 DEF Call, CallSound, Payments
<1> HIDE DEF c
<1>6. calls' \in [CallIds -> Call \cup {None}] /\ CallsSound'
  BY <1>4, <1>5, CallWritten DEF Await, canisterVars
<1> QED BY <1>4, <1>6, OnlyCalls

-----------------------------------------------------------------------------
(* The ledger                                                              *)

\* The ledger moves only cycles that are there.
LEMMA LedgerStep ==
  ASSUME TInv, NEW k \in CallIds, Execute(k)
  PROVE  TInv'
<1> DEFINE c == calls[k]
<1>1. /\ \A j \in CallIds : calls[j] # None => calls[j] \in Call /\ CallSound(calls[j])
      /\ cfg \in Config
      /\ calls \in [CallIds -> Call \cup {None}]
      /\ accounts \in [Ledgers -> [Holders -> Nat]]
      /\ fee \in [Ledgers -> Nat]
  BY DEF TInv, TypeOK, CallsSound, LedgerTypeOK
<1>2. /\ cfg' = cfg
      /\ UNCHANGED <<terms, records, auctions, credits, collected, withdrawn,
                     proceeds, unreconciled, now, fee>>
      /\ calls[k] # None
  BY DEF Execute, LedgerPulls, LedgerPays, LedgerFunds, LedgerReturns, LedgerRefuses,
         LedgerQuotes, TransferFrom, Transfer, WithdrawCycles, ChargeFee, Sent,
         canisterVars, books, ledgerVars
<1>3. c \in Call /\ CallSound(c) /\ c.cfg \in Config /\ c.cfg.ledger \in Ledgers
      /\ c.amount \in Nat /\ c.cfg.fee \in Nat
  BY <1>1, <1>2 DEF Call, Config
<1>4. calls' \in [CallIds -> Call \cup {None}] /\ CallsSound'
  <2>1. CASE LedgerQuotes(k)
    <3> DEFINE q == fee[IF c.op = "configure" THEN c.next.ledger ELSE c.cfg.ledger]
               d == [c EXCEPT !.stage = "quoted", !.quote = q]
    <3>1. q \in Nat
      BY <1>1, <1>3 DEF CallSound, Config
    <3>2. calls' = [calls EXCEPT ![k] = d]
      BY <1>1, <2>1 DEF LedgerQuotes
    <3>3. c.stage = "asked"
      BY <2>1 DEF LedgerQuotes
    <3> HIDE DEF q, c
    <3>4. d \in Call
      BY <1>3, <3>1 DEF Call
    <3>5. CallSound(d)
      BY <1>3, <3>3 DEF Call, CallSound, Payments
    <3> HIDE DEF d
    <3> QED BY <1>2, <3>2, <3>4, <3>5, CallWritten
  <2>2. CASE ~LedgerQuotes(k)
    <3>1. Sent(k)
      BY <2>2 DEF Execute, LedgerPulls, LedgerPays, LedgerFunds, LedgerReturns, LedgerRefuses
    <3>2. c.op # "configure"
      BY <1>3, <3>1 DEF Sent, CallSound
    <3>3. \/ Stage(k, "moved") \/ Stage(k, "refused")
          \/ Stage(k, "charged") /\ c.op = "fund_self"
      BY <2>2 DEF Execute, LedgerPulls, LedgerPays, LedgerFunds, LedgerReturns, LedgerRefuses
    <3> QED BY <1>2, <3>2, <3>3, CallStaged
  <2> QED BY <2>1, <2>2
<1>5. accounts' \in [Ledgers -> [Holders -> Nat]]
  <2> DEFINE l == c.cfg.ledger
             x == c.amount
             f == c.cfg.fee
  <2>1. /\ l \in Ledgers /\ x \in Nat /\ f \in Nat /\ fee[l] \in Nat
        /\ c.who \in Holders /\ Canister \in Holders
    BY <1>1, <1>3 DEF Call, Holders
  <2>2. c.op \in {"withdraw", "fund_self"} => x > f
    BY <1>3 DEF CallSound
  <2>3. CASE LedgerPulls(k)
    <3> DEFINE w == c.who
               from == accounts[l][w] - (x + f)
               into == accounts[l][Canister] + x
    <3>1. TransferFrom(l, w, x, f)
      BY <2>3 DEF LedgerPulls
    <3>2. accounts' = [accounts EXCEPT ![l][w] = from, ![l][Canister] = into]
      BY <3>1, Zenon DEF TransferFrom
    <3>3. w \in Holders
      BY <2>1
    <3> HIDE DEF l, x, f, w
    <3>4. accounts[l][w] \in Nat /\ accounts[l][Canister] \in Nat /\ accounts[l][w] >= x + f
      BY <1>1, <2>1, <3>1, <3>3 DEF TransferFrom
    <3>5. from \in Nat /\ into \in Nat
      BY <2>1, <3>4
    <3> HIDE DEF from, into
    <3> QED BY <1>1, <2>1, <3>2, <3>3, <3>5
  <2>4. CASE LedgerPays(k)
    <3> DEFINE w == c.who
               from == accounts[l][Canister] - (x - f + f)
               into == accounts[l][w] + (x - f)
    <3>1. Transfer(l, w, x - f, f) /\ x > f
      BY <2>2, <2>4 DEF LedgerPays
    <3>2. accounts' = [accounts EXCEPT ![l][Canister] = from, ![l][w] = into]
      BY <3>1, Zenon DEF Transfer
    <3>3. w \in Holders
      BY <2>1
    <3> HIDE DEF l, x, f, w
    <3>4. /\ accounts[l][w] \in Nat /\ accounts[l][Canister] \in Nat
          /\ accounts[l][Canister] >= x - f + f
      BY <1>1, <2>1, <3>1, <3>3 DEF Transfer
    <3>5. from \in Nat /\ into \in Nat
      BY <2>1, <3>1, <3>4
    <3> HIDE DEF from, into
    <3> QED BY <1>1, <2>1, <3>2, <3>3, <3>5
  <2>5. CASE LedgerFunds(k)
    <3>1. WithdrawCycles(l, x - f) /\ x > f
      BY <2>2, <2>5 DEF LedgerFunds
    <3> HIDE DEF l, x, f
    <3> QED BY <1>1, <2>1, <3>1 DEF WithdrawCycles
  <2>6. CASE LedgerReturns(k)
    <3>1. ChargeFee(l, x - f) /\ x > f
      BY <2>2, <2>6 DEF LedgerReturns
    <3> HIDE DEF l, x, f
    <3> QED BY <1>1, <2>1, <3>1 DEF ChargeFee
  <2>7. CASE LedgerRefuses(k) \/ LedgerQuotes(k)
    BY <1>1, <2>7 DEF LedgerRefuses, LedgerQuotes, ledgerVars
  <2> QED BY <2>3, <2>4, <2>5, <2>6, <2>7 DEF Execute
<1>6. TypeOK'
  BY <1>2, <1>4, <1>5 DEF TInv, TypeOK, LedgerTypeOK
<1>7. HoldingsSound' /\ AuctionsSound'
  BY <1>2 DEF TInv, HoldingsSound, HoldingSound, AuctionsSound
<1> QED BY <1>4, <1>6, <1>7 DEF TInv

\* A new fee disturbs nothing the invariant speaks of.
LEMMA FeeStep ==
  ASSUME TInv, LedgerChangesFee
  PROVE  TInv'
<1>1. UNCHANGED <<cfg, terms, records, auctions, credits, collected, withdrawn,
                  proceeds, unreconciled, now, calls, accounts>>
  BY DEF LedgerChangesFee, ChangeFee, canisterVars, books
<1>2. fee' \in [Ledgers -> Nat]
  BY MarketAssumption DEF LedgerChangesFee, ChangeFee, TInv, TypeOK, LedgerTypeOK
<1> QED BY <1>1, <1>2 DEF TInv, TypeOK, LedgerTypeOK, HoldingsSound, HoldingSound,
                         AuctionsSound, CallsSound, CallSound

\* Time may pass: a holding sound at one time is sound later.
LEMMA TickKeeps ==
  ASSUME TInv, Tick
  PROVE  TInv'
<1>1. UNCHANGED <<cfg, terms, records, auctions, credits, collected, withdrawn,
                  proceeds, unreconciled, calls, accounts, fee>>
  BY DEF Tick, canisterVars, books, ledgerVars
<1>2. now' = now + 1 /\ now \in Nat
  BY DEF Tick, TInv, TypeOK
<1>3. HoldingsSound'
  BY <1>1, <1>2 DEF TInv, TypeOK, HoldingsSound, HoldingSound, Record, Holding
<1>4. TypeOK'
  BY <1>1, <1>2 DEF TInv, TypeOK, LedgerTypeOK
<1>5. AuctionsSound' /\ CallsSound'
  BY <1>1 DEF TInv, AuctionsSound, CallsSound, CallSound
<1> QED BY <1>3, <1>4, <1>5 DEF TInv

-----------------------------------------------------------------------------
(* The handlers resumed                                                    *)

\* What a resumed handler finds.
LEMMA Resumed ==
  ASSUME TInv, NEW k \in CallIds, calls[k] # None
  PROVE  /\ calls[k] \in Call /\ CallSound(calls[k])
         /\ calls[k].cfg \in Config /\ calls[k].cfg.rate \in Nat
         /\ calls[k].amount \in Nat /\ calls[k].price \in Nat
         /\ calls[k].who \in Principals
         /\ credits \in [Principals -> Nat]
         /\ collected \in Nat /\ withdrawn \in Nat
         /\ proceeds \in Nat /\ unreconciled \in Nat
         /\ now \in Nat /\ cfg \in Config
BY DEF TInv, TypeOK, CallsSound, Call, Config

\* A credit given back leaves credits amounts.
LEMMA CreditBackType ==
  ASSUME TInv, NEW k \in CallIds, calls[k] # None, CreditBack(k)
  PROVE  credits' \in [Principals -> Nat]
BY Resumed DEF CreditBack, AddCredit

\* A handler resumed with only its own call and the counters to change.
LEMMA OnlyCounters ==
  ASSUME TInv, NEW k \in CallIds, Finish(k),
         UNCHANGED <<cfg, terms, records, auctions, now, accounts, fee>>,
         credits' \in [Principals -> Nat], collected' \in Nat, withdrawn' \in Nat,
         proceeds' \in Nat, unreconciled' \in Nat
  PROVE  TInv'
<1>1. calls' \in [CallIds -> Call \cup {None}] /\ CallsSound'
  BY CallFinished
<1> QED
  BY <1>1 DEF TInv, TypeOK, LedgerTypeOK, HoldingsSound, HoldingSound, AuctionsSound

\* A paid buy writes the new holder's record, or credits the payment.
LEMMA BuyPaidKeeps ==
  ASSUME TInv, NEW k \in CallIds, BuyPaid(k)
  PROVE  TInv'
<1> DEFINE call == calls[k]
           n == call.name
           r == records[n]
           h == Settle(call.cfg, r.flat, now)
<1>1. /\ call # None /\ call.op = "buy" /\ Finish(k)
      /\ UNCHANGED <<cfg, terms, auctions, withdrawn, proceeds, unreconciled, now,
                     accounts, fee>>
  BY DEF BuyPaid, Replied, ledgerVars
<1>2. /\ call \in Call /\ CallSound(call) /\ call.cfg \in Config /\ call.cfg.rate \in Nat
      /\ call.amount \in Nat /\ call.price \in Nat /\ call.who \in Principals
      /\ credits \in [Principals -> Nat] /\ collected \in Nat /\ withdrawn \in Nat
      /\ proceeds \in Nat /\ unreconciled \in Nat /\ now \in Nat
  BY <1>1, Resumed
<1>3. n \in FlatNames /\ call.alias \in FlatTargets /\ call.before.price \in Nat
      /\ call.amount - call.before.price \in Nat
  BY <1>1, <1>2 DEF CallSound, Payments, Snapshots
<1>4. CASE ~Unchanged(k)
  <2>1. CreditBack(k) /\ UNCHANGED <<records, collected>>
    BY <1>4 DEF BuyPaid
  <2>2. credits' \in [Principals -> Nat]
    BY <1>1, <2>1, CreditBackType
  <2> QED BY <1>1, <1>2, <2>1, <2>2, OnlyCounters
<1>5. CASE Unchanged(k)
  <2> DEFINE g == NewHolding(call.price, call.amount - call.before.price, now)
             s == [owner |-> call.who, target |-> call.alias, previous |-> r.target,
                   changed |-> now, flat |-> g]
             tax == Taken(call.cfg, r.flat, now)
             due == call.before.price + h.balance
  <2>1. /\ credits' = [credits EXCEPT ![r.owner] = @ + due]
        /\ records' = [records EXCEPT ![n] = s]
        /\ collected' = collected + tax
    BY <1>5 DEF BuyPaid, CommitFlat, AddCredit
  <2>2. r \in Record /\ r.flat \in Holding /\ HoldingSound(r.flat, now)
        /\ r.target \in FlatTargets /\ r.owner \in Principals
    BY <1>3, <1>5 DEF Unchanged, TInv, TypeOK, HoldingsSound, Record
  <2>3. tax \in 0..r.flat.balance /\ h \in Holding
    BY <1>2, <2>2, SettleSound
  <2>4. tax \in Nat /\ due \in Nat
    BY <1>3, <2>2, <2>3 DEF Holding
  <2>5. g \in Holding /\ HoldingSound(g, now)
    BY <1>2, <1>3, NewHoldingSound
  <2> HIDE DEF g, tax, due
  <2>6. s \in Record /\ s.flat = g
    BY <1>2, <1>3, <2>2, <2>5 DEF Record
  <2> HIDE DEF s
  <2>7. records' \in [FlatNames -> Record \cup {None}] /\ HoldingsSound'
    BY <1>1, <1>3, <2>1, <2>5, <2>6, RecordWritten
  <2>8. calls' \in [CallIds -> Call \cup {None}] /\ CallsSound'
    BY <1>1, CallFinished
  <2>9. credits' \in [Principals -> Nat] /\ collected' \in Nat
    BY <1>2, <2>1, <2>2, <2>4
  <2>10. TypeOK'
    BY <1>1, <2>7, <2>8, <2>9 DEF TInv, TypeOK, LedgerTypeOK
  <2> QED BY <1>1, <2>7, <2>8, <2>10 DEF TInv, AuctionsSound
<1> QED BY <1>4, <1>5

\* A paid deposit tops the holding up, or credits the payment.
LEMMA DepositPaidKeeps ==
  ASSUME TInv, NEW k \in CallIds, DepositPaid(k)
  PROVE  TInv'
<1> DEFINE call == calls[k]
           n == call.name
           r == records[n]
           ok == Unchanged(k) /\ CanTopUp(call.cfg, r.flat, call.amount, now)
<1>1. /\ call # None /\ call.op = "deposit" /\ Finish(k)
      /\ UNCHANGED <<cfg, terms, auctions, withdrawn, proceeds, unreconciled, now,
                     accounts, fee>>
  BY DEF DepositPaid, Replied, ledgerVars
<1>2. /\ call \in Call /\ CallSound(call) /\ call.cfg \in Config /\ call.cfg.rate \in Nat
      /\ call.amount \in Nat
      /\ credits \in [Principals -> Nat] /\ collected \in Nat /\ withdrawn \in Nat
      /\ proceeds \in Nat /\ unreconciled \in Nat /\ now \in Nat
  BY <1>1, Resumed
<1>3. n \in FlatNames
  BY <1>1, <1>2 DEF CallSound, Payments
<1>4. CASE ~ok
  <2>1. CreditBack(k) /\ UNCHANGED <<records, collected>>
    BY <1>4 DEF DepositPaid
  <2>2. credits' \in [Principals -> Nat]
    BY <1>1, <2>1, CreditBackType
  <2> QED BY <1>1, <1>2, <2>1, <2>2, OnlyCounters
<1>5. CASE ok
  <2> DEFINE g == TopUp(call.cfg, r.flat, call.amount, now)
             s == [r EXCEPT !.flat = g]
             tax == Taken(call.cfg, r.flat, now)
  <2>1. r \in Record /\ r.flat \in Holding /\ HoldingSound(r.flat, now)
    BY <1>3, <1>5 DEF Unchanged, TInv, TypeOK, HoldingsSound, Record
  <2>2. /\ UNCHANGED credits
        /\ records' = [records EXCEPT ![n] = s]
        /\ collected' = collected + tax
    BY <1>5 DEF DepositPaid, CommitFlat
  <2>3. tax \in 0..r.flat.balance
    BY <1>2, <2>1, SettleSound
  <2>4. tax \in Nat
    BY <2>1, <2>3 DEF Holding
  <2>5. g \in Holding /\ HoldingSound(g, now)
    BY <1>2, <2>1, TopUpSound
  <2> HIDE DEF g, tax
  <2>6. s \in Record /\ s.flat = g
    BY <2>1, <2>5 DEF Record
  <2> HIDE DEF s
  <2>7. records' \in [FlatNames -> Record \cup {None}] /\ HoldingsSound'
    BY <1>1, <1>3, <2>2, <2>5, <2>6, RecordWritten
  <2>8. calls' \in [CallIds -> Call \cup {None}] /\ CallsSound'
    BY <1>1, CallFinished
  <2>9. collected' \in Nat
    BY <1>2, <2>2, <2>4
  <2>10. TypeOK'
    BY <1>1, <2>2, <2>7, <2>8, <2>9 DEF TInv, TypeOK, LedgerTypeOK
  <2> QED BY <1>1, <2>7, <2>8, <2>10 DEF TInv, AuctionsSound
<1> QED BY <1>4, <1>5

\* The auction a bid ends up in.
LEMMA BidSound ==
  ASSUME NEW a \in Running, AuctionSound(a), NEW p \in Principals, NEW deposit \in Nat
  PROVE  AddBid(a, p, deposit) \in Running /\ AuctionSound(AddBid(a, p, deposit))
<1> DEFINE b == SealedBid(deposit)
           c == [a EXCEPT !.bids[p] = b]
<1>1. b \in Bid /\ b.revealed = None
  BY DEF SealedBid, Bid
<1> HIDE DEF b
<1>2. c \in Running /\ c.bids = [a.bids EXCEPT ![p] = b]
  BY <1>1 DEF Running
<1>3. a.bids \in [Principals -> Bid \cup {None}]
  BY DEF Running
<1> HIDE DEF c
<1>4. AuctionSound(c)
  BY <1>1, <1>2, <1>3 DEF AuctionSound, Revealed, Bidders
<1> QED BY <1>2, <1>4 DEF b, c, AddBid

\* A new auction has no bids, and a reserve that is an amount.
LEMMA OpenAuctionSound ==
  ASSUME now \in Nat, terms \in Terms, NEW cf \in Config
  PROVE  /\ OpenAuction(cf) \in Running /\ AuctionSound(OpenAuction(cf))
         /\ \A p \in Principals : Deposits(OpenAuction(cf))[p] = 0
<1>1. Reserve(cf) \in Nat
  BY ReserveType
<1> QED BY <1>1 DEF OpenAuction, Running, Terms, NoBids, AuctionSound, Revealed, Bidders, Deposits

\* What bidders have deposited are amounts.
LEMMA DepositsType ==
  ASSUME NEW a \in Running
  PROVE  Deposits(a) \in [Principals -> Nat]
BY DEF Deposits, Running, Bid

\* A paid bid is placed, after an ended auction was closed, or credited.
LEMMA BidPaidKeeps ==
  ASSUME TInv, NEW k \in CallIds, BidPaid(k)
  PROVE  TInv'
<1> DEFINE call  == calls[k]
           n     == call.name
           ended == auctions[n] # None /\ Phase(auctions[n], now) = "closed"
           a     == IF ended THEN None ELSE auctions[n]
           into  == IF a = None THEN OpenAuction(call.cfg) ELSE a
<1>1. /\ call # None /\ call.op = "bid" /\ Finish(k)
      /\ UNCHANGED <<cfg, terms, withdrawn, unreconciled, now, accounts, fee>>
  BY DEF BidPaid, Replied, ledgerVars
<1>2. /\ call \in Call /\ CallSound(call) /\ call.cfg \in Config
      /\ call.amount \in Nat /\ call.who \in Principals
      /\ credits \in [Principals -> Nat] /\ collected \in Nat /\ proceeds \in Nat
      /\ now \in Nat
  BY <1>1, Resumed
<1>3. n \in FlatNames /\ terms \in Terms
  BY <1>1, <1>2 DEF CallSound, Payments, TInv, TypeOK
<1>4. /\ records[n] \in Record \cup {None}
      /\ records[n] # None => HoldingSound(records[n].flat, now)
      /\ auctions[n] \in Running \cup {None}
      /\ auctions[n] # None => AuctionSound(auctions[n])
  BY <1>3 DEF TInv, TypeOK, HoldingsSound, AuctionsSound
<1>5. PICK c \in IF ended THEN Closings(call.cfg, n) ELSE {NoClosing(n)} :
        LET ok   == BidAllowed(call.cfg, a, c.record, call.amount)
            back == IF ok THEN Deposits(into)[call.who] ELSE call.amount IN
          /\ credits' = AddCredit(Plus(credits, c.refunds), call.who, back)
          /\ CommitFlat(n, c.record, c.tax + c.income)
          /\ proceeds' = proceeds + c.income
          /\ auctions' = [auctions EXCEPT ![n] =
               IF ok THEN AddBid(into, call.who, call.amount) ELSE a]
  BY DEF BidPaid
<1> DEFINE ok   == BidAllowed(call.cfg, a, c.record, call.amount)
           back == IF ok THEN Deposits(into)[call.who] ELSE call.amount
           next == IF ok THEN AddBid(into, call.who, call.amount) ELSE a
<1>6. /\ c.refunds \in [Principals -> Nat]
      /\ c.income \in Nat /\ c.tax \in Nat
      /\ c.record \in Record \cup {None}
      /\ c.record # None => HoldingSound(c.record.flat, now)
  <2>1. CASE ended
    <3>1. PICK o \in Outcomes(auctions[n]) : c = Closing(call.cfg, auctions[n], records[n], o)
      BY <2>1 DEF Closings
    <3> QED BY <1>2, <1>4, <2>1, <3>1, ClosingSound
  <2>2. CASE ~ended
    <3>1. c = NoClosing(n)
      BY <2>2
    <3> QED BY <1>4, <3>1 DEF NoClosing
  <2> QED BY <2>1, <2>2
<1>7. a \in Running \cup {None} /\ (a # None => AuctionSound(a))
  BY <1>4
<1>8. into \in Running /\ AuctionSound(into)
  <2> HIDE DEF a
  <2> QED BY <1>2, <1>3, <1>7, OpenAuctionSound
<1> HIDE DEF a, into
<1>9. back \in Nat
  BY <1>2, <1>8, DepositsType
<1>10. next \in Running \cup {None} /\ (next # None => AuctionSound(next))
  <2>1. CASE ok
    <3> HIDE DEF ok
    <3> QED BY <1>2, <1>8, <2>1, BidSound
  <2>2. CASE ~ok
    <3> HIDE DEF ok
    <3> QED BY <1>7, <2>2
  <2> QED BY <2>1, <2>2
<1>11. /\ credits' = [Plus(credits, c.refunds) EXCEPT ![call.who] = @ + back]
       /\ records' = [records EXCEPT ![n] = c.record]
       /\ collected' = collected + (c.tax + c.income)
       /\ proceeds' = proceeds + c.income
       /\ auctions' = [auctions EXCEPT ![n] = next]
  BY <1>5, Zenon DEF CommitFlat, AddCredit
<1> HIDE DEF back, next
<1>12. Plus(credits, c.refunds) \in [Principals -> Nat]
  BY <1>2, <1>6, TotalPlus, MarketAssumption
<1>13. credits' \in [Principals -> Nat] /\ collected' \in Nat /\ proceeds' \in Nat
  BY <1>2, <1>6, <1>9, <1>11, <1>12
<1>14. records' \in [FlatNames -> Record \cup {None}] /\ HoldingsSound'
  BY <1>1, <1>3, <1>6, <1>11, RecordWritten
<1>15. auctions' \in [FlatNames -> Running \cup {None}] /\ AuctionsSound'
  BY <1>3, <1>10, <1>11, AuctionWritten
<1>16. calls' \in [CallIds -> Call \cup {None}] /\ CallsSound'
  BY <1>1, CallFinished
<1>17. TypeOK'
  BY <1>1, <1>13, <1>14, <1>15, <1>16 DEF TInv, TypeOK, LedgerTypeOK
<1> QED BY <1>14, <1>15, <1>16, <1>17 DEF TInv

\* Refused payments, and payouts.
LEMMA CountersKeep ==
  ASSUME TInv, NEW k \in CallIds,
         \/ PaymentFailed(k) \/ WithdrawPaid(k) \/ WithdrawFailed(k)
         \/ ReplyUndecodable(k) \/ FeeRejected(k) \/ FundSelfDone(k)
  PROVE  TInv'
<1>1. /\ calls[k] # None /\ Finish(k)
      /\ UNCHANGED <<cfg, terms, records, auctions, collected, proceeds, now, accounts, fee>>
  BY DEF PaymentFailed, WithdrawPaid, WithdrawFailed, ReplyUndecodable, FeeRejected,
         FundSelfDone, Replied, canisterVars, books, ledgerVars
<1>2. /\ calls[k] \in Call /\ CallSound(calls[k])
      /\ calls[k].amount \in Nat /\ calls[k].cfg.fee \in Nat
      /\ credits \in [Principals -> Nat] /\ collected \in Nat /\ withdrawn \in Nat
      /\ proceeds \in Nat /\ unreconciled \in Nat
  BY <1>1, Resumed DEF Config
<1>3. credits' \in [Principals -> Nat]
  <2>1. CASE WithdrawFailed(k)
    BY <1>1, <2>1, CreditBackType DEF WithdrawFailed
  <2>2. CASE ~WithdrawFailed(k)
    BY <1>2, <2>2 DEF PaymentFailed, WithdrawPaid, ReplyUndecodable, FeeRejected,
                      FundSelfDone, canisterVars, books
  <2> QED BY <2>1, <2>2
<1>4. withdrawn' \in Nat
  <2>1. CASE FundSelfDone(k)
    BY <1>2, <2>1 DEF FundSelfDone, UndoWithdrawn, Greatest
  <2>2. CASE ~FundSelfDone(k)
    BY <1>2, <2>2 DEF PaymentFailed, WithdrawPaid, WithdrawFailed, ReplyUndecodable,
                      FeeRejected, canisterVars, books
  <2> QED BY <2>1, <2>2
<1>5. unreconciled' \in Nat
  <2>1. CASE ReplyUndecodable(k)
    BY <1>2, <2>1 DEF ReplyUndecodable
  <2>2. CASE ~ReplyUndecodable(k)
    BY <1>2, <2>2 DEF PaymentFailed, WithdrawPaid, WithdrawFailed, FundSelfDone,
                      FeeRejected, canisterVars, books
  <2> QED BY <2>1, <2>2
<1> QED BY <1>1, <1>2, <1>3, <1>4, <1>5, OnlyCounters

\* fund_self notes the withdrawal when the fee is the pinned one.
LEMMA FundSelfQuotedKeeps ==
  ASSUME TInv, NEW k \in CallIds, FundSelfQuoted(k)
  PROVE  TInv'
<1>1. /\ calls[k] # None /\ calls[k].op = "fund_self" /\ Stage(k, "sent")
      /\ withdrawn' = withdrawn + calls[k].amount
      /\ UNCHANGED <<cfg, terms, records, auctions, credits, collected, proceeds,
                     unreconciled, now, accounts, fee>>
  BY DEF FundSelfQuoted, Replied, ledgerVars
<1>2. calls' \in [CallIds -> Call \cup {None}] /\ CallsSound'
  BY <1>1, CallStaged
<1>3. withdrawn' \in Nat
  BY <1>1, Resumed
<1> QED
  BY <1>1, <1>2, <1>3 DEF TInv, TypeOK, LedgerTypeOK, HoldingsSound, HoldingSound, AuctionsSound

\* While no funds are held no call is under way that knows the old ledger.
LEMMA NobodyInFlight ==
  ASSUME TInv, NoFundsHeld
  PROVE  \A j \in CallIds : calls[j] # None => calls[j].op = "configure"
<1> DEFINE F == {j \in CallIds : calls[j] # None /\ calls[j].op # "configure"}
<1>1. IsFiniteSet(F)
  BY FS_Subset, MarketAssumption
<1>2. Cardinality(F) = 0
  BY DEF NoFundsHeld, InFlight
<1>3. F = {}
  BY <1>1, <1>2, FS_EmptySet
<1> QED BY <1>3

\* The holdings are settled at the old rate before a valid config is set.
LEMMA ConfigQuotedKeeps ==
  ASSUME TInv, NEW k \in CallIds, ConfigQuoted(k)
  PROVE  TInv'
<1> DEFINE next  == calls[k].next
           may   == next.ledger # cfg.ledger => NoFundsHeld
           taxes == [n \in FlatNames |-> IF records[n] = None THEN 0
                                         ELSE Taken(cfg, records[n].flat, now)]
           after == [next EXCEPT !.fee = calls[k].quote]
<1>1. /\ calls[k] # None /\ calls[k].op = "configure" /\ Finish(k)
      /\ UNCHANGED <<terms, auctions, credits, withdrawn, proceeds, unreconciled,
                     now, accounts, fee>>
  BY DEF ConfigQuoted, Replied, ledgerVars
<1>2. /\ calls[k] \in Call /\ next \in Config /\ cfg \in Config /\ cfg.rate \in Nat
      /\ now \in Nat /\ collected \in Nat /\ calls[k].quote \in Nat
      /\ records \in [FlatNames -> Record \cup {None}]
  BY <1>1, Resumed DEF CallSound, Call, Config, TInv, TypeOK
<1>3. after \in Config /\ after.ledger = next.ledger
  BY <1>2 DEF Config
<1>4. cfg' = IF may /\ Valid(next) THEN after ELSE cfg
  BY DEF ConfigQuoted
<1>5. cfg' \in Config /\ (cfg'.ledger # cfg.ledger => NoFundsHeld)
  <2> HIDE DEF after
  <2> QED BY <1>2, <1>3, <1>4
<1>6. ASSUME NEW n \in FlatNames, records[n] # None
      PROVE  /\ Taken(cfg, records[n].flat, now) \in Nat
             /\ Settle(cfg, records[n].flat, now) \in Holding
             /\ HoldingSound(Settle(cfg, records[n].flat, now), now)
             /\ [records[n] EXCEPT !.flat = Settle(cfg, @, now)] \in Record
             /\ [records[n] EXCEPT !.flat = Settle(cfg, @, now)].flat
                  = Settle(cfg, records[n].flat, now)
  <2> DEFINE r == records[n]
             h == Settle(cfg, r.flat, now)
  <2>1. r \in Record /\ r.flat \in Holding /\ HoldingSound(r.flat, now)
        /\ r.flat.balance \in Nat
    BY <1>2, <1>6 DEF TInv, HoldingsSound, Record, Holding
  <2>2. h \in Holding /\ HoldingSound(h, now) /\ Taken(cfg, r.flat, now) \in 0..r.flat.balance
    BY <1>2, <2>1, SettleSound
  <2>3. [r EXCEPT !.flat = Settle(cfg, @, now)] = [r EXCEPT !.flat = h]
    OBVIOUS
  <2> HIDE DEF h
  <2>4. [r EXCEPT !.flat = h] \in Record /\ [r EXCEPT !.flat = h].flat = h
    BY <2>1, <2>2 DEF Record
  <2> QED BY <2>1, <2>2, <2>3, <2>4 DEF h
<1>7. TaxOf(cfg) \in Nat
  <2>1. taxes \in [FlatNames -> Nat]
    BY <1>6
  <2>2. Total(taxes) \in Nat
    BY <2>1, CoinsFinite, MarketAssumption
  <2> QED BY <2>2 DEF TaxOf
<1>8. SettledRecords(cfg) \in [FlatNames -> Record \cup {None}]
  BY <1>6 DEF SettledRecords
<1>9. records' \in [FlatNames -> Record \cup {None}] /\ HoldingsSound' /\ collected' \in Nat
  <2>1. CASE records' = SettledRecords(cfg) /\ collected' = collected + TaxOf(cfg)
    <3>1. ASSUME NEW n \in FlatNames, records'[n] # None
          PROVE  HoldingSound(records'[n].flat, now)
      BY <1>6, <2>1, <3>1 DEF SettledRecords
    <3> QED BY <1>1, <1>2, <1>7, <1>8, <2>1, <3>1 DEF HoldingsSound, HoldingSound
  <2>2. CASE UNCHANGED <<records, collected>>
    BY <1>1, <1>2, <2>2 DEF TInv, HoldingsSound, HoldingSound
  <2> QED BY <2>1, <2>2 DEF ConfigQuoted
<1>10. calls' \in [CallIds -> Call \cup {None}] /\ CallsSound'
  <2>1. calls' = [calls EXCEPT ![k] = None] /\ calls \in [CallIds -> Call \cup {None}]
        /\ CallsSound
    BY <1>1 DEF Finish, TInv, TypeOK
  <2>2. ASSUME NEW j \in CallIds, calls'[j] # None
        PROVE  CallSound(calls[j])'
    <3>1. calls'[j] = calls[j] /\ CallSound(calls[j])
      BY <2>1, <2>2 DEF CallsSound
    <3>2. cfg'.ledger # cfg.ledger => calls[j].op = "configure"
      BY <1>5, <2>2, <3>1, NobodyInFlight
    <3> QED BY <3>1, <3>2 DEF CallSound
  <2> QED BY <2>1, <2>2 DEF CallsSound
<1>11. TypeOK'
  BY <1>1, <1>5, <1>9, <1>10 DEF TInv, TypeOK, LedgerTypeOK
<1> QED BY <1>1, <1>9, <1>10, <1>11 DEF TInv, AuctionsSound

-----------------------------------------------------------------------------
(* The theorems                                                            *)

\* The start satisfies the invariant.
LEMMA InitTyped ==
  ASSUME Init
  PROVE  TInv
<1>1. Balances \in [FlatNames -> Nat]
  BY StartAssumption DEF Init, Balances, Record, Holding
<1>2. Prepaid \in Nat
  BY <1>1, CoinsFinite, MarketAssumption DEF Prepaid
<1>3. InitialConfig.ledger \in Ledgers /\ InitialConfig.fee \in Nat
  BY StartAssumption DEF Config
<1>4. LedgerTypeOK
  BY <1>2, <1>3, MarketAssumption DEF Init, LedgerTypeOK, Holders
<1>5. TypeOK
  BY <1>4, StartAssumption DEF Init, TypeOK
<1>6. HoldingsSound
  BY StartAssumption DEF Init, HoldingsSound, HoldingSound
<1>7. AuctionsSound /\ CallsSound
  BY DEF Init, AuctionsSound, CallsSound
<1> QED BY <1>5, <1>6, <1>7 DEF TInv

\* Every step keeps it.
LEMMA StepTyped ==
  ASSUME TInv, [Next]_vars
  PROVE  TInv'
<1>1. CASE Tick
  BY <1>1, TickKeeps
<1>2. CASE LedgerChangesFee
  BY <1>2, FeeStep
<1>3. ASSUME NEW k \in CallIds, Execute(k) PROVE TInv'
  BY <1>3, LedgerStep
<1>4. ASSUME NEW k \in CallIds, Resume(k) PROVE TInv'
  BY <1>4, BuyPaidKeeps, DepositPaidKeeps, BidPaidKeeps, CountersKeep,
     FundSelfQuotedKeeps, ConfigQuotedKeeps DEF Resume
<1>5. ASSUME NEW p \in Principals, CallsOf(p) PROVE TInv'
  BY <1>5, DeleteRecordKeeps, SetRecordKeeps, SetPriceKeeps, RevealKeeps DEF CallsOf
<1>6. ASSUME NEW p \in Principals, PaymentsOf(p) PROVE TInv'
  BY <1>6, BuyKeeps, DepositKeeps, PlaceBidKeeps DEF PaymentsOf
<1>7. ASSUME NEW p \in Principals, Payout(p) PROVE TInv'
  BY <1>7, WithdrawKeeps DEF Payout
<1>8. ASSUME NEW p \in Controllers, Administer(p) PROVE TInv'
  <2>1. CASE \E t \in AuctionTerms : SetAuctionConfig(p, t)
    <3>1. UNCHANGED <<cfg, records, auctions, credits, collected, withdrawn, proceeds,
                      unreconciled, calls, now, accounts, fee>>
      BY <2>1 DEF SetAuctionConfig, books, ledgerVars
    <3>2. terms' \in Terms
      BY <2>1, StartAssumption DEF SetAuctionConfig
    <3> QED BY <3>1, <3>2 DEF TInv, TypeOK, LedgerTypeOK, HoldingsSound, HoldingSound,
                             AuctionsSound, CallsSound, CallSound
  <2>2. CASE ~\E t \in AuctionTerms : SetAuctionConfig(p, t)
    BY <1>8, <2>2, FundSelfKeeps, SetHarbergerConfigKeeps DEF Administer
  <2> QED BY <2>1, <2>2
<1>9. ASSUME NEW n \in FlatNames, CloseAuction(n) PROVE TInv'
  BY <1>9, CloseAuctionKeeps
<1>10. CASE UNCHANGED vars
  BY <1>10 DEF vars, TInv, TypeOK, LedgerTypeOK, HoldingsSound, HoldingSound,
               AuctionsSound, CallsSound, CallSound
<1> QED
  BY <1>1, <1>2, <1>3, <1>4, <1>5, <1>6, <1>7, <1>8, <1>9, <1>10 DEF Next

\* The typed and sound part of the invariant holds in every behaviour,
\* whatever the ledger does and however calls interleave.
THEOREM TypedAndSound == Spec => []TInv
<1>1. Init => TInv
  BY InitTyped
<1>2. TInv /\ [Next]_vars => TInv'
  BY StepTyped
<1> QED BY <1>1, <1>2, PTL DEF Spec

\* Every variable keeps its type. In particular no price, balance, credit,
\* deposit or counter is ever negative, although settlement, refunds and
\* withdrawals subtract without a check at the subtraction.
THEOREM Typed == Spec => []TypeOK
<1>1. TInv => TypeOK
  BY DEF TInv
<1> QED BY <1>1, TypedAndSound, PTL

\* The deposit of a winner always covers the price and the opening balance,
\* and the winner has terms to close with: the guard in close() is never
\* needed.
THEOREM OpeningFits == Spec => []OpeningBalanceFits
<1>1. TInv => OpeningBalanceFits
  <2> SUFFICES ASSUME TInv, NEW n \in FlatNames, auctions[n] # None,
                      NEW o \in Outcomes(auctions[n]), o.winner # None
               PROVE  LET b == auctions[n].bids[o.winner] IN
                        b.alias # None /\ b.deposit >= o.price + b.opening
    BY DEF OpeningBalanceFits
  <2> DEFINE b == auctions[n].bids[o.winner]
  <2>1. auctions[n] \in Running /\ AuctionSound(auctions[n])
    BY DEF TInv, TypeOK, AuctionsSound
  <2>2. /\ o.winner \in Revealed(auctions[n]) /\ o.price \in Nat
        /\ b.revealed \in Nat /\ o.price <= b.revealed
    BY <2>1, OutcomeSound
  <2>3. b \in Bid /\ BidCovered(b)
    BY <2>1, <2>2 DEF Running, Revealed, Bidders, AuctionSound
  <2>4. b.deposit \in Nat /\ b.opening \in Nat
    BY <2>3 DEF Bid
  <2> HIDE DEF b
  <2>5. b.deposit >= o.price + b.opening /\ b.alias # None
    BY <2>2, <2>3, <2>4, StartAssumption DEF BidCovered
  <2> QED BY <2>5 DEF b
<1> QED BY <1>1, TypedAndSound, PTL
=============================================================================
