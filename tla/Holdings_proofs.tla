---------------------------- MODULE Holdings_proofs ----------------------------
(***************************************************************************)
(* A holding is settled only when something touches it. What it comes to,  *)
(* when it runs out and when it is free nevertheless depends on the time   *)
(* alone, not on when or how often it was settled.                         *)
(***************************************************************************)
EXTENDS Market_proofs, Expiring

-----------------------------------------------------------------------------
(* When a balance runs out                                                 *)

\* Multiplication by a natural number is monotone and distributes.
LEMMA Times ==
  ASSUME NEW k \in Nat, NEW i \in Int, NEW j \in Int
  PROVE  /\ k * i \in Int /\ k * (i + j) = k * i + k * j /\ k * (i - j) = k * i - k * j
         /\ i \in Nat => k * i \in Nat
         /\ i <= j => k * i <= k * j
<1>1. k * i \in Int /\ k * j \in Int /\ k * (i + j) = k * i + k * j /\ k * (i - j) = k * i - k * j
  OBVIOUS
<1>2. ASSUME NEW d \in Nat PROVE k * d \in Nat
  OBVIOUS
<1>3. ASSUME i <= j PROVE k * i <= k * j
  <2>1. j - i \in Nat
    BY <1>3
  <2>2. k * (j - i) \in Nat
    BY <1>2, <2>1
  <2>3. k * (j - i) = k * j - k * i
    OBVIOUS
  <2> QED BY <1>1, <2>2, <2>3
<1> QED BY <1>1, <1>2, <1>3

\* Rounding up: as many ticks as it takes to use up b at k a tick.
LEMMA RoundedUp ==
  ASSUME NEW k \in Nat, k > 0, NEW b \in Nat
  PROVE  LET q == (b + k - 1) \div k IN
         /\ q \in Nat
         /\ \A d \in Nat : k * d >= b <=> d >= q
<1> DEFINE x == b + k - 1
           q == x \div k
<1>1. x \in Nat
  OBVIOUS
<1> HIDE DEF x
<1>2. q \in Nat /\ k * q <= x /\ x < k * q + k
  BY <1>1
<1> HIDE DEF q
<1>3. k * q >= b /\ k * q < b + k
  BY <1>2 DEF x
<1>4. ASSUME NEW d \in Nat, d >= q PROVE k * d >= b
  <2>1. k * q <= k * d /\ k * d \in Int /\ k * q \in Int
    BY <1>2, <1>4, Times
  <2> QED BY <1>3, <2>1
<1>5. ASSUME NEW d \in Nat, d < q PROVE ~(k * d >= b)
  <2>1. k * (d + 1) <= k * q /\ k * (d + 1) = k * d + k * 1 /\ k * d \in Int /\ k * q \in Int
    BY <1>2, <1>5, Times
  <2>2. k * d + k <= k * q
    BY <2>1
  <2> QED BY <1>3, <2>1, <2>2
<1>6. \A d \in Nat : k * d >= b <=> d >= q
  BY <1>2, <1>4, <1>5
<1> QED BY <1>2, <1>6 DEF q, x

Burn(cf, h) == h.price * cf.rate

\* The moment a holding that has not lapsed runs out, if it ever does.
LEMMA EndTick ==
  ASSUME NEW cf, cf.rate \in Nat, NEW h \in Holding, h.lapsed = None
  PROVE  /\ Burn(cf, h) \in Nat
         /\ Burn(cf, h) = 0 => \A t \in Nat : ~RunsOut(cf, h, t)
         /\ Burn(cf, h) > 0 =>
              /\ TicksUntilSpent(cf, h) \in Nat
              /\ \A t \in Nat : h.settled <= t =>
                   (RunsOut(cf, h, t) <=> h.settled + TicksUntilSpent(cf, h) <= t)
<1>1. h.price \in Nat /\ h.balance \in Nat /\ h.settled \in Nat
  BY DEF Holding
<1> DEFINE k == Burn(cf, h)  b == h.balance  q == TicksUntilSpent(cf, h)
<1>2. k \in Nat
  BY <1>1 DEF Burn
<1>3. \A t : RunsOut(cf, h, t) <=> k > 0 /\ k * (t - h.settled) >= b
  BY DEF RunsOut, TaxDue, Burn
<1>4. q = (b + k - 1) \div k
  BY DEF TicksUntilSpent, Burn
<1> HIDE DEF k, b, q
<1>5. ASSUME k > 0 PROVE q \in Nat /\ \A d \in Nat : k * d >= b <=> d >= q
  BY <1>1, <1>2, <1>4, <1>5, RoundedUp DEF b
<1>6. ASSUME k > 0, NEW t \in Nat, h.settled <= t
      PROVE  RunsOut(cf, h, t) <=> h.settled + q <= t
  <2> DEFINE d == t - h.settled
  <2>1. d \in Nat
    BY <1>1, <1>6
  <2>2. k * d >= b <=> d >= q
    BY <1>5, <1>6, <2>1
  <2>3. RunsOut(cf, h, t) <=> k * d >= b
    BY <1>3, <1>6
  <2>4. q \in Nat
    BY <1>5, <1>6
  <2>5. d >= q <=> h.settled + q <= t
    BY <1>1, <2>4
  <2> QED BY <2>2, <2>3, <2>5
<1>7. k = 0 => \A t \in Nat : ~RunsOut(cf, h, t)
  BY <1>3
<1>8. k > 0 => q \in Nat /\ \A t \in Nat : h.settled <= t =>
                  (RunsOut(cf, h, t) <=> h.settled + q <= t)
  BY <1>5, <1>6
<1> QED BY <1>2, <1>7, <1>8 DEF k, q

\* A holding that has run out has run out for good, at the same moment.
LEMMA LapsedForGood ==
  ASSUME NEW cf, cf.rate \in Nat, NEW h \in Holding, NEW t \in Nat, NEW u \in Nat,
         h.settled <= t, t <= u, LapsedAt(cf, h, t) # None
  PROVE  LapsedAt(cf, h, u) = LapsedAt(cf, h, t) /\ LapsedAt(cf, h, t) \in Nat
<1>1. h.settled \in Nat /\ h.lapsed \in Nat \cup {None}
  BY DEF Holding
<1>2. CASE h.lapsed # None
  BY <1>1, <1>2 DEF LapsedAt, RunsOut
<1>3. CASE h.lapsed = None
  <2>1. RunsOut(cf, h, t)
    BY <1>3 DEF LapsedAt
  <2>2. Burn(cf, h) \in Nat /\ Burn(cf, h) > 0
    BY <1>3, <2>1, EndTick
  <2>3. TicksUntilSpent(cf, h) \in Nat /\ RunsOut(cf, h, u)
    BY <1>1, <1>3, <2>1, <2>2, EndTick
  <2> QED BY <1>1, <2>1, <2>3 DEF LapsedAt
<1> QED BY <1>2, <1>3

\* A free name stays free while only time passes.
LEMMA FreeForGood ==
  ASSUME NEW cf, cf.rate \in Nat, cf.grace \in Nat, NEW h \in Holding,
         NEW t \in Nat, NEW u \in Nat, h.settled <= t, t <= u, IsFree(cf, h, t)
  PROVE  IsFree(cf, h, u)
<1>1. LapsedAt(cf, h, t) # None /\ ~(t < LapsedAt(cf, h, t) + cf.grace)
  BY DEF IsFree, Status
<1>2. LapsedAt(cf, h, u) = LapsedAt(cf, h, t) /\ LapsedAt(cf, h, t) \in Nat
  BY <1>1, LapsedForGood
<1>3. ~(u < LapsedAt(cf, h, u) + cf.grace)
  BY <1>1, <1>2
<1> QED BY <1>1, <1>2, <1>3 DEF IsFree, Status

\* The fields of a settled holding.
LEMMA SettledFields ==
  ASSUME NEW cf, NEW h \in Holding, NEW t
  PROVE  LET s == Settle(cf, h, t) IN
         /\ s.price = h.price
         /\ s.balance = h.balance - Taken(cf, h, t)
         /\ s.lapsed = LapsedAt(cf, h, t)
         /\ s.settled = IF h.lapsed = None THEN t ELSE h.settled
         /\ s = [price |-> s.price, balance |-> s.balance, settled |-> s.settled,
                 lapsed |-> s.lapsed]
<1> DEFINE taken  == Taken(cf, h, t)
           lapsed == LapsedAt(cf, h, t)
<1>1. h = [price |-> h.price, balance |-> h.balance, settled |-> h.settled, lapsed |-> h.lapsed]
  BY DEF Holding
<1>2. Settle(cf, h, t) =
        [h EXCEPT !.balance = @ - taken, !.lapsed = lapsed,
                  !.settled = IF h.lapsed = None THEN t ELSE @]
  BY DEF Settle
<1> HIDE DEF taken, lapsed
<1>3. Settle(cf, h, t) =
        [price |-> h.price, balance |-> h.balance - taken,
         settled |-> IF h.lapsed = None THEN t ELSE h.settled, lapsed |-> lapsed]
  BY <1>1, <1>2
<1> QED BY <1>3 DEF taken, lapsed

\* Settling a holding early changes nothing about when it runs out.
LEMMA SettledEnds ==
  ASSUME NEW cf, cf.rate \in Nat, NEW h \in Holding, NEW t \in Nat, NEW u \in Nat,
         HoldingSound(h, t), t <= u
  PROVE  LapsedAt(cf, Settle(cf, h, t), u) = LapsedAt(cf, h, u)
<1> DEFINE s == Settle(cf, h, t)
           k == Burn(cf, h)
<1>1. /\ s \in Holding /\ s.price = h.price /\ s.lapsed = LapsedAt(cf, h, t)
      /\ s.balance = h.balance - Taken(cf, h, t)
      /\ s.settled = IF h.lapsed = None THEN t ELSE h.settled
  BY SettleSound, SettledFields
<1>2. /\ h.price \in Nat /\ h.balance \in Nat /\ h.settled \in Nat /\ h.settled <= t
      /\ h.lapsed \in Nat \cup {None}
  BY DEF Holding, HoldingSound
<1> SUFFICES LapsedAt(cf, s, u) = LapsedAt(cf, h, u)
  OBVIOUS
<1> HIDE DEF s
<1>3. CASE LapsedAt(cf, h, t) # None
  <2>1. LapsedAt(cf, s, u) = s.lapsed
    BY <1>1, <1>3 DEF LapsedAt, RunsOut
  <2> QED BY <1>1, <1>2, <1>3, <2>1, LapsedForGood
<1>4. CASE LapsedAt(cf, h, t) = None
  <2>1. h.lapsed = None
    BY <1>4, <1>2, EndTick DEF LapsedAt, RunsOut
  <2>2. Burn(cf, s) = k /\ k \in Nat
    BY <1>1, <1>2 DEF Burn
  <2>3. CASE k = 0
    <3>1. ~RunsOut(cf, h, u) /\ ~RunsOut(cf, s, u)
      BY <1>1, <1>4, <2>1, <2>2, <2>3, EndTick
    <3> QED BY <1>1, <1>4, <2>1, <3>1 DEF LapsedAt
  <2>4. CASE k > 0
    <3> DEFINE p == h.settled + TicksUntilSpent(cf, h)
               q == s.settled + TicksUntilSpent(cf, s)
    <3>1. /\ p \in Nat
          /\ \A x \in Nat : h.settled <= x => (RunsOut(cf, h, x) <=> p <= x)
      BY <1>2, <2>1, <2>4, EndTick
    <3>2. /\ q \in Nat /\ t <= q
          /\ \A x \in Nat : t <= x => (RunsOut(cf, s, x) <=> q <= x)
      BY <1>1, <1>4, <2>1, <2>2, <2>4, EndTick
    <3>3. t < p
      <4>1. ~RunsOut(cf, h, t)
        BY <1>2, <1>4, <2>1, <3>1, StartAssumption DEF LapsedAt
      <4> QED BY <1>2, <3>1, <4>1
    <3>4. ASSUME NEW x \in Nat, t <= x PROVE RunsOut(cf, h, x) <=> RunsOut(cf, s, x)
      <4> DEFINE i == x - h.settled  j == t - h.settled  d == x - t
      <4>1. i \in Nat /\ j \in Nat /\ d \in Nat /\ d = i - j
        BY <1>2, <3>4
      <4>2. k * d = k * i - k * j /\ k * i \in Nat /\ k * j \in Nat
        BY <2>2, <4>1, Times
      <4>3. ~RunsOut(cf, h, t)
        BY <1>2, <3>1, <3>3
      <4>4. Taken(cf, h, t) = k * j
        BY <2>1, <4>3 DEF Taken, TaxDue, Burn
      <4>5. s.balance = h.balance - k * j
        BY <1>1, <4>4
      <4>6. RunsOut(cf, h, x) <=> k * i >= h.balance
        BY <2>1, <2>4 DEF RunsOut, TaxDue, Burn
      <4>7. RunsOut(cf, s, x) <=> k * d >= s.balance
        BY <1>1, <1>4, <2>1, <2>2, <2>4 DEF RunsOut, TaxDue, Burn
      <4> HIDE DEF i, j, d, k
      <4> QED BY <1>2, <4>2, <4>5, <4>6, <4>7
    <3> HIDE DEF p, q, k
    <3>5. p = q
      <4>1. RunsOut(cf, s, q) /\ RunsOut(cf, h, p)
        BY <1>2, <3>1, <3>2, <3>3
      <4> QED BY <1>2, <3>1, <3>2, <3>3, <3>4, <4>1
    <3>6. RunsOut(cf, h, u) <=> RunsOut(cf, s, u)
      BY <3>4
    <3> QED BY <1>1, <1>4, <2>1, <3>5, <3>6 DEF LapsedAt, p, q
  <2> QED BY <2>2, <2>3, <2>4
<1> QED BY <1>3, <1>4

\* What is left of a balance at t.
LEMMA BalanceAt ==
  ASSUME NEW cf, cf.rate \in Nat, NEW h \in Holding, NEW t \in Nat, HoldingSound(h, t)
  PROVE  /\ Settle(cf, h, t).balance \in Nat
         /\ LapsedAt(cf, h, t) # None => Settle(cf, h, t).balance = 0
         /\ LapsedAt(cf, h, t) = None =>
              /\ h.lapsed = None /\ ~RunsOut(cf, h, t)
              /\ Settle(cf, h, t).balance = h.balance - Burn(cf, h) * (t - h.settled)
<1>1. Settle(cf, h, t) \in Holding /\ Settle(cf, h, t).balance = h.balance - Taken(cf, h, t)
  BY SettleSound
<1>2. h.balance \in Nat /\ h.lapsed \in Nat \cup {None} /\ h.settled \in Nat
  BY DEF Holding
<1>3. ASSUME LapsedAt(cf, h, t) # None PROVE Settle(cf, h, t).balance = 0
  BY <1>1, <1>2, <1>3 DEF LapsedAt, Taken, RunsOut, HoldingSound
<1>4. ASSUME LapsedAt(cf, h, t) = None
      PROVE  /\ h.lapsed = None /\ ~RunsOut(cf, h, t)
             /\ Settle(cf, h, t).balance = h.balance - Burn(cf, h) * (t - h.settled)
  <2>1. ~RunsOut(cf, h, t)
    <3>1. ASSUME RunsOut(cf, h, t) PROVE FALSE
      <4>1. h.lapsed = None
        BY <3>1 DEF RunsOut
      <4>2. Burn(cf, h) \in Nat /\ Burn(cf, h) > 0
        BY <3>1, <4>1, EndTick
      <4>3. h.settled + TicksUntilSpent(cf, h) \in Nat
        BY <1>2, <4>1, <4>2, EndTick
      <4> QED BY <1>4, <3>1, <4>3, StartAssumption DEF LapsedAt
    <3> QED BY <3>1
  <2>2. h.lapsed = None
    BY <1>4, <2>1 DEF LapsedAt
  <2>3. Taken(cf, h, t) = Burn(cf, h) * (t - h.settled)
    BY <2>1, <2>2 DEF Taken, TaxDue, Burn
  <2> QED BY <1>1, <2>1, <2>2, <2>3
<1> QED BY <1>1, <1>3, <1>4 DEF Holding

\* Settling twice comes to what settling once does.
LEMMA SettledTwice ==
  ASSUME NEW cf, cf.rate \in Nat, NEW h \in Holding, NEW t \in Nat, NEW u \in Nat,
         HoldingSound(h, t), t <= u
  PROVE  LET s == Settle(cf, h, t) IN
         /\ Settle(cf, s, u).price = h.price
         /\ Settle(cf, s, u).balance = Settle(cf, h, u).balance
         /\ Status(cf, s, u) = Status(cf, h, u)
<1> DEFINE s == Settle(cf, h, t)
           k == Burn(cf, h)
<1>1. /\ s \in Holding /\ s.price = h.price /\ s.lapsed = LapsedAt(cf, h, t)
      /\ s.settled = (IF h.lapsed = None THEN t ELSE h.settled)
      /\ HoldingSound(s, t)
  BY SettleSound, SettledFields
<1>2. LapsedAt(cf, s, u) = LapsedAt(cf, h, u)
  BY SettledEnds
<1>3. HoldingSound(h, u) /\ HoldingSound(s, u)
  <2>1. h.settled \in Nat /\ s.settled \in Nat
    BY <1>1 DEF Holding
  <2> HIDE DEF s
  <2> QED BY <1>1, <2>1 DEF HoldingSound
<1>4. s.balance = Settle(cf, h, t).balance
  OBVIOUS
<1> HIDE DEF s
<1>5. Settle(cf, s, u).price = h.price
  BY <1>1, SettledFields
<1>6. Settle(cf, s, u).balance = Settle(cf, h, u).balance
  <2>1. CASE LapsedAt(cf, h, u) # None
    BY <1>1, <1>2, <1>3, <2>1, BalanceAt
  <2>2. CASE LapsedAt(cf, h, u) = None
    <3>1. LapsedAt(cf, h, t) = None
      BY <2>2, LapsedForGood DEF HoldingSound
    <3>2. /\ h.lapsed = None
          /\ s.balance = h.balance - k * (t - h.settled)
      BY <1>4, <3>1, BalanceAt
    <3>3. Settle(cf, h, u).balance = h.balance - k * (u - h.settled)
      BY <1>3, <2>2, BalanceAt
    <3>4. Settle(cf, s, u).balance = s.balance - k * (u - t)
      <4>1. Burn(cf, s) = k
        BY <1>1 DEF Burn
      <4>2. s.settled = t
        BY <1>1, <3>2
      <4> QED BY <1>1, <1>2, <1>3, <2>2, <4>1, <4>2, BalanceAt
    <3>5. h.settled \in Nat /\ h.settled <= t /\ k \in Nat /\ h.balance \in Nat
      BY <3>2, EndTick DEF Holding, HoldingSound
    <3> DEFINE i == u - h.settled  j == t - h.settled  d == u - t
    <3>6. i \in Nat /\ j \in Nat /\ d \in Nat /\ d = i - j
      BY <3>5
    <3> HIDE DEF i, j, d, k
    <3>7. k * d = k * i - k * j /\ k * i \in Nat /\ k * j \in Nat
      BY <3>5, <3>6, Times
    <3> DEFINE x == Settle(cf, h, u).balance  y == Settle(cf, s, u).balance  z == s.balance
    <3>8. x = h.balance - k * i /\ y = z - k * d /\ z = h.balance - k * j
      BY <3>2, <3>3, <3>4 DEF i, j, d
    <3> HIDE DEF x, y, z
    <3>9. x = y
      BY <3>5, <3>7, <3>8
    <3> QED BY <3>9 DEF x, y
  <2> QED BY <2>1, <2>2
<1>7. Status(cf, s, u) = Status(cf, h, u)
  BY <1>2 DEF Status
<1> QED BY <1>5, <1>6, <1>7 DEF s

\* One tick of a meter: lazy settlement shows what taking the tax at every
\* tick would leave, and the tick at which nothing is left.
LEMMA NextTick ==
  ASSUME NEW cf, cf.rate \in Nat, NEW h \in Holding, NEW t \in Nat, HoldingSound(h, t)
  PROVE  LET k == Burn(cf, h)
             b == Settle(cf, h, t).balance
             c == Settle(cf, h, t + 1).balance IN
         /\ k \in Nat /\ b \in Nat /\ c \in Nat
         /\ LapsedAt(cf, h, t) # None =>
              c = 0 /\ LapsedAt(cf, h, t + 1) = LapsedAt(cf, h, t)
         /\ LapsedAt(cf, h, t) = None =>
              /\ k > 0 => b > 0
              /\ c = Greatest(b - k, 0)
              /\ LapsedAt(cf, h, t + 1) = IF k > 0 /\ b <= k THEN t + 1 ELSE None
<1> DEFINE k == Burn(cf, h)
           s == Settle(cf, h, t)
           b == s.balance
           c == Settle(cf, h, t + 1).balance
<1>1. t + 1 \in Nat /\ t <= t + 1 /\ HoldingSound(h, t + 1) /\ h.price \in Nat /\ k \in Nat
      /\ h.settled <= t
  BY DEF Holding, HoldingSound, Burn
<1>2. b \in Nat /\ c \in Nat
  BY <1>1, BalanceAt
<1>3. ASSUME LapsedAt(cf, h, t) # None
      PROVE  c = 0 /\ LapsedAt(cf, h, t + 1) = LapsedAt(cf, h, t)
  <2>1. LapsedAt(cf, h, t + 1) = LapsedAt(cf, h, t)
    BY <1>1, <1>3, LapsedForGood
  <2> QED BY <1>1, <1>3, <2>1, BalanceAt
<1>4. ASSUME LapsedAt(cf, h, t) = None
      PROVE  /\ k > 0 => b > 0
             /\ c = Greatest(b - k, 0)
             /\ LapsedAt(cf, h, t + 1) = IF k > 0 /\ b <= k THEN t + 1 ELSE None
  <2>1. /\ s \in Holding /\ s.price = h.price /\ s.lapsed = None /\ s.settled = t
        /\ HoldingSound(s, t + 1)
    <3>1. h.lapsed = None
      BY <1>4, BalanceAt
    <3>2. s \in Holding /\ s.price = h.price /\ s.lapsed = None /\ s.settled = t
      BY <1>4, <3>1, SettleSound, SettledFields
    <3> HIDE DEF s
    <3> QED BY <3>2, <1>1 DEF HoldingSound
  <2>2. /\ LapsedAt(cf, s, t + 1) = LapsedAt(cf, h, t + 1)
        /\ LapsedAt(cf, s, t) = LapsedAt(cf, h, t)
        /\ Settle(cf, s, t + 1).balance = c
    BY <1>1, SettledEnds, SettledTwice
  <2>3. Burn(cf, s) = k
    BY <2>1 DEF Burn
  <2> HIDE DEF s, c, k
  <2>4. RunsOut(cf, s, t + 1) <=> k > 0 /\ k >= b
    <3>1. k * ((t + 1) - t) = k
      BY <1>1
    <3> QED BY <2>1, <2>3, <3>1 DEF RunsOut, TaxDue, Burn, b
  <2>5. RunsOut(cf, s, t) <=> k > 0 /\ 0 >= b
    <3>1. k * (t - t) = 0
      BY <1>1
    <3> QED BY <2>1, <2>3, <3>1 DEF RunsOut, TaxDue, Burn, b
  <2>6. k > 0 => b > 0
    <3>1. ASSUME RunsOut(cf, s, t) PROVE FALSE
      <4>1. t + TicksUntilSpent(cf, s) \in Nat
        BY <1>1, <2>1, <2>3, <2>5, <3>1, EndTick
      <4> QED BY <1>4, <2>1, <2>2, <3>1, <4>1, StartAssumption DEF LapsedAt
    <3> QED BY <1>2, <2>5, <3>1
  <2>7. LapsedAt(cf, s, t + 1) = IF k > 0 /\ b <= k THEN t + 1 ELSE None
    <3>1. CASE k > 0 /\ b <= k
      <4>1. RunsOut(cf, s, t + 1) /\ ~RunsOut(cf, s, t)
        BY <1>1, <1>2, <2>4, <2>5, <2>6, <3>1
      <4>2. TicksUntilSpent(cf, s) \in Nat /\ t + TicksUntilSpent(cf, s) <= t + 1
            /\ ~(t + TicksUntilSpent(cf, s) <= t)
        BY <1>1, <2>1, <2>3, <3>1, <4>1, EndTick
      <4>3. TicksUntilSpent(cf, s) = 1
        BY <4>2
      <4> QED BY <2>1, <3>1, <4>1, <4>3 DEF LapsedAt
    <3>2. CASE ~(k > 0 /\ b <= k)
      <4>1. ~RunsOut(cf, s, t + 1)
        BY <1>1, <1>2, <2>4, <3>2
      <4> QED BY <2>1, <3>2, <4>1 DEF LapsedAt
    <3> QED BY <3>1, <3>2
  <2>8. c = Greatest(b - k, 0)
    <3>1. CASE k > 0 /\ b <= k
      <4>1. LapsedAt(cf, s, t + 1) # None
        BY <1>1, <2>7, <3>1, StartAssumption
      <4>2. c = 0
        BY <1>1, <2>1, <2>2, <4>1, BalanceAt
      <4> QED BY <1>1, <1>2, <3>1, <4>2 DEF Greatest
    <3>2. CASE ~(k > 0 /\ b <= k)
      <4>1. LapsedAt(cf, s, t + 1) = None
        BY <2>7, <3>2
      <4>2. c = s.balance - Burn(cf, s) * ((t + 1) - s.settled)
        BY <1>1, <2>1, <2>2, <4>1, BalanceAt
      <4>3. c = b - k
        BY <1>1, <1>2, <2>1, <2>3, <4>2
      <4> QED BY <1>1, <1>2, <3>2, <4>3 DEF Greatest
    <3> QED BY <3>1, <3>2
  <2> QED BY <2>2, <2>6, <2>7, <2>8
<1> QED BY <1>1, <1>2, <1>3, <1>4

-----------------------------------------------------------------------------
(* The deadlines that expiring lists                                       *)

\* Deadline of a name whose record has the holding h.
DeadlineOf(cf, h, t) ==
  LET s == Settle(cf, h, t)  status == Status(cf, h, t) IN
  CASE status.state = "grace" -> status.until
    [] status.state = "active" /\ s.price * cf.rate > 0 -> t + TicksUntilSpent(cf, s)
    [] OTHER -> None

\* A holding that is active at t runs out when it is said to, asked at t or
\* at the next tick.
LEMMA ActiveDeadline ==
  ASSUME NEW cf, cf.rate \in Nat, NEW h \in Holding, NEW t \in Nat, HoldingSound(h, t),
         LapsedAt(cf, h, t) = None, Burn(cf, h) > 0
  PROVE  LET q == TicksUntilSpent(cf, Settle(cf, h, t))
             p == TicksUntilSpent(cf, Settle(cf, h, t + 1)) IN
         /\ q \in Nat /\ q > 0
         /\ q <= 1 <=> LapsedAt(cf, h, t + 1) # None
         /\ LapsedAt(cf, h, t + 1) = None => (t + 1) + p = t + q
<1> DEFINE s == Settle(cf, h, t)
           r == Settle(cf, h, t + 1)
           q == TicksUntilSpent(cf, s)
           p == TicksUntilSpent(cf, r)
<1>1. t + 1 \in Nat /\ t <= t + 1 /\ HoldingSound(h, t + 1)
  BY DEF Holding, HoldingSound
<1>2. h.lapsed = None
  BY BalanceAt
<1>3. s \in Holding /\ s.price = h.price /\ s.lapsed = None /\ s.settled = t
  BY <1>2, SettleSound, SettledFields
<1>4. ASSUME LapsedAt(cf, h, t + 1) = None
      PROVE  r \in Holding /\ r.price = h.price /\ r.lapsed = None /\ r.settled = t + 1
  BY <1>1, <1>2, <1>4, SettleSound, SettledFields
<1>5. \A x \in Nat : t <= x => LapsedAt(cf, s, x) = LapsedAt(cf, h, x)
  BY SettledEnds
<1>6. \A x \in Nat : t + 1 <= x => LapsedAt(cf, r, x) = LapsedAt(cf, h, x)
  BY <1>1, SettledEnds
<1> HIDE DEF s, r
<1>7. /\ q \in Nat
      /\ \A x \in Nat : t <= x => (RunsOut(cf, s, x) <=> t + q <= x)
  <2>1. Burn(cf, s) > 0
    BY <1>3 DEF Burn
  <2> QED BY <1>3, <2>1, EndTick
<1>8. \A x \in Nat : t <= x => LapsedAt(cf, h, x) = IF t + q <= x THEN t + q ELSE None
  BY <1>3, <1>5, <1>7 DEF LapsedAt
<1> HIDE DEF q
<1>9. q > 0 /\ (q <= 1 <=> LapsedAt(cf, h, t + 1) # None)
  BY <1>1, <1>7, <1>8, StartAssumption
<1>10. ASSUME LapsedAt(cf, h, t + 1) = None PROVE (t + 1) + p = t + q
  <2>1. Burn(cf, r) > 0
    BY <1>4, <1>10 DEF Burn
  <2>2. /\ p \in Nat
        /\ \A x \in Nat : t + 1 <= x => (RunsOut(cf, r, x) <=> (t + 1) + p <= x)
    BY <1>1, <1>4, <1>10, <2>1, EndTick
  <2> DEFINE x == t + q
  <2>3. x \in Nat /\ t + 1 <= x
    BY <1>7, <1>9
  <2>4. LapsedAt(cf, r, x) = t + q
    BY <1>6, <1>8, <2>3
  <2>5. LapsedAt(cf, r, x) # None
    BY <2>3, <2>4, StartAssumption
  <2>6. LapsedAt(cf, r, x) = (t + 1) + p
    BY <1>4, <1>10, <2>5 DEF LapsedAt
  <2> QED BY <2>4, <2>6
<1> QED BY <1>7, <1>9, <1>10 DEF q, s, r

\* A deadline is met to the tick, and stays what it is until then.
LEMMA DeadlineStep ==
  ASSUME NEW cf, cf.rate \in Nat, cf.grace \in Nat, NEW h \in Holding, NEW t \in Nat,
         HoldingSound(h, t)
  PROVE  LET d == DeadlineOf(cf, h, t)
             changes == Status(cf, h, t + 1).state # Status(cf, h, t).state IN
         /\ d = None => ~changes
         /\ d # None => /\ d \in Nat
                        /\ changes <=> d - t <= 1
                        /\ d - t > 1 => DeadlineOf(cf, h, t + 1) = d
<1> DEFINE l == LapsedAt(cf, h, t)
           d == DeadlineOf(cf, h, t)
           changes == Status(cf, h, t + 1).state # Status(cf, h, t).state
<1>1. t + 1 \in Nat /\ t <= t + 1 /\ h.settled <= t /\ h.price \in Nat
  BY DEF Holding, HoldingSound
<1>2. CASE l # None
  <2>1. LapsedAt(cf, h, t + 1) = l /\ l \in Nat
    BY <1>1, <1>2, LapsedForGood
  <2> HIDE DEF l
  <2>2. CASE t < l + cf.grace
    <3>1. d = l + cf.grace /\ Status(cf, h, t).state = "grace"
      BY <1>2, <2>2 DEF DeadlineOf, Status, l
    <3>2. changes <=> ~(t + 1 < l + cf.grace)
      BY <1>2, <2>1, <3>1 DEF Status
    <3>3. t + 1 < l + cf.grace => DeadlineOf(cf, h, t + 1) = l + cf.grace
      BY <1>2, <2>1 DEF DeadlineOf, Status
    <3> HIDE DEF d, changes
    <3>4. d \in Nat /\ d # None
      BY <2>1, <3>1, StartAssumption
    <3>5. changes <=> d - t <= 1
      BY <2>1, <3>1, <3>2
    <3>6. d - t > 1 => DeadlineOf(cf, h, t + 1) = d
      BY <2>1, <3>1, <3>3
    <3> QED BY <3>4, <3>5, <3>6 DEF d, changes
  <2>3. CASE ~(t < l + cf.grace)
    <3>1. d = None /\ Status(cf, h, t).state = "free"
      BY <1>2, <2>3 DEF DeadlineOf, Status, l
    <3>2. ~(t + 1 < l + cf.grace)
      BY <2>1, <2>3
    <3>3. ~changes
      BY <1>2, <2>1, <3>1, <3>2 DEF Status
    <3> QED BY <3>1, <3>3
  <2> QED BY <2>2, <2>3
<1>3. CASE l = None
  <2> DEFINE s == Settle(cf, h, t)
             r == Settle(cf, h, t + 1)
             q == TicksUntilSpent(cf, s)
             p == TicksUntilSpent(cf, r)
  <2>1. s.price = h.price /\ r.price = h.price
    BY SettledFields
  <2>2. Status(cf, h, t).state = "active"
    BY <1>3 DEF Status
  <2>3. d = IF Burn(cf, h) > 0 THEN t + q ELSE None
    BY <2>1, <2>2 DEF DeadlineOf, Burn
  <2>4. changes <=> LapsedAt(cf, h, t + 1) # None
    BY <2>2 DEF Status
  <2>5. LapsedAt(cf, h, t + 1) = None /\ Burn(cf, h) > 0 => DeadlineOf(cf, h, t + 1) = (t + 1) + p
    BY <2>1 DEF DeadlineOf, Status, Burn
  <2> HIDE DEF d, changes, q, p, s, r
  <2>6. CASE Burn(cf, h) > 0
    <3>1. /\ q \in Nat /\ q > 0
          /\ q <= 1 <=> LapsedAt(cf, h, t + 1) # None
          /\ LapsedAt(cf, h, t + 1) = None => (t + 1) + p = t + q
      BY <1>3, <2>6, ActiveDeadline DEF q, p, s, r
    <3>2. d = t + q /\ d \in Nat
      BY <2>3, <2>6, <3>1
    <3>3. changes <=> d - t <= 1
      BY <2>4, <3>1, <3>2
    <3>4. d - t > 1 => DeadlineOf(cf, h, t + 1) = d
      BY <2>5, <2>6, <3>1, <3>2
    <3> QED BY <3>2, <3>3, <3>4, StartAssumption DEF d, changes
  <2>7. CASE ~(Burn(cf, h) > 0)
    <3>1. LapsedAt(cf, h, t + 1) = None
      BY <1>1, <1>3, <2>7, NextTick
    <3> QED BY <2>3, <2>4, <2>7, <3>1 DEF d, changes
  <2> QED BY <2>6, <2>7
<1> QED BY <1>2, <1>3

\* Time passes in Tick only.
LEMMA OnlyTick ==
  ASSUME [Next]_vars
  PROVE  Tick \/ UNCHANGED now
<1>1. ASSUME NEW k \in CallIds, Execute(k) PROVE UNCHANGED now
  BY <1>1 DEF Execute, LedgerPulls, LedgerPays, LedgerFunds, LedgerReturns, LedgerRefuses, LedgerQuotes
<1>2. ASSUME NEW k \in CallIds, Resume(k) PROVE UNCHANGED now
  BY <1>2 DEF Resume, BuyPaid, DepositPaid, BidPaid, PaymentFailed, WithdrawPaid, WithdrawFailed,
    ReplyUndecodable, FeeRejected, FundSelfQuoted, FundSelfDone, ConfigQuoted
<1>3. ASSUME NEW p, CallsOf(p) \/ PaymentsOf(p) \/ Payout(p) PROVE UNCHANGED now
  BY <1>3 DEF CallsOf, PaymentsOf, Payout, DeleteRecord, SetRecord, SetPrice, Reveal, Buy, Deposit,
    PlaceBid, Withdraw
<1>4. ASSUME NEW p, Administer(p) PROVE UNCHANGED now
  BY <1>4 DEF Administer, FundSelf, SetHarbergerConfig, SetAuctionConfig
<1>5. ASSUME NEW n, CloseAuction(n) PROVE UNCHANGED now
  BY <1>5 DEF CloseAuction
<1>6. CASE LedgerChangesFee \/ UNCHANGED vars
  BY <1>6 DEF LedgerChangesFee, vars
<1> QED BY <1>1, <1>2, <1>3, <1>4, <1>5, <1>6 DEF Next

\* What /api/expiring lists comes true to the tick, and nothing runs out or
\* becomes free that it did not list, for every rate, grace period and
\* horizon.
THEOREM DeadlinesMet == Spec => DeadlinesAreMet
<1> DEFINE Met ==
      now' = now + 1 =>
        \A n \in FlatNames : records[n] # None =>
          /\ StateOf(n)' # StateOf(n) <=> n \in ExpiringNames(1)
          /\ \A within \in 1..MaxTime :
               n \in ExpiringNames(within + 1) \ ExpiringNames(1) =>
                 n \in ExpiringNames(within)' /\ Deadline(n)' = Deadline(n)
<1>1. TInv /\ [Next]_vars => Met
  <2> SUFFICES ASSUME TInv, [Next]_vars, now' = now + 1, NEW n \in FlatNames, records[n] # None
               PROVE  /\ StateOf(n)' # StateOf(n) <=> n \in ExpiringNames(1)
                      /\ \A within \in 1..MaxTime :
                           n \in ExpiringNames(within + 1) \ ExpiringNames(1) =>
                             n \in ExpiringNames(within)' /\ Deadline(n)' = Deadline(n)
    OBVIOUS
  <2>1. now \in Nat
    BY DEF TInv, TypeOK
  <2>2. UNCHANGED <<cfg, records>>
    BY <2>1, OnlyTick DEF Tick, canisterVars
  <2> DEFINE h == records[n].flat
             d == DeadlineOf(cfg, h, now)
             e == DeadlineOf(cfg, h, now + 1)
             changes == Status(cfg, h, now + 1).state # Status(cfg, h, now).state
  <2>3. h \in Holding /\ HoldingSound(h, now) /\ cfg.rate \in Nat /\ cfg.grace \in Nat
    BY DEF TInv, TypeOK, HoldingsSound, Record, Config
  <2>4. Deadline(n) = d /\ Deadline(n)' = e /\ (StateOf(n)' # StateOf(n) <=> changes)
    BY <2>2 DEF Deadline, DeadlineOf, FlatStatus, StateOf
  <2>5. \A w : /\ n \in ExpiringNames(w) <=> d # None /\ d - now <= w
               /\ n \in ExpiringNames(w)' <=> e # None /\ e - (now + 1) <= w
    BY <2>2, <2>4 DEF ExpiringNames
  <2> HIDE DEF h
  <2>6. /\ d = None => ~changes
        /\ d # None => /\ d \in Nat
                       /\ changes <=> d - now <= 1
                       /\ d - now > 1 => e = d
    BY <2>1, <2>3, DeadlineStep
  <2> HIDE DEF d, e, changes
  <2>7. changes <=> n \in ExpiringNames(1)
    BY <2>5, <2>6
  <2>8. ASSUME NEW w \in 1..MaxTime, n \in ExpiringNames(w + 1), n \notin ExpiringNames(1)
        PROVE  n \in ExpiringNames(w)' /\ e = d
    <3>1. w \in Nat /\ d # None /\ d - now <= w + 1 /\ ~(d - now <= 1)
      BY <2>5, <2>8, MarketAssumption
    <3>2. d \in Nat /\ e = d
      BY <2>1, <2>6, <3>1
    <3>3. e - (now + 1) <= w
      BY <2>1, <3>1, <3>2
    <3> QED BY <2>5, <3>1, <3>2, <3>3
  <2> QED BY <2>4, <2>7, <2>8
<1> QED BY <1>1, TypedAndSound, PTL DEF Spec, DeadlinesAreMet
=============================================================================
