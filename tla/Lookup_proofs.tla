---------------------------- MODULE Lookup_proofs ----------------------------
(***************************************************************************)
(* Theorems on Resolve and Directory, for any names, any depth of aliases  *)
(* and any size of a page: what follow finds, what the verifier accepts,   *)
(* what the pages of a search list and what tags() counts. Queries change  *)
(* nothing, so each holds wherever the invariant of Registry does; the     *)
(* arguments are about their loops.                                        *)
(***************************************************************************)
EXTENDS Resolve, Directory, Registry_proofs, WellFoundedInduction, FiniteSetTheorems

-----------------------------------------------------------------------------
(* Loops *)

\* A set of numbers that is not empty has a least one.
LEMMA LeastNumber ==
  ASSUME NEW S \in SUBSET Nat, S # {}
  PROVE  \E x \in S : \A y \in S : x <= y
<1> DEFINE R == OpToRel(<, Nat)
<1>1. IsWellFoundedOn(R, Nat)
  BY NatLessThanWellFounded
<1>2. \A x, y \in Nat : <<y, x>> \in R <=> y < x
  BY DEF OpToRel
<1> HIDE DEF R
<1>3. PICK x \in S : \A y \in S : ~(<<y, x>> \in R)
  BY <1>1, WFMin
<1>4. \A y \in S : ~(y < x)
  BY <1>2, <1>3
<1> QED BY <1>4

\* What holds at first, and after every pass if before it, holds after each.
LEMMA EveryPass ==
  ASSUME NEW last \in Nat, NEW S, 0 \in S,
         \A k \in 1..last : k - 1 \in S => k \in S
  PROVE  \A k \in 0..last : k \in S
<1> SUFFICES ASSUME (0..last) \ S # {}
             PROVE  FALSE
  OBVIOUS
<1>1. PICK x \in (0..last) \ S : \A y \in (0..last) \ S : x <= y
  <2>1. (0..last) \ S \in SUBSET Nat
    OBVIOUS
  <2> QED BY <2>1, LeastNumber
<1>2. x # 0 /\ x \in 1..last
  OBVIOUS
<1>3. x - 1 \in S
  BY <1>1, <1>2
<1> QED BY <1>2, <1>3

\* A loop that goes from state to state.
IsLoop(last, A, start, step) ==
  last \in Nat /\ start \in A /\ step \in [1..last -> [A -> A]]

\* The states it goes through.
IsRun(f, last, A, start, step) ==
  /\ f \in [0..last -> A]
  /\ f[0] = start
  /\ \A k \in 1..last : f[k] = step[k][f[k - 1]]

\* It has a state after each of its passes.
LEMMA LoopRuns ==
  ASSUME NEW last, NEW A, NEW start, NEW step, IsLoop(last, A, start, step)
  PROVE  \E f : IsRun(f, last, A, start, step)
<1> USE DEF IsLoop
<1> DEFINE Runs(f, m) == /\ f \in [0..m -> A]
                         /\ f[0] = start
                         /\ \A k \in 1..m : f[k] = step[k][f[k - 1]]
           S == {m \in 0..last : \E f : Runs(f, m)}
<1>1. 0 \in S
  <2>1. Runs([k \in 0..0 |-> start], 0)
    OBVIOUS
  <2>2. 0 \in 0..last
    OBVIOUS
  <2> QED BY <2>1, <2>2
<1>2. ASSUME NEW m \in 1..last, m - 1 \in S
      PROVE  m \in S
  <2>1. PICK f : Runs(f, m - 1)
    BY <1>2
  <2> DEFINE g == [k \in 0..m |-> IF k < m THEN f[k] ELSE step[m][f[m - 1]]]
  <2>2. f[m - 1] \in A
    BY <2>1
  <2>3. step[m][f[m - 1]] \in A
    BY <2>2
  <2>4. g \in [0..m -> A]
    BY <2>1, <2>3
  <2>5. g[0] = start
    BY <2>1
  <2>6. \A k \in 1..m : g[k] = step[k][g[k - 1]]
    <3>1. \A k \in 1..m - 1 : g[k] = f[k] /\ g[k - 1] = f[k - 1]
      BY <2>1
    <3>2. g[m] = step[m][f[m - 1]] /\ g[m - 1] = f[m - 1]
      BY <2>1
    <3> HIDE DEF g
    <3>3. ASSUME NEW k \in 1..m - 1
          PROVE  g[k] = step[k][g[k - 1]]
      BY <2>1, <3>1
    <3>4. \A k \in 1..m : k = m \/ k \in 1..m - 1
      OBVIOUS
    <3> QED BY <3>2, <3>3, <3>4
  <2> HIDE DEF g
  <2>7. Runs(g, m)
    BY <2>4, <2>5, <2>6
  <2> QED BY <2>7
<1> HIDE DEF S
<1>3. \A k \in 1..last : k - 1 \in S => k \in S
  BY <1>2
<1>4. \A k \in 0..last : k \in S
  BY <1>1, <1>3, EveryPass
<1> QED BY <1>4 DEF S, IsRun

-----------------------------------------------------------------------------
(* The loop of follow *)

Positions == [chain : Seq(Names), next : Names \cup Canisters \cup {None}]

\* A pass leads from a position to a position.
LEMMA PassTyped ==
  ASSUME TypeOK, NEW at \in Positions
  PROVE  Pass(at) \in Positions
<1>1. CASE at.next \notin Names
  BY <1>1 DEF Pass
<1>2. CASE at.next \in Names /\ Stuck(at)
  BY <1>2 DEF Pass, Positions
<1>3. CASE at.next \in Names /\ ~Stuck(at)
  <2>1. records[at.next] \in Record
    BY <1>3 DEF Stuck, TypeOK
  <2>2. records[at.next].target \in Names \cup Canisters
    BY <2>1 DEF Record, Targets, Names
  <2>3. Append(at.chain, at.next) \in Seq(Names)
    BY <1>3 DEF Positions
  <2> QED BY <1>3, <2>2, <2>3 DEF Pass, Positions
<1> QED BY <1>1, <1>2, <1>3

\* The loop is where its passes lead.
LEMMA WalkRuns ==
  ASSUME TypeOK, NEW n \in Names
  PROVE  /\ Passes \in Nat
         /\ Walk(n) \in [0..Passes -> Positions]
         /\ Walk(n)[0] = [chain |-> <<>>, next |-> n]
         /\ \A k \in 1..Passes : Walk(n)[k] = Pass(Walk(n)[k - 1])
<1> DEFINE start == [chain |-> <<>>, next |-> n]
           step == [k \in 1..Passes |-> [at \in Positions |-> Pass(at)]]
           Def(g) == [k \in 0..Passes |-> IF k = 0 THEN start ELSE Pass(g[k - 1])]
<1>1. Passes \in Nat
  BY ResolveAssumption DEF Passes
<1>2. start \in Positions
  BY DEF Positions
<1>3. step \in [1..Passes -> [Positions -> Positions]]
  BY PassTyped
<1> HIDE DEF start, step
<1>4. PICK f : IsRun(f, Passes, Positions, start, step)
  <2>1. IsLoop(Passes, Positions, start, step)
    BY <1>1, <1>2, <1>3 DEF IsLoop
  <2> QED BY <2>1, LoopRuns
<1>5. \A k \in 1..Passes : f[k] = Pass(f[k - 1])
  <2>1. \A k \in 1..Passes : f[k - 1] \in Positions
    BY <1>1, <1>4 DEF IsRun
  <2> QED BY <1>4, <2>1 DEF step, IsRun
<1>6. f = Def(f)
  BY <1>1, <1>4, <1>5 DEF IsRun
<1>7. Walk(n) = Def(Walk(n))
  <2>1. Walk(n) = CHOOSE g : g = Def(g)
    BY DEF Walk, start
  <2> QED BY <1>6, <2>1
<1>8. /\ DOMAIN Walk(n) = 0..Passes
      /\ Walk(n)[0] = start
      /\ \A k \in 1..Passes : Walk(n)[k] = Pass(Walk(n)[k - 1])
  BY <1>1, <1>7
<1> DEFINE S == {k \in 0..Passes : Walk(n)[k] \in Positions}
<1>9. \A k \in 0..Passes : k \in S
  <2>1. 0 \in S
    BY <1>1, <1>2, <1>8
  <2>2. ASSUME NEW k \in 1..Passes, k - 1 \in S
        PROVE  k \in S
    BY <1>8, <2>2, PassTyped
  <2> HIDE DEF S
  <2> QED BY <1>1, <2>1, <2>2, EveryPass
<1>10. Walk(n) = [k \in 0..Passes |-> Walk(n)[k]]
  BY <1>7
<1> QED BY <1>1, <1>8, <1>9, <1>10 DEF start

\* Every name visited is recorded and not lapsed, each leads to the next, and
\* the last to where the loop goes next.
Visited(n, at) ==
  /\ Len(at.chain) <= MaxAliasDepth
  /\ Len(at.chain) = 0 => at.next \in {n, None}
  /\ \A i \in 1..Len(at.chain) : records[at.chain[i]] # None /\ at.chain[i] \notin lapsed
  /\ \A i \in 1..Len(at.chain) - 1 : records[at.chain[i]].target = at.chain[i + 1]
  /\ Len(at.chain) > 0 =>
       /\ at.chain[1] = n
       /\ at.next # None => records[at.chain[Len(at.chain)]].target = at.next

\* A pass that goes on has visited one name more.
LEMMA PassVisits ==
  ASSUME TypeOK, NEW n \in Names, NEW at \in Positions, Visited(n, at)
  PROVE  /\ Visited(n, Pass(at))
         /\ Pass(at).next \in Names => /\ at.next \in Names
                                       /\ Len(Pass(at).chain) = Len(at.chain) + 1
<1>1. CASE at.next \notin Names
  BY <1>1 DEF Pass
<1>2. CASE at.next \in Names /\ Stuck(at)
  BY <1>2, ResolveAssumption DEF Pass, Positions, Visited
<1>3. CASE at.next \in Names /\ ~Stuck(at)
  <2> DEFINE more == Append(at.chain, at.next)
             then == records[at.next].target
             len == Len(at.chain)
  <2>1. at.chain \in Seq(Names) /\ len \in Nat
    BY DEF Positions
  <2>2. /\ Len(more) = len + 1
        /\ \A i \in 1..len : more[i] = at.chain[i]
        /\ more[len + 1] = at.next
    BY <1>3, <2>1
  <2>3. Pass(at) = [chain |-> more, next |-> then]
    BY <1>3 DEF Pass
  <2>4. len < MaxAliasDepth /\ records[at.next] # None /\ at.next \notin lapsed
    BY <1>3, <2>1, ResolveAssumption DEF Stuck, TooDeep
  <2>5. at.next # None
    BY <1>3, ResolveAssumption
  <2> HIDE DEF more, len
  <2>6. len + 1 <= MaxAliasDepth
    BY <2>1, <2>4, ResolveAssumption
  <2>7. \A i \in 1..len + 1 : records[more[i]] # None /\ more[i] \notin lapsed
    <3>1. \A i \in 1..len : records[more[i]] # None /\ more[i] \notin lapsed
      BY <2>2 DEF Visited, len
    <3>2. \A i \in 1..len + 1 : i = len + 1 \/ i \in 1..len
      BY <2>1
    <3> QED BY <2>2, <2>4, <3>1, <3>2
  <2>8. \A i \in 1..len : records[more[i]].target = more[i + 1]
    <3>1. \A i \in 1..len - 1 : records[more[i]].target = more[i + 1]
      <4>1. \A i \in 1..len - 1 : i \in 1..len /\ i + 1 \in 1..len
        BY <2>1
      <4> QED BY <2>2, <4>1 DEF Visited, len
    <3>2. len > 0 => records[more[len]].target = more[len + 1]
      <4>1. len > 0 => len \in 1..len
        BY <2>1
      <4> QED BY <2>2, <2>5, <4>1 DEF Visited, len
    <3>3. \A i \in 1..len : len > 0 /\ (i = len \/ i \in 1..len - 1)
      BY <2>1
    <3> QED BY <3>1, <3>2, <3>3
  <2>9. more[1] = n
    <3>1. CASE len = 0
      BY <2>2, <2>5, <3>1 DEF Visited, len
    <3>2. CASE len > 0
      <4>1. 1 \in 1..len
        BY <2>1, <3>2
      <4> QED BY <2>2, <3>2, <4>1 DEF Visited, len
    <3> QED BY <2>1, <3>1, <3>2
  <2> HIDE DEF then
  <2>10. Visited(n, [chain |-> more, next |-> then])
    <3>1. len + 1 > 0 /\ (len + 1) - 1 = len
      BY <2>1
    <3>2. records[more[len + 1]].target = then
      BY <2>2 DEF then
    <3> QED BY <2>1, <2>2, <2>6, <2>7, <2>8, <2>9, <3>1, <3>2 DEF Visited
  <2> QED BY <1>3, <2>2, <2>3, <2>10 DEF len
<1> QED BY <1>1, <1>2, <1>3

\* So it is all along the loop, which goes on only while it visits names.
LEMMA WalkVisits ==
  ASSUME TypeOK, NEW n \in Names
  PROVE  \A k \in 0..Passes :
           /\ Visited(n, Walk(n)[k])
           /\ Walk(n)[k].next \in Names => Len(Walk(n)[k].chain) = k
<1> DEFINE Good(k) == /\ Visited(n, Walk(n)[k])
                      /\ Walk(n)[k].next \in Names => Len(Walk(n)[k].chain) = k
           S == {k \in 0..Passes : Good(k)}
<1>1. /\ Passes \in Nat
      /\ \A k \in 0..Passes : Walk(n)[k] \in Positions
      /\ Walk(n)[0] = [chain |-> <<>>, next |-> n]
      /\ \A k \in 1..Passes : Walk(n)[k] = Pass(Walk(n)[k - 1])
  BY WalkRuns
<1>2. Good(0)
  BY <1>1, ResolveAssumption DEF Visited
<1>3. ASSUME NEW k \in 1..Passes, k - 1 \in S
      PROVE  k \in S
  <2>1. k - 1 \in 0..Passes /\ k \in 0..Passes /\ k - 1 + 1 = k
    BY <1>1
  <2>2. Walk(n)[k] = Pass(Walk(n)[k - 1]) /\ Walk(n)[k - 1] \in Positions /\ Good(k - 1)
    BY <1>1, <1>3, <2>1
  <2>3. Good(k)
    BY <2>1, <2>2, PassVisits
  <2> QED BY <2>1, <2>3
<1>4. 0 \in S
  BY <1>1, <1>2
<1>5. \A k \in 0..Passes : k \in S
  <2> HIDE DEF S
  <2>1. \A k \in 1..Passes : k - 1 \in S => k \in S
    BY <1>3
  <2> QED BY <1>1, <1>4, <2>1, EveryPass
<1> QED BY <1>5

\* After its last pass the loop has ended.
LEMMA WalkEnds ==
  ASSUME TypeOK, NEW n \in Names
  PROVE  Walk(n)[Passes].next \notin Names
<1>1. Passes \in Nat /\ Passes \in 0..Passes /\ Passes > MaxAliasDepth
  BY ResolveAssumption DEF Passes
<1>2. Visited(n, Walk(n)[Passes])
  BY <1>1, WalkVisits
<1>3. Walk(n)[Passes].next \in Names => Len(Walk(n)[Passes].chain) = Passes
  BY <1>1, WalkVisits
<1> QED BY <1>1, <1>2, <1>3, ResolveAssumption DEF Visited

-----------------------------------------------------------------------------
(* What follow finds *)

\* What it answers is a canister and the chain of names that leads to it.
LEMMA FollowVisits ==
  ASSUME TypeOK, NEW n \in Names, Follow(n).canister # None
  PROVE  /\ Follow(n).canister \in Canisters
         /\ Follow(n).chain \in Seq(Names)
         /\ Len(Follow(n).chain) \in 1..MaxAliasDepth
         /\ Visited(n, [chain |-> Follow(n).chain, next |-> Follow(n).canister])
         /\ Follow(n).canister # None
<1> DEFINE end == Walk(n)[Passes]
<1>1. Passes \in Nat /\ Passes \in 0..Passes
  BY ResolveAssumption DEF Passes
<1>2. end \in Positions /\ Visited(n, end)
  BY <1>1, WalkRuns, WalkVisits
<1> HIDE DEF end
<1>3. Follow(n) = IF end.next \in Canisters
                  THEN [canister |-> end.next, chain |-> end.chain] ELSE Failed
  BY DEF Follow, end
<1>4. end.next \in Canisters /\ Follow(n) = [canister |-> end.next, chain |-> end.chain]
  BY <1>3 DEF Failed
<1>5. end = [chain |-> end.chain, next |-> end.next] /\ end.chain \in Seq(Names)
  BY <1>2 DEF Positions
<1>6. Len(end.chain) # 0
  BY <1>2, <1>4, ResolveAssumption DEF Visited
<1>7. Len(end.chain) \in 1..MaxAliasDepth
  BY <1>2, <1>5, <1>6, ResolveAssumption DEF Visited
<1>8. Visited(n, [chain |-> Follow(n).chain, next |-> Follow(n).canister])
  BY <1>2, <1>4, <1>5
<1> QED BY <1>4, <1>5, <1>7, <1>8

\* The chain is a path, no longer than the depth allows.
LEMMA FollowFinds ==
  ASSUME TypeOK, NEW n \in Names, NEW c \in Canisters, Follow(n).canister = c
  PROVE  LeadsTo(n, c)
<1> DEFINE path == Follow(n).chain
           len == Len(path)
<1>1. c # None
  BY RegistryAssumption
<1>2. /\ path \in Seq(Names) /\ len \in 1..MaxAliasDepth
      /\ Visited(n, [chain |-> path, next |-> c])
  BY <1>1, FollowVisits
<1> HIDE DEF path
<1>3. path \in [1..len -> Names]
  BY <1>2
<1>4. /\ path[1] = n
      /\ \A i \in 1..len : records[path[i]] # None /\ path[i] \notin lapsed
      /\ \A i \in 1..len - 1 : records[path[i]].target = path[i + 1]
      /\ records[path[len]].target = c
  BY <1>1, <1>2 DEF Visited
<1> HIDE DEF len
<1> QED BY <1>2, <1>3, <1>4 DEF LeadsTo

\* A path of aliases that ends at a canister never comes back to a name: from
\* there it would go on as before and never end.
LEMMA PathHasNoLoop ==
  ASSUME NEW len \in Nat, NEW path \in [1..len -> Names], NEW c \in Canisters,
         \A i \in 1..len - 1 : records[path[i]].target = path[i + 1],
         records[path[len]].target = c,
         NEW a \in 1..len, NEW b \in 1..len, a < b
  PROVE  path[a] # path[b]
<1> SUFFICES ASSUME path[a] = path[b]
             PROVE  FALSE
  OBVIOUS
<1> DEFINE S == {d \in 0..len - b : path[a + d] = path[b + d]}
<1>1. len - b \in Nat /\ 0 \in S
  OBVIOUS
<1>2. ASSUME NEW d \in 1..len - b, d - 1 \in S
      PROVE  d \in S
  <2>1. a + (d - 1) \in 1..len - 1 /\ b + (d - 1) \in 1..len - 1
    OBVIOUS
  <2>2. path[a + (d - 1)] = path[b + (d - 1)]
    BY <1>2
  <2>3. path[(a + (d - 1)) + 1] = path[(b + (d - 1)) + 1]
    BY <2>1, <2>2
  <2>4. (a + (d - 1)) + 1 = a + d /\ (b + (d - 1)) + 1 = b + d
    OBVIOUS
  <2> QED BY <2>3, <2>4
<1>3. len - b \in S
  <2> HIDE DEF S
  <2>1. \A d \in 1..len - b : d - 1 \in S => d \in S
    BY <1>2
  <2>2. \A d \in 0..len - b : d \in S
    BY <1>1, <2>1, EveryPass
  <2> QED BY <1>1, <2>2
<1> DEFINE e == a + (len - b)
<1>4. e \in 1..len - 1 /\ e + 1 \in 1..len /\ b + (len - b) = len
  OBVIOUS
<1>5. path[e] = path[len]
  BY <1>3, <1>4
<1> HIDE DEF e
<1>6. path[e + 1] = c
  BY <1>4, <1>5
<1> QED BY <1>4, <1>6, ResolveAssumption

\* Along a path within the depth every pass visits the next name of it.
LEMMA WalkFollowsPath ==
  ASSUME TypeOK, NEW n \in Names, NEW c \in Canisters,
         NEW len \in 1..MaxAliasDepth, NEW path \in [1..len -> Names],
         path[1] = n,
         \A i \in 1..len : records[path[i]] # None /\ path[i] \notin lapsed,
         \A i \in 1..len - 1 : records[path[i]].target = path[i + 1],
         records[path[len]].target = c
  PROVE  Walk(n)[len].next = c
<1> DEFINE there(k) == IF k < len THEN path[k + 1] ELSE c
           Good(k) == /\ Walk(n)[k].next = there(k)
                      /\ Len(Walk(n)[k].chain) = k
                      /\ \A i \in 1..k : Walk(n)[k].chain[i] = path[i]
           S == {k \in 0..len : Good(k)}
<1>1. /\ len \in Nat /\ MaxAliasDepth \in Nat /\ 0..len \subseteq 0..Passes
      /\ 1..len \subseteq 1..Passes
  BY ResolveAssumption DEF Passes
<1>2. 0 \in S
  <2>1. Walk(n)[0] = [chain |-> <<>>, next |-> n]
    BY WalkRuns
  <2> QED BY <1>1, <2>1
<1>3. ASSUME NEW k \in 1..len, k - 1 \in S
      PROVE  k \in S
  <2> DEFINE at == Walk(n)[k - 1]
  <2>1. k - 1 \in 0..len /\ k - 1 < len /\ k - 1 + 1 = k /\ k \in 0..len
    BY <1>1
  <2>2. at \in Positions /\ Walk(n)[k] = Pass(at) /\ at.chain \in Seq(Names)
    <3>1. at \in Positions
      <4>1. k - 1 \in 0..Passes
        BY <1>1, <2>1
      <4>2. Walk(n) \in [0..Passes -> Positions]
        BY WalkRuns
      <4> QED BY <4>1, <4>2
    <3>2. Walk(n)[k] = Pass(at)
      <4>1. k \in 1..Passes
        BY <1>1
      <4>2. \A j \in 1..Passes : Walk(n)[j] = Pass(Walk(n)[j - 1])
        BY WalkRuns
      <4> QED BY <4>1, <4>2
    <3> QED BY <3>1, <3>2 DEF Positions
  <2>3. /\ at.next = path[k] /\ Len(at.chain) = k - 1
        /\ \A i \in 1..k - 1 : at.chain[i] = path[i]
    BY <1>3, <2>1
  <2> HIDE DEF at
  <2>4. path[k] \in Names
    OBVIOUS
  <2>5. ~Stuck(at)
    <3>1. ~TooDeep(at.chain)
      BY <1>1, <2>3 DEF TooDeep
    <3>2. \A i \in 1..k - 1 : path[i] # path[k]
      BY <1>1, PathHasNoLoop
    <3>3. ~ \E i \in 1..Len(at.chain) : at.chain[i] = at.next
      BY <2>3, <3>2
    <3> QED BY <2>3, <3>1, <3>3 DEF Stuck
  <2>6. Pass(at) = [chain |-> Append(at.chain, path[k]), next |-> records[path[k]].target]
    BY <2>3, <2>4, <2>5 DEF Pass
  <2>7. records[path[k]].target = there(k)
    <3>1. CASE k = len
      BY <1>1, <3>1
    <3>2. CASE k < len
      BY <1>1, <3>2
    <3> QED BY <1>1, <3>1, <3>2
  <2> DEFINE more == Append(at.chain, path[k])
  <2>8. /\ Len(more) = k
        /\ \A i \in 1..k : more[i] = path[i]
    BY <2>2, <2>3, <2>4
  <2> HIDE DEF more, there
  <2>9. Walk(n)[k] = [chain |-> more, next |-> there(k)]
    BY <2>2, <2>6, <2>7 DEF more
  <2>10. Good(k)
    BY <2>8, <2>9
  <2> QED BY <2>1, <2>10
<1>4. len \in S
  <2> HIDE DEF S
  <2>1. \A k \in 1..len : k - 1 \in S => k \in S
    BY <1>3
  <2>2. \A k \in 0..len : k \in S
    BY <1>1, <1>2, <2>1, EveryPass
  <2> QED BY <1>1, <2>2
<1> QED BY <1>1, <1>4

\* Once the loop has ended, it stays where it is.
LEMMA WalkRests ==
  ASSUME TypeOK, NEW n \in Names, NEW first \in 0..Passes, Walk(n)[first].next \notin Names
  PROVE  Walk(n)[Passes] = Walk(n)[first]
<1> DEFINE last == Passes - first
           S == {d \in 0..last : Walk(n)[first + d] = Walk(n)[first]}
<1>1. Passes \in Nat /\ last \in Nat /\ first \in Nat
  BY ResolveAssumption DEF Passes
<1>2. 0 \in S
  BY <1>1
<1>3. ASSUME NEW d \in 1..last, d - 1 \in S
      PROVE  d \in S
  <2>1. first + d \in 1..Passes /\ (first + d) - 1 = first + (d - 1)
    BY <1>1
  <2>2. Walk(n)[first + d] = Pass(Walk(n)[(first + d) - 1])
    BY <2>1, WalkRuns
  <2>3. Walk(n)[first + d] = Pass(Walk(n)[first])
    BY <1>3, <2>1, <2>2
  <2>4. d \in 0..last
    BY <1>1
  <2> QED BY <2>3, <2>4 DEF Pass
<1>4. last \in S
  <2> HIDE DEF S, last
  <2>1. \A d \in 1..last : d - 1 \in S => d \in S
    BY <1>3
  <2>2. \A d \in 0..last : d \in S
    BY <1>1, <1>2, <2>1, EveryPass
  <2> QED BY <1>1, <2>2
<1> QED BY <1>1, <1>4

\* A path within the depth is found.
LEMMA PathIsFollowed ==
  ASSUME TypeOK, NEW n \in Names, NEW c \in Canisters, LeadsTo(n, c)
  PROVE  Follow(n).canister = c
<1>1. PICK len \in 1..MaxAliasDepth : \E path \in [1..len -> Names] :
        /\ path[1] = n
        /\ \A i \in 1..len : records[path[i]] # None /\ path[i] \notin lapsed
        /\ \A i \in 1..len - 1 : records[path[i]].target = path[i + 1]
        /\ records[path[len]].target = c
  BY DEF LeadsTo
<1>2. Walk(n)[len].next = c
  BY <1>1, WalkFollowsPath
<1>3. len \in 0..Passes /\ c \notin Names
  BY ResolveAssumption DEF Passes
<1>4. Walk(n)[Passes].next = c
  BY <1>2, <1>3, WalkRests
<1> QED BY <1>4 DEF Follow

\* Hence the canisters follow finds are those paths lead to.
LEMMA FollowRight ==
  ASSUME TypeOK
  PROVE  FollowIsRight
BY FollowFinds, PathIsFollowed DEF FollowIsRight

-----------------------------------------------------------------------------
(* What the verifier accepts *)

\* Certified bytes are those of one owner and one target.
LEMMA CanonicalFixes ==
  ASSUME NEW r, NEW s, Canonical(r) = Canonical(s)
  PROVE  r.target = s.target /\ r.owner = s.owner
<1> DEFINE text(q) == {<<"text", k, q.text[k]>> : k \in {k \in Keys : q.text[k] # None}}
<1>1. /\ <<"target", r.target>> \in {<<"owner", s.owner>>, <<"target", s.target>>} \cup text(s)
      /\ <<"owner", r.owner>> \in {<<"owner", s.owner>>, <<"target", s.target>>} \cup text(s)
  BY DEF Canonical
<1>2. /\ \A x : <<"target", x>> \notin text(s)
      /\ \A x : <<"owner", x>> \notin text(s)
  OBVIOUS
<1> HIDE DEF text
<1> QED BY <1>1, <1>2

\* A leaf that passes check C is that of a record which leads where the
\* record in the answer does.
LEMMA LeafIsStored ==
  ASSUME RInv, Running, NEW n \in Names, NEW witness, IsPruned(witness),
         NEW r \in Record, LeafFound(witness, n, r)
  PROVE  records[n] # None /\ records[n].target = r.target
<1>1. tree[n] = Canonical(r)
  BY DEF IsPruned, LeafFound
<1>2. tree[n] = IF records[n] = None THEN None ELSE Canonical(records[n])
  BY DEF RInv, TreeInStep, CertifiedTree
<1>3. Canonical(r) # None
  BY ResolveAssumption
<1> QED BY <1>1, <1>2, <1>3, CanonicalFixes

\* Whatever the length of the answer, whatever records and names it holds and
\* whatever leaves its witness shows.
EveryAnswerIsSound ==
  Running =>
    \A len \in Nat \ {0} : \A names \in [1..len -> Names], chain \in [1..len -> Record] :
      \A c \in Canisters : \A witness :
        Verifies(names[1], [canister |-> c, names |-> names, chain |-> chain,
                            witness |-> witness])
          => StoredPath(names, c)

\* The checks are sound: leaf by leaf the answer is what is stored.
LEMMA ChecksSound ==
  ASSUME RInv
  PROVE  EveryAnswerIsSound
<1> SUFFICES ASSUME Running, NEW len \in Nat \ {0},
                    NEW names \in [1..len -> Names], NEW chain \in [1..len -> Record],
                    NEW c \in Canisters, NEW witness,
                    Verifies(names[1], [canister |-> c, names |-> names, chain |-> chain,
                                        witness |-> witness])
             PROVE  StoredPath(names, c)
  BY DEF EveryAnswerIsSound
<1>1. Len(chain) = len /\ Len(names) = len
  OBVIOUS
<1>2. /\ \A i \in 1..len - 1 : chain[i].target = names[i + 1]
      /\ chain[len].target = c
      /\ IsPruned(witness)
      /\ \A i \in 1..len : LeafFound(witness, names[i], chain[i])
  BY <1>1 DEF Verifies
<1>3. \A i \in 1..len : records[names[i]] # None /\ records[names[i]].target = chain[i].target
  BY <1>2, LeafIsStored
<1>4. \A i \in 1..len - 1 : i \in 1..len
  OBVIOUS
<1>5. len \in 1..len
  OBVIOUS
<1> QED BY <1>1, <1>2, <1>3, <1>4, <1>5 DEF StoredPath

\* Records of some name with another target are records.
LEMMA ClaimedTyped ==
  ASSUME TypeOK
  PROVE  Claimed \subseteq Record
<1> SUFFICES ASSUME NEW n \in Names, records[n] # None, NEW t \in Targets
             PROVE  [records[n] EXCEPT !.target = t] \in Record
  BY DEF Claimed
<1>1. records[n] \in Record
  BY DEF TypeOK
<1> QED BY <1>1 DEF Record

\* So the answers the run enumerates are sound.
LEMMA EnumeratedSound ==
  ASSUME TypeOK, EveryAnswerIsSound
  PROVE  ChecksAreSound
<1> SUFFICES ASSUME Running, NEW len \in 1..MaxAliasDepth,
                    NEW names \in [1..len -> Names], NEW chain \in [1..len -> Claimed],
                    NEW c \in Canisters, NEW forged \in 0..len,
                    Verifies(names[1], [canister |-> c, names |-> names, chain |-> chain,
                                        witness |-> Shown(names, chain, forged)])
             PROVE  StoredPath(names, c)
  BY DEF ChecksAreSound
<1>1. len \in Nat \ {0}
  BY ResolveAssumption
<1>2. chain \in [1..len -> Record]
  BY ClaimedTyped
<1> QED BY <1>1, <1>2 DEF EveryAnswerIsSound

\* The canister's own answer passes.
LEMMA OwnAnswerPasses ==
  ASSUME RInv, Running, NEW n \in Names, Follow(n).canister # None
  PROVE  Verifies(n, Answer(n))
<1> DEFINE path == Follow(n).chain
           c == Follow(n).canister
           len == Len(path)
           chain == [i \in 1..len |-> records[path[i]]]
<1>1. /\ c # None /\ path \in Seq(Names) /\ len \in 1..MaxAliasDepth
      /\ Visited(n, [chain |-> path, next |-> c])
  BY FollowVisits DEF RInv
<1>2. Answer(n) = [canister |-> c, names |-> path, chain |-> chain, witness |-> Witness(path)]
  BY DEF Answer
<1> HIDE DEF path, c
<1>3. len \in Nat /\ len > 0 /\ len \in 1..len /\ 1..len - 1 \subseteq 1..len
  BY <1>1, ResolveAssumption
<1>4. \A i \in 1..len : path[i] \in Names /\ records[path[i]] # None
  BY <1>1 DEF Visited
<1>5. /\ path[1] = n
      /\ \A i \in 1..len - 1 : records[path[i]].target = path[i + 1]
      /\ records[path[len]].target = c
  BY <1>1, <1>3 DEF Visited
<1>6. IsPruned(Witness(path))
  BY DEF IsPruned, Witness
<1> HIDE DEF len
<1>7. \A i \in 1..len : LeafFound(Witness(path), path[i], records[path[i]])
  <2> SUFFICES ASSUME NEW i \in 1..len
               PROVE  LeafFound(Witness(path), path[i], records[path[i]])
    OBVIOUS
  <2>1. path[i] \in DOMAIN Witness(path) /\ Witness(path)[path[i]] = tree[path[i]]
    BY DEF Witness, len
  <2>2. tree[path[i]] = Canonical(records[path[i]])
    BY <1>4 DEF RInv, TreeInStep, CertifiedTree
  <2> QED BY <2>1, <2>2 DEF LeafFound
<1>8. Len(chain) = len /\ \A i \in 1..len : chain[i] = records[path[i]]
  BY <1>3
<1> HIDE DEF chain
<1>9. /\ \A i \in 1..len - 1 : chain[i].target = path[i + 1]
      /\ chain[len].target = c
      /\ \A i \in 1..len : LeafFound(Witness(path), path[i], chain[i])
  BY <1>3, <1>5, <1>7, <1>8
<1> QED BY <1>2, <1>3, <1>5, <1>6, <1>8, <1>9 DEF Verifies

-----------------------------------------------------------------------------
(* Counting *)

\* A set whose members those of a finite set name, each one once, is as large.
LEMMA SameSize ==
  ASSUME NEW S, IsFiniteSet(S), NEW T, NEW f \in [S -> T],
         \A t \in T : \E s \in S : f[s] = t,
         \A a, b \in S : f[a] = f[b] => a = b
  PROVE  IsFiniteSet(T) /\ Cardinality(T) = Cardinality(S)
<1>1. f \in Surjection(S, T)
  BY DEF Surjection
<1>2. f \in Injection(S, T)
  BY DEF Injection, IsInjective
<1>3. f \in Bijection(S, T)
  BY <1>1, <1>2 DEF Bijection
<1>4. ExistsBijection(S, T)
  BY <1>3 DEF ExistsBijection
<1> QED BY <1>4, FS_Bijection

\* How many of some positions of an order come no later than i.
Rank(S, i) == Cardinality(S \cap (1..i))

\* There are i positions to come no later than i.
LEMMA RankTyped ==
  ASSUME NEW S, NEW i \in Nat
  PROVE  Rank(S, i) \in 0..i
<1>1. IsFiniteSet(1..i) /\ Cardinality(1..i) = i
  BY FS_Interval
<1>2. S \cap (1..i) \in SUBSET (1..i)
  OBVIOUS
<1>3. Cardinality(S \cap (1..i)) <= i /\ IsFiniteSet(S \cap (1..i))
  BY <1>1, <1>2, FS_Subset
<1> QED BY <1>3, FS_CardinalityType DEF Rank

\* Each of them counts for one.
LEMMA RankStep ==
  ASSUME NEW S, NEW i \in Nat
  PROVE  /\ Rank(S, 0) = 0
         /\ Rank(S, i + 1) = IF i + 1 \in S THEN Rank(S, i) + 1 ELSE Rank(S, i)
<1>1. S \cap (1..0) = {}
  OBVIOUS
<1>2. IsFiniteSet(S \cap (1..i))
  <2>1. IsFiniteSet(1..i) /\ S \cap (1..i) \in SUBSET (1..i)
    BY FS_Interval
  <2> QED BY <2>1, FS_Subset
<1>3. CASE i + 1 \in S
  <2>1. S \cap (1..i + 1) = (S \cap (1..i)) \cup {i + 1}
    BY <1>3
  <2>2. i + 1 \notin S \cap (1..i)
    OBVIOUS
  <2> HIDE <1>3
  <2>3. Cardinality((S \cap (1..i)) \cup {i + 1}) = Cardinality(S \cap (1..i)) + 1
    BY <1>2, <2>2, FS_AddElement
  <2> QED BY <1>1, <1>3, <2>1, <2>3, FS_EmptySet DEF Rank
<1>4. CASE i + 1 \notin S
  <2>1. S \cap (1..i + 1) = S \cap (1..i)
    BY <1>4
  <2> QED BY <1>1, <1>4, <2>1, FS_EmptySet DEF Rank
<1> QED BY <1>3, <1>4

\* Later positions never have a lower rank, and two of S never the same.
LEMMA RankGrows ==
  ASSUME NEW S, NEW a \in Nat, NEW b \in Nat, a <= b
  PROVE  /\ Rank(S, a) <= Rank(S, b)
         /\ b \in S /\ a < b => Rank(S, a) < Rank(S, b)
<1>1. ASSUME NEW c \in Nat, a <= c
      PROVE  Rank(S, a) <= Rank(S, c)
  <2>1. IsFiniteSet(S \cap (1..c))
    <3>1. IsFiniteSet(1..c) /\ S \cap (1..c) \in SUBSET (1..c)
      BY FS_Interval
    <3> QED BY <3>1, FS_Subset
  <2>2. S \cap (1..a) \in SUBSET (S \cap (1..c))
    BY <1>1
  <2> QED BY <2>1, <2>2, FS_Subset DEF Rank
<1>2. CASE b \in S /\ a < b
  <2>1. b - 1 \in Nat /\ a <= b - 1 /\ (b - 1) + 1 = b
    BY <1>2
  <2>2. Rank(S, b) = Rank(S, b - 1) + 1
    BY <1>2, <2>1, RankStep
  <2>3. Rank(S, a) <= Rank(S, b - 1)
    BY <1>1, <2>1
  <2>4. Rank(S, a) \in Nat /\ Rank(S, b - 1) \in Nat
    BY <2>1, RankTyped
  <2> QED BY <2>2, <2>3, <2>4
<1> QED BY <1>1, <1>2

\* So the rank tells which position it is.
LEMMA RankTells ==
  ASSUME NEW S \in SUBSET (Nat \ {0}), NEW a \in S, NEW b \in S, Rank(S, a) = Rank(S, b)
  PROVE  a = b
<1>1. a \in Nat /\ b \in Nat
  OBVIOUS
<1>2. Rank(S, a) \in Nat
  BY <1>1, RankTyped
<1>3. ~(a < b)
  BY <1>1, <1>2, RankGrows
<1>4. ~(b < a)
  BY <1>1, <1>2, RankGrows
<1> QED BY <1>1, <1>3, <1>4

\* A place in a row of numbers is one place on one page.
LEMMA PagePlace ==
  ASSUME NEW size \in Nat \ {0}, NEW r \in Nat
  PROVE  \E k \in 0..r, j \in 1..size : r + 1 = k * size + j
<1> DEFINE Place(m) == \E k \in 0..m, j \in 1..size : m + 1 = k * size + j
           S == {m \in 0..r : Place(m)}
<1>1. Place(0)
  <2>1. 0 * size + 1 = 1 /\ 1 \in 1..size
    OBVIOUS
  <2> QED BY <2>1
<1>2. ASSUME NEW m \in 1..r, m - 1 \in S
      PROVE  m \in S
  <2>1. PICK k \in 0..m - 1, j \in 1..size : m = k * size + j
    BY <1>2
  <2>2. CASE j < size
    <3>1. j + 1 \in 1..size /\ k \in 0..m /\ m + 1 = k * size + (j + 1)
      BY <2>1, <2>2
    <3> QED BY <3>1
  <2>3. CASE j = size
    <3>1. (k + 1) * size = k * size + size
      OBVIOUS
    <3>2. k + 1 \in 0..m /\ 1 \in 1..size /\ m + 1 = (k + 1) * size + 1
      BY <2>1, <2>3, <3>1
    <3>3. \E l \in 0..m, i \in 1..size : m + 1 = l * size + i
      BY <3>2, Zenon
    <3> QED BY <3>3
  <2> QED BY <2>2, <2>3
<1>3. r \in S
  <2>1. 0 \in S
    BY <1>1
  <2> HIDE DEF S
  <2>2. \A m \in 1..r : m - 1 \in S => m \in S
    BY <1>2
  <2>3. \A m \in 0..r : m \in S
    BY <2>1, <2>2, EveryPass
  <2> QED BY <2>3
<1> QED BY <1>3

\* And on no other.
LEMMA PagePlaceUnique ==
  ASSUME NEW size \in Nat \ {0}, NEW k \in Nat, NEW l \in Nat,
         NEW i \in 1..size, NEW j \in 1..size, k * size + i = l * size + j
  PROVE  k = l /\ i = j
<1>1. ASSUME NEW a \in Nat, NEW b \in Nat, a < b
      PROVE  a * size + size <= b * size
  <2>1. PICK d \in Nat : b = (a + 1) + d
    <3>1. b - (a + 1) \in Nat /\ b = (a + 1) + (b - (a + 1))
      BY <1>1
    <3> QED BY <3>1
  <2>2. b * size = a * size + size + d * size
    BY <2>1
  <2>3. d * size \in Nat /\ a * size \in Nat
    OBVIOUS
  <2> QED BY <2>2, <2>3
<1>2. k * size \in Nat /\ l * size \in Nat
  OBVIOUS
<1>3. ~(k < l)
  BY <1>1, <1>2
<1>4. ~(l < k)
  BY <1>1, <1>2
<1>5. k = l
  BY <1>3, <1>4
<1> QED BY <1>2, <1>5

-----------------------------------------------------------------------------
(* The loop of search *)

Places == 1..Len(NameOrder)

\* Where the names stand that match.
HitPlaces(q, tag) == {i \in Places : Candidate(NameOrder[i], tag) /\ Matches(NameOrder[i], q)}

Findings == [total : Nat, hits : Seq(Names)]

NothingYet == [total |-> 0, hits |-> <<>>]

\* What a search has found stays total and hits.
LEMMA ConsiderTyped ==
  ASSUME NEW found \in Findings, NEW n \in Names, NEW offset, NEW limit
  PROVE  Consider(found, n, offset, limit) \in Findings
<1>1. found.hits \in Seq(Names) /\ found.total + 1 \in Nat
  BY DEF Findings
<1>2. Append(found.hits, n) \in Seq(Names)
  BY <1>1
<1> QED BY <1>1, <1>2 DEF Consider, Findings

\* The order has every name in one place.
LEMMA NamePlaces ==
  /\ Len(NameOrder) \in Nat
  /\ \A i \in Places : NameOrder[i] \in Names
  /\ \A n \in Names : \E i \in Places : NameOrder[i] = n
  /\ \A i, j \in Places : NameOrder[i] = NameOrder[j] => i = j
BY DirectoryAssumption DEF Lists, Places

\* What the loop of a search finds, pass by pass.
Finds(run, P, offset, limit) ==
  /\ run \in [0..Len(NameOrder) -> Findings]
  /\ run[0] = NothingYet
  /\ \A i \in Places :
       run[i] = IF i \in P THEN Consider(run[i - 1], NameOrder[i], offset, limit)
                ELSE run[i - 1]

\* The loop is where its passes lead.
LEMMA FoundRuns ==
  ASSUME NEW q, NEW tag, NEW offset \in Nat, NEW limit \in Nat
  PROVE  Finds(Found(q, tag, offset, limit), HitPlaces(q, tag), offset, limit)
<1> DEFINE end == Len(NameOrder)
           start == NothingYet
           Move(i, found) == IF Candidate(NameOrder[i], tag) /\ Matches(NameOrder[i], q)
                             THEN Consider(found, NameOrder[i], offset, limit) ELSE found
           step == [i \in 1..end |-> [found \in Findings |-> Move(i, found)]]
           Def(g) == [i \in 0..end |-> IF i = 0 THEN start ELSE Move(i, g[i - 1])]
           run == Found(q, tag, offset, limit)
<1>1. end \in Nat
  BY NamePlaces
<1>2. start \in Findings
  BY DEF Findings, NothingYet
<1>3. \A i \in 1..end : \A found \in Findings : Move(i, found) \in Findings
  BY NamePlaces, ConsiderTyped DEF Places
<1>4. run = CHOOSE g : g = Def(g)
  BY DEF Found, NothingYet
<1>5. \A i \in 1..end : i \in HitPlaces(q, tag)
                           <=> Candidate(NameOrder[i], tag) /\ Matches(NameOrder[i], q)
  BY DEF HitPlaces, Places
<1>6. \A i \in 1..end : \A found :
        Move(i, found) = IF i \in HitPlaces(q, tag)
                         THEN Consider(found, NameOrder[i], offset, limit) ELSE found
  BY <1>5
<1> HIDE DEF start, Move, run, end
<1>7. step \in [1..end -> [Findings -> Findings]]
  BY <1>3
<1> HIDE DEF step
<1>8. PICK f : IsRun(f, end, Findings, start, step)
  <2>1. IsLoop(end, Findings, start, step)
    BY <1>1, <1>2, <1>7 DEF IsLoop
  <2> QED BY <2>1, LoopRuns
<1>9. \A i \in 1..end : f[i] = Move(i, f[i - 1])
  <2>1. \A i \in 1..end : f[i - 1] \in Findings
    BY <1>1, <1>8 DEF IsRun
  <2> QED BY <1>8, <2>1 DEF step, IsRun
<1>10. f = Def(f)
  BY <1>1, <1>8, <1>9 DEF IsRun
<1>11. run = Def(run)
  BY <1>4, <1>10
<1>12. /\ run[0] = start
       /\ \A i \in 1..end : run[i] = Move(i, run[i - 1])
       /\ run = [i \in 0..end |-> run[i]]
  BY <1>1, <1>11
<1> DEFINE S == {i \in 0..end : run[i] \in Findings}
<1>13. \A i \in 0..end : i \in S
  <2>1. 0 \in S
    BY <1>1, <1>2, <1>12
  <2>2. ASSUME NEW i \in 1..end, i - 1 \in S
        PROVE  i \in S
    <3>1. run[i] = Move(i, run[i - 1]) /\ run[i - 1] \in Findings
      BY <1>12, <2>2
    <3>2. i \in 0..end
      BY <1>1
    <3> QED BY <1>3, <3>1, <3>2
  <2> HIDE DEF S
  <2> QED BY <1>1, <2>1, <2>2, EveryPass
<1>14. run \in [0..end -> Findings]
  BY <1>12, <1>13
<1>15. \A i \in 1..end :
         run[i] = IF i \in HitPlaces(q, tag)
                  THEN Consider(run[i - 1], NameOrder[i], offset, limit) ELSE run[i - 1]
  BY <1>6, <1>12
<1> QED BY <1>12, <1>14, <1>15 DEF run, end, start, Places, Finds

\* How many of the first r matches a page holds.
OnPage(r, offset, limit) ==
  IF r <= offset THEN 0 ELSE IF r - offset <= limit THEN r - offset ELSE limit

\* After i names: how many match, and on the page those whose turn it is.
Pageful(found, P, i, offset, limit) ==
  /\ found.total = Rank(P, i)
  /\ Len(found.hits) = OnPage(Rank(P, i), offset, limit)
  /\ \A j \in 1..Len(found.hits) :
       \E p \in P : p <= i /\ Rank(P, p) = offset + j /\ found.hits[j] = NameOrder[p]

\* A name that matches adds to the total, and to the page if it is its turn.
LEMMA ConsiderPageful ==
  ASSUME NEW P \in SUBSET Places, NEW i \in P, NEW offset \in Nat, NEW limit \in Nat \ {0},
         NEW found \in Findings, Pageful(found, P, i - 1, offset, limit)
  PROVE  Pageful(Consider(found, NameOrder[i], offset, limit), P, i, offset, limit)
<1> DEFINE n == NameOrder[i]
           r == Rank(P, i - 1)
           len == Len(found.hits)
<1>1. i - 1 \in Nat /\ i \in Nat /\ (i - 1) + 1 = i /\ n \in Names
  BY NamePlaces DEF Places
<1>2. Rank(P, i) = r + 1 /\ r \in Nat
  BY <1>1, RankStep, RankTyped
<1>3. /\ found.hits \in Seq(Names) /\ len \in Nat /\ found.total = r
      /\ len = OnPage(r, offset, limit)
      /\ \A j \in 1..len :
           \E p \in P : p <= i - 1 /\ Rank(P, p) = offset + j /\ found.hits[j] = NameOrder[p]
  BY DEF Pageful, Findings
<1>4. \A j \in 1..len :
        \E p \in P : p <= i /\ Rank(P, p) = offset + j /\ found.hits[j] = NameOrder[p]
  <2> SUFFICES ASSUME NEW j \in 1..len
               PROVE  \E p \in P : p <= i /\ Rank(P, p) = offset + j /\ found.hits[j] = NameOrder[p]
    OBVIOUS
  <2>1. PICK p \in P : p <= i - 1 /\ Rank(P, p) = offset + j /\ found.hits[j] = NameOrder[p]
    BY <1>3
  <2>2. p <= i
    BY <1>1, <2>1 DEF Places
  <2> QED BY <2>1, <2>2
<1>5. CASE r >= offset /\ len < limit
  <2> DEFINE more == Append(found.hits, n)
  <2>1. Consider(found, n, offset, limit) = [total |-> r + 1, hits |-> more]
    BY <1>3, <1>5 DEF Consider
  <2>2. /\ Len(more) = len + 1
        /\ \A j \in 1..len : more[j] = found.hits[j]
        /\ more[len + 1] = n
    BY <1>1, <1>3
  <2>3. len = r - offset
    BY <1>2, <1>3, <1>5 DEF OnPage
  <2>4. len + 1 = OnPage(r + 1, offset, limit)
    BY <1>2, <1>5, <2>3 DEF OnPage
  <2> HIDE DEF more, n, len
  <2>5. \A j \in 1..len + 1 :
          \E p \in P : p <= i /\ Rank(P, p) = offset + j /\ more[j] = NameOrder[p]
    <3>1. ASSUME NEW j \in 1..len
          PROVE  \E p \in P : p <= i /\ Rank(P, p) = offset + j /\ more[j] = NameOrder[p]
      BY <1>4, <2>2
    <3>2. i <= i /\ Rank(P, i) = offset + (len + 1) /\ more[len + 1] = NameOrder[i]
      BY <1>1, <1>2, <2>2, <2>3 DEF n
    <3>3. \A j \in 1..len + 1 : j = len + 1 \/ j \in 1..len
      BY <1>3
    <3> QED BY <3>1, <3>2, <3>3
  <2> QED BY <1>2, <2>1, <2>2, <2>4, <2>5 DEF Pageful, n
<1>6. CASE ~(r >= offset /\ len < limit)
  <2>1. Consider(found, n, offset, limit) = [total |-> r + 1, hits |-> found.hits]
    BY <1>3, <1>6 DEF Consider
  <2>2. len = OnPage(r + 1, offset, limit)
    BY <1>2, <1>3, <1>6 DEF OnPage
  <2> QED BY <1>2, <1>4, <2>1, <2>2 DEF Pageful
<1> QED BY <1>5, <1>6

\* So it is after every name.
LEMMA FoundPageful ==
  ASSUME NEW q, NEW tag, NEW offset \in Nat, NEW limit \in Nat \ {0}
  PROVE  \A i \in 0..Len(NameOrder) :
           Pageful(Found(q, tag, offset, limit)[i], HitPlaces(q, tag), i, offset, limit)
<1> DEFINE P == HitPlaces(q, tag)
           run == Found(q, tag, offset, limit)
           end == Len(NameOrder)
           S == {i \in 0..end : Pageful(run[i], P, i, offset, limit)}
<1>1. end \in Nat /\ P \in SUBSET Places /\ Places = 1..end
  BY NamePlaces DEF HitPlaces, Places
<1>2. /\ run \in [0..end -> Findings]
      /\ run[0] = NothingYet
      /\ \A i \in Places :
           run[i] = IF i \in P THEN Consider(run[i - 1], NameOrder[i], offset, limit)
                    ELSE run[i - 1]
  <2>1. Finds(run, P, offset, limit)
    BY FoundRuns
  <2> HIDE DEF P, run
  <2> QED BY <2>1 DEF Finds
<1> HIDE DEF P, run, end
<1>3. 0 \in S
  <2>1. Rank(P, 0) = 0
    BY RankStep
  <2>2. OnPage(0, offset, limit) = 0
    BY DEF OnPage
  <2> QED BY <1>1, <1>2, <2>1, <2>2 DEF Pageful, NothingYet
<1>4. ASSUME NEW i \in 1..end, i - 1 \in S
      PROVE  i \in S
  <2>1. i - 1 \in 0..end /\ i \in 0..end /\ i \in Places /\ (i - 1) + 1 = i /\ i - 1 \in Nat
    BY <1>1
  <2>2. run[i - 1] \in Findings /\ Pageful(run[i - 1], P, i - 1, offset, limit)
    BY <1>2, <1>4, <2>1
  <2>3. CASE i \in P
    <3>1. Pageful(Consider(run[i - 1], NameOrder[i], offset, limit), P, i, offset, limit)
      BY <1>1, <2>2, <2>3, ConsiderPageful
    <3> QED BY <1>2, <2>1, <2>3, <3>1
  <2>4. CASE i \notin P
    <3>1. run[i] = run[i - 1]
      BY <1>2, <2>1, <2>4
    <3>2. Rank(P, i) = Rank(P, i - 1)
      BY <2>1, <2>4, RankStep
    <3>3. ASSUME NEW j \in 1..Len(run[i].hits)
          PROVE  \E p \in P : /\ p <= i /\ Rank(P, p) = offset + j
                              /\ run[i].hits[j] = NameOrder[p]
      <4>1. PICK p \in P : /\ p <= i - 1 /\ Rank(P, p) = offset + j
                           /\ run[i].hits[j] = NameOrder[p]
        BY <2>2, <3>1, <3>3 DEF Pageful
      <4>2. p <= i
        BY <1>1, <2>1, <4>1
      <4> QED BY <4>1, <4>2
    <3>4. Pageful(run[i], P, i, offset, limit)
      BY <2>2, <3>1, <3>2, <3>3 DEF Pageful
    <3> QED BY <2>1, <3>4
  <2> QED BY <2>3, <2>4
<1>5. \A i \in 0..end : i \in S
  <2> HIDE DEF S
  <2>1. \A i \in 1..end : i - 1 \in S => i \in S
    BY <1>4
  <2> QED BY <1>1, <1>3, <2>1, EveryPass
<1> QED BY <1>5 DEF P, run, end

\* The limit that counts.
LEMMA LimitTyped ==
  ASSUME NEW limit \in Limits \cup {None}
  PROVE  Limit(limit) \in 1..MaxLimit /\ Limit(limit) \in Nat \ {0}
BY DirectoryAssumption DEF Limit

\* The index says of a name what its record does.
LEMMA IndexTells ==
  ASSUME RInv, Running, NEW n \in Names, NEW t
  PROVE  <<t, n>> \in tags <=> /\ records[n] # None
                               /\ records[n].text["tags"] # None
                               /\ t \in records[n].text["tags"]
<1>1. tags = TagIndex(records)
  BY DEF RInv, IndexKept, Running, SCHEMA
<1>2. \A m \in Names : <<t, n>> \in Entries(m, records[m]) => m = n
  BY DEF Entries
<1>3. <<t, n>> \in tags <=> <<t, n>> \in Entries(n, records[n])
  BY <1>1, <1>2 DEF TagIndex
<1> QED BY <1>3 DEF Entries

\* So a search looks at what the records say it should.
LEMMA HitsMatch ==
  ASSUME RInv, Running, NEW q, NEW tag
  PROVE  HitPlaces(q, tag) = {i \in Places : NameOrder[i] \in Matching(q, tag)}
<1>1. ASSUME NEW n \in Names
      PROVE  n \in Matching(q, tag) <=> Candidate(n, tag) /\ Matches(n, q)
  BY <1>1, IndexTells DEF Matching, Candidate
<1> QED BY <1>1, NamePlaces DEF HitPlaces

\* The pages of one search.
LEMMA PagesRight ==
  ASSUME RInv, Running, NEW q, NEW tag, NEW limit \in Limits \cup {None}
  PROVE  LET found == Matching(q, tag)
             pages == {<<k, Page(q, tag, limit, k)>> : k \in 0..Cardinality(Names)}
             hits(at) == at[1][2].hits
             seen(n) == {at \in pages \X (1..MaxLimit) :
                           at[2] <= Len(hits(at)) /\ hits(at)[at[2]] = n}
         IN  /\ \A page \in pages : page[2].total = Cardinality(found)
             /\ \A n \in Names : Cardinality(seen(n)) = IF n \in found THEN 1 ELSE 0
<1> DEFINE found == Matching(q, tag)
           page(k) == Page(q, tag, limit, k)
           pages == {<<k, page(k)>> : k \in 0..Cardinality(Names)}
           seen(n) == {at \in pages \X (1..MaxLimit) :
                         at[2] <= Len(at[1][2].hits) /\ at[1][2].hits[at[2]] = n}
           P == HitPlaces(q, tag)
           size == Limit(limit)
           end == Len(NameOrder)
<1>1. /\ end \in Nat /\ size \in Nat \ {0} /\ size \in 1..MaxLimit
      /\ P \in SUBSET Places /\ Places = 1..end
      /\ P = {i \in Places : NameOrder[i] \in found}
      /\ found \subseteq Names
  <2>1. end \in Nat /\ Places = 1..end
    BY NamePlaces DEF Places
  <2>2. size \in Nat \ {0} /\ size \in 1..MaxLimit
    BY LimitTyped
  <2>3. P \in SUBSET Places
    BY DEF HitPlaces
  <2>4. P = {i \in Places : NameOrder[i] \in found}
    BY HitsMatch
  <2>5. found \subseteq Names
    BY DEF Matching
  <2> QED BY <2>1, <2>2, <2>3, <2>4, <2>5
<1>2. Cardinality(Names) = end
  <2> DEFINE f == [i \in 1..end |-> NameOrder[i]]
  <2> HIDE DEF found, page, P, size, end
  <2>1. IsFiniteSet(1..end) /\ Cardinality(1..end) = end
    <3>1. end \in Int /\ 1 \in Int /\ (IF 1 > end THEN 0 ELSE end - 1 + 1) = end
      BY <1>1
    <3> QED BY <3>1, FS_Interval
  <2> USE DEF end
  <2>2. /\ f \in [1..end -> Names]
        /\ \A n \in Names : \E i \in 1..end : f[i] = n
        /\ \A a, b \in 1..end : f[a] = f[b] => a = b
    BY <1>1, NamePlaces
  <2> HIDE DEF f
  <2> QED BY <2>1, <2>2, SameSize
<1>3. \A k \in Nat : Pageful(page(k), P, end, k * size, size)
  <2> SUFFICES ASSUME NEW k \in Nat PROVE Pageful(page(k), P, end, k * size, size)
    OBVIOUS
  <2>1. k * size \in Nat /\ end \in 0..Len(NameOrder)
    BY <1>1
  <2>2. page(k) = Found(q, tag, k * size, size)[end]
    BY DEF Page, Search
  <2> QED BY <1>1, <2>1, <2>2, FoundPageful
<1>4. Cardinality(found) = Rank(P, end)
  <2> DEFINE f == [i \in P |-> NameOrder[i]]
  <2>1. IsFiniteSet(P)
    <3>1. IsFiniteSet(1..end) /\ P \in SUBSET (1..end)
      BY <1>1, FS_Interval
    <3> QED BY <3>1, FS_Subset
  <2>2. P \cap (1..end) = P
    BY <1>1
  <2>3. /\ f \in [P -> found]
        /\ \A n \in found : \E i \in P : f[i] = n
        /\ \A a, b \in P : f[a] = f[b] => a = b
    BY <1>1, NamePlaces
  <2> HIDE DEF f, P, found
  <2>4. Cardinality(found) = Cardinality(P)
    BY <2>1, <2>3, SameSize
  <2> QED BY <2>2, <2>4 DEF Rank
<1> HIDE DEF found, page, P, size, end
<1>5. ASSUME NEW e \in pages
      PROVE  e[2].total = Cardinality(found)
  <2>1. PICK k \in 0..Cardinality(Names) : e = <<k, page(k)>>
    OBVIOUS
  <2>2. k \in Nat
    BY <1>1, <1>2, <2>1
  <2> QED BY <1>3, <1>4, <2>1, <2>2 DEF Pageful
\* Where a page shows a name, the name's place has that rank.
<1>6. ASSUME NEW n, NEW at \in seen(n)
      PROVE  \E k \in Nat, j \in 1..size, p \in P :
               at = <<<<k, page(k)>>, j>> /\ NameOrder[p] = n /\ Rank(P, p) = k * size + j
  <2>1. PICK k \in 0..Cardinality(Names), j \in 1..MaxLimit : at = <<<<k, page(k)>>, j>>
    BY <1>6
  <2>2. k \in Nat /\ j \in Nat /\ j >= 1
    BY <1>1, <1>2, <2>1, DirectoryAssumption
  <2>3. j <= Len(page(k).hits) /\ page(k).hits[j] = n
    BY <1>6, <2>1
  <2>4. Pageful(page(k), P, end, k * size, size)
    BY <1>3, <2>2
  <2>5. Len(page(k).hits) = OnPage(Rank(P, end), k * size, size)
    BY <2>4 DEF Pageful
  <2>6. Rank(P, end) \in Nat /\ k * size \in Nat
    BY <1>1, <2>2, RankTyped
  <2>7. OnPage(Rank(P, end), k * size, size) \in Nat /\ OnPage(Rank(P, end), k * size, size) <= size
    BY <1>1, <2>6 DEF OnPage
  <2>8. j \in 1..Len(page(k).hits) /\ j \in 1..size
    BY <1>1, <2>2, <2>3, <2>5, <2>7
  <2>9. PICK p \in P : Rank(P, p) = k * size + j /\ page(k).hits[j] = NameOrder[p]
    BY <2>4, <2>8 DEF Pageful
  <2> QED BY <2>1, <2>2, <2>3, <2>8, <2>9
<1>7. ASSUME NEW n \in Names, n \notin found
      PROVE  Cardinality(seen(n)) = 0
  <2>1. seen(n) = {}
    <3> SUFFICES ASSUME NEW at \in seen(n) PROVE FALSE
      OBVIOUS
    <3>1. \E p \in P : NameOrder[p] = n
      BY <1>6
    <3> QED BY <1>1, <1>7, <3>1
  <2> QED BY <2>1, FS_EmptySet
<1>8. ASSUME NEW n \in Names, n \in found
      PROVE  Cardinality(seen(n)) = 1
  <2>1. PICK p \in P : NameOrder[p] = n
    BY <1>1, <1>8, NamePlaces
  <2>2. \A i \in P : NameOrder[i] = n => i = p
    BY <1>1, <2>1, NamePlaces
  <2> DEFINE r == Rank(P, p)
  <2>3. p \in Nat /\ p > 0 /\ p <= end /\ P \in SUBSET (Nat \ {0})
    BY <1>1
  <2>4. r \in Nat /\ r >= 1 /\ r <= end /\ r <= Rank(P, end) /\ Rank(P, end) \in Nat
    <3>1. r \in 0..p /\ Rank(P, end) \in 0..end
      BY <1>1, <2>3, RankTyped
    <3>2. Rank(P, 0) < r
      BY <2>3, RankGrows
    <3>3. Rank(P, 0) = 0
      BY RankStep
    <3>4. r <= Rank(P, end)
      BY <1>1, <2>3, RankGrows
    <3> QED BY <1>1, <2>3, <3>1, <3>2, <3>3, <3>4
  <2> HIDE DEF r
  <2>5. PICK k \in 0..r - 1, j \in 1..size : r = k * size + j
    <3>1. r - 1 \in Nat /\ (r - 1) + 1 = r
      BY <2>4
    <3>2. \E k \in 0..r - 1, j \in 1..size : (r - 1) + 1 = k * size + j
      BY <1>1, <3>1, PagePlace
    <3> QED BY <3>1, <3>2
  <2> DEFINE place == <<<<k, page(k)>>, j>>
  <2>6. k \in Nat /\ k \in 0..Cardinality(Names) /\ j \in Nat /\ j \in 1..MaxLimit
    BY <1>1, <1>2, <2>4, <2>5, DirectoryAssumption
  <2>7. j <= Len(page(k).hits) /\ page(k).hits[j] = n
    <3>1. Pageful(page(k), P, end, k * size, size)
      BY <1>3, <2>6
    <3>2. k * size \in Nat
      BY <1>1, <2>6
    <3>3. j <= OnPage(Rank(P, end), k * size, size)
      BY <1>1, <2>4, <2>5, <2>6, <3>2 DEF OnPage
    <3>4. j <= Len(page(k).hits) /\ Len(page(k).hits) \in Nat
      BY <1>1, <2>4, <3>1, <3>2, <3>3 DEF Pageful, OnPage
    <3>5. PICK i \in P : Rank(P, i) = k * size + j /\ page(k).hits[j] = NameOrder[i]
      BY <2>5, <2>6, <3>1, <3>4 DEF Pageful
    <3>6. i = p
      BY <2>3, <2>5, <3>5, RankTells DEF r
    <3> QED BY <2>1, <3>4, <3>5, <3>6
  <2>8. place \in seen(n)
    <3>1. place \in pages \X (1..MaxLimit)
      BY <2>6
    <3> QED BY <2>7, <3>1
  <2>9. ASSUME NEW at \in seen(n)
        PROVE  at = place
    <3>1. PICK l \in Nat, i \in 1..size, o \in P :
            at = <<<<l, page(l)>>, i>> /\ NameOrder[o] = n /\ Rank(P, o) = l * size + i
      BY <1>6
    <3>2. l * size + i = k * size + j
      BY <2>2, <2>5, <3>1 DEF r
    <3>3. l = k /\ i = j
      BY <1>1, <2>5, <2>6, <3>2, PagePlaceUnique
    <3> QED BY <3>1, <3>3
  <2> HIDE DEF place, seen
  <2>10. seen(n) = {place}
    BY <2>8, <2>9
  <2> QED BY <2>10, FS_Singleton
<1>9. /\ \A e \in pages : e[2].total = Cardinality(found)
      /\ \A n \in Names : Cardinality(seen(n)) = IF n \in found THEN 1 ELSE 0
  <2> HIDE DEF pages, seen
  <2> QED BY <1>5, <1>7, <1>8
<1> QED BY <1>9 DEF found, page

\* So it is for every search a client can make.
LEMMA PagesListed ==
  ASSUME RInv
  PROVE  PagesListAll
BY PagesRight DEF PagesListAll

-----------------------------------------------------------------------------
(* What tags() counts *)

Entry == 1..Len(EntryOrder)

Tag(i) == EntryOrder[i][1]

\* Where the entries the index holds stand, and those of one tag.
IndexPlaces == {i \in Entry : EntryOrder[i] \in tags}

With(t) == {i \in IndexPlaces : Tag(i) = t}

Tally == [tag : Tags, count : Nat]

Tallies == Seq(Tally)

\* The order has every entry in one place, those of one tag together.
LEMMA EntryPlaces ==
  /\ Len(EntryOrder) \in Nat
  /\ \A i \in Entry : EntryOrder[i] \in Tags \X Names /\ Tag(i) \in Tags
  /\ \A t \in Tags, n \in Names : \E i \in Entry : EntryOrder[i] = <<t, n>>
  /\ \A i, j \in Entry : EntryOrder[i] = EntryOrder[j] => i = j
  /\ \A i, j, k \in Entry : i <= j /\ j <= k /\ Tag(i) = Tag(k) => Tag(j) = Tag(i)
BY DirectoryAssumption DEF Lists, Entry, Tag

\* A key counts for the tag counted last, or for a new one.
LEMMA CountedTells ==
  ASSUME NEW counts \in Tallies, NEW t \in Tags
  PROVE  LET last == Len(counts)
             more == Counted(counts, t)
         IN  /\ more \in Tallies
             /\ last > 0 /\ counts[last].tag = t =>
                  /\ Len(more) = last
                  /\ \A j \in 1..last : more[j].tag = counts[j].tag
                  /\ \A j \in 1..last - 1 : more[j].count = counts[j].count
                  /\ more[last].count = counts[last].count + 1
             /\ ~(last > 0 /\ counts[last].tag = t) =>
                  /\ Len(more) = last + 1
                  /\ \A j \in 1..last : more[j] = counts[j]
                  /\ more[last + 1] = [tag |-> t, count |-> 1]
<1> DEFINE last == Len(counts)
           more == Counted(counts, t)
<1>1. last \in Nat /\ \A j \in 1..last : counts[j] \in Tally
  BY DEF Tallies
<1> DEFINE Again == /\ Len(more) = last
                    /\ \A j \in 1..last : more[j].tag = counts[j].tag
                    /\ \A j \in 1..last - 1 : more[j].count = counts[j].count
                    /\ more[last].count = counts[last].count + 1
           New == /\ Len(more) = last + 1
                  /\ \A j \in 1..last : more[j] = counts[j]
                  /\ more[last + 1] = [tag |-> t, count |-> 1]
<1>2. ASSUME last > 0 /\ counts[last].tag = t
      PROVE  more \in Tallies /\ Again
  <2> DEFINE top == [counts[last] EXCEPT !.count = @ + 1]
  <2>1. more = [counts EXCEPT ![last] = top]
    BY <1>1, <1>2 DEF Counted
  <2>2. last \in 1..last /\ counts[last] \in Tally
    BY <1>1, <1>2 DEF Tally
  <2>3. /\ top \in Tally /\ top.tag = counts[last].tag
        /\ top.count = counts[last].count + 1
    BY <2>2 DEF Tally
  <2> HIDE DEF top
  <2>4. more \in Tallies /\ Len(more) = last
    BY <1>1, <2>1, <2>2, <2>3 DEF Tallies
  <2>5. more[last] = top /\ \A j \in 1..last - 1 : more[j] = counts[j]
    BY <1>1, <2>1, <2>2 DEF Tallies
  <2>6. \A j \in 1..last : j = last \/ j \in 1..last - 1
    BY <1>1
  <2> HIDE DEF last, more
  <2> QED BY <1>1, <2>3, <2>4, <2>5, <2>6
<1>3. ASSUME ~(last > 0 /\ counts[last].tag = t)
      PROVE  more \in Tallies /\ New
  <2>1. more = Append(counts, [tag |-> t, count |-> 1])
    BY <1>3 DEF Counted
  <2>2. [tag |-> t, count |-> 1] \in Tally
    BY DEF Tally
  <2> QED BY <2>1, <2>2 DEF Tallies
<1>4. /\ more \in Tallies
      /\ last > 0 /\ counts[last].tag = t => Again
      /\ ~(last > 0 /\ counts[last].tag = t) => New
  <2> HIDE DEF Again, New, last, more
  <2> QED BY <1>2, <1>3
<1> QED BY <1>4

\* What the loop of tags() has counted, pass by pass.
Counting(run, P) ==
  /\ run \in [0..Len(EntryOrder) -> Tallies]
  /\ run[0] = <<>>
  /\ \A i \in Entry : run[i] = IF i \in P THEN Counted(run[i - 1], Tag(i)) ELSE run[i - 1]

\* The loop is where its passes lead.
LEMMA CountsRun ==
  Counting(Counts, IndexPlaces)
<1> DEFINE end == Len(EntryOrder)
           Move(i, counts) == IF EntryOrder[i] \in tags
                              THEN Counted(counts, EntryOrder[i][1]) ELSE counts
           step == [i \in 1..end |-> [counts \in Tallies |-> Move(i, counts)]]
           Def(g) == [i \in 0..end |-> IF i = 0 THEN <<>> ELSE Move(i, g[i - 1])]
           run == Counts
<1>1. end \in Nat
  BY EntryPlaces
<1>2. <<>> \in Tallies
  BY DEF Tallies
<1>3. \A i \in 1..end : \A counts \in Tallies : Move(i, counts) \in Tallies
  <2> SUFFICES ASSUME NEW i \in 1..end, NEW counts \in Tallies
               PROVE  Move(i, counts) \in Tallies
    OBVIOUS
  <2>1. EntryOrder[i][1] \in Tags
    BY EntryPlaces DEF Entry, Tag
  <2>2. Counted(counts, EntryOrder[i][1]) \in Tallies
    BY <2>1, CountedTells
  <2> QED BY <2>2
<1>4. run = CHOOSE g : g = Def(g)
  BY DEF Counts
<1>5. \A i \in 1..end : \A counts :
        Move(i, counts) = IF i \in IndexPlaces THEN Counted(counts, Tag(i)) ELSE counts
  BY DEF IndexPlaces, Entry, Tag
<1> HIDE DEF Move, run, end
<1>6. step \in [1..end -> [Tallies -> Tallies]]
  BY <1>3
<1> HIDE DEF step
<1>7. PICK f : IsRun(f, end, Tallies, <<>>, step)
  <2>1. IsLoop(end, Tallies, <<>>, step)
    BY <1>1, <1>2, <1>6 DEF IsLoop
  <2> QED BY <2>1, LoopRuns
<1>8. \A i \in 1..end : f[i] = Move(i, f[i - 1])
  <2>1. \A i \in 1..end : f[i - 1] \in Tallies
    BY <1>1, <1>7 DEF IsRun
  <2> QED BY <1>7, <2>1 DEF step, IsRun
<1>9. f = Def(f)
  BY <1>1, <1>7, <1>8 DEF IsRun
<1>10. run = Def(run)
  BY <1>4, <1>9
<1>11. /\ run[0] = <<>>
       /\ \A i \in 1..end : run[i] = Move(i, run[i - 1])
       /\ run = [i \in 0..end |-> run[i]]
  BY <1>1, <1>10
<1> DEFINE S == {i \in 0..end : run[i] \in Tallies}
<1>12. \A i \in 0..end : i \in S
  <2>1. 0 \in S
    BY <1>1, <1>2, <1>11
  <2>2. ASSUME NEW i \in 1..end, i - 1 \in S
        PROVE  i \in S
    <3>1. run[i] = Move(i, run[i - 1]) /\ run[i - 1] \in Tallies
      BY <1>11, <2>2
    <3>2. i \in 0..end
      BY <1>1
    <3> QED BY <1>3, <3>1, <3>2
  <2> HIDE DEF S
  <2> QED BY <1>1, <2>1, <2>2, EveryPass
<1>13. run \in [0..end -> Tallies]
  BY <1>11, <1>12
<1>14. \A i \in 1..end :
         run[i] = IF i \in IndexPlaces THEN Counted(run[i - 1], Tag(i)) ELSE run[i - 1]
  BY <1>5, <1>11
<1> QED BY <1>11, <1>13, <1>14 DEF run, end, Entry, Counting

\* After i keys: each tag of the index so far once, with how many entries
\* it had, that of the last entry last.
Tallied(counts, i) ==
  /\ \A j \in 1..Len(counts) : counts[j].count = Rank(With(counts[j].tag), i)
  /\ \A p \in IndexPlaces : p <= i => \E j \in 1..Len(counts) : counts[j].tag = Tag(p)
  /\ \A j \in 1..Len(counts) : \E p \in IndexPlaces : p <= i /\ counts[j].tag = Tag(p)
  /\ \A j, k \in 1..Len(counts) : counts[j].tag = counts[k].tag => j = k
  /\ Len(counts) > 0 =>
       \E p \in IndexPlaces : /\ p <= i /\ counts[Len(counts)].tag = Tag(p)
                              /\ \A o \in IndexPlaces : o <= i => o <= p

\* A tag counted before comes back only while it is the last: its entries
\* stand together.
LEMMA TagReturnsLast ==
  ASSUME NEW i \in IndexPlaces, NEW counts \in Tallies, Tallied(counts, i - 1),
         NEW j \in 1..Len(counts), counts[j].tag = Tag(i)
  PROVE  Len(counts) > 0 /\ counts[Len(counts)].tag = Tag(i) /\ j = Len(counts)
<1>1. Len(counts) \in Nat /\ Len(counts) > 0 /\ Len(counts) \in 1..Len(counts)
  BY DEF Tallies
<1>2. PICK o \in IndexPlaces : o <= i - 1 /\ counts[j].tag = Tag(o)
  BY DEF Tallied
<1>3. PICK p \in IndexPlaces : /\ p <= i - 1 /\ counts[Len(counts)].tag = Tag(p)
                               /\ \A x \in IndexPlaces : x <= i - 1 => x <= p
  BY <1>1 DEF Tallied
<1>4. o \in Entry /\ p \in Entry /\ i \in Entry /\ o <= p /\ p <= i
  BY <1>2, <1>3, EntryPlaces DEF IndexPlaces, Entry
<1>5. Tag(o) = Tag(i)
  BY <1>2
<1>6. Tag(p) = Tag(o)
  BY <1>4, <1>5, EntryPlaces
<1> QED BY <1>1, <1>3, <1>5, <1>6 DEF Tallied

\* A key of the index is counted where its tag is.
LEMMA CountedTallied ==
  ASSUME NEW i \in IndexPlaces, NEW counts \in Tallies, Tallied(counts, i - 1)
  PROVE  Tallied(Counted(counts, Tag(i)), i)
<1> DEFINE last == Len(counts)
           more == Counted(counts, Tag(i))
           t == Tag(i)
<1>1. /\ i \in Entry /\ i \in Nat /\ i - 1 \in Nat /\ (i - 1) + 1 = i
      /\ t \in Tags /\ last \in Nat
      /\ \A p \in IndexPlaces : p \in Nat
  BY EntryPlaces DEF IndexPlaces, Entry, Tallies
<1>2. /\ \A j \in 1..last : counts[j].count = Rank(With(counts[j].tag), i - 1)
      /\ \A p \in IndexPlaces : p <= i - 1 => \E j \in 1..last : counts[j].tag = Tag(p)
      /\ \A j \in 1..last : \E p \in IndexPlaces : p <= i - 1 /\ counts[j].tag = Tag(p)
      /\ \A j, k \in 1..last : counts[j].tag = counts[k].tag => j = k
  BY DEF Tallied
<1>3. /\ last > 0 /\ counts[last].tag = t =>
           /\ Len(more) = last
           /\ \A j \in 1..last : more[j].tag = counts[j].tag
           /\ \A j \in 1..last - 1 : more[j].count = counts[j].count
           /\ more[last].count = counts[last].count + 1
      /\ ~(last > 0 /\ counts[last].tag = t) =>
           /\ Len(more) = last + 1
           /\ \A j \in 1..last : more[j] = counts[j]
           /\ more[last + 1] = [tag |-> t, count |-> 1]
  BY <1>1, CountedTells
<1>4. ASSUME NEW x
      PROVE  Rank(With(x), i) = IF x = t THEN Rank(With(x), i - 1) + 1 ELSE Rank(With(x), i - 1)
  <2>1. i \in With(x) <=> x = t
    BY DEF With
  <2> HIDE DEF t
  <2> QED BY <1>1, <2>1, RankStep
\* What is known of the places before i goes on to hold up to i.
<1>5. /\ \A p \in IndexPlaces : p <= i - 1 => p <= i
      /\ \A p \in IndexPlaces : p <= i => p = i \/ p <= i - 1
      /\ i <= i
  BY <1>1
<1> HIDE DEF last, more, t
<1>6. CASE last > 0 /\ counts[last].tag = t
  <2>1. last \in 1..last /\ more[last].tag = t /\ Len(more) = last
        /\ \A j \in 1..last : more[j].tag = counts[j].tag
    BY <1>1, <1>3, <1>6
  <2>2. \A j \in 1..last : more[j].count = Rank(With(more[j].tag), i)
    <3> SUFFICES ASSUME NEW j \in 1..last PROVE more[j].count = Rank(With(more[j].tag), i)
      OBVIOUS
    <3>1. CASE j = last
      BY <1>2, <1>3, <1>4, <1>6, <2>1, <3>1
    <3>2. CASE j # last
      <4>1. j \in 1..last - 1
        BY <1>1, <3>2
      <4>2. counts[j].tag # t
        <5>1. counts[j].tag = counts[last].tag => j = last
          BY <1>2, <2>1
        <5> QED BY <1>6, <3>2, <5>1
      <4> QED BY <1>2, <1>3, <1>4, <1>6, <2>1, <4>1, <4>2
    <3> QED BY <3>1, <3>2
  <2>3. \A p \in IndexPlaces : p <= i => \E j \in 1..last : more[j].tag = Tag(p)
    BY <1>2, <1>5, <2>1 DEF t
  <2>4. \A j \in 1..last : \E p \in IndexPlaces : p <= i /\ more[j].tag = Tag(p)
    BY <1>2, <1>5, <2>1
  <2>5. \A j, k \in 1..last : more[j].tag = more[k].tag => j = k
    BY <1>2, <2>1
  <2>6. \E p \in IndexPlaces : /\ p <= i /\ more[last].tag = Tag(p)
                               /\ \A o \in IndexPlaces : o <= i => o <= p
    BY <1>5, <2>1 DEF t
  <2>7. Tallied(more, i)
    BY <2>1, <2>2, <2>3, <2>4, <2>5, <2>6 DEF Tallied
  <2> QED BY <2>7 DEF more, t
<1>7. CASE ~(last > 0 /\ counts[last].tag = t)
  <2>1. \A j \in 1..last : counts[j].tag # t
    BY <1>7, TagReturnsLast DEF last, t
  <2>2. /\ Len(more) = last + 1 /\ more[last + 1].tag = t /\ more[last + 1].count = 1
        /\ \A j \in 1..last : more[j].tag = counts[j].tag /\ more[j].count = counts[j].count
    BY <1>3, <1>7
  <2>3. \A j \in 1..last + 1 : j = last + 1 \/ j \in 1..last
    BY <1>1
  <2>4. Rank(With(t), i - 1) = 0
    <3>1. With(t) \cap (1..i - 1) = {}
      <4> SUFFICES ASSUME NEW p \in With(t), p \in 1..i - 1 PROVE FALSE
        OBVIOUS
      <4>1. p \in IndexPlaces /\ p <= i - 1 /\ Tag(p) = t
        BY <1>1 DEF With
      <4> QED BY <1>2, <2>1, <4>1
    <3> QED BY <3>1, FS_EmptySet DEF Rank
  <2>5. \A j \in 1..last + 1 : more[j].count = Rank(With(more[j].tag), i)
    BY <1>2, <1>4, <2>1, <2>2, <2>3, <2>4
  <2>6. \A p \in IndexPlaces : p <= i => \E j \in 1..last + 1 : more[j].tag = Tag(p)
    <3> SUFFICES ASSUME NEW p \in IndexPlaces, p <= i
                 PROVE  \E j \in 1..last + 1 : more[j].tag = Tag(p)
      OBVIOUS
    <3>1. last + 1 \in 1..last + 1 /\ \A j \in 1..last : j \in 1..last + 1
      BY <1>1
    <3>2. CASE p = i
      BY <2>2, <3>1, <3>2 DEF t
    <3>3. CASE p <= i - 1
      BY <1>2, <2>2, <3>1, <3>3
    <3> QED BY <1>5, <3>2, <3>3
  <2>7. \A j \in 1..last + 1 : \E p \in IndexPlaces : p <= i /\ more[j].tag = Tag(p)
    BY <1>2, <1>5, <2>2, <2>3 DEF t
  <2>8. \A j, k \in 1..last + 1 : more[j].tag = more[k].tag => j = k
    BY <1>2, <2>1, <2>2, <2>3
  <2>9. \E p \in IndexPlaces : /\ p <= i /\ more[last + 1].tag = Tag(p)
                               /\ \A o \in IndexPlaces : o <= i => o <= p
    BY <1>5, <2>2 DEF t
  <2>10. Tallied(more, i)
    BY <2>2, <2>5, <2>6, <2>7, <2>8, <2>9 DEF Tallied
  <2> QED BY <2>10 DEF more, t
<1> QED BY <1>6, <1>7

\* So it is after every key.
LEMMA CountsTallied ==
  \A i \in 0..Len(EntryOrder) : Counts[i] \in Tallies /\ Tallied(Counts[i], i)
<1> DEFINE end == Len(EntryOrder)
           run == Counts
           S == {i \in 0..end : Tallied(run[i], i)}
<1>1. end \in Nat /\ Entry = 1..end
  BY EntryPlaces DEF Entry
<1>2. /\ run \in [0..end -> Tallies]
      /\ run[0] = <<>>
      /\ \A i \in Entry : run[i] = IF i \in IndexPlaces THEN Counted(run[i - 1], Tag(i))
                                   ELSE run[i - 1]
  BY CountsRun DEF Counting
<1> HIDE DEF run, end
<1>3. 0 \in S
  <2>1. \A p \in IndexPlaces : ~(p <= 0)
    BY <1>1 DEF IndexPlaces
  <2>2. Tallied(<<>>, 0)
    BY <2>1 DEF Tallied
  <2> QED BY <1>1, <1>2, <2>2
<1>4. ASSUME NEW i \in 1..end, i - 1 \in S
      PROVE  i \in S
  <2>1. i - 1 \in 0..end /\ i \in 0..end /\ i \in Entry /\ (i - 1) + 1 = i /\ i - 1 \in Nat
    BY <1>1
  <2>2. run[i - 1] \in Tallies /\ Tallied(run[i - 1], i - 1)
    BY <1>2, <1>4, <2>1
  <2>3. CASE i \in IndexPlaces
    BY <1>2, <2>1, <2>2, <2>3, CountedTallied
  <2>4. CASE i \notin IndexPlaces
    <3>1. run[i] = run[i - 1]
      BY <1>2, <2>1, <2>4
    <3>2. \A p \in IndexPlaces : p \in Nat /\ (p <= i <=> p <= i - 1)
      <4> SUFFICES ASSUME NEW p \in IndexPlaces PROVE p \in Nat /\ (p <= i <=> p <= i - 1)
        OBVIOUS
      <4>1. p \in Nat /\ p # i
        BY <1>1, <2>4 DEF IndexPlaces
      <4> QED BY <2>1, <4>1
    <3>3. ASSUME NEW t
          PROVE  Rank(With(t), i) = Rank(With(t), i - 1)
      <4>1. i \notin With(t)
        BY <2>4 DEF With
      <4> QED BY <2>1, <4>1, RankStep
    <3> DEFINE counts == run[i]
               last == Len(counts)
    <3>4. Tallied(counts, i - 1)
      BY <2>2, <3>1
    <3> HIDE DEF counts
    <3>5. \A j \in 1..last : counts[j].count = Rank(With(counts[j].tag), i)
      BY <3>3, <3>4 DEF Tallied
    <3>6. \A p \in IndexPlaces : p <= i => \E j \in 1..last : counts[j].tag = Tag(p)
      BY <3>2, <3>4 DEF Tallied
    <3>7. \A j \in 1..last : \E p \in IndexPlaces : p <= i /\ counts[j].tag = Tag(p)
      BY <3>2, <3>4 DEF Tallied
    <3>8. \A j, k \in 1..last : counts[j].tag = counts[k].tag => j = k
      BY <3>4 DEF Tallied
    <3>9. last > 0 =>
            \E p \in IndexPlaces : /\ p <= i /\ counts[last].tag = Tag(p)
                                   /\ \A o \in IndexPlaces : o <= i => o <= p
      BY <3>2, <3>4 DEF Tallied
    <3>10. Tallied(counts, i)
      BY <3>5, <3>6, <3>7, <3>8, <3>9 DEF Tallied
    <3> QED BY <2>1, <3>10 DEF counts
  <2> QED BY <2>3, <2>4
<1>5. \A i \in 0..end : i \in S
  <2> HIDE DEF S
  <2>1. \A i \in 1..end : i - 1 \in S => i \in S
    BY <1>4
  <2> QED BY <1>1, <1>3, <2>1, EveryPass
<1> QED BY <1>2, <1>5 DEF run, end

\* The index has as many entries with a tag as there are records with it.
LEMMA EntriesCount ==
  ASSUME RInv, Running, NEW t \in Tags
  PROVE  /\ Rank(With(t), Len(EntryOrder)) = Cardinality(Matching(None, t))
         /\ Matching(None, t) # {} <=> With(t) # {}
<1> DEFINE P == With(t)
           end == Len(EntryOrder)
           found == Matching(None, t)
           f == [p \in P |-> EntryOrder[p][2]]
<1>1. /\ end \in Nat
      /\ P \in SUBSET (1..end)
      /\ \A p \in P : EntryOrder[p] = <<t, EntryOrder[p][2]>> /\ EntryOrder[p][2] \in Names
  BY EntryPlaces DEF With, IndexPlaces, Entry, Tag
<1>2. \A p \in P : EntryOrder[p] \in tags
  BY DEF With, IndexPlaces
<1>3. \A n \in Names : n \in found <=> <<t, n>> \in tags
  <2>1. t # None
    BY DirectoryAssumption
  <2>2. \A n \in Names : Matches(n, None)
    BY DEF Matches
  <2> QED BY <2>1, <2>2, IndexTells DEF Matching
<1>4. found \subseteq Names
  BY DEF Matching
<1>5. \A n \in found : \E p \in P : EntryOrder[p][2] = n
  <2> SUFFICES ASSUME NEW n \in found PROVE \E p \in P : EntryOrder[p][2] = n
    OBVIOUS
  <2>1. PICK p \in Entry : EntryOrder[p] = <<t, n>>
    BY <1>4, EntryPlaces
  <2>2. p \in P /\ EntryOrder[p][2] = n
    BY <1>3, <1>4, <2>1 DEF With, IndexPlaces, Tag
  <2> QED BY <2>2
<1>6. \A a, b \in P : EntryOrder[a][2] = EntryOrder[b][2] => a = b
  <2>1. P \in SUBSET Entry
    BY DEF With, IndexPlaces
  <2> HIDE DEF P
  <2> QED BY <1>1, <2>1, EntryPlaces
<1>7. f \in [P -> found]
  BY <1>1, <1>2, <1>3
<1>8. IsFiniteSet(P)
  <2> HIDE DEF P, end
  <2>1. end \in Int /\ 1 \in Int
    BY <1>1
  <2>2. IsFiniteSet(1..end)
    BY <2>1, FS_Interval
  <2> QED BY <1>1, <2>2, FS_Subset
<1>9. P \cap (1..end) = P
  BY <1>1
<1>10. /\ \A n \in found : \E p \in P : f[p] = n
       /\ \A a, b \in P : f[a] = f[b] => a = b
  BY <1>5, <1>6
<1> HIDE DEF f, P, found, end
<1>11. Cardinality(found) = Cardinality(P)
  BY <1>7, <1>8, <1>10, SameSize
<1>12. found # {} <=> P # {}
  BY <1>5, <1>7
<1>13. Rank(P, end) = Cardinality(found)
  BY <1>9, <1>11 DEF Rank
<1> QED BY <1>12, <1>13 DEF P, end, found

\* After the last key, then, the counts are those of the records.
LEMMA TagsCounted ==
  ASSUME RInv
  PROVE  TagCountsRight
<1> SUFFICES ASSUME Running PROVE
      /\ {<<TagCounts[i].tag, TagCounts[i].count>> : i \in 1..Len(TagCounts)}
           = {<<t, Cardinality(Matching(None, t))>> : t \in {t \in Tags : Matching(None, t) # {}}}
      /\ \A i, j \in 1..Len(TagCounts) : TagCounts[i].tag = TagCounts[j].tag => i = j
  BY DEF TagCountsRight
<1> DEFINE end == Len(EntryOrder)
           size(t) == Cardinality(Matching(None, t))
           used == {t \in Tags : Matching(None, t) # {}}
<1>1. end \in Nat /\ end \in 0..end
  BY EntryPlaces
<1>2. TagCounts \in Tallies /\ Tallied(TagCounts, end)
  BY <1>1, CountsTallied DEF TagCounts
<1>3. \A p \in IndexPlaces : p <= end /\ Tag(p) \in Tags /\ p \in With(Tag(p))
  BY <1>1, EntryPlaces DEF IndexPlaces, Entry, With
<1>4. \A t \in Tags : /\ Rank(With(t), end) = size(t)
                      /\ t \in used <=> With(t) # {}
  BY EntriesCount
<1> HIDE DEF end, size, used
<1>5. ASSUME NEW j \in 1..Len(TagCounts)
      PROVE  /\ TagCounts[j].tag \in used
             /\ TagCounts[j].count = size(TagCounts[j].tag)
  <2>1. PICK p \in IndexPlaces : TagCounts[j].tag = Tag(p)
    BY <1>2 DEF Tallied
  <2>2. TagCounts[j].tag \in Tags /\ With(TagCounts[j].tag) # {}
    BY <1>3, <2>1
  <2>3. TagCounts[j].count = Rank(With(TagCounts[j].tag), end)
    BY <1>2 DEF Tallied
  <2> QED BY <1>4, <2>2, <2>3
<1>6. ASSUME NEW t \in used
      PROVE  \E j \in 1..Len(TagCounts) : TagCounts[j].tag = t
  <2>1. t \in Tags
    BY DEF used
  <2>2. PICK p \in With(t) : TRUE
    BY <1>4, <2>1
  <2>3. p \in IndexPlaces /\ Tag(p) = t /\ p <= end
    BY <1>3, <2>2 DEF With
  <2> QED BY <1>2, <2>3 DEF Tallied
<1>7. {<<TagCounts[i].tag, TagCounts[i].count>> : i \in 1..Len(TagCounts)}
        = {<<t, size(t)>> : t \in used}
  BY <1>5, <1>6
<1>8. \A i, j \in 1..Len(TagCounts) : TagCounts[i].tag = TagCounts[j].tag => i = j
  BY <1>2 DEF Tallied
<1> QED BY <1>7, <1>8 DEF size, used

-----------------------------------------------------------------------------
(* Theorems *)

\* Whatever aliases are written, cut and looped in whatever order, follow
\* finds the address exactly when a path within the depth leads to it (lib.rs,
\* follow).
THEOREM FollowFindsPaths == Spec => []FollowIsRight
<1>1. RInv => FollowIsRight
  BY FollowRight DEF RInv
<1> QED BY <1>1, RegistryInvariant, PTL

\* The canister's answer passes the verifier of tools/verify after every
\* write, migration and upgrade (lib.rs, resolve_inner).
THEOREM AnswersPass == Spec => []AnswersVerify
<1>1. RInv => AnswersVerify
  BY OwnAnswerPasses DEF AnswersVerify
<1> QED BY <1>1, RegistryInvariant, PTL

\* No answer of any length, with any records, names and witness, passes the
\* verifier and leads elsewhere than the stored aliases (tools/verify, B to D).
THEOREM AnswersSound == Spec => []EveryAnswerIsSound
<1>1. RInv => EveryAnswerIsSound
  BY ChecksSound
<1> QED BY <1>1, RegistryInvariant, PTL

\* In particular none of those a run can enumerate.
THEOREM ForgedAnswersFail == Spec => []ChecksAreSound
<1>1. RInv => ChecksAreSound
  BY ChecksSound, EnumeratedSound DEF RInv
<1> QED BY <1>1, RegistryInvariant, PTL

\* A client that pages through a search, with any substring, tag and limit,
\* sees every name that matches once and no other (directory.rs, search).
THEOREM PagesComplete == Spec => []PagesListAll
<1>1. RInv => PagesListAll
  BY PagesListed
<1> QED BY <1>1, RegistryInvariant, PTL

\* tags() tells every tag some record carries once, and how many do, after
\* every write that moved, added or dropped entries (directory.rs, tags).
THEOREM CountsComplete == Spec => []TagCountsRight
<1>1. RInv => TagCountsRight
  BY TagsCounted
<1> QED BY <1>1, RegistryInvariant, PTL
=============================================================================
