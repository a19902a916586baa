------------------------------ MODULE Resolve ------------------------------
(***************************************************************************)
(* Resolving a name: follow() of canisters/names/src/lib.rs, the witness   *)
(* of certify.rs, and checks C and D of tools/verify/src/main.rs. A query  *)
(* runs on one state, so each is an operator on the state of Registry.     *)
(***************************************************************************)
EXTENDS Registry, Sequences

CONSTANT MaxAliasDepth   \* MAX_ALIAS_DEPTH

\* A target is an address or an alias, and it can be told which. Bytes are
\* something.
ASSUME ResolveAssumption ==
  /\ MaxAliasDepth \in Nat
  /\ Canisters \cap Names = {}
  /\ None \notin Names
  /\ \A r \in Record : Canonical(r) # None

Failed == [canister |-> None, chain |-> <<>>]

\* Mutant of TooDeep: one alias more.
TooDeepByOne(chain) == Len(chain) > MaxAliasDepth

TooDeep(chain) == Len(chain) >= MaxAliasDepth

\* The loop returns an error: the next name is none to go on with.
Stuck(at) ==
  \/ TooDeep(at.chain)
  \/ \E i \in 1..Len(at.chain) : at.chain[i] = at.next
  \/ records[at.next] = None
  \/ at.next \in lapsed

\* One pass of the loop of follow: chain holds the names visited, next is
\* the name to visit, the canister found, or None after an error.
Pass(at) ==
  IF at.next \notin Names THEN at
  ELSE IF Stuck(at) THEN [chain |-> at.chain, next |-> None]
  ELSE [chain |-> Append(at.chain, at.next), next |-> records[at.next].target]

\* The loop makes no more: every pass but the last adds a name to the chain.
Passes == MaxAliasDepth + 1

\* Where the loop stands after each pass.
Walk(n) ==
  LET at[k \in 0..Passes] ==
        IF k = 0 THEN [chain |-> <<>>, next |-> n] ELSE Pass(at[k - 1])
  IN at

Follow(n) ==
  LET end == Walk(n)[Passes] IN
  IF end.next \in Canisters THEN [canister |-> end.next, chain |-> end.chain] ELSE Failed

\* The leaves a witness for the names of a chain reveals.
Witness(chain) == [n \in {chain[i] : i \in 1..Len(chain)} |-> tree[n]]

\* resolve_inner.
Answer(n) ==
  LET f == Follow(n) IN
  [canister |-> f.canister,
   names    |-> f.chain,
   chain    |-> [i \in 1..Len(f.chain) |-> records[f.chain[i]]],
   witness  |-> Witness(f.chain)]

\* Check B: certified_data is the digest of the witness. Two trees have one
\* digest only if one is the other with parts pruned, so what a witness
\* shows is in the certified tree. Check A is the subnet's signature.
IsPruned(witness) == \A n \in DOMAIN witness : witness[n] = tree[n]

\* Mutant of LeafFound: the record need not be the one certified.
LeafShown(witness, name, r) == name \in DOMAIN witness /\ witness[name] # None

\* Check C for one record: its name leads to a leaf with its bytes.
LeafFound(witness, name, r) == name \in DOMAIN witness /\ witness[name] = Canonical(r)

\* The verifier asked for n and got a: checks B, C and D.
Verifies(n, a) ==
  LET last == Len(a.chain) IN
  /\ last > 0
  /\ a.names[1] = n
  /\ \A i \in 1..last - 1 : a.chain[i].target = a.names[i + 1]
  /\ a.chain[last].target = a.canister
  /\ IsPruned(a.witness)
  /\ \A i \in 1..last : LeafFound(a.witness, a.names[i], a.chain[i])

-----------------------------------------------------------------------------

\* The definition follow is checked against: a path of aliases over names
\* that are recorded and not lapsed, no longer than MaxAliasDepth.
LeadsTo(n, canister) ==
  \E len \in 1..MaxAliasDepth : \E path \in [1..len -> Names] :
    /\ path[1] = n
    /\ \A i \in 1..len : records[path[i]] # None /\ path[i] \notin lapsed
    /\ \A i \in 1..len - 1 : records[path[i]].target = path[i + 1]
    /\ records[path[len]].target = canister

\* Aliases may form chains and loops in any order of writes: follow finds
\* the address exactly when a path within the depth leads to it, and never
\* goes round a loop.
FollowIsRight ==
  Running => \A n \in Names, c \in Canisters : Follow(n).canister = c <=> LeadsTo(n, c)

\* The canister's answer passes its own verifier, at any moment.
AnswersVerify ==
  Running => \A n \in Names : Follow(n).canister # None => Verifies(n, Answer(n))

\* Records some name has, had they any target: what an answer may show.
Claimed ==
  LET stored == {records[n] : n \in {n \in Names : records[n] # None}} IN
  {[r EXCEPT !.target = t] : r \in stored, t \in Targets}

\* A witness for these names: their true leaves, or the bytes of one record.
Shown(names, chain, forged) ==
  [n \in {names[i] : i \in DOMAIN names} |->
     IF forged = 0 THEN tree[n] ELSE Canonical(chain[forged])]

\* The aliases in stable memory lead along names to canister, lapsed or not.
StoredPath(names, canister) ==
  LET last == Len(names) IN
  /\ \A i \in 1..last : records[names[i]] # None
  /\ \A i \in 1..last - 1 : records[names[i]].target = names[i + 1]
  /\ records[names[last]].target = canister

\* "Verifies against the root without trusting the replica that answered"
\* (certify.rs): whatever answer comes back, of any records under any names,
\* one that passes the checks leads where the stored aliases lead. It says
\* nothing of lapse: a leaf is certified until its record is written again.
ChecksAreSound ==
  Running =>
    \A len \in 1..MaxAliasDepth : \A names \in [1..len -> Names], chain \in [1..len -> Claimed] :
      \A c \in Canisters, forged \in 0..len :
        Verifies(names[1], [canister |-> c, names |-> names, chain |-> chain,
                            witness |-> Shown(names, chain, forged)])
          => StoredPath(names, c)
=============================================================================
