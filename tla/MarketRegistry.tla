--------------------------- MODULE MarketRegistry ---------------------------
(***************************************************************************)
(* What Registry assumes of the market. There a flat name changes hands,   *)
(* lapses or revives at any moment, and else only its holder writes it;    *)
(* Market says when it does. Here Market's records, auctions and clock are *)
(* seen as the flat half of a registry without scoped names.               *)
(***************************************************************************)
EXTENDS Market

CONSTANTS Handles, Labels

ScopedNames == Handles \X Labels

Keys == {"tags", "note", "hash", "deployer"}

Untold == [k \in Keys |-> None]

\* check_flat_target: a flat name aliases a scoped one, and is none itself.
ASSUME AliasAssumption ==
  /\ FlatTargets \subseteq ScopedNames
  /\ FlatNames \cap ScopedNames = {}
  /\ None \notin [owner : Principals, target : FlatTargets, text : {Untold}]

\* A record as the registry keeps it: Market leaves text records out.
Seen(r) == [owner |-> r.owner, target |-> r.target, text |-> Untold]

\* Its certified lines.
Leaf(r) == {<<"owner", r.owner>>, <<"target", r.target>>}

AllNames == ScopedNames \cup FlatNames

IsRecorded(n) == n \in FlatNames /\ records[n] # None

SeenRecords == [n \in AllNames |-> IF IsRecorded(n) THEN Seen(records[n]) ELSE None]

SeenTree == [n \in AllNames |-> IF IsRecorded(n) THEN Leaf(records[n]) ELSE None]

SeenLapsed == {n \in FlatNames : records[n] # None /\ ~Held(cfg, records[n])}

Reg == INSTANCE Registry WITH
         Canisters <- {}, Tags <- {}, TagLists <- {},
         Notes <- {}, Modules <- {}, MaxText <- 0, Stored <- {},
         schema <- 4, market <- "open",
         handles <- [h \in Handles |-> None],
         deployers <- {},
         tags <- {},
         records <- SeenRecords,
         tree <- SeenTree,
         lapsed <- SeenLapsed

-----------------------------------------------------------------------------

\* Whatever payments, auctions, settlements and configs do, a flat name is
\* written only as Registry allows: by its holder while the name is held, by
\* a change of hands, or not at all when its time runs out or a config gives
\* it back. "A lapsed record is held by no one" (auction.rs, holder): its
\* last holder may neither repoint nor delete it.
FlatNamesAreRegistrys == [][Reg!Next]_(Reg!vars)
=============================================================================
