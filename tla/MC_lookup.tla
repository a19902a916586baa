----------------------------- MODULE MC_lookup -----------------------------
(***************************************************************************)
(* Values for the constants of Gateway. Handles, labels, tags and values   *)
(* are what the checks let pass of what is offered.                        *)
(***************************************************************************)
EXTENDS Gateway, TLC

CONSTANTS alice, flat1, canister1, OfferedHandles, OfferedLabels, OfferedTagLists

SpellingOf == (flat1 :> "apis") @@ (alice :> "w7x7r-cok77-xa") @@ (canister1 :> "aaaaa-aa")

HandleChoices == {s \in OfferedHandles : Segment(s)}
LabelChoices == {s \in OfferedLabels : Segment(s)}

TagChoices ==
  LET lists == {s \in OfferedTagLists : TagList(s)}
      tagsOf(s) == {Split(s, ",")[i] : i \in 1..Len(Split(s, ","))} IN
  {tagsOf(s) : s \in lists}

\* The second would end the line it is written in.
ValueChoices == {"x=y", "x=y\ntext.tags=db", "y", "db", "db,ru"}

InKeyOrder == NamesSorted
EntriesInOrder == EntriesSorted
SubstringMatches == Occurrences

DomainLists == {<<"a.io", "b.io">>, <<"a.io\nb.io">>, <<"localhost">>}

\* An M0 canister: a record with tags and no index.
M0 ==
  [schema |-> 1, market |-> "unset",
   handles |-> [h \in Handles |-> [owner |-> alice, deployer |-> None]],
   deployers |-> {},
   records |-> [n \in Names |->
                  IF n = <<"api", "tags">>
                  THEN [NewRecord(alice, canister1) EXCEPT !.text["tags"] = Tags]
                  ELSE None]]
FromM0 == {M0}
=============================================================================
