----------------------------- MODULE Directory -----------------------------
(***************************************************************************)
(* Searching the directory (canisters/names/src/directory.rs). A search is *)
(* a query, so an operator on the state of Registry. Names and tags are    *)
(* scanned in the order of their stable map's keys.                        *)
(***************************************************************************)
EXTENDS Registry, Sequences

CONSTANTS
  NameOrder,      \* all names, in key order
  EntryOrder,     \* all entries of the tag index, in key order
  Contains,       \* <<q, x>>: the name or note x has the substring q
  Substrings,     \* substrings to search for
  Limits,         \* limits to ask for
  MaxLimit,       \* MAX_LIMIT
  DefaultLimit    \* DEFAULT_LIMIT

\* Everything in S stands in this order, once.
Lists(order, S) ==
  /\ order \in [1..Len(order) -> S]
  /\ Len(order) \in Nat
  /\ \A x \in S : \E i \in 1..Len(order) : order[i] = x
  /\ \A i, j \in 1..Len(order) : order[i] = order[j] => i = j

\* The keys of the index begin with the tag, and a separator ends it.
ASSUME DirectoryAssumption ==
  /\ Lists(NameOrder, Names)
  /\ Lists(EntryOrder, Tags \X Names)
  /\ \A i, j, k \in 1..Len(EntryOrder) :
       i <= j /\ j <= k /\ EntryOrder[i][1] = EntryOrder[k][1]
         => EntryOrder[j][1] = EntryOrder[i][1]
  /\ Limits \subseteq Nat /\ DefaultLimit \in Nat
  /\ None \notin Limits /\ None \notin Tags
  /\ MaxLimit \in Nat \ {0}

-----------------------------------------------------------------------------

\* What a search looks at: by tag the names the index lists, every record
\* otherwise; get_record of a name without one is skipped.
Candidate(n, tag) == (tag # None => <<tag, n>> \in tags) /\ records[n] # None

Matches(n, q) ==
  \/ q = None
  \/ <<q, n>> \in Contains
  \/ <<q, records[n].text["note"]>> \in Contains

\* clamp(1, MAX_LIMIT).
Limit(limit) ==
  LET asked == IF limit = None THEN DefaultLimit ELSE limit IN
  IF asked < 1 THEN 1 ELSE IF asked > MaxLimit THEN MaxLimit ELSE asked

\* Mutant of Consider: the page starts one match late.
ConsiderLate(found, n, offset, limit) ==
  [total |-> found.total + 1,
   hits  |-> IF found.total > offset /\ Len(found.hits) < limit
             THEN Append(found.hits, n) ELSE found.hits]

\* The closure consider, for a name that matches.
Consider(found, n, offset, limit) ==
  [total |-> found.total + 1,
   hits  |-> IF found.total >= offset /\ Len(found.hits) < limit
             THEN Append(found.hits, n) ELSE found.hits]

\* What search has found after each name, in key order.
Found(q, tag, offset, limit) ==
  LET found[i \in 0..Len(NameOrder)] ==
        IF i = 0 THEN [total |-> 0, hits |-> <<>>]
        ELSE IF Candidate(NameOrder[i], tag) /\ Matches(NameOrder[i], q)
        THEN Consider(found[i - 1], NameOrder[i], offset, limit)
        ELSE found[i - 1]
  IN found

Search(q, tag, offset, limit) == Found(q, tag, offset, Limit(limit))[Len(NameOrder)]

\* One key of the index in tags(): runs of equal tags are counted.
Counted(counts, tag) ==
  LET last == Len(counts) IN
  IF last > 0 /\ counts[last].tag = tag
  THEN [counts EXCEPT ![last].count = @ + 1]
  ELSE Append(counts, [tag |-> tag, count |-> 1])

\* What tags() has counted after each key that may be in the index.
Counts ==
  LET counts[i \in 0..Len(EntryOrder)] ==
        IF i = 0 THEN <<>>
        ELSE IF EntryOrder[i] \in tags
        THEN Counted(counts[i - 1], EntryOrder[i][1])
        ELSE counts[i - 1]
  IN counts

TagCounts == Counts[Len(EntryOrder)]

-----------------------------------------------------------------------------

\* The records, and nothing else, decide what a search finds.
Matching(q, tag) ==
  {n \in Names : /\ records[n] # None
                 /\ tag # None => /\ records[n].text["tags"] # None
                                  /\ tag \in records[n].text["tags"]
                 /\ Matches(n, q)}

\* The k-th page of a client that asks again with the offset moved on.
Page(q, tag, limit, k) == Search(q, tag, k * Limit(limit), limit)

\* "The directory answers what exists": a client that pages through a
\* search sees every name that matches once and no other name, whatever
\* limit it asks for, and every page tells how many there are.
PagesListAll ==
  Running =>
    \A q \in Substrings \cup {None}, tag \in Tags \cup {None} :
      LET found == Matching(q, tag) IN
      \A limit \in Limits \cup {None} :
        LET pages   == {<<k, Page(q, tag, limit, k)>> : k \in 0..Cardinality(Names)}
            hits(at) == at[1][2].hits
            seen(n) == {at \in pages \X (1..MaxLimit) :
                          at[2] <= Len(hits(at)) /\ hits(at)[at[2]] = n} IN
          /\ \A page \in pages : page[2].total = Cardinality(found)
          /\ \A n \in Names : Cardinality(seen(n)) = IF n \in found THEN 1 ELSE 0

\* "Every tag in use with how many names carry it": each tag once, none that
\* no record carries, with the number of records that do.
TagCountsRight ==
  Running =>
    {<<TagCounts[i].tag, TagCounts[i].count>> : i \in 1..Len(TagCounts)}
      = {<<t, Cardinality(Matching(None, t))>> : t \in {t \in Tags : Matching(None, t) # {}}}
    /\ \A i, j \in 1..Len(TagCounts) : TagCounts[i].tag = TagCounts[j].tag => i = j
=============================================================================
