-------------------------------- MODULE Keys --------------------------------
(***************************************************************************)
(* The names and records of Registry as text: the keys of RECORDS and of   *)
(* the tag index, which names_under and names_with_tag scan by prefix, and *)
(* the bytes that are certified (store.rs, directory.rs, and the copy of   *)
(* canonical in tools/verify). The constants of Registry are strings here, *)
(* except flat names, principals and canisters, which Spelling spells.     *)
(* Left out of the bytes: time stamps and the lines of flat names.         *)
(***************************************************************************)
EXTENDS Directory, Grammar

LOCAL Ext == INSTANCE SequencesExt

CONSTANTS
  Spelling,      \* flat names, principals, canisters -> text
  OfferedKeys,   \* what callers pass as the key of a text record
  OfferedValues  \* and as its value

ASSUME SpellingAssumption ==
  /\ Handles \cup Labels \cup Tags \cup Notes \cup Modules \subseteq STRING
  /\ \A h \in Handles, l \in Labels : ScopedName(h \o "/" \o l)
  /\ \A t \in Tags : Segment(t)
  /\ \A n \in FlatNames : FlatName(Spelling[n])
  /\ \A k \in Keys : TextKey(k)

-----------------------------------------------------------------------------
(* Keys and scans *)

\* A name as the endpoints take it.
KeyOf == [n \in Names |-> IF n \in ScopedNames THEN n[1] \o "/" \o n[2] ELSE Spelling[n]]

\* All names and index entries in the order of the maps, and which names and
\* notes a search for a substring finds: what Directory takes as constants.
AllKeys == InOrder({KeyOf[n] : n \in Names})

NamesSorted ==
  Ext!FoldLeft(LAMBDA names, key : Append(names, CHOOSE n \in Names : KeyOf[n] = key),
               <<>>, AllKeys)

TagKey(tag, name) == tag \o NUL \o name

AllTagKeys == InOrder({TagKey(e[1], KeyOf[e[2]]) : e \in Tags \X Names})

EntriesSorted ==
  Ext!FoldLeft(LAMBDA entries, key :
      Append(entries, CHOOSE e \in Tags \X Names : TagKey(e[1], KeyOf[e[2]]) = key),
    <<>>, AllTagKeys)

Occurs(q, s) == \E i \in 0..Len(s) : StartsWith(Drop(s, i), q)

Occurrences ==
  {<<q, n>> \in Substrings \X Names : Occurs(q, KeyOf[n])}
  \cup {<<q, v>> \in Substrings \X Notes : Occurs(q, v)}

\* RECORDS and TAGS, iterated over.
RecordKeys ==
  LET stored == {KeyOf[n] : n \in {n \in Names : records[n] # None}} IN
  SelectSeq(AllKeys, LAMBDA k : k \in stored)

TagKeys ==
  LET stored == {TagKey(e[1], KeyOf[e[2]]) : e \in tags} IN
  SelectSeq(AllTagKeys, LAMBDA k : k \in stored)

\* range(prefix..) and take_while(starts_with).
Scan(keys, prefix) ==
  LET from == {i \in 1..Len(keys) : ~Before(keys[i], prefix)}
      run  == {i \in from : \A j \in from : j <= i => StartsWith(keys[j], prefix)}
      skip == Len(keys) - Cardinality(from) IN
  SubSeq(keys, skip + 1, skip + Cardinality(run))

\* Mutant of HandlePrefix: nothing ends the handle.
HandlePrefixOpen(h) == h

HandlePrefix(h) == h \o "/"

NamesUnder(h) == Scan(RecordKeys, HandlePrefix(h))

\* names_with_tag on the keys themselves.
NamesTagged(tag) ==
  LET found == Scan(TagKeys, TagKey(tag, "")) IN
  [i \in 1..Len(found) |-> Drop(found[i], Len(TagKey(tag, "")))]

-----------------------------------------------------------------------------
(* The certified bytes *)

TargetText(t) == IF t \in Canisters THEN "address:" \o Spelling[t] ELSE "alias:" \o KeyOf[t]

ValueText(k, v) ==
  CASE k = "tags"     -> Join(InOrder(v), ",")
    [] k = "deployer" -> Spelling[v]
    [] OTHER          -> v

\* The text records as they are stored: pairs, sorted by key.
TextOf(r) ==
  LET keys == InOrder({k \in Keys : r.text[k] # None}) IN
  [i \in 1..Len(keys) |-> <<keys[i], ValueText(keys[i], r.text[keys[i]])>>]

\* canonical, here and in the verifier.
CanonicalText(n, owner, target, text) ==
  "name=" \o KeyOf[n] \o "\n"
  \o "owner=" \o Spelling[owner] \o "\n"
  \o "target=" \o TargetText(target) \o "\n"
  \o Join([i \in 1..Len(text) |-> "text." \o text[i][1] \o "=" \o text[i][2] \o "\n"], "")

-----------------------------------------------------------------------------

\* A prefix scan of text keys finds the names it is meant to find and no
\* neighbour of theirs: list_names the names of one handle, a tag the names
\* that carry it, and the index read key by key the tags in their order.
ScansFindExactly ==
  Running =>
    /\ \A h \in Handles :
         LET own == SelectSeq(NameOrder, LAMBDA n : n \in ScopedNames /\ records[n] # None
                                                    /\ HandleOf(n) = h) IN
           NamesUnder(h) = [i \in 1..Len(own) |-> KeyOf[own[i]]]
    /\ \A tag \in Tags :
         LET tagged == SelectSeq(NameOrder, LAMBDA n : <<tag, n>> \in tags) IN
           NamesTagged(tag) = [i \in 1..Len(tagged) |-> KeyOf[tagged[i]]]
    /\ LET entries == SelectSeq(EntryOrder, LAMBDA e : e \in tags) IN
         [i \in 1..Len(TagKeys) |-> Split(TagKeys[i], NUL)[1]]
           = [i \in 1..Len(entries) |-> entries[i][1]]

\* What the checks of set_text let pass.
Accepted == {<<k, v>> \in OfferedKeys \X OfferedValues :
               TextKey(k) /\ TextValue(v) /\ (k = "tags" => TagList(v))}

\* The text records, by key, that writes of these pairs leave.
Sorted(pairs) ==
  Ext!FoldLeft(LAMBDA text, key : Append(text, CHOOSE e \in pairs : e[1] = key),
               <<>>, InOrder({e[1] : e \in pairs}))

\* Records writes could leave, as they are stored.
Writable ==
  {[name |-> n, owner |-> p, target |-> t, text |-> Sorted(pairs)] :
     n \in Names, p \in Principals, t \in Targets,
     pairs \in {s \in SUBSET Accepted : \A a, b \in s : a[1] = b[1] => a = b}}

CertifiedText ==
  {<<CanonicalText(w.name, w.owner, w.target, w.text), w>> : w \in Writable}

\* "A newline in a value would let one record forge the shape of another"
\* (names.rs): the certified bytes of a record are those of no other record
\* under any name that the checks on keys and values let anyone write.
LeafFixesRecord ==
  Running =>
    \A n \in Names : records[n] # None =>
      LET r == records[n]
          bytes == CanonicalText(n, r.owner, r.target, TextOf(r)) IN
      \A c \in CertifiedText : c[1] = bytes =>
        c[2] = [name |-> n, owner |-> r.owner, target |-> r.target, text |-> TextOf(r)]
=============================================================================
