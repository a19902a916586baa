------------------------------ MODULE Grammar ------------------------------
(***************************************************************************)
(* Text as the canister checks, joins, splits and orders it: names.rs, and *)
(* what Rust's str does for it. Text is ASCII, so a byte is a character.   *)
(* TLA+ cannot spell the NUL byte: a form feed stands for it.              *)
(***************************************************************************)
EXTENDS Integers, Sequences, FiniteSets, TLC

LOCAL Ext == INSTANCE SequencesExt

CONSTANTS
  MaxSegment,     \* MAX_SEGMENT
  MaxTextKey,     \* MAX_TEXT_KEY
  MaxTextValue,   \* MAX_TEXT_VALUE
  MaxTags,        \* MAX_TAGS
  MaxHostname     \* the 253 bytes of check_hostname

ASSUME GrammarAssumption ==
  {MaxSegment, MaxTextKey, MaxTextValue, MaxTags, MaxHostname} \subseteq Nat

-----------------------------------------------------------------------------
(* Strings *)

\* Printable ASCII, without the back quote, which TLA+ cannot spell either.
From32 == " !\"#$%&'()*+,-./0123456789:;<=>?@ABCDEFGHIJKLMNOPQRSTUVWXYZ[\\]^_"
From97 == "abcdefghijklmnopqrstuvwxyz{|}~"

NUL == "\f"

At(s, i) == SubSeq(s, i, i)

CharsOf(s) == {At(s, i) : i \in 1..Len(s)}

Control == {NUL, "\t", "\n", "\r"}

Position(c, s) == CHOOSE i \in 1..Len(s) : At(s, i) = c

\* The byte of a character.
Byte ==
  (NUL :> 0) @@ ("\t" :> 9) @@ ("\n" :> 10) @@ ("\r" :> 13)
  @@ Ext!FoldSet(LAMBDA c, f : f @@ (c :> 31 + Position(c, From32)), <<>>, CharsOf(From32))
  @@ Ext!FoldSet(LAMBDA c, f : f @@ (c :> 96 + Position(c, From97)), <<>>, CharsOf(From97))

\* String order is byte order: that of every stable map.
Before(s, t) ==
  LET differ == {i \in 1..Len(s) : i <= Len(t) /\ At(s, i) # At(t, i)} IN
  IF differ = {} THEN Len(s) < Len(t)
  ELSE LET i == Ext!Min(differ) IN Byte[At(s, i)] < Byte[At(t, i)]

StartsWith(s, prefix) == Len(s) >= Len(prefix) /\ SubSeq(s, 1, Len(prefix)) = prefix

Drop(s, n) == SubSeq(s, n + 1, Len(s))

\* What comes before the first of some characters.
Until(s, chars) ==
  LET cuts == {i \in 1..Len(s) : At(s, i) \in chars} IN
  IF cuts = {} THEN s ELSE SubSeq(s, 1, Ext!Min(cuts) - 1)

\* split: the parts between the separators, empty ones included.
Split(s, separator) ==
  Ext!FoldLeft(LAMBDA parts, c : IF c = separator THEN Append(parts, "")
                                 ELSE [parts EXCEPT ![Len(parts)] = @ \o c],
               <<"">>, [i \in 1..Len(s) |-> At(s, i)])

\* What a map with these keys iterates over.
InOrder(S) ==
  Ext!FoldSet(LAMBDA s, seq : SelectSeq(seq, LAMBDA t : Before(t, s)) \o <<s>>
                              \o SelectSeq(seq, LAMBDA t : Before(s, t)),
              <<>>, S)

Join(parts, separator) ==
  Ext!FoldLeft(LAMBDA s, i : (IF i = 1 THEN "" ELSE s \o separator) \o parts[i],
               "", [i \in 1..Len(parts) |-> i])

\* lines: a last line may or may not end in a newline.
LinesOf(s) ==
  LET parts == Split(s, "\n") IN
  IF parts[Len(parts)] = "" THEN SubSeq(parts, 1, Len(parts) - 1) ELSE parts

-----------------------------------------------------------------------------
(* Checks *)

Lower == CharsOf("abcdefghijklmnopqrstuvwxyz")
Digits == CharsOf("0123456789")

\* check_segment.
Segment(s) ==
  /\ Len(s) \in 1..MaxSegment
  /\ CharsOf(s) \subseteq Lower \cup Digits \cup {"-"}
  /\ At(s, 1) # "-" /\ At(s, Len(s)) # "-"

\* check_flat: a route of the gateway is no flat name.
FlatName(s) == Segment(s) /\ s \notin {"api"}

\* split: exactly one slash, a handle before and a label after it.
ScopedName(s) ==
  LET parts == Split(s, "/") IN Len(parts) = 2 /\ Segment(parts[1]) /\ Segment(parts[2])

\* check_text_key.
TextKey(s) ==
  Len(s) \in 1..MaxTextKey /\ CharsOf(s) \subseteq Lower \cup Digits \cup {"_", ".", "-"}

\* Mutant of TextValue: control characters are admitted.
TextValueOfAny(s) == Len(s) <= MaxTextValue

\* check_text_value: the certified bytes are lines, a value is part of one.
TextValue(s) == Len(s) <= MaxTextValue /\ CharsOf(s) \cap Control = {}

\* check_tags.
TagList(s) ==
  LET parts == Split(s, ",") IN
  /\ Len(parts) <= MaxTags
  /\ \A i \in 1..Len(parts) : Segment(parts[i])
  /\ \A i, j \in 1..Len(parts) : parts[i] = parts[j] => i = j

\* Mutant of Hostname: what is between the dots is not looked at.
HostnameOfAny(s) == Len(s) <= MaxHostname /\ Len(Split(s, ".")) >= 2

\* check_hostname.
Hostname(s) ==
  LET labels == Split(s, ".") IN
  /\ Len(s) <= MaxHostname
  /\ Len(labels) >= 2
  /\ \A i \in 1..Len(labels) : Segment(labels[i])
=============================================================================
