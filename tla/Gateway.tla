------------------------------ MODULE Gateway ------------------------------
(***************************************************************************)
(* The HTTP gateway: which path leads where, how a query string becomes a  *)
(* search, and the custom domains a controller lists for the boundary      *)
(* nodes (gateway.rs; domains and set_domains of lib.rs). Left out: JSON,  *)
(* HTML and headers, and the handover page, which is Handover's subject.   *)
(***************************************************************************)
EXTENDS Keys, Resolve

LOCAL Ext == INSTANCE SequencesExt

CONSTANT OfferedDomains   \* lists a controller passes to set_domains

VARIABLE domains          \* META "domains"

gatewayVars == <<vars, domains>>

ASSUME DomainsAssumption ==
  \A ds \in OfferedDomains : \A i \in 1..Len(ds) : ds[i] \in STRING

-----------------------------------------------------------------------------
(* Paths *)

\* Mutant of PathOf: a fragment is part of the path.
PathOfWithFragment(url) == Until(url, {"?"})

PathOf(url) == Until(url, {"?", "#"})

TrimStart(s) ==
  LET kept == {i \in 1..Len(s) : At(s, i) # "/"} IN
  IF kept = {} THEN "" ELSE Drop(s, Ext!Min(kept) - 1)

TrimEnd(s) ==
  LET kept == {i \in 1..Len(s) : At(s, i) # "/"} IN
  IF kept = {} THEN "" ELSE SubSeq(s, 1, Ext!Max(kept))

\* The routes of handle() that stand before the names.
FixedRoutes ==
  {"/", "/api/search", "/api/search/", "/api/tags", "/api/tags/",
   "/api/expiring", "/api/expiring/", "/.well-known/ic-domains"}

ResolvePrefix == "/api/resolve/"

\* Which part of handle() answers, and for which name.
Route(url) ==
  LET path == PathOf(url) IN
  CASE path \in FixedRoutes -> [to |-> path, name |-> None]
    [] StartsWith(path, ResolvePrefix) ->
         [to |-> ResolvePrefix, name |-> TrimEnd(Drop(path, Len(ResolvePrefix)))]
    [] OTHER -> [to |-> "name", name |-> TrimEnd(TrimStart(path))]

\* follow and resolve take text, and find no record under any other.
FollowText(s) ==
  LET named == {n \in Names : KeyOf[n] = s} IN
  IF named = {} THEN Failed ELSE Follow(CHOOSE n \in named : TRUE)

-----------------------------------------------------------------------------
(* Query strings *)

HexDigits == "0123456789abcdef"

IsHex(c) == c \in CharsOf(HexDigits) \cup CharsOf("ABCDEF")

HexValue(c) ==
  IF c \in CharsOf(HexDigits) THEN Position(c, HexDigits) - 1 ELSE Position(c, "ABCDEF") + 9

\* Mutant of IsEscape: an escape that ends the text is left as it is.
IsEscapeInside(s, i) ==
  At(s, i) = "%" /\ i + 2 < Len(s) /\ IsHex(At(s, i + 1)) /\ IsHex(At(s, i + 2))

IsEscape(s, i) ==
  At(s, i) = "%" /\ i + 2 <= Len(s) /\ IsHex(At(s, i + 1)) /\ IsHex(At(s, i + 2))

\* percent_decode; next is the first character not yet read.
PercentDecode(s) ==
  LET Read(done, i) ==
        CASE i < done.next  -> done
          [] IsEscape(s, i) ->
               LET byte == 16 * HexValue(At(s, i + 1)) + HexValue(At(s, i + 2)) IN
               [out  |-> done.out \o CHOOSE c \in DOMAIN Byte : Byte[c] = byte,
                next |-> i + 3]
          [] At(s, i) = "+" -> [out |-> done.out \o " ", next |-> i + 1]
          [] OTHER          -> [out |-> done.out \o At(s, i), next |-> i + 1] IN
  Ext!FoldLeft(Read, [out |-> "", next |-> 1], [i \in 1..Len(s) |-> i]).out

\* query_of: split first, then decode.
QueryOf(url) ==
  LET query == Drop(Until(url, {"#"}), Len(Until(url, {"?"})) + 1)
      parts == SelectSeq(Split(query, "&"), LAMBDA p : p # "")
      key(p) == Until(p, {"="}) IN
  [i \in 1..Len(parts) |->
     <<PercentDecode(key(parts[i])), PercentDecode(Drop(parts[i], Len(key(parts[i])) + 1))>>]

\* param: the first occurrence wins. An empty text searches like none.
Param(params, key) ==
  LET at == {i \in 1..Len(params) : params[i][1] = key} IN
  IF at = {} \/ params[Ext!Min(at)][2] = "" THEN None ELSE params[Ext!Min(at)][2]

\* parse: a decimal number, with or without a plus sign, or nothing.
Number(s) ==
  IF s = None THEN None
  ELSE LET digits == IF At(s, 1) = "+" THEN Drop(s, 1) ELSE s IN
       IF digits = "" \/ ~(CharsOf(digits) \subseteq Digits) THEN None
       ELSE Ext!FoldLeft(LAMBDA n, c : 10 * n + Byte[c] - Byte["0"], 0,
                         [i \in 1..Len(digits) |-> At(digits, i)])

\* What api_search reads of a request, and what it answers, up to the JSON.
Request(url) ==
  LET params == QueryOf(url)  offset == Number(Param(params, "offset")) IN
  [q |-> Param(params, "q"), tag |-> Param(params, "tag"),
   offset |-> IF offset = None THEN 0 ELSE offset, limit |-> Number(Param(params, "limit"))]

ApiSearch(r) == Search(r.q, r.tag, r.offset, r.limit)

-----------------------------------------------------------------------------
(* Domains *)

\* domains_inner, of what META holds.
Domains(text) == IF text = None THEN <<>> ELSE LinesOf(text)

\* The body of /.well-known/ic-domains.
DomainsFile(text) ==
  LET body == Join(Domains(text), "\n") IN body \o IF body = "" THEN "" ELSE "\n"

HostnameLists == {ds \in OfferedDomains : \A i \in 1..Len(ds) : Hostname(ds[i])}

SetDomains(p, ds) ==
  /\ Running /\ p \in Controllers
  /\ ds \in HostnameLists
  /\ domains' = Join(ds, "\n")
  /\ UNCHANGED vars

GatewayInit == Init /\ domains = None

GatewayNext ==
  \/ Next /\ UNCHANGED domains
  \/ \E p \in Controllers, ds \in OfferedDomains : SetDomains(p, ds)

GatewaySpec == GatewayInit /\ [][GatewayNext]_gatewayVars

-----------------------------------------------------------------------------

\* What may follow a name in a URL without changing what it names.
Tails == {"", "/", "?q=a/b", "#top", "/?to=#top"}

\* Names the fixed routes hide: handles are not checked against them.
Shadowed(n, tail) ==
  /\ n \in ScopedNames /\ HandleOf(n) = "api"
  /\ \/ n[2] \in {"search", "tags", "expiring"}
     \/ n[2] = "resolve" /\ StartsWith(tail, "/")

\* Every name in every spelling of its URL, as a page and as an API call.
Visits ==
  {[name |-> n, tail |-> tail,
    page |-> Route("/" \o KeyOf[n] \o tail), api |-> Route(ResolvePrefix \o KeyOf[n] \o tail)] :
     n \in Names, tail \in Tails}

\* A visitor is sent where the certified answer says: /api/resolve/<name>
\* and /<name> lead every name to one address or none, however the path ends.
\* The fixed routes and the names share the paths, and hide no name but
\* those of the handle api that are called like one of them (api/resolve
\* only where a slash follows).
PathsLeadToNames ==
  Running =>
    \A v \in Visits :
      /\ v.api.to = ResolvePrefix /\ FollowText(v.api.name) = Follow(v.name)
      /\ \/ v.page.to = "name" /\ FollowText(v.page.name) = Follow(v.name)
         \/ Shadowed(v.name, v.tail)

\* How a client writes text into a URL: what is not unreserved is escaped.
Escaped(s) ==
  Ext!FoldLeft(LAMBDA out, c :
      out \o IF c \in Lower \cup Digits \cup {"-"} THEN c
             ELSE "%" \o At(HexDigits, 1 + (Byte[c] \div 16)) \o At(HexDigits, 1 + (Byte[c] % 16)),
    "", [i \in 1..Len(s) |-> At(s, i)])

SearchUrl(q, tag, limit) ==
  "/api/search?limit=" \o limit \o (IF tag = None THEN "" ELSE "&tag=" \o Escaped(tag))
  \o (IF q = None THEN "" ELSE "&q=" \o Escaped(q)) \o "#hits"

\* What clients search for, with the request the gateway reads.
Searches ==
  {[q |-> q, tag |-> tag, limit |-> limit, request |-> Request(SearchUrl(q, tag, At(HexDigits, 1 + limit)))] :
     q \in Substrings \cup {None}, tag \in Tags \cup {None}, limit \in 0..1}

\* A search over HTTP answers what the search of the directory does,
\* whatever reserved characters are searched for.
SearchArrives ==
  Running =>
    \A s \in Searches : ApiSearch(s.request) = Search(s.q, s.tag, 0, s.limit)

\* "One hostname per line" (gateway.rs): the boundary nodes read exactly
\* the list the controller set, from now until the next one is set.
DomainsAreListed ==
  [][domains' # domains =>
       \A ds \in OfferedDomains :
         (\E p \in Controllers : SetDomains(p, ds)) =>
           \E text \in {domains'} : LinesOf(DomainsFile(text)) = ds]_gatewayVars
=============================================================================
