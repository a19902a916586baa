\* Queries over three names with tags and a note, which may alias each other in
\* chains and loops longer than MaxAliasDepth. A handle is called as a route of
\* the gateway, a flat name begins like it.
CONSTANTS
  None = None
  alice = alice  flat1 = flat1  canister1 = canister1
  OfferedHandles = {"api", "API", "a/i"}
  OfferedLabels = {"tags", "resolve", "-tags", ""}
  OfferedTagLists = {"db", "db,ru", "db,", "db,db"}
  OfferedKeys = {"note", "tags", "note=x"}
  OfferedValues <- ValueChoices
  Principals = {alice}
  Controllers = {alice}
  Handles <- HandleChoices
  Labels <- LabelChoices
  FlatNames = {flat1}
  Canisters = {canister1}
  Tags = {"db", "ru"}
  TagLists <- TagChoices
  Notes = {"x=y"}
  Modules = {}
  MaxText = 2
  MaxAliasDepth = 2
  Stored <- FromM0
  Spelling <- SpellingOf
  NameOrder <- InKeyOrder
  EntryOrder <- EntriesInOrder
  Contains <- SubstringMatches
  Substrings = {"api/", "=y"}
  Limits = {0, 3}
  MaxLimit = 2
  DefaultLimit = 1
  OfferedDomains <- DomainLists
  MaxSegment = 7
  MaxTextKey = 8
  MaxTextValue = 20
  MaxTags = 2
  MaxHostname = 9
SPECIFICATION GatewaySpec
INVARIANTS FollowIsRight AnswersVerify ChecksAreSound PagesListAll TagCountsRight ScansFindExactly LeafFixesRecord PathsLeadToNames SearchArrives
PROPERTIES DomainsAreListed
