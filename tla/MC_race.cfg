\* Two payments at a time for one held name: every interleaving of two buys,
\* top-ups, bids and reassessments between check, payment and reply, until the
\* name is free and in auction.
CONSTANTS
  None = None
  alice = alice  bob = bob  carol = carol
  name1 = name1  target1 <- Scoped1
  ledgerA = ledgerA  ledgerB = ledgerB
  call1 = call1  call2 = call2
  Canister = Canister
  Principals = {alice, bob}
  Controllers = {}
  handle1 = handle1  label1 = label1  Handles = {handle1}  Labels = {label1}
  FlatTargets <- ScopedNames
  Ledgers = {ledgerA}
  FlatNames = {name1}
  CallIds = {call1, call2}
  Wallet = 2
  Fees = {0}
  Prices = {1, 2}
  Amounts = {1}
  Payouts = {}
  MaxRate = 2
  MaxTime = 2
  MaxUnreconciled = 0
  FundSelfAtOnce = 1
  InitialConfig <- BaseConfig
  Configs = {}
  InitialTerms <- BaseTerms
  AuctionTerms = {}
  Opening <- AliceHolds
SYMMETRY CallSymmetry
SPECIFICATION Spec
INVARIANTS BooksBalance FreeWhileAuctioned
PROPERTIES HolderIsCompensated NoUninvitedLoss NeverOnCredit FlatNamesAreRegistrys
CHECK_DEADLOCK FALSE
