\* How an auction ends, whatever configs were set meanwhile: it is closed some
\* time, and if its name is held again by a longer grace period, nobody wins.
CONSTANTS
  None = None
  alice = alice  bob = bob  carol = carol
  name1 = name1  target1 <- Scoped1
  ledgerA = ledgerA  ledgerB = ledgerB
  call1 = call1  call2 = call2
  Canister = Canister
  Principals = {alice, bob}
  Controllers = {alice}
  handle1 = handle1  label1 = label1  Handles = {handle1}  Labels = {label1}
  FlatTargets <- ScopedNames
  Ledgers = {ledgerA}
  FlatNames = {name1}
  CallIds = {call1}
  Wallet = 4
  Fees = {0}
  Prices = {1, 2}
  Amounts = {4}
  Payouts = {}
  MaxRate = 2
  MaxTime = 3
  MaxUnreconciled = 0
  FundSelfAtOnce = 1
  InitialConfig <- BaseConfig
  Configs <- Graces
  InitialTerms <- BaseTerms
  AuctionTerms <- HigherReserve
  Opening <- AliceSpent
SPECIFICATION FairSpec
PROPERTIES  NoUninvitedLoss FlatNamesAreRegistrys EndedAuctionsClose
CHECK_DEADLOCK FALSE
