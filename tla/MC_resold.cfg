\* A name is sold twice within the window.
CONSTANTS
  None = None
  alice = alice  bob = bob  carol = carol
  name1 = name1  target1 = target1  target2 = target2
  ledgerA = ledgerA  ledgerB = ledgerB
  call1 = call1  call2 = call2
  Canister = Canister
  Principals = {alice, bob}
  Controllers = {}
  FlatTargets = {target1, target2}
  Ledgers = {ledgerA}
  FlatNames = {name1}
  CallIds = {call1}
  Wallet = 2
  Fees = {0}
  Prices = {1}
  Amounts = {1}
  Payouts = {}
  MaxRate = 2
  MaxTime = 2
  MaxUnreconciled = 0
  FundSelfAtOnce = 1
  InitialConfig <- BaseConfig
  Configs = {}
  InitialTerms <- BaseTerms
  AuctionTerms = {}
  Opening <- AliceHolds
  WarnNs = 2
SPECIFICATION HandoverSpec
INVARIANTS ForcedSaleVisible
CHECK_DEADLOCK FALSE
