\* A name with two possible targets is sold, lapses and is auctioned, and its
\* holders point it elsewhere.
CONSTANTS
  None = None
  alice = alice  bob = bob  carol = carol
  name1 = name1  target1 = target1  target2 = target2
  ledgerA = ledgerA  ledgerB = ledgerB
  call1 = call1  call2 = call2
  Canister = Canister
  Principals = {alice, bob}
  Controllers = {}
  FlatTargets = {target1, target2}
  Ledgers = {ledgerA}
  FlatNames = {name1}
  CallIds = {call1}
  Wallet = 2
  Fees = {0}
  Prices = {1}
  Amounts = {1, 2}
  Payouts = {}
  MaxRate = 2
  MaxTime = 5
  MaxUnreconciled = 0
  FundSelfAtOnce = 1
  InitialConfig <- BaseConfig
  Configs = {}
  InitialTerms <- BaseTerms
  AuctionTerms = {}
  Opening <- AliceHolds
  WarnNs = 2
SPECIFICATION HandoverSpec
INVARIANTS LastSaleVisible
CHECK_DEADLOCK FALSE
