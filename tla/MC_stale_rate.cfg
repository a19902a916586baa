\* The rate changes while a payment is in flight.
CONSTANTS
  None = None
  alice = alice  bob = bob  carol = carol
  name1 = name1  target1 = target1
  ledgerA = ledgerA  ledgerB = ledgerB
  call1 = call1  call2 = call2
  Canister = Canister
  Principals = {alice, bob}
  Controllers = {alice}
  FlatTargets = {target1}
  Ledgers = {ledgerA}
  FlatNames = {name1}
  CallIds = {call1, call2}
  Wallet = 2
  Fees = {0}
  Prices = {1, 2}
  Amounts = {1}
  Payouts = {}
  MaxRate = 2
  MaxTime = 3
  MaxUnreconciled = 0
  FundSelfAtOnce = 1
  InitialConfig <- BaseConfig
  Configs <- Rates
  InitialTerms <- BaseTerms
  AuctionTerms = {}
  Opening <- AliceHolds
SYMMETRY CallSymmetry
SPECIFICATION Spec
PROPERTIES NeverOnCredit
CHECK_DEADLOCK FALSE
