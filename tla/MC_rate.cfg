\* The rate changes under a held name, down to none. One call at a time: no
\* payment is in flight across the change (MC_stale_rate has one).
CONSTANTS
  None = None
  alice = alice  bob = bob  carol = carol
  name1 = name1  target1 = target1
  ledgerA = ledgerA  ledgerB = ledgerB
  call1 = call1  call2 = call2
  Canister = Canister
  Principals = {alice, bob}
  Controllers = {alice}
  FlatTargets = {target1}
  Ledgers = {ledgerA}
  FlatNames = {name1}
  CallIds = {call1}
  Wallet = 2
  Fees = {0}
  Prices = {1, 2}
  Amounts = {1, 2}
  Payouts = {}
  MaxRate = 2
  MaxTime = 4
  MaxUnreconciled = 0
  FundSelfAtOnce = 1
  InitialConfig <- ClosedConfig
  Configs <- ClosedRates
  InitialTerms <- BaseTerms
  AuctionTerms = {}
  Opening <- AliceHolds
SYMMETRY CallSymmetry
SPECIFICATION Spec
INVARIANTS TypeOK
PROPERTIES LazyTaxIsExact DeadlinesAreMet
CHECK_DEADLOCK FALSE
