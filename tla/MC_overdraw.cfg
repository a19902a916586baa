\* Two fund_self calls at a time.
CONSTANTS
  None = None
  alice = alice  bob = bob  carol = carol
  name1 = name1  target1 = target1
  ledgerA = ledgerA  ledgerB = ledgerB
  call1 = call1  call2 = call2
  Canister = Canister
  Principals = {alice, bob}
  Controllers = {alice}
  FlatTargets = {target1}
  Ledgers = {ledgerA}
  FlatNames = {name1}
  CallIds = {call1, call2}
  Wallet = 0
  Fees = {1}
  Prices = {1}
  Amounts = {}
  Payouts = {2, 3}
  MaxRate = 2
  MaxTime = 2
  MaxUnreconciled = 0
  FundSelfAtOnce = 2
  InitialConfig <- FeeConfig
  Configs = {}
  InitialTerms <- BaseTerms
  AuctionTerms = {}
  Opening <- AlicePrepaid
SYMMETRY CallSymmetry
SPECIFICATION Spec
INVARIANTS Solvent
CHECK_DEADLOCK FALSE
