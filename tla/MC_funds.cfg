\* withdraw, fund_self and payments against ledgers that charge a fee, every
\* reply a ledger can give, and a config that moves to another ledger and back.
CONSTANTS
  None = None
  alice = alice  bob = bob  carol = carol
  name1 = name1  target1 = target1
  ledgerA = ledgerA  ledgerB = ledgerB
  call1 = call1  call2 = call2
  Canister = Canister
  Principals = {alice, bob}
  Controllers = {alice}
  FlatTargets = {target1}
  Ledgers = {ledgerA, ledgerB}
  FlatNames = {name1}
  CallIds = {call1, call2}
  Wallet = 2
  Fees = {1}
  Prices = {1}
  Amounts = {1}
  Payouts = {2, 3}
  MaxRate = 2
  MaxTime = 1
  MaxUnreconciled = 2
  FundSelfAtOnce = 1
  InitialConfig <- FeeConfig
  Configs <- BothLedgers
  InitialTerms <- BaseTerms
  AuctionTerms = {}
  Opening <- AlicePrepaid
SYMMETRY CallSymmetry
SPECIFICATION Spec
INVARIANTS BooksBalance Solvent NothingStranded
CHECK_DEADLOCK FALSE
