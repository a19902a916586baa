\* Two bidders for a free name, bids that arrive late, a name claimed.
CONSTANTS
  None = None
  alice = alice  bob = bob  carol = carol
  name1 = name1  target1 = target1
  ledgerA = ledgerA  ledgerB = ledgerB
  call1 = call1  call2 = call2
  Canister = Canister
  Principals = {alice, bob}
  Controllers = {}
  FlatTargets = {target1}
  Ledgers = {ledgerA}
  FlatNames = {name1}
  CallIds = {call1, call2}
  Wallet = 4
  Fees = {1}
  Prices = {1, 2}
  Amounts = {2, 4}
  Payouts = {}
  MaxRate = 2
  MaxTime = 2
  MaxUnreconciled = 0
  FundSelfAtOnce = 1
  InitialConfig <- BaseConfig
  Configs = {}
  InitialTerms <- BaseTerms
  AuctionTerms = {}
  Opening <- NothingHeld
SYMMETRY CallSymmetry
SPECIFICATION Spec
INVARIANTS IInv OpeningBalanceFits
PROPERTIES NoUninvitedLoss NeverOnCredit
CHECK_DEADLOCK FALSE
