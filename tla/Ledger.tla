------------------------------- MODULE Ledger -------------------------------
(***************************************************************************)
(* The ICRC-2 cycles ledger, as ic_auction's ledger client is used by      *)
(* canisters/names/src/lib.rs. Neither the ledger nor the client is in the *)
(* repository. An operation here is what the ledger does when it executes  *)
(* a request; what the canister learns of it is the caller's business      *)
(* (Market). A pinned fee that is not the ledger's makes a transfer fail.  *)
(***************************************************************************)
EXTENDS Vickrey

CONSTANTS
  Ledgers,    \* ledger canisters the config may name
  Canister,   \* the names canister's own account
  Wallet,     \* cycles each principal has on each ledger at the start
  Fees        \* transfer fees a ledger may charge

VARIABLES
  accounts,   \* ledger -> account holder -> balance
  fee         \* ledger -> its live transfer fee

ledgerVars == <<accounts, fee>>

Holders == Principals \cup {Canister}

LedgerTypeOK ==
  /\ accounts \in [Ledgers -> [Holders -> Nat]]
  /\ fee \in [Ledgers -> Nat]

\* icrc2_transfer_from: the payer pays the fee on top of the amount.
TransferFrom(l, payer, amount, pinned) ==
  /\ fee[l] = pinned
  /\ accounts[l][payer] >= amount + pinned
  /\ accounts' = [accounts EXCEPT ![l][payer] = @ - (amount + pinned),
                                  ![l][Canister] = @ + amount]
  /\ UNCHANGED fee

\* icrc1_transfer out of the canister's account: amount arrives.
Transfer(l, payee, amount, pinned) ==
  /\ fee[l] = pinned
  /\ accounts[l][Canister] >= amount + pinned
  /\ accounts' = [accounts EXCEPT ![l][Canister] = @ - (amount + pinned),
                                  ![l][payee] = @ + amount]
  /\ UNCHANGED fee

\* The cycles ledger's withdraw: amount leaves as cycles for the canister.
\* It has no fee argument, so the live fee is charged.
WithdrawCycles(l, amount) ==
  /\ accounts[l][Canister] >= amount + fee[l]
  /\ accounts' = [accounts EXCEPT ![l][Canister] = @ - (amount + fee[l])]
  /\ UNCHANGED fee

\* A withdraw whose delivery failed: the cycles came back, the fee did not.
ChargeFee(l, amount) ==
  /\ accounts[l][Canister] >= amount + fee[l]
  /\ accounts' = [accounts EXCEPT ![l][Canister] = @ - fee[l]]
  /\ UNCHANGED fee

ChangeFee(l) ==
  /\ \E f \in Fees \ {fee[l]} : fee' = [fee EXCEPT ![l] = f]
  /\ UNCHANGED accounts
=============================================================================
