# A TLA+ model of ic-name-service

This directory holds a specification of the names canister of this repository: the market in flat
names with its payments, auctions and treasury, the registry of handles, names and announcements
with its tag index and certified tree, resolution and its verifier, directory search, the HTTP gateway
and the page shown after a sale.
TLC checks it on small instances; TLAPS proves the theorems listed below for all values of the
constants. Paths such as `lib.rs` mean `canisters/names/src/lib.rs`.

## The system

One canister, one heap, one stable memory. Messages are handled one at a time; a handler that awaits
an inter-canister call gives way to every other message until the reply arrives.

| Part | State | Operations | Interacts with |
|---|---|---|---|
| Handles and deployers (`lib.rs` 181-242, `store.rs`) | HANDLES, DEPLOYERS | register_handle, set_handle_deployer, add_deployer, remove_deployer | records (who may write), announce |
| Records (`lib.rs` 260-401) | RECORDS | announce, set_record, set_text, delete_record | tag index, certified tree; for flat names the market |
| Tag index and search (`directory.rs`) | TAGS | index, unindex, rebuild; queries search, tags | records: read and kept in step |
| Certified tree (`certify.rs`) | TREE on the heap, certified data | set, remove, rebuild, witness | records; resolve |
| Upgrade (`lib.rs` 26-58) | META "schema" | post_upgrade with two migrations and two rebuilds | everything stored |
| Resolution (`lib.rs` 454-511), verifier (`tools/verify`) | none | resolve; checks A to E | records, tree, settlement (lapsed names) |
| Harberger tax (`harberger.rs`, crate ic-auction) | price, balance, settled and lapsed time in each flat record; META counters | settle, top_up, min_deposit | everything about flat names |
| Market (`lib.rs` 513-832) | flat RECORDS | buy, deposit (await), set_price, set_record, delete_record | ledger, credits, treasury |
| Auctions (`auction.rs`) | AUCTIONS, META "auction" | bid (await), reveal, close_auction, set_auction_config | ledger, records, credits, treasury |
| Credits (`store.rs` 244-287) | CREDITS | withdraw (await) | every refund and sale |
| Treasury (`lib.rs` 1005-1080) | META tax_collected, tax_withdrawn, auction_proceeds, unreconciled | fund_self (two awaits) | ledger |
| Tax config (`lib.rs` 1082-1148) | META "harberger", IN_FLIGHT on the heap | set_harberger_config (await), settle_all | every handler reads it |
| Cycles ledger (external) | accounts, transfer fee | transfer_from, transfer, withdraw, icrc1_fee | answers the canister's calls |
| HTTP gateway (`gateway.rs`) | none | routes, query strings, redirect, handover page | resolution, search, config |
| Domains (`lib.rs` 130-160) | META "domains" | set_domains, domains | gateway, grammar |
| Expiring and status (`lib.rs` 570-670) | none | expiring, flat_status | settlement |
| Grammar (`names.rs`) | none | checks of segments, names, text, tags, hostnames, hex | every update |
| Build and deployment tooling | none | shell scripts | not modelled |

Where it is hard:

- **Awaits.** buy, deposit, bid, withdraw, fund_self and set_harberger_config suspend. Between check
  and effect the record, the auction, the config, the credits and the tax counters can change.
- **Answers.** The ledger may refuse, take the fee only, or answer something undecodable after
  having moved the cycles or not. It may change its fee at any time.
- **Lazy state.** Nothing runs on a timer: tax, lapse, grace and the end of an auction happen when
  somebody next touches the record, and must come out as if they had happened on time.
- **Copies.** A record lives in RECORDS, in the tag index and in the tree; the account at the ledger
  is mirrored by six kinds of book entries.
- **Upgrades** drop the heap and rewrite records written by older versions.
- **Text.** Names, tags and records are keys that are scanned by prefix, lines that are certified, and
  paths and query strings of URLs: what users may write decides whether these can be told apart.

What makes each part correct: the books equal the account (treasury, credits, market); the account
covers what is owed to users; a holder loses a name only lapsed or paid; nobody loses by what others
do; a bidder gets back its deposit less its forfeit or the price; a winner's deposit covers what it is
charged; auctions end; lazy tax equals metered tax; handles are permanent and names belong to their handle's owner; announced provenance is genuine
and not stale; index and tree equal the records; resolution finds what the aliases lead to, and its
answers verify; no answer verifies that the stored aliases do not support; search lists everything
once; a path leads where its name does; the certified bytes determine the record; a sale is visible.

## Modules

`Cycles` — the sum of a map of amounts, as the number of coins it holds. The counting definition
needs no recursion, so the proof modules can use the library's theorems on finite sets.

`Harberger`, `Vickrey`, `Ledger` — the rules of the ic-auction crate and of the cycles ledger, which
are not in the repository: what `harberger.rs`, `auction.rs`, `lib.rs` and their tests use of them.
The unit of tax is chosen so that no tax is a fraction of a cycle; the crate's rounding is left out.
Which of several equal highest bids wins is left open. A commitment is a hash, so a sealed amount is
chosen when it is revealed.

`Market` — the market, one action per handler, EXTENDS the three above. A handler with an await is
split: the part up to the await (`Buy`, `Deposit`, `PlaceBid`, `Withdraw`, `FundSelf`,
`SetHarbergerConfig`) puts a call into `calls` with the locals it will resume with, the ledger
executes or refuses it (`LedgerPulls` ... `LedgerQuotes`), and one action per way of resuming
(`BuyPaid`, `BidPaid`, `WithdrawFailed`, `ReplyUndecodable`, ...) does what the code does after the
await. `calls[k].cfg` is the config the handler read at its start, which it goes on using.

| Variable | Code |
|---|---|
| `now` | `ic_cdk::api::time()` |
| `cfg`, `terms` | META "harberger" and "auction" |
| `records` | RECORDS, flat names; `previous`, `changed` are previous_target, changed_hands_ns |
| `auctions` | AUCTIONS; a bid also carries the `Terms` its reveal fixed |
| `credits` | CREDITS |
| `collected`, `withdrawn`, `proceeds`, `unreconciled` | the META counters of the treasury |
| `calls` | suspended handlers; all but configure hold an `InFlight` guard |
| `accounts`, `fee` | the ledger |

`MarketProperties` — what the market promises, and the inductive invariant of the proofs.

`Tenancy` — what holding a flat name means, told without lazy settlement, auctions or payments: a
meter takes the tax at every tick. `MarketTenancy` maps a record to the tenancy it shows (the code's
flat_status) and states that `Market` implements `Tenancy`.

`Handover` — the gateway's page after a sale, with a history variable for the holdings that ended.

`Expiring` — expiring and flat_status as operators on `Market`'s state.

`Registry` — handles, deployers, scoped and flat records, the tag index, the tree, the upgrade. Each
handler is one action, since none awaits. Why a flat name lapses or changes hands is `Market`'s
subject; here it may at any time. Init is a fresh install or the stable memory of an older version.

`MarketRegistry` — the composition of the two: `Market`'s records, clock and auctions seen as the
flat half of a registry, by INSTANCE with a refinement mapping. It shows that the freedom `Registry`
grants the market (`ChangeHands`, `Lapse` and `Revive`, writes by the holder) is all the market takes,
whatever configs are set: a shorter grace period lapses names, a longer one gives them back.

`Resolve`, `Directory` — queries as operators on `Registry`'s state: alias chains, witness and the
verifier's checks B, C and D; search and tag counts. Check B compares a digest; a digest stands for
the tree it is of, so a witness passes if and only if what it shows is in the certified tree. The loops
of the code (`follow`, `search`, `tags`) are recursive functions of the number of passes: `Walk(n)[k]`,
`Found(q, tag, offset, limit)[i]` and `Counts[i]` are the locals after k aliases, i names or i keys of
the index. `Directory` takes the key order of RECORDS and TAGS as the constants `NameOrder` and `EntryOrder`.

`Grammar` — the checks of `names.rs` on ASCII strings, and what Rust's str does (split, join, lines,
order). `Keys` — the names and records of `Registry` spelled out: the keys of RECORDS and of the tag
index, prefix scans, the certified bytes (`canonical`, in the canister and in the verifier).
`Gateway` — paths, routes, query strings and percent decoding on top of `Keys` and `Resolve`, and the
list of domains as a variable of its own.

`MC_market`, `MC_race`, `MC_handover`, `MC_registry`, `MC_lookup` — constants for TLC.
The proofs: `Market_proofs` of sums, types and auctions; `Books_proofs` of the
books and the treasury; `Holdings_proofs` of settlement and the deadlines of `Expiring`;
`Terms_proofs` of what payments and auctions leave holders with; `Refinement_proofs` of the two
refinements, `MarketRegistry` and `MarketTenancy`; `Handover_proofs` of the page after a sale;
`Registry_proofs` of the registry; `Lookup_proofs` of resolution, its verifier, search and tag counts.

Operators whose comment starts with "Mutant of" are deliberate bugs next to the definition they
spoil. Each property of a passing run is violated when one of them takes its definition's place, so
no property holds by the shape of the model. No specification uses them. Some spoil one promise and no
other: with `RefundsToWinner` a close pays one bidder's refund to another, `IInv` and so the books still
hold, and only `NoUninvitedLoss` fails.

## Runs

Passing runs; the cfg of run x is `MC_x.cfg`.

| Run | Properties | What it shows |
|---|---|---|
| race | BooksBalance, FreeWhileAuctioned, HolderIsCompensated, NoUninvitedLoss, NeverOnCredit, FlatNamesAreRegistrys | two payments in flight for one held name, until it is free and in auction; the market writes records only as `Registry` allows |
| auction | IInv, OpeningBalanceFits, NoUninvitedLoss, NeverOnCredit | two bidders, late and refused payments, lazily closed auctions; who closes one costs each bidder its forfeit or the price and nothing else; the invariant of the proofs |
| closing | HolderIsCompensated, NoUninvitedLoss, FlatNamesAreRegistrys, EndedAuctionsClose | reserve and grace period change while a name is in auction: no auction gets stuck, and if the name is held again at its close the holder keeps it, the win is void and paid back in full |
| funds | BooksBalance, Solvent, NothingStranded | withdraw, fund_self and payments with a fee and every answer, while the config moves to another ledger and back |
| rate | TypeOK, LazyTaxIsExact, DeadlinesAreMet | `Market` implements `Tenancy` across rate changes; expiring lists the tick at which a name changes status |
| handover | LastSaleVisible | the page of the latest sale stays for the whole window |
| provenance | TypeOK, IndexInStep, TreeInStep, OwnersAgree, HandlesPermanent, AttestationsGenuine, NoStaleProvenance | the registry |
| lookup | FollowIsRight, AnswersVerify, ChecksAreSound | alias chains and loops; honest answers pass the verifier, and no answer passes that the stored aliases do not support |
| | PagesListAll, TagCountsRight, ScansFindExactly | paging and tag counts against a definition on records; prefix scans of text keys against the same on names |
| | LeafFixesRecord | no two records the checks let anyone write have the same certified bytes |
| | PathsLeadToNames, SearchArrives, DomainsAreListed | the gateway against resolution, search and set_domains |

Runs that TLC refutes: each states something the repository says of the code.

| Run | Statement | What happens |
|---|---|---|
| overdraw | prepaid balances are never touched (lib.rs:1007, README) | two fund_self calls pass the check before either notes its withdrawal; the account no longer covers what is owed |
| fee_change | a changed fee must not come out of prepaid balances (lib.rs:1051-1052) | the ledger raises its fee between fund_self's query and its withdrawal, which cannot pin it |
| stale_rate | a name is never held on credit (README) | a buy or top-up completes under the config read before its await |
| resold | the forced sale must be visible (gateway.rs:176-178) | two sales within the window to the same target: previous_target equals the target |

Smaller disagreements between code and documentation, which have no run of their own:

- A longer grace period set while a lapsed name is in auction gives the name its holder back, against
  the first half of the comment at auction.rs:317; close then voids the win, as the second half says.
  `FreeWhileAuctioned` is therefore about a config that stays; run closing is about one that does not.
- A rate raised between reveal and close leaves the winner of an auction with the opening balance of
  the old rate (auction.rs fixes it at reveal): less than one grace period of tax.
- A bid whose payment is in flight when the market is closed is still placed (lib.rs:569 says bidding
  is refused then).
- migrate_config_from_v2 closes the market; its doc comment says it stays open, its body and its test
  say closed.
- Any segment may be registered as a handle: the names `api/search`, `api/tags` and `api/expiring`
  resolve, but their path in the gateway is one of its own routes, as is `/api/resolve/`
  (check_flat reserves `api` for flat names only). `PathsLeadToNames` shows that no other name is hidden.

### Bounds and why they suffice

One flat name: no handler of the market relates two names except sums (settle_all, funds_held, the
treasury), and sums are proved for any number. Two principals: a holder and a rival, or two bidders;
every hazard listed involves at most two. Two calls in flight where interleaving of awaits is the
question, one where the replies are or where the question is how an auction ends. `MaxTime` 2 to 5
ticks with a rate of one cycle per tick and a grace of one tick: a holding of balance 1 runs out, is
in grace and is free within 2 ticks, and an auction with phases of one tick opens, is revealed and
closes in 2 more. In `closing` a name starts with its balance spent, and a config with a grace of 4
ticks may be set at any time: when the auction over it closes, at tick 3 or before, the name is held
again or not. Amounts are the least that pass and fail each comparison; `rate` has rates from none
to one the config check refuses. `MaxUnreconciled` bounds undecodable replies, `FundSelfAtOnce` the
concurrent fund_self calls: 1 in the passing runs, because two are the subject of `overdraw`. The
ledger's fee rises in `auction` and moves in `fee_change`. `CallSymmetry` swaps call contexts and is
sound for the safety runs; `closing` uses none. `provenance` has two ordinary callers and one
deployer, one scoped and one flat name, two canisters; `lookup` has two scoped names and a flat one
that may alias each other, against a depth of 2, so a chain longer than the depth and loops occur,
and two tags, a note and limits from none to more than the greatest. Its strings are chosen for
where text is ambiguous: a handle called like a route, labels called like routes, a flat name that
begins like the handle, a note with an equals sign, a value with a newline, a tag list with an empty
or a repeated tag; `MaxSegment` and the other lengths are just enough for what should pass.
`ChecksAreSound` is about answers no longer than the depth; the theorem `AnswersSound` is about any.
Deadlock checking is off where time is bounded: such a system may stop at `MaxTime` with nothing
left that anybody wants to call.

### Fairness

`FairSpec` assumes one thing: that somebody calls close_auction if it stays possible. There is no
timer, but a bidder with a refund to gain or a name to win can call it, and anyone may. Nothing else is
fair: nobody has to do anything, the ledger need not answer, and time need not pass. So what
`EndedAuctionsClose` says is that a close that is possible stays possible and then succeeds, whatever bids,
reveals, late payments and configs come in between. That a handler ends once its reply is there is
not stated: the handlers run straight through, and replying is the platform's part.

## Theorems

The theorems hold for every number of names, principals and calls, every config, fee and amount.
What they assume of the constants are the ASSUMEs of the modules, which TLC evaluates on every run:

- `MarketAssumption`, `StartAssumption` (`Market`): finite sets, natural amounts, `None` unlike
  everything else, and a start whose holdings are settled at 0.
- `ConfigAssumption`, `TermsAssumption` (`Market`): the config at the start passes `Valid` and the
  auction phases at the start are positive, as those of the defaults are and of all that were set.
- `AliasAssumption` (`MarketRegistry`), `VacantAssumption` (`MarketTenancy`): flat names are not scoped
  ones; `None` is no record and no tenancy.
- `WarnAssumption` (`Handover`): the window is a natural number.
- `RegistryAssumption`, `StoredAssumption` (`Registry`): controllers are principals, tag lists are sets
  of tags, flat names are not scoped ones, and what an older version stored is typed, not newer than
  the code and owned by the owners of the handles.
- `ResolveAssumption` (`Resolve`): the depth is a natural number, addresses are not names, `None` is no
  name, and the bytes of a record are not `None`.
- `DirectoryAssumption` (`Directory`): the two orders list every name and every entry once; entries of
  one tag stand together, because a key begins with its tag and a separator (`Keys` spells the keys out
  and TLC evaluates the assumption on them); limits are natural numbers and the greatest is positive.

Some theorems also assume something of the behaviour. Each of these assumptions is a state or step
formula of `MarketProperties` or `MarketTenancy`, and a run shows why it is needed:

| Hypothesis | It says | Without it |
|---|---|---|
| `FeeKept` | the ledger charges a withdrawal on its way the fee it had quoted | run fee_change |
| `OneFundSelf` | controllers fund the canister one call at a time | run overdraw |
| `QuietChange` | rate and grace period change only while no payment is under way and no auction open | run stale_rate, and the grace period below Runs |
| `OneGrace` | the grace period is the one of the start | `Tenancy` has one grace period; nothing is refuted |

| Module | Theorem | States |
|---|---|---|
| `Market_proofs` | `TypedAndSound`, `Typed`, `OpeningFits` | `TInv`, `TypeOK`, `OpeningBalanceFits` always |
| `Books_proofs` | `BooksInvariant`, `BooksMatch`, `LedgerChangeStrandsNothing` | under `FeeKept`: `IInv`, `BooksBalance`, `NothingStranded` always |
| | `TreasuryCoversWithdrawals` | under `OneFundSelf`: `TreasuryCovers` always |
| | `AccountCoversUsers` | under both: `Solvent` always |
| `Holdings_proofs` | `DeadlinesMet` | `DeadlinesAreMet` |
| `Terms_proofs` | `ConfigsChecked` | `ChecksHold` always |
| | `TermsOfTheDay`, `AuctionedNamesStayFree` | under `QuietChange`: `TermsCurrent`, `FreeWhileAuctioned` always |
| | `HoldersAreCompensated`, `NothingOnCredit` | under `QuietChange`: `HolderIsCompensated`, `NeverOnCredit` |
| | `NothingLostUninvited` | under `QuietChange`: `NoUninvitedLoss`, closes included |
| `Refinement_proofs` | `MarketKeepsRegistry` | `FlatNamesAreRegistrys`: the market implements the flat half of `Registry`, under any configs |
| | `LazyTaxIsMetered` | under `QuietChange` and `OneGrace`: `LazyTaxIsExact`: the market implements `Tenancy` |
| `Handover_proofs` | `LastSaleStaysVisible` | `LastSaleVisible` always |
| `Registry_proofs` | `RegistryInvariant`, `RegistryTyped` | `RInv`, `TypeOK` always |
| | `TreeShowsRecords`, `IndexShowsRecords`, `NamesBelong` | `TreeInStep`, `IndexInStep`, `OwnersAgree` always |
| | `HandlesStay`, `ProvenanceGenuine`, `ProvenanceFresh` | `HandlesPermanent`, `AttestationsGenuine`, `NoStaleProvenance` |
| `Lookup_proofs` | `FollowFindsPaths`, `AnswersPass` | `FollowIsRight`, `AnswersVerify` always |
| | `AnswersSound`, `ForgedAnswersFail` | `EveryAnswerIsSound` (answers of any length, any records, any witness) and `ChecksAreSound` always |
| | `PagesComplete`, `CountsComplete` | `PagesListAll`, `TagCountsRight` always |

### The arguments

**Types** (`Market_proofs`). TypeOK is not inductive: that a balance stays natural needs that
settlement never takes more than there is and that time does not run backwards for a holding
(`HoldingSound`); that a refund stays natural needs that what reveal checked still holds at close
(`BidCovered`), although every config may have changed since; that a resumed handler writes something
typed needs what its checks left in its locals (`CallSound`), for example that the price in a buy's
snapshot is part of the amount it pulled, or that a call in flight pins the ledger (`NoFundsHeld`).
`TInv` is TypeOK with these three. There is one lemma per action (`BuyPaidKeeps`, `BidKeeps`, ...),
resting on lemmas about the operators (`SettleSound`, `ClosingSound`, `OutcomeSound`, ...) and about
how one record, auction or call is written (`RecordWritten`, `AuctionWritten`, `CallWritten`).
Its first part proves what sums need: finiteness, the sum of a pointwise sum (`TotalPlus`), bounds on
one entry (`TotalBounds`), and the effect of changing one entry (`TotalUpdate`).

**The books** (`Books_proofs`). `IInv` is `TInv` with the balance itself, with `NothingStranded`
(a payment is answered by the ledger it was sent to) and with `UndoIsExact` (what a refused withdrawal
gives back was noted, so the subtraction never saturates). Each action moves an amount between at
most three of the sums; the steps are by `TotalUpdate` and `TotalPlus`. `FeeKept` is used in one place,
the fee that is kept of a failed withdrawal. Solvency is the balance and `TreasuryCovers`, which says that
the tax pays for what was withdrawn and for what fund_self calls were told they may withdraw.

**Settlement** (`Holdings_proofs`). `EndTick`: a holding with a burn of k runs out at
`settled + ceil(balance / k)`, a fact about integer division. From it: when a holding was last settled
makes no difference to when it lapses, is free, or what it is worth at a later time (`SettledEnds`,
`BalanceAt`, `SettledTwice`, `NextTick`).

**Terms** (`Terms_proofs`). What a resumed handler does is right if its config has the rate and grace
period in force (`SameTerms`); `TermsCurrent` says so of every suspended call, says that revealed bids
open with the tax in force, and that auctioned names are free, without which a buy that was told a name is
held could hand over one in auction. Every write of a record is one of four (`WrittenRecord`:
released, amended by the holder, topped up, sold as a whole), and what each leaves behind
(`AmendedFields`, `DepositWrites`, `BuyWrites`, `BidStepHandsOver`) gives compensation and
`NeverOnCredit`. A bid that closes an ended auction and close_auction share one description, `BidStep`.

**Wealth** (`Terms_proofs`). `Wealth` has five parts. When no auction closes each is followed on its own: the
ledger moves the cycles of callers only (`AccountsOfOthers`), calls under way stay as they are
(`CallsOfOthers`), and escrow stays (`EscrowStays`), since an ended auction does not reopen under its old
opening time (`PhasesHold`). Credits only fall by a withdrawal (`CreditsGrow`), whose amount is then
under way (`WithdrawKeepsWealth`). Names are the difficult part: whatever a handler writes, what the
holder had on the name stays there or is credited (`ShareKept`, from the same account of the writes
that gives compensation), and settling every name before a config change takes no more than was
due (`SettlingKeepsWorth`). When an auction closes the parts only make sense together: a bidder's escrow
becomes credit, and for the winner credit and the balance of the name, which `CloseCosts` adds up bidder by
bidder against the deposit, with the price as the second highest of the bids (`PriceIsSecond`). That the
opening balance counts in full needs that a name just sold is held (`FreshIsHeld`), hence that the grace
period is at least a tick (`ChecksHold`). A bid that arrives late may in the same step close the auction and
open the next with its deposit, or be credited back: its amount leaves the calls and enters escrow or
credit (`BidMoves`, `BidDeposits`), so the bidder too is accounted for (`BidKeepsWealth`).

**Refinement** (`Refinement_proofs`). The mappings are state functions, so a step of the market has to be
shown a step of the abstract module or a stutter. For `Registry`, a sale or a win is `ChangeHands`, a
tick is `Lapse` of the names that become free in it, amending is the holder's write, and settling shows
nothing. A config is `Lapse` if it makes the grace period shorter and `Revive` if it makes it longer, because
all names that change status then change it the same way: when a balance ran out does not depend on
the grace period, whether the name is free is then a comparison with it (`GraceDecides`, `SeenConfig`). A subtle part is that what is written is held afterwards, even with no balance left (`FreshIsHeld`,
`AmendedIsHeld`): it needs a grace period of at least a tick, which the config check gives
(`ChecksHold`). For `Tenancy`, `ShowForm` says what a holding shows at a time and `ShowTick` that a tick
of time is a tick of its meter; `ShowRestated` that a record settled and then priced or taxed anew shows
the same reading under the new price or rate, which covers settle_all, set_price and set_record at once;
`ShowFilled` what a top-up, buy or win starts with.

**The page after a sale** (`Handover_proofs`). `HandoverInv` relates the record of a name to the holdings
that ended before it (`Follows`): none ended after it changed hands, the previous target is that of
the last one, and its tax runs from then at the earliest. The last part is what makes a lapsed
holder that wins its own name back a change of hands at a later time (`FreeIsLater`).

**The registry** (`Registry_proofs`). `RInv` is TypeOK, `TreeInStep`, `OwnersAgree` and `IndexKept`.
`IndexInStep` speaks of a running canister only and is not inductive: an upgrade from schema 2 or 3 does
not rebuild the index, so what counts is that it was in step before the upgrade (`IndexKept`: from
schema 2 on) and that the migration of schema 4 touches no tags (`MigratedSame`). A write keeps index
and tree in step because replacing one name's entries, or its leaf, gives the index and tree of the
records written (`IndexUpdate`, `TreeUpdate`, `CommitKeeps`, `RemoveKeeps`); this needs that entries of
different names are disjoint (`EntriesTyped`). `OwnersAgree` needs that handles keep their owners
(`HandlesKept`) and that announce creates a name for the handle's owner, not for its caller. The
action properties follow from one lemma per handler that writes records (`AnnounceGenuine`,
`SetTextGenuine`, ...).

**Loops** (`Lookup_proofs`). The queries change nothing, so their theorems follow from `RInv` in one
state; what is hard is the loop in each. The library's induction theorems take a predicate as a
parameter, which the provers cannot instantiate, but its theorem that the order of the naturals is
well founded does not. From it: a set of naturals that is not empty has a least element (`LeastNumber`); a
set that holds 0 and, with every pass, the next one holds all passes (`EveryPass`), so a loop invariant is
proved as the set of the passes after which it holds; and the recursive function that a loop is written as
exists (`LoopRuns`), without which nothing would follow from its definition.

**Resolution** (`Lookup_proofs`). `Visited` is the invariant of the loop of follow: chain is a path of
distinct, recorded names that have not lapsed, from the name asked for to the one that comes next.
After the last pass the loop has ended (`WalkEnds`), because each pass that goes on lengthens the chain; so what
follow finds, a path leads to (`FollowFinds`). Conversely, follow gives up at a name it has visited, so
a path to an address has to be shown free of repetitions: if two places of it held one name, the last place would
repeat at an earlier one, and an address would be an alias (`PathHasNoLoop`). Along such a path within
the depth every pass visits the next name (`WalkFollowsPath`, `PathIsFollowed`).

**The verifier** (`Lookup_proofs`). A leaf that passes checks B and C is in the certified tree, hence by
`TreeInStep` it is that of a stored record with the owner and target shown (`LeafIsStored`, `CanonicalFixes`);
check D then says of the stored records what it says of the answer, one after the other (`ChecksSound`).
No induction over the answer is needed, and no bound on it. The canister's own answer passes because its
chain is a path (`OwnAnswerPasses`).

**Pages** (`Lookup_proofs`). The rank of a place is the number of matches up to it (`Rank`). After i names a
search has counted the rank of i, and its page holds the matches with the ranks after its offset, in
order, as many as fit (`Pageful`). Since the limit is positive, a rank is on one page, at one place of
it (`PagePlace`, `PagePlaceUnique`), and belongs to one match (`RankTells`). That a search by tag looks at
the right names is `IndexInStep` (`HitsMatch`).

**Tag counts** (`Lookup_proofs`). tags() compares a key with the tag counted last only. After i keys each tag so
far has been counted once, with the rank of i among its entries, and the one counted last is that of the
last entry (`Tallied`). A tag counted before can come back only while it is last, because its
entries stand together (`TagReturnsLast`). At the end the entries of a tag are as many as the records with
it (`EntriesCount`).

### Only model-checked

- `ScansFindExactly`, `LeafFixesRecord`, `PathsLeadToNames`, `SearchArrives` and `DomainsAreListed` are about
  what strings are made of: prefixes, joins, escapes, and the order of their characters. To the provers a
  string has no characters, so nothing can be proved of them; they are checked on the texts listed under Bounds.
- `EndedAuctionsClose`: liveness under fairness is out of the prover's reach, as it needs ENABLED.

## Not modelled

- Grammar: check_hex, which only selects inputs of announce; text beyond ASCII, where a character is
  not a byte; trim and to_lowercase of search (what is searched for is lower case already).
- Certified bytes: the time stamps and the lines of flat names, which hold numbers and names only.
- Hash trees, digests and the subnet's signature (check A), the live module hash (check E), the merging
  of witnesses and the certified headers of a page.
- The gateway's JSON, HTML and its escaping, headers, methods other than GET.
- The crate's fractions of a cycle and its tie break; allowances and deduplication at the ledger;
  saturation at 64 and 128 bits.
- An upgrade while calls are open: IN_FLIGHT and the continuations are gone, and what then happens to
  a reply is the platform's to say, not this code's.
- Build, deployment and smoke-test scripts.

## Plan

1. Done: `Market` and its properties, `Tenancy`, `Expiring`, `Registry`, `MarketRegistry`, `Resolve`,
   `Directory`, `Grammar`, `Keys`, `Gateway` and `Handover`; the theorems above.
2. Done: the theorems on the queries of `Resolve` and `Directory`, with induction over their loops.
3. Left: what is under "Only model-checked". The next step would be to restate the scans of `Keys` over
   sequences of bytes instead of strings, for which the loops could be treated like those of `Directory`.
