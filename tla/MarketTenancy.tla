---------------------------- MODULE MarketTenancy ----------------------------
(***************************************************************************)
(* Lazy settlement is exact: settling a record whenever it is touched, and *)
(* all of them before a rate change, is the same as running a meter.       *)
(***************************************************************************)
EXTENDS MarketProperties

\* A record as a meter would show it now.
Shown(r) ==
  IF ~Held(cfg, r) THEN None
  ELSE LET h == Settle(cfg, r.flat, now) IN
       [owner |-> r.owner, price |-> h.price, balance |-> h.balance,
        until |-> Status(cfg, r.flat, now).until]

\* A vacant name is told from any tenancy.
ASSUME VacantAssumption ==
  None \notin [owner : Principals, price : Nat, balance : Nat, until : Nat \cup {None}]

Meters == [n \in FlatNames |-> Shown(records[n])]

Meter == INSTANCE Tenancy WITH
           Grace <- InitialConfig.grace,
           rate <- cfg.rate,
           tenancy <- Meters

\* What the theorem on it assumes besides QuietChange: a meter has one grace
\* period, so the configs set have it too.
OneGrace == cfg.grace = InitialConfig.grace

\* "Tax accrues on P at rate_bps per year and is settled lazily"
\* (harberger.rs), and "a rate change from here on applies only to time
\* after it" (lib.rs, settle_all).
LazyTaxIsExact == Meter!Spec
=============================================================================
