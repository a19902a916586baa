------------------------------ MODULE Expiring ------------------------------
(***************************************************************************)
(* Which flat names are running out: expiring and flat_status of           *)
(* canisters/names/src/lib.rs, which the gateway serves as /api/expiring.  *)
(* Queries, so operators on the state of Market. The order of the list and *)
(* the amounts it repeats from flat_status are left out.                   *)
(***************************************************************************)
EXTENDS Market

\* flat_status: the holding settled to now, as nothing but a query sees it.
FlatStatus(n) ==
  [owner   |-> records[n].owner,
   target  |-> records[n].target,
   price   |-> records[n].flat.price,
   balance |-> Settle(cfg, records[n].flat, now).balance,
   status  |-> Status(cfg, records[n].flat, now)]

\* When the balance runs out, or the grace period ends. None: not of itself.
Deadline(n) ==
  LET h == Settle(cfg, records[n].flat, now)  status == FlatStatus(n).status IN
  CASE status.state = "grace" -> status.until
    [] status.state = "active" /\ h.price * cfg.rate > 0 -> now + TicksUntilSpent(cfg, h)
    [] OTHER -> None

\* Mutant of ExpiringNames: what ends exactly within the period is missed.
ExpiringBefore(within) ==
  {n \in FlatNames : records[n] # None /\ Deadline(n) # None /\ Deadline(n) - now < within}

\* expiring_inner.
ExpiringNames(within) ==
  {n \in FlatNames : records[n] # None /\ Deadline(n) # None /\ Deadline(n) - now <= within}

-----------------------------------------------------------------------------

StateOf(n) == FlatStatus(n).status.state

\* A listed deadline is met to the tick, and none is missed. While only time
\* passes, a name that goes into its grace period, or becomes free, was
\* listed for that moment with that deadline however far ahead one asked,
\* and a name listed for later keeps its status and its deadline.
DeadlinesAreMet ==
  [][now' = now + 1 =>
       \A n \in FlatNames : records[n] # None =>
         /\ StateOf(n)' # StateOf(n) <=> n \in ExpiringNames(1)
         /\ \A within \in 1..MaxTime :
              n \in ExpiringNames(within + 1) \ ExpiringNames(1) =>
                n \in ExpiringNames(within)' /\ Deadline(n)' = Deadline(n)]_vars
=============================================================================
