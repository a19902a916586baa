------------------------------ MODULE Handover ------------------------------
(***************************************************************************)
(* The page a gateway visitor sees instead of a redirect while a flat name *)
(* has a new holder (handover_page of canisters/names/src/gateway.rs; the  *)
(* verifier warns under the same conditions). The record remembers one     *)
(* previous target; the history variable past remembers every holding that *)
(* ended, with the target it had then.                                     *)
(***************************************************************************)
EXTENDS Market

CONSTANT WarnNs   \* Config::handover_warn_ns

ASSUME WarnAssumption == WarnNs \in Nat

VARIABLE past     \* name -> {<<target, when its holding ended>>}

\* Mutant of Recent: the window is a grace period.
RecentByGrace(at) == now - at < cfg.grace

Recent(at) == now - at < WarnNs

\* Visitors of n get the page.
HandoverPage(n) ==
  LET r == records[n] IN
  /\ Held(cfg, r)
  /\ r.previous # None /\ r.previous # r.target
  /\ Recent(r.changed)

ChangesHands(n) ==
  records[n] # None /\ (records'[n] = None \/ records'[n].changed # records[n].changed
                                           \/ records'[n].owner # records[n].owner)

Remember ==
  past' = [n \in FlatNames |->
             IF ChangesHands(n) THEN past[n] \cup {<<records[n].target, now>>} ELSE past[n]]

HandoverInit == Init /\ past = [n \in FlatNames |-> {}]

HandoverSpec == HandoverInit /\ [][Next /\ Remember]_<<vars, past>>

-----------------------------------------------------------------------------

\* The ending of the latest holding of n that another record took over.
Latest(n) == {e \in past[n] : \A f \in past[n] : f[2] <= e[2]}

\* Whoever takes a held or lapsed name over and points it elsewhere, then or
\* with set_record later, cannot do so silently: for WarnNs after it changed
\* hands, while it leads elsewhere than its last holder's record did, its
\* visitors see the page. (A name released in between has no record to
\* remember what it led to.)
LastSaleVisible ==
  \A n \in FlatNames : Held(cfg, records[n]) /\ records[n].previous # None =>
    \A e \in Latest(n) :
      \/ HandoverPage(n)
      \/ now - e[2] >= WarnNs
      \/ \E f \in Latest(n) : f[1] = records[n].target

\* gateway.rs, "The forced sale must be visible": a name that, within the
\* window, had another holder and led elsewhere gets the page.
ForcedSaleVisible ==
  \A n \in FlatNames : Held(cfg, records[n]) =>
    \A e \in past[n] :
      now - e[2] < WarnNs /\ e[1] # records[n].target => HandoverPage(n)
=============================================================================
