------------------------------- MODULE MC_race -------------------------------
(***************************************************************************)
(* Values for the constants of MarketRegistry: those of Market and a       *)
(* scoped name to alias.                                                   *)
(***************************************************************************)
EXTENDS MC_market, MarketRegistry

CONSTANTS handle1, label1

Scoped1 == <<handle1, label1>>
=============================================================================
