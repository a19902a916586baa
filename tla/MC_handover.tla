---------------------------- MODULE MC_handover ----------------------------
(***************************************************************************)
(* Values for the constants of Handover: those of Market and a second      *)
(* target.                                                                 *)
(***************************************************************************)
EXTENDS MC_market, Handover

CONSTANT target2
=============================================================================
