------------------------------ MODULE MCMarket ------------------------------
(***************************************************************************)
(* Market for TLC: its constants are given in the configurations, clients  *)
(* and products as model values.                                           *)
(***************************************************************************)
EXTENDS Market
=============================================================================
