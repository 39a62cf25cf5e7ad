----------------------------- MODULE MCDelivery -----------------------------
(***************************************************************************)
(* Delivery for TLC: its constants are given in the configurations.        *)
(***************************************************************************)
EXTENDS Delivery
=============================================================================
