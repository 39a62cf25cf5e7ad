---------------------------- MODULE MCBookMirror ----------------------------
(***************************************************************************)
(* BookMirror for TLC, with a buy and a sell order: either may rest on the *)
(* book, and either may be the taker of a match with the other.            *)
(***************************************************************************)
EXTENDS BookMirror

CONSTANTS buy, sell

TwoOrders == {buy, sell}

Sides == [o \in TwoOrders |-> IF o = buy THEN "Buy" ELSE "Sell"]
=============================================================================
