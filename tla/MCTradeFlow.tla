----------------------------- MODULE MCTradeFlow -----------------------------
(***************************************************************************)
(* TradeFlow for TLC.                                                      *)
(***************************************************************************)
EXTENDS TradeFlow

CONSTANTS p1, p2, p3

\* A limit order that was received, an activation without the field founds, and
\* a message that is no trade.
ThreeKinds ==
    {[type |-> "received", fields |-> {"size", "price"}],
     [type |-> "activate", fields |-> {"size", "price"}],
     [type |-> "done", fields |-> {"price"}]}

\* One product is offline and has no port.
ThreeListed ==
    <<[id |-> p1, status |-> "online"], [id |-> p3, status |-> "offline"],
      [id |-> p2, status |-> "online"]>>
=============================================================================
