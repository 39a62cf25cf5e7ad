----------------------------- MODULE MCSession -----------------------------
(***************************************************************************)
(* Session for TLC.  Program a subscribes to a product in two rounds; the  *)
(* other client may ask for q, which is not listed, or unsubscribe a's p.  *)
(***************************************************************************)
EXTENDS Session, TLC

CONSTANTS a, p, q

Sub(id) == [subscribe |-> TRUE, productId |-> id]

Unsub(id) == [subscribe |-> FALSE, productId |-> id]

TwoProducts == {p, q}

OneListed == {p}

OneProgram == {a}

RoundsScenario == a :> <<Sub(p), Unsub(p), Sub(p)>>

OneScenario == a :> <<Sub(p)>>
=============================================================================
