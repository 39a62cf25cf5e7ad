---------------------------- MODULE TradeChannel ----------------------------
(***************************************************************************)
(* What the server promises each listener of a client about the trades of  *)
(* its product: a trade may be missed, but none is shown twice, out of     *)
(* order, or before the exchange has sent it.                              *)
(***************************************************************************)
EXTENDS Naturals, Sequences

VARIABLES
    sent,    \* number of messages the exchange has sent
    shown    \* for each listener, the number of its trade shown last

channelVars == <<sent, shown>>

Init ==
    /\ sent = 0
    /\ shown = <<>>

Send ==
    /\ sent' = sent + 1
    /\ UNCHANGED shown

Listen ==
    /\ shown' = Append(shown, 0)
    /\ UNCHANGED sent

Show(l) ==
    /\ \E n \in shown[l] + 1 .. sent : shown' = [shown EXCEPT ![l] = n]
    /\ UNCHANGED sent

Next == Send \/ Listen \/ \E l \in DOMAIN shown : Show(l)

Spec == Init /\ [][Next]_channelVars
=============================================================================
