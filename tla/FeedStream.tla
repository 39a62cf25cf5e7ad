----------------------------- MODULE FeedStream -----------------------------
(***************************************************************************)
(* What a feed product promises the Market: the stream of messages it has  *)
(* handled either restarts the order book from a full snapshot that is no  *)
(* older than what was handled before, or moves the book forward by        *)
(* exactly the next sequence number.  The first delivery is a snapshot.    *)
(***************************************************************************)
EXTENDS Naturals

VARIABLES
    pos,     \* the sequence number the listener's book has been brought to
    kind     \* the last delivery: "none", "book" or "message"

streamVars == <<pos, kind>>

Init ==
    /\ pos = 0
    /\ kind = "none"

\* A full order book: the listener never goes back in time.
Resync ==
    /\ kind' = "book"
    /\ pos' \in Nat \ {0}
    /\ pos' >= pos

\* A live message: exactly the successor of what was delivered last.
Advance ==
    /\ kind # "none"
    /\ kind' = "message"
    /\ pos' = pos + 1

Next == Resync \/ Advance

Spec == Init /\ [][Next]_streamVars
=============================================================================
