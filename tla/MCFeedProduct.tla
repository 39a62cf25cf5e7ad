--------------------------- MODULE MCFeedProduct ---------------------------
(***************************************************************************)
(* FeedProduct for TLC: its constants are small enough to be given in the  *)
(* configurations.  MaxSeq - StartSeq is the number of exchange messages a *)
(* run plays through; the queues need no bound of their own.               *)
(***************************************************************************)
EXTENDS FeedProduct
=============================================================================
