----------------------------- MODULE BookMirror -----------------------------
(***************************************************************************)
(* The order book the server keeps for one product against the book of the *)
(* exchange.  The exchange opens, matches, changes and closes orders.      *)
(* While the feed is in step every message becomes a product change in     *)
(* Market's queue; after the feed has lost its place a full order book,    *)
(* with the messages that followed it merged in, is queued as one change   *)
(* (CoinbaseFeedMessageHandler::getProductChange).  The market thread      *)
(* takes the whole queue at a time and hands it to the Product the newest  *)
(* change first, the order of equal keys in the multimap, so a batch of    *)
(* several changes is applied in reverse.                                  *)
(***************************************************************************)
EXTENDS OrderBook, FiniteSets

CONSTANTS
    Orders,      \* order ids; the exchange uses each for one order
    OrderSide,   \* the side of each order
    MaxSize,     \* bound: the largest size of an order
    MaxMerge,    \* bound: the most messages merged into an order book
    MaxBatch,    \* bound: the most changes waiting for the market thread
    MatchSide    \* whose side a match message names: "maker" or "taker"

ASSUME BookMirrorAssumption ==
    /\ IsFiniteSet(Orders)
    /\ OrderSide \in [Orders -> Side]
    /\ MaxSize \in Nat \ {0}
    /\ MaxMerge \in Nat
    /\ MaxBatch \in Nat \ {0}
    /\ MatchSide \in {"maker", "taker"}

VARIABLES
    live,            \* the exchange's open orders: id to size
    unused,          \* ids of the orders that have not been on the book yet
    synced,          \* the feed is in step with the exchange
    snapshot,        \* the order book the REST request returned, <<>> before that
    toMerge,         \* the messages queued since that order book was made
    productChanges,  \* the changes Market has queued for the product
    book,            \* the OrderBook
    closed,          \* the orders closed since the last snapshot was taken
    reordered        \* the orders that a reversed batch may have changed

vars == <<live, unused, synced, snapshot, toMerge, productChanges, book, closed,
          reordered>>

Init ==
    /\ live = <<>>
    /\ unused = Orders
    /\ synced = FALSE
    /\ snapshot = <<>>
    /\ toMerge = <<>>
    /\ productChanges = <<>>
    /\ book = EmptyBook
    /\ closed = {}
    /\ reordered = {}

-----------------------------------------------------------------------------
\* A message of the exchange is queued as a change, waits to be merged, or is
\* lost.
Deliver(pc) ==
    /\ synced => Len(productChanges) < MaxBatch
    /\ snapshot # <<>> => Len(toMerge) < MaxMerge
    /\ productChanges' = IF synced THEN Append(productChanges, pc)
                                   ELSE productChanges
    /\ toMerge' = IF ~synced /\ snapshot # <<>> THEN Append(toMerge, pc)
                                                ELSE toMerge
    /\ UNCHANGED <<synced, snapshot, book, reordered>>

Open(o, size) ==
    /\ o \in unused
    /\ live' = [id \in DOMAIN live \cup {o} |-> IF id = o THEN size ELSE live[id]]
    /\ unused' = unused \ {o}
    /\ Deliver([type |-> "open", order_id |-> o, size |-> size,
                side |-> OrderSide[o]])
    /\ UNCHANGED closed

\* The order leaves the exchange's book, filled or canceled.
Done(o) ==
    /\ o \in DOMAIN live
    /\ live' = [id \in DOMAIN live \ {o} |-> live[id]]
    /\ closed' = closed \cup {o}
    /\ Deliver([type |-> "done", order_id |-> o, side |-> OrderSide[o]])
    /\ UNCHANGED unused

\* A taker order was filled before it rested on the book.
DoneUnopened(o) ==
    /\ o \in unused
    /\ unused' = unused \ {o}
    /\ Deliver([type |-> "done", order_id |-> o, side |-> OrderSide[o]])
    /\ UNCHANGED <<live, closed>>

\* A taker order is matched with o; what is left of it may still be opened.
Match(o, taker, size) ==
    /\ o \in DOMAIN live
    /\ taker \in unused
    /\ OrderSide[taker] # OrderSide[o]
    /\ size <= live[o]
    /\ live' = [live EXCEPT ![o] = @ - size]
    /\ Deliver([type |-> "match", maker |-> o, taker |-> taker, size |-> size,
                side |-> IF MatchSide = "maker" THEN OrderSide[o]
                                                ELSE OrderSide[taker]])
    /\ UNCHANGED <<unused, closed>>

\* A change only makes an order smaller.
Change(o, size) ==
    /\ o \in DOMAIN live
    /\ size < live[o]
    /\ live' = [live EXCEPT ![o] = size]
    /\ Deliver([type |-> "change", order_id |-> o, size |-> size,
                side |-> OrderSide[o]])
    /\ UNCHANGED <<unused, closed>>

-----------------------------------------------------------------------------
\* The feed loses its place: the messages up to the next full order book do
\* not reach the book.
LoseSync ==
    /\ synced
    /\ synced' = FALSE
    /\ UNCHANGED <<live, unused, snapshot, toMerge, productChanges, book, closed,
                   reordered>>

\* The orders of one side of the exchange's book, as getProductChange lists
\* them.
SideOf(side) ==
    LET ids == SetToSeq({o \in DOMAIN live : OrderSide[o] = side /\ live[o] > 0})
    IN  [i \in DOMAIN ids |-> [order_id |-> ids[i], size |-> live[ids[i]]]]

TakeSnapshot ==
    /\ ~synced
    /\ snapshot = <<>>
    /\ snapshot' = <<SideOf("Buy"), SideOf("Sell")>>
    /\ closed' = {}
    /\ UNCHANGED <<live, unused, synced, toMerge, productChanges, book, reordered>>

Resync ==
    /\ ~synced
    /\ snapshot # <<>>
    /\ Len(productChanges) < MaxBatch
    /\ productChanges' =
         Append(productChanges, [type |-> "reset", bids |-> snapshot[1],
                                 asks |-> snapshot[2], toMerge |-> toMerge])
    /\ synced' = TRUE
    /\ snapshot' = <<>>
    /\ toMerge' = <<>>
    /\ UNCHANGED <<live, unused, book, closed, reordered>>

-----------------------------------------------------------------------------
Ids(orders) == {orders[i].order_id : i \in DOMAIN orders}

\* The orders that a message, or a change in the queue, is about.
About(pc) == IF pc.type = "match" THEN {pc.maker, pc.taker} ELSE {pc.order_id}

Names(pc) ==
    IF pc.type = "reset"
    THEN Ids(pc.bids) \cup Ids(pc.asks)
           \cup UNION {About(pc.toMerge[i]) : i \in DOMAIN pc.toMerge}
    ELSE About(pc)

HasReset(pcs) == \E i \in DOMAIN pcs : pcs[i].type = "reset"

\* The orders for which the order inside a batch matters: the ones named by a
\* change that shares the batch with a full order book, and a taker that is
\* opened in the batch of its match.
Disturbed(pcs) ==
    {o \in Orders : \E i, j \in DOMAIN pcs :
        /\ i # j
        /\ \/ o \in Names(pcs[i]) /\ pcs[j].type = "reset"
           \/ /\ pcs[i].type = "match" /\ pcs[i].taker = o
              /\ pcs[j].type = "open" /\ pcs[j].order_id = o}

\* What the book shows of the other orders, a batch cannot have spoilt; a full
\* order book makes up for what earlier batches did.
Suspect ==
    (IF HasReset(productChanges) THEN {} ELSE reordered) \cup Disturbed(productChanges)

\* The market thread takes the queue and applies it, the newest change first.
ProcessProductChanges ==
    /\ productChanges # <<>>
    /\ book' = OnProductChanges(book, Reverse(productChanges))
    /\ productChanges' = <<>>
    /\ reordered' = Suspect
    /\ UNCHANGED <<live, unused, synced, snapshot, toMerge, closed>>

Next ==
    \/ \E o \in Orders, size \in 1 .. MaxSize : Open(o, size)
    \/ \E o \in Orders : Done(o)
    \/ \E o \in Orders : DoneUnopened(o)
    \/ \E o, taker \in Orders, size \in 1 .. MaxSize : Match(o, taker, size)
    \/ \E o \in Orders, size \in 1 .. MaxSize : Change(o, size)
    \/ LoseSync
    \/ TakeSnapshot
    \/ Resync
    \/ ProcessProductChanges

Spec == Init /\ [][Next]_vars

-----------------------------------------------------------------------------
(***************************************************************************)
(* Properties.                                                             *)
(***************************************************************************)

\* The orders on one side of the book.
On(b, side) == b[VectorOf(side)]

\* Types of the exchange's book and of the server's book; an order is only ever
\* on its own side.
TypeOK ==
    /\ DOMAIN live \subseteq Orders
    /\ \A o \in DOMAIN live : live[o] \in 0 .. MaxSize
    /\ unused \subseteq Orders \ DOMAIN live
    /\ synced \in BOOLEAN
    /\ closed \subseteq Orders
    /\ reordered \subseteq Orders
    /\ DOMAIN book = {"m_bids", "m_asks"}
    /\ \A side \in Side :
         On(book, side) \in Seq([order_id : {o \in Orders : OrderSide[o] = side},
                                 size : Int])

\* The feed is in step and the market thread has applied all of its changes.
CaughtUp == synced /\ productChanges = <<>>

\* The book has caught up: every order that is open on the exchange is in the
\* server's book, and never with less than its size, although removeOrder and
\* updateOrder search the other side, and although a batch is applied newest
\* first, so that a match can meet the book before the open of its maker.  The
\* exceptions are the orders a reversed batch may have spoilt.
LiveMirrored ==
    CaughtUp =>
        \A o \in DOMAIN live \ reordered :
            live[o] > 0 =>
                \E i \in DOMAIN On(book, OrderSide[o]) :
                    LET order == On(book, OrderSide[o])[i]
                    IN  order.order_id = o /\ order.size >= live[o]

\* An order is in the book once and its size is not negative: addOrder after a
\* snapshot and init over an old book never list it again, and matchOrders,
\* which subtracts from an unchecked size, never takes a match off twice.  The
\* exceptions are the orders a reversed batch may have spoilt.
ListedOnce ==
    \A side \in Side : \A i, j \in DOMAIN On(book, side) :
        LET order == On(book, side)[i]
        IN  order.order_id \notin reordered =>
                /\ order.size >= 0
                /\ order.order_id = On(book, side)[j].order_id => i = j

\* What the book lists and the exchange does not was closed after the book's
\* last full order book: nothing of an older book survives init, but for an
\* order that a change older than the full order book brings back in its batch.
StaleWereClosed ==
    CaughtUp =>
        (Ids(book.m_bids) \cup Ids(book.m_asks)) \ reordered
            \subseteq (DOMAIN live \cup closed)

\* RealCoinbaseFeedTest.cpp requires that the server's book has as many asks as
\* the exchange's at the same sequence number.
AsksAgree ==
    CaughtUp => Len(book.m_asks) =
                  Cardinality({o \in DOMAIN live :
                                 OrderSide[o] = "Sell" /\ live[o] > 0})
=============================================================================
