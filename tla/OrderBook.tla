----------------------------- MODULE OrderBook -----------------------------
(***************************************************************************)
(* OrderBook and the product changes that update it, as operators.  A book *)
(* is a record of the two vectors m_bids and m_asks.  Prices are left out: *)
(* addOrder and init store them and no operation reads or changes them.    *)
(***************************************************************************)
EXTENDS Integers, Sequences, SequencesExt

Side == {"Buy", "Sell"}

Opposite(side) == IF side = "Buy" THEN "Sell" ELSE "Buy"

EmptyBook == [m_bids |-> <<>>, m_asks |-> <<>>]

\* The vector on which an order of the given side rests.
VectorOf(side) == IF side = "Buy" THEN "m_bids" ELSE "m_asks"

\* Faulty InitBook: a side without orders in the snapshot is not cleared.
InitBookKeepsSide(book, bids, asks) ==
    [m_bids |-> IF bids = <<>> THEN book.m_bids ELSE bids,
     m_asks |-> IF asks = <<>> THEN book.m_asks ELSE asks]

InitBook(book, bids, asks) ==
    [m_bids |-> bids, m_asks |-> asks]

\* Faulty AddOrder: the else is missing, so a bid is an ask as well.
AddOrderNoElse(book, order, side) ==
    [m_bids |-> IF side = "Buy" THEN Append(book.m_bids, order) ELSE book.m_bids,
     m_asks |-> Append(book.m_asks, order)]

AddOrder(book, order, side) ==
    [book EXCEPT ![VectorOf(side)] = Append(@, order)]

\* Position of the first order with this id, or 0 (std::find_if).
Find(orders, orderId) ==
    SelectInSeq(orders, LAMBDA o : o.order_id = orderId)

\* The vector with the size of the first order of this id set, or reduced.
WithSize(orders, orderId, size) ==
    [orders EXCEPT ![Find(orders, orderId)].size = size]

\* Faulty Reduced: the size is taken off twice.
ReducedTwice(orders, orderId, size) ==
    [orders EXCEPT ![Find(orders, orderId)].size = @ - 2 * size]

Reduced(orders, orderId, size) ==
    [orders EXCEPT ![Find(orders, orderId)].size = @ - size]

\* Faulty RemoveOrder: the end of the vector is not tested for before the
\* erase, which then takes the last order.
RemoveOrderUnchecked(book, orderId, side) ==
    LET v == VectorOf(Opposite(side)) IN
    IF book[v] # <<>> /\ Find(book[v], orderId) = 0
    THEN [book EXCEPT ![v] = SubSeq(@, 1, Len(@) - 1)]
    ELSE [book EXCEPT ![v] =
            RemoveFirstMatch(@, LAMBDA o : o.order_id = orderId)]

\* removeOrder looks on the side opposite to the one it is given.
RemoveOrder(book, orderId, side) ==
    [book EXCEPT ![VectorOf(Opposite(side))] =
        RemoveFirstMatch(@, LAMBDA o : o.order_id = orderId)]

\* updateOrder too; an unknown order is left alone.
UpdateOrder(book, orderId, newSize, side) ==
    LET v == VectorOf(Opposite(side)) IN
    IF Find(book[v], orderId) = 0
    THEN book
    ELSE [book EXCEPT ![v] = WithSize(@, orderId, newSize)]

\* The maker is looked for on the side opposite to the match's, the taker on
\* the match's side; without the maker nothing is done, without the taker only
\* the maker is reduced.
MatchOrders(book, makerOrderId, takerOrderId, matchedSize, side) ==
    LET makers == VectorOf(Opposite(side))
        takers == VectorOf(side)
        reduced == [book EXCEPT ![makers] = Reduced(@, makerOrderId, matchedSize)]
    IN  IF Find(book[makers], makerOrderId) = 0
        THEN book
        ELSE IF Find(book[takers], takerOrderId) = 0
             THEN reduced
             ELSE [reduced EXCEPT ![takers] =
                     Reduced(@, takerOrderId, matchedSize)]

\* updateOrderBook of each kind of product change but the reset.
ProductChangeOpen(book, pc) ==
    AddOrder(book, [order_id |-> pc.order_id, size |-> pc.size], pc.side)

ProductChangeDone(book, pc) == RemoveOrder(book, pc.order_id, pc.side)

ProductChangeChange(book, pc) ==
    UpdateOrder(book, pc.order_id, pc.size, pc.side)

ProductChangeMatch(book, pc) ==
    MatchOrders(book, pc.maker, pc.taker, pc.size, pc.side)

\* getProductChange picks the kind of change by the type of the message.
ApplyChange(book, pc) ==
    CASE pc.type = "open" -> ProductChangeOpen(book, pc)
      [] pc.type = "done" -> ProductChangeDone(book, pc)
      [] pc.type = "change" -> ProductChangeChange(book, pc)
      [] pc.type = "match" -> ProductChangeMatch(book, pc)

\* ProductChangeResetOrderBook::updateOrderBook: the snapshot, then the changes
\* merged into it, in order.
ResetOrderBook(book, bids, asks, toMerge) ==
    LET Merged[n \in 0 .. Len(toMerge)] ==
          IF n = 0 THEN InitBook(book, bids, asks)
                   ELSE ApplyChange(Merged[n - 1], toMerge[n])
    IN  Merged[Len(toMerge)]

\* updateOrderBook of any product change.
UpdateOrderBook(book, pc) ==
    IF pc.type = "reset"
    THEN ResetOrderBook(book, pc.bids, pc.asks, pc.toMerge)
    ELSE ApplyChange(book, pc)

\* Product::onProductChanges: the changes it is handed, in that order.
OnProductChanges(book, pcs) ==
    LET Updated[n \in 0 .. Len(pcs)] ==
          IF n = 0 THEN book ELSE UpdateOrderBook(Updated[n - 1], pcs[n])
    IN  Updated[Len(pcs)]
=============================================================================
