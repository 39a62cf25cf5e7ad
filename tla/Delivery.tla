------------------------------ MODULE Delivery ------------------------------
(***************************************************************************)
(* From the feed products through Market to the published order books.     *)
(*                                                                         *)
(* Market says which product changes are queued, batched and applied; what *)
(* they carry is the stream that FeedStream promises, one stream for each  *)
(* product, begun anew with each feed product.  A change is a full order   *)
(* book or a single message, and it has the sequence number it brings its  *)
(* listener to; messages that make no product change are not numbered.     *)
(* Most messages act on an order that an earlier one has opened.           *)
(***************************************************************************)
EXTENDS Market

CONSTANT
    MaxSeq          \* bound: the largest sequence number

ASSUME DeliveryAssumption == MaxSeq \in Nat

VARIABLES
    pos, kind,      \* the stream of each product's feed product
    content         \* what each change carries, by its number

stream == <<pos, kind, content>>

Stream(p) == INSTANCE FeedStream WITH pos <- pos[p], kind <- kind[p]

DeliveryInit ==
    /\ Init
    /\ pos = [p \in Products |-> 0]
    /\ kind = [p \in Products |-> "none"]
    /\ content = <<>>

-----------------------------------------------------------------------------
\* The exchange has not been past n for p when it made any of the changes so far.
NotBefore(p, n) ==
    \A i \in DOMAIN content : content[i].product = p => content[i].sequence <= n

\* The message after n needs d, the message that opened the order it acts on, or
\* 0 when it opens one itself.
CanNeed(p, n, d) ==
    /\ d < n
    /\ \A i \in DOMAIN content :
         content[i].product = p /\ content[i].sequence = d => content[i].needs = 0

\* CoinbaseFeedMessageHandler::onMessageReceived hands the next change of the
\* stream to the market.  A new feed product's order book is no older than what
\* the one before it has seen.
HandOn(p) ==
    /\ OnProductChange(p)
    /\ \E k \in {"book", "message"}, n \in 1 .. MaxSeq, d \in 0 .. MaxSeq :
        /\ IF k = "book" THEN NotBefore(p, n) /\ d = 0 ELSE CanNeed(p, n, d)
        /\ kind' = [kind EXCEPT ![p] = k]
        /\ pos' = [pos EXCEPT ![p] = n]
        /\ Stream(p)!Next
        /\ content' = Append(content, [product |-> p, kind |-> k,
                                       sequence |-> n, needs |-> d])

\* Faulty NewFeed: the new feed product does not wait for a full order book.
NewFeedWithoutBook ==
    /\ SubscribeFeed
    /\ pos' = [p \in Products |-> IF made'[p] = made[p] THEN pos[p] ELSE 0]
    /\ kind' = kind
    /\ UNCHANGED content

\* A feed product starts its stream when subscribe makes it.
NewFeed ==
    /\ SubscribeFeed
    /\ pos' = [p \in Products |-> IF made'[p] = made[p] THEN pos[p] ELSE 0]
    /\ kind' = [p \in Products |-> IF made'[p] = made[p] THEN kind[p] ELSE "none"]
    /\ UNCHANGED content

\* Every other step of Market leaves the streams alone.
Elsewhere ==
    /\ \/ \E type \in RequestTypes, c \in Clients, p \in Products :
            Request(type, c, p)
       \/ SubscribeProduct \/ SubscribeTrades
       \/ Unsubscribe \/ UnsubscribeCrashes \/ UnsubscribeFeed \/ UnsubscribeJoin
       \/ \E p \in Products : OnMessageReceived(p)
       \/ OnTrade
       \/ MarketThread
       \/ Stop
    /\ UNCHANGED stream

DeliveryNext == (\E p \in Products : HandOn(p)) \/ NewFeed \/ Elsewhere

DeliverySpec == DeliveryInit /\ [][DeliveryNext]_<<vars, stream>>

-----------------------------------------------------------------------------
\* updateOrderBook: a full order book replaces what the book reflects; a message
\* takes effect when its order is there and is otherwise ignored, as matchOrders,
\* updateOrder and removeOrder return early.
Updated(r, pc) ==
    LET c == content[pc.number] IN
    IF c.kind = "book" THEN 1 .. c.sequence
    ELSE IF c.needs \in r \cup {0} THEN r \cup {c.sequence} ELSE r

\* The sequence numbers the book of p reflects after n changes.
ReflectedAfter(p, n) ==
    LET book == m_products[p].book
        Reflected[i \in 0 .. Len(book)] ==
          IF i = 0 THEN {} ELSE Updated(Reflected[i - 1], book[i])
    IN  Reflected[n]

\* onProductChanges publishes the book after each group of changes, as every
\* updateOrderBook returns true: what the book of p reflects is also what the
\* subscribers of p were sent last.
Published(p) == ReflectedAfter(p, Len(m_products[p].book))

-----------------------------------------------------------------------------
(***************************************************************************)
(* Properties.                                                             *)
(***************************************************************************)

\* Changes applied in the order they were queued, from a full order book on,
\* make a book without a gap: nothing between onProductChange and
\* onProductChanges loses or repeats a change.
InOrderIsExact ==
    \A p \in DOMAIN m_products :
        LET book == m_products[p].book IN
        (/\ book # <<>>
         /\ content[book[1].number].kind = "book"
         /\ \A i \in 1 .. Len(book) - 1 : book[i].number < book[i + 1].number)
        => Published(p) = 1 .. content[Last(book).number].sequence

IsBook(pc) == content[pc.number].kind = "book"

\* The change makes a book reflect the message d.
Brings(pc, d) ==
    IF IsBook(pc) THEN d \in 1 .. content[pc.number].sequence
                  ELSE d = content[pc.number].sequence

\* Two changes were applied in the wrong order, which takes a batch they shared,
\* and it cost the change its effect: an older full order book came after it, or
\* what it needs came after it or was itself undone by an older full order book.
LostToReversal(p, pc) ==
    LET book == m_products[p].book
        d == content[pc.number].needs
    IN  \E i, j \in DOMAIN book :
            /\ i < j
            /\ book[j].number < book[i].number
            /\ \/ book[i] = pc /\ (IsBook(book[j]) \/ Brings(book[j], d))
               \/ Brings(book[i], d) /\ IsBook(book[j])

\* What processProductChanges has applied to a product is in its book, or fell
\* victim to the reversed order of a batch.
MissingWereReversed ==
    \A p \in DOMAIN m_products : \A pc \in applied :
        pc.product = p /\ pc.feed = made[p] /\ p \in m_prodIdToListener =>
            \/ content[pc.number].sequence \in Published(p)
            \/ LostToReversal(p, pc)

\* A message is applied to a book that reflects it already, and so lists an order
\* twice or takes a match off twice, only where a full order book newer than the
\* message was applied before it: no change is applied twice, and those that a
\* former feed product has left in the queue repeat nothing.
RepeatedOnNewerBook ==
    \A p \in DOMAIN m_products :
        LET book == m_products[p].book IN
        \A i \in DOMAIN book :
            (/\ ~IsBook(book[i])
             /\ content[book[i].number].sequence \in ReflectedAfter(p, i - 1))
            => \E j \in 1 .. i - 1 : IsBook(book[j]) /\ book[i].number < book[j].number

\* The published book of a product never loses what an earlier one reflected,
\* although the changes of a batch are applied newest first and changes of the
\* feed product before may be among them.
NeverGoesBack ==
    [][\A p \in DOMAIN m_products :
         p \in DOMAIN m_products' => Published(p) \subseteq Published(p)']_<<vars, stream>>

\* TradeDataMessagingFormat.md promises an "OrderBook message with up-to-date
\* asks and bids orders": once every change is applied, the published book
\* reflects all that the feed product has handed on.
BookUpToDate ==
    \A p \in DOMAIN m_products :
        (/\ servicePc = "idle"
         /\ productChanges = <<>> /\ currentChanges = <<>>
         /\ kind[p] # "none")
        => Published(p) = 1 .. pos[p]
=============================================================================
