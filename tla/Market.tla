------------------------------- MODULE Market -------------------------------
(***************************************************************************)
(* Market and CoinbaseFeedClient: the threads of the server and the        *)
(* mutexes they share.                                                     *)
(*                                                                         *)
(* The service thread (ClientService) subscribes and unsubscribes; the     *)
(* websocket thread dispatches feed messages and trades; the handler       *)
(* thread of each feed product queues product changes; the market thread   *)
(* (processProductChanges) applies them in batches.  A product change is   *)
(* named by its product, the feed product that made it (the how-manieth    *)
(* for this product id) and its place among all the changes queued.        *)
(***************************************************************************)
EXTENDS Naturals, FiniteSets, Sequences, SequencesExt

CONSTANTS
    Clients,
    Products,
    RequestTypes,   \* what clients ask for
    Trades,         \* the feed carries messages that are trades
    MaxRequests,    \* bound: requests the service handles
    MaxChanges      \* bound: product changes all feed products make

ASSUME MarketAssumption ==
    /\ RequestTypes \subseteq {"subscribe", "unsubscribe"}
    /\ Trades \in BOOLEAN
    /\ MaxRequests \in Nat
    /\ MaxChanges \in Nat

VARIABLES
    \* The mutexes held across steps: their owner, or "free".
    marketDataMutex, mutexTrades, m_mutexFeedData,
    \* The registries they protect.
    m_products,             \* product id to its clients and its order book
    m_clients,              \* ids of the clients that have a Client object
    m_trade_publishers,     \* product ids with a trade publisher
    m_prodIdToListener,     \* product ids with a feed product
    \* The queue of product changes and the batch taken from it.
    productChanges, currentChanges,
    isRunning,
    \* Control state of the threads.
    servicePc, request, wsPc, wsProduct, marketPc,
    alive,                  \* FALSE once the process has crashed
    \* What the feed and the clients have done.
    made,                   \* feed products made so far, for each product id
    delivered,              \* number of changes queued by feed products
    applied, dropped,       \* changes the market thread is done with
    subscribed,             \* client and product of each subscription in force
    requests                \* number of requests handled

locks == <<marketDataMutex, mutexTrades, m_mutexFeedData>>
registries == <<m_products, m_clients, m_trade_publishers, m_prodIdToListener>>
service == <<servicePc, request, subscribed, requests>>
websocket == <<wsPc, wsProduct>>
market == <<marketPc, currentChanges, applied, dropped>>
feed == <<made, delivered>>

vars == <<locks, registries, productChanges, isRunning, service, websocket,
          market, feed, alive>>

NoRequest == [type |-> "none"]

Init ==
    /\ marketDataMutex = "free"
    /\ mutexTrades = "free"
    /\ m_mutexFeedData = "free"
    /\ m_products = <<>>
    /\ m_clients = {}
    /\ m_trade_publishers = {}
    /\ m_prodIdToListener = {}
    /\ productChanges = <<>>
    /\ currentChanges = <<>>
    /\ isRunning = TRUE
    /\ servicePc = "idle"
    /\ request = NoRequest
    /\ wsPc = "idle"
    /\ wsProduct = NoRequest
    /\ marketPc = "check"
    /\ alive = TRUE
    /\ made = [p \in Products |-> 0]
    /\ delivered = 0
    /\ applied = {}
    /\ dropped = {}
    /\ subscribed = {}
    /\ requests = 0

-----------------------------------------------------------------------------
(***************************************************************************)
(* The service thread.                                                     *)
(***************************************************************************)
\* Faulty NewRequest: the two strings are swapped.
SwappedRequest(type, c, p) == [type |-> type, client |-> p, product |-> c]

NewRequest(type, c, p) == [type |-> type, client |-> c, product |-> p]

Request(type, c, p) ==
    /\ alive
    /\ servicePc = "idle"
    /\ requests < MaxRequests
    /\ requests' = requests + 1
    /\ request' = NewRequest(type, c, p)
    /\ servicePc' = type
    /\ UNCHANGED <<locks, registries, productChanges, isRunning, subscribed,
                   websocket, market, feed, alive>>

NewProduct == [m_clients |-> {}, book |-> <<>>]

\* Faulty SubscribeProduct: a product that exists is replaced by a new one.
SubscribeReplaces ==
    LET p == request.product IN
    /\ alive
    /\ servicePc = "subscribe"
    /\ marketDataMutex = "free"
    /\ m_clients' = m_clients \cup {request.client}
    /\ m_products' = [q \in DOMAIN m_products \cup {p} |->
                        IF q = p THEN NewProduct ELSE m_products[q]]
    /\ IF p \in DOMAIN m_products
       THEN servicePc' = "subscribeTrades" /\ UNCHANGED marketDataMutex
       ELSE servicePc' = "subscribeFeed" /\ marketDataMutex' = "service"
    /\ UNCHANGED <<mutexTrades, m_mutexFeedData, m_trade_publishers,
                   m_prodIdToListener, productChanges, isRunning, request,
                   subscribed, requests, websocket, market, feed, alive>>

\* subscribe, first part: the client gets a Client object; a product the market
\* does not have is created, and marketDataMutex stays locked for the feed
\* client.
SubscribeProduct ==
    LET p == request.product IN
    /\ alive
    /\ servicePc = "subscribe"
    /\ marketDataMutex = "free"
    /\ m_clients' = m_clients \cup {request.client}
    /\ IF p \in DOMAIN m_products
       THEN /\ servicePc' = "subscribeTrades"
            /\ UNCHANGED <<m_products, marketDataMutex>>
       ELSE /\ m_products' = [q \in DOMAIN m_products \cup {p} |->
                                IF q = p THEN NewProduct ELSE m_products[q]]
            /\ marketDataMutex' = "service"
            /\ servicePc' = "subscribeFeed"
    /\ UNCHANGED <<mutexTrades, m_mutexFeedData, m_trade_publishers,
                   m_prodIdToListener, productChanges, isRunning, request,
                   subscribed, requests, websocket, market, feed, alive>>

\* Faulty SubscribeFeed: marketDataMutex is not unlocked.
SubscribeKeepsLock ==
    LET p == request.product IN
    /\ alive
    /\ servicePc = "subscribeFeed"
    /\ m_mutexFeedData = "free"
    /\ m_prodIdToListener' = m_prodIdToListener \cup {p}
    /\ made' = IF p \in m_prodIdToListener THEN made
                                           ELSE [made EXCEPT ![p] = @ + 1]
    /\ servicePc' = "subscribeTrades"
    /\ UNCHANGED <<m_clients, locks, m_products, m_trade_publishers,
                   productChanges, isRunning, request, subscribed, requests,
                   websocket, market, delivered, alive>>

\* CoinbaseFeedClient::subscribe, and the end of marketDataMutex's scope.
SubscribeFeed ==
    LET p == request.product IN
    /\ alive
    /\ servicePc = "subscribeFeed"
    /\ m_mutexFeedData = "free"
    /\ m_prodIdToListener' = m_prodIdToListener \cup {p}
    /\ made' = IF p \in m_prodIdToListener THEN made
                                           ELSE [made EXCEPT ![p] = @ + 1]
    /\ marketDataMutex' = "free"
    /\ servicePc' = "subscribeTrades"
    /\ UNCHANGED <<m_clients, mutexTrades, m_mutexFeedData, m_products,
                   m_trade_publishers, productChanges, isRunning, request,
                   subscribed, requests, websocket, market, delivered, alive>>

\* Faulty SubscribeTrades: mutexTrades is not unlocked.
SubscribeKeepsTrades ==
    /\ alive
    /\ servicePc = "subscribeTrades"
    /\ mutexTrades = "free"
    /\ mutexTrades' = "service"
    /\ m_trade_publishers' = m_trade_publishers \cup {request.product}
    /\ subscribed' = subscribed \cup {<<request.client, request.product>>}
    /\ servicePc' = "idle"
    /\ request' = NoRequest
    /\ UNCHANGED <<m_clients, marketDataMutex, m_mutexFeedData, m_products,
                   m_prodIdToListener, productChanges, isRunning, requests,
                   websocket, market, feed, alive>>

SubscribeTrades ==
    /\ alive
    /\ servicePc = "subscribeTrades"
    /\ mutexTrades = "free"
    /\ m_trade_publishers' = m_trade_publishers \cup {request.product}
    /\ subscribed' = subscribed \cup {<<request.client, request.product>>}
    /\ servicePc' = "idle"
    /\ request' = NoRequest
    /\ UNCHANGED <<m_clients, locks, m_products, m_prodIdToListener,
                   productChanges, isRunning, requests, websocket, market,
                   feed, alive>>

\* Product::removeClient and Product::hasClients; nothing calls appendClient.
RemoveClient(product, c) == [product EXCEPT !.m_clients = @ \ {c}]

HasClients(product) == product.m_clients # {}

\* unsubscribe locks both mutexes together.
Unsubscribe ==
    LET p == request.product IN
    /\ alive
    /\ servicePc = "unsubscribe"
    /\ marketDataMutex = "free"
    /\ mutexTrades = "free"
    /\ p \in DOMAIN m_products
    /\ m_products' = [m_products EXCEPT ![p] = RemoveClient(@, request.client)]
    /\ subscribed' = subscribed \ {<<request.client, p>>}
    /\ IF HasClients(m_products'[p])
       THEN /\ servicePc' = "idle"
            /\ request' = NoRequest
            /\ UNCHANGED <<marketDataMutex, mutexTrades>>
       ELSE /\ servicePc' = "unsubscribeFeed"
            /\ marketDataMutex' = "service"
            /\ mutexTrades' = "service"
            /\ UNCHANGED request
    /\ UNCHANGED <<m_clients, m_mutexFeedData, m_trade_publishers,
                   m_prodIdToListener, productChanges, isRunning, requests,
                   websocket, market, feed, alive>>

\* Otherwise the end iterator is dereferenced.
UnsubscribeCrashes ==
    /\ alive
    /\ servicePc = "unsubscribe"
    /\ marketDataMutex = "free"
    /\ mutexTrades = "free"
    /\ request.product \notin DOMAIN m_products
    /\ alive' = FALSE
    /\ UNCHANGED <<locks, registries, productChanges, isRunning, service,
                   websocket, market, feed>>

\* CoinbaseFeedClient::unsubscribe starts to destroy the feed product, whose
\* handler thread may still queue changes until it is joined.
UnsubscribeFeed ==
    /\ alive
    /\ servicePc = "unsubscribeFeed"
    /\ m_mutexFeedData = "free"
    /\ m_mutexFeedData' = "service"
    /\ servicePc' = "unsubscribeJoin"
    /\ UNCHANGED <<marketDataMutex, mutexTrades, registries, productChanges,
                   isRunning, request, subscribed, requests, websocket,
                   market, feed, alive>>

\* Faulty ErasePublisher: the trade publisher is forgotten.
KeepPublisher(p) == m_trade_publishers

ErasePublisher(p) == m_trade_publishers \ {p}

\* The handler thread is joined; the product leaves all three registries.
UnsubscribeJoin ==
    LET p == request.product IN
    /\ alive
    /\ servicePc = "unsubscribeJoin"
    /\ m_prodIdToListener' = m_prodIdToListener \ {p}
    /\ m_products' = [q \in DOMAIN m_products \ {p} |-> m_products[q]]
    /\ m_trade_publishers' = ErasePublisher(p)
    /\ marketDataMutex' = "free"
    /\ mutexTrades' = "free"
    /\ m_mutexFeedData' = "free"
    /\ servicePc' = "idle"
    /\ request' = NoRequest
    /\ UNCHANGED <<m_clients, productChanges, isRunning, subscribed,
                   requests, websocket, market, feed, alive>>

-----------------------------------------------------------------------------
(***************************************************************************)
(* The feed.                                                               *)
(***************************************************************************)

NewChange(p) == [product |-> p, feed |-> made[p], number |-> delivered + 1]

\* The handler thread of p's feed product calls onProductChange.
OnProductChange(p) ==
    /\ alive
    /\ p \in m_prodIdToListener
    /\ delivered < MaxChanges
    /\ productChanges' = Append(productChanges, NewChange(p))
    /\ delivered' = delivered + 1
    /\ UNCHANGED <<locks, registries, isRunning, service, websocket, market,
                   made, alive>>

\* CoinbaseFeedClient::onMessageReceived with a message that is a trade: the
\* feed client's mutex is held until onTrade has returned.
OnMessageReceived(p) ==
    /\ alive
    /\ Trades
    /\ made[p] > 0
    /\ wsPc = "idle"
    /\ m_mutexFeedData = "free"
    /\ m_mutexFeedData' = "websocket"
    /\ wsPc' = "onTrade"
    /\ wsProduct' = p
    /\ UNCHANGED <<marketDataMutex, mutexTrades, registries, productChanges,
                   isRunning, service, market, feed, alive>>

\* Market::onTrade publishes the trade, or drops it for want of a publisher.
OnTrade ==
    /\ alive
    /\ wsPc = "onTrade"
    /\ mutexTrades = "free"
    /\ m_mutexFeedData' = "free"
    /\ wsPc' = "idle"
    /\ wsProduct' = NoRequest
    /\ UNCHANGED <<marketDataMutex, mutexTrades, registries, productChanges,
                   isRunning, service, market, feed, alive>>

-----------------------------------------------------------------------------
(***************************************************************************)
(* The market thread: processProductChanges.                               *)
(***************************************************************************)
CheckRunning ==
    /\ alive
    /\ marketPc = "check"
    /\ marketPc' = IF isRunning THEN "wait" ELSE "exited"
    /\ UNCHANGED <<locks, registries, productChanges, isRunning, service,
                   websocket, currentChanges, applied, dropped, feed, alive>>

\* Faulty Left: the queue is copied and not cleared.
AllLeft(queue) == queue

Left(queue) == <<>>

\* Faulty TakeChanges: the newest change is taken first.
TakeNewest ==
    /\ alive
    /\ marketPc = "wait"
    /\ productChanges # <<>>
    /\ currentChanges' = <<Last(productChanges)>>
    /\ productChanges' = Front(productChanges)
    /\ marketPc' = "apply"
    /\ UNCHANGED <<locks, registries, isRunning, service, websocket, applied,
                   dropped, feed, alive>>

\* The wait ends with a change in the queue or with its timeout.
TakeChanges ==
    /\ alive
    /\ marketPc = "wait"
    /\ currentChanges' = productChanges
    /\ productChanges' = Left(productChanges)
    /\ marketPc' = "apply"
    /\ UNCHANGED <<locks, registries, isRunning, service, websocket, applied,
                   dropped, feed, alive>>

\* Faulty GroupOf: one change for each key, as a map would keep it.
OneOfGroup(changes, p) ==
    SelectSeq(changes, LAMBDA pc : pc = SelectSeq(changes, LAMBDA c : c.product = p)[1])

\* The changes of a product in the order an unordered_multimap iterates them:
\* the loop inserts the changes one by one, and an insert of an equal key goes
\* before those already there.
GroupOf(changes, p) ==
    LET Inserted[n \in 0 .. Len(changes)] ==
          IF n = 0 THEN <<>>
          ELSE IF changes[n].product = p THEN <<changes[n]>> \o Inserted[n - 1]
               ELSE Inserted[n - 1]
    IN  Inserted[Len(changes)]

\* Faulty Known: the product is looked up among the trade publishers.
HasPublisher(p) == p \in m_trade_publishers

Known(p) == p \in DOMAIN m_products

\* Under marketDataMutex each group goes to its product, or is dropped when the
\* market has no such product.
ApplyChanges ==
    /\ alive
    /\ marketPc = "apply"
    /\ marketDataMutex = "free"
    /\ m_products' = [p \in DOMAIN m_products |->
                        [m_products[p] EXCEPT !.book =
                           IF Known(p) THEN @ \o GroupOf(currentChanges, p)
                                       ELSE @]]
    /\ applied' = applied \cup
         UNION {ToSet(GroupOf(currentChanges, p)) : p \in {q \in DOMAIN m_products : Known(q)}}
    /\ dropped' = dropped \cup
         {pc \in ToSet(currentChanges) : ~Known(pc.product)}
    /\ currentChanges' = <<>>
    /\ marketPc' = "check"
    /\ UNCHANGED <<m_clients, locks, m_trade_publishers, m_prodIdToListener,
                   productChanges, isRunning, service, websocket, feed, alive>>

\* Market::stop, and the destructor, end the loop; what is queued stays queued.
Stop ==
    /\ alive
    /\ isRunning
    /\ isRunning' = FALSE
    /\ UNCHANGED <<locks, registries, productChanges, service, websocket,
                   market, feed, alive>>

-----------------------------------------------------------------------------
ServiceThread ==
    \/ SubscribeProduct
    \/ SubscribeFeed
    \/ SubscribeTrades
    \/ Unsubscribe
    \/ UnsubscribeCrashes
    \/ UnsubscribeFeed
    \/ UnsubscribeJoin

MarketThread == CheckRunning \/ TakeChanges \/ ApplyChanges

Next ==
    \/ \E type \in RequestTypes, c \in Clients, p \in Products :
         Request(type, c, p)
    \/ ServiceThread
    \/ \E p \in Products : OnProductChange(p) \/ OnMessageReceived(p)
    \/ OnTrade
    \/ MarketThread
    \/ Stop

Spec == Init /\ [][Next]_vars

\* Every thread is scheduled, and a thread that waits for a mutex that is
\* released again and again gets it in the end.
Fairness ==
    /\ SF_vars(ServiceThread)
    /\ SF_vars(OnTrade)
    /\ SF_vars(MarketThread)

FairSpec == Spec /\ Fairness

-----------------------------------------------------------------------------
(***************************************************************************)
(* Properties.                                                             *)
(***************************************************************************)
ProductChange == [product : Products, feed : Nat, number : Nat]

\* Types of the state of Market, CoinbaseFeedClient and their threads.
TypeOK ==
    /\ marketDataMutex \in {"free", "service"}
    /\ mutexTrades \in {"free", "service"}
    /\ m_mutexFeedData \in {"free", "service", "websocket"}
    /\ DOMAIN m_products \subseteq Products
    /\ \A p \in DOMAIN m_products :
         m_products[p] \in [m_clients : SUBSET Clients, book : Seq(ProductChange)]
    /\ m_clients \subseteq Clients
    /\ m_trade_publishers \subseteq Products
    /\ m_prodIdToListener \subseteq Products
    /\ productChanges \in Seq(ProductChange)
    /\ currentChanges \in Seq(ProductChange)
    /\ isRunning \in BOOLEAN
    /\ servicePc \in {"idle", "subscribe", "subscribeFeed", "subscribeTrades",
                      "unsubscribe", "unsubscribeFeed", "unsubscribeJoin"}
    /\ servicePc # "idle" =>
         request \in [type : RequestTypes, client : Clients, product : Products]
    /\ wsPc \in {"idle", "onTrade"}
    /\ wsPc = "onTrade" => wsProduct \in Products
    /\ marketPc \in {"check", "wait", "apply", "exited"}
    /\ alive \in BOOLEAN
    /\ made \in [Products -> Nat]
    /\ delivered \in Nat
    /\ applied \subseteq ProductChange
    /\ dropped \subseteq ProductChange
    /\ subscribed \subseteq Clients \X Products
    /\ requests \in Nat

\* The three registries, kept under three mutexes, agree whenever the service is
\* not in the middle of subscribe or unsubscribe: a product in the market has a
\* feed product and a trade publisher, and nothing is left of one that is not.
RegistriesAgree ==
    servicePc \in {"idle", "subscribe", "unsubscribe"} =>
        /\ m_prodIdToListener = DOMAIN m_products
        /\ m_trade_publishers = DOMAIN m_products

Numbers(changes) == {pc.number : pc \in changes}

\* Every change handed to onProductChange is in exactly one place, once: in the
\* queue, in the batch, applied to a book, or dropped.
EachChangeOnce ==
    /\ Numbers(ToSet(productChanges) \cup ToSet(currentChanges)
                  \cup applied \cup dropped) = 1 .. delivered
    /\ Len(productChanges) + Len(currentChanges)
         + Cardinality(applied) + Cardinality(dropped) = delivered

\* processProductChanges drops changes only of feed products that are gone:
\* subscribe creates the product before its feed, and unsubscribe keeps the
\* market thread out until the feed product has been joined.
DroppedAreOrphans ==
    \A pc \in dropped :
        pc.product \in m_prodIdToListener => pc.feed < made[pc.product]

\* Changes are applied batch after batch: whatever the order within a batch, no
\* change overtakes one of an earlier batch.
BatchesInOrder ==
    LET done == applied \cup dropped
        batch == ToSet(currentChanges)
    IN  /\ \A a \in done, b \in batch : a.number < b.number
        /\ \A b \in done \cup batch, c \in ToSet(productChanges) :
             b.number < c.number

\* unsubscribe, with mutexTrades, waits for m_mutexFeedData; onMessageReceived,
\* with m_mutexFeedData, waits for mutexTrades.
CrossedLocks ==
    /\ servicePc = "unsubscribeFeed" /\ mutexTrades = "service"
    /\ wsPc = "onTrade" /\ m_mutexFeedData = "websocket"

\* subscribe and unsubscribe return, so the client gets its response: among all
\* the ways their three mutexes can be waited for, the only one that keeps them
\* from it is the crossed pair.
RequestsReturn ==
    servicePc # "idle" ~> (servicePc = "idle" \/ CrossedLocks \/ ~alive)

\* A queued change is taken and applied or dropped while the market runs, with
\* the same exception.
ChangesProcessed ==
    \A n \in 1 .. MaxChanges :
        (delivered >= n) ~>
            \/ n \in Numbers(applied \cup dropped)
            \/ CrossedLocks \/ ~isRunning \/ ~alive

\* ClientMessagingFormat.md gives the unsubscribe request a response: once
\* Market::unsubscribe has locked its mutexes, it returns.
UnsubscribeReturns == servicePc = "unsubscribeFeed" ~> servicePc = "idle"

\* ClientMessagingFormat.md gives the unsubscribe request a response: a client
\* that unsubscribes from a product it has subscribed to does not end the
\* server, whatever other clients have unsubscribed from before.
OwnUnsubscribeIsSafe ==
    ~alive => <<request.client, request.product>> \notin subscribed
=============================================================================
