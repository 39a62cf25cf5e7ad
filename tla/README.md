# Verification of the quote server

TLA+ specifications of the quote server: a C++ program that follows the level-3
feed of an exchange (Coinbase Pro), keeps an order book per product and publishes
books and trades to clients.  TLC checks the specifications on small instances;
TLAPS proves the safety properties for every value of the constants.  Paths below are
relative to the repository.

## 1. The system

| Component | State | Operations | Talks to |
|---|---|---|---|
| `ClientService` (`src/ClientService.cpp`) | registered client ids | one loop: receive a request, act, reply | calls `Market::subscribe` and `unsubscribe` |
| `Market` (`src/Market.cpp`) | products, clients, trade publishers, queue of product changes; three mutexes | `subscribe`, `unsubscribe`, `onProductChange`, `onTrade`, `processProductChanges` (own thread), `stop` | feed client, products |
| `Product`, `OrderBook`, `ProductChange*` (`include/product`, `src/OrderBook.cpp`) | client list, bids, asks | `onProductChanges`, `init`, `addOrder`, `removeOrder`, `updateOrder`, `matchOrders` | publisher |
| `CoinbaseFeedClient` (`src/coinbase`) | product id to feed product, one mutex | `subscribe`, `unsubscribe`, `onMessageReceived` (websocket thread) | feed products, `Market::onTrade` |
| `CoinbaseFeedProduct` | message queue, last sequence number, "requesting" flag, two threads, one mutex | `onMessageReceived`, `requestFullOrderBook`, `requestFullOrderBookImpl`, `messageLoop`, destructor | REST transport, message handler |
| `CoinbaseFeedMessageHandler` | none | message to product change | `Market::onProductChange` |
| Transports | sockets | REST request, websocket, ZMQ publish | the exchange, the clients |
| Client program (`client.cpp`) | scenario queue, a listener thread and its flag for each subscription, queue of feed messages | request loop, endpoint, listener and printing threads | `ClientService`, publishers |

What is hard about it: a gap in the sequence numbers is repaired by downloading a
book in one thread while a second receives messages and a third hands on older
ones; three threads take four mutexes in different orders; registries that belong
together are kept under different mutexes; changes cross two queues, one of which
hands them on newest first; a client's listeners outlive their subscriptions; requests
fail and are not repeated; objects are destroyed while their threads run.  `PROJECT.json`
lists these places under `hazards`.

What makes each component correct:

* feed product: what it hands on is a consecutive stream restarted only by newer
  books; nothing received is lost; its joins end;
* order book: it lists the exchange's open orders, once, with their sizes, and
  nothing else;
* market and feed client: the registries agree, each change is processed once, in
  order, by the product it belongs to; requests return;
* delivery: the published book reflects what the feed product has handed on;
* the way of a trade: the exchange's channels follow the registry, each message is
  taken off the wire, and what a listener of a client brings is shown in order and once;
* ports: no two publishers are bound to the same one;
* client service and client: each request is answered once, whatever it contains; a
  client's id is known when it is used, and a client listens to exactly the products
  whose last confirmation was a subscription.

## 2. Plan

1. `FeedStream`, `FeedProduct`, `FeedProductProofs`: the feed product, its promise,
   and the proof that it keeps it.  *Done.*
2. `OrderBook`, `BookMirror`: the book against the exchange's.  *Done.*
3. `Market`: threads, mutexes and registries of market and feed client.  *Done.*
4. `Session`: `ClientService` and the client program, with malformed requests, a
   failing list of products, lost answers, restarts and endpoint threads.  *Done.*
5. `Delivery`: `Market` with a `FeedStream` for each product, from the feed product to
   the published book.  *Done.*
6. `Endpoints`, `TradeMessages`, `TradeChannel`, `TradeFlow`: the websocket connection,
   the ports, and the way of a trade to a client, around `Market`.  *Done.*
7. Proofs of the safety properties of `FeedProduct`, `BookMirror`, `Market`, `Session`
   and `TradeFlow`, and of the refinement of `TradeChannel`.  *Done.*
8. Proofs of the safety properties of `Delivery`, on top of the invariant of `Market`.
   *Done.*

## 3. Modules and the code

### FeedStream
The promise of a feed product to its listener, as two variables (position and kind
of the last delivery) and two actions: a live message moves the book by exactly one
sequence number, a full order book moves it anywhere but back.  The first delivery
is a full order book.

### FeedProduct
One `CoinbaseFeedProduct`.  Variables named `m_...` are the members; `wsPc`, `reqPc`,
`loopPc` and `ownerPc` are the control states of the websocket thread, the request
thread, the message thread and the owner.  A step is what a thread does without
letting another thread see the difference: a critical section is one action, except
where it waits inside (`ReceiveGap` then `JoinAndRequest`: the join with the mutex
held) or loops (`BeginMerge`, `MergeMessage`, `PushOrderBook`), where
`m_messagesMutex` shows who holds it.

* `onMessageReceived` is `ReceiveWhileRequesting`, `ReceiveGap`, `ReceiveTooOld`,
  `ReceiveInOrder`.
* `requestFullOrderBookImpl` is `RestRequest` (answer or failure), `RequestFails` (no
  answer, no sequence number, sequence number 0), `RequestTerminates` (not JSON, an
  uncaught exception), the merge, `RequestReturns`.
* `messageLoop` is `LoopCheck`, `LoopTake`, `LoopHandle`; the timeout of `wait_for`
  is the case of an empty queue.
* The destructor is `Destroy`, `DestroyJoinsRequest`, `DestroyJoinsHandler`.

A message is its type and its sequence number: messages of the `full` channel are
numbered consecutively; messages of `ticker` and `heartbeat`, which the subscription
asks for too, repeat a number and make no product change ("echoes").  The model
keeps, besides the code's state, what the message handler has passed on: `handled`,
`handledKind` and `reflected`, the sequence numbers the listener's book accounts for.

The exchange is external.  It may drop messages, it delivers in order, and the order
book it returns is the one it has at a moment between request and response, so no
older than a message that was received before the request.

### OrderBook and BookMirror
`OrderBook` has the five operations, `updateOrderBook` of every product change and
`onProductChanges` as operators on a record of two sequences, searching the side the code
searches.  `BookMirror` runs them against an exchange that opens, matches, changes and
closes orders.  While the feed is in step a message becomes a change in Market's queue
(`Deliver`); a feed that has lost its place takes a snapshot, merges what follows and
queues both as one change (`Resync`).  `ProcessProductChanges` is the market thread: it
takes the whole queue and applies it newest first, the order in which the
`unordered_multimap` of libstdc++ has equal keys, as in `Market.GroupOf`.

What a reversed batch does to the book depends on what is in it.  Messages about the same
resting order mostly commute: two matches subtract in either order, `removeOrder` and
`updateOrder` touch nothing, and a match before its maker's open is lost, which leaves the
order too large.  Three combinations do worse: a full order book with an open or a match
from before it (the order is listed twice, a closed one comes back, a match is subtracted
twice and the size may be negative), a full order book with an open from after it (the order
is wiped), and a match with the later open of what is left of its taker (the match is
subtracted from the remainder).  `Disturbed` names the orders concerned, and the ghost
variable `reordered` keeps them until the next full order book that comes through.  The
properties of the book except these orders and no others.

Prices are left out: no operation reads them.  Sizes are integers.  The side a
match message names is a constant, `MatchSide`, because nothing in the repository says
whose it is.  `matchOrders` looks for the maker's order on the side opposite to the
message's, so it takes the side for the taker's, and the configurations say `"taker"`;
the theorems hold for both.

### Market
`Market` and `CoinbaseFeedClient` together, because their mutexes interact.  A mutex
that is held across a step is a variable with its owner; `productChangeHandlerMutex`
is never held while waiting and is part of its actions.  `SubscribeProduct`,
`SubscribeFeed`, `SubscribeTrades` are the three critical sections of `subscribe`;
`Unsubscribe`, `UnsubscribeFeed`, `UnsubscribeJoin` follow `unsubscribe` into the feed
client and the feed product's destructor; `UnsubscribeCrashes` is the dereference of
the end iterator.  `OnMessageReceived` and `OnTrade` are the websocket thread with a
trade; a message that is no trade changes nothing here (`FeedProduct` shows that the
call returns).  A batch of changes is applied in the order in which the
`unordered_multimap` of libstdc++ iterates equal keys, newest first (`GroupOf`).

### Session
`ClientService::runImpl` is one action per kind of request, each of which takes the
request and sends the reply; a client id is sent (`ServeClientId`) and only then
registered (`RegisterClientId`).  `ServeMalformed` is a request without a field it
needs: `subscribe_request` goes back to `recv` on a REP socket that owes a reply, the
others convert a JSON null to a string, and either exception ends the process.
`client.cpp` is `ReceiveReply` and `SendNext` (main), `ScenarioDue` (`handleScenario`),
`HandleEndpoints` (`hendleNewEndpoints`) and `ListenerExits` (a listener whose flag is
cleared).  `endpointToHandler` maps an endpoint to the number of the listener that
shares its flag, so that what `emplace` keeps, and what nobody can clear any more, is
visible.  Clients of another make send any request.  `Market` is reduced to the set of
its products: an unsubscription removes the product, or ends the server if there is none,
or never returns (`Block`), which `MarketUnsubscribeDeadlock` shows to happen; then nobody
is served until a restart.  The product and the trade endpoint of
a reply travel together and are one endpoint here.  `ServeUnlisted` is the first use
of `EndpointProvider`, whose constructor asks the exchange for its products: an answer
that is no JSON throws a `parse_error`, which `runImpl` takes for one of the request and
answers, an answer that is no list a `type_error`, which ends the process; the next use
tries again.  `confirmed` is not in the code: it records the confirmations a program has
received.

### Delivery
`Market` composed with one `FeedStream` per product.  `HandOn` is Market's
`OnProductChange` with the next element of the stream, which is what `FeedProduct` has
been proved to produce; `NewFeed` is Market's `SubscribeFeed`, which starts a new
stream.  `content` says what each change carries; a full order book is no older than any
change before it (`NotBefore`), also when another feed product made that one, because the
exchange does not go back.  `Published` takes the changes a product has applied, one after
the other, to the set of sequence numbers its book reflects: a full order book replaces the
set, a message adds to it if the message it `needs`, the one that opened its order, is
there, and is ignored otherwise, as `matchOrders` returns when it does not find the maker.
Two messages about an order that rests already do not need each other, because their
effects commute; what values come out is the subject of `BookMirror`.  All other actions
are Market's own and leave the streams alone (`Elsewhere`).

### Endpoints
The constructor of `EndpointProvider`: the entries of the list that are online get
consecutive order book and trade ports, and an id that is listed twice keeps its first.
A port number above 65535 is cut to 16 bits by libzmq, for the server's `bind` and the
client's `connect` alike (`SocketPort`).  `PortsApart` is what the binds need.

### TradeMessages, TradeChannel and TradeFlow
`TradeMessages` says which feed messages are trades, which fields `getTrade` reads
without asking, and which fields the message to the clients gets, from where.  The
value of an empty optional is the mark `"indeterminate"`.  A missing field that `getTrade`
needs is read through the `operator[]` of a constant JSON value, which asserts that it is
there; `Dockerfile:33` builds `Release`, without assertions, so the end iterator is read,
which is undefined.  Two outcomes are modelled: the process ends (`ReceiveUnreadable`), or
it goes on with some value, which has the mark `"undefined"`.

`TradeFlow` adds to `Market` what its steps send and receive.  `SubscribeOnFeed` is
Market's `SubscribeFeed` with `connect` at the first subscription and the subscribe
message; `connect` returns after a second and leaves the connection open, closed or
still connecting.  `UnsubscribeOnFeed` is Market's `Unsubscribe` with the message
that is sent before `m_mutexFeedData` is locked.  `ReceiveTrade` and `PublishTrade` are
Market's `OnMessageReceived` and `OnTrade` with a message from the wire.

The client is one run of `client.cpp`.  Each confirmed subscription starts a listener
thread with a socket of its own (`StartListener`); `endpointToHandler` keeps the flag of
the first one, and an unsubscription clears that one (`ClearFlag`).  A listener looks at
its flag after each message or timeout of its receive, so it lives on for a while
(`ListenerReceives`, `ListenerExits`), or for ever if its flag was not kept.  Its socket
reaches the publisher some time after it connects, loses it when the publisher is
destroyed and reaches the next one by itself (`ListenerConnects`).  `hendleNewEndpoints`
takes its endpoints in batches, here one at a time: starting a listener for an endpoint
that has a flag and clearing that flag commute, and an endpoint without a flag, which ends
the program, is the subject of `Session` (`FlagsExist`).  The market thread and product
changes have no part in this module.  `heard` is not in the code: it is the number of the
last trade that has reached a listener's socket, for `HeardIsShown`.

`TradeChannel` is the promise to a listener: it may miss a trade, but none it brings is
shown twice, out of order, or before it was sent.  A trade is shown once for each listener
that was connected when it was published.  There may be several: two subscriptions in a
row, a new one while the listener of the last is still in its receive, and every
subscription after the second, because the second listener is never stopped.  So a
program may show a trade two or more times, and no property says otherwise.

## 4. Runs

All runs end within two minutes.

| Run | Shows |
|---|---|
| `FeedThreads` | Invariants of the feed product and that it implements `FeedStream`, with losses, echoes, every failure of the REST request and destruction at any time; every request for an order book ends with one stored or has failed, every queued message reaches the listener with the same exception, the destructor returns. |
| `FeedStartupGap` (violation) | The listener's book skips messages sent between the order book and the start of the subscription: the merge checks only that a message is newer, and `docs/QsServerArchitecture.md` says all sequence numbers are consecutive. |
| `BookSafety` | When the queue is empty, open orders are in the book on their side with at least their size, and what else is listed was closed after the last snapshot; at all times orders are listed once and with no negative size.  All this but for the orders in `reordered`. |
| `BookAsks` (violation) | Closed orders stay in the book, because `removeOrder` searches the opposite side; `test/RealCoinbaseFeedTest.cpp` requires equal numbers of asks.  `test/CoinbaseFeedTest.cpp:79-88` expects what the code does: a `done` with side `sell` removes a bid. |
| `MarketThreads` | Registries agree between requests; each change is queued, taken, applied or dropped exactly once; only changes of dead feed products are dropped; batches keep their order; requests return and changes are processed, except for one deadlock, named `CrossedLocks`. |
| `MarketUnsubscribeDeadlock` (violation) | That deadlock is reachable: `unsubscribe` and a trade wait for each other's mutex, and the client gets no response. |
| `MarketOtherClient` (violation) | One client's unsubscribe tears the product down for all, and the next client's unsubscribe dereferences the end iterator. |
| `DeliverySafety` | Changes applied in order make a book without a gap; an applied change is in the published book unless two changes of a batch were applied in the wrong order and it needed the one or was undone by it; a message meets a book that has it already only after a full order book newer than the message; no published book reflects less than the one before. |
| `DeliveryUpToDate` (violation) | A message that shares a batch with the full order book before it is applied first and lost: the published book is not the "up-to-date" one of `docs/TradeDataMessagingFormat.md`. |
| `SessionRounds` | A program that subscribes, unsubscribes and subscribes again finds its id known and its listener flags in place, sends all of its scenario unless the service ends or blocks, and ends up listening to what was last confirmed, beside a client that sends anything and a server that cannot get the list of products, crashes or restarts. |
| `SessionRetrigger` (violation) | After a lost answer the program says it will retrigger and never sends again. |
| `TradeFlow` | The exchange's channels follow the registry, but for subscriptions sent before the connection was open; binds succeed; only `founds` is ever read from an empty optional; `TradeChannel` is implemented, with several listeners of a product at a time; every message is taken off the wire, but for `CrossedLocks`; what reaches a listener is shown, unless the listener has been told to end. |

`HolesWereMissed` is the other side of `FeedStartupGap`: whatever the listener misses
was never put on the wire, so the product itself loses nothing it received, although
it throws away the message that reveals a gap.

`FirstRoundStops` is limited to a product's first round because the code is: `emplace`
keeps the first flag, so after a second subscription the next unsubscription clears
the flag of a listener that has ended, and the new one listens for ever.  After a
restart, a program whose messages survived keeps its old id and is refused with
`UnknownClientId` for ever; `IdsKnown` says that nothing else makes an id unknown.  A
malformed request ends the server and an unsubscription may block it; `ScenarioPlayed`
excepts both.

`FlagsExist` is limited to programs for which the first confirmation about each product
is a subscription.  If the list of products could not be had, a subscription is refused; when
another client has subscribed meanwhile, the program's unsubscription is confirmed, finds
no flag and dereferences null (`client.cpp:183`).

`FeedFollowsRegistry` names its exception, `unsent`: the first subscription is sent one
second after the connection was begun, open or not, and an error is ignored.  Such a
product has a feed product and publishers and never gets a message; another client's
subscription does not help, because `subscribe` finds the product and sends nothing.  A
connection that is lost is not made again.

Three more behaviours can be seen in the models.  A product
destroyed during a request may end without handing its order book to the listener
(the destructor clears `m_isRunning` before `messageLoop` looks at the queue), which
the second case of `test/CoinbaseFeedTest.cpp` relies on not happening.  A `change`
message never updates a size, for the same reason as in `BookAsks`.  The founds of a
market order are never published: `TradeReceive` asks for the price before it sets them.

### Bounds
* `FeedThreads`: `StartSeq = 1`, `MaxSeq = 4`: three messages after the first order
  book are enough for a gap, its repair, a message queued during the repair and one
  after it; the queues need no other bound.
* `BookSafety`: an order on each side, sizes up to 2, two merged messages, three changes in
  a batch: an order that rests and a taker that is matched with it and may rest afterwards,
  partial and full matches, and every pair of changes whose order matters, a full order book
  among them, with a third one before, between or after.
* `MarketThreads`: one client, two products, three requests, three changes: enough to
  subscribe, unsubscribe and subscribe again with changes of the old feed product under
  way.  The client's name decides nothing there, because no product has clients; a
  second one is in `MarketOtherClient`.
* `DeliverySafety`: one product (streams of different products do not meet), three
  requests, four changes, sequence numbers up to 4, with trades: two feed products of the
  same product with an order book and a message each, in any batches, and messages that need
  an earlier one.  Books and messages of a feed product that is gone are among them.
* `TradeFlow`: one product, listed after one that is offline, three requests, two messages
  of three kinds (a received limit order, an activation without a field that `getTrade`
  needs, a message that is no trade), a connection that opens before, between or after the
  requests and may be lost.  Subscribe, subscribe, unsubscribe and subscribe, unsubscribe,
  subscribe make two listeners, of which one lives through both publishers and overlaps with
  the other; two trades meet in one batch of `handleFeedMessages`.  Products share the
  connection, the mutexes and the ranges of ports: two of them at once, with the mutexes,
  are in `MarketThreads`, and the theorems about channels and ports are for any products.
* One program with three scenario entries (two rounds on one product), another client
  with two requests, one restart: enough for both rounds to meet in one batch of
  `hendleNewEndpoints`, for the product to be taken away between them, and for a
  request or an answer to be lost.  A product that is not listed is asked for too.

`CHECK_DEADLOCK FALSE` is used where the system may come to rest: a destroyed
product, an exchange at the bound, no order id left, a stopped or crashed market, a
program waiting for a lost answer, a connection that is gone.

### Fairness
`FeedProduct` assumes weak fairness of each thread and of a started destructor: the
operating system schedules threads, the REST request returns, and no thread holds
`m_messagesMutex` for ever without a step of its own.  The exchange and the owner
owe nothing.  `Market` assumes strong fairness of the threads that wait for a mutex:
a mutex that is released again and again is got in the end.  `std::mutex` does not
promise this, but the websocket thread leaves the mutex between two messages for as
long as the network takes.  `Session` assumes weak fairness of each thread of a program
and of the service for each client: a REP socket takes its clients' requests in turn.
Restarts and other clients owe nothing.  `TradeFlow` takes over Market's strong fairness
for the service and websocket threads and adds weak fairness of the client's listener and
printing threads;
the exchange, the connection and libzmq owe nothing.  `Delivery` has no fairness.

## 5. Proofs

Each theorem is proved for every value of the constants, from the named assumptions of
the modules (`ASSUME`) alone.  Every safety proof has the same form: an inductive
invariant that implies the property, one step per action, and under it one step per
part of the invariant that the action can disturb.

| Module | Theorems | Inductive invariant |
|---|---|---|
| `FeedProductProofs` | `TypeCorrect`, `JoinIsSafe`, `StreamRefined` (`FeedProduct` implements `FeedStream`) | `IInv` |
| `FeedHolesProofs` | `MergesAreSound`, `NothingIsLost` | `HolesInv` |
| `BookMirrorProofs` | `BookTypes`, `LiveAreMirrored`, `OrdersListedOnce`, `StaleAreClosed` | `BookInv` |
| `MarketProofs` | `MarketTypes`, `RegistriesStayTogether`, `NoChangeLost`, `BatchesStayInOrder`, `OnlyOrphansDropped` | `MarketInv` |
| `SessionProofs` | `SessionTypesCorrect`, `IdsStayKnown`, `FlagsAreKept` | `SessionInv` |
| `DeliveryProofs` | `OrderMakesExact`, `OnlyReversedMissing`, `RepeatsNeedNewerBook`, `BooksNeverGoBack` | `DeliveryInv` |
| `TradeFlowProofs` | `PortsStayApart` (no state), `FlowTypesCorrect`, `FeedStaysWithRegistry`, `BindsNeverFail`, `OnlyFoundsUndefined`, `TradesStayInOrder` (`TradeFlow` implements `TradeChannel`) | `FlowInv` |
| `SequenceFacts` | lemmas used by the others | |

### FeedProductProofs
`IInv == TypeOK /\ Control /\ Bounds /\ Chained /\ BookAhead`.

* `Control` relates the mutex, the flag and the request thread.  It carries
  `JoinNeverBlocks`: the flag is cleared only in the critical section after which the
  request thread does not need the mutex again, and a gap is noticed only while the
  flag is clear.
* `Bounds`: nothing queued, on the wire or handled is ahead of the exchange, so a new
  order book is no older than anything in the object.
* `Chained`: the batch continues what was handled, and while no book is requested the
  queue continues the batch up to `m_lastSequenceNumber`.  Without it, a live message
  could not be shown to be the successor of the one before.
* `BookAhead`: the book in the hands of the request thread is at least as new as the
  end of the batch the message thread is still working on, and merging only takes
  it further.  Without it, storing the book could take the listener back.

### FeedHolesProofs
`HolesInv == IInv /\ Ordering /\ Merging /\ Accounted`.

* `Ordering`: feed messages keep their order from the wire through the queue into the
  order book.  `MergeSound` speaks of the book alone; that the next message merged is
  not older than the last one is known only from the queue it comes from.
* `Merging`: an order book still queued when a gap came is no newer than the one
  requested for the gap.  The merge compares sequence numbers and nothing else, so this
  is what keeps a queued order book from being merged as if it were a message.
* `Accounted`: every message of the full channel was never sent, is reflected, or is
  still on its way, with one clause for each phase of a request.  The message that
  reveals a gap is thrown away; the order book that is requested then is no older.

### BookMirrorProofs
The properties speak of the book when the market thread has caught up; in between its
queue may hold anything, and it will be applied in reverse.  So `BookInv` speaks of
`Settled`, the book that the queue would make if it were applied now:

* `SettledInv`: in `Settled` every order that is not `Suspect` is listed once, with no
  negative size (`Sound`), and, if the feed is in step, agrees with the exchange
  (`Current`).  `Suspect` is `reordered` as it will be when the queue has been applied.
* `MergedInv`: the same, for all orders, of the book that the snapshot and the messages so
  far would make.  Without it nothing would be known when the two are queued.
* `QueueInv`: an order that has not been on the exchange's book is in no change of the
  queue, but for the taker of a match, and not in the book.
* `SoundInv`: what `ListedOnce` says of the book while changes wait.

A message that is queued last is applied first.  The proof therefore compares two runs of
the same queue, from a book and from that book with one message applied (`AfterOneMore`):
they stay a size apart (`Less`, `AfterLess`) for every order whose batch has no full order
book and no match that takes it, which is what `Disturbed` excepts.  A full order book
alone in its batch forgets what was there (`ResetForgets`).  `removeOrder` and
`updateOrder` search the other side, where an order never is; they leave it alone
(`DoneAndChange`), which is why the proof needs no case for a wrong erasure and why
`BookAsks` fails.

### MarketProofs
`MarketInv` joins the four properties to

* `LockOwners`: who holds a mutex follows from where the threads are, and
  `RegistriesByPc`: what each registry has at every place of the service thread.
  `RegistriesAgree` is about the time between requests; these say how it is left and
  reached again while the other threads run.
* `FeedsExist`: a change was made by a feed product that has been made.  A change may
  be dropped only if its product is gone; when the product is subscribed to again, the
  new feed product has a higher number than any dropped change.
* `Batched`: numbers grow along the queue and along the batch.

A batch is applied at once, group by group; that `GroupOf` hands each change of the batch to
its product, in whatever order, is `GroupOfProduct`.

### SessionProofs
`SessionInv` has, besides the types,

* `IdsStored`: until a restart, the service has stored each id it issued except the one
  it is about to store, and each program signs with an issued id.  The id is sent first
  and stored afterwards; no request is served between the two.
* `Followed`: a confirmed subscription is in the queue to `hendleNewEndpoints` or has a
  flag.  That thread handles the queued subscriptions before the queued unsubscriptions,
  so an unsubscription never meets a subscription still in the queue.

### DeliveryProofs
`DeliveryInv` is `MarketInv` with

* `Carried`: each change that exists has a content, of its product; `Len(content)` is the
  number of changes handed on, so contents never change once a change has its number.
* `StreamsEnd`: a stream that has begun is at the last change of its product.  It is what a
  step of `FeedStream` knows; `StreamsFollow` is what it leaves behind, for all changes so
  far: a full order book is no older than any change of its product before it, and a
  message is the successor of the last change of its product before it.
* `StreamsNeed` and `StreamsBring`: a message needs a message before it that opened an
  order, and the feed product that hands it on has brought that one before, as a message or
  within a full order book.  Without the second, a message could lack what it needs because
  an earlier feed product had it.
* `BooksGiven`: a book has been given changes of its product that count as applied, all of
  the present feed product's among them; and from the first change it got on, all changes of
  its product that the market thread is done with.  Without the last part two neighbours in
  a book could not be shown to be neighbours in the stream.  `BooksDistinct`: none twice.

The market thread applies a batch in an order of its own.  The proof of the first and the
last theorem does not depend on it: it uses that a step adds to a book a group of changes
that are all newer than those it has (`BookGrows`).  So the book goes back at most within a
batch, never from one publication to the next (`BooksNeverGoBack`).  A change that has no
effect needs a message that its feed product has brought and the book was given
(`NeededIsGiven`); if that came before it, a full order book took it away in between, and
either way two changes are in the wrong order (`OnlyReversedMissing`).
`DeliveryUpToDate` shows that this happens.
What a sequence of changes makes of an empty book is in `FoldPrefix`, `FoldBounded`,
`FoldKeeps`, `FoldExact`, `FoldBrought` and `FoldGrows`, by induction on the number of changes.

### TradeFlowProofs
`FlowInv == MarketInv /\ FlowTypes /\ FeedInv /\ OrderInv`.  A step of `TradeFlow` is a
step of `Market`, leaves it alone or ends the process, so `MarketInv` is taken over as it
is; `BindsNeverFail` is `PortsStayApart` with the registries `MarketInv` knows.

* `FeedInv`: the commands on their way to the exchange lead (`Leads`) from the channels
  it has to the registry, less what an unsubscription under way has given up already:
  its message is sent before the registry is changed.
* `OrderInv == WireOrder /\ InboxOrder /\ QueueOrder`: the trades are in order on the wire
  and in the hands of the websocket thread, on the way to each listener, and, for each
  listener, in the queue and the batch of `handleFeedMessages`; each place is older than
  the one before it on the way, and what was shown for the listener is older than all of
  them.  A publisher that is destroyed and made again only removes trades from the way, and
  listeners do not share anything that could mix them up.

`FlowTypes` is split into the parts of the server and of the client (`ServerTypes`,
`ClientTypes`), which different steps change.  `TradesStayInOrder` follows: the trade shown
next for a listener is newer than the last one shown for it.

`PortsStayApart`: for every list of at most ten thousand entries
and any products of it that have publishers, `PortsApart`.  The number of a product is
the number of online entries before its first one; it grows from entry to entry
(`BeforeGrows`, by the cardinality of finite sets), so different products have different
numbers below 10000, and cutting the ports to 16 bits shifts both ranges to 17464 and
27464 without their touching.  With 10001 products they would.

### SequenceFacts
The library's induction theorems take an operator as a parameter, which the installed
provers cannot instantiate.  `UpToInduction` has a set in its place, and
`RecursionExists` functions, so that a recursive function on `0 .. n` has the values its
definition gives it.  The recursions of `GroupOf`, `ResetOrderBook`, `OnProductChanges` and
`ReflectedAfter` are local functions for this reason.

### Model-checked only
* The liveness properties: `Recovers`, `QueuedIsHandled`, `DestructorReturns`,
  `RequestsReturn`, `ChangesProcessed`, `ConfirmedIsHeard`, `FirstRoundStops`,
  `ScenarioPlayed`, `WireDrains`, `HeardIsShown`.  Fairness is out of the prover's reach.
* The violations of section 4, which are counterexamples.

## 6. Not modelled

* The encoding of published messages: protobuf, the disabled JSON encoding, prices and
  sizes as floating-point numbers, what the client prints.
* Command lines of server and client; uuids, which are assumed distinct.
* The measurements of message rates.  The client's (`stamps`) is a data race between
  its listener threads whose outcome can be corrupted memory.
* What the undefined read of a missing field may do besides ending the process or giving a
  value.
* Catch2, the tests and `zmq_test`.  The two vendored files of Catch2 are nine tenths of
  the repository's lines and no part of the program.
