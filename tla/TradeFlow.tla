------------------------------ MODULE TradeFlow ------------------------------
(***************************************************************************)
(* The way of a trade from the exchange to what a client shows, around     *)
(* Market: the websocket connection of CoinbaseFeedClient, the trade       *)
(* publishers and the threads of client.cpp that listen and print.         *)
(*                                                                         *)
(* Market has the registries, the mutexes and the service and websocket    *)
(* threads; this module adds what its steps send and receive.  The         *)
(* connection is websocketpp's: it opens or fails at its own time, and     *)
(* nothing is sent on it unless it is open.                                *)
(***************************************************************************)
EXTENDS Market, TradeMessages, Endpoints

CONSTANTS
    Client,         \* the client whose listeners are followed, a run of client.cpp
    Kinds,          \* feed messages by type and fields
    MaxMessages,    \* bound: messages the exchange sends
    MayDrop         \* the connection may be lost

ASSUME TradeFlowAssumption ==
    /\ Client \in Clients
    /\ \A k \in Kinds : k.fields \subseteq Fields
    /\ MaxMessages \in Nat
    /\ MayDrop \in BOOLEAN
    /\ Products \subseteq ListedIds

VARIABLES
    \* CoinbaseFeedClient and WebsocketTransport.
    m_connected,
    connection,     \* "none", "connecting", "open" or "closed"
    unsent,         \* products whose subscribe message could not be sent
    wsMessage,      \* the trade message in the websocket thread's hands
    \* The exchange.
    toExchange,     \* requests under way to the exchange
    channels,       \* products whose messages it sends
    wire,           \* messages under way to the server
    sent,           \* number of messages it has sent
    \* The client: a confirmed request is named by its product, a listener thread
    \* by its place in listeners, and so are the messages it has queued.
    endpointsToSubscribe, endpointsToUnsubscribe,
    endpointToHandler,  \* the listener whose flag is kept for a product, or 0
    listeners,          \* the listener threads in the order they were started
    feedMessagesQueue, newMessages,
    shown               \* for each listener, the number of its trade printed last

transport == <<m_connected, connection, unsent, wsMessage>>
exchange == <<toExchange, channels, wire, sent>>
endpoints == <<endpointsToSubscribe, endpointsToUnsubscribe>>
threads == <<endpointToHandler, listeners>>
printer == <<feedMessagesQueue, newMessages, shown>>
client == <<endpoints, threads, printer>>
flow == <<transport, exchange, client>>

NoMessage == [type |-> "none"]

FlowInit ==
    /\ Init
    /\ m_connected = FALSE
    /\ connection = "none"
    /\ unsent = {}
    /\ wsMessage = NoMessage
    /\ toExchange = <<>>
    /\ channels = {}
    /\ wire = <<>>
    /\ sent = 0
    /\ endpointsToSubscribe = <<>>
    /\ endpointsToUnsubscribe = <<>>
    /\ endpointToHandler = [p \in Products |-> 0]
    /\ listeners = <<>>
    /\ feedMessagesQueue = <<>>
    /\ newMessages = <<>>
    /\ shown = <<>>

-----------------------------------------------------------------------------
(***************************************************************************)
(* The service thread: subscribe and unsubscribe of the feed client.       *)
(***************************************************************************)

\* WebsocketTransport::send: an error is ignored.
Send(message) ==
    toExchange' = IF connection' = "open" THEN Append(toExchange, message)
                                          ELSE toExchange

\* WebsocketTransport::connect returns after a second, whatever has become of
\* the connection by then.
Connect == connection' \in {"connecting", "open", "closed"}

\* The first subscription connects.
ConnectOnce ==
    /\ IF m_connected THEN UNCHANGED connection ELSE Connect
    /\ UNCHANGED channels

\* generateSubscribeMessage and generateUnsubscribeMessage.
SubscribeMessage(p) == [type |-> "subscribe", product |-> p]

\* Faulty UnsubscribeMessage: copied from SubscribeMessage, type and all.
CopiedMessage(p) == [type |-> "subscribe", product |-> p]

\* Faulty UnsubscribeMessage: the type is misspelt.
MisspeltMessage(p) == [type |-> "unsibscribe", product |-> p]

UnsubscribeMessage(p) == [type |-> "unsubscribe", product |-> p]

SubscribeOnFeed ==
    /\ SubscribeFeed
    /\ ConnectOnce
    /\ m_connected' = TRUE
    /\ Send(SubscribeMessage(request.product))
    /\ unsent' = IF connection' = "open" THEN unsent \ {request.product}
                                         ELSE unsent \cup {request.product}
    /\ UNCHANGED <<wsMessage, wire, sent, client>>

\* The service answers the request, and main of client.cpp queues its endpoint.
Confirmed(queue) ==
    IF request.client = Client THEN Append(queue, request.product) ELSE queue

SubscribeConfirmed ==
    /\ SubscribeTrades
    /\ endpointsToSubscribe' = Confirmed(endpointsToSubscribe)
    /\ UNCHANGED <<transport, exchange, endpointsToUnsubscribe, threads, printer>>

\* CoinbaseFeedClient::unsubscribe sends before it locks m_mutexFeedData.
UnsubscribeOnFeed ==
    /\ Unsubscribe
    /\ UNCHANGED connection
    /\ IF servicePc' = "unsubscribeFeed"
       THEN /\ Send(UnsubscribeMessage(request.product))
            /\ UNCHANGED endpointsToUnsubscribe
       ELSE /\ endpointsToUnsubscribe' = Confirmed(endpointsToUnsubscribe)
            /\ UNCHANGED toExchange
    /\ UNCHANGED <<m_connected, unsent, wsMessage, channels, wire, sent,
                   endpointsToSubscribe, threads, printer>>

\* The trade publisher is destroyed, and with it every connection to it; a
\* listener that goes on receiving will connect to the next one.
PublisherCloses ==
    /\ UnsubscribeJoin
    /\ listeners' = [l \in DOMAIN listeners |->
                       IF listeners[l].product \in m_trade_publishers'
                       THEN listeners[l]
                       ELSE [listeners[l] EXCEPT !.connected = FALSE]]
    /\ endpointsToUnsubscribe' = Confirmed(endpointsToUnsubscribe)
    /\ UNCHANGED <<transport, exchange, endpointsToSubscribe, endpointToHandler,
                   printer>>

\* The other steps of the service thread.
ServiceElsewhere ==
    /\ \/ \E type \in RequestTypes, c \in Clients, p \in Products :
            Request(type, c, p)
       \/ SubscribeProduct \/ UnsubscribeCrashes \/ UnsubscribeFeed
    /\ UNCHANGED flow

-----------------------------------------------------------------------------
(***************************************************************************)
(* The connection and the exchange.                                        *)
(***************************************************************************)
ConnectionOpens ==
    /\ connection = "connecting"
    /\ connection' = "open"
    /\ UNCHANGED <<vars, m_connected, unsent, wsMessage, exchange, client>>

\* The attempt fails or the connection is lost, with all that is under way:
\* there is no handler for either, and nothing connects again.
ConnectionCloses ==
    /\ MayDrop
    /\ connection \in {"connecting", "open"}
    /\ connection' = "closed"
    /\ toExchange' = <<>>
    /\ channels' = {}
    /\ wire' = <<>>
    /\ UNCHANGED <<vars, m_connected, unsent, wsMessage, sent, client>>

ExchangeSubscribes ==
    /\ toExchange # <<>>
    /\ LET message == Head(toExchange) IN
       channels' = IF message.type = "subscribe"
                   THEN channels \cup {message.product}
                   ELSE channels \ {message.product}
    /\ toExchange' = Tail(toExchange)
    /\ UNCHANGED <<vars, transport, wire, sent, client>>

ExchangeSends(k, p) ==
    /\ p \in channels
    /\ sent < MaxMessages
    /\ wire' = Append(wire, [type |-> k.type, product |-> p,
                             number |-> sent + 1, fields |-> k.fields])
    /\ sent' = sent + 1
    /\ UNCHANGED <<vars, transport, toExchange, channels, client>>

-----------------------------------------------------------------------------
(***************************************************************************)
(* The websocket thread: on_message.                                       *)
(***************************************************************************)

\* onMessageReceived with a trade: getTrade, and on to onTrade with
\* m_mutexFeedData locked.  A field that getTrade needs and the message does not
\* have is read all the same.
ReceiveTrade ==
    /\ wire # <<>>
    /\ IsTradeMsg(Head(wire))
    /\ OnMessageReceived(Head(wire).product)
    /\ wsMessage' = Head(wire)
    /\ wire' = Tail(wire)
    /\ UNCHANGED <<m_connected, connection, unsent, toExchange, channels, sent,
                   client>>

\* The other outcome of that undefined read: the process ends.
ReceiveUnreadable ==
    /\ alive
    /\ wire # <<>>
    /\ wsPc = "idle"
    /\ m_mutexFeedData = "free"
    /\ IsTradeMsg(Head(wire))
    /\ ~Readable(Head(wire))
    /\ alive' = FALSE
    /\ UNCHANGED <<locks, registries, productChanges, isRunning, service,
                   websocket, market, feed, flow>>

\* A message that is no trade only goes to its feed product, if there is one.
ReceiveOther ==
    /\ alive
    /\ wire # <<>>
    /\ wsPc = "idle"
    /\ m_mutexFeedData = "free"
    /\ ~IsTradeMsg(Head(wire))
    /\ wire' = Tail(wire)
    /\ UNCHANGED <<vars, transport, toExchange, channels, sent, client>>

\* TradePublisher::publish: every subscriber that is connected gets the message.
PublishTrade ==
    /\ OnTrade
    /\ listeners' =
         [l \in DOMAIN listeners |->
            IF /\ listeners[l].product = wsMessage.product
               /\ wsMessage.product \in m_trade_publishers
               /\ listeners[l].connected
            THEN [listeners[l] EXCEPT !.inbox = Append(@, GenerateMessage(wsMessage)),
                                      !.heard = wsMessage.number]
            ELSE listeners[l]]
    /\ wsMessage' = NoMessage
    /\ UNCHANGED <<m_connected, connection, unsent, exchange, endpoints,
                   endpointToHandler, printer>>

-----------------------------------------------------------------------------
(***************************************************************************)
(* The client: hendleNewEndpoints, a listener thread for each subscription *)
(* and handleFeedMessages.                                                 *)
(***************************************************************************)

\* A listener's thread and socket; heard is not in the code, the number of the
\* last message that has reached the socket.
NewListener(p) ==
    [product |-> p, at |-> TRUE, exited |-> FALSE, connected |-> FALSE, inbox |-> <<>>,
     heard |-> 0]

\* A thread is started for each confirmation; emplace keeps the flag of the first
\* one that was started for the endpoint.
StartListener ==
    /\ endpointsToSubscribe # <<>>
    /\ LET p == Head(endpointsToSubscribe) IN
       /\ listeners' = Append(listeners, NewListener(p))
       /\ endpointToHandler' = IF endpointToHandler[p] = 0
                               THEN [endpointToHandler EXCEPT ![p] = Len(listeners) + 1]
                               ELSE endpointToHandler
    /\ shown' = Append(shown, 0)
    /\ endpointsToSubscribe' = Tail(endpointsToSubscribe)
    /\ UNCHANGED <<vars, transport, exchange, endpointsToUnsubscribe,
                   feedMessagesQueue, newMessages>>

\* The flag that is kept for the endpoint is cleared, that of the first listener.
\* Subscriptions come first; what an endpoint without a flag does to the program
\* is in Session.
ClearFlag ==
    /\ endpointsToSubscribe = <<>>
    /\ endpointsToUnsubscribe # <<>>
    /\ LET l == endpointToHandler[Head(endpointsToUnsubscribe)] IN
       /\ l # 0
       /\ listeners' = [listeners EXCEPT ![l].at = FALSE]
    /\ endpointsToUnsubscribe' = Tail(endpointsToUnsubscribe)
    /\ UNCHANGED <<vars, transport, exchange, endpointsToSubscribe,
                   endpointToHandler, printer>>

\* The listener's socket reaches the publisher some time after connect(), or
\* after the connection to an earlier publisher was lost.
ListenerConnects(l) ==
    /\ alive
    /\ l \in DOMAIN listeners
    /\ ~listeners[l].exited
    /\ ~listeners[l].connected
    /\ listeners[l].product \in m_trade_publishers
    /\ listeners' = [listeners EXCEPT ![l].connected = TRUE]
    /\ UNCHANGED <<vars, transport, exchange, endpoints, endpointToHandler, printer>>

\* The thread returns and takes its socket with it.
Exited(listener) ==
    [listener EXCEPT !.exited = TRUE, !.connected = FALSE, !.inbox = <<>>]

\* After a message it looks at its flag.
Received(listener) ==
    IF listener.at THEN [listener EXCEPT !.inbox = Tail(@)] ELSE Exited(listener)

\* A listener receives a message and queues it.
ListenerReceives(l) ==
    /\ l \in DOMAIN listeners
    /\ listeners[l].inbox # <<>>
    /\ feedMessagesQueue' =
         Append(feedMessagesQueue, [listener |-> l, message |-> Head(listeners[l].inbox)])
    /\ listeners' = [listeners EXCEPT ![l] = Received(@)]
    /\ UNCHANGED <<vars, transport, exchange, endpoints, endpointToHandler,
                   newMessages, shown>>

\* It looks at its flag also when its receive has timed out; what is still on the
\* way to it is lost.
ListenerExits(l) ==
    /\ l \in DOMAIN listeners
    /\ ~listeners[l].at
    /\ ~listeners[l].exited
    /\ listeners' = [listeners EXCEPT ![l] = Exited(@)]
    /\ UNCHANGED <<vars, transport, exchange, endpoints, endpointToHandler, printer>>

\* Faulty Swapped: the queue is copied and not emptied.
NotSwapped(queue) == queue

Swapped(queue) == <<>>

\* Faulty MayPrint: the wait is for a second message.
MayPrintSeveral == Len(feedMessagesQueue) > 1

MayPrint == feedMessagesQueue # <<>>

\* handleFeedMessages takes the whole queue and prints its messages in turn.
TakeMessages ==
    /\ newMessages = <<>>
    /\ MayPrint
    /\ newMessages' = feedMessagesQueue
    /\ feedMessagesQueue' = Swapped(feedMessagesQueue)
    /\ UNCHANGED <<vars, transport, exchange, endpoints, threads, shown>>

PrintMessage ==
    /\ newMessages # <<>>
    /\ LET next == Head(newMessages) IN
       shown' = [shown EXCEPT ![next.listener] = next.message.number]
    /\ newMessages' = Tail(newMessages)
    /\ UNCHANGED <<vars, transport, exchange, endpoints, threads, feedMessagesQueue>>

-----------------------------------------------------------------------------
ServiceFlow ==
    \/ SubscribeOnFeed
    \/ SubscribeConfirmed
    \/ UnsubscribeOnFeed
    \/ PublisherCloses
    \/ ServiceElsewhere

ReceiveMessage == ReceiveTrade \/ ReceiveUnreadable \/ ReceiveOther

FlowNext ==
    \/ ServiceFlow
    \/ ConnectionOpens \/ ConnectionCloses
    \/ ExchangeSubscribes
    \/ \E k \in Kinds, p \in Products : ExchangeSends(k, p)
    \/ ReceiveMessage \/ PublishTrade
    \/ StartListener \/ ClearFlag
    \/ \E l \in DOMAIN listeners :
         ListenerConnects(l) \/ ListenerReceives(l) \/ ListenerExits(l)
    \/ TakeMessages \/ PrintMessage

FlowSpec == FlowInit /\ [][FlowNext]_<<vars, flow>>

\* The listeners there can be: one for each request.
Listeners == 1 .. MaxRequests

\* As in Market, a thread that waits for a mutex gets it in the end; the threads
\* of the client are scheduled.  The exchange and the clients' wishes owe nothing.
FlowFairness ==
    /\ SF_<<vars, flow>>(ServiceFlow /\ servicePc # "idle")
    /\ SF_<<vars, flow>>(ReceiveMessage \/ PublishTrade)
    /\ \A l \in Listeners : WF_<<vars, flow>>(ListenerReceives(l))
    /\ WF_<<vars, flow>>(TakeMessages \/ PrintMessage)

FairFlowSpec == FlowSpec /\ FlowFairness

-----------------------------------------------------------------------------
(***************************************************************************)
(* Properties.                                                             *)
(***************************************************************************)

\* Types of what TradeFlow adds to Market.
FlowTypeOK ==
    /\ m_connected \in BOOLEAN
    /\ connection \in {"none", "connecting", "open", "closed"}
    /\ unsent \subseteq Products
    /\ wsPc = "onTrade" => wsMessage.product = wsProduct /\ IsTradeMsg(wsMessage)
    /\ \A i \in DOMAIN toExchange :
         toExchange[i] \in [type : {"subscribe", "unsubscribe"}, product : Products]
    /\ channels \subseteq Products
    /\ sent \in 0 .. MaxMessages
    /\ endpointToHandler \in [Products -> 0 .. Len(listeners)]
    /\ \A p \in Products : endpointToHandler[p] # 0 =>
         listeners[endpointToHandler[p]].product = p
    /\ \A l \in DOMAIN listeners :
         /\ listeners[l].product \in Products
         /\ listeners[l].heard \in 0 .. MaxMessages
         /\ listeners[l].exited =>
              ~listeners[l].connected /\ listeners[l].inbox = <<>>
    /\ \A e \in ToSet(feedMessagesQueue) \cup ToSet(newMessages) :
         /\ e.listener \in DOMAIN listeners
         /\ e.message.product = listeners[e.listener].product
    /\ shown \in [DOMAIN listeners -> 0 .. MaxMessages]

\* Once the requests under way have arrived, the exchange sends the messages of
\* the products in the feed client's registry and of no others.  The exceptions
\* are the products whose subscribe message was sent, and lost, before the
\* connection was open: subscribe takes no notice, and nothing sends it again.
FeedFollowsRegistry ==
    connection = "open" /\ toExchange = <<>>
    /\ servicePc \notin {"unsubscribeFeed", "unsubscribeJoin"} =>
        channels = m_prodIdToListener \ unsent

\* No two publishers, of order books or of trades, are bound to the same port, so
\* that no bind throws in the service thread: what prodIdToPort's numbers come to
\* in 16 bits is different for all products that are subscribed to at once.
BindsSucceed == PortsApart(DOMAIN m_products, m_trade_publishers)

\* The values in a message to a client are those of the feed message or, for a
\* message without a field that getTrade needs, what was read in its place.  The
\* exception is founds: generateMessage of TradeReceive reads it from an empty
\* optional for an order that has a price, and for no other.
ValuesGiven ==
    \A m \in {e.message : e \in ToSet(feedMessagesQueue)}
               \cup UNION {ToSet(listeners[l].inbox) : l \in DOMAIN listeners} :
        \A f \in DOMAIN m.values :
            m.values[f] = "indeterminate" => f = "founds" /\ "price" \in DOMAIN m.values

Channel == INSTANCE TradeChannel

\* From the wire through the feed client, Market, the publisher, a listener and
\* the queue of handleFeedMessages, what a listener brings stays in order, and it
\* brings no trade twice, although it may live through several publishers of its
\* product: TradeFlow implements TradeChannel.  A trade is shown once for each
\* listener that was connected when it was published, and there may be several.
ChannelSpec == Channel!Spec

\* Every message on the wire is taken off it by the websocket thread, whatever
\* mutexes the service thread holds, but for the crossed pair of Market, a
\* process that has ended and a connection that was lost.
WireDrains ==
    wire # <<>> ~> (wire = <<>> \/ CrossedLocks \/ ~alive)

\* A listener that has not been told to end has received a trade that is newer
\* than the last one shown for it.
Behind ==
    \E l \in DOMAIN listeners : listeners[l].at /\ shown[l] < listeners[l].heard

\* The trades that reach the listeners are shown, up to the newest: whenever some
\* are waiting, in a socket, in feedMessagesQueue or with handleFeedMessages, there
\* comes a time when none are.  The exchange sends no more than MaxMessages, so
\* none is left out for good.
HeardIsShown == Behind ~> ~Behind
=============================================================================
