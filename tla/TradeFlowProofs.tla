--------------------------- MODULE TradeFlowProofs ---------------------------
(***************************************************************************)
(* Proofs about TradeFlow, for any products, any kinds of messages and any *)
(* number of them, whether or not the connection may be lost:              *)
(*   PortsStayApart       the ports of any listing stay different;         *)
(*   FlowTypesCorrect     the type invariant;                              *)
(*   FeedStaysWithRegistry  the exchange's channels follow the registry;   *)
(*   BindsNeverFail       no two publishers share a port;                  *)
(*   OnlyFoundsUndefined  which values sent to clients nobody has given;   *)
(*   TradesStayInOrder    TradeFlow implements TradeChannel.               *)
(***************************************************************************)
EXTENDS TradeFlow, MarketProofs, WellFoundedInduction

-----------------------------------------------------------------------------
(***************************************************************************)
(* Endpoints: for every listing of at most ten thousand entries, all ports *)
(* given to products are different once they are cut to 16 bits.           *)
(***************************************************************************)

\* The listing is a sequence of at most ten thousand entries.
LEMMA ListingBound ==
    /\ Len(Listing) \in Nat
    /\ Len(Listing) <= 10000
    /\ DOMAIN Listing = 1 .. Len(Listing)
<1> DEFINE E == [id : {Listing[i].id : i \in DOMAIN Listing},
                 status : {"online", "offline"}]
<1>1. /\ Listing \in Seq(E)
      /\ Len(Listing) <= 10000
  BY ListingAssumption
<1> HIDE DEF E
<1> QED
  BY <1>1

\* The loop inserts entries of the listing.
LEMMA OnlineIndex ==
    ASSUME NEW i \in Online
    PROVE  /\ i \in Nat
           /\ 1 <= i
           /\ i <= Len(Listing)
BY ListingBound DEF Online

\* The number of entries inserted before one stays below ten thousand.
LEMMA BeforeBound ==
    ASSUME NEW i \in Online
    PROVE  /\ IsFiniteSet(Before(i))
           /\ Cardinality(Before(i)) \in Nat
           /\ Cardinality(Before(i)) < 10000
<1>1. /\ i \in Nat
      /\ 1 <= i
      /\ i <= 10000
  BY OnlineIndex, ListingBound
<1>2. Before(i) \subseteq 1 .. i - 1
  <2>1. ASSUME NEW k \in Before(i)
        PROVE  k \in 1 .. i - 1
    <3>1. k \in Online /\ k < i
      BY DEF Before
    <3> QED
      BY <1>1, <3>1, OnlineIndex
  <2> QED
    BY <2>1
<1>3. /\ IsFiniteSet(1 .. i - 1)
      /\ Cardinality(1 .. i - 1) = IF 1 > i - 1 THEN 0 ELSE (i - 1) - 1 + 1
  <2>1. 1 \in Int /\ i - 1 \in Int
    BY <1>1
  <2> QED
    BY <2>1, FS_Interval
<1>4. /\ IsFiniteSet(Before(i))
      /\ Cardinality(Before(i)) <= Cardinality(1 .. i - 1)
  BY <1>2, <1>3, FS_Subset
<1>5. Cardinality(Before(i)) \in Nat
  BY <1>4, FS_CardinalityType
<1> QED
  BY <1>1, <1>3, <1>4, <1>5

\* A later entry has a larger number.
LEMMA BeforeGrows ==
    ASSUME NEW i \in Online, NEW j \in Online, i < j
    PROVE  Cardinality(Before(i)) < Cardinality(Before(j))
<1>0. /\ i \in Nat
      /\ j \in Nat
  BY OnlineIndex
<1>1. /\ i \notin Before(i)
      /\ Before(i) \cup {i} \subseteq Before(j)
  <2>1. i \notin Before(i) /\ i \in Before(j)
    BY <1>0 DEF Before
  <2>2. ASSUME NEW k \in Before(i)
        PROVE  k \in Before(j)
    <3>1. k \in Online /\ k < i
      BY DEF Before
    <3>2. k \in Nat
      BY <3>1, OnlineIndex
    <3>3. k < j
      BY <1>0, <3>1, <3>2
    <3> QED
      BY <3>1, <3>3 DEF Before
  <2> QED
    BY <2>1, <2>2
<1>2. /\ IsFiniteSet(Before(i)) /\ Cardinality(Before(i)) \in Nat
      /\ IsFiniteSet(Before(j)) /\ Cardinality(Before(j)) \in Nat
  BY BeforeBound
<1>3. Cardinality(Before(i) \cup {i}) = Cardinality(Before(i)) + 1
  BY <1>1, <1>2, FS_AddElement
<1>4. Cardinality(Before(i) \cup {i}) <= Cardinality(Before(j))
  BY <1>1, <1>2, FS_Subset
<1> QED
  BY <1>2, <1>3, <1>4

\* Every known product has an entry: the first online one with its id.
LEMMA EntryExists ==
    ASSUME NEW p \in ListedIds
    PROVE  /\ EntryOf(p) \in Online
           /\ Listing[EntryOf(p)].id = p
<1> DEFINE S == {i \in Online : Listing[i].id = p}
<1>1. S # {}
  BY DEF ListedIds
<1>2. S \subseteq Nat
  BY OnlineIndex
<1>3. PICK i \in S : \A j \in S : ~ (<<j, i>> \in OpToRel(<, Nat))
  <2> HIDE DEF S
  <2> QED
    BY <1>1, <1>2, NatLessThanWellFounded, WFMin
<1>4. \A j \in S : i <= j
  <2> SUFFICES ASSUME NEW j \in S
               PROVE  i <= j
    OBVIOUS
  <2>1. i \in Nat /\ j \in Nat
    BY <1>2
  <2>2. ~ (j < i)
    BY <1>3, <2>1 DEF OpToRel
  <2> QED
    BY <2>1, <2>2
<1> QED
  BY <1>4 DEF EntryOf

\* Cutting the ports to 16 bits shifts both ranges and keeps them whole.
LEMMA SocketPorts ==
    ASSUME NEW p \in ListedIds
    PROVE  LET n == Cardinality(Before(EntryOf(p))) IN
           /\ n \in Nat
           /\ n < 10000
           /\ SocketPort(OrderPort(p)) = 17464 + n
           /\ SocketPort(TradePort(p)) = 27464 + n
<1> DEFINE n == Cardinality(Before(EntryOf(p)))
<1>1. n \in Nat /\ n < 10000
  BY EntryExists, BeforeBound
<1>2. /\ OrderPort(p) = 83000 + n
      /\ TradePort(p) = 93000 + n
  BY DEF OrderPort, TradePort, FirstOrderPort, FirstTradePort
<1> HIDE DEF n
<1>3. /\ (83000 + n) % 65536 = 17464 + n
      /\ (93000 + n) % 65536 = 27464 + n
  BY <1>1
<1>4. /\ SocketPort(OrderPort(p)) = 17464 + n
      /\ SocketPort(TradePort(p)) = 27464 + n
  BY <1>2, <1>3 DEF SocketPort
<1> QED
  BY <1>1, <1>4 DEF n

\* Different products have different numbers.
LEMMA NumbersDiffer ==
    ASSUME NEW p \in ListedIds, NEW q \in ListedIds, p # q
    PROVE  Cardinality(Before(EntryOf(p))) # Cardinality(Before(EntryOf(q)))
<1> DEFINE i == EntryOf(p)
           j == EntryOf(q)
<1>1. i \in Online /\ j \in Online /\ i # j
  BY EntryExists
<1> HIDE DEF i, j
<1>2. i \in Nat /\ j \in Nat
  BY <1>1, OnlineIndex
<1>3. /\ Cardinality(Before(i)) \in Nat
      /\ Cardinality(Before(j)) \in Nat
  BY <1>1, BeforeBound
<1>4. CASE i < j
  BY <1>1, <1>3, <1>4, BeforeGrows DEF i, j
<1>5. CASE j < i
  BY <1>1, <1>3, <1>5, BeforeGrows DEF i, j
<1> QED
  BY <1>1, <1>2, <1>4, <1>5

\* EndpointProvider never gives two sockets the same port, whatever products of
\* whatever listing have a publisher: prodIdToPort's port numbers, which no TCP
\* port can hold, stay apart when they are cut to 16 bits.
THEOREM PortsStayApart ==
    ASSUME NEW orders \in SUBSET ListedIds, NEW trades \in SUBSET ListedIds
    PROVE  PortsApart(orders, trades)
<1> DEFINE n(p) == Cardinality(Before(EntryOf(p)))
<1>1. ASSUME NEW p \in ListedIds
      PROVE  /\ n(p) \in Nat
             /\ n(p) < 10000
             /\ SocketPort(OrderPort(p)) = 17464 + n(p)
             /\ SocketPort(TradePort(p)) = 27464 + n(p)
  BY SocketPorts
<1>2. ASSUME NEW p \in ListedIds, NEW q \in ListedIds, p # q
      PROVE  n(p) # n(q)
  BY <1>2, NumbersDiffer
<1> HIDE DEF n
<1>3. ASSUME NEW p \in ListedIds, NEW q \in ListedIds
      PROVE  /\ SocketPort(OrderPort(p)) = SocketPort(OrderPort(q)) => p = q
             /\ SocketPort(TradePort(p)) = SocketPort(TradePort(q)) => p = q
             /\ SocketPort(OrderPort(p)) # SocketPort(TradePort(q))
             /\ SocketPort(OrderPort(p)) # 0
             /\ SocketPort(TradePort(p)) # 0
  <2>1. /\ n(p) \in Nat /\ n(p) < 10000
        /\ n(q) \in Nat /\ n(q) < 10000
    BY <1>1
  <2>2. /\ SocketPort(OrderPort(p)) = 17464 + n(p)
        /\ SocketPort(TradePort(p)) = 27464 + n(p)
        /\ SocketPort(OrderPort(q)) = 17464 + n(q)
        /\ SocketPort(TradePort(q)) = 27464 + n(q)
    BY <1>1
  <2>3. p # q => n(p) # n(q)
    BY <1>2
  <2> QED
    BY <2>1, <2>2, <2>3
<1> QED
  BY <1>3 DEF PortsApart

-----------------------------------------------------------------------------
(***************************************************************************)
(* The inductive invariant.                                                *)
(***************************************************************************)
Command == [type : {"subscribe", "unsubscribe"}, product : Products]

FeedMessage ==
    [type : {k.type : k \in Kinds}, product : Products, number : 1 .. MaxMessages,
     fields : SUBSET Fields]

\* The messages that the publishers make.
ClientMessage ==
    {GenerateMessage(m) : m \in {f \in FeedMessage : IsTradeMsg(f)}}

Listener ==
    [product : Products, at : BOOLEAN, exited : BOOLEAN, connected : BOOLEAN,
     inbox : Seq(ClientMessage), heard : 0 .. MaxMessages]

\* What the first n listeners queue.
Queued(n) == [listener : 1 .. n, message : ClientMessage]

ServerTypes ==
    /\ m_connected \in BOOLEAN
    /\ connection \in {"none", "connecting", "open", "closed"}
    /\ unsent \subseteq Products
    /\ wsPc = "onTrade" =>
         /\ wsMessage \in FeedMessage
         /\ wsMessage.product = wsProduct
         /\ IsTradeMsg(wsMessage)
    /\ toExchange \in Seq(Command)
    /\ channels \subseteq Products
    /\ wire \in Seq(FeedMessage)
    /\ sent \in 0 .. MaxMessages

ClientTypes ==
    /\ endpointsToSubscribe \in Seq(Products)
    /\ endpointsToUnsubscribe \in Seq(Products)
    /\ listeners \in Seq(Listener)
    /\ endpointToHandler \in [Products -> 0 .. Len(listeners)]
    /\ \A p \in Products : endpointToHandler[p] # 0 =>
         listeners[endpointToHandler[p]].product = p
    /\ \A l \in 1 .. Len(listeners) :
         listeners[l].exited => ~listeners[l].connected /\ listeners[l].inbox = <<>>
    /\ feedMessagesQueue \in Seq(Queued(Len(listeners)))
    /\ newMessages \in Seq(Queued(Len(listeners)))
    /\ shown \in Seq(0 .. MaxMessages)
    /\ Len(shown) = Len(listeners)

FlowTypes == ServerTypes /\ ClientTypes

\* The products whose messages the exchange should send in the end.
Expected ==
    (m_prodIdToListener \ unsent) \
        (IF servicePc \in {"unsubscribeFeed", "unsubscribeJoin"}
         THEN {request.product} ELSE {})

\* The commands of s, carried out by an exchange that sends the messages of the
\* products in c, make it send those of p if and only if p is in e: the last
\* command about p says so, or, for want of one, p is in c already.
Leads(s, c, p, e) ==
    /\ \A i \in 1 .. Len(s) :
         s[i].product = p /\ (\A j \in i + 1 .. Len(s) : s[j].product # p)
            => (s[i].type = "subscribe" <=> p \in e)
    /\ (\A i \in 1 .. Len(s) : s[i].product # p) => (p \in c <=> p \in e)

FeedInv ==
    /\ m_connected <=> connection # "none"
    /\ connection = "none" => m_prodIdToListener = {}
    /\ connection \in {"none", "connecting"} =>
         toExchange = <<>> /\ channels = {} /\ Expected = {}
    /\ connection = "open" =>
         \A p \in Products : Leads(toExchange, channels, p, Expected)

\* What is on its way to the publishers.
Hand == IF wsPc = "onTrade" THEN {wsMessage} ELSE {}

Coming == Hand \cup ToSet(wire)

\* The messages of s are in order.
Increasing(s) == \A i, j \in 1 .. Len(s) : i < j => s[i].number < s[j].number

\* The messages of each listener are in order in the queue s.
InTurn(s) ==
    \A i, j \in 1 .. Len(s) :
        i < j /\ s[i].listener = s[j].listener => s[i].message.number < s[j].message.number

\* Up to the publishers there is one line of messages.
WireOrder ==
    /\ Increasing(wire)
    /\ \A a \in Hand, b \in ToSet(wire) : a.number < b.number
    /\ \A m \in Coming : m.number <= sent

\* Nothing overtakes anything on the way to a listener, all of it is of the
\* listener's product, and what was shown for it is older than all to come.
InboxOrder ==
    \A l \in 1 .. Len(listeners) :
        /\ Increasing(listeners[l].inbox)
        /\ \A m \in ToSet(listeners[l].inbox) :
             /\ m.product = listeners[l].product
             /\ shown[l] < m.number
             /\ m.number <= sent
             /\ \A b \in Coming : m.number < b.number
        /\ shown[l] <= sent
        /\ \A b \in Coming : shown[l] < b.number

\* Nor on the way from a listener to what is shown.
QueueOrder ==
    /\ InTurn(feedMessagesQueue)
    /\ InTurn(newMessages)
    /\ \A e \in ToSet(newMessages), f \in ToSet(feedMessagesQueue) :
         e.listener = f.listener => e.message.number < f.message.number
    /\ \A e \in ToSet(newMessages) \cup ToSet(feedMessagesQueue) :
         /\ e.message.product = listeners[e.listener].product
         /\ shown[e.listener] < e.message.number
         /\ e.message.number <= sent
         /\ \A b \in ToSet(listeners[e.listener].inbox) \cup Coming :
              e.message.number < b.number

OrderInv == WireOrder /\ InboxOrder /\ QueueOrder

FlowInv == MarketInv /\ FlowTypes /\ FeedInv /\ OrderInv
-----------------------------------------------------------------------------
(***************************************************************************)
(* Market within TradeFlow.                                                *)
(***************************************************************************)

\* A step of TradeFlow is a step of Market, leaves Market alone, or ends the
\* process: what was proved about Market holds here too.
LEMMA FlowMarketStep ==
    ASSUME MarketInv, FlowTypes, [FlowNext]_<<vars, flow>>
    PROVE  MarketInv'
<1>1. CASE ServiceFlow
  <2>1. Next
    BY <1>1 DEF ServiceFlow, SubscribeOnFeed, SubscribeConfirmed, UnsubscribeOnFeed,
                PublisherCloses, ServiceElsewhere, Next, ServiceThread
  <2> QED
    BY <2>1, MarketStep
<1>2. CASE ConnectionOpens \/ ConnectionCloses \/ ExchangeSubscribes
  BY <1>2, MarketStep DEF ConnectionOpens, ConnectionCloses, ExchangeSubscribes
<1>3. ASSUME NEW k \in Kinds, NEW p \in Products, ExchangeSends(k, p)
      PROVE  MarketInv'
  BY <1>3, MarketStep DEF ExchangeSends
<1>4. CASE ReceiveUnreadable
  BY <1>4, MarketCrash DEF ReceiveUnreadable
<1>5. CASE ReceiveOther
  BY <1>5, MarketStep DEF ReceiveOther
<1>6. CASE PublishTrade
  BY <1>6, MarketStep DEF PublishTrade, Next
<1>7. ASSUME NEW l \in DOMAIN listeners,
             ListenerConnects(l) \/ ListenerReceives(l) \/ ListenerExits(l)
      PROVE  MarketInv'
  BY <1>7, MarketStep DEF ListenerConnects, ListenerReceives, ListenerExits
<1>8. CASE StartListener \/ ClearFlag \/ TakeMessages \/ PrintMessage
  BY <1>8, MarketStep DEF StartListener, ClearFlag, TakeMessages, PrintMessage
<1>9. CASE UNCHANGED <<vars, flow>>
  BY <1>9, MarketStep
<1>10. CASE ReceiveTrade
  <2>1. Head(wire) \in FeedMessage
    BY <1>10 DEF ReceiveTrade, FlowTypes, ServerTypes
  <2>2. Head(wire).product \in Products
    BY <2>1 DEF FeedMessage
  <2>3. Next
    BY <1>10, <2>2 DEF ReceiveTrade, Next
  <2> QED
    BY <2>3, MarketStep
<1> QED
  BY <1>1, <1>2, <1>3, <1>4, <1>5, <1>6, <1>7, <1>8, <1>9, <1>10
     DEF FlowNext, ReceiveMessage

-----------------------------------------------------------------------------
(***************************************************************************)
(* Types.                                                                  *)
(***************************************************************************)

\* A message to the clients has the product and the number of the feed message.
LEMMA ClientMessageOf ==
    ASSUME NEW m \in FeedMessage, IsTradeMsg(m)
    PROVE  /\ GenerateMessage(m) \in ClientMessage
           /\ GenerateMessage(m).product = m.product
           /\ GenerateMessage(m).number = m.number
<1>1. GenerateMessage(m) \in ClientMessage
  BY DEF ClientMessage
<1> QED
  BY <1>1 DEF GenerateMessage

\* What is in a feed message.
LEMMA FeedMessageFields ==
    ASSUME NEW m \in FeedMessage
    PROVE  m.product \in Products /\ m.number \in 1 .. MaxMessages
BY DEF FeedMessage

\* What is in a message to the clients.
LEMMA ClientMessageFields ==
    ASSUME NEW m \in ClientMessage
    PROVE  m.product \in Products /\ m.number \in 1 .. MaxMessages
<1>1. PICK f \in FeedMessage : IsTradeMsg(f) /\ m = GenerateMessage(f)
  BY DEF ClientMessage
<1>2. m.product = f.product /\ m.number = f.number
  BY <1>1, ClientMessageOf
<1> QED
  BY <1>2, FeedMessageFields

\* The types hold before anything is connected.
LEMMA FlowTypesInit ==
    ASSUME FlowInit
    PROVE  FlowTypes
<1>1. ServerTypes
  <2>1. toExchange \in Seq(Command) /\ wire \in Seq(FeedMessage)
    BY DEF FlowInit
  <2>2. sent \in 0 .. MaxMessages
    BY TradeFlowAssumption DEF FlowInit
  <2>3. m_connected \in BOOLEAN
    BY DEF FlowInit
  <2> QED
    BY <2>1, <2>2, <2>3 DEF FlowInit, Init, ServerTypes
<1>2. ClientTypes
  <2>1. listeners = <<>> /\ shown = <<>> /\ feedMessagesQueue = <<>>
        /\ newMessages = <<>> /\ endpointsToSubscribe = <<>>
        /\ endpointsToUnsubscribe = <<>>
    BY DEF FlowInit
  <2>2. Len(listeners) = 0 /\ Len(shown) = 0
    BY <2>1
  <2>3. endpointToHandler \in [Products -> 0 .. Len(listeners)]
        /\ \A p \in Products : endpointToHandler[p] = 0
    BY <2>2 DEF FlowInit
  <2> QED
    BY <2>1, <2>2, <2>3 DEF ClientTypes
<1> QED
  BY <1>1, <1>2 DEF FlowTypes

\* Every step preserves the types of the feed client and of the exchange.
LEMMA ServerTypesStep ==
    ASSUME TypeOK, ServerTypes, [FlowNext]_<<vars, flow>>
    PROVE  ServerTypes'
<1> USE DEF ServerTypes, flow, transport, exchange, websocket
<1>1. CASE SubscribeOnFeed
  <2>1. request.product \in Products
    BY <1>1, RequestType DEF SubscribeOnFeed, SubscribeFeed
  <2>2. SubscribeMessage(request.product) \in Command
    BY <2>1 DEF SubscribeMessage, Command
  <2>3. toExchange' \in Seq(Command)
    BY <1>1, <2>2 DEF SubscribeOnFeed, Send
  <2>4. connection' \in {"connecting", "open", "closed"} \cup {connection}
    BY <1>1 DEF SubscribeOnFeed, ConnectOnce, Connect
  <2>5. m_connected' \in BOOLEAN
    BY <1>1 DEF SubscribeOnFeed
  <2>6. UNCHANGED <<wsPc, wsProduct>>
    BY <1>1 DEF SubscribeOnFeed, SubscribeFeed
  <2> QED
    BY <1>1, <2>1, <2>3, <2>4, <2>5, <2>6 DEF SubscribeOnFeed, ConnectOnce
<1>2. CASE UnsubscribeOnFeed
  <2>1. request.product \in Products
    BY <1>2, RequestType DEF UnsubscribeOnFeed, Unsubscribe
  <2>2. UnsubscribeMessage(request.product) \in Command
    BY <2>1 DEF UnsubscribeMessage, Command
  <2>3. toExchange' \in Seq(Command)
    <3>1. \/ toExchange' = toExchange
          \/ toExchange' = Append(toExchange, UnsubscribeMessage(request.product))
      BY <1>2 DEF UnsubscribeOnFeed, Send
    <3>2. toExchange \in Seq(Command)
      OBVIOUS
    <3>3. Append(toExchange, UnsubscribeMessage(request.product)) \in Seq(Command)
      BY <2>2, <3>2, AppendProperties
    <3> HIDE DEF ServerTypes
    <3> QED
      BY <3>1, <3>2, <3>3
  <2>4. UNCHANGED <<wsPc, wsProduct>>
    BY <1>2 DEF UnsubscribeOnFeed, Unsubscribe
  <2> QED
    BY <1>2, <2>3, <2>4 DEF UnsubscribeOnFeed
<1>3. CASE PublisherCloses
  <2>1. UNCHANGED <<wsPc, wsProduct>>
    BY <1>3 DEF PublisherCloses, UnsubscribeJoin
  <2> QED
    BY <1>3, <2>1 DEF PublisherCloses
<1>4. CASE ServiceElsewhere
  <2>1. UNCHANGED <<wsPc, wsProduct>>
    BY <1>4 DEF ServiceElsewhere, Request, SubscribeProduct, UnsubscribeCrashes,
                UnsubscribeFeed
  <2> QED
    BY <1>4, <2>1 DEF ServiceElsewhere
<1>5. CASE ConnectionOpens
  BY <1>5 DEF ConnectionOpens, vars
<1>6. CASE ConnectionCloses
  BY <1>6 DEF ConnectionCloses, vars
<1>7. CASE ExchangeSubscribes
  <2>1. Head(toExchange) \in Command /\ Tail(toExchange) \in Seq(Command)
    BY <1>7 DEF ExchangeSubscribes
  <2>2. Head(toExchange).product \in Products
    BY <2>1 DEF Command
  <2> QED
    BY <1>7, <2>1, <2>2 DEF ExchangeSubscribes, vars
<1>8. ASSUME NEW k \in Kinds, NEW p \in Products, ExchangeSends(k, p)
      PROVE  ServerTypes'
  <2> DEFINE m == [type |-> k.type, product |-> p, number |-> sent + 1,
                   fields |-> k.fields]
  <2>1. sent + 1 \in 1 .. MaxMessages
    BY <1>8, TradeFlowAssumption DEF ExchangeSends
  <2>2. m \in FeedMessage
    BY <2>1, TradeFlowAssumption DEF FeedMessage
  <2>3. wire' \in Seq(FeedMessage)
    <3>1. wire' = Append(wire, m)
      BY <1>8 DEF ExchangeSends
    <3> HIDE DEF m
    <3> QED
      BY <2>2, <3>1
  <2>4. sent' \in 0 .. MaxMessages
    BY <1>8, <2>1, TradeFlowAssumption DEF ExchangeSends
  <2> QED
    BY <1>8, <2>3, <2>4 DEF ExchangeSends, vars
<1>9. CASE ReceiveTrade
  <2>1. Head(wire) \in FeedMessage /\ Tail(wire) \in Seq(FeedMessage)
    BY <1>9 DEF ReceiveTrade
  <2>2. wsProduct' = Head(wire).product /\ wsPc' = "onTrade"
    BY <1>9 DEF ReceiveTrade, OnMessageReceived
  <2> QED
    BY <1>9, <2>1, <2>2 DEF ReceiveTrade
<1>10. CASE ReceiveUnreadable
  BY <1>10 DEF ReceiveUnreadable
<1>11. CASE ReceiveOther
  <2>1. Tail(wire) \in Seq(FeedMessage)
    BY <1>11 DEF ReceiveOther
  <2> QED
    BY <1>11, <2>1 DEF ReceiveOther, vars
<1>12. CASE PublishTrade
  <2>1. wsPc' = "idle"
    BY <1>12 DEF PublishTrade, OnTrade
  <2> QED
    BY <1>12, <2>1 DEF PublishTrade
<1>13. CASE SubscribeConfirmed
  <2>1. UNCHANGED <<wsPc, wsProduct>>
    BY <1>13 DEF SubscribeConfirmed, SubscribeTrades
  <2> QED
    BY <1>13, <2>1 DEF SubscribeConfirmed
<1>14. ASSUME NEW l \in DOMAIN listeners,
              ListenerConnects(l) \/ ListenerReceives(l) \/ ListenerExits(l)
       PROVE  ServerTypes'
  BY <1>14 DEF ListenerConnects, ListenerReceives, ListenerExits, vars
<1>15. CASE StartListener \/ ClearFlag
  BY <1>15 DEF StartListener, ClearFlag, vars
<1>16. CASE TakeMessages \/ PrintMessage
  BY <1>16 DEF TakeMessages, PrintMessage, vars
<1>17. CASE UNCHANGED <<vars, flow>>
  BY <1>17 DEF vars
<1> QED
  BY <1>1, <1>2, <1>3, <1>4, <1>5, <1>6, <1>7, <1>8, <1>9, <1>10, <1>11, <1>12,
     <1>13, <1>14, <1>15, <1>16, <1>17 DEF FlowNext, ServiceFlow, ReceiveMessage

\* What is in an entry of the client's queue.
LEMMA QueuedFields ==
    ASSUME NEW n, NEW e \in Queued(n)
    PROVE  e.listener \in 1 .. n /\ e.message \in ClientMessage
BY DEF Queued

\* A listener has its types whatever becomes of it.
LEMMA ListenerFields ==
    ASSUME NEW t \in Listener
    PROVE  /\ t.product \in Products /\ t.at \in BOOLEAN /\ t.exited \in BOOLEAN
           /\ t.connected \in BOOLEAN /\ t.inbox \in Seq(ClientMessage)
           /\ t.heard \in 0 .. MaxMessages
           /\ \A b \in BOOLEAN : /\ [t EXCEPT !.at = b] \in Listener
                                 /\ [t EXCEPT !.connected = b] \in Listener
           /\ \A s \in Seq(ClientMessage) : [t EXCEPT !.inbox = s] \in Listener
           /\ Exited(t) \in Listener
<1>1. /\ t.product \in Products /\ t.at \in BOOLEAN /\ t.exited \in BOOLEAN
      /\ t.connected \in BOOLEAN /\ t.inbox \in Seq(ClientMessage)
      /\ t.heard \in 0 .. MaxMessages
  BY DEF Listener
<1>2. ASSUME NEW b \in BOOLEAN
      PROVE  [t EXCEPT !.at = b] \in Listener /\ [t EXCEPT !.connected = b] \in Listener
  BY DEF Listener
<1>3. ASSUME NEW s \in Seq(ClientMessage)
      PROVE  [t EXCEPT !.inbox = s] \in Listener
  BY DEF Listener
<1>4. Exited(t) \in Listener
  <2> DEFINE u == [t EXCEPT !.exited = TRUE]
             v == [u EXCEPT !.connected = FALSE]
  <2>1. u \in Listener
    BY DEF Listener
  <2> HIDE DEF u
  <2>2. v \in Listener
    BY <2>1 DEF Listener
  <2> HIDE DEF v
  <2>3. <<>> \in Seq(ClientMessage)
    OBVIOUS
  <2>4. [v EXCEPT !.inbox = <<>>] \in Listener
    BY <2>2, <2>3 DEF Listener
  <2> QED
    BY <2>4 DEF Exited, u, v
<1> QED
  BY <1>1, <1>2, <1>3, <1>4

\* The listeners as they are kept over a step that starts none: each keeps its
\* product, is a listener still, and has nothing to receive once it has exited.
ListenersKept(s, t) ==
    /\ t \in Seq(Listener)
    /\ Len(t) = Len(s)
    /\ \A l \in 1 .. Len(s) :
         /\ t[l].product = s[l].product
         /\ t[l].exited => ~t[l].connected /\ t[l].inbox = <<>>

\* Changing one listener.
LEMMA OneListener ==
    ASSUME NEW s \in Seq(Listener), NEW l \in 1 .. Len(s), NEW x \in Listener,
           x.product = s[l].product, x.exited => ~x.connected /\ x.inbox = <<>>,
           \A k \in 1 .. Len(s) : s[k].exited => ~s[k].connected /\ s[k].inbox = <<>>
    PROVE  ListenersKept(s, [s EXCEPT ![l] = x])
<1> DEFINE t == [s EXCEPT ![l] = x]
<1>1. t \in Seq(Listener) /\ Len(t) = Len(s)
  OBVIOUS
<1>2. \A k \in 1 .. Len(s) : t[k] = IF k = l THEN x ELSE s[k]
  OBVIOUS
<1> HIDE DEF t
<1>3. ListenersKept(s, t)
  BY <1>1, <1>2 DEF ListenersKept
<1> QED
  BY <1>3 DEF t

\* Changing all listeners.
LEMMA AllListeners ==
    ASSUME NEW s \in Seq(Listener), NEW t \in [DOMAIN s -> Listener],
           \A l \in DOMAIN s : /\ t[l].product = s[l].product
                               /\ t[l].exited => ~t[l].connected /\ t[l].inbox = <<>>
    PROVE  ListenersKept(s, t)
<1>1. DOMAIN s = 1 .. Len(s) /\ Len(s) \in Nat
  OBVIOUS
<1>2. t \in [1 .. Len(s) -> Listener]
  BY <1>1
<1>3. t \in Seq(Listener) /\ Len(t) = Len(s)
  BY <1>1, <1>2
<1> QED
  BY <1>1, <1>3 DEF ListenersKept

\* The types of the client are kept over a step that starts no listener.
LEMMA ClientTypesKept ==
    ASSUME ClientTypes, ListenersKept(listeners, listeners'),
           UNCHANGED endpointToHandler,
           endpointsToSubscribe' \in Seq(Products),
           endpointsToUnsubscribe' \in Seq(Products),
           feedMessagesQueue' \in Seq(Queued(Len(listeners))),
           newMessages' \in Seq(Queued(Len(listeners))),
           shown' \in Seq(0 .. MaxMessages), Len(shown') = Len(shown)
    PROVE  ClientTypes'
<1>1. /\ Len(listeners') = Len(listeners)
      /\ listeners' \in Seq(Listener)
      /\ \A l \in 1 .. Len(listeners) :
           /\ listeners'[l].product = listeners[l].product
           /\ listeners'[l].exited =>
                ~listeners'[l].connected /\ listeners'[l].inbox = <<>>
  BY DEF ListenersKept
<1>2. endpointToHandler' \in [Products -> 0 .. Len(listeners')]
  BY <1>1 DEF ClientTypes
<1>3. ASSUME NEW p \in Products, endpointToHandler[p] # 0
      PROVE  listeners'[endpointToHandler[p]].product = p
  <2>1. endpointToHandler[p] \in 1 .. Len(listeners)
    BY <1>3 DEF ClientTypes
  <2> QED
    BY <1>1, <1>3, <2>1 DEF ClientTypes
<1> QED
  BY <1>1, <1>2, <1>3 DEF ClientTypes

\* A step that leaves the listeners alone keeps them.
LEMMA ListenersAlone ==
    ASSUME ClientTypes
    PROVE  ListenersKept(listeners, listeners)
BY DEF ClientTypes, ListenersKept

\* Starting a listener.
LEMMA ClientStarts ==
    ASSUME ClientTypes, StartListener
    PROVE  ClientTypes'
<1> DEFINE p == Head(endpointsToSubscribe)
           n == Len(listeners)
<1>1. /\ p \in Products
      /\ endpointsToSubscribe' \in Seq(Products)
      /\ UNCHANGED <<endpointsToUnsubscribe, feedMessagesQueue, newMessages>>
  BY DEF StartListener, ClientTypes
<1>2. /\ listeners' = Append(listeners, NewListener(p))
      /\ shown' = Append(shown, 0)
      /\ endpointToHandler' = IF endpointToHandler[p] = 0
                              THEN [endpointToHandler EXCEPT ![p] = n + 1]
                              ELSE endpointToHandler
  BY DEF StartListener
<1>3. /\ NewListener(p) \in Listener
      /\ NewListener(p).product = p
      /\ NewListener(p).exited = FALSE
  <2>1. <<>> \in Seq(ClientMessage)
    OBVIOUS
  <2> QED
    BY <1>1, <2>1, TradeFlowAssumption DEF NewListener, Listener
<1>4. listeners \in Seq(Listener) /\ n \in Nat
  BY DEF ClientTypes
<1> HIDE DEF p
<1>5. /\ listeners' \in Seq(Listener)
      /\ Len(listeners') = n + 1
      /\ \A l \in 1 .. n : listeners'[l] = listeners[l]
      /\ listeners'[n + 1] = NewListener(p)
  BY <1>2, <1>3, <1>4
<1>6. shown' \in Seq(0 .. MaxMessages) /\ Len(shown') = n + 1
  <2>1. shown \in Seq(0 .. MaxMessages) /\ Len(shown) = n /\ 0 \in 0 .. MaxMessages
    BY TradeFlowAssumption DEF ClientTypes
  <2> QED
    BY <1>2, <2>1
<1>7. /\ feedMessagesQueue' \in Seq(Queued(n + 1))
      /\ newMessages' \in Seq(Queued(n + 1))
  <2>1. Queued(n) \subseteq Queued(n + 1)
    BY <1>4 DEF Queued
  <2>2. \A s \in Seq(Queued(n)) : s \in Seq(Queued(n + 1))
    <3> HIDE DEF n
    <3> QED
      BY <2>1
  <2> QED
    BY <1>1, <2>2 DEF ClientTypes
<1>8. /\ endpointToHandler' \in [Products -> 0 .. n + 1]
      /\ \A q \in Products :
           \/ endpointToHandler'[q] = endpointToHandler[q]
           \/ q = p /\ endpointToHandler'[q] = n + 1
  <2>1. endpointToHandler \in [Products -> 0 .. n]
    BY DEF ClientTypes
  <2> HIDE DEF n
  <2>2. endpointToHandler \in [Products -> 0 .. n + 1] /\ n + 1 \in 0 .. n + 1
    BY <1>4, <2>1
  <2> QED
    BY <1>1, <1>2, <2>2
<1>9. ASSUME NEW q \in Products, endpointToHandler'[q] # 0
      PROVE  listeners'[endpointToHandler'[q]].product = q
  <2>1. CASE q = p /\ endpointToHandler'[q] = n + 1
    BY <1>3, <1>5, <2>1
  <2>2. CASE endpointToHandler'[q] = endpointToHandler[q]
    <3>1. endpointToHandler[q] \in 1 .. n /\ listeners[endpointToHandler[q]].product = q
      BY <1>9, <2>2 DEF ClientTypes
    <3> QED
      BY <1>5, <2>2, <3>1
  <2> QED
    BY <1>8, <2>1, <2>2
<1>10. ASSUME NEW l \in 1 .. n + 1, listeners'[l].exited
       PROVE  ~listeners'[l].connected /\ listeners'[l].inbox = <<>>
  <2>1. CASE l \in 1 .. n
    BY <1>5, <1>10, <2>1 DEF ClientTypes
  <2>2. CASE l = n + 1
    BY <1>3, <1>5, <1>10, <2>2
  <2> QED
    BY <1>4, <2>1, <2>2
<1> QED
  BY <1>1, <1>5, <1>6, <1>7, <1>8, <1>9, <1>10 DEF ClientTypes

\* Publishing a trade keeps the listeners.
LEMMA ListenersOfPublish ==
    ASSUME FlowTypes, PublishTrade
    PROVE  ListenersKept(listeners, listeners')
<1>0. /\ listeners \in Seq(Listener)
      /\ DOMAIN listeners = 1 .. Len(listeners)
      /\ \A l \in 1 .. Len(listeners) :
           /\ listeners[l] \in Listener
           /\ listeners[l].exited => ~listeners[l].connected /\ listeners[l].inbox = <<>>
  <2>1. listeners \in Seq(Listener)
    BY DEF FlowTypes, ClientTypes
  <2>2. DOMAIN listeners = 1 .. Len(listeners)
        /\ \A l \in 1 .. Len(listeners) : listeners[l] \in Listener
    BY <2>1
  <2> QED
    BY <2>1, <2>2 DEF FlowTypes, ClientTypes
<1> DEFINE m == GenerateMessage(wsMessage)
<1>1. m \in ClientMessage
  BY ClientMessageOf DEF FlowTypes, ServerTypes, PublishTrade, OnTrade
<1>2. ASSUME NEW l \in DOMAIN listeners
      PROVE  /\ listeners'[l] \in Listener
             /\ listeners'[l].product = listeners[l].product
             /\ listeners'[l].exited =>
                  ~listeners'[l].connected /\ listeners'[l].inbox = <<>>
  <2> DEFINE t == [listeners[l] EXCEPT !.inbox = Append(listeners[l].inbox, m),
                                       !.heard = wsMessage.number]
  <2>1. \/ listeners'[l] = listeners[l]
        \/ listeners'[l] = t /\ listeners[l].connected
    BY DEF PublishTrade
  <2>2. listeners[l] \in Listener
    BY <1>0
  <2>3. Append(listeners[l].inbox, m) \in Seq(ClientMessage)
    <3>1. listeners[l].inbox \in Seq(ClientMessage)
      BY <2>2, ListenerFields
    <3> HIDE DEF m
    <3> QED
      BY <1>1, <3>1, AppendProperties
  <2>4. /\ t \in Listener
        /\ t.product = listeners[l].product
        /\ t.exited = listeners[l].exited
    <3>1. wsMessage.number \in 0 .. MaxMessages
      <4>1. wsMessage \in FeedMessage
        BY DEF FlowTypes, ServerTypes, PublishTrade, OnTrade
      <4>2. wsMessage.number \in 1 .. MaxMessages
        BY <4>1 DEF FeedMessage
      <4> QED
        BY <4>2, TradeFlowAssumption
    <3> HIDE DEF m
    <3> QED
      BY <2>2, <2>3, <3>1 DEF Listener
  <2> HIDE DEF t
  <2> QED
    BY <1>0, <2>1, <2>2, <2>4
<1>3. listeners' = [l \in DOMAIN listeners |-> listeners'[l]]
  BY DEF PublishTrade
<1>4. listeners' \in [DOMAIN listeners -> Listener]
  BY <1>2, <1>3
<1> QED
  BY <1>0, <1>2, <1>3, <1>4, AllListeners

\* What a step does to the listeners when it starts none.
LEMMA ListenersStep ==
    ASSUME TypeOK, FlowTypes, [FlowNext]_<<vars, flow>>, ~StartListener
    PROVE  ListenersKept(listeners, listeners') /\ UNCHANGED endpointToHandler
<1>0. /\ listeners \in Seq(Listener)
      /\ DOMAIN listeners = 1 .. Len(listeners)
      /\ \A l \in 1 .. Len(listeners) :
           /\ listeners[l] \in Listener
           /\ listeners[l].exited => ~listeners[l].connected /\ listeners[l].inbox = <<>>
  <2>1. listeners \in Seq(Listener)
    BY DEF FlowTypes, ClientTypes
  <2>2. DOMAIN listeners = 1 .. Len(listeners)
        /\ \A l \in 1 .. Len(listeners) : listeners[l] \in Listener
    BY <2>1
  <2> QED
    BY <2>1, <2>2 DEF FlowTypes, ClientTypes
<1> USE DEF flow, client, threads
<1>1. ASSUME UNCHANGED threads
      PROVE  ListenersKept(listeners, listeners') /\ UNCHANGED endpointToHandler
  BY <1>1, ListenersAlone DEF FlowTypes
<1>2. CASE PublisherCloses
  <2>1. ASSUME NEW l \in DOMAIN listeners
        PROVE  /\ listeners'[l] \in Listener
               /\ listeners'[l].product = listeners[l].product
               /\ listeners'[l].exited =>
                    ~listeners'[l].connected /\ listeners'[l].inbox = <<>>
    <3>1. \/ listeners'[l] = listeners[l]
          \/ listeners'[l] = [listeners[l] EXCEPT !.connected = FALSE]
      BY <1>2 DEF PublisherCloses
    <3>2. listeners[l] \in Listener
      BY <1>0
    <3>3. /\ [listeners[l] EXCEPT !.connected = FALSE] \in Listener
          /\ [listeners[l] EXCEPT !.connected = FALSE].product = listeners[l].product
          /\ [listeners[l] EXCEPT !.connected = FALSE].exited = listeners[l].exited
          /\ [listeners[l] EXCEPT !.connected = FALSE].inbox = listeners[l].inbox
          /\ [listeners[l] EXCEPT !.connected = FALSE].connected = FALSE
      BY <3>2 DEF Listener
    <3> QED
      BY <1>0, <3>1, <3>2, <3>3
  <2>2. listeners' = [l \in DOMAIN listeners |-> listeners'[l]]
        /\ UNCHANGED endpointToHandler
    BY <1>2 DEF PublisherCloses
  <2>3. listeners' \in [DOMAIN listeners -> Listener]
    BY <2>1, <2>2
  <2> QED
    BY <1>0, <2>1, <2>2, <2>3, AllListeners
<1>3. CASE PublishTrade
  BY <1>3, ListenersOfPublish DEF PublishTrade
<1>4. CASE ClearFlag
  <2> DEFINE l == endpointToHandler[Head(endpointsToUnsubscribe)]
             t == [listeners[l] EXCEPT !.at = FALSE]
  <2>1. Head(endpointsToUnsubscribe) \in Products
    BY <1>4 DEF ClearFlag, FlowTypes, ClientTypes
  <2>2. /\ l \in 1 .. Len(listeners)
        /\ listeners' = [listeners EXCEPT ![l] = t]
    BY <1>4, <2>1 DEF ClearFlag, FlowTypes, ClientTypes
  <2>3. listeners[l] \in Listener
    BY <1>0, <2>2
  <2> HIDE DEF l
  <2>4. /\ t \in Listener
        /\ t.product = listeners[l].product
        /\ t.exited = listeners[l].exited
        /\ t.connected = listeners[l].connected
        /\ t.inbox = listeners[l].inbox
    BY <2>3 DEF Listener
  <2> HIDE DEF t
  <2>5. t.exited => ~t.connected /\ t.inbox = <<>>
    BY <1>0, <2>2, <2>4
  <2>6. UNCHANGED endpointToHandler
    BY <1>4 DEF ClearFlag
  <2> QED
    BY <1>0, <2>2, <2>4, <2>5, <2>6, OneListener
<1>5. ASSUME NEW l \in DOMAIN listeners, ListenerConnects(l)
      PROVE  ListenersKept(listeners, listeners') /\ UNCHANGED endpointToHandler
  <2> DEFINE t == [listeners[l] EXCEPT !.connected = TRUE]
  <2>1. listeners' = [listeners EXCEPT ![l] = t] /\ ~listeners[l].exited
    BY <1>5 DEF ListenerConnects
  <2>2. t \in Listener /\ t.product = listeners[l].product
        /\ t.exited = listeners[l].exited
    <3>1. listeners[l] \in Listener
      BY <1>0
    <3> QED
      BY <3>1 DEF Listener
  <2> HIDE DEF t
  <2>3. UNCHANGED endpointToHandler
    BY <1>5 DEF ListenerConnects
  <2> QED
    BY <1>0, <2>1, <2>2, <2>3, OneListener
<1>6. ASSUME NEW l \in DOMAIN listeners, ListenerReceives(l) \/ ListenerExits(l)
      PROVE  ListenersKept(listeners, listeners') /\ UNCHANGED endpointToHandler
  <2> DEFINE t == [listeners[l] EXCEPT !.inbox = Tail(listeners[l].inbox)]
             u == Exited(listeners[l])
  <2>1. \/ listeners' = [listeners EXCEPT ![l] = t] /\ listeners[l].inbox # <<>>
        \/ listeners' = [listeners EXCEPT ![l] = u]
    BY <1>6 DEF ListenerReceives, ListenerExits, Received
  <2>2. listeners[l] \in Listener
    BY <1>0
  <2>3. ASSUME listeners[l].inbox # <<>>
        PROVE  t \in Listener /\ t.product = listeners[l].product
               /\ t.exited = listeners[l].exited
    <3>1. Tail(listeners[l].inbox) \in Seq(ClientMessage)
      BY <2>2, <2>3, ListenerFields
    <3> QED
      BY <2>2, <3>1 DEF Listener
  <2>4. u \in Listener
    BY <2>2, ListenerFields
  <2>5. u.product = listeners[l].product /\ u.connected = FALSE /\ u.inbox = <<>>
    BY <2>2 DEF Listener, Exited
  <2> HIDE DEF t, u
  <2>6. UNCHANGED endpointToHandler
    BY <1>6 DEF ListenerReceives, ListenerExits
  <2>7. CASE listeners' = [listeners EXCEPT ![l] = t] /\ listeners[l].inbox # <<>>
    <3>1. ~t.exited
      BY <1>0, <2>3, <2>7
    <3> QED
      BY <1>0, <2>3, <2>6, <2>7, <3>1, OneListener
  <2>8. CASE listeners' = [listeners EXCEPT ![l] = u]
    BY <1>0, <2>4, <2>5, <2>6, <2>8, OneListener
  <2> QED
    BY <2>1, <2>7, <2>8
<1>7. CASE ServiceFlow /\ ~PublisherCloses
  BY <1>1, <1>7 DEF ServiceFlow, SubscribeOnFeed, SubscribeConfirmed,
                    UnsubscribeOnFeed, ServiceElsewhere
<1>8. CASE \/ ConnectionOpens \/ ConnectionCloses \/ ExchangeSubscribes
           \/ ReceiveMessage \/ TakeMessages \/ PrintMessage
  BY <1>1, <1>8 DEF ConnectionOpens, ConnectionCloses, ExchangeSubscribes,
       ReceiveMessage, ReceiveTrade, ReceiveUnreadable, ReceiveOther, TakeMessages,
       PrintMessage
<1>9. ASSUME NEW k \in Kinds, NEW p \in Products, ExchangeSends(k, p)
      PROVE  ListenersKept(listeners, listeners') /\ UNCHANGED endpointToHandler
  BY <1>1, <1>9 DEF ExchangeSends
<1>10. CASE UNCHANGED <<vars, flow>>
  BY <1>1, <1>10
<1> QED
  BY <1>2, <1>3, <1>4, <1>5, <1>6, <1>7, <1>8, <1>9, <1>10 DEF FlowNext

\* What a step does to the client's queues and to what it has shown when it starts
\* no listener.
LEMMA QueuesStep ==
    ASSUME TypeOK, FlowTypes, [FlowNext]_<<vars, flow>>, ~StartListener
    PROVE  /\ endpointsToSubscribe' \in Seq(Products)
           /\ endpointsToUnsubscribe' \in Seq(Products)
           /\ feedMessagesQueue' \in Seq(Queued(Len(listeners)))
           /\ newMessages' \in Seq(Queued(Len(listeners)))
           /\ shown' \in Seq(0 .. MaxMessages)
           /\ Len(shown') = Len(shown)
<1> DEFINE n == Len(listeners)
           Goal == /\ endpointsToSubscribe' \in Seq(Products)
                   /\ endpointsToUnsubscribe' \in Seq(Products)
                   /\ feedMessagesQueue' \in Seq(Queued(n))
                   /\ newMessages' \in Seq(Queued(n))
                   /\ shown' \in Seq(0 .. MaxMessages)
                   /\ Len(shown') = Len(shown)
<1>0. /\ endpointsToSubscribe \in Seq(Products)
      /\ endpointsToUnsubscribe \in Seq(Products)
      /\ listeners \in Seq(Listener)
      /\ feedMessagesQueue \in Seq(Queued(n))
      /\ newMessages \in Seq(Queued(n))
      /\ shown \in Seq(0 .. MaxMessages)
      /\ Len(shown) = n
  BY DEF FlowTypes, ClientTypes
<1> USE DEF flow, client, printer, endpoints
<1>1. ASSUME UNCHANGED <<endpoints, printer>>
      PROVE  Goal
  BY <1>0, <1>1
<1>2. ASSUME servicePc \in {"subscribeTrades", "unsubscribe", "unsubscribeJoin"},
             NEW s \in Seq(Products)
      PROVE  Confirmed(s) \in Seq(Products)
  <2>1. request.product \in Products
    BY <1>2, RequestType
  <2> QED
    BY <2>1 DEF Confirmed
<1>3. CASE SubscribeConfirmed
  BY <1>0, <1>2, <1>3 DEF SubscribeConfirmed, SubscribeTrades
<1>4. CASE UnsubscribeOnFeed
  <2>1. endpointsToUnsubscribe' = endpointsToUnsubscribe
        \/ endpointsToUnsubscribe' = Confirmed(endpointsToUnsubscribe)
    BY <1>4 DEF UnsubscribeOnFeed
  <2>2. endpointsToUnsubscribe' \in Seq(Products)
    BY <1>0, <1>2, <1>4, <2>1 DEF UnsubscribeOnFeed, Unsubscribe
  <2> QED
    BY <1>0, <1>4, <2>2 DEF UnsubscribeOnFeed
<1>5. CASE PublisherCloses
  BY <1>0, <1>2, <1>5 DEF PublisherCloses, UnsubscribeJoin
<1>6. CASE ClearFlag
  <2>1. Tail(endpointsToUnsubscribe) \in Seq(Products)
    BY <1>0, <1>6 DEF ClearFlag
  <2> QED
    BY <1>0, <1>6, <2>1 DEF ClearFlag
<1>7. ASSUME NEW l \in DOMAIN listeners, ListenerReceives(l)
      PROVE  Goal
  <2> DEFINE e == [listener |-> l, message |-> Head(listeners[l].inbox)]
  <2>1. listeners[l] \in Listener /\ l \in 1 .. n
    BY <1>0
  <2>2. listeners[l].inbox \in Seq(ClientMessage) /\ listeners[l].inbox # <<>>
    BY <1>7, <2>1, ListenerFields DEF ListenerReceives
  <2>3. e \in Queued(n)
    BY <2>1, <2>2 DEF Queued
  <2>4. feedMessagesQueue' = Append(feedMessagesQueue, e)
    BY <1>7 DEF ListenerReceives
  <2> HIDE DEF e
  <2>5. feedMessagesQueue' \in Seq(Queued(n))
    BY <1>0, <2>3, <2>4
  <2> QED
    BY <1>0, <1>7, <2>5 DEF ListenerReceives
<1>8. CASE TakeMessages
  <2>1. <<>> \in Seq(Queued(n))
    OBVIOUS
  <2> QED
    BY <1>0, <1>8, <2>1 DEF TakeMessages, Swapped
<1>9. CASE PrintMessage
  <2> DEFINE h == Head(newMessages)
  <2>1. h \in Queued(n) /\ Tail(newMessages) \in Seq(Queued(n))
    BY <1>0, <1>9 DEF PrintMessage
  <2>2. h.listener \in 1 .. n /\ h.message \in ClientMessage
    BY <2>1, QueuedFields
  <2>3. h.message.number \in 0 .. MaxMessages
    <3>1. h.message.number \in 1 .. MaxMessages
      BY <2>2, ClientMessageFields
    <3> QED
      BY <3>1, TradeFlowAssumption
  <2>4. shown' = [shown EXCEPT ![h.listener] = h.message.number]
    BY <1>9 DEF PrintMessage
  <2> HIDE DEF h
  <2>5. shown' \in Seq(0 .. MaxMessages) /\ Len(shown') = Len(shown)
    BY <1>0, <2>2, <2>3, <2>4
  <2> QED
    BY <1>0, <1>9, <2>1, <2>5 DEF PrintMessage
<1>10. CASE SubscribeOnFeed \/ ServiceElsewhere
  BY <1>1, <1>10 DEF SubscribeOnFeed, ServiceElsewhere
<1>11. CASE \/ ConnectionOpens \/ ConnectionCloses \/ ExchangeSubscribes
            \/ ReceiveMessage \/ PublishTrade
  BY <1>1, <1>11 DEF ConnectionOpens, ConnectionCloses, ExchangeSubscribes,
       ReceiveMessage, ReceiveTrade, ReceiveUnreadable, ReceiveOther, PublishTrade
<1>12. ASSUME NEW k \in Kinds, NEW p \in Products, ExchangeSends(k, p)
       PROVE  Goal
  BY <1>1, <1>12 DEF ExchangeSends
<1>13. ASSUME NEW l \in DOMAIN listeners, ListenerConnects(l) \/ ListenerExits(l)
       PROVE  Goal
  BY <1>1, <1>13 DEF ListenerConnects, ListenerExits
<1>14. CASE UNCHANGED <<vars, flow>>
  BY <1>1, <1>14
<1> QED
  BY <1>3, <1>4, <1>5, <1>6, <1>7, <1>8, <1>9, <1>10, <1>11, <1>12, <1>13, <1>14
     DEF FlowNext, ServiceFlow

\* Every step preserves the types.
LEMMA FlowTypesStep ==
    ASSUME TypeOK, FlowTypes, [FlowNext]_<<vars, flow>>
    PROVE  FlowTypes'
<1>1. ServerTypes'
  BY ServerTypesStep DEF FlowTypes
<1>2. CASE StartListener
  BY <1>1, <1>2, ClientStarts DEF FlowTypes
<1>3. CASE ~StartListener
  BY <1>1, <1>3, ListenersStep, QueuesStep, ClientTypesKept DEF FlowTypes
<1> QED
  BY <1>2, <1>3

-----------------------------------------------------------------------------
(***************************************************************************)
(* The exchange and the registry.                                          *)
(***************************************************************************)

\* A command about p decides, and one about another product does not matter.
LEMMA LeadsAppend ==
    ASSUME NEW s \in Seq(Command), NEW m \in Command, NEW c, NEW d, NEW e, NEW p,
           m.product = p => (m.type = "subscribe" <=> p \in e),
           m.product # p => Leads(s, c, p, d) /\ (p \in d <=> p \in e)
    PROVE  Leads(Append(s, m), c, p, e)
<1> DEFINE t == Append(s, m)
<1>1. /\ Len(t) = Len(s) + 1
      /\ Len(s) \in Nat
      /\ \A i \in 1 .. Len(s) : t[i] = s[i]
      /\ t[Len(t)] = m
  OBVIOUS
<1> HIDE DEF t
<1>2. ASSUME NEW i \in 1 .. Len(t), t[i].product = p,
             \A j \in i + 1 .. Len(t) : t[j].product # p
      PROVE  t[i].type = "subscribe" <=> p \in e
  <2>1. CASE i = Len(t)
    BY <1>1, <1>2, <2>1
  <2>2. CASE i # Len(t)
    <3>1. i \in 1 .. Len(s) /\ t[i] = s[i] /\ Len(t) \in i + 1 .. Len(t)
      BY <1>1, <2>2
    <3>2. m.product # p
      BY <1>1, <1>2, <3>1
    <3>3. \A j \in i + 1 .. Len(s) : s[j].product # p
      BY <1>1, <1>2, <3>1
    <3> QED
      BY <1>2, <3>1, <3>2, <3>3 DEF Leads
  <2> QED
    BY <2>1, <2>2
<1>3. ASSUME \A i \in 1 .. Len(t) : t[i].product # p
      PROVE  p \in c <=> p \in e
  <2>1. Len(t) \in 1 .. Len(t) /\ \A i \in 1 .. Len(s) : i \in 1 .. Len(t)
    BY <1>1
  <2>2. m.product # p /\ \A i \in 1 .. Len(s) : s[i].product # p
    BY <1>1, <1>3, <2>1
  <2> QED
    BY <2>2 DEF Leads
<1> QED
  BY <1>2, <1>3 DEF Leads, t

\* Carrying out the first command leads where the commands led before.
LEMMA LeadsTail ==
    ASSUME NEW s \in Seq(Command), s # <<>>, NEW c, NEW d, NEW e, NEW p,
           Leads(s, c, p, e),
           d = IF Head(s).type = "subscribe" THEN c \cup {Head(s).product}
                                             ELSE c \ {Head(s).product}
    PROVE  Leads(Tail(s), d, p, e)
<1> DEFINE t == Tail(s)
<1>1. /\ Len(s) = Len(t) + 1
      /\ Len(t) \in Nat
      /\ \A i \in 1 .. Len(t) : t[i] = s[i + 1]
      /\ Head(s) = s[1]
  OBVIOUS
<1> HIDE DEF t
<1>2. ASSUME NEW i \in 1 .. Len(t), t[i].product = p,
             \A j \in i + 1 .. Len(t) : t[j].product # p
      PROVE  t[i].type = "subscribe" <=> p \in e
  <2>1. i + 1 \in 1 .. Len(s) /\ s[i + 1].product = p /\ t[i] = s[i + 1]
    BY <1>1, <1>2
  <2>2. ASSUME NEW j \in (i + 1) + 1 .. Len(s)
        PROVE  s[j].product # p
    <3>1. j - 1 \in i + 1 .. Len(t) /\ j - 1 \in 1 .. Len(t) /\ (j - 1) + 1 = j
      BY <1>1, <2>2
    <3>2. t[j - 1] = s[j]
      BY <1>1, <3>1
    <3> QED
      BY <1>2, <3>1, <3>2
  <2> QED
    BY <2>1, <2>2 DEF Leads
<1>3. ASSUME \A i \in 1 .. Len(t) : t[i].product # p
      PROVE  p \in d <=> p \in e
  <2>1. ASSUME NEW j \in 2 .. Len(s)
        PROVE  s[j].product # p
    <3>1. j - 1 \in 1 .. Len(t) /\ (j - 1) + 1 = j
      BY <1>1, <2>1
    <3>2. t[j - 1] = s[j]
      BY <1>1, <3>1
    <3> QED
      BY <1>3, <3>1, <3>2
  <2>2. CASE s[1].product = p
    <3>1. 1 \in 1 .. Len(s) /\ \A j \in 1 + 1 .. Len(s) : s[j].product # p
      BY <1>1, <2>1
    <3>2. s[1].type = "subscribe" <=> p \in e
      BY <2>2, <3>1 DEF Leads
    <3> QED
      BY <1>1, <2>2, <3>2
  <2>3. CASE s[1].product # p
    <3>1. \A i \in 1 .. Len(s) : s[i].product # p
      BY <1>1, <2>1, <2>3
    <3>2. p \in c <=> p \in e
      BY <3>1 DEF Leads
    <3> QED
      BY <1>1, <2>3, <3>2
  <2> QED
    BY <2>2, <2>3
<1> QED
  BY <1>2, <1>3 DEF Leads, t

\* Without commands under way, what is sent is what is expected.
LEMMA LeadsEmpty ==
    ASSUME NEW c, NEW p, NEW e
    PROVE  Leads(<<>>, c, p, e) <=> (p \in c <=> p \in e)
BY DEF Leads

\* Steps that leave the commands, the channels and the registry alone.
LEMMA FeedKept ==
    ASSUME FeedInv, Expected' = Expected,
           UNCHANGED <<m_connected, connection, toExchange, channels>>,
           m_prodIdToListener' \subseteq m_prodIdToListener
    PROVE  FeedInv'
BY DEF FeedInv, Leads

\* CoinbaseFeedClient::subscribe connects and sends, or notes what it could not
\* send.
LEMMA FeedSubscribe ==
    ASSUME MarketInv, FlowTypes, FlowTypes', FeedInv, SubscribeOnFeed
    PROVE  FeedInv'
<1> DEFINE q == request.product
<1>1. /\ servicePc = "subscribeFeed" /\ servicePc' = "subscribeTrades"
      /\ request' = request
      /\ m_prodIdToListener' = m_prodIdToListener \cup {q}
      /\ m_connected' = TRUE
      /\ channels' = channels
      /\ unsent' = IF connection' = "open" THEN unsent \ {q} ELSE unsent \cup {q}
      /\ toExchange' = IF connection' = "open"
                       THEN Append(toExchange, SubscribeMessage(q)) ELSE toExchange
  BY DEF SubscribeOnFeed, SubscribeFeed, ConnectOnce, Send
<1>2. IF m_connected THEN connection' = connection
                     ELSE connection' \in {"connecting", "open", "closed"}
  BY DEF SubscribeOnFeed, ConnectOnce, Connect
<1>3. q \in Products
  BY <1>1, RequestType DEF MarketInv
<1>4. Expected = m_prodIdToListener \ unsent
  BY <1>1 DEF Expected
<1>5. Expected' = m_prodIdToListener' \ unsent'
  BY <1>1 DEF Expected
<1>6. SubscribeMessage(q) \in Command /\ SubscribeMessage(q).product = q
      /\ SubscribeMessage(q).type = "subscribe"
  BY <1>3 DEF SubscribeMessage, Command
<1>7. connection' # "none"
  BY <1>2 DEF FeedInv, FlowTypes, ServerTypes
<1> HIDE DEF q
<1>8. CASE connection' = "open"
  <2>1. /\ toExchange' = Append(toExchange, SubscribeMessage(q))
        /\ Expected' = Expected \cup {q}
    BY <1>1, <1>4, <1>5, <1>8
  <2>2. \A p \in Products : Leads(toExchange, channels, p, Expected)
    <3>1. CASE connection = "open"
      BY <3>1 DEF FeedInv
    <3>2. CASE connection # "open"
      <4>1. ~m_connected /\ connection = "none"
        BY <1>2, <1>8, <3>2 DEF FeedInv, FlowTypes, ServerTypes
      <4>2. toExchange = <<>> /\ channels = {} /\ Expected = {}
        BY <4>1 DEF FeedInv
      <4> QED
        BY <4>2, LeadsEmpty
    <3> QED
      BY <3>1, <3>2
  <2>3. ASSUME NEW p \in Products
        PROVE  Leads(toExchange', channels, p, Expected')
    <3>1. toExchange \in Seq(Command)
      BY DEF FlowTypes, ServerTypes
    <3>2. q = p => p \in Expected'
      BY <2>1
    <3>3. q # p => (p \in Expected <=> p \in Expected')
      BY <2>1
    <3> QED
      BY <1>6, <2>1, <2>2, <3>1, <3>2, <3>3, LeadsAppend
  <2> QED
    BY <1>1, <1>8, <2>3 DEF FeedInv
<1>9. CASE connection' # "open"
  <2>1. toExchange' = toExchange /\ Expected' = Expected \ {q}
    BY <1>1, <1>4, <1>5, <1>9
  <2>2. connection' = "connecting" => connection \in {"none", "connecting"}
    BY <1>2 DEF FeedInv, FlowTypes, ServerTypes
  <2> QED
    BY <1>1, <1>7, <1>9, <2>1, <2>2 DEF FeedInv
<1> QED
  BY <1>8, <1>9

\* CoinbaseFeedClient::unsubscribe takes back what is expected before it takes
\* the product off the registry.
LEMMA FeedUnsubscribe ==
    ASSUME MarketInv, FlowTypes, FlowTypes', FeedInv, UnsubscribeOnFeed
    PROVE  FeedInv'
<1> DEFINE q == request.product
<1>1. /\ servicePc = "unsubscribe"
      /\ m_prodIdToListener' = m_prodIdToListener
      /\ UNCHANGED <<m_connected, connection, channels, unsent>>
  BY DEF UnsubscribeOnFeed, Unsubscribe
<1>2. \/ servicePc' = "idle" /\ toExchange' = toExchange
      \/ /\ servicePc' = "unsubscribeFeed"
         /\ request' = request
         /\ toExchange' = IF connection' = "open"
                          THEN Append(toExchange, UnsubscribeMessage(q))
                          ELSE toExchange
  BY DEF UnsubscribeOnFeed, Unsubscribe, Send
<1>3. q \in Products
  BY <1>1, RequestType DEF MarketInv
<1>4. Expected = m_prodIdToListener \ unsent
  BY <1>1 DEF Expected
<1>5. UnsubscribeMessage(q) \in Command /\ UnsubscribeMessage(q).product = q
      /\ UnsubscribeMessage(q).type # "subscribe"
  BY <1>3 DEF UnsubscribeMessage, Command
<1>6. CASE servicePc' = "idle" /\ toExchange' = toExchange
  <2>1. Expected' = Expected
    BY <1>1, <1>4, <1>6 DEF Expected
  <2> QED
    BY <1>1, <1>6, <2>1, FeedKept
<1>7. CASE /\ servicePc' = "unsubscribeFeed"
           /\ request' = request
           /\ toExchange' = IF connection' = "open"
                            THEN Append(toExchange, UnsubscribeMessage(q))
                            ELSE toExchange
  <2>1. Expected' = Expected \ {q}
    BY <1>1, <1>4, <1>7 DEF Expected
  <2> HIDE DEF q
  <2>2. CASE connection = "open"
    <3>1. toExchange' = Append(toExchange, UnsubscribeMessage(q))
      BY <1>1, <1>7, <2>2
    <3>2. ASSUME NEW p \in Products
          PROVE  Leads(toExchange', channels, p, Expected')
      <4>1. toExchange \in Seq(Command) /\ Leads(toExchange, channels, p, Expected)
        BY <2>2 DEF FlowTypes, ServerTypes, FeedInv
      <4>2. q = p => p \notin Expected'
        BY <2>1
      <4>3. q # p => (p \in Expected <=> p \in Expected')
        BY <2>1
      <4> QED
        BY <1>5, <3>1, <4>1, <4>2, <4>3, LeadsAppend
    <3> QED
      BY <1>1, <2>2, <3>2 DEF FeedInv
  <2>3. CASE connection # "open"
    BY <1>1, <1>7, <2>1, <2>3 DEF FeedInv
  <2> QED
    BY <2>2, <2>3
<1> QED
  BY <1>2, <1>6, <1>7

\* Every step keeps the requests under way in line with the registry.
LEMMA FeedStep ==
    ASSUME MarketInv, FlowTypes, FlowTypes', FeedInv, [FlowNext]_<<vars, flow>>
    PROVE  FeedInv'
<1> USE DEF registries, service, locks, flow, transport, exchange
<1>1. CASE PublisherCloses
  <2>1. /\ servicePc = "unsubscribeJoin" /\ servicePc' = "idle"
        /\ m_prodIdToListener' = m_prodIdToListener \ {request.product}
        /\ UNCHANGED <<unsent, m_connected, connection, toExchange, channels>>
    BY <1>1 DEF PublisherCloses, UnsubscribeJoin
  <2>2. Expected' = Expected
    BY <2>1 DEF Expected
  <2> QED
    BY <2>1, <2>2, FeedKept
<1>2. CASE ServiceElsewhere
  <2>1. UNCHANGED <<m_prodIdToListener, unsent, m_connected, connection,
                    toExchange, channels>>
    BY <1>2 DEF ServiceElsewhere, Request, SubscribeProduct, UnsubscribeCrashes,
                UnsubscribeFeed
  <2>2. \/ /\ servicePc \notin {"unsubscribeFeed", "unsubscribeJoin"}
           /\ servicePc' \notin {"unsubscribeFeed", "unsubscribeJoin"}
        \/ UNCHANGED <<servicePc, request>>
        \/ /\ servicePc = "unsubscribeFeed" /\ servicePc' = "unsubscribeJoin"
           /\ request' = request
    BY <1>2, MarketAssumption
       DEF ServiceElsewhere, Request, SubscribeProduct, UnsubscribeCrashes,
           UnsubscribeFeed
  <2>3. Expected' = Expected
    BY <2>1, <2>2 DEF Expected
  <2> QED
    BY <2>1, <2>3, FeedKept
<1>3. CASE ConnectionOpens
  <2>1. /\ connection = "connecting" /\ connection' = "open"
        /\ UNCHANGED <<m_connected, toExchange, channels>>
    BY <1>3 DEF ConnectionOpens
  <2>2. Expected' = Expected
    BY <1>3 DEF ConnectionOpens, vars, Expected
  <2>3. toExchange = <<>> /\ channels = {} /\ Expected = {}
    BY <2>1 DEF FeedInv
  <2>4. \A p \in Products : Leads(toExchange', channels', p, Expected')
    BY <2>1, <2>2, <2>3, LeadsEmpty
  <2> QED
    BY <2>1, <2>4 DEF FeedInv
<1>4. CASE ConnectionCloses
  BY <1>4 DEF ConnectionCloses, FeedInv
<1>5. CASE ExchangeSubscribes
  <2> DEFINE d == IF Head(toExchange).type = "subscribe"
                  THEN channels \cup {Head(toExchange).product}
                  ELSE channels \ {Head(toExchange).product}
  <2>1. /\ toExchange # <<>>
        /\ channels' = d
        /\ toExchange' = Tail(toExchange)
        /\ UNCHANGED <<m_connected, connection, m_prodIdToListener>>
    BY <1>5 DEF ExchangeSubscribes, vars
  <2>2. Expected' = Expected
    BY <1>5 DEF ExchangeSubscribes, vars, Expected
  <2>3. toExchange \in Seq(Command)
    BY DEF FlowTypes, ServerTypes
  <2>4. ASSUME connection = "open", NEW p \in Products
        PROVE  Leads(Tail(toExchange), d, p, Expected)
    <3>1. Leads(toExchange, channels, p, Expected)
      BY <2>4 DEF FeedInv
    <3> QED
      BY <2>1, <2>3, <3>1, LeadsTail
  <2> HIDE DEF d
  <2> QED
    BY <2>1, <2>2, <2>4 DEF FeedInv
<1>6. ASSUME UNCHANGED <<m_prodIdToListener, servicePc, request, unsent,
                         m_connected, connection, toExchange, channels>>
      PROVE  FeedInv'
  <2>1. Expected' = Expected
    BY <1>6 DEF Expected
  <2> QED
    BY <1>6, <2>1, FeedKept
<1>7. ASSUME NEW k \in Kinds, NEW p \in Products, ExchangeSends(k, p)
      PROVE  FeedInv'
  BY <1>6, <1>7 DEF ExchangeSends, vars
<1>8. CASE ReceiveMessage \/ PublishTrade
  BY <1>6, <1>8 DEF ReceiveMessage, ReceiveTrade, OnMessageReceived,
       ReceiveUnreadable, ReceiveOther, PublishTrade, OnTrade, vars
<1>9. ASSUME NEW l \in DOMAIN listeners,
             ListenerConnects(l) \/ ListenerReceives(l) \/ ListenerExits(l)
      PROVE  FeedInv'
  BY <1>6, <1>9 DEF ListenerConnects, ListenerReceives, ListenerExits, vars
<1>10. CASE StartListener \/ ClearFlag \/ TakeMessages \/ PrintMessage
  BY <1>6, <1>10 DEF StartListener, ClearFlag, TakeMessages, PrintMessage, vars
<1>11. CASE UNCHANGED <<vars, flow>>
  BY <1>6, <1>11 DEF vars
<1>12. CASE SubscribeConfirmed
  <2>1. /\ servicePc = "subscribeTrades" /\ servicePc' = "idle"
        /\ UNCHANGED <<m_prodIdToListener, unsent, m_connected, connection,
                       toExchange, channels>>
    BY <1>12 DEF SubscribeConfirmed, SubscribeTrades
  <2>2. Expected' = Expected
    BY <2>1 DEF Expected
  <2> QED
    BY <2>1, <2>2, FeedKept
<1> QED
  BY <1>1, <1>2, <1>3, <1>4, <1>5, <1>7, <1>8, <1>9, <1>10, <1>11, <1>12,
     FeedSubscribe, FeedUnsubscribe DEF FlowNext, ServiceFlow

-----------------------------------------------------------------------------
(***************************************************************************)
(* The order of the trades.                                                *)
(***************************************************************************)

\* Messages stay in order when one is appended that is newer than all of them.
LEMMA IncreasingAppend ==
    ASSUME NEW S, NEW s \in Seq(S), NEW m \in S, Increasing(s),
           \A x \in ToSet(s) : x.number < m.number
    PROVE  Increasing(Append(s, m))
<1> DEFINE t == Append(s, m)
<1>1. /\ Len(t) = Len(s) + 1 /\ Len(s) \in Nat
      /\ \A i \in 1 .. Len(s) : t[i] = s[i]
      /\ t[Len(s) + 1] = m
  OBVIOUS
<1> HIDE DEF t
<1>2. ASSUME NEW i \in 1 .. Len(t), NEW j \in 1 .. Len(t), i < j
      PROVE  t[i].number < t[j].number
  <2>1. i \in 1 .. Len(s) /\ t[i] = s[i] /\ s[i] \in ToSet(s)
    BY <1>1, <1>2, ToSetElements
  <2>2. CASE j = Len(s) + 1
    BY <1>1, <2>1, <2>2
  <2>3. CASE j # Len(s) + 1
    <3>1. j \in 1 .. Len(s) /\ t[j] = s[j]
      BY <1>1, <2>3
    <3> QED
      BY <1>2, <2>1, <3>1 DEF Increasing
  <2> QED
    BY <2>2, <2>3
<1> QED
  BY <1>2 DEF Increasing, t

\* The first of messages in order is the oldest.
LEMMA IncreasingTail ==
    ASSUME NEW S, NEW s \in Seq(S), s # <<>>, Increasing(s)
    PROVE  Increasing(Tail(s)) /\ \A x \in ToSet(Tail(s)) : Head(s).number < x.number
<1> DEFINE t == Tail(s)
<1>1. /\ Len(t) \in Nat /\ Len(s) = Len(t) + 1
      /\ \A i \in 1 .. Len(t) : t[i] = s[i + 1]
      /\ Head(s) = s[1]
      /\ t \in Seq(S)
  OBVIOUS
<1> HIDE DEF t
<1>2. ASSUME NEW i \in 1 .. Len(t), NEW j \in 1 .. Len(t), i < j
      PROVE  t[i].number < t[j].number
  <2>1. i + 1 \in 1 .. Len(s) /\ j + 1 \in 1 .. Len(s) /\ i + 1 < j + 1
    BY <1>1, <1>2
  <2> QED
    BY <1>1, <2>1 DEF Increasing
<1>3. ASSUME NEW x \in ToSet(t)
      PROVE  Head(s).number < x.number
  <2>1. PICK i \in 1 .. Len(t) : t[i] = x
    BY <1>1, ToSetElements
  <2>2. 1 \in 1 .. Len(s) /\ i + 1 \in 1 .. Len(s) /\ 1 < i + 1 /\ x = s[i + 1]
    BY <1>1, <2>1
  <2> QED
    BY <1>1, <2>2 DEF Increasing
<1> QED
  BY <1>2, <1>3 DEF Increasing, t

\* The same of a queue, where it matters which listener an entry is from.
LEMMA InTurnAppend ==
    ASSUME NEW S, NEW s \in Seq(S), NEW e \in S, InTurn(s),
           \A x \in ToSet(s) : x.listener = e.listener =>
                                 x.message.number < e.message.number
    PROVE  InTurn(Append(s, e))
<1> DEFINE t == Append(s, e)
<1>1. /\ Len(t) = Len(s) + 1 /\ Len(s) \in Nat
      /\ \A i \in 1 .. Len(s) : t[i] = s[i]
      /\ t[Len(s) + 1] = e
  OBVIOUS
<1> HIDE DEF t
<1>2. ASSUME NEW i \in 1 .. Len(t), NEW j \in 1 .. Len(t), i < j,
             t[i].listener = t[j].listener
      PROVE  t[i].message.number < t[j].message.number
  <2>1. i \in 1 .. Len(s) /\ t[i] = s[i] /\ s[i] \in ToSet(s)
    BY <1>1, <1>2, ToSetElements
  <2>2. CASE j = Len(s) + 1
    BY <1>1, <1>2, <2>1, <2>2
  <2>3. CASE j # Len(s) + 1
    <3>1. j \in 1 .. Len(s) /\ t[j] = s[j]
      BY <1>1, <2>3
    <3> QED
      BY <1>2, <2>1, <3>1 DEF InTurn
  <2> QED
    BY <2>2, <2>3
<1> QED
  BY <1>2 DEF InTurn, t

\* The first of a queue is the oldest of its listener.
LEMMA InTurnTail ==
    ASSUME NEW S, NEW s \in Seq(S), s # <<>>, InTurn(s)
    PROVE  /\ InTurn(Tail(s))
           /\ \A x \in ToSet(Tail(s)) : Head(s).listener = x.listener =>
                                          Head(s).message.number < x.message.number
<1> DEFINE t == Tail(s)
<1>1. /\ Len(t) \in Nat /\ Len(s) = Len(t) + 1
      /\ \A i \in 1 .. Len(t) : t[i] = s[i + 1]
      /\ Head(s) = s[1]
      /\ t \in Seq(S)
  OBVIOUS
<1> HIDE DEF t
<1>2. ASSUME NEW i \in 1 .. Len(t), NEW j \in 1 .. Len(t), i < j,
             t[i].listener = t[j].listener
      PROVE  t[i].message.number < t[j].message.number
  <2>1. i + 1 \in 1 .. Len(s) /\ j + 1 \in 1 .. Len(s) /\ i + 1 < j + 1
    BY <1>1, <1>2
  <2>2. t[i] = s[i + 1] /\ t[j] = s[j + 1]
    BY <1>1
  <2> QED
    BY <1>2, <2>1, <2>2 DEF InTurn
<1>3. ASSUME NEW x \in ToSet(t), Head(s).listener = x.listener
      PROVE  Head(s).message.number < x.message.number
  <2>1. PICK i \in 1 .. Len(t) : t[i] = x
    BY <1>1, ToSetElements
  <2>2. 1 \in 1 .. Len(s) /\ i + 1 \in 1 .. Len(s) /\ 1 < i + 1 /\ x = s[i + 1]
    BY <1>1, <2>1
  <2> QED
    BY <1>1, <1>3, <2>2 DEF InTurn
<1> QED
  BY <1>2, <1>3 DEF InTurn, t

\* Numbers of messages, wherever they are.
LEMMA NumberTypes ==
    ASSUME FlowTypes
    PROVE  /\ sent \in Nat
           /\ \A b \in Coming : b.number \in Nat /\ 0 < b.number
           /\ \A l \in 1 .. Len(listeners) :
                /\ shown[l] \in Nat
                /\ listeners[l].inbox \in Seq(ClientMessage)
                /\ \A m \in ToSet(listeners[l].inbox) : m.number \in Nat
           /\ \A e \in ToSet(newMessages) \cup ToSet(feedMessagesQueue) :
                e.listener \in 1 .. Len(listeners) /\ e.message.number \in Nat
<1>1. sent \in Nat
  BY TradeFlowAssumption DEF FlowTypes, ServerTypes
<1>2. ASSUME NEW b \in Coming
      PROVE  b.number \in Nat /\ 0 < b.number
  <2>1. b \in FeedMessage
    BY ToSetElements DEF Coming, Hand, FlowTypes, ServerTypes
  <2> QED
    BY <2>1, FeedMessageFields, TradeFlowAssumption
<1>3. ASSUME NEW l \in 1 .. Len(listeners)
      PROVE  /\ shown[l] \in Nat
             /\ listeners[l].inbox \in Seq(ClientMessage)
             /\ \A m \in ToSet(listeners[l].inbox) : m.number \in Nat
  <2>1. shown \in Seq(0 .. MaxMessages) /\ l \in 1 .. Len(shown)
        /\ listeners \in Seq(Listener)
    BY DEF FlowTypes, ClientTypes
  <2>2. shown[l] \in Nat
    BY <2>1, TradeFlowAssumption
  <2>3. listeners[l] \in Listener
    BY <2>1
  <2>4. listeners[l].inbox \in Seq(ClientMessage)
    BY <2>3, ListenerFields
  <2>5. ASSUME NEW m \in ToSet(listeners[l].inbox)
        PROVE  m.number \in Nat
    <3>1. m \in ClientMessage
      BY <2>4, ToSetElements
    <3> QED
      BY <3>1, ClientMessageFields, TradeFlowAssumption
  <2> QED
    BY <2>2, <2>4, <2>5
<1>4. ASSUME NEW e \in ToSet(newMessages) \cup ToSet(feedMessagesQueue)
      PROVE  e.listener \in 1 .. Len(listeners) /\ e.message.number \in Nat
  <2>1. e \in Queued(Len(listeners))
    BY ToSetElements DEF FlowTypes, ClientTypes
  <2>2. e.listener \in 1 .. Len(listeners) /\ e.message \in ClientMessage
    BY <2>1, QueuedFields
  <2> QED
    BY <2>2, ClientMessageFields, TradeFlowAssumption
<1>5. \A b \in Coming : b.number \in Nat /\ 0 < b.number
  BY <1>2
<1>6. \A l \in 1 .. Len(listeners) :
        /\ shown[l] \in Nat
        /\ listeners[l].inbox \in Seq(ClientMessage)
        /\ \A m \in ToSet(listeners[l].inbox) : m.number \in Nat
  BY <1>3
<1>7. \A e \in ToSet(newMessages) \cup ToSet(feedMessagesQueue) :
        e.listener \in 1 .. Len(listeners) /\ e.message.number \in Nat
  BY <1>4
<1> QED
  BY <1>1, <1>5, <1>6, <1>7, Zenon

\* Nothing is out of order when the wire or an inbox loses all it has.
LEMMA OrderKept ==
    ASSUME OrderInv, FlowTypes, UNCHANGED <<newMessages, feedMessagesQueue, shown, sent>>,
           UNCHANGED <<wsPc, wsMessage>>,
           wire' = wire \/ wire' = <<>>,
           Len(listeners') = Len(listeners),
           \A l \in 1 .. Len(listeners) :
             /\ listeners'[l].product = listeners[l].product
             /\ \/ listeners'[l].inbox = listeners[l].inbox
                \/ listeners'[l].inbox = <<>>
    PROVE  OrderInv'
<1>1. /\ Hand' = Hand
      /\ Increasing(wire') /\ ToSet(wire') \subseteq ToSet(wire)
  <2>1. Increasing(<<>>) /\ ToSet(<<>>) = {}
    BY ToSetEmpty DEF Increasing
  <2> QED
    BY <2>1 DEF OrderInv, WireOrder, Hand
<1>2. Coming' \subseteq Coming
  BY <1>1 DEF Coming
<1>3. WireOrder'
  BY <1>1, <1>2 DEF OrderInv, WireOrder
<1>4. \A l \in 1 .. Len(listeners) :
        /\ Increasing(listeners'[l].inbox)
        /\ ToSet(listeners'[l].inbox) \subseteq ToSet(listeners[l].inbox)
  <2>1. Increasing(<<>>) /\ ToSet(<<>>) = {}
    BY ToSetEmpty DEF Increasing
  <2> QED
    BY <2>1 DEF OrderInv, InboxOrder
<1>5. InboxOrder'
  BY <1>2, <1>4 DEF OrderInv, InboxOrder
<1>6. QueueOrder'
  <2>1. ASSUME NEW e \in ToSet(newMessages) \cup ToSet(feedMessagesQueue)
        PROVE  /\ e.message.product = listeners'[e.listener].product
               /\ \A b \in ToSet(listeners'[e.listener].inbox) \cup Coming' :
                    e.message.number < b.number
    <3>1. e.listener \in 1 .. Len(listeners)
      BY NumberTypes
    <3> QED
      BY <1>2, <1>4, <3>1 DEF OrderInv, QueueOrder
  <2> QED
    BY <2>1 DEF OrderInv, QueueOrder
<1> QED
  BY <1>3, <1>5, <1>6 DEF OrderInv

\* The exchange numbers its messages, so that a new one is the newest.
LEMMA OrderSends ==
    ASSUME FlowTypes, OrderInv, NEW k \in Kinds, NEW p \in Products, ExchangeSends(k, p)
    PROVE  OrderInv'
<1> DEFINE m == [type |-> k.type, product |-> p, number |-> sent + 1,
                 fields |-> k.fields]
<1>1. /\ wire' = Append(wire, m)
      /\ sent' = sent + 1
      /\ UNCHANGED <<newMessages, feedMessagesQueue, listeners, shown, wsPc, wsMessage>>
  BY DEF ExchangeSends, vars, websocket, transport, client, threads, printer
<1>2. sent \in Nat /\ sent + 1 \in 1 .. MaxMessages
  BY TradeFlowAssumption DEF ExchangeSends, FlowTypes, ServerTypes
<1>3. m \in FeedMessage
  BY <1>2, TradeFlowAssumption DEF FeedMessage
<1>4. m.number = sent + 1
  OBVIOUS
<1> HIDE DEF m
<1>5. wire \in Seq(FeedMessage)
  BY DEF FlowTypes, ServerTypes
<1>6. ToSet(wire') = ToSet(wire) \cup {m}
  BY <1>1, <1>3, <1>5, ToSetAppend
<1>7. Hand' = Hand /\ Coming' = Coming \cup {m}
  BY <1>1, <1>6 DEF Hand, Coming
<1>8. \A b \in Coming : b.number < m.number /\ b.number <= sent'
  BY <1>1, <1>2, <1>4, NumberTypes DEF OrderInv, WireOrder
<1>9. WireOrder'
  <2>1. ToSet(wire) \subseteq Coming /\ Hand \subseteq Coming
    BY DEF Coming
  <2>2. Increasing(wire')
    BY <1>1, <1>3, <1>5, <1>8, <2>1, IncreasingAppend DEF OrderInv, WireOrder
  <2>3. \A a \in Hand', b \in ToSet(wire') : a.number < b.number
    BY <1>6, <1>7, <1>8, <2>1 DEF OrderInv, WireOrder
  <2>4. \A b \in Coming' : b.number <= sent'
    BY <1>1, <1>2, <1>4, <1>7, <1>8
  <2> QED
    BY <2>2, <2>3, <2>4 DEF WireOrder
<1>10. InboxOrder'
  <2>1. ASSUME NEW l \in 1 .. Len(listeners), NEW x \in ToSet(listeners[l].inbox)
        PROVE  x.number <= sent' /\ \A b \in Coming' : x.number < b.number
    <3>1. x.number \in Nat /\ x.number <= sent /\ \A b \in Coming : x.number < b.number
      BY NumberTypes DEF OrderInv, InboxOrder
    <3> QED
      BY <1>1, <1>2, <1>4, <1>7, <3>1
  <2>2. ASSUME NEW l \in 1 .. Len(listeners)
        PROVE  shown[l] <= sent' /\ \A b \in Coming' : shown[l] < b.number
    <3>1. shown[l] \in Nat /\ shown[l] <= sent /\ \A b \in Coming : shown[l] < b.number
      BY NumberTypes DEF OrderInv, InboxOrder
    <3> QED
      BY <1>1, <1>2, <1>4, <1>7, <3>1
  <2> QED
    BY <1>1, <2>1, <2>2 DEF OrderInv, InboxOrder
<1>11. QueueOrder'
  <2>1. ASSUME NEW e \in ToSet(newMessages) \cup ToSet(feedMessagesQueue)
        PROVE  /\ e.message.number <= sent'
               /\ \A b \in ToSet(listeners[e.listener].inbox) \cup Coming' :
                    e.message.number < b.number
    <3>1. /\ e.message.number \in Nat
          /\ e.message.number <= sent
          /\ \A b \in ToSet(listeners[e.listener].inbox) \cup Coming :
               e.message.number < b.number
      BY NumberTypes DEF OrderInv, QueueOrder
    <3> QED
      BY <1>1, <1>2, <1>4, <1>7, <3>1
  <2> QED
    BY <1>1, <2>1 DEF OrderInv, QueueOrder
<1> QED
  BY <1>9, <1>10, <1>11 DEF OrderInv

\* The websocket thread takes the oldest message off the wire.
LEMMA OrderReceives ==
    ASSUME FlowTypes, OrderInv, ReceiveTrade \/ ReceiveOther
    PROVE  OrderInv'
<1> DEFINE h == Head(wire)
<1>1. /\ wire # <<>> /\ wire' = Tail(wire)
      /\ UNCHANGED <<newMessages, feedMessagesQueue, listeners, shown, sent>>
      /\ wsPc = "idle"
  BY DEF ReceiveTrade, ReceiveOther, OnMessageReceived, client, threads, printer
<1>2. \/ wsPc' = "onTrade" /\ wsMessage' = h
      \/ UNCHANGED <<wsPc, wsMessage>>
  BY DEF ReceiveTrade, ReceiveOther, OnMessageReceived, vars, websocket, transport
<1>3. wire \in Seq(FeedMessage)
  BY DEF FlowTypes, ServerTypes
<1>4. ToSet(wire) = {h} \cup ToSet(wire')
  BY <1>1, <1>3, ToSetTail
<1>5. Increasing(wire') /\ \A b \in ToSet(wire') : h.number < b.number
  BY <1>1, <1>3, IncreasingTail DEF OrderInv, WireOrder
<1>6. Hand = {} /\ Hand' \subseteq {h}
  BY <1>1, <1>2 DEF Hand
<1> HIDE DEF h
<1>7. Coming' \subseteq Coming
  BY <1>4, <1>6 DEF Coming
<1>8. WireOrder'
  BY <1>1, <1>5, <1>6, <1>7 DEF OrderInv, WireOrder
<1>9. InboxOrder'
  BY <1>1, <1>7 DEF OrderInv, InboxOrder
<1>10. QueueOrder'
  BY <1>1, <1>7 DEF OrderInv, QueueOrder
<1> QED
  BY <1>8, <1>9, <1>10 DEF OrderInv

\* The publisher passes the trade on to the listeners of its product.
LEMMA OrderPublishes ==
    ASSUME FlowTypes, OrderInv, PublishTrade
    PROVE  OrderInv'
<1> DEFINE m == GenerateMessage(wsMessage)
<1>1. /\ wsPc = "onTrade" /\ wsPc' = "idle"
      /\ UNCHANGED <<newMessages, feedMessagesQueue, wire, shown, sent>>
  BY DEF PublishTrade, OnTrade, exchange, printer
<1>2. wsMessage \in FeedMessage /\ IsTradeMsg(wsMessage)
  BY <1>1 DEF FlowTypes, ServerTypes
<1>3. /\ m \in ClientMessage
      /\ m.product = wsMessage.product
      /\ m.number = wsMessage.number
  BY <1>2, ClientMessageOf
<1>4. listeners \in Seq(Listener) /\ DOMAIN listeners = 1 .. Len(listeners)
  BY DEF FlowTypes, ClientTypes
<1>5. ASSUME NEW l \in 1 .. Len(listeners)
      PROVE  /\ listeners'[l].product = listeners[l].product
             /\ \/ listeners'[l].inbox = listeners[l].inbox
                \/ /\ listeners'[l].inbox = Append(listeners[l].inbox, m)
                   /\ listeners[l].product = m.product
  <2>1. listeners[l] \in Listener
    BY <1>4
  <2>2. \/ listeners'[l] = listeners[l]
        \/ /\ listeners'[l] = [listeners[l] EXCEPT !.inbox = Append(listeners[l].inbox, m),
                                                   !.heard = wsMessage.number]
           /\ listeners[l].product = wsMessage.product
    BY <1>4 DEF PublishTrade
  <2> HIDE DEF m
  <2> QED
    BY <1>3, <2>1, <2>2 DEF Listener
<1>6. Len(listeners') = Len(listeners)
  <2>1. DOMAIN listeners' = DOMAIN listeners
    BY DEF PublishTrade
  <2>2. ListenersKept(listeners, listeners')
    BY ListenersOfPublish
  <2> QED
    BY <2>2 DEF ListenersKept
<1> HIDE DEF m
<1>7. Hand = {wsMessage} /\ Hand' = {} /\ Coming = {wsMessage} \cup Coming'
  BY <1>1 DEF Hand, Coming
<1>8. \A b \in Coming' : m.number < b.number
  BY <1>1, <1>3, <1>7 DEF OrderInv, WireOrder, Coming
<1>9. m.number <= sent
  BY <1>3, <1>7 DEF OrderInv, WireOrder
<1>10. WireOrder'
  BY <1>1, <1>7 DEF OrderInv, WireOrder
<1>11. ASSUME NEW l \in 1 .. Len(listeners)
       PROVE  /\ Increasing(listeners'[l].inbox)
              /\ \A x \in ToSet(listeners'[l].inbox) :
                   \/ x \in ToSet(listeners[l].inbox)
                   \/ x = m /\ listeners[l].product = m.product
  <2>1. CASE listeners'[l].inbox = listeners[l].inbox
    BY <2>1 DEF OrderInv, InboxOrder
  <2>2. CASE /\ listeners'[l].inbox = Append(listeners[l].inbox, m)
             /\ listeners[l].product = m.product
    <3>1. listeners[l].inbox \in Seq(ClientMessage) /\ Increasing(listeners[l].inbox)
      BY NumberTypes DEF OrderInv, InboxOrder
    <3>2. \A x \in ToSet(listeners[l].inbox) : x.number < m.number
      BY <1>3, <1>7 DEF OrderInv, InboxOrder
    <3>3. Increasing(Append(listeners[l].inbox, m))
      BY <1>3, <3>1, <3>2, IncreasingAppend
    <3>4. ToSet(Append(listeners[l].inbox, m)) = ToSet(listeners[l].inbox) \cup {m}
      BY <1>3, <3>1, ToSetAppend
    <3> QED
      BY <2>2, <3>3, <3>4
  <2> QED
    BY <1>5, <2>1, <2>2
<1>12. InboxOrder'
  <2>1. ASSUME NEW l \in 1 .. Len(listeners), NEW x \in ToSet(listeners'[l].inbox)
        PROVE  /\ x.product = listeners'[l].product
               /\ shown[l] < x.number
               /\ x.number <= sent
               /\ \A b \in Coming' : x.number < b.number
    <3>1. CASE x \in ToSet(listeners[l].inbox)
      BY <1>5, <1>7, <3>1 DEF OrderInv, InboxOrder
    <3>2. CASE x = m /\ listeners[l].product = m.product
      <4>1. shown[l] < m.number
        BY <1>3, <1>7 DEF OrderInv, InboxOrder
      <4> QED
        BY <1>5, <1>8, <1>9, <3>2, <4>1
    <3> QED
      BY <1>11, <3>1, <3>2
  <2>2. ASSUME NEW l \in 1 .. Len(listeners)
        PROVE  shown[l] <= sent /\ \A b \in Coming' : shown[l] < b.number
    BY <1>7 DEF OrderInv, InboxOrder
  <2> QED
    BY <1>1, <1>6, <1>11, <2>1, <2>2 DEF InboxOrder
<1>13. QueueOrder'
  <2>1. ASSUME NEW e \in ToSet(newMessages) \cup ToSet(feedMessagesQueue)
        PROVE  /\ e.message.product = listeners'[e.listener].product
               /\ \A b \in ToSet(listeners'[e.listener].inbox) \cup Coming' :
                    e.message.number < b.number
    <3>1. e.listener \in 1 .. Len(listeners)
      BY NumberTypes
    <3>2. \A b \in ToSet(listeners[e.listener].inbox) \cup Coming :
            e.message.number < b.number
      BY DEF OrderInv, QueueOrder
    <3>3. e.message.number < m.number
      BY <1>3, <1>7, <3>2
    <3>4. e.message.product = listeners'[e.listener].product
      BY <1>5, <3>1 DEF OrderInv, QueueOrder
    <3> QED
      BY <1>7, <1>11, <3>1, <3>2, <3>3, <3>4
  <2> QED
    BY <1>1, <2>1 DEF OrderInv, QueueOrder
<1> QED
  BY <1>10, <1>12, <1>13 DEF OrderInv

\* A new listener has nothing to receive and has shown nothing.
LEMMA OrderStarts ==
    ASSUME FlowTypes, OrderInv, StartListener
    PROVE  OrderInv'
<1> DEFINE p == Head(endpointsToSubscribe)
           n == Len(listeners)
<1>1. /\ listeners' = Append(listeners, NewListener(p))
      /\ shown' = Append(shown, 0)
      /\ UNCHANGED <<newMessages, feedMessagesQueue, wire, sent, wsPc, wsMessage>>
  BY DEF StartListener, vars, websocket, transport, exchange
<1>2. /\ listeners \in Seq(Listener) /\ n \in Nat
      /\ shown \in Seq(0 .. MaxMessages) /\ Len(shown) = n
  BY DEF FlowTypes, ClientTypes
<1>3. /\ Len(listeners') = n + 1
      /\ \A l \in 1 .. n : listeners'[l] = listeners[l]
      /\ listeners'[n + 1] = NewListener(p)
  BY <1>1, <1>2
<1>4. /\ \A l \in 1 .. n : shown'[l] = shown[l]
      /\ shown'[n + 1] = 0
  BY <1>1, <1>2
<1>5. NewListener(p).inbox = <<>>
  BY DEF NewListener
<1>6. Hand' = Hand /\ Coming' = Coming
  BY <1>1 DEF Hand, Coming
<1> HIDE DEF p, n
<1>7. WireOrder'
  BY <1>1, <1>6 DEF OrderInv, WireOrder
<1>8. InboxOrder'
  <2>1. ASSUME NEW l \in 1 .. n + 1
        PROVE  /\ Increasing(listeners'[l].inbox)
               /\ \A m \in ToSet(listeners'[l].inbox) :
                    /\ m.product = listeners'[l].product
                    /\ shown'[l] < m.number
                    /\ m.number <= sent
                    /\ \A b \in Coming : m.number < b.number
               /\ shown'[l] <= sent
               /\ \A b \in Coming : shown'[l] < b.number
    <3>1. CASE l \in 1 .. n
      BY <1>3, <1>4, <3>1 DEF OrderInv, InboxOrder, n
    <3>2. CASE l = n + 1
      <4>1. Increasing(<<>>) /\ ToSet(<<>>) = {}
        BY ToSetEmpty DEF Increasing
      <4>2. 0 <= sent /\ \A b \in Coming : 0 < b.number
        BY NumberTypes
      <4> QED
        BY <1>3, <1>4, <1>5, <3>2, <4>1, <4>2
    <3> QED
      BY <1>2, <3>1, <3>2
  <2> QED
    BY <1>1, <1>3, <1>6, <2>1 DEF InboxOrder
<1>9. QueueOrder'
  <2>1. ASSUME NEW e \in ToSet(newMessages) \cup ToSet(feedMessagesQueue)
        PROVE  listeners'[e.listener] = listeners[e.listener]
               /\ shown'[e.listener] = shown[e.listener]
    <3>1. e.listener \in 1 .. n
      BY NumberTypes DEF n
    <3> QED
      BY <1>3, <1>4, <3>1
  <2> QED
    BY <1>1, <1>6, <2>1 DEF OrderInv, QueueOrder
<1> QED
  BY <1>7, <1>8, <1>9 DEF OrderInv

\* A listener queues the oldest message of its inbox.
LEMMA OrderListens ==
    ASSUME FlowTypes, OrderInv, NEW l \in 1 .. Len(listeners), ListenerReceives(l)
    PROVE  OrderInv'
<1> DEFINE h == Head(listeners[l].inbox)
           e == [listener |-> l, message |-> h]
           rest == listeners'[l].inbox
<1>1. /\ listeners[l].inbox # <<>>
      /\ feedMessagesQueue' = Append(feedMessagesQueue, e)
      /\ listeners' = [listeners EXCEPT ![l] = Received(listeners[l])]
      /\ UNCHANGED <<newMessages, wire, shown, sent, wsPc, wsMessage>>
  BY DEF ListenerReceives, vars, websocket, transport, exchange
<1>2. /\ listeners \in Seq(Listener)
      /\ listeners[l] \in Listener
      /\ feedMessagesQueue \in Seq(Queued(Len(listeners)))
  <2>1. listeners \in Seq(Listener) /\ feedMessagesQueue \in Seq(Queued(Len(listeners)))
    BY DEF FlowTypes, ClientTypes
  <2> QED
    BY <2>1
<1>3. /\ listeners[l].inbox \in Seq(ClientMessage)
      /\ ToSet(listeners[l].inbox) = {h} \cup ToSet(Tail(listeners[l].inbox))
      /\ h \in ClientMessage
  <2>1. listeners[l].inbox \in Seq(ClientMessage)
    BY <1>2, ListenerFields
  <2> QED
    BY <1>1, <2>1, ToSetTail
<1>4. /\ Increasing(Tail(listeners[l].inbox))
      /\ \A b \in ToSet(Tail(listeners[l].inbox)) : h.number < b.number
  BY <1>1, <1>3, IncreasingTail DEF OrderInv, InboxOrder
<1>5. /\ Len(listeners') = Len(listeners)
      /\ \A k \in 1 .. Len(listeners) : k # l => listeners'[k] = listeners[k]
      /\ listeners'[l] = Received(listeners[l])
  BY <1>1, <1>2
<1>6. /\ listeners'[l].product = listeners[l].product
      /\ rest = Tail(listeners[l].inbox) \/ rest = <<>>
  BY <1>2, <1>5 DEF Received, Exited, Listener
<1>7. e \in Queued(Len(listeners)) /\ e.listener = l /\ e.message = h
  BY <1>3 DEF Queued
<1> HIDE DEF h, e, rest
<1>8. /\ Increasing(rest)
      /\ ToSet(rest) \subseteq ToSet(listeners[l].inbox)
      /\ \A b \in ToSet(rest) : h.number < b.number
  <2>1. Increasing(<<>>) /\ ToSet(<<>>) = {}
    BY ToSetEmpty DEF Increasing
  <2> QED
    BY <1>3, <1>4, <1>6, <2>1
<1>9. \A k \in 1 .. Len(listeners) :
        /\ listeners'[k].product = listeners[k].product
        /\ Increasing(listeners'[k].inbox)
        /\ ToSet(listeners'[k].inbox) \subseteq ToSet(listeners[k].inbox)
  <2>1. ASSUME NEW k \in 1 .. Len(listeners), k # l
        PROVE  /\ listeners'[k].product = listeners[k].product
               /\ Increasing(listeners'[k].inbox)
               /\ ToSet(listeners'[k].inbox) \subseteq ToSet(listeners[k].inbox)
    <3>1. listeners'[k] = listeners[k]
      BY <1>5, <2>1
    <3> QED
      BY <3>1 DEF OrderInv, InboxOrder
  <2> QED
    BY <1>6, <1>8, <2>1 DEF rest
<1>10. Hand' = Hand /\ Coming' = Coming
  BY <1>1 DEF Hand, Coming
<1>11. WireOrder'
  BY <1>1, <1>10 DEF OrderInv, WireOrder
<1>12. InboxOrder'
  BY <1>1, <1>5, <1>9, <1>10 DEF OrderInv, InboxOrder
<1>13. /\ h \in ToSet(listeners[l].inbox)
       /\ h.product = listeners[l].product
       /\ shown[l] < h.number
       /\ h.number <= sent
       /\ \A b \in Coming : h.number < b.number
  BY <1>3 DEF OrderInv, InboxOrder
<1>14. \A x \in ToSet(newMessages) \cup ToSet(feedMessagesQueue) :
         x.listener = l => x.message.number < h.number
  BY <1>13 DEF OrderInv, QueueOrder
<1>15. ToSet(feedMessagesQueue') = ToSet(feedMessagesQueue) \cup {e}
  BY <1>1, <1>2, <1>7, ToSetAppend
<1>16. InTurn(feedMessagesQueue')
  <2>1. InTurn(feedMessagesQueue)
    BY DEF OrderInv, QueueOrder
  <2>2. \A x \in ToSet(feedMessagesQueue) : x.listener = e.listener =>
                                              x.message.number < e.message.number
    BY <1>7, <1>14
  <2> QED
    BY <1>1, <1>2, <1>7, <2>1, <2>2, InTurnAppend
<1>17. ASSUME NEW x \in ToSet(newMessages) \cup ToSet(feedMessagesQueue)
       PROVE  /\ x.message.product = listeners'[x.listener].product
              /\ \A b \in ToSet(listeners'[x.listener].inbox) \cup Coming :
                   x.message.number < b.number
  <2>1. x.listener \in 1 .. Len(listeners)
    BY NumberTypes
  <2> QED
    BY <1>9, <2>1 DEF OrderInv, QueueOrder
<1>18. /\ e.message.product = listeners'[e.listener].product
       /\ shown[e.listener] < e.message.number
       /\ e.message.number <= sent
       /\ \A b \in ToSet(listeners'[e.listener].inbox) \cup Coming :
            e.message.number < b.number
  BY <1>6, <1>7, <1>8, <1>13 DEF rest
<1>19. \A x \in ToSet(newMessages) : x.listener = e.listener =>
                                       x.message.number < e.message.number
  BY <1>7, <1>14
<1>20. QueueOrder'
  <2>1. \A x \in ToSet(newMessages), f \in ToSet(feedMessagesQueue') :
          x.listener = f.listener => x.message.number < f.message.number
    BY <1>15, <1>19 DEF OrderInv, QueueOrder
  <2>2. ASSUME NEW x \in ToSet(newMessages) \cup ToSet(feedMessagesQueue')
        PROVE  /\ x.message.product = listeners'[x.listener].product
               /\ shown[x.listener] < x.message.number
               /\ x.message.number <= sent
               /\ \A b \in ToSet(listeners'[x.listener].inbox) \cup Coming :
                    x.message.number < b.number
    <3>1. CASE x = e
      BY <1>18, <3>1
    <3>2. CASE x \in ToSet(newMessages) \cup ToSet(feedMessagesQueue)
      BY <1>17, <3>2 DEF OrderInv, QueueOrder
    <3> QED
      BY <1>15, <3>1, <3>2
  <2>3. InTurn(newMessages)
    BY DEF OrderInv, QueueOrder
  <2> QED
    BY <1>1, <1>10, <1>16, <2>1, <2>2, <2>3 DEF QueueOrder
<1> QED
  BY <1>11, <1>12, <1>20 DEF OrderInv

\* handleFeedMessages takes the queue when it has printed all it had.
LEMMA OrderTakes ==
    ASSUME OrderInv, TakeMessages
    PROVE  OrderInv'
<1>1. /\ newMessages' = feedMessagesQueue
      /\ feedMessagesQueue' = <<>>
      /\ UNCHANGED <<listeners, wire, shown, sent, wsPc, wsMessage>>
  BY DEF TakeMessages, Swapped, vars, websocket, transport, exchange, threads
<1>2. Hand' = Hand /\ Coming' = Coming
  BY <1>1 DEF Hand, Coming
<1>3. /\ ToSet(feedMessagesQueue') = {} /\ InTurn(feedMessagesQueue')
      /\ ToSet(newMessages') = ToSet(feedMessagesQueue) /\ InTurn(newMessages')
  <2>1. ToSet(<<>>) = {} /\ InTurn(<<>>)
    BY ToSetEmpty DEF InTurn
  <2> QED
    BY <1>1, <2>1 DEF OrderInv, QueueOrder
<1>4. WireOrder'
  BY <1>1, <1>2 DEF OrderInv, WireOrder
<1>5. InboxOrder'
  BY <1>1, <1>2 DEF OrderInv, InboxOrder
<1>6. QueueOrder'
  BY <1>1, <1>2, <1>3 DEF OrderInv, QueueOrder
<1> QED
  BY <1>4, <1>5, <1>6 DEF OrderInv

\* What is printed is older than all that its listener still brings.
LEMMA OrderPrints ==
    ASSUME FlowTypes, OrderInv, PrintMessage
    PROVE  OrderInv'
<1> DEFINE h == Head(newMessages)
           n == Len(listeners)
<1>1. /\ newMessages # <<>> /\ newMessages' = Tail(newMessages)
      /\ shown' = [shown EXCEPT ![h.listener] = h.message.number]
      /\ UNCHANGED <<feedMessagesQueue, listeners, wire, sent, wsPc, wsMessage>>
  BY DEF PrintMessage, vars, websocket, transport, exchange, threads
<1>2. /\ newMessages \in Seq(Queued(n))
      /\ shown \in Seq(0 .. MaxMessages) /\ Len(shown) = n /\ n \in Nat
  BY DEF FlowTypes, ClientTypes
<1>3. /\ ToSet(newMessages) = {h} \cup ToSet(newMessages')
      /\ h \in Queued(n)
  BY <1>1, <1>2, ToSetTail
<1>4. /\ InTurn(newMessages')
      /\ \A x \in ToSet(newMessages') : h.listener = x.listener =>
                                          h.message.number < x.message.number
  BY <1>1, <1>2, InTurnTail DEF OrderInv, QueueOrder
<1>5. h.listener \in 1 .. n
  BY <1>3, QueuedFields
<1> HIDE DEF h, n
<1>6. /\ shown'[h.listener] = h.message.number
      /\ \A k \in 1 .. n : k # h.listener => shown'[k] = shown[k]
  <2>1. DOMAIN shown = 1 .. n
    BY <1>2
  <2> QED
    BY <1>1, <1>5, <2>1
<1>7. /\ h.message.number <= sent
      /\ \A b \in ToSet(listeners[h.listener].inbox) \cup Coming :
           h.message.number < b.number
      /\ \A f \in ToSet(feedMessagesQueue) : h.listener = f.listener =>
                                               h.message.number < f.message.number
  BY <1>3 DEF OrderInv, QueueOrder
<1>8. Hand' = Hand /\ Coming' = Coming
  BY <1>1 DEF Hand, Coming
<1>9. WireOrder'
  BY <1>1, <1>8 DEF OrderInv, WireOrder
<1>10. InboxOrder'
  <2>1. ASSUME NEW k \in 1 .. n
        PROVE  /\ \A m \in ToSet(listeners[k].inbox) : shown'[k] < m.number
               /\ shown'[k] <= sent
               /\ \A b \in Coming : shown'[k] < b.number
    <3>1. CASE k = h.listener
      BY <1>6, <1>7, <3>1
    <3>2. CASE k # h.listener
      <4>1. shown'[k] = shown[k]
        BY <1>6, <3>2
      <4> QED
        BY <4>1 DEF OrderInv, InboxOrder, n
    <3> QED
      BY <3>1, <3>2
  <2> QED
    BY <1>1, <1>8, <2>1 DEF OrderInv, InboxOrder, n
<1>11. QueueOrder'
  <2>1. ASSUME NEW x \in ToSet(newMessages') \cup ToSet(feedMessagesQueue)
        PROVE  shown'[x.listener] < x.message.number
    <3>1. x \in ToSet(newMessages) \cup ToSet(feedMessagesQueue)
      BY <1>3
    <3>2. x.listener \in 1 .. n
      BY <3>1, NumberTypes DEF n
    <3>3. CASE x.listener = h.listener
      BY <1>4, <1>6, <1>7, <3>3
    <3>4. CASE x.listener # h.listener
      <4>1. shown'[x.listener] = shown[x.listener]
        BY <1>6, <3>2, <3>4
      <4> QED
        BY <3>1, <4>1 DEF OrderInv, QueueOrder
    <3> QED
      BY <3>3, <3>4
  <2>2. \A x \in ToSet(newMessages') : x \in ToSet(newMessages)
    BY <1>3
  <2> QED
    BY <1>1, <1>4, <1>8, <2>1, <2>2 DEF OrderInv, QueueOrder
<1> QED
  BY <1>9, <1>10, <1>11 DEF OrderInv

\* A step of the other threads leaves every inbox as it is or empties it.
LEMMA InboxesKept ==
    ASSUME FlowTypes,
           \/ PublisherCloses
           \/ ClearFlag
           \/ \E l \in DOMAIN listeners : ListenerConnects(l) \/ ListenerExits(l)
    PROVE  /\ Len(listeners') = Len(listeners)
           /\ \A l \in 1 .. Len(listeners) :
                /\ listeners'[l].product = listeners[l].product
                /\ \/ listeners'[l].inbox = listeners[l].inbox
                   \/ listeners'[l].inbox = <<>>
<1>1. /\ listeners \in Seq(Listener)
      /\ Len(listeners) \in Nat
      /\ DOMAIN listeners = 1 .. Len(listeners)
      /\ \A l \in 1 .. Len(listeners) : listeners[l] \in Listener
  <2>1. listeners \in Seq(Listener)
    BY DEF FlowTypes, ClientTypes
  <2> QED
    BY <2>1
<1>2. \A t \in Listener :
        /\ [t EXCEPT !.connected = FALSE].product = t.product
        /\ [t EXCEPT !.connected = FALSE].inbox = t.inbox
        /\ [t EXCEPT !.connected = TRUE].product = t.product
        /\ [t EXCEPT !.connected = TRUE].inbox = t.inbox
        /\ [t EXCEPT !.at = FALSE].product = t.product
        /\ [t EXCEPT !.at = FALSE].inbox = t.inbox
        /\ Exited(t).product = t.product
        /\ Exited(t).inbox = <<>>
  BY DEF Listener, Exited
<1>3. CASE PublisherCloses
  <2>1. DOMAIN listeners' = DOMAIN listeners
    BY <1>3 DEF PublisherCloses
  <2>2. \E f : listeners' = [l \in 1 .. Len(listeners) |-> f[l]]
    <3>1. listeners' = [l \in 1 .. Len(listeners) |-> listeners'[l]]
      BY <1>1, <1>3 DEF PublisherCloses
    <3> QED
      BY <3>1
  <2>3. Len(listeners') = Len(listeners)
    BY <1>1, <2>2
  <2>4. \A l \in 1 .. Len(listeners) :
          \/ listeners'[l] = listeners[l]
          \/ listeners'[l] = [listeners[l] EXCEPT !.connected = FALSE]
    BY <1>1, <1>3 DEF PublisherCloses
  <2> QED
    BY <1>1, <1>2, <2>3, <2>4
<1>4. ASSUME NEW k \in 1 .. Len(listeners), NEW t,
             listeners' = [listeners EXCEPT ![k] = t],
             t.product = listeners[k].product,
             t.inbox = listeners[k].inbox \/ t.inbox = <<>>
      PROVE  /\ Len(listeners') = Len(listeners)
             /\ \A l \in 1 .. Len(listeners) :
                  /\ listeners'[l].product = listeners[l].product
                  /\ \/ listeners'[l].inbox = listeners[l].inbox
                     \/ listeners'[l].inbox = <<>>
  BY <1>1, <1>4
<1>5. CASE ClearFlag
  <2> DEFINE k == endpointToHandler[Head(endpointsToUnsubscribe)]
  <2>1. Head(endpointsToUnsubscribe) \in Products
    BY <1>5 DEF ClearFlag, FlowTypes, ClientTypes
  <2>2. /\ k \in 1 .. Len(listeners)
        /\ listeners' = [listeners EXCEPT ![k] = [listeners[k] EXCEPT !.at = FALSE]]
    BY <1>5, <2>1 DEF ClearFlag, FlowTypes, ClientTypes
  <2> HIDE DEF k
  <2> QED
    BY <1>1, <1>2, <1>4, <2>2
<1>6. ASSUME NEW k \in DOMAIN listeners, ListenerConnects(k) \/ ListenerExits(k)
      PROVE  /\ Len(listeners') = Len(listeners)
             /\ \A l \in 1 .. Len(listeners) :
                  /\ listeners'[l].product = listeners[l].product
                  /\ \/ listeners'[l].inbox = listeners[l].inbox
                     \/ listeners'[l].inbox = <<>>
  <2>1. \/ listeners' = [listeners EXCEPT ![k] = [listeners[k] EXCEPT !.connected = TRUE]]
        \/ listeners' = [listeners EXCEPT ![k] = Exited(listeners[k])]
    BY <1>6 DEF ListenerConnects, ListenerExits
  <2>2. PICK t : /\ listeners' = [listeners EXCEPT ![k] = t]
                 /\ \/ t = [listeners[k] EXCEPT !.connected = TRUE]
                    \/ t = Exited(listeners[k])
    BY <2>1
  <2>3. k \in 1 .. Len(listeners) /\ listeners[k] \in Listener
    BY <1>1
  <2>4. t.product = listeners[k].product
        /\ (t.inbox = listeners[k].inbox \/ t.inbox = <<>>)
    BY <1>2, <2>2, <2>3
  <2> QED
    BY <1>4, <2>2, <2>3, <2>4
<1> QED
  BY <1>3, <1>5, <1>6

\* Nothing gets out of order, whichever thread moves.
LEMMA OrderStep ==
    ASSUME FlowTypes, OrderInv, [FlowNext]_<<vars, flow>>
    PROVE  OrderInv'
<1> USE DEF flow, transport, exchange, client, threads, printer
<1>1. ASSUME UNCHANGED <<newMessages, feedMessagesQueue, shown, sent, wsPc, wsMessage>>,
             UNCHANGED listeners, wire' = wire \/ wire' = <<>>
      PROVE  OrderInv'
  BY <1>1, OrderKept
<1>2. CASE ServiceFlow
  <2>1. UNCHANGED <<newMessages, feedMessagesQueue, shown, sent, wire, wsMessage>>
        /\ (UNCHANGED listeners \/ PublisherCloses)
    BY <1>2 DEF ServiceFlow, SubscribeOnFeed, SubscribeConfirmed, UnsubscribeOnFeed,
                PublisherCloses, ServiceElsewhere
  <2>2. UNCHANGED wsPc
    BY <1>2 DEF ServiceFlow, SubscribeOnFeed, SubscribeConfirmed, UnsubscribeOnFeed,
                PublisherCloses, ServiceElsewhere, SubscribeFeed, Unsubscribe,
                UnsubscribeJoin, Request, SubscribeProduct, SubscribeTrades,
                UnsubscribeCrashes, UnsubscribeFeed, websocket
  <2>3. CASE PublisherCloses
    BY <2>1, <2>2, <2>3, InboxesKept, OrderKept
  <2> QED
    BY <1>1, <2>1, <2>2, <2>3
<1>3. CASE ConnectionOpens \/ ConnectionCloses \/ ExchangeSubscribes
  BY <1>1, <1>3 DEF ConnectionOpens, ConnectionCloses, ExchangeSubscribes, vars, websocket
<1>4. CASE ReceiveUnreadable
  BY <1>1, <1>4 DEF ReceiveUnreadable, websocket
<1>5. ASSUME \/ ClearFlag
             \/ \E l \in DOMAIN listeners : ListenerConnects(l) \/ ListenerExits(l)
      PROVE  OrderInv'
  <2>1. UNCHANGED <<newMessages, feedMessagesQueue, shown, sent, wsPc, wsMessage, wire>>
    BY <1>5 DEF ClearFlag, ListenerConnects, ListenerExits, vars, websocket
  <2> QED
    BY <1>5, <2>1, InboxesKept, OrderKept
<1>6. ASSUME NEW l \in DOMAIN listeners, ListenerReceives(l)
      PROVE  OrderInv'
  <2>1. l \in 1 .. Len(listeners)
    BY DEF FlowTypes, ClientTypes
  <2> QED
    BY <1>6, <2>1, OrderListens
<1>7. CASE UNCHANGED <<vars, flow>>
  BY <1>1, <1>7 DEF vars, websocket
<1> QED
  BY <1>2, <1>3, <1>4, <1>5, <1>6, <1>7, OrderSends, OrderReceives, OrderPublishes,
     OrderStarts, OrderTakes, OrderPrints DEF FlowNext, ReceiveMessage

-----------------------------------------------------------------------------
(***************************************************************************)
(* The theorems.                                                           *)
(***************************************************************************)

\* The invariant holds before anything is connected.
LEMMA FlowInvInit ==
    ASSUME FlowInit
    PROVE  FlowInv
<1>1. MarketInv
  BY MarketInit DEF FlowInit
<1>2. FeedInv
  BY DEF FlowInit, Init, FeedInv, Expected
<1>3. OrderInv
  <2>1. /\ Increasing(<<>>)
        /\ InTurn(<<>>)
        /\ ToSet(<<>>) = {}
        /\ Len(<<>>) = 0
    BY ToSetEmpty DEF Increasing, InTurn
  <2>2. Hand = {} /\ Coming = {}
    BY <2>1 DEF FlowInit, Init, Hand, Coming
  <2>3. WireOrder
    BY <2>1, <2>2 DEF FlowInit, WireOrder
  <2>4. InboxOrder
    BY <2>1 DEF FlowInit, InboxOrder
  <2>5. QueueOrder
    BY <2>1 DEF FlowInit, QueueOrder
  <2> QED
    BY <2>3, <2>4, <2>5 DEF OrderInv
<1> QED
  BY <1>1, <1>2, <1>3, FlowTypesInit DEF FlowInv

\* Every step of every thread, of the exchange and of the connection preserves it.
LEMMA FlowInvStep ==
    ASSUME FlowInv, [FlowNext]_<<vars, flow>>
    PROVE  FlowInv'
<1>1. MarketInv'
  BY FlowMarketStep DEF FlowInv
<1>2. FlowTypes'
  BY FlowTypesStep DEF FlowInv, MarketInv
<1>3. FeedInv'
  BY <1>2, FeedStep DEF FlowInv
<1>4. OrderInv'
  BY OrderStep DEF FlowInv
<1> QED
  BY <1>1, <1>2, <1>3, <1>4 DEF FlowInv

\* The invariant holds throughout.
LEMMA FlowInvariant == FlowSpec => []FlowInv
<1>1. FlowInit => FlowInv
  BY FlowInvInit
<1>2. FlowInv /\ [FlowNext]_<<vars, flow>> => FlowInv'
  BY FlowInvStep
<1> QED
  BY <1>1, <1>2, PTL DEF FlowSpec

\* The state of the feed client's connection, of the exchange and of the client
\* always has its types: the message in the websocket thread's hands is a trade of
\* the product it is being published for, no request under way is malformed, and a
\* message that a client has queued is of the product its listener was started for.
THEOREM FlowTypesCorrect == FlowSpec => []FlowTypeOK
<1>1. FlowInv => FlowTypeOK
  <2> SUFFICES ASSUME FlowInv
               PROVE  FlowTypeOK
    OBVIOUS
  <2>1. \A i \in DOMAIN toExchange : toExchange[i] \in Command
    BY DEF FlowInv, FlowTypes, ServerTypes
  <2>2. /\ listeners \in Seq(Listener)
        /\ DOMAIN listeners = 1 .. Len(listeners)
        /\ shown \in Seq(0 .. MaxMessages)
        /\ DOMAIN shown = DOMAIN listeners
    BY DEF FlowInv, FlowTypes, ClientTypes
  <2>3. shown \in [DOMAIN listeners -> 0 .. MaxMessages]
    <3>1. shown \in [1 .. Len(shown) -> 0 .. MaxMessages]
      BY <2>2, LenProperties
    <3> QED
      BY <2>2, <3>1
  <2>4. \A l \in DOMAIN listeners : listeners[l] \in Listener
    BY <2>2
  <2>5. \A l \in DOMAIN listeners :
          /\ listeners[l].product \in Products
          /\ listeners[l].heard \in 0 .. MaxMessages
          /\ listeners[l].exited => ~listeners[l].connected /\ listeners[l].inbox = <<>>
    BY <2>2, <2>4, ListenerFields DEF FlowInv, FlowTypes, ClientTypes
  <2>6. \A e \in ToSet(feedMessagesQueue) \cup ToSet(newMessages) :
          /\ e.listener \in DOMAIN listeners
          /\ e.message.product = listeners[e.listener].product
    BY <2>2, NumberTypes DEF FlowInv, OrderInv, QueueOrder
  <2>7. /\ endpointToHandler \in [Products -> 0 .. Len(listeners)]
        /\ \A p \in Products : endpointToHandler[p] # 0 =>
             listeners[endpointToHandler[p]].product = p
    BY DEF FlowInv, FlowTypes, ClientTypes
  <2>8. /\ m_connected \in BOOLEAN
        /\ connection \in {"none", "connecting", "open", "closed"}
        /\ unsent \subseteq Products
        /\ wsPc = "onTrade" => wsMessage.product = wsProduct /\ IsTradeMsg(wsMessage)
        /\ channels \subseteq Products
        /\ sent \in 0 .. MaxMessages
    BY DEF FlowInv, FlowTypes, ServerTypes
  <2> QED
    BY <2>1, <2>3, <2>5, <2>6, <2>7, <2>8 DEF FlowTypeOK, Command
<1> QED
  BY <1>1, FlowInvariant, PTL

\* Whatever is subscribed to and unsubscribed from, and whenever the connection
\* opens or is lost, the exchange ends up with the channels of the feed client's
\* registry, but for the subscribe messages sent before the connection was open.
THEOREM FeedStaysWithRegistry == FlowSpec => []FeedFollowsRegistry
<1>1. FlowInv => FeedFollowsRegistry
  <2> SUFFICES ASSUME FlowInv, connection = "open", toExchange = <<>>,
                      servicePc \notin {"unsubscribeFeed", "unsubscribeJoin"}
               PROVE  channels = m_prodIdToListener \ unsent
    BY DEF FeedFollowsRegistry
  <2>1. Expected = m_prodIdToListener \ unsent
    BY DEF Expected
  <2>2. \A p \in Products : p \in channels <=> p \in Expected
    BY LeadsEmpty DEF FlowInv, FeedInv
  <2>3. channels \subseteq Products /\ m_prodIdToListener \subseteq Products
    BY DEF FlowInv, FlowTypes, ServerTypes, MarketInv, TypeOK
  <2> QED
    BY <2>1, <2>2, <2>3
<1> QED
  BY <1>1, FlowInvariant, PTL

\* No bind of a publisher's socket fails for a port that another publisher of the
\* server has, whatever products are subscribed to at once.
THEOREM BindsNeverFail == FlowSpec => []BindsSucceed
<1>1. FlowInv => BindsSucceed
  <2> SUFFICES ASSUME FlowInv
               PROVE  BindsSucceed
    OBVIOUS
  <2>1. DOMAIN m_products \in SUBSET ListedIds /\ m_trade_publishers \in SUBSET ListedIds
    BY TradeFlowAssumption DEF FlowInv, MarketInv, TypeOK
  <2> QED
    BY <2>1, PortsStayApart DEF BindsSucceed
<1> QED
  BY <1>1, FlowInvariant, PTL

\* Of the values a publisher sends, only the founds of a received order with a
\* price is read from an empty optional.
LEMMA ClientMessageValues ==
    ASSUME NEW m \in ClientMessage, NEW f \in DOMAIN m.values,
           m.values[f] = "indeterminate"
    PROVE  f = "founds" /\ "price" \in DOMAIN m.values
<1>1. PICK g \in FeedMessage : IsTradeMsg(g) /\ m = GenerateMessage(g)
  BY DEF ClientMessage
<1>2. ASSUME NEW sets, m.values = Values(g, sets)
      PROVE  f \in sets /\ DOMAIN m.values = sets /\ f \notin g.fields \cup Needed(g.type)
  BY <1>2 DEF Values
<1>3. CASE g.type = "activate"
  <2>1. m.values = Values(g, Fields)
    BY <1>1, <1>3 DEF GenerateMessage
  <2>2. Needed(g.type) = Fields
    BY <1>3 DEF Needed
  <2> QED
    BY <1>2, <2>1, <2>2
<1>4. CASE g.type = "received"
  <2>1. m.values = Values(g, ReceiveSets(g.fields))
    BY <1>1, <1>4 DEF GenerateMessage
  <2>2. /\ f \in ReceiveSets(g.fields)
        /\ f \notin g.fields
        /\ DOMAIN m.values = ReceiveSets(g.fields)
    BY <1>2, <2>1
  <2>3. "price" \in g.fields /\ f = "founds"
    BY <2>2 DEF ReceiveSets
  <2> QED
    BY <2>2, <2>3 DEF ReceiveSets
<1>5. CASE g.type = "match"
  <2>1. m.values = Values(g, {"size"})
    BY <1>1, <1>5 DEF GenerateMessage
  <2>2. Needed(g.type) = {"size", "price"}
    BY <1>5 DEF Needed
  <2> QED
    BY <1>2, <2>1, <2>2
<1> QED
  BY <1>1, <1>3, <1>4, <1>5 DEF IsTradeMsg

\* For any kinds of feed messages, the only value that is sent to clients from an
\* empty optional is the founds of a received order that has a price.
THEOREM OnlyFoundsUndefined == FlowSpec => []ValuesGiven
<1>1. FlowInv => ValuesGiven
  <2> SUFFICES ASSUME FlowInv,
                      NEW m \in {e.message : e \in ToSet(feedMessagesQueue)}
                           \cup UNION {ToSet(listeners[l].inbox) : l \in DOMAIN listeners},
                      NEW f \in DOMAIN m.values, m.values[f] = "indeterminate"
               PROVE  f = "founds" /\ "price" \in DOMAIN m.values
    BY DEF ValuesGiven
  <2>1. m \in ClientMessage
    <3>1. ASSUME NEW e \in ToSet(feedMessagesQueue), m = e.message
          PROVE  m \in ClientMessage
      <4>1. e \in Queued(Len(listeners))
        BY ToSetElements DEF FlowInv, FlowTypes, ClientTypes
      <4> QED
        BY <3>1, <4>1, QueuedFields
    <3>2. ASSUME NEW l \in DOMAIN listeners, m \in ToSet(listeners[l].inbox)
          PROVE  m \in ClientMessage
      <4>1. l \in 1 .. Len(listeners)
        BY DEF FlowInv, FlowTypes, ClientTypes
      <4>2. listeners[l].inbox \in Seq(ClientMessage)
        BY <4>1, NumberTypes DEF FlowInv
      <4> QED
        BY <3>2, <4>2, ToSetElements
    <3> QED
      BY <3>1, <3>2
  <2> QED
    BY <2>1, ClientMessageValues
<1> QED
  BY <1>1, FlowInvariant, PTL

\* TradeFlow implements TradeChannel: however the threads interleave, over
\* publishers that come and go and over a lost connection, what a client shows for
\* one of its listeners is newer than what it showed for it before.
THEOREM TradesStayInOrder == FlowSpec => ChannelSpec
<1>1. FlowInit => Channel!Init
  BY DEF FlowInit, Channel!Init
<1>2. FlowInv /\ [FlowNext]_<<vars, flow>> => [Channel!Next]_Channel!channelVars
  <2> SUFFICES ASSUME FlowInv, [FlowNext]_<<vars, flow>>
               PROVE  [Channel!Next]_Channel!channelVars
    OBVIOUS
  <2>1. ASSUME NEW k \in Kinds, NEW p \in Products, ExchangeSends(k, p)
        PROVE  Channel!Next
    BY <2>1 DEF ExchangeSends, client, printer, Channel!Next, Channel!Send
  <2>2. CASE PrintMessage
    <3> DEFINE h == Head(newMessages)
    <3>1. newMessages # <<>> /\ newMessages \in Seq(Queued(Len(listeners)))
      BY <2>2 DEF PrintMessage, FlowInv, FlowTypes, ClientTypes
    <3>2. h \in ToSet(newMessages)
      BY <3>1, ToSetTail
    <3>3. h.listener \in 1 .. Len(listeners) /\ h.message.number \in Nat
      BY <3>2, NumberTypes DEF FlowInv
    <3>4. shown[h.listener] < h.message.number /\ h.message.number <= sent
      BY <3>2 DEF FlowInv, OrderInv, QueueOrder
    <3>5. shown[h.listener] \in Nat /\ sent \in Nat
      BY <3>3, NumberTypes DEF FlowInv
    <3>6. h.message.number \in shown[h.listener] + 1 .. sent
      BY <3>3, <3>4, <3>5
    <3>7. shown' = [shown EXCEPT ![h.listener] = h.message.number] /\ UNCHANGED sent
      BY <2>2 DEF PrintMessage, exchange
    <3>8. Channel!Show(h.listener)
      BY <3>6, <3>7 DEF Channel!Show
    <3>9. h.listener \in DOMAIN shown
      BY <3>3 DEF FlowInv, FlowTypes, ClientTypes
    <3> QED
      BY <3>8, <3>9 DEF Channel!Next
  <2>3. CASE ServiceFlow
    BY <2>3 DEF ServiceFlow, SubscribeOnFeed, SubscribeConfirmed, UnsubscribeOnFeed,
                PublisherCloses, ServiceElsewhere, flow, exchange, client, printer,
                Channel!channelVars
  <2>4. CASE \/ ConnectionOpens \/ ConnectionCloses \/ ExchangeSubscribes
             \/ ReceiveMessage \/ PublishTrade \/ ClearFlag \/ TakeMessages
    BY <2>4 DEF ConnectionOpens, ConnectionCloses, ExchangeSubscribes, ReceiveMessage,
                ReceiveTrade, ReceiveUnreadable, ReceiveOther, PublishTrade, ClearFlag,
                TakeMessages, flow, exchange, client, printer, Channel!channelVars
  <2>5. ASSUME NEW l \in DOMAIN listeners,
               ListenerConnects(l) \/ ListenerReceives(l) \/ ListenerExits(l)
        PROVE  UNCHANGED Channel!channelVars
    BY <2>5 DEF ListenerConnects, ListenerReceives, ListenerExits, exchange, printer,
                Channel!channelVars
  <2>6. CASE UNCHANGED <<vars, flow>>
    BY <2>6 DEF flow, exchange, client, printer, Channel!channelVars
  <2>7. CASE StartListener
    BY <2>7 DEF StartListener, exchange, Channel!Next, Channel!Listen
  <2> QED
    BY <2>1, <2>2, <2>3, <2>4, <2>5, <2>6, <2>7 DEF FlowNext
<1> QED
  BY <1>1, <1>2, FlowInvariant, PTL DEF FlowSpec, ChannelSpec, Channel!Spec
=============================================================================
