------------------------- MODULE FeedProductProofs -------------------------
(***************************************************************************)
(* Proofs about FeedProduct, for every StartSeq, MaxSeq and every setting  *)
(* of the switches:                                                        *)
(*   TypeCorrect    the type invariant;                                    *)
(*   JoinIsSafe     requestFullOrderBook never waits, with the mutex held, *)
(*                  for a thread that still needs the mutex;               *)
(*   StreamRefined  what is handled is a stream as FeedStream promises.    *)
(***************************************************************************)
EXTENDS FeedProduct, SequenceTheorems, TLAPS

-----------------------------------------------------------------------------
(***************************************************************************)
(* The inductive invariant.                                                *)
(***************************************************************************)

\* Who holds the mutex, what the request thread is doing and what
\* m_requestingOrderbook says agree.
Control ==
    /\ m_messagesMutex = "websocket" <=> wsPc = "join"
    /\ m_messagesMutex = "request" <=> reqPc = "merge"
    /\ wsPc = "join" => m_requestingOrderbook /\ reqPc \in {"return", "exited"}
    /\ ~m_requestingOrderbook => reqPc \in {"return", "exited"}
    /\ response = "ok" => reqPc \in {"response", "merge"}
    /\ reqPc = "merge" => response = "ok"
    /\ loopPc = "handle" <=> messages # <<>>

\* Message m may be handled when the listener's book is at p.
Follows(p, m) ==
    IF m.type = "book" THEN End(m) >= p /\ End(m) > 0
                       ELSE p > 0 /\ End(m) = p + 1

\* Where the messages of s, handled one after the other, take a book at p.
EndOf(p, s) == IF s = <<>> THEN p ELSE End(s[Len(s)])

Chain(p, s) ==
    \A i \in 1 .. Len(s) : Follows(IF i = 1 THEN p ELSE End(s[i - 1]), s[i])

\* A message as it may stand in a queue when the exchange is at e: a feed
\* message has nothing merged into it, and nothing is ahead of the exchange.
Sane(m, e) ==
    /\ m.type # "book" => m.to_merge = <<>>
    /\ m.sequence <= e
    /\ End(m) <= e

AllSane(s, e) == \A i \in 1 .. Len(s) : Sane(s[i], e)

AllFeed(s) == \A i \in 1 .. Len(s) : s[i].type # "book"

Bounds ==
    /\ exch > 0
    /\ handled <= exch
    /\ AllSane(wire, exch)
    /\ AllFeed(wire)
    /\ AllSane(m_messageQueue, exch)
    /\ AllSane(messages, exch)

\* The batch continues what was handled, and, when no order book is being
\* requested, the queue continues the batch up to m_lastSequenceNumber.
Chained ==
    /\ handled > 0 => handledKind # "none"
    /\ Chain(handled, messages)
    /\ ~m_requestingOrderbook =>
         /\ Chain(EndOf(handled, messages), m_messageQueue)
         /\ m_lastSequenceNumber =
              EndOf(EndOf(handled, messages), m_messageQueue)
         /\ m_lastSequenceNumber > 0

\* The order book in the hands of the request thread is no older than anything
\* handled or about to be, and what is merged into it only takes it further.
BookAhead ==
    response = "ok" =>
        /\ orderBookMsg.type = "book"
        /\ orderBookMsg.sequence > 0
        /\ orderBookMsg.sequence >= EndOf(handled, messages)
        /\ End(orderBookMsg) >= orderBookMsg.sequence
        /\ End(orderBookMsg) <= exch
        /\ reqPc = "response" => orderBookMsg.to_merge = <<>>
        /\ reqPc = "merge" => m_lastSequenceNumber = End(orderBookMsg)

IInv == TypeOK /\ Control /\ Bounds /\ Chained /\ BookAhead
-----------------------------------------------------------------------------
(***************************************************************************)
(* Types.                                                                  *)
(***************************************************************************)

\* A message of the feed, and a full order book as the REST service returns it,
\* are messages that end at their own sequence number.
LEMMA FeedMessageType ==
    ASSUME NEW t \in {"full", "echo", "book"}, NEW n \in Nat
    PROVE  /\ FeedMessage(t, n) \in Message
           /\ End(FeedMessage(t, n)) = n
BY DEF FeedMessage, Message, End

\* The sequence number a message brings the listener to is a natural number.
LEMMA EndType ==
    ASSUME NEW m \in Message
    PROVE  End(m) \in Nat
<1>1. CASE m.to_merge = <<>>
  BY <1>1 DEF End, Message
<1>2. CASE m.to_merge # <<>>
  <2>1. m.to_merge \in Seq(Item)
    BY DEF Message
  <2>2. Len(m.to_merge) \in 1 .. Len(m.to_merge)
    BY <2>1, <1>2
  <2>3. m.to_merge[Len(m.to_merge)] \in Item
    BY <2>1, <2>2
  <2> QED BY <2>3, <1>2 DEF End, Item
<1> QED BY <1>1, <1>2

\* Merging a message into an order book gives an order book of the same sequence
\* number that ends at the message (requestFullOrderBookImpl).
LEMMA BookGrows ==
    ASSUME NEW b \in Message, NEW x \in Item,
           NEW c, c = [b EXCEPT !.to_merge = Append(@, x)]
    PROVE  /\ c \in Message
           /\ c.type = b.type
           /\ c.sequence = b.sequence
           /\ End(c) = x.sequence
<1>1. b.to_merge \in Seq(Item)
  BY DEF Message
<1>2. /\ Append(b.to_merge, x) \in Seq(Item)
      /\ Append(b.to_merge, x) # <<>>
      /\ Append(b.to_merge, x)[Len(Append(b.to_merge, x))] = x
  BY <1>1
<1>3. c.to_merge = Append(b.to_merge, x) /\ c \in Message
  BY <1>2 DEF Message
<1> QED BY <1>2, <1>3 DEF End, Message

\* What getProductChange makes the listener reflect are sequence numbers.
LEMMA ProductChangeType ==
    ASSUME NEW m \in Message, NEW r \in SUBSET Nat
    PROVE  GetProductChange(m, r) \in SUBSET Nat
<1>1. m.sequence \in Nat /\ m.to_merge \in Seq(Item)
  BY DEF Message
<1>2. \A i \in 1 .. Len(m.to_merge) : m.to_merge[i].sequence \in Nat
  <2> TAKE i \in 1 .. Len(m.to_merge)
  <2>1. m.to_merge[i] \in Item
    BY <1>1
  <2> QED BY <2>1 DEF Item
<1>3. m.type \in {"full", "echo", "book"}
  BY DEF Message
<1>4. CASE m.type = "book"
  BY <1>1, <1>2, <1>4 DEF GetProductChange
<1>5. CASE m.type = "full"
  BY <1>1, <1>5 DEF GetProductChange
<1>6. CASE m.type = "echo"
  BY <1>6 DEF GetProductChange
<1> QED BY <1>3, <1>4, <1>5, <1>6

\* The messages ExchangeEmits may put on the wire.
LEMMA WireType ==
    ASSUME TypeOK, ExchangeEmits
    PROVE  wire' \in Seq(Message)
<1>1. PICK sent \in BOOLEAN, echo \in BOOLEAN :
        wire' = wire
          \o (IF sent THEN <<FeedMessage("full", exch + 1)>> ELSE <<>>)
          \o (IF echo THEN <<FeedMessage("echo", exch + 1)>> ELSE <<>>)
  BY DEF ExchangeEmits
<1>2. /\ FeedMessage("full", exch + 1) \in Message
      /\ FeedMessage("echo", exch + 1) \in Message
  BY FeedMessageType DEF TypeOK
<1>3. /\ (IF sent THEN <<FeedMessage("full", exch + 1)>> ELSE <<>>) \in Seq(Message)
      /\ (IF echo THEN <<FeedMessage("echo", exch + 1)>> ELSE <<>>) \in Seq(Message)
  BY <1>2
<1>4. wire \in Seq(Message)
  BY DEF TypeOK
<1> QED BY <1>1, <1>3, <1>4, ConcatProperties

\* The placeholder for the local orderBookMsg is a message.
LEMMA NoBookType == NoBook \in Message
BY FeedMessageType DEF NoBook, FullOrderBook

\* The constructor establishes the type invariant.
LEMMA TypeInit ==
    ASSUME Init
    PROVE  TypeOK
<1>1. exch \in Nat /\ missed \in SUBSET Nat /\ reflected \in SUBSET Nat
  BY FeedProductAssumption DEF Init
<1>2. /\ feedOn \in BOOLEAN
      /\ m_requestingOrderbook \in BOOLEAN
      /\ m_isRunning \in BOOLEAN
      /\ alive \in BOOLEAN
  BY DEF Init
<1>3. /\ wire \in Seq(Message)
      /\ m_messageQueue \in Seq(Message)
      /\ messages \in Seq(Message)
  BY DEF Init
<1> QED BY NoBookType, <1>1, <1>2, <1>3 DEF Init, TypeOK

\* TypeOK is preserved, given that a batch being handled is not empty.
LEMMA TypeStep ==
    ASSUME TypeOK, Control, [Next]_vars
    PROVE  TypeOK'
<1> USE DEF TypeOK, env, obj, request, loop, output, vars
<1>1. CASE SubscriptionTakesEffect
  BY <1>1 DEF SubscriptionTakesEffect
<1>2. CASE ExchangeEmits
  <2>1. wire' \in Seq(Message)
    BY <1>2, WireType
  <2>2. missed' \in SUBSET Nat
    BY <1>2 DEF ExchangeEmits
  <2> QED BY <2>1, <2>2, <1>2 DEF ExchangeEmits
<1>3. CASE ReceiveWhileRequesting
  BY <1>3 DEF ReceiveWhileRequesting, MayReceive
<1>4. CASE ReceiveGap
  BY <1>4 DEF ReceiveGap, MayReceive, NoSequence
<1>5. CASE ReceiveTooOld
  BY <1>5 DEF ReceiveTooOld, MayReceive
<1>6. CASE ReceiveInOrder
  <2>1. Head(wire) \in Message
    BY <1>6 DEF ReceiveInOrder, MayReceive
  <2>2. Head(wire).sequence \in Nat
    BY <2>1 DEF Message
  <2> QED BY <2>1, <2>2, <1>6 DEF ReceiveInOrder, MayReceive
<1>7. CASE JoinAndRequest
  BY <1>7 DEF JoinAndRequest
<1>8. CASE RestRequest
  <2>1. FullOrderBook(exch) \in Message
    BY FeedMessageType DEF FullOrderBook
  <2> QED BY <2>1, <1>8 DEF RestRequest, Unusable
<1>9. CASE RequestFails
  BY <1>9 DEF RequestFails
<1>10. CASE RequestTerminates
  <2>1. alive' \in BOOLEAN
    BY <1>10 DEF RequestTerminates
  <2> QED BY <2>1, <1>10 DEF RequestTerminates
<1>11. CASE BeginMerge
  <2>1. orderBookMsg.sequence \in Nat
    BY DEF Message
  <2> QED BY <2>1, <1>11 DEF BeginMerge
<1>12. CASE MergeMessage
  <2> DEFINE message == Head(m_messageQueue)
             item == [type |-> message.type, sequence |-> message.sequence]
  <2>1. message \in Message /\ Tail(m_messageQueue) \in Seq(Message)
    BY <1>12 DEF MergeMessage
  <2>2. message.sequence \in Nat /\ item \in Item
    BY <2>1 DEF Message, Item
  <2>3. [orderBookMsg EXCEPT !.to_merge = Append(@, item)] \in Message
    BY <2>2, BookGrows
  <2>4. m_lastSequenceNumber' \in Nat /\ orderBookMsg' \in Message
    BY <2>2, <2>3, <1>12 DEF MergeMessage
  <2>5. m_messageQueue' \in Seq(Message)
    BY <2>1, <1>12 DEF MergeMessage
  <2> QED BY <2>4, <2>5, <1>12 DEF MergeMessage
<1>13. CASE PushOrderBook
  <2>1. orderBookMsg' \in Message /\ m_messageQueue' \in Seq(Message)
    BY NoBookType, <1>13 DEF PushOrderBook
  <2>2. m_requestingOrderbook' \in BOOLEAN
    BY <1>13 DEF PushOrderBook
  <2> QED BY <2>1, <2>2, <1>13 DEF PushOrderBook
<1>14. CASE RequestReturns
  BY <1>14 DEF RequestReturns
<1>15. CASE LoopCheck
  BY <1>15 DEF LoopCheck
<1>16. CASE LoopTake
  <2>1. CASE MayTake
    <3>1. /\ messages' = m_messageQueue
          /\ m_messageQueue' = <<>>
          /\ loopPc' = "handle"
      BY <1>16, <2>1 DEF LoopTake
    <3> QED BY <3>1, <1>16 DEF LoopTake
  <2>2. CASE ~MayTake
    <3>1. /\ messages' = messages
          /\ m_messageQueue' = m_messageQueue
          /\ loopPc' = "check"
      BY <1>16, <2>2 DEF LoopTake
    <3> QED BY <3>1, <1>16 DEF LoopTake
  <2> QED BY <2>1, <2>2
<1>17. CASE LoopHandle
  <2>1. messages # <<>>
    BY <1>17 DEF LoopHandle, Control
  <2>2. Head(messages) \in Message /\ Tail(messages) \in Seq(Message)
    BY <2>1
  <2>3. End(Head(messages)) \in Nat
    BY <2>2, EndType
  <2>4. GetProductChange(Head(messages), reflected) \in SUBSET Nat
    BY <2>2, ProductChangeType
  <2> QED BY <2>2, <2>3, <2>4, <1>17 DEF LoopHandle
<1>18. CASE Destroy
  BY <1>18 DEF Destroy
<1>19. CASE DestroyJoinsRequest
  BY <1>19 DEF DestroyJoinsRequest
<1>20. CASE DestroyJoinsHandler
  BY <1>20 DEF DestroyJoinsHandler
<1>21. CASE UNCHANGED vars
  BY <1>21
<1> QED BY <1>1, <1>2, <1>3, <1>4, <1>5, <1>6, <1>7, <1>8, <1>9, <1>10,
           <1>11, <1>12, <1>13, <1>14, <1>15, <1>16, <1>17, <1>18, <1>19,
           <1>20, <1>21
        DEF Next, Exchange, WebsocketThread, RequestThread, MessageThread,
            Destructor
-----------------------------------------------------------------------------
(***************************************************************************)
(* The control state.                                                      *)
(***************************************************************************)

\* The constructor establishes Control.
LEMMA ControlInit ==
    ASSUME Init
    PROVE  Control
BY DEF Init, Control

\* Control is preserved: the gap branch of onMessageReceived starts to join only
\* when m_requestingOrderbook is clear, which the request thread does last.
LEMMA ControlStep ==
    ASSUME TypeOK, Control, [Next]_vars
    PROVE  Control'
<1> USE DEF TypeOK, Control, env, obj, request, loop, output, vars
<1>1. CASE SubscriptionTakesEffect
  BY <1>1 DEF SubscriptionTakesEffect
<1>2. CASE ExchangeEmits
  BY <1>2 DEF ExchangeEmits
<1>3. CASE ReceiveWhileRequesting
  BY <1>3 DEF ReceiveWhileRequesting, MayReceive
<1>4. CASE ReceiveGap
  BY <1>4 DEF ReceiveGap, MayReceive, NoSequence
<1>5. CASE ReceiveTooOld
  BY <1>5 DEF ReceiveTooOld, MayReceive
<1>6. CASE ReceiveInOrder
  BY <1>6 DEF ReceiveInOrder, MayReceive
<1>7. CASE JoinAndRequest
  BY <1>7 DEF JoinAndRequest
<1>8. CASE RestRequest
  BY <1>8 DEF RestRequest, Unusable
<1>9. CASE RequestFails
  BY <1>9 DEF RequestFails
<1>10. CASE RequestTerminates
  BY <1>10 DEF RequestTerminates
<1>11. CASE BeginMerge
  BY <1>11 DEF BeginMerge
<1>12. CASE MergeMessage
  BY <1>12 DEF MergeMessage
<1>13. CASE PushOrderBook
  BY <1>13 DEF PushOrderBook
<1>14. CASE RequestReturns
  BY <1>14 DEF RequestReturns
<1>15. CASE LoopCheck
  BY <1>15 DEF LoopCheck
<1>16. CASE LoopTake
  <2>1. messages = <<>>
    BY <1>16 DEF LoopTake
  <2>2. loopPc' = "handle" <=> messages' # <<>>
    BY <2>1, <1>16 DEF LoopTake, MayTake
  <2> QED BY <2>2, <1>16 DEF LoopTake
<1>17. CASE LoopHandle
  BY <1>17 DEF LoopHandle
<1>18. CASE Destroy
  BY <1>18 DEF Destroy
<1>19. CASE DestroyJoinsRequest
  BY <1>19 DEF DestroyJoinsRequest
<1>20. CASE DestroyJoinsHandler
  BY <1>20 DEF DestroyJoinsHandler
<1>21. CASE UNCHANGED vars
  BY <1>21
<1> QED BY <1>1, <1>2, <1>3, <1>4, <1>5, <1>6, <1>7, <1>8, <1>9, <1>10,
           <1>11, <1>12, <1>13, <1>14, <1>15, <1>16, <1>17, <1>18, <1>19,
           <1>20, <1>21
        DEF Next, Exchange, WebsocketThread, RequestThread, MessageThread,
            Destructor

\* TypeOK holds in every state: the threads of CoinbaseFeedProduct keep its
\* members, and what they hand each other, of the types the class declares.
THEOREM TypeCorrect == Spec => []TypeOK
<1>1. Init => TypeOK /\ Control
  BY TypeInit, ControlInit
<1>2. TypeOK /\ Control /\ [Next]_vars => TypeOK' /\ Control'
  BY TypeStep, ControlStep
<1> QED BY <1>1, <1>2, PTL DEF Spec

\* JoinNeverBlocks holds in every state: when requestFullOrderBook joins the
\* request thread with m_messagesMutex held, that thread has released the mutex
\* for the last time, so the join cannot deadlock.
THEOREM JoinIsSafe == Spec => []JoinNeverBlocks
<1>1. Init => TypeOK /\ Control
  BY TypeInit, ControlInit
<1>2. TypeOK /\ Control /\ [Next]_vars => TypeOK' /\ Control'
  BY TypeStep, ControlStep
<1>3. Control => JoinNeverBlocks
  BY DEF Control, JoinNeverBlocks
<1> QED BY <1>1, <1>2, <1>3, PTL DEF Spec

-----------------------------------------------------------------------------
(***************************************************************************)
(* Chains of messages.                                                     *)
(***************************************************************************)

\* Taking the head off a chained queue leaves a queue chained from that head's
\* end (messageLoop handling one message).
LEMMA ChainHead ==
    ASSUME NEW p \in Nat, NEW s \in Seq(Message), s # <<>>, Chain(p, s)
    PROVE  /\ Follows(p, Head(s))
           /\ Chain(End(Head(s)), Tail(s))
           /\ EndOf(End(Head(s)), Tail(s)) = EndOf(p, s)
<1>1. 1 \in 1 .. Len(s) /\ Head(s) = s[1]
  OBVIOUS
<1>2. Follows(p, Head(s))
  BY <1>1 DEF Chain
<1>3. /\ Tail(s) \in Seq(Message)
      /\ Len(Tail(s)) = Len(s) - 1
      /\ \A i \in 1 .. Len(s) - 1 : Tail(s)[i] = s[i + 1]
  OBVIOUS
<1>4. Chain(End(Head(s)), Tail(s))
  <2> SUFFICES ASSUME NEW i \in 1 .. Len(Tail(s))
               PROVE  Follows(IF i = 1 THEN End(Head(s)) ELSE End(Tail(s)[i - 1]),
                              Tail(s)[i])
    BY DEF Chain
  <2>1. i + 1 \in 1 .. Len(s) /\ i + 1 # 1 /\ (i + 1) - 1 = i
    BY <1>3
  <2>2. Follows(End(s[i]), s[i + 1])
    BY <2>1 DEF Chain
  <2>3. CASE i = 1
    BY <2>2, <2>3, <1>1, <1>3
  <2>4. CASE i # 1
    <3>1. i - 1 \in 1 .. Len(s) - 1 /\ (i - 1) + 1 = i
      BY <2>4, <1>3
    <3>2. Tail(s)[i - 1] = s[i]
      BY <3>1, <1>3
    <3> QED BY <2>2, <2>4, <3>2, <1>3
  <2> QED BY <2>3, <2>4
<1>5. EndOf(End(Head(s)), Tail(s)) = EndOf(p, s)
  <2>1. CASE Tail(s) = <<>>
    <3>1. Len(s) = 1
      <4>1. Len(Tail(s)) = 0
        BY <2>1, <1>3, EmptySeq
      <4> QED BY <4>1, <1>3
    <3> QED BY <2>1, <3>1, <1>1 DEF EndOf
  <2>2. CASE Tail(s) # <<>>
    <3>1. Len(s) - 1 \in 1 .. Len(s) - 1 /\ (Len(s) - 1) + 1 = Len(s)
      BY <2>2, <1>3
    <3>2. Tail(s)[Len(Tail(s))] = s[Len(s)]
      BY <3>1, <1>3
    <3> QED BY <2>2, <3>2 DEF EndOf
  <2> QED BY <2>1, <2>2
<1> QED BY <1>2, <1>4, <1>5

\* Appending the direct successor of the last message keeps a queue chained
\* (onMessageReceived with an in-order message).
LEMMA ChainAppend ==
    ASSUME NEW p \in Nat, NEW s \in Seq(Message), NEW m \in Message,
           Chain(p, s), Follows(EndOf(p, s), m)
    PROVE  /\ Chain(p, Append(s, m))
           /\ EndOf(p, Append(s, m)) = End(m)
<1>1. /\ Append(s, m) \in Seq(Message)
      /\ Append(s, m) # <<>>
      /\ Len(Append(s, m)) = Len(s) + 1
      /\ Append(s, m)[Len(s) + 1] = m
      /\ \A i \in 1 .. Len(s) : Append(s, m)[i] = s[i]
  OBVIOUS
<1>2. EndOf(p, Append(s, m)) = End(m)
  BY <1>1 DEF EndOf
<1>3. ASSUME NEW i \in 1 .. Len(s) + 1
      PROVE  Follows(IF i = 1 THEN p ELSE End(Append(s, m)[i - 1]),
                     Append(s, m)[i])
  <2>1. CASE i \in 1 .. Len(s)
    <3>1. Follows(IF i = 1 THEN p ELSE End(s[i - 1]), s[i])
      BY <2>1 DEF Chain
    <3>2. i # 1 => i - 1 \in 1 .. Len(s)
      BY <2>1
    <3> QED BY <3>1, <3>2, <2>1, <1>1
  <2>2. CASE i = Len(s) + 1
    <3>1. CASE s = <<>>
      <4>1. i = 1
        BY <2>2, <3>1
      <4> QED BY <4>1, <3>1, <2>2, <1>1 DEF EndOf
    <3>2. CASE s # <<>>
      <4>1. i # 1 /\ i - 1 = Len(s) /\ Len(s) \in 1 .. Len(s)
        BY <2>2, <3>2
      <4>2. Append(s, m)[i - 1] = s[Len(s)] /\ Append(s, m)[i] = m
        BY <4>1, <2>2, <1>1
      <4> QED BY <4>1, <4>2, <3>2 DEF EndOf
    <3> QED BY <3>1, <3>2
  <2> QED BY <2>1, <2>2
<1> QED BY <1>1, <1>2, <1>3 DEF Chain

\* The end of a queue is a natural number.
LEMMA EndOfType ==
    ASSUME NEW p \in Nat, NEW s \in Seq(Message)
    PROVE  EndOf(p, s) \in Nat
<1>1. CASE s = <<>>
  BY <1>1 DEF EndOf
<1>2. CASE s # <<>>
  <2>1. s[Len(s)] \in Message
    BY <1>2
  <2> QED BY <2>1, <1>2, EndType DEF EndOf
<1> QED BY <1>1, <1>2

\* An empty queue is chained from any position.
LEMMA ChainEmpty ==
    ASSUME NEW p
    PROVE  Chain(p, <<>>) /\ EndOf(p, <<>>) = p
BY DEF Chain, EndOf

\* A queue that is one order book is chained from any older position
\* (requestFullOrderBookImpl after its merge).
LEMMA ChainSingle ==
    ASSUME NEW p \in Nat, NEW m \in Message, Follows(p, m)
    PROVE  Chain(p, <<m>>) /\ EndOf(p, <<m>>) = End(m)
BY DEF Chain, EndOf

-----------------------------------------------------------------------------
(***************************************************************************)
(* Nothing is ahead of the exchange.                                       *)
(***************************************************************************)

\* Taking the head off a queue of sane messages leaves sane messages.
LEMMA SaneHead ==
    ASSUME NEW s \in Seq(Message), NEW e \in Nat, s # <<>>, AllSane(s, e)
    PROVE  /\ Head(s) \in Message
           /\ Sane(Head(s), e)
           /\ AllSane(Tail(s), e)
<1>1. 1 \in 1 .. Len(s) /\ Head(s) = s[1] /\ Head(s) \in Message
  OBVIOUS
<1>2. ASSUME NEW i \in 1 .. Len(Tail(s))
      PROVE  Sane(Tail(s)[i], e)
  <2>1. i + 1 \in 1 .. Len(s) /\ Tail(s)[i] = s[i + 1]
    OBVIOUS
  <2> QED BY <2>1 DEF AllSane
<1> QED BY <1>1, <1>2 DEF AllSane

\* Taking the head off a queue of feed messages leaves feed messages.
LEMMA FeedHead ==
    ASSUME NEW s \in Seq(Message), s # <<>>, AllFeed(s)
    PROVE  Head(s).type # "book" /\ AllFeed(Tail(s))
<1>1. 1 \in 1 .. Len(s) /\ Head(s) = s[1]
  OBVIOUS
<1>2. ASSUME NEW i \in 1 .. Len(Tail(s))
      PROVE  Tail(s)[i].type # "book"
  <2>1. i + 1 \in 1 .. Len(s) /\ Tail(s)[i] = s[i + 1]
    OBVIOUS
  <2> QED BY <2>1 DEF AllFeed
<1> QED BY <1>1, <1>2 DEF AllFeed

\* Appending a sane message keeps the queue sane.
LEMMA SaneAppend ==
    ASSUME NEW s \in Seq(Message), NEW m \in Message, NEW e \in Nat,
           AllSane(s, e), Sane(m, e)
    PROVE  AllSane(Append(s, m), e)
<1>1. ASSUME NEW i \in 1 .. Len(Append(s, m))
      PROVE  Sane(Append(s, m)[i], e)
  <2>1. CASE i \in 1 .. Len(s)
    BY <2>1 DEF AllSane
  <2>2. CASE i = Len(s) + 1
    BY <2>2
  <2> QED BY <2>1, <2>2
<1> QED BY <1>1 DEF AllSane

\* Messages stay sane when the exchange moves on.
LEMMA SaneLater ==
    ASSUME NEW s \in Seq(Message), NEW e \in Nat, NEW f \in Nat, e <= f,
           AllSane(s, e)
    PROVE  AllSane(s, f)
<1> SUFFICES ASSUME NEW i \in 1 .. Len(s) PROVE Sane(s[i], f)
  BY DEF AllSane
<1>1. Sane(s[i], e) /\ s[i] \in Message
  BY DEF AllSane
<1>2. s[i].sequence \in Nat /\ End(s[i]) \in Nat
  BY <1>1, EndType DEF Message
<1> QED BY <1>1, <1>2 DEF Sane

\* One more message of the feed at the end of the wire.
LEMMA WireGrows ==
    ASSUME NEW s \in Seq(Message), NEW e \in Nat, NEW t \in {"full", "echo"},
           NEW send \in BOOLEAN, AllSane(s, e), AllFeed(s),
           NEW w, w = s \o (IF send THEN <<FeedMessage(t, e)>> ELSE <<>>)
    PROVE  w \in Seq(Message) /\ AllSane(w, e) /\ AllFeed(w)
<1> DEFINE m == FeedMessage(t, e)
<1>1. CASE send
  <2>1. m \in Message /\ Sane(m, e) /\ m.type # "book"
    BY FeedMessageType DEF Sane, FeedMessage
  <2>2. w = Append(s, m)
    BY <1>1, <2>1
  <2>3. ASSUME NEW i \in 1 .. Len(Append(s, m))
        PROVE  Append(s, m)[i].type # "book"
    <3>1. CASE i \in 1 .. Len(s)
      BY <3>1 DEF AllFeed
    <3>2. CASE i = Len(s) + 1
      BY <3>2, <2>1
    <3> QED BY <3>1, <3>2
  <2>4. AllFeed(Append(s, m))
    BY <2>3 DEF AllFeed
  <2>5. AllSane(Append(s, m), e) /\ Append(s, m) \in Seq(Message)
    BY <2>1, SaneAppend
  <2> QED BY <2>2, <2>4, <2>5
<1>2. CASE ~send
  <2>1. w = s
    BY <1>2
  <2> QED BY <2>1
<1> QED BY <1>1, <1>2

\* The end of a batch is not ahead of the exchange either.
LEMMA EndOfBound ==
    ASSUME NEW p \in Nat, NEW s \in Seq(Message), NEW e \in Nat,
           p <= e, AllSane(s, e)
    PROVE  EndOf(p, s) <= e
<1>1. CASE s = <<>>
  BY <1>1 DEF EndOf
<1>2. CASE s # <<>>
  <2>1. Len(s) \in 1 .. Len(s)
    BY <1>2
  <2>2. Sane(s[Len(s)], e)
    BY <2>1 DEF AllSane
  <2>3. EndOf(p, s) = End(s[Len(s)])
    BY <1>2 DEF EndOf
  <2> QED BY <2>2, <2>3 DEF Sane
<1> QED BY <1>1, <1>2

\* The constructor establishes Bounds.
LEMMA BoundsInit ==
    ASSUME Init
    PROVE  Bounds
BY FeedProductAssumption DEF Init, Bounds, AllSane, AllFeed

\* Bounds is preserved: the exchange only moves forward, and a REST answer is
\* an order book the exchange had.
LEMMA BoundsStep ==
    ASSUME IInv, [Next]_vars
    PROVE  Bounds'
<1> USE DEF IInv, TypeOK, Bounds, env, obj, request, loop, output, vars
<1>1. CASE SubscriptionTakesEffect
  BY <1>1 DEF SubscriptionTakesEffect
<1>2. CASE ExchangeEmits
  <2>1. PICK sent \in BOOLEAN, echo \in BOOLEAN :
          wire' = wire
            \o (IF sent THEN <<FeedMessage("full", exch + 1)>> ELSE <<>>)
            \o (IF echo THEN <<FeedMessage("echo", exch + 1)>> ELSE <<>>)
    BY <1>2 DEF ExchangeEmits
  <2> DEFINE first == wire
               \o (IF sent THEN <<FeedMessage("full", exch + 1)>> ELSE <<>>)
  <2>2. /\ AllSane(wire, exch + 1)
        /\ AllSane(m_messageQueue, exch + 1)
        /\ AllSane(messages, exch + 1)
    <3>1. exch + 1 \in Nat /\ exch <= exch + 1
      OBVIOUS
    <3> QED BY <3>1, SaneLater
  <2>3. first \in Seq(Message) /\ AllSane(first, exch + 1) /\ AllFeed(first)
    <3>1. exch + 1 \in Nat /\ AllFeed(wire) /\ wire \in Seq(Message)
      OBVIOUS
    <3> QED BY <2>2, <3>1, WireGrows
  <2>4. AllSane(wire', exch + 1) /\ AllFeed(wire')
    <3>1. exch + 1 \in Nat
      OBVIOUS
    <3> QED BY <2>1, <2>3, <3>1, WireGrows
  <2> QED BY <2>2, <2>4, <1>2 DEF ExchangeEmits
<1>3. CASE ReceiveWhileRequesting
  <2>1. wire # <<>> /\ wire' = Tail(wire)
    BY <1>3 DEF ReceiveWhileRequesting, MayReceive
  <2>2. /\ Head(wire) \in Message
        /\ Sane(Head(wire), exch)
        /\ AllSane(Tail(wire), exch)
        /\ AllFeed(Tail(wire))
    BY <2>1, SaneHead, FeedHead
  <2>3. AllSane(Append(m_messageQueue, Head(wire)), exch)
    BY <2>2, SaneAppend
  <2> QED BY <2>1, <2>2, <2>3, <1>3 DEF ReceiveWhileRequesting
<1>4. CASE ReceiveGap
  <2>1. wire # <<>> /\ wire' = Tail(wire)
    BY <1>4 DEF ReceiveGap, MayReceive
  <2>2. /\ Head(wire) \in Message
        /\ Sane(Head(wire), exch)
        /\ AllSane(Tail(wire), exch)
        /\ AllFeed(Tail(wire))
    BY <2>1, SaneHead, FeedHead
  <2> QED BY <2>1, <2>2, <1>4 DEF ReceiveGap
<1>5. CASE ReceiveTooOld
  <2>1. wire # <<>> /\ wire' = Tail(wire)
    BY <1>5 DEF ReceiveTooOld, MayReceive
  <2>2. /\ Head(wire) \in Message
        /\ Sane(Head(wire), exch)
        /\ AllSane(Tail(wire), exch)
        /\ AllFeed(Tail(wire))
    BY <2>1, SaneHead, FeedHead
  <2> QED BY <2>1, <2>2, <1>5 DEF ReceiveTooOld
<1>6. CASE ReceiveInOrder
  <2>1. wire # <<>> /\ wire' = Tail(wire)
    BY <1>6 DEF ReceiveInOrder, MayReceive
  <2>2. /\ Head(wire) \in Message
        /\ Sane(Head(wire), exch)
        /\ AllSane(Tail(wire), exch)
        /\ AllFeed(Tail(wire))
    BY <2>1, SaneHead, FeedHead
  <2>3. AllSane(Append(m_messageQueue, Head(wire)), exch)
    BY <2>2, SaneAppend
  <2> QED BY <2>1, <2>2, <2>3, <1>6 DEF ReceiveInOrder
<1>7. CASE JoinAndRequest
  BY <1>7 DEF JoinAndRequest
<1>8. CASE RestRequest
  BY <1>8 DEF RestRequest
<1>9. CASE RequestFails
  BY <1>9 DEF RequestFails
<1>10. CASE RequestTerminates
  BY <1>10 DEF RequestTerminates
<1>11. CASE BeginMerge
  BY <1>11 DEF BeginMerge
<1>12. CASE MergeMessage
  <2>1. AllSane(Tail(m_messageQueue), exch)
    BY <1>12, SaneHead DEF MergeMessage
  <2> QED BY <2>1, <1>12 DEF MergeMessage
<1>13. CASE PushOrderBook
  <2>1. Sane(orderBookMsg, exch)
    <3>1. orderBookMsg.sequence \in Nat /\ End(orderBookMsg) \in Nat
      BY EndType DEF Message
    <3> QED BY <3>1, <1>13 DEF PushOrderBook, Control, BookAhead, Sane
  <2>2. AllSane(<<orderBookMsg>>, exch)
    BY <2>1 DEF AllSane
  <2> QED BY <2>2, <1>13 DEF PushOrderBook
<1>14. CASE RequestReturns
  BY <1>14 DEF RequestReturns
<1>15. CASE LoopCheck
  BY <1>15 DEF LoopCheck
<1>16. CASE LoopTake
  <2>1. AllSane(<<>>, exch)
    BY DEF AllSane
  <2>2. AllSane(messages', exch) /\ AllSane(m_messageQueue', exch)
    BY <2>1, <1>16 DEF LoopTake
  <2> QED BY <2>2, <1>16 DEF LoopTake
<1>17. CASE LoopHandle
  <2>1. messages # <<>>
    BY <1>17 DEF LoopHandle, Control
  <2>2. Sane(Head(messages), exch) /\ AllSane(Tail(messages), exch)
    BY <2>1, SaneHead
  <2> QED BY <2>2, <1>17 DEF LoopHandle, Sane
<1>18. CASE Destroy
  BY <1>18 DEF Destroy
<1>19. CASE DestroyJoinsRequest
  BY <1>19 DEF DestroyJoinsRequest
<1>20. CASE DestroyJoinsHandler
  BY <1>20 DEF DestroyJoinsHandler
<1>21. CASE UNCHANGED vars
  BY <1>21
<1> QED BY <1>1, <1>2, <1>3, <1>4, <1>5, <1>6, <1>7, <1>8, <1>9, <1>10,
           <1>11, <1>12, <1>13, <1>14, <1>15, <1>16, <1>17, <1>18, <1>19,
           <1>20, <1>21
        DEF Next, Exchange, WebsocketThread, RequestThread, MessageThread,
            Destructor

-----------------------------------------------------------------------------
(***************************************************************************)
(* The stream.                                                             *)
(***************************************************************************)

\* The constructor establishes Chained.
LEMMA ChainedInit ==
    ASSUME Init
    PROVE  Chained
BY ChainEmpty DEF Init, Chained

\* Chained is preserved: onMessageReceived queues only the successor of
\* m_lastSequenceNumber, and a new order book starts a new chain.
LEMMA ChainedStep ==
    ASSUME IInv, [Next]_vars
    PROVE  Chained'
<1> USE DEF IInv, TypeOK, Chained, env, obj, request, loop, output, vars
<1> DEFINE p == EndOf(handled, messages)
<1>0. p \in Nat
  BY EndOfType
<1>1. CASE SubscriptionTakesEffect
  BY <1>1 DEF SubscriptionTakesEffect
<1>2. CASE ExchangeEmits
  BY <1>2 DEF ExchangeEmits
<1>3. CASE ReceiveWhileRequesting
  BY <1>3 DEF ReceiveWhileRequesting, MayReceive
<1>4. CASE ReceiveGap
  BY <1>4 DEF ReceiveGap, MayReceive, NoSequence
<1>5. CASE ReceiveTooOld
  BY <1>5 DEF ReceiveTooOld, MayReceive
<1>6. CASE ReceiveInOrder
  <2>1. wire # <<>> /\ Head(wire) \in Message
    BY <1>6 DEF ReceiveInOrder, MayReceive
  <2>2. Head(wire).type # "book" /\ Head(wire).to_merge = <<>>
    BY <2>1, SaneHead, FeedHead DEF Bounds, Sane
  <2>3. /\ End(Head(wire)) = m_lastSequenceNumber + 1
        /\ End(Head(wire)) = Head(wire).sequence
    <3>1. Head(wire).sequence \in Nat
      BY <2>1 DEF Message
    <3> QED BY <2>2, <3>1, <1>6 DEF ReceiveInOrder, Gap, TooOld, End
  <2>4. Follows(EndOf(p, m_messageQueue), Head(wire))
    BY <2>2, <2>3, <1>6 DEF ReceiveInOrder, Follows
  <2>5. /\ Chain(p, Append(m_messageQueue, Head(wire)))
        /\ EndOf(p, Append(m_messageQueue, Head(wire))) = End(Head(wire))
    BY <1>0, <2>1, <2>4, ChainAppend, <1>6 DEF ReceiveInOrder
  <2> QED BY <2>3, <2>5, <1>6 DEF ReceiveInOrder
<1>7. CASE JoinAndRequest
  BY <1>7 DEF JoinAndRequest
<1>8. CASE RestRequest
  BY <1>8 DEF RestRequest
<1>9. CASE RequestFails
  BY <1>9 DEF RequestFails
<1>10. CASE RequestTerminates
  BY <1>10 DEF RequestTerminates
<1>11. CASE BeginMerge
  BY <1>11 DEF BeginMerge, Control
<1>12. CASE MergeMessage
  <2>1. m_requestingOrderbook
    BY <1>12 DEF MergeMessage, Control
  <2> QED BY <2>1, <1>12 DEF MergeMessage
<1>13. CASE PushOrderBook
  <2>1. response = "ok"
    BY <1>13 DEF PushOrderBook, Control
  <2>2. End(orderBookMsg) \in Nat /\ orderBookMsg.sequence \in Nat
    BY EndType DEF Message
  <2>3. /\ orderBookMsg.type = "book"
        /\ End(orderBookMsg) > 0
        /\ End(orderBookMsg) >= p
    BY <1>0, <2>1, <2>2 DEF BookAhead
  <2>4. Follows(p, orderBookMsg)
    BY <2>3 DEF Follows
  <2>5. Chain(p, <<orderBookMsg>>) /\ EndOf(p, <<orderBookMsg>>) = End(orderBookMsg)
    BY <1>0, <2>4, ChainSingle
  <2>6. m_lastSequenceNumber = End(orderBookMsg)
    BY <2>1, <1>13 DEF PushOrderBook, BookAhead
  <2> QED BY <2>3, <2>5, <2>6, <1>13 DEF PushOrderBook
<1>14. CASE RequestReturns
  BY <1>14 DEF RequestReturns
<1>15. CASE LoopCheck
  BY <1>15 DEF LoopCheck
<1>16. CASE LoopTake
  <2>1. messages = <<>>
    BY <1>16 DEF LoopTake, Control
  <2>2. p = handled
    BY <2>1, ChainEmpty
  <2>3. CASE MayTake
    <3>1. /\ messages' = m_messageQueue
          /\ m_messageQueue' = <<>>
      BY <1>16, <2>3 DEF LoopTake
    <3>2. /\ Chain(handled, messages')
          /\ m_lastSequenceNumber = EndOf(handled, messages')
      BY <2>2, <2>3, <3>1 DEF MayTake
    <3> QED BY <3>1, <3>2, ChainEmpty, <1>16 DEF LoopTake
  <2>4. CASE ~MayTake
    BY <2>4, <1>16 DEF LoopTake
  <2> QED BY <2>3, <2>4
<1>17. CASE LoopHandle
  <2>1. messages # <<>>
    BY <1>17 DEF LoopHandle, Control
  <2>2. /\ Chain(End(Head(messages)), Tail(messages))
        /\ EndOf(End(Head(messages)), Tail(messages)) = p
    BY <2>1, ChainHead
  <2> QED BY <2>2, <1>17 DEF LoopHandle
<1>18. CASE Destroy
  BY <1>18 DEF Destroy
<1>19. CASE DestroyJoinsRequest
  BY <1>19 DEF DestroyJoinsRequest
<1>20. CASE DestroyJoinsHandler
  BY <1>20 DEF DestroyJoinsHandler
<1>21. CASE UNCHANGED vars
  BY <1>21
<1> QED BY <1>1, <1>2, <1>3, <1>4, <1>5, <1>6, <1>7, <1>8, <1>9, <1>10,
           <1>11, <1>12, <1>13, <1>14, <1>15, <1>16, <1>17, <1>18, <1>19,
           <1>20, <1>21
        DEF Next, Exchange, WebsocketThread, RequestThread, MessageThread,
            Destructor

\* The constructor establishes BookAhead.
LEMMA BookAheadInit ==
    ASSUME Init
    PROVE  BookAhead
BY DEF Init, BookAhead

\* BookAhead is preserved: while the request thread holds an order book,
\* m_requestingOrderbook keeps messageLoop from taking a new batch.
LEMMA BookAheadStep ==
    ASSUME IInv, [Next]_vars
    PROVE  BookAhead'
<1> USE DEF IInv, TypeOK, BookAhead, env, obj, request, loop, output, vars
<1> DEFINE p == EndOf(handled, messages)
<1>0. /\ p \in Nat
      /\ End(orderBookMsg) \in Nat
      /\ orderBookMsg.sequence \in Nat
  BY EndOfType, EndType DEF Message
<1>1. CASE SubscriptionTakesEffect
  BY <1>1 DEF SubscriptionTakesEffect
<1>2. CASE ExchangeEmits
  BY <1>0, <1>2 DEF ExchangeEmits
<1>3. CASE ReceiveWhileRequesting
  BY <1>3 DEF ReceiveWhileRequesting, MayReceive, Control
<1>4. CASE ReceiveGap
  BY <1>4 DEF ReceiveGap, MayReceive, Control
<1>5. CASE ReceiveTooOld
  BY <1>5 DEF ReceiveTooOld, MayReceive
<1>6. CASE ReceiveInOrder
  BY <1>6 DEF ReceiveInOrder, MayReceive, Control
<1>7. CASE JoinAndRequest
  BY <1>7 DEF JoinAndRequest, Control
<1>8. CASE RestRequest
  <2>1. CASE response' = "ok" /\ orderBookMsg' = FullOrderBook(exch)
    <3>1. p <= exch
      BY EndOfBound DEF Bounds
    <3>2. End(FullOrderBook(exch)) = exch
      BY FeedMessageType DEF FullOrderBook
    <3>3. /\ FullOrderBook(exch).type = "book"
          /\ FullOrderBook(exch).sequence = exch
          /\ FullOrderBook(exch).to_merge = <<>>
      BY DEF FullOrderBook, FeedMessage
    <3> QED BY <1>0, <2>1, <3>1, <3>2, <3>3, <1>8 DEF RestRequest, Bounds
  <2>2. CASE response' \in Unusable
    BY <2>2 DEF Unusable
  <2> QED BY <2>1, <2>2, <1>8 DEF RestRequest
<1>9. CASE RequestFails
  BY <1>9 DEF RequestFails
<1>10. CASE RequestTerminates
  BY <1>10 DEF RequestTerminates
<1>11. CASE BeginMerge
  <2>1. End(orderBookMsg) = orderBookMsg.sequence
    BY <1>11 DEF BeginMerge, End
  <2> QED BY <2>1, <1>11 DEF BeginMerge
<1>12. CASE MergeMessage
  <2> DEFINE message == Head(m_messageQueue)
             item == [type |-> message.type, sequence |-> message.sequence]
  <2>1. message \in Message /\ message.sequence <= exch
    BY SaneHead, <1>12 DEF MergeMessage, Bounds, Sane
  <2>2. message.sequence \in Nat /\ item \in Item /\ item.sequence = message.sequence
    BY <2>1 DEF Message, Item
  <2>3. CASE Newer(message)
    <3>1. /\ m_lastSequenceNumber' = message.sequence
          /\ orderBookMsg' = [orderBookMsg EXCEPT !.to_merge = Append(@, item)]
      BY <2>3, <1>12 DEF MergeMessage
    <3>2. /\ orderBookMsg'.type = orderBookMsg.type
          /\ orderBookMsg'.sequence = orderBookMsg.sequence
          /\ End(orderBookMsg') = message.sequence
      BY <2>2, <3>1, BookGrows
    <3> QED BY <1>0, <2>1, <2>2, <2>3, <3>1, <3>2, <1>12
            DEF MergeMessage, Newer
  <2>4. CASE ~Newer(message)
    BY <2>4, <1>12 DEF MergeMessage
  <2> QED BY <2>3, <2>4
<1>13. CASE PushOrderBook
  BY <1>13 DEF PushOrderBook
<1>14. CASE RequestReturns
  BY <1>14 DEF RequestReturns
<1>15. CASE LoopCheck
  BY <1>15 DEF LoopCheck
<1>16. CASE LoopTake
  <2>1. CASE response = "ok"
    <3>1. m_requestingOrderbook
      BY <2>1 DEF Control
    <3> QED BY <3>1, <1>16 DEF LoopTake, MayTake
  <2>2. CASE response # "ok"
    BY <2>2, <1>16 DEF LoopTake
  <2> QED BY <2>1, <2>2
<1>17. CASE LoopHandle
  <2>1. messages # <<>>
    BY <1>17 DEF LoopHandle, Control
  <2>2. EndOf(End(Head(messages)), Tail(messages)) = p
    BY <2>1, ChainHead DEF Chained
  <2> QED BY <2>2, <1>17 DEF LoopHandle
<1>18. CASE Destroy
  BY <1>18 DEF Destroy
<1>19. CASE DestroyJoinsRequest
  BY <1>19 DEF DestroyJoinsRequest
<1>20. CASE DestroyJoinsHandler
  BY <1>20 DEF DestroyJoinsHandler
<1>21. CASE UNCHANGED vars
  BY <1>21
<1> QED BY <1>1, <1>2, <1>3, <1>4, <1>5, <1>6, <1>7, <1>8, <1>9, <1>10,
           <1>11, <1>12, <1>13, <1>14, <1>15, <1>16, <1>17, <1>18, <1>19,
           <1>20, <1>21
        DEF Next, Exchange, WebsocketThread, RequestThread, MessageThread,
            Destructor

\* The constructor establishes the inductive invariant.
LEMMA IInvInit ==
    ASSUME Init
    PROVE  IInv
BY TypeInit, ControlInit, BoundsInit, ChainedInit, BookAheadInit DEF IInv

\* Every step of every thread preserves the inductive invariant.
LEMMA IInvStep ==
    ASSUME IInv, [Next]_vars
    PROVE  IInv'
BY TypeStep, ControlStep, BoundsStep, ChainedStep, BookAheadStep DEF IInv

\* CoinbaseFeedProduct implements FeedStream: whatever is lost, repeated or
\* requested again, a live message handed to the listener is the successor of
\* what was handed over before it, and no order book takes the listener back.
THEOREM StreamRefined == Spec => StreamSpec
<1>1. Init => Stream!Init
  BY DEF Init, Stream!Init
<1>2. IInv /\ [Next]_vars => [Stream!Next]_Stream!streamVars
  <2> SUFFICES ASSUME IInv, [Next]_vars,
                      ~(UNCHANGED Stream!streamVars)
               PROVE  Stream!Next
    OBVIOUS
  <2>1. LoopHandle
    BY DEF Next, Exchange, WebsocketThread, RequestThread, MessageThread,
           Destructor, SubscriptionTakesEffect, ExchangeEmits,
           ReceiveWhileRequesting, ReceiveGap, ReceiveTooOld, ReceiveInOrder,
           JoinAndRequest, RestRequest, RequestFails, RequestTerminates,
           BeginMerge, MergeMessage, PushOrderBook, RequestReturns, LoopCheck,
           LoopTake, Destroy, DestroyJoinsRequest, DestroyJoinsHandler,
           vars, output, Stream!streamVars
  <2> DEFINE m == Head(messages)
  <2>2. messages # <<>> /\ messages \in Seq(Message) /\ handled \in Nat
    BY <2>1 DEF IInv, TypeOK, Control, LoopHandle
  <2>3. m \in Message /\ Follows(handled, m)
    BY <2>2, ChainHead DEF IInv, Chained
  <2>4. End(m) \in Nat
    BY <2>3, EndType
  <2>5. CASE m.type = "book"
    <3>1. Stream!Resync
      BY <2>1, <2>3, <2>4, <2>5 DEF LoopHandle, Follows, Stream!Resync
    <3> QED BY <3>1 DEF Stream!Next
  <2>6. CASE m.type # "book"
    <3>1. Stream!Advance
      BY <2>1, <2>2, <2>3, <2>6
         DEF LoopHandle, Follows, IInv, Chained, Stream!Advance
    <3> QED BY <3>1 DEF Stream!Next
  <2> QED BY <2>5, <2>6
<1> QED BY <1>1, <1>2, IInvInit, IInvStep, PTL DEF Spec, StreamSpec, Stream!Spec
=============================================================================
