---------------------------- MODULE FeedProduct ----------------------------
(***************************************************************************)
(* CoinbaseFeedProduct: keeps one product in step with the exchange.       *)
(*                                                                         *)
(* Three threads share the object: the websocket thread (onMessageReceived *)
(* and requestFullOrderBook), the request thread (requestFullOrderBookImpl *)
(* downloads a full order book and merges the queued messages into it) and *)
(* the message thread (messageLoop hands the queue to the message          *)
(* handler).  The owner destroys it through ~CoinbaseFeedProduct.          *)
(*                                                                         *)
(* The exchange numbers the messages of the "full" channel 1, 2, 3, ...    *)
(* The subscription also asks for the "ticker" and "heartbeat" channels,   *)
(* whose messages repeat a sequence number: they are the echoes.  A        *)
(* message is reduced to its type and its sequence number.                 *)
(***************************************************************************)
EXTENDS Naturals, Sequences

CONSTANTS
    StartSeq,     \* the exchange's sequence number when the product is created
    MaxSeq,       \* bound: the exchange stops after this sequence number
    Lossy,        \* the exchange may drop messages of a live subscription
    Echoes,       \* ticker and heartbeat messages are sent
    RestMayFail   \* the REST request may fail or return something unusable

ASSUME FeedProductAssumption ==
    /\ StartSeq \in Nat \ {0}
    /\ MaxSeq \in Nat
    /\ Lossy \in BOOLEAN
    /\ Echoes \in BOOLEAN
    /\ RestMayFail \in BOOLEAN

VARIABLES
    \* The exchange and the network.
    exch,                   \* sequence number of the exchange's last message
    feedOn,                 \* the exchange has processed the subscription
    wire,                   \* feed messages on their way, in order
    missed,                 \* sequence numbers that were never put on the wire
    \* The members of the object.
    m_messageQueue,
    m_lastSequenceNumber,
    m_requestingOrderbook,
    m_isRunning,
    m_messagesMutex,        \* the thread that holds it across steps, or "free"
    \* The control state and the locals of the threads.
    wsPc,
    reqPc, response, orderBookMsg,
    loopPc, messages,
    ownerPc,
    alive,                  \* FALSE once an uncaught exception ended the process
    \* What the message handler has passed on.
    handled,                \* sequence number of the last message handled
    handledKind,            \* its kind: "none" yet, "book" or "message"
    reflected               \* sequence numbers the listener's book reflects

env == <<exch, feedOn, wire, missed>>
obj == <<m_messageQueue, m_lastSequenceNumber, m_requestingOrderbook,
         m_isRunning, m_messagesMutex>>
request == <<reqPc, response, orderBookMsg>>
loop == <<loopPc, messages>>
output == <<handled, handledKind, reflected>>

vars == <<env, obj, wsPc, request, loop, ownerPc, alive, output>>

-----------------------------------------------------------------------------
(***************************************************************************)
(* Messages.  A full order book carries in to_merge the type and sequence  *)
(* number of each message merged into it.                                  *)
(***************************************************************************)
Item == [type : {"full", "echo", "book"}, sequence : Nat]

Message == [type : {"full", "echo", "book"}, sequence : Nat,
            to_merge : Seq(Item)]

FeedMessage(t, n) == [type |-> t, sequence |-> n, to_merge |-> <<>>]

FullOrderBook(n) == FeedMessage("book", n)

NoBook == FullOrderBook(0)

\* The sequence number a listener is brought to by message m.
End(m) ==
    IF m.to_merge = <<>> THEN m.sequence
                         ELSE m.to_merge[Len(m.to_merge)].sequence

\* getProductChange: what the listener's book reflects after message m when it
\* reflected r before.  A full order book replaces the book and applies the
\* messages merged into it; ticker and heartbeat produce no product change.
GetProductChange(m, r) ==
    CASE m.type = "book" ->
            (1 .. m.sequence) \cup
            {m.to_merge[i].sequence :
                i \in {j \in 1 .. Len(m.to_merge) : m.to_merge[j].type = "full"}}
      [] m.type = "full" -> r \cup {m.sequence}
      [] m.type = "echo" -> r

\* Answers of the REST service that hold no order book to use: none at all, a
\* document without a sequence number, one with sequence number 0, and text
\* that is not JSON.
Unusable == {"empty", "invalid", "zero", "garbage"}

-----------------------------------------------------------------------------
\* The constructor: both threads start, the request is outstanding, and the
\* subscription is sent only after the constructor has returned.
Init ==
    /\ exch = StartSeq
    /\ feedOn = FALSE
    /\ wire = <<>>
    /\ missed = {}
    /\ m_messageQueue = <<>>
    /\ m_lastSequenceNumber = 0
    /\ m_requestingOrderbook = TRUE
    /\ m_isRunning = TRUE
    /\ m_messagesMutex = "free"
    /\ wsPc = "idle"
    /\ reqPc = "request"
    /\ response = "none"
    /\ orderBookMsg = NoBook
    /\ loopPc = "check"
    /\ messages = <<>>
    /\ ownerPc = "live"
    /\ alive = TRUE
    /\ handled = 0
    /\ handledKind = "none"
    /\ reflected = {}

-----------------------------------------------------------------------------
(***************************************************************************)
(* The exchange.                                                           *)
(***************************************************************************)

\* The subscribe message sent after the constructor reaches the exchange.
SubscriptionTakesEffect ==
    /\ alive
    /\ ~feedOn
    /\ feedOn' = TRUE
    /\ UNCHANGED <<exch, wire, missed, obj, wsPc, request, loop, ownerPc,
                   alive, output>>

\* The next message of the full channel, sent or dropped, and the ticker or
\* heartbeat message that repeats its sequence number.
ExchangeEmits ==
    /\ alive
    /\ exch < MaxSeq
    /\ exch' = exch + 1
    /\ \E sent \in BOOLEAN, echo \in BOOLEAN :
        /\ feedOn /\ ~Lossy => sent
        /\ ~feedOn => ~sent /\ ~echo
        /\ echo => Echoes
        /\ missed' = IF sent THEN missed ELSE missed \cup {exch + 1}
        /\ wire' = wire
             \o (IF sent THEN <<FeedMessage("full", exch + 1)>> ELSE <<>>)
             \o (IF echo THEN <<FeedMessage("echo", exch + 1)>> ELSE <<>>)
    /\ UNCHANGED <<feedOn, obj, wsPc, request, loop, ownerPc, alive, output>>

-----------------------------------------------------------------------------
(***************************************************************************)
(* The websocket thread: onMessageReceived, one action per branch.  The    *)
(* gap branch keeps m_messagesMutex while it joins the request thread.     *)
(***************************************************************************)
MayReceive ==
    /\ alive
    /\ ownerPc = "live"
    /\ wsPc = "idle"
    /\ m_messagesMutex = "free"
    /\ wire # <<>>

\* Faulty Gap: one missing message is not a gap.
GapOfTwo(message) == message.sequence > m_lastSequenceNumber + 2

Gap(message) == message.sequence > m_lastSequenceNumber + 1

TooOld(message) == message.sequence <= m_lastSequenceNumber

\* Faulty NoSequence: a mark below every sequence number.
NegativeSequence == 0 - 1

\* m_lastSequenceNumber while the product has lost its place.
NoSequence == 0

ReceiveWhileRequesting ==
    /\ MayReceive
    /\ m_requestingOrderbook
    /\ m_messageQueue' = Append(m_messageQueue, Head(wire))
    /\ wire' = Tail(wire)
    /\ UNCHANGED <<exch, feedOn, missed, m_lastSequenceNumber,
                   m_requestingOrderbook, m_isRunning, m_messagesMutex, wsPc,
                   request, loop, ownerPc, alive, output>>

\* The message that shows the gap is not queued.
ReceiveGap ==
    /\ MayReceive
    /\ ~m_requestingOrderbook
    /\ Gap(Head(wire))
    /\ m_lastSequenceNumber' = NoSequence
    /\ m_requestingOrderbook' = TRUE
    /\ m_messagesMutex' = "websocket"
    /\ wsPc' = "join"
    /\ wire' = Tail(wire)
    /\ UNCHANGED <<exch, feedOn, missed, m_messageQueue, m_isRunning, request,
                   loop, ownerPc, alive, output>>

ReceiveTooOld ==
    /\ MayReceive
    /\ ~m_requestingOrderbook
    /\ ~Gap(Head(wire)) /\ TooOld(Head(wire))
    /\ wire' = Tail(wire)
    /\ UNCHANGED <<exch, feedOn, missed, obj, wsPc, request, loop, ownerPc,
                   alive, output>>

ReceiveInOrder ==
    /\ MayReceive
    /\ ~m_requestingOrderbook
    /\ ~Gap(Head(wire)) /\ ~TooOld(Head(wire))
    /\ m_messageQueue' = Append(m_messageQueue, Head(wire))
    /\ m_lastSequenceNumber' = Head(wire).sequence
    /\ wire' = Tail(wire)
    /\ UNCHANGED <<exch, feedOn, missed, m_requestingOrderbook, m_isRunning,
                   m_messagesMutex, wsPc, request, loop, ownerPc, alive, output>>

\* requestFullOrderBook: the previous request thread is joined and a new one
\* started; returning from onMessageReceived releases the mutex.
JoinAndRequest ==
    /\ alive
    /\ wsPc = "join"
    /\ reqPc = "exited"
    /\ reqPc' = "request"
    /\ wsPc' = "idle"
    /\ m_messagesMutex' = "free"
    /\ UNCHANGED <<env, m_messageQueue, m_lastSequenceNumber,
                   m_requestingOrderbook, m_isRunning, response, orderBookMsg,
                   loop, ownerPc, alive, output>>

-----------------------------------------------------------------------------
(***************************************************************************)
(* The request thread: requestFullOrderBookImpl.                           *)
(***************************************************************************)

\* Faulty RestRequest: m_requestingOrderbook is cleared when the answer arrives,
\* before the mutex is taken to store it.
RestRequestClearsFlag ==
    /\ alive
    /\ reqPc = "request"
    /\ reqPc' = "response"
    /\ response' = "ok"
    /\ orderBookMsg' = FullOrderBook(exch)
    /\ m_requestingOrderbook' = FALSE
    /\ UNCHANGED <<env, m_messageQueue, m_lastSequenceNumber, m_isRunning,
                   m_messagesMutex, wsPc, loop, ownerPc, alive, output>>

\* RestTransport::request.  The order book is the one the exchange has at some
\* moment between the request and the response.
RestRequest ==
    /\ alive
    /\ reqPc = "request"
    /\ reqPc' = "response"
    /\ \/ /\ response' = "ok"
          /\ orderBookMsg' = FullOrderBook(exch)
       \/ /\ RestMayFail
          /\ response' \in Unusable
          /\ UNCHANGED orderBookMsg
    /\ UNCHANGED <<env, obj, wsPc, loop, ownerPc, alive, output>>

\* The thread returns and m_requestingOrderbook stays set.
RequestFails ==
    /\ alive
    /\ reqPc = "response"
    /\ response \in {"empty", "invalid", "zero"}
    /\ reqPc' = "return"
    /\ UNCHANGED <<env, obj, wsPc, response, orderBookMsg, loop, ownerPc,
                   alive, output>>

\* json::parse throws and nothing catches it in this thread: std::terminate.
RequestTerminates ==
    /\ alive
    /\ reqPc = "response"
    /\ response = "garbage"
    /\ alive' = FALSE
    /\ UNCHANGED <<env, obj, wsPc, request, loop, ownerPc, output>>

BeginMerge ==
    /\ alive
    /\ reqPc = "response"
    /\ response = "ok"
    /\ m_messagesMutex = "free"
    /\ m_messagesMutex' = "request"
    /\ m_lastSequenceNumber' = orderBookMsg.sequence
    /\ reqPc' = "merge"
    /\ UNCHANGED <<env, m_messageQueue, m_requestingOrderbook, m_isRunning,
                   wsPc, response, orderBookMsg, loop, ownerPc, alive, output>>

\* Faulty Newer: a message as old as the order book is merged too.
NotOlder(message) == message.sequence >= orderBookMsg.sequence

\* Faulty Newer: the message right after the order book is left out.
NewerByTwo(message) == message.sequence > orderBookMsg.sequence + 1

Newer(message) == message.sequence > orderBookMsg.sequence

\* One turn of the loop that empties the queue into to_merge.
MergeMessage ==
    /\ alive
    /\ reqPc = "merge"
    /\ m_messageQueue # <<>>
    /\ m_messageQueue' = Tail(m_messageQueue)
    /\ LET message == Head(m_messageQueue) IN
         IF Newer(message)
         THEN /\ m_lastSequenceNumber' = message.sequence
              /\ orderBookMsg' =
                   [orderBookMsg EXCEPT !.to_merge =
                      Append(@, [type |-> message.type,
                                 sequence |-> message.sequence])]
         ELSE UNCHANGED <<m_lastSequenceNumber, orderBookMsg>>
    /\ UNCHANGED <<env, m_requestingOrderbook, m_isRunning, m_messagesMutex,
                   wsPc, reqPc, response, loop, ownerPc, alive, output>>

\* Faulty PushOrderBook: m_requestingOrderbook is not reset.
PushOrderBookKeepsFlag ==
    /\ alive
    /\ reqPc = "merge"
    /\ m_messageQueue = <<>>
    /\ m_messageQueue' = <<orderBookMsg>>
    /\ m_messagesMutex' = "free"
    /\ reqPc' = "return"
    /\ response' = "none"
    /\ orderBookMsg' = NoBook
    /\ UNCHANGED <<env, m_requestingOrderbook, m_lastSequenceNumber,
                   m_isRunning, wsPc, loop, ownerPc, alive, output>>

PushOrderBook ==
    /\ alive
    /\ reqPc = "merge"
    /\ m_messageQueue = <<>>
    /\ m_messageQueue' = <<orderBookMsg>>
    /\ m_requestingOrderbook' = FALSE
    /\ m_messagesMutex' = "free"
    /\ reqPc' = "return"
    /\ response' = "none"
    /\ orderBookMsg' = NoBook
    /\ UNCHANGED <<env, m_lastSequenceNumber, m_isRunning, wsPc, loop, ownerPc,
                   alive, output>>

RequestReturns ==
    /\ alive
    /\ reqPc = "return"
    /\ reqPc' = "exited"
    /\ UNCHANGED <<env, obj, wsPc, response, orderBookMsg, loop, ownerPc,
                   alive, output>>

-----------------------------------------------------------------------------
(***************************************************************************)
(* The message thread: messageLoop.  wait_for has a timeout, so the thread *)
(* may find the queue empty, and the mutex is free when it goes on.        *)
(***************************************************************************)
LoopCheck ==
    /\ alive
    /\ loopPc = "check"
    /\ loopPc' = IF m_isRunning THEN "wait" ELSE "exited"
    /\ UNCHANGED <<env, obj, wsPc, request, messages, ownerPc, alive, output>>

\* Faulty MayTake: a single message is left in the queue.
MayTakeSeveral == ~m_requestingOrderbook /\ Len(m_messageQueue) > 1

MayTake == ~m_requestingOrderbook /\ m_messageQueue # <<>>

LoopTake ==
    /\ alive
    /\ loopPc = "wait"
    /\ m_messagesMutex = "free"
    /\ IF MayTake
       THEN /\ messages' = m_messageQueue
            /\ m_messageQueue' = <<>>
            /\ loopPc' = "handle"
       ELSE /\ loopPc' = "check"
            /\ UNCHANGED <<messages, m_messageQueue>>
    /\ UNCHANGED <<env, m_lastSequenceNumber, m_requestingOrderbook,
                   m_isRunning, m_messagesMutex, wsPc, request, ownerPc,
                   alive, output>>

\* m_msgHandler.onMessageReceived for the next message of the batch.
LoopHandle ==
    /\ alive
    /\ loopPc = "handle"
    /\ handled' = End(Head(messages))
    /\ handledKind' = IF Head(messages).type = "book" THEN "book" ELSE "message"
    /\ reflected' = GetProductChange(Head(messages), reflected)
    /\ messages' = Tail(messages)
    /\ loopPc' = IF Tail(messages) = <<>> THEN "check" ELSE "handle"
    /\ UNCHANGED <<env, obj, wsPc, request, ownerPc, alive>>

-----------------------------------------------------------------------------
(***************************************************************************)
(* ~CoinbaseFeedProduct.  The owner holds the feed client's mutex, which   *)
(* onMessageReceived runs under, so no message is being received.          *)
(***************************************************************************)
Destroy ==
    /\ alive
    /\ ownerPc = "live"
    /\ wsPc = "idle"
    /\ ownerPc' = "joinRequest"
    /\ UNCHANGED <<env, obj, wsPc, request, loop, alive, output>>

\* Faulty DestroyJoinsRequest: m_isRunning is not reset.
DestroyKeepsRunning ==
    /\ alive
    /\ ownerPc = "joinRequest"
    /\ reqPc = "exited"
    /\ ownerPc' = "joinHandler"
    /\ UNCHANGED <<env, obj, wsPc, request, loop, alive, output>>

DestroyJoinsRequest ==
    /\ alive
    /\ ownerPc = "joinRequest"
    /\ reqPc = "exited"
    /\ m_isRunning' = FALSE
    /\ ownerPc' = "joinHandler"
    /\ UNCHANGED <<env, m_messageQueue, m_lastSequenceNumber,
                   m_requestingOrderbook, m_messagesMutex, wsPc, request, loop,
                   alive, output>>

DestroyJoinsHandler ==
    /\ alive
    /\ ownerPc = "joinHandler"
    /\ loopPc = "exited"
    /\ ownerPc' = "destroyed"
    /\ UNCHANGED <<env, obj, wsPc, request, loop, alive, output>>

-----------------------------------------------------------------------------
Exchange == SubscriptionTakesEffect \/ ExchangeEmits

WebsocketThread ==
    \/ ReceiveWhileRequesting
    \/ ReceiveGap
    \/ ReceiveTooOld
    \/ ReceiveInOrder
    \/ JoinAndRequest

RequestThread ==
    \/ RestRequest
    \/ RequestFails
    \/ RequestTerminates
    \/ BeginMerge
    \/ MergeMessage
    \/ PushOrderBook
    \/ RequestReturns

MessageThread == LoopCheck \/ LoopTake \/ LoopHandle

Destructor == DestroyJoinsRequest \/ DestroyJoinsHandler

Next ==
    \/ Exchange
    \/ WebsocketThread
    \/ RequestThread
    \/ MessageThread
    \/ Destroy
    \/ Destructor

Spec == Init /\ [][Next]_vars

\* The threads are scheduled, the REST request returns and a started
\* destructor goes on; the exchange and the owner owe nothing.
Fairness ==
    /\ WF_vars(WebsocketThread)
    /\ WF_vars(RequestThread)
    /\ WF_vars(MessageThread)
    /\ WF_vars(Destructor)

FairSpec == Spec /\ Fairness

-----------------------------------------------------------------------------
(***************************************************************************)
(* Properties.                                                             *)
(***************************************************************************)

\* Types of the state of CoinbaseFeedProduct, its threads and its feed.
TypeOK ==
    /\ exch \in Nat
    /\ feedOn \in BOOLEAN
    /\ wire \in Seq(Message)
    /\ missed \in SUBSET Nat
    /\ m_messageQueue \in Seq(Message)
    /\ m_lastSequenceNumber \in Nat
    /\ m_requestingOrderbook \in BOOLEAN
    /\ m_isRunning \in BOOLEAN
    /\ m_messagesMutex \in {"free", "websocket", "request"}
    /\ wsPc \in {"idle", "join"}
    /\ reqPc \in {"request", "response", "merge", "return", "exited"}
    /\ response \in {"none", "ok"} \cup Unusable
    /\ orderBookMsg \in Message
    /\ loopPc \in {"check", "wait", "handle", "exited"}
    /\ messages \in Seq(Message)
    /\ ownerPc \in {"live", "joinRequest", "joinHandler", "destroyed"}
    /\ alive \in BOOLEAN
    /\ handled \in Nat
    /\ handledKind \in {"none", "book", "message"}
    /\ reflected \in SUBSET Nat

\* requestFullOrderBook joins the request thread while it holds
\* m_messagesMutex, which that thread needs to store its order book: whenever
\* the join waits, the thread is already past its last use of the mutex.
JoinNeverBlocks == wsPc = "join" => reqPc \in {"return", "exited"}

\* What the message handler has passed on is a stream as FeedStream promises:
\* each live message is the direct successor of the one before and no full
\* order book takes the listener back, whatever is lost, queued or re-requested
\* on the way (onMessageReceived, requestFullOrderBookImpl, messageLoop).
Stream == INSTANCE FeedStream WITH pos <- handled, kind <- handledKind

StreamSpec == Stream!Spec

\* A sequence number the listener has gone past without reflecting it was never
\* put on the wire: no message the product received is lost, not even the one
\* that reveals a gap, which onMessageReceived drops.
HolesWereMissed == \A n \in 1 .. handled : n \in reflected \/ n \in missed

\* The order books anywhere in the object.
Books ==
    {orderBookMsg} \cup
    {m_messageQueue[i] : i \in {j \in 1 .. Len(m_messageQueue) :
                                  m_messageQueue[j].type = "book"}} \cup
    {messages[i] : i \in {j \in 1 .. Len(messages) : messages[j].type = "book"}}

\* requestFullOrderBookImpl merges into an order book only feed messages newer
\* than it, in sequence order, and never an order book that was still queued
\* when the gap came.
MergeSound ==
    \A b \in Books : \A i \in 1 .. Len(b.to_merge) :
        /\ b.to_merge[i].type # "book"
        /\ b.to_merge[i].sequence > b.sequence
        /\ i > 1 => b.to_merge[i - 1].sequence <= b.to_merge[i].sequence

Abandoned == ownerPc # "live" \/ ~alive

\* The request failed and its thread has ended; nothing starts another one.
GaveUp == m_requestingOrderbook /\ reqPc = "exited" /\ response \in Unusable

\* A product that is requesting an order book, at its start or after a gap,
\* stops requesting: the constructor and requestFullOrderBook lead to a
\* stored order book, and the only other end is an answer of the REST service
\* that cannot be used.
Recovers ==
    m_requestingOrderbook ~> (~m_requestingOrderbook \/ GaveUp \/ Abandoned)

\* A message onMessageReceived has queued reaches the listener, by itself or
\* through an order book that covers it, with the same exception.
QueuedIsHandled ==
    \A n \in 1 .. MaxSeq :
        (\E i \in 1 .. Len(m_messageQueue) : m_messageQueue[i].sequence = n)
            ~> (handled >= n \/ GaveUp \/ Abandoned)

\* ~CoinbaseFeedProduct returns: neither join waits for ever.
DestructorReturns == ownerPc = "joinRequest" ~> (ownerPc = "destroyed" \/ ~alive)

\* QsServerArchitecture.md says the product ensures "that all sequence numbers
\* are consecutive": the listener's book reflects every sequence number up to
\* the one it has been brought to.
AllConsecutive == \A n \in 1 .. handled : n \in reflected
=============================================================================
