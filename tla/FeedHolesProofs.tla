--------------------------- MODULE FeedHolesProofs ---------------------------
(***************************************************************************)
(* Further proofs about FeedProduct, on top of FeedProductProofs:          *)
(*   MergesAreSound  what requestFullOrderBookImpl merges into an order    *)
(*                   book;                                                 *)
(*   NothingIsLost   what the listener's book lacks was never sent.        *)
(***************************************************************************)
EXTENDS FeedProductProofs, SequenceFacts

-----------------------------------------------------------------------------
(***************************************************************************)
(* The inductive invariant.                                                *)
(***************************************************************************)

\* Feed message a is sent before feed message b: the sequence numbers do not
\* decrease, and the echo of a message comes after it.
Before(a, b) ==
    /\ a.sequence <= b.sequence
    /\ b.type = "full" => a.sequence # b.sequence

AllBefore(A, B) == \A a \in A, b \in B : Before(a, b)

Feed(s) == {m \in ToSet(s) : m.type # "book"}

InOrder(s) ==
    \A i, j \in 1 .. Len(s) :
        i < j /\ s[i].type # "book" /\ s[j].type # "book" => Before(s[i], s[j])

Merged == ToSet(orderBookMsg.to_merge)

\* The feed messages keep their order from the wire through the queue into the
\* order book.
Ordering ==
    /\ InOrder(wire)
    /\ InOrder(m_messageQueue)
    /\ AllBefore(Feed(m_messageQueue), Feed(wire))
    /\ AllBefore(Merged, Feed(m_messageQueue) \cup Feed(wire))
    /\ \A m \in Merged : m.sequence <= exch

SoundBook(b) ==
    /\ \A m \in ToSet(b.to_merge) : m.type # "book" /\ m.sequence > b.sequence
    /\ InOrder(b.to_merge)

\* An order book still queued when the gap came is no newer than the one that
\* was requested for the gap.
Merging ==
    /\ response # "ok" => orderBookMsg.to_merge = <<>>
    /\ SoundBook(orderBookMsg)
    /\ \A m \in ToSet(m_messageQueue) \cup ToSet(messages) :
         m.type = "book" => SoundBook(m)
    /\ response = "ok" =>
         \A m \in ToSet(m_messageQueue) :
            m.type = "book" => m.sequence <= orderBookMsg.sequence

\* Message n of the full channel is among the messages of A.
Has(A, n) == \E m \in A : m.type = "full" /\ m.sequence = n

\* What a message takes the listener past without reflecting it is in gone: an
\* echo that is in order stands for a message that was not sent.
Whole(m, gone) ==
    CASE m.type = "book" ->
            \A n \in m.sequence + 1 .. End(m) : n \in gone \/ Has(ToSet(m.to_merge), n)
      [] m.type = "echo" -> m.sequence \in gone
      [] OTHER           -> TRUE

\* Every message of the full channel was never sent, is reflected, or is still on
\* its way to the listener or to an order book.
Accounted ==
    /\ HolesWereMissed
    /\ \A m \in ToSet(messages) : Whole(m, missed)
    /\ ~m_requestingOrderbook =>
         /\ \A m \in ToSet(m_messageQueue) : Whole(m, missed)
         /\ \A n \in m_lastSequenceNumber + 1 .. exch :
              n \in missed \/ Has(ToSet(wire), n)
    /\ response = "ok" =>
         \A n \in orderBookMsg.sequence + 1 .. exch :
            n \in missed \/ Has(Merged \cup ToSet(m_messageQueue) \cup ToSet(wire), n)

HolesInv == IInv /\ Ordering /\ Merging /\ Accounted
-----------------------------------------------------------------------------
(***************************************************************************)
(* Sequences of messages in order.                                         *)
(***************************************************************************)

\* The empty queue is in order, and so is one of a single message.
LEMMA InOrderShort ==
    ASSUME NEW m
    PROVE  InOrder(<<>>) /\ InOrder(<<m>>) /\ ToSet(<<>>) = {} /\ ToSet(<<m>>) = {m}
<1>1. ToSet(<<>>) = {} /\ InOrder(<<>>)
  BY ToSetEmpty DEF InOrder
<1>2. InOrder(<<m>>)
  BY DEF InOrder
<1>3. ToSet(<<m>>) = {m}
  <2>1. DOMAIN <<m>> = {1} /\ <<m>>[1] = m
    OBVIOUS
  <2> QED
    BY <2>1 DEF ToSet
<1> QED
  BY <1>1, <1>2, <1>3

\* Appending a message that was sent after those in the queue.
LEMMA InOrderAppend ==
    ASSUME NEW S, NEW s \in Seq(S), NEW m \in S, InOrder(s), AllBefore(Feed(s), {m})
    PROVE  InOrder(Append(s, m))
<1> DEFINE t == Append(s, m)
<1>1. /\ Len(t) = Len(s) + 1 /\ Len(s) \in Nat
      /\ \A i \in 1 .. Len(s) : t[i] = s[i]
      /\ t[Len(s) + 1] = m
  OBVIOUS
<1> HIDE DEF t
<1>2. ASSUME NEW i \in 1 .. Len(t), NEW j \in 1 .. Len(t), i < j,
             t[i].type # "book", t[j].type # "book"
      PROVE  Before(t[i], t[j])
  <2>1. i \in 1 .. Len(s) /\ t[i] = s[i]
    BY <1>1, <1>2
  <2>2. CASE j = Len(s) + 1
    <3>1. s[i] \in Feed(s)
      BY <1>2, <2>1, ToSetElements DEF Feed
    <3> QED
      BY <1>1, <2>1, <2>2, <3>1 DEF AllBefore
  <2>3. CASE j # Len(s) + 1
    <3>1. j \in 1 .. Len(s) /\ t[j] = s[j]
      BY <1>1, <2>3
    <3> QED
      BY <1>2, <2>1, <3>1 DEF InOrder
  <2> QED
    BY <2>2, <2>3
<1> QED
  BY <1>2 DEF InOrder, t

\* The first feed message of a queue was sent before the others.
LEMMA InOrderTail ==
    ASSUME NEW S, NEW s \in Seq(S), s # <<>>, InOrder(s)
    PROVE  /\ InOrder(Tail(s))
           /\ Head(s).type # "book" => AllBefore({Head(s)}, Feed(Tail(s)))
<1> DEFINE t == Tail(s)
<1>1. /\ t \in Seq(S)
      /\ Len(t) \in Nat /\ Len(s) = Len(t) + 1
      /\ \A i \in 1 .. Len(t) : t[i] = s[i + 1]
      /\ Head(s) = s[1]
  OBVIOUS
<1> HIDE DEF t
<1>2. ASSUME NEW i \in 1 .. Len(t), NEW j \in 1 .. Len(t), i < j,
             t[i].type # "book", t[j].type # "book"
      PROVE  Before(t[i], t[j])
  <2>1. i + 1 \in 1 .. Len(s) /\ j + 1 \in 1 .. Len(s) /\ i + 1 < j + 1
    BY <1>1, <1>2
  <2>2. t[i] = s[i + 1] /\ t[j] = s[j + 1]
    BY <1>1
  <2> QED
    BY <1>2, <2>1, <2>2 DEF InOrder
<1>3. ASSUME NEW m \in Feed(t), Head(s).type # "book"
      PROVE  Before(Head(s), m)
  <2>1. PICK i \in 1 .. Len(t) : t[i] = m
    BY <1>1, ToSetElements DEF Feed
  <2>2. 1 \in 1 .. Len(s) /\ i + 1 \in 1 .. Len(s) /\ 1 < i + 1 /\ m = s[i + 1]
    BY <1>1, <2>1
  <2>3. m.type # "book"
    BY DEF Feed
  <2> QED
    BY <1>1, <1>3, <2>2, <2>3 DEF InOrder
<1>4. InOrder(t)
  BY <1>2 DEF InOrder
<1>5. Head(s).type # "book" => AllBefore({Head(s)}, Feed(t))
  BY <1>3 DEF AllBefore
<1> QED
  BY <1>4, <1>5 DEF t

\* A sound order book takes the listener to the last message merged into it.
LEMMA SoundEnd ==
    ASSUME NEW b \in Message, SoundBook(b)
    PROVE  /\ \A m \in ToSet(b.to_merge) : m.sequence <= End(b)
           /\ End(b) # b.sequence => \E m \in ToSet(b.to_merge) : m.sequence = End(b)
<1> DEFINE s == b.to_merge
<1>1. s \in Seq(Item)
  BY DEF Message
<1>2. CASE s = <<>>
  BY <1>2, ToSetEmpty DEF End
<1>3. CASE s # <<>>
  <2>1. Len(s) \in 1 .. Len(s) /\ End(b) = s[Len(s)].sequence
    BY <1>1, <1>3 DEF End
  <2>2. s[Len(s)] \in ToSet(s)
    BY <1>1, <2>1, ToSetElements
  <2>3. ASSUME NEW m \in ToSet(s)
        PROVE  m.sequence <= End(b)
    <3>1. PICK i \in 1 .. Len(s) : s[i] = m
      BY <1>1, ToSetElements
    <3>2. CASE i = Len(s)
      <4>1. m \in Item
        BY <1>1, <3>1
      <4> QED
        BY <2>1, <3>1, <3>2, <4>1 DEF Item
    <3>3. CASE i # Len(s)
      <4>1. i < Len(s)
        BY <1>1, <3>3
      <4>2. m.type # "book" /\ s[Len(s)].type # "book"
        BY <2>2 DEF SoundBook
      <4>3. Before(m, s[Len(s)])
        BY <2>1, <3>1, <4>1, <4>2 DEF SoundBook, InOrder
      <4> QED
        BY <2>1, <4>3 DEF Before
    <3> QED
      BY <3>2, <3>3
  <2> QED
    BY <2>1, <2>2, <2>3
<1> QED
  BY <1>2, <1>3

-----------------------------------------------------------------------------
(***************************************************************************)
(* What the steps do to the messages.                                      *)
(***************************************************************************)

\* The message onMessageReceived takes off the wire.
LEMMA Received ==
    ASSUME IInv, Ordering, wire # <<>>
    PROVE  /\ Head(wire) \in Message
           /\ Head(wire).type # "book"
           /\ Head(wire).sequence <= exch
           /\ Tail(wire) \in Seq(Message)
           /\ ToSet(wire) = {Head(wire)} \cup ToSet(Tail(wire))
           /\ InOrder(Tail(wire))
           /\ AllBefore({Head(wire)}, Feed(Tail(wire)))
           /\ \A m \in ToSet(wire) : m.type # "book"
<1>1. wire \in Seq(Message)
  BY DEF IInv, TypeOK
<1>2. Head(wire) \in Message /\ Sane(Head(wire), exch) /\ Head(wire).type # "book"
  BY <1>1, SaneHead, FeedHead DEF IInv, TypeOK, Bounds
<1>3. ToSet(wire) = {Head(wire)} \cup ToSet(Tail(wire)) /\ Tail(wire) \in Seq(Message)
  BY <1>1, ToSetTail
<1>4. InOrder(Tail(wire)) /\ AllBefore({Head(wire)}, Feed(Tail(wire)))
  BY <1>1, <1>2, InOrderTail DEF Ordering
<1>5. \A m \in ToSet(wire) : m.type # "book"
  BY <1>1, ToSetElements DEF IInv, Bounds, AllFeed
<1> QED
  BY <1>2, <1>3, <1>4, <1>5 DEF Sane

\* A queue after which a message is sent, or not.
LEMMA SendsOrNot ==
    ASSUME NEW s \in Seq(Message), NEW m \in Message, NEW send \in BOOLEAN,
           InOrder(s), AllBefore(Feed(s), {m}),
           NEW w, w = s \o (IF send THEN <<m>> ELSE <<>>)
    PROVE  /\ w \in Seq(Message)
           /\ InOrder(w)
           /\ ToSet(w) = ToSet(s) \cup (IF send THEN {m} ELSE {})
<1>1. CASE send
  <2>1. w = Append(s, m)
    BY <1>1
  <2>2. Append(s, m) \in Seq(Message)
    OBVIOUS
  <2>3. InOrder(Append(s, m))
    BY InOrderAppend
  <2>4. ToSet(Append(s, m)) = ToSet(s) \cup {m}
    BY ToSetAppend
  <2> QED
    BY <1>1, <2>1, <2>2, <2>3, <2>4
<1>2. CASE ~send
  <2>1. w = s
    BY <1>2
  <2> QED
    BY <1>2, <2>1
<1> QED
  BY <1>1, <1>2

\* The exchange sends the next message of the full channel and its echo, or does
\* not.
LEMMA Emitted ==
    ASSUME IInv, Ordering, ExchangeEmits
    PROVE  /\ InOrder(wire')
           /\ \A m \in ToSet(wire') : m \in ToSet(wire) \/ m.sequence = exch + 1
           /\ ToSet(wire) \subseteq ToSet(wire')
           /\ missed \subseteq missed'
           /\ exch + 1 \in missed' \/ Has(ToSet(wire'), exch + 1)
<1> DEFINE n == exch + 1
           full == FeedMessage("full", n)
           last == FeedMessage("echo", n)
<1>1. PICK sent \in BOOLEAN, echo \in BOOLEAN :
        /\ missed' = IF sent THEN missed ELSE missed \cup {n}
        /\ wire' = wire \o (IF sent THEN <<full>> ELSE <<>>)
                        \o (IF echo THEN <<last>> ELSE <<>>)
  BY DEF ExchangeEmits
<1>2. exch \in Nat /\ n \in Nat /\ wire \in Seq(Message) /\ InOrder(wire)
  BY DEF IInv, TypeOK, Ordering
<1>3. /\ full \in Message /\ full.type = "full" /\ full.sequence = n
      /\ last \in Message /\ last.type = "echo" /\ last.sequence = n
  <2>1. full \in Message /\ last \in Message
    BY <1>2, FeedMessageType
  <2> QED
    BY <2>1 DEF FeedMessage
<1>4. \A m \in ToSet(wire) : m.sequence \in Nat /\ m.sequence <= exch
  <2>1. ASSUME NEW m \in ToSet(wire)
        PROVE  m.sequence \in Nat /\ m.sequence <= exch
    <3>1. PICK i \in 1 .. Len(wire) : wire[i] = m
      BY <1>2, ToSetElements
    <3>2. m \in Message /\ Sane(m, exch)
      BY <1>2, <3>1 DEF IInv, Bounds, AllSane
    <3> QED
      BY <3>2 DEF Message, Sane
  <2> QED
    BY <2>1
<1> DEFINE first == wire \o (IF sent THEN <<full>> ELSE <<>>)
<1>5. wire' = first \o (IF echo THEN <<last>> ELSE <<>>)
  BY <1>1
<1> HIDE DEF full, last, n
<1>6. AllBefore(Feed(wire), {full})
  BY <1>2, <1>3, <1>4 DEF AllBefore, Before, Feed, n
<1>7. /\ first \in Seq(Message) /\ InOrder(first)
      /\ ToSet(first) = ToSet(wire) \cup (IF sent THEN {full} ELSE {})
  BY <1>2, <1>3, <1>6, SendsOrNot
<1> HIDE DEF first
<1>8. AllBefore(Feed(first), {last})
  BY <1>2, <1>3, <1>4, <1>7 DEF AllBefore, Before, Feed, n
<1>9. /\ InOrder(wire')
      /\ ToSet(wire') = ToSet(first) \cup (IF echo THEN {last} ELSE {})
  BY <1>3, <1>5, <1>7, <1>8, SendsOrNot
<1>10. n \in missed' \/ Has(ToSet(wire'), n)
  BY <1>1, <1>3, <1>7, <1>9 DEF Has
<1> QED
  BY <1>1, <1>3, <1>7, <1>9, <1>10 DEF n

\* The message taken off the queue to be merged.
LEMMA Queued ==
    ASSUME IInv, Ordering, m_messageQueue # <<>>
    PROVE  /\ Head(m_messageQueue) \in Message
           /\ Head(m_messageQueue).sequence <= exch
           /\ ToSet(m_messageQueue) =
                {Head(m_messageQueue)} \cup ToSet(Tail(m_messageQueue))
           /\ InOrder(Tail(m_messageQueue))
           /\ Head(m_messageQueue).type # "book" =>
                AllBefore({Head(m_messageQueue)}, Feed(Tail(m_messageQueue)))
<1>1. m_messageQueue \in Seq(Message)
  BY DEF IInv, TypeOK
<1>2. Head(m_messageQueue) \in Message /\ Sane(Head(m_messageQueue), exch)
  BY <1>1, SaneHead DEF IInv, TypeOK, Bounds
<1>3. ToSet(m_messageQueue) = {Head(m_messageQueue)} \cup ToSet(Tail(m_messageQueue))
  BY <1>1, ToSetTail
<1>4. /\ InOrder(Tail(m_messageQueue))
      /\ Head(m_messageQueue).type # "book" =>
           AllBefore({Head(m_messageQueue)}, Feed(Tail(m_messageQueue)))
  BY <1>1, InOrderTail DEF Ordering
<1> QED
  BY <1>2, <1>3, <1>4 DEF Sane

\* One turn of the merge loop: the message is left out, or is a feed message and
\* becomes the last one merged.
LEMMA Merges ==
    ASSUME IInv, Ordering, Merging, MergeMessage
    PROVE  \/ /\ orderBookMsg' = orderBookMsg
              /\ ~Newer(Head(m_messageQueue))
           \/ \E x \in Item :
                /\ Newer(Head(m_messageQueue))
                /\ x.type = Head(m_messageQueue).type
                /\ x.sequence = Head(m_messageQueue).sequence
                /\ x.type # "book"
                /\ orderBookMsg'.type = orderBookMsg.type
                /\ orderBookMsg'.sequence = orderBookMsg.sequence
                /\ orderBookMsg'.to_merge = Append(orderBookMsg.to_merge, x)
                /\ Merged' = Merged \cup {x}
<1> DEFINE message == Head(m_messageQueue)
           x == [type |-> message.type, sequence |-> message.sequence]
<1>1. response = "ok" /\ m_messageQueue # <<>> /\ orderBookMsg \in Message
  BY DEF IInv, Control, TypeOK, MergeMessage
<1>2. message \in Message /\ message \in ToSet(m_messageQueue)
  BY <1>1, Queued
<1>3. x \in Item
  BY <1>2 DEF Message, Item
<1>4. CASE Newer(message)
  <2>1. orderBookMsg' = [orderBookMsg EXCEPT !.to_merge = Append(@, x)]
    BY <1>4 DEF MergeMessage
  <2>2. message.type # "book"
    <3>1. message.sequence \in Nat /\ orderBookMsg.sequence \in Nat
      BY <1>1, <1>2 DEF Message
    <3>2. message.type = "book" => message.sequence <= orderBookMsg.sequence
      BY <1>1, <1>2 DEF Merging
    <3> QED
      BY <1>4, <3>1, <3>2 DEF Newer
  <2>3. x.type = message.type /\ x.sequence = message.sequence
    OBVIOUS
  <2> HIDE DEF x
  <2>4. /\ orderBookMsg'.type = orderBookMsg.type
        /\ orderBookMsg'.sequence = orderBookMsg.sequence
        /\ orderBookMsg'.to_merge = Append(orderBookMsg.to_merge, x)
    BY <1>1, <2>1 DEF Message
  <2>5. orderBookMsg.to_merge \in Seq(Item)
    BY <1>1 DEF Message
  <2>6. Merged' = Merged \cup {x}
    BY <1>3, <2>4, <2>5, ToSetAppend DEF Merged
  <2> QED
    BY <1>3, <1>4, <2>2, <2>3, <2>4, <2>6
<1>5. CASE ~Newer(message)
  BY <1>5 DEF MergeMessage
<1> QED
  BY <1>4, <1>5

-----------------------------------------------------------------------------
(***************************************************************************)
(* The feed messages stay in order.                                        *)
(***************************************************************************)

\* Receiving a message, whatever becomes of it.
LEMMA OrderingReceives ==
    ASSUME IInv, Ordering, wire # <<>>, wire' = Tail(wire), UNCHANGED <<exch, orderBookMsg>>,
           \/ UNCHANGED m_messageQueue
           \/ m_messageQueue' = Append(m_messageQueue, Head(wire))
    PROVE  Ordering'
<1> DEFINE h == Head(wire)
<1>1. /\ h \in Message /\ h.type # "book"
      /\ ToSet(wire) = {h} \cup ToSet(wire')
      /\ InOrder(wire')
      /\ AllBefore({h}, Feed(wire'))
  BY Received
<1> HIDE DEF h
<1>2. Feed(wire) = {h} \cup Feed(wire')
  BY <1>1 DEF Feed
<1>3. InOrder(m_messageQueue') /\ Feed(m_messageQueue') \subseteq Feed(m_messageQueue) \cup {h}
  <2>1. CASE m_messageQueue' = m_messageQueue
    BY <2>1 DEF Ordering
  <2>2. CASE m_messageQueue' = Append(m_messageQueue, h)
    <3>1. m_messageQueue \in Seq(Message)
      BY DEF IInv, TypeOK
    <3>2. AllBefore(Feed(m_messageQueue), {h})
      BY <1>2 DEF Ordering, AllBefore
    <3>3. InOrder(Append(m_messageQueue, h))
      BY <1>1, <3>1, <3>2, InOrderAppend DEF Ordering
    <3>4. ToSet(Append(m_messageQueue, h)) = ToSet(m_messageQueue) \cup {h}
      BY <1>1, <3>1, ToSetAppend
    <3> QED
      BY <2>2, <3>3, <3>4 DEF Feed
  <2> QED
    BY <2>1, <2>2 DEF h
<1>4. AllBefore(Feed(m_messageQueue'), Feed(wire'))
  BY <1>1, <1>2, <1>3 DEF Ordering, AllBefore
<1>5. Merged' = Merged
  BY DEF Merged
<1>6. AllBefore(Merged, Feed(m_messageQueue') \cup Feed(wire'))
  BY <1>2, <1>3 DEF Ordering, AllBefore
<1> QED
  BY <1>1, <1>3, <1>4, <1>5, <1>6 DEF Ordering

\* Steps that leave the wire alone and only take messages off the queue or off the
\* hands of the request thread.
LEMMA OrderingLess ==
    ASSUME Ordering, UNCHANGED <<wire, exch>>, InOrder(m_messageQueue'),
           Feed(m_messageQueue') \subseteq Feed(m_messageQueue), Merged' \subseteq Merged
    PROVE  Ordering'
BY DEF Ordering, AllBefore

\* Every step keeps the feed messages in order.
LEMMA OrderingStep ==
    ASSUME IInv, Ordering, Merging, [Next]_vars
    PROVE  Ordering'
<1> USE DEF env, obj, request, loop, output, vars
<1>1. CASE ExchangeEmits
  <2>1. UNCHANGED <<m_messageQueue, orderBookMsg>> /\ exch' = exch + 1
    BY <1>1 DEF ExchangeEmits
  <2>2. /\ InOrder(wire')
        /\ \A m \in Feed(wire') : m \in Feed(wire) \/ m.sequence = exch + 1
    BY <1>1, Emitted DEF Feed
  <2>3. Merged' = Merged
    BY <2>1 DEF Merged
  <2>4. exch \in Nat
    BY DEF IInv, TypeOK
  <2>5. \A m \in Merged : m.sequence \in Nat /\ m.sequence <= exch
    <3>1. orderBookMsg.to_merge \in Seq(Item)
      BY DEF IInv, TypeOK, Message
    <3>2. \A m \in Merged : m \in Item
      BY <3>1, ToSetElements DEF Merged
    <3> QED
      BY <3>2 DEF Item, Ordering
  <2>6. \A m \in Feed(m_messageQueue) : m.sequence \in Nat /\ m.sequence <= exch
    <3>1. ASSUME NEW m \in ToSet(m_messageQueue)
          PROVE  m \in Message /\ Sane(m, exch)
      BY ToSetElements DEF IInv, TypeOK, Bounds, AllSane
    <3> QED
      BY <3>1 DEF Feed, Message, Sane
  <2>7. AllBefore(Feed(m_messageQueue), Feed(wire'))
    BY <2>2, <2>4, <2>6 DEF Ordering, AllBefore, Before
  <2>8. AllBefore(Merged, Feed(m_messageQueue) \cup Feed(wire'))
    BY <2>2, <2>4, <2>5 DEF Ordering, AllBefore, Before
  <2>9. \A m \in Merged : m.sequence <= exch'
    BY <2>1, <2>4, <2>5
  <2> QED
    BY <2>1, <2>2, <2>3, <2>7, <2>8, <2>9 DEF Ordering
<1>2. CASE ReceiveWhileRequesting \/ ReceiveGap \/ ReceiveTooOld \/ ReceiveInOrder
  BY <1>2, OrderingReceives
     DEF ReceiveWhileRequesting, ReceiveGap, ReceiveTooOld, ReceiveInOrder, MayReceive
<1>3. CASE RestRequest
  <2>1. Merged' \subseteq Merged
    <3>1. FullOrderBook(exch).to_merge = <<>>
      BY DEF FullOrderBook, FeedMessage
    <3>2. orderBookMsg' = orderBookMsg \/ orderBookMsg'.to_merge = <<>>
      BY <1>3, <3>1 DEF RestRequest
    <3> QED
      BY <3>2, ToSetEmpty DEF Merged
  <2> QED
    BY <1>3, <2>1, OrderingLess DEF RestRequest, Ordering
<1>4. CASE MergeMessage
  <2> DEFINE h == Head(m_messageQueue)
  <2>1. /\ m_messageQueue # <<>> /\ m_messageQueue' = Tail(m_messageQueue)
        /\ UNCHANGED <<wire, exch>>
    BY <1>4 DEF MergeMessage
  <2>2. /\ h \in Message /\ h.sequence <= exch
        /\ ToSet(m_messageQueue) = {h} \cup ToSet(m_messageQueue')
        /\ InOrder(m_messageQueue')
        /\ h.type # "book" => AllBefore({h}, Feed(m_messageQueue'))
    BY <2>1, Queued
  <2> HIDE DEF h
  <2>3. /\ Feed(m_messageQueue') \subseteq Feed(m_messageQueue)
        /\ h.type # "book" => h \in Feed(m_messageQueue)
    BY <2>2 DEF Feed
  <2>4. CASE orderBookMsg' = orderBookMsg
    <3>1. Merged' = Merged
      BY <2>4 DEF Merged
    <3> QED
      BY <2>1, <2>2, <2>3, <3>1, OrderingLess
  <2>5. ASSUME NEW x \in Item, x.type = h.type, x.sequence = h.sequence, x.type # "book",
               Merged' = Merged \cup {x}
        PROVE  Ordering'
    <3>1. AllBefore({h}, Feed(m_messageQueue') \cup Feed(wire))
      BY <2>2, <2>3, <2>5 DEF Ordering, AllBefore
    <3>2. AllBefore({x}, Feed(m_messageQueue') \cup Feed(wire))
      BY <2>5, <3>1 DEF AllBefore, Before
    <3>3. AllBefore(Merged', Feed(m_messageQueue') \cup Feed(wire))
      BY <2>3, <2>5, <3>2 DEF Ordering, AllBefore
    <3>4. AllBefore(Feed(m_messageQueue'), Feed(wire))
      BY <2>3 DEF Ordering, AllBefore
    <3>5. \A m \in Merged' : m.sequence <= exch
      BY <2>2, <2>5 DEF Ordering
    <3> QED
      BY <2>1, <2>2, <3>3, <3>4, <3>5 DEF Ordering
  <2> QED
    BY <1>4, <2>4, <2>5, Merges DEF h
<1>5. CASE PushOrderBook
  <2>1. /\ m_messageQueue' = <<orderBookMsg>>
        /\ orderBookMsg' = NoBook
        /\ UNCHANGED <<wire, exch>>
    BY <1>5 DEF PushOrderBook
  <2>2. orderBookMsg.type = "book"
    BY <1>5 DEF PushOrderBook, IInv, Control, BookAhead
  <2>3. Feed(m_messageQueue') = {} /\ InOrder(m_messageQueue')
    BY <2>1, <2>2, InOrderShort DEF Feed
  <2>4. NoBook.to_merge = <<>>
    BY DEF NoBook, FullOrderBook, FeedMessage
  <2>5. Merged' = {}
    BY <2>1, <2>4, ToSetEmpty DEF Merged
  <2> QED
    BY <2>1, <2>3, <2>5, OrderingLess
<1>6. CASE LoopTake
  <2>1. UNCHANGED <<wire, exch, orderBookMsg>>
    BY <1>6 DEF LoopTake
  <2>2. m_messageQueue' = m_messageQueue \/ m_messageQueue' = <<>>
    BY <1>6 DEF LoopTake
  <2>3. InOrder(m_messageQueue') /\ Feed(m_messageQueue') \subseteq Feed(m_messageQueue)
    BY <2>2, InOrderShort DEF Feed, Ordering
  <2>4. Merged' = Merged
    BY <2>1 DEF Merged
  <2> QED
    BY <2>1, <2>3, <2>4, OrderingLess
<1>7. ASSUME UNCHANGED <<wire, exch, m_messageQueue, orderBookMsg>>
      PROVE  Ordering'
  <2>1. Merged' = Merged
    BY <1>7 DEF Merged
  <2> QED
    BY <1>7, <2>1, OrderingLess DEF Ordering
<1>8. CASE SubscriptionTakesEffect \/ JoinAndRequest \/ RequestFails \/ RequestTerminates
           \/ BeginMerge \/ RequestReturns \/ LoopCheck \/ LoopHandle \/ Destroy
           \/ DestroyJoinsRequest \/ DestroyJoinsHandler \/ UNCHANGED vars
  BY <1>7, <1>8
     DEF SubscriptionTakesEffect, JoinAndRequest, RequestFails, RequestTerminates,
         BeginMerge, RequestReturns, LoopCheck, LoopHandle, Destroy,
         DestroyJoinsRequest, DestroyJoinsHandler
<1> QED
  BY <1>1, <1>2, <1>3, <1>4, <1>5, <1>6, <1>8
     DEF Next, Exchange, WebsocketThread, RequestThread, MessageThread, Destructor

-----------------------------------------------------------------------------
(***************************************************************************)
(* What is merged.                                                         *)
(***************************************************************************)

\* Every step keeps the order books sound.
LEMMA MergingStep ==
    ASSUME IInv, Ordering, Merging, [Next]_vars
    PROVE  Merging'
<1> USE DEF env, obj, request, loop, output, vars
<1>0. m_messageQueue \in Seq(Message) /\ messages \in Seq(Message) /\ orderBookMsg \in Message
  BY DEF IInv, TypeOK
<1>1. CASE ReceiveWhileRequesting \/ ReceiveInOrder
  <2>1. /\ wire # <<>> /\ m_messageQueue' = Append(m_messageQueue, Head(wire))
        /\ UNCHANGED <<messages, orderBookMsg, response>>
    BY <1>1 DEF ReceiveWhileRequesting, ReceiveInOrder, MayReceive
  <2>2. Head(wire) \in Message /\ Head(wire).type # "book"
    BY <2>1, Received
  <2>3. ToSet(m_messageQueue') = ToSet(m_messageQueue) \cup {Head(wire)}
    BY <1>0, <2>1, <2>2, ToSetAppend
  <2> QED
    BY <2>1, <2>2, <2>3 DEF Merging
<1>2. CASE RestRequest
  <2>1. UNCHANGED <<m_messageQueue, messages>> /\ response # "ok"
    BY <1>2 DEF RestRequest, IInv, Control
  <2>2. CASE response' = "ok" /\ orderBookMsg' = FullOrderBook(exch)
    <3>1. orderBookMsg'.to_merge = <<>> /\ orderBookMsg'.sequence = exch
      BY <2>2 DEF FullOrderBook, FeedMessage
    <3>2. SoundBook(orderBookMsg')
      BY <3>1, InOrderShort DEF SoundBook
    <3>3. \A m \in ToSet(m_messageQueue) : m.sequence <= exch
      <4>1. \A m \in ToSet(m_messageQueue) : Sane(m, exch)
        BY <1>0, ToSetElements DEF IInv, Bounds, AllSane
      <4> QED
        BY <4>1 DEF Sane
    <3> QED
      BY <2>1, <3>1, <3>2, <3>3 DEF Merging
  <2>3. CASE response' \in Unusable /\ orderBookMsg' = orderBookMsg
    <3>1. response' # "ok"
      BY <2>3 DEF Unusable
    <3> QED
      BY <2>1, <2>3, <3>1 DEF Merging
  <2> QED
    BY <1>2, <2>2, <2>3 DEF RestRequest
<1>3. CASE MergeMessage
  <2> DEFINE h == Head(m_messageQueue)
  <2>1. /\ m_messageQueue # <<>> /\ m_messageQueue' = Tail(m_messageQueue)
        /\ UNCHANGED <<messages, response>> /\ response = "ok"
    BY <1>3 DEF MergeMessage, IInv, Control
  <2>2. /\ h \in Message
        /\ ToSet(m_messageQueue) = {h} \cup ToSet(m_messageQueue')
    BY <2>1, Queued
  <2>3. CASE orderBookMsg' = orderBookMsg
    BY <2>1, <2>2, <2>3 DEF Merging
  <2>4. ASSUME NEW x \in Item, Newer(h), x.type = h.type, x.sequence = h.sequence,
               x.type # "book", orderBookMsg'.sequence = orderBookMsg.sequence,
               orderBookMsg'.to_merge = Append(orderBookMsg.to_merge, x),
               Merged' = Merged \cup {x}
        PROVE  Merging'
    <3>1. orderBookMsg.to_merge \in Seq(Item)
      BY <1>0 DEF Message
    <3>2. h \in Feed(m_messageQueue)
      BY <2>2, <2>4 DEF Feed
    <3>3. AllBefore(Feed(orderBookMsg.to_merge), {h})
      BY <3>2 DEF Ordering, AllBefore, Feed, Merged
    <3>4. AllBefore(Feed(orderBookMsg.to_merge), {x})
      BY <2>4, <3>3 DEF AllBefore, Before
    <3>5. InOrder(orderBookMsg'.to_merge)
      <4>1. InOrder(orderBookMsg.to_merge)
        BY DEF Merging, SoundBook
      <4> QED
        BY <2>4, <3>1, <3>4, <4>1, InOrderAppend
    <3>6. x.sequence > orderBookMsg'.sequence
      BY <2>4 DEF Newer
    <3>7. ToSet(orderBookMsg'.to_merge) = ToSet(orderBookMsg.to_merge) \cup {x}
      BY <2>4 DEF Merged
    <3>8. SoundBook(orderBookMsg')
      BY <2>4, <3>5, <3>6, <3>7 DEF Merging, SoundBook
    <3> QED
      BY <2>1, <2>2, <2>4, <3>8 DEF Merging
  <2> QED
    BY <1>3, <2>3, <2>4, Merges
<1>4. CASE PushOrderBook
  <2>1. /\ m_messageQueue' = <<orderBookMsg>> /\ orderBookMsg' = NoBook
        /\ response' = "none" /\ UNCHANGED messages
    BY <1>4 DEF PushOrderBook
  <2>2. ToSet(m_messageQueue') = {orderBookMsg}
    BY <2>1, InOrderShort
  <2>3. NoBook.to_merge = <<>>
    BY DEF NoBook, FullOrderBook, FeedMessage
  <2>4. SoundBook(NoBook)
    BY <2>3, InOrderShort DEF SoundBook
  <2> QED
    BY <2>1, <2>2, <2>3, <2>4 DEF Merging
<1>5. CASE LoopTake
  <2>1. UNCHANGED <<orderBookMsg, response>>
    BY <1>5 DEF LoopTake
  <2>2. \/ UNCHANGED <<messages, m_messageQueue>>
        \/ messages' = m_messageQueue /\ m_messageQueue' = <<>>
    BY <1>5 DEF LoopTake
  <2> QED
    BY <2>1, <2>2, ToSetEmpty DEF Merging
<1>6. CASE LoopHandle
  <2>1. messages # <<>> /\ messages' = Tail(messages)
        /\ UNCHANGED <<orderBookMsg, response, m_messageQueue>>
    BY <1>6 DEF LoopHandle, IInv, Control
  <2>2. ToSet(messages') \subseteq ToSet(messages)
    BY <1>0, <2>1, ToSetTail
  <2> QED
    BY <2>1, <2>2 DEF Merging
<1>7. CASE UNCHANGED <<m_messageQueue, messages, orderBookMsg, response>>
  BY <1>7 DEF Merging
<1>8. CASE ExchangeEmits \/ ReceiveGap \/ ReceiveTooOld \/ SubscriptionTakesEffect
           \/ JoinAndRequest \/ RequestFails \/ RequestTerminates
           \/ BeginMerge \/ RequestReturns \/ LoopCheck \/ Destroy
           \/ DestroyJoinsRequest \/ DestroyJoinsHandler \/ UNCHANGED vars
  BY <1>7, <1>8
     DEF ExchangeEmits, ReceiveGap, ReceiveTooOld, SubscriptionTakesEffect,
         JoinAndRequest, RequestFails, RequestTerminates, BeginMerge, RequestReturns,
         LoopCheck, Destroy, DestroyJoinsRequest, DestroyJoinsHandler
<1> QED
  BY <1>1, <1>2, <1>3, <1>4, <1>5, <1>6, <1>8
     DEF Next, Exchange, WebsocketThread, RequestThread, MessageThread, Destructor

-----------------------------------------------------------------------------
(***************************************************************************)
(* What is accounted for.                                                  *)
(***************************************************************************)

\* A message that was whole stays so when more messages are not sent.
LEMMA WholeLater ==
    ASSUME NEW m, NEW gone, NEW more, gone \subseteq more, Whole(m, gone)
    PROVE  Whole(m, more)
BY DEF Whole

\* The exchange sends one message more, or leaves it out.
LEMMA AccountedEmits ==
    ASSUME IInv, Ordering, Accounted, ExchangeEmits
    PROVE  Accounted'
<1>1. /\ UNCHANGED <<handled, reflected, messages, m_messageQueue, m_requestingOrderbook,
                     m_lastSequenceNumber, response, orderBookMsg>>
      /\ exch' = exch + 1
  BY DEF ExchangeEmits, obj, request, loop, output
<1>2. /\ ToSet(wire) \subseteq ToSet(wire')
      /\ missed \subseteq missed'
      /\ exch + 1 \in missed' \/ Has(ToSet(wire'), exch + 1)
  BY Emitted
<1>3. HolesWereMissed'
  BY <1>1, <1>2 DEF Accounted, HolesWereMissed
<1>4. \A m \in ToSet(messages) : Whole(m, missed')
  BY <1>2, WholeLater DEF Accounted
<1>5. ~m_requestingOrderbook => \A m \in ToSet(m_messageQueue) : Whole(m, missed')
  BY <1>2, WholeLater DEF Accounted
<1>6. exch \in Nat
  BY DEF IInv, TypeOK
<1>7. ASSUME ~m_requestingOrderbook, NEW n \in m_lastSequenceNumber + 1 .. exch + 1
      PROVE  n \in missed' \/ Has(ToSet(wire'), n)
  <2>1. CASE n = exch + 1
    BY <1>2, <2>1
  <2>2. CASE n # exch + 1
    <3>1. n \in m_lastSequenceNumber + 1 .. exch
      BY <1>6, <1>7, <2>2 DEF IInv, TypeOK
    <3>2. n \in missed \/ Has(ToSet(wire), n)
      BY <1>7, <3>1 DEF Accounted
    <3> QED
      BY <1>2, <3>2 DEF Has
  <2> QED
    BY <2>1, <2>2
<1>8. ASSUME response = "ok", NEW n \in orderBookMsg.sequence + 1 .. exch + 1
      PROVE  n \in missed' \/ Has(Merged \cup ToSet(m_messageQueue) \cup ToSet(wire'), n)
  <2>1. CASE n = exch + 1
    BY <1>2, <2>1 DEF Has
  <2>2. CASE n # exch + 1
    <3>1. orderBookMsg.sequence \in Nat
      BY DEF IInv, TypeOK, Message
    <3>2. n \in orderBookMsg.sequence + 1 .. exch
      BY <1>6, <1>8, <2>2, <3>1
    <3>3. n \in missed \/ Has(Merged \cup ToSet(m_messageQueue) \cup ToSet(wire), n)
      BY <1>8, <3>2 DEF Accounted
    <3> QED
      BY <1>2, <3>3 DEF Has
  <2> QED
    BY <2>1, <2>2
<1>9. Merged' = Merged
  BY <1>1 DEF Merged
<1> QED
  BY <1>1, <1>3, <1>4, <1>5, <1>7, <1>8, <1>9 DEF Accounted

\* A message received while no order book is requested is too old to matter, or the
\* next one, or reveals a gap.
LEMMA AccountedReceives ==
    ASSUME IInv, Ordering, Accounted, ReceiveGap \/ ReceiveTooOld \/ ReceiveInOrder
    PROVE  Accounted'
<1> DEFINE h == Head(wire)
<1>1. /\ UNCHANGED <<handled, reflected, missed, messages, exch, response>>
      /\ ~m_requestingOrderbook /\ wire # <<>> /\ wire' = Tail(wire)
  BY DEF ReceiveGap, ReceiveTooOld, ReceiveInOrder, MayReceive, request, loop, output
<1>2. response # "ok"
  BY <1>1 DEF IInv, Control
<1>3. /\ h \in Message /\ h.type # "book" /\ h.sequence <= exch
      /\ ToSet(wire) = {h} \cup ToSet(wire')
      /\ AllBefore({h}, Feed(wire'))
      /\ \A m \in ToSet(wire) : m.type # "book"
  BY <1>1, Received
<1>4. h.sequence \in Nat /\ m_lastSequenceNumber \in Nat /\ exch \in Nat
  BY <1>3 DEF IInv, TypeOK, Message
<1>5. HolesWereMissed' /\ \A m \in ToSet(messages') : Whole(m, missed')
  BY <1>1 DEF Accounted, HolesWereMissed
<1>6. CASE ReceiveGap
  <2>1. m_requestingOrderbook'
    BY <1>6 DEF ReceiveGap
  <2> QED
    BY <1>1, <1>2, <1>5, <2>1 DEF Accounted
<1>7. ASSUME NEW l \in Nat, h.sequence <= l, m_lastSequenceNumber <= l,
             NEW n \in l + 1 .. exch
      PROVE  n \in missed \/ Has(ToSet(wire'), n)
  <2>1. n \in m_lastSequenceNumber + 1 .. exch /\ n # h.sequence
    BY <1>4, <1>7
  <2>2. n \in missed \/ Has(ToSet(wire), n)
    BY <1>1, <2>1 DEF Accounted
  <2> QED
    BY <1>3, <2>1, <2>2 DEF Has
<1>8. CASE ReceiveTooOld
  <2>1. /\ UNCHANGED <<m_lastSequenceNumber, m_requestingOrderbook, m_messageQueue>>
        /\ h.sequence <= m_lastSequenceNumber
    BY <1>8 DEF ReceiveTooOld, TooOld, obj
  <2>2. \A n \in m_lastSequenceNumber + 1 .. exch : n \in missed \/ Has(ToSet(wire'), n)
    BY <1>4, <1>7, <2>1
  <2> QED
    BY <1>1, <1>2, <1>5, <2>1, <2>2 DEF Accounted
<1>9. CASE ReceiveInOrder
  <2>1. /\ m_lastSequenceNumber' = h.sequence
        /\ m_messageQueue' = Append(m_messageQueue, h)
        /\ h.sequence = m_lastSequenceNumber + 1
    BY <1>4, <1>9 DEF ReceiveInOrder, Gap, TooOld
  <2>2. \A n \in h.sequence + 1 .. exch : n \in missed \/ Has(ToSet(wire'), n)
    BY <1>4, <1>7, <2>1
  <2>3. Whole(h, missed)
    <3>1. h.type \in {"full", "echo"}
      BY <1>3 DEF Message
    <3>2. CASE h.type = "full"
      BY <3>2 DEF Whole
    <3>3. CASE h.type = "echo"
      <4>1. h.sequence \in m_lastSequenceNumber + 1 .. exch
        BY <1>3, <1>4, <2>1
      <4>2. h.sequence \in missed \/ Has(ToSet(wire), h.sequence)
        BY <1>1, <4>1 DEF Accounted
      <4>3. ASSUME NEW m \in ToSet(wire), m.type = "full", m.sequence = h.sequence
            PROVE  FALSE
        <5>1. m \in Feed(wire')
          BY <1>3, <3>3, <4>3 DEF Feed
        <5>2. Before(h, m)
          BY <1>3, <5>1 DEF AllBefore
        <5> QED
          BY <4>3, <5>2 DEF Before
      <4>4. h.sequence \in missed
        BY <4>2, <4>3 DEF Has
      <4> QED
        BY <3>3, <4>4 DEF Whole
    <3> QED
      BY <3>1, <3>2, <3>3
  <2>4. ToSet(m_messageQueue') = ToSet(m_messageQueue) \cup {h}
    BY <1>3, <2>1, ToSetAppend DEF IInv, TypeOK
  <2>5. \A m \in ToSet(m_messageQueue') : Whole(m, missed)
    BY <1>1, <2>3, <2>4 DEF Accounted
  <2> QED
    BY <1>1, <1>2, <1>5, <2>1, <2>2, <2>5 DEF Accounted
<1> QED
  BY <1>6, <1>8, <1>9

\* A message received while an order book is requested waits for it.
LEMMA AccountedWaits ==
    ASSUME IInv, Ordering, Accounted, ReceiveWhileRequesting
    PROVE  Accounted'
<1>1. /\ UNCHANGED <<handled, reflected, missed, messages, exch, response, orderBookMsg,
                     m_requestingOrderbook>>
      /\ m_requestingOrderbook /\ wire # <<>> /\ wire' = Tail(wire)
      /\ m_messageQueue' = Append(m_messageQueue, Head(wire))
  BY DEF ReceiveWhileRequesting, MayReceive, request, loop, output
<1>2. Head(wire) \in Message /\ ToSet(wire) = {Head(wire)} \cup ToSet(wire')
  BY <1>1, Received
<1>3. ToSet(m_messageQueue') = ToSet(m_messageQueue) \cup {Head(wire)}
  BY <1>1, <1>2, ToSetAppend DEF IInv, TypeOK
<1>4. ToSet(m_messageQueue') \cup ToSet(wire') = ToSet(m_messageQueue) \cup ToSet(wire)
  BY <1>2, <1>3
<1>5. Merged' = Merged
  BY <1>1 DEF Merged
<1>6. HolesWereMissed'
  BY <1>1 DEF Accounted, HolesWereMissed
<1>7. Merged \cup ToSet(m_messageQueue') \cup ToSet(wire') =
        Merged \cup ToSet(m_messageQueue) \cup ToSet(wire)
  BY <1>4
<1> QED
  BY <1>1, <1>5, <1>6, <1>7 DEF Accounted

\* A message taken off the queue is in the order book, one way or the other.
LEMMA AccountedMerges ==
    ASSUME IInv, Ordering, Merging, Accounted, MergeMessage
    PROVE  Accounted'
<1> DEFINE h == Head(m_messageQueue)
<1>1. /\ UNCHANGED <<handled, reflected, missed, messages, exch, response, wire,
                     m_requestingOrderbook>>
      /\ m_messageQueue # <<>> /\ m_messageQueue' = Tail(m_messageQueue)
      /\ m_requestingOrderbook /\ response = "ok"
  BY DEF MergeMessage, env, loop, output, IInv, Control, TypeOK
<1>2. h \in Message /\ ToSet(m_messageQueue) = {h} \cup ToSet(m_messageQueue')
  BY <1>1, Queued
<1>3. HolesWereMissed'
  BY <1>1 DEF Accounted, HolesWereMissed
<1>4. orderBookMsg'.sequence = orderBookMsg.sequence /\ Merged \subseteq Merged'
  <2>1. orderBookMsg' = orderBookMsg => Merged' = Merged
    BY DEF Merged
  <2> QED
    BY <2>1, Merges
<1>5. ASSUME NEW n \in orderBookMsg.sequence + 1 .. exch
      PROVE  n \in missed \/ Has(Merged' \cup ToSet(m_messageQueue') \cup ToSet(wire), n)
  <2>1. n \in missed \/ Has(Merged \cup ToSet(m_messageQueue) \cup ToSet(wire), n)
    BY <1>1 DEF Accounted
  <2>2. ASSUME h.type = "full", h.sequence = n
        PROVE  Has(Merged', n)
    <3>1. orderBookMsg.sequence \in Nat /\ exch \in Nat
      BY DEF IInv, TypeOK, Message
    <3>2. Newer(h)
      BY <1>5, <2>2, <3>1 DEF Newer
    <3> QED
      BY <2>2, <3>2, Merges DEF Has
  <2> QED
    BY <1>2, <1>4, <2>1, <2>2 DEF Has
<1> QED
  BY <1>1, <1>3, <1>4, <1>5 DEF Accounted

\* The order book that is stored covers everything up to its end, and what comes
\* after that is still on the wire.
LEMMA AccountedPushes ==
    ASSUME IInv, Ordering, Merging, Accounted, PushOrderBook
    PROVE  Accounted'
<1> DEFINE b == orderBookMsg
<1>1. /\ UNCHANGED <<handled, reflected, missed, messages, exch, wire,
                     m_lastSequenceNumber>>
      /\ m_messageQueue = <<>> /\ m_messageQueue' = <<b>>
      /\ response = "ok" /\ response' = "none" /\ reqPc = "merge"
  BY DEF PushOrderBook, env, loop, output, IInv, Control
<1>2. /\ b \in Message /\ b.type = "book" /\ SoundBook(b)
      /\ m_lastSequenceNumber = End(b) /\ b.sequence <= End(b) /\ End(b) <= exch
  BY <1>1 DEF IInv, TypeOK, BookAhead, Merging
<1>3. b.sequence \in Nat /\ End(b) \in Nat /\ exch \in Nat
  BY <1>2, EndType DEF IInv, TypeOK, Message
<1>4. /\ \A m \in Merged : m.sequence <= End(b)
      /\ End(b) # b.sequence => \E m \in Merged : m.sequence = End(b)
  BY <1>2, SoundEnd DEF Merged
<1>5. \A n \in b.sequence + 1 .. exch : n \in missed \/ Has(Merged \cup ToSet(wire), n)
  <2>1. Merged \cup ToSet(m_messageQueue) \cup ToSet(wire) = Merged \cup ToSet(wire)
    BY <1>1, ToSetEmpty
  <2> QED
    BY <1>1, <2>1 DEF Accounted
<1>6. \A m \in ToSet(wire) : m \in Feed(wire)
  BY ToSetElements DEF IInv, TypeOK, Bounds, AllFeed, Feed
<1>7. ASSUME NEW n \in b.sequence + 1 .. End(b)
      PROVE  n \in missed \/ Has(Merged, n)
  <2>1. n \in b.sequence + 1 .. exch /\ End(b) # b.sequence
    BY <1>2, <1>3, <1>7
  <2>2. PICK k \in Merged : k.sequence = End(b)
    BY <1>4, <2>1
  <2>3. ASSUME NEW m \in ToSet(wire), m.type = "full", m.sequence = n
        PROVE  FALSE
    <3>1. Before(k, m)
      BY <1>6 DEF Ordering, AllBefore
    <3>2. End(b) <= n /\ End(b) # n
      BY <2>2, <2>3, <3>1 DEF Before
    <3> QED
      BY <1>3, <1>7, <3>2
  <2> QED
    BY <1>5, <2>1, <2>3 DEF Has
<1>8. Whole(b, missed)
  BY <1>2, <1>7 DEF Whole, Merged
<1>9. ASSUME NEW n \in End(b) + 1 .. exch
      PROVE  n \in missed \/ Has(ToSet(wire), n)
  <2>1. n \in b.sequence + 1 .. exch
    BY <1>2, <1>3, <1>9
  <2>2. ASSUME NEW m \in Merged, m.sequence = n
        PROVE  FALSE
    <3>1. n <= End(b)
      BY <1>4, <2>2
    <3> QED
      BY <1>3, <1>9, <3>1
  <2> QED
    BY <1>5, <2>1, <2>2 DEF Has
<1>10. ToSet(m_messageQueue') = {b}
  BY <1>1, InOrderShort
<1>11. HolesWereMissed'
  BY <1>1 DEF Accounted, HolesWereMissed
<1> HIDE DEF b
<1> QED
  BY <1>1, <1>2, <1>8, <1>9, <1>10, <1>11 DEF Accounted

\* The listener is taken past nothing that was sent.
LEMMA AccountedHandles ==
    ASSUME IInv, Merging, Accounted, LoopHandle
    PROVE  Accounted'
<1> DEFINE h == Head(messages)
<1>1. /\ UNCHANGED <<missed, exch, wire, m_messageQueue, m_requestingOrderbook,
                     m_lastSequenceNumber, response, orderBookMsg>>
      /\ messages # <<>> /\ messages' = Tail(messages)
      /\ handled' = End(h)
      /\ reflected' = GetProductChange(h, reflected)
  BY DEF LoopHandle, env, obj, request, IInv, Control
<1>2. h \in Message /\ ToSet(messages) = {h} \cup ToSet(messages')
  BY <1>1, ToSetTail DEF IInv, TypeOK
<1>3. Follows(handled, h) /\ Sane(h, exch)
  BY <1>1, ChainHead, SaneHead DEF IInv, TypeOK, Chained, Bounds
<1>4. Whole(h, missed)
  BY <1>2 DEF Accounted
<1>5. /\ h.type \in {"full", "echo", "book"} /\ h.sequence \in Nat
      /\ h.to_merge \in Seq(Item) /\ End(h) \in Nat /\ handled \in Nat
  BY <1>2, EndType DEF Message, IInv, TypeOK
<1>6. ASSUME NEW n \in 1 .. End(h)
      PROVE  n \in GetProductChange(h, reflected) \/ n \in missed
  <2>1. CASE h.type = "book"
    <3>1. CASE n <= h.sequence
      BY <1>5, <1>6, <2>1, <3>1 DEF GetProductChange
    <3>2. CASE ~(n <= h.sequence)
      <4>1. n \in h.sequence + 1 .. End(h)
        BY <1>5, <1>6, <3>2
      <4>2. n \in missed \/ Has(ToSet(h.to_merge), n)
        BY <1>4, <2>1, <4>1 DEF Whole
      <4>3. ASSUME NEW m \in ToSet(h.to_merge), m.type = "full", m.sequence = n
            PROVE  n \in GetProductChange(h, reflected)
        <5>1. PICK i \in 1 .. Len(h.to_merge) : h.to_merge[i] = m
          BY <1>5, ToSetElements
        <5> QED
          BY <2>1, <4>3, <5>1 DEF GetProductChange
      <4> QED
        BY <4>2, <4>3 DEF Has
    <3> QED
      BY <3>1, <3>2
  <2>2. CASE h.type # "book"
    <3>1. h.to_merge = <<>> /\ End(h) = handled + 1
      BY <1>3, <2>2 DEF Follows, Sane
    <3>2. End(h) = h.sequence
      BY <3>1 DEF End
    <3>3. CASE n = h.sequence
      <4>1. CASE h.type = "full"
        BY <3>3, <4>1 DEF GetProductChange
      <4>2. CASE h.type = "echo"
        BY <1>4, <3>3, <4>2 DEF Whole
      <4> QED
        BY <1>5, <2>2, <4>1, <4>2
    <3>4. CASE n # h.sequence
      <4>1. n \in 1 .. handled
        BY <1>5, <1>6, <3>1, <3>2, <3>4
      <4>2. n \in reflected \/ n \in missed
        BY <4>1 DEF Accounted, HolesWereMissed
      <4>3. reflected \subseteq GetProductChange(h, reflected)
        BY <1>5, <2>2 DEF GetProductChange
      <4> QED
        BY <4>2, <4>3
    <3> QED
      BY <3>3, <3>4
  <2> QED
    BY <2>1, <2>2
<1>7. HolesWereMissed'
  BY <1>1, <1>6 DEF HolesWereMissed
<1>8. Merged' = Merged
  BY <1>1 DEF Merged
<1>9. \A m \in ToSet(messages') : Whole(m, missed)
  BY <1>2 DEF Accounted
<1> QED
  BY <1>1, <1>7, <1>8, <1>9 DEF Accounted

\* Every step keeps every message accounted for.
LEMMA AccountedStep ==
    ASSUME IInv, Ordering, Merging, Accounted, [Next]_vars
    PROVE  Accounted'
<1> USE DEF env, obj, request, loop, output, vars
<1>1. CASE RestRequest
  <2>1. /\ UNCHANGED <<handled, reflected, missed, messages, exch, wire, m_messageQueue>>
        /\ m_requestingOrderbook /\ m_requestingOrderbook'
    BY <1>1 DEF RestRequest, IInv, Control
  <2>2. HolesWereMissed'
    BY <2>1 DEF Accounted, HolesWereMissed
  <2>3. ASSUME response' = "ok"
        PROVE  orderBookMsg'.sequence = exch
    <3>1. orderBookMsg' = FullOrderBook(exch)
      BY <1>1, <2>3 DEF RestRequest, Unusable
    <3> QED
      BY <3>1 DEF FullOrderBook, FeedMessage
  <2>4. exch \in Nat
    BY DEF IInv, TypeOK
  <2>5. exch + 1 .. exch = {}
    BY <2>4
  <2> QED
    BY <2>1, <2>2, <2>3, <2>5 DEF Accounted
<1>2. CASE LoopTake
  <2>1. UNCHANGED <<handled, reflected, missed, exch, wire, m_requestingOrderbook,
                    m_lastSequenceNumber, response, orderBookMsg>>
    BY <1>2 DEF LoopTake
  <2>2. \/ UNCHANGED <<messages, m_messageQueue>>
        \/ /\ messages' = m_messageQueue /\ m_messageQueue' = <<>>
           /\ ~m_requestingOrderbook
    BY <1>2 DEF LoopTake, MayTake
  <2>3. HolesWereMissed' /\ Merged' = Merged
    BY <2>1 DEF Accounted, HolesWereMissed, Merged
  <2>4. ~m_requestingOrderbook => response # "ok"
    BY DEF IInv, Control
  <2> QED
    BY <2>1, <2>2, <2>3, <2>4, ToSetEmpty DEF Accounted
<1>3. CASE BeginMerge
  <2>1. /\ UNCHANGED <<handled, reflected, missed, messages, exch, wire, m_messageQueue,
                       m_requestingOrderbook, response, orderBookMsg>>
        /\ m_requestingOrderbook
    BY <1>3 DEF BeginMerge, IInv, Control
  <2>2. HolesWereMissed' /\ Merged' = Merged
    BY <2>1 DEF Accounted, HolesWereMissed, Merged
  <2> QED
    BY <2>1, <2>2 DEF Accounted
<1>4. ASSUME UNCHANGED <<handled, reflected, missed, messages, exch, wire, m_messageQueue,
                         m_requestingOrderbook, m_lastSequenceNumber, response,
                         orderBookMsg>>
      PROVE  Accounted'
  <2>1. HolesWereMissed' /\ Merged' = Merged
    BY <1>4 DEF Accounted, HolesWereMissed, Merged
  <2> QED
    BY <1>4, <2>1 DEF Accounted
<1>5. CASE SubscriptionTakesEffect \/ JoinAndRequest \/ RequestFails \/ RequestTerminates
           \/ RequestReturns \/ LoopCheck \/ Destroy \/ DestroyJoinsRequest
           \/ DestroyJoinsHandler \/ UNCHANGED vars
  BY <1>4, <1>5
     DEF SubscriptionTakesEffect, JoinAndRequest, RequestFails, RequestTerminates,
         RequestReturns, LoopCheck, Destroy, DestroyJoinsRequest, DestroyJoinsHandler
<1> QED
  BY <1>1, <1>2, <1>3, <1>5, AccountedEmits, AccountedReceives, AccountedWaits,
     AccountedMerges, AccountedPushes, AccountedHandles
     DEF Next, Exchange, WebsocketThread, RequestThread, MessageThread, Destructor

-----------------------------------------------------------------------------
(***************************************************************************)
(* The theorems.                                                           *)
(***************************************************************************)

\* The invariant holds after the constructor.
LEMMA HolesInit ==
    ASSUME Init
    PROVE  HolesInv
<1>1. /\ wire = <<>> /\ m_messageQueue = <<>> /\ messages = <<>>
      /\ orderBookMsg.to_merge = <<>> /\ response = "none"
      /\ m_requestingOrderbook = TRUE
  BY DEF Init, NoBook, FullOrderBook, FeedMessage
<1>2. /\ ToSet(wire) = {} /\ ToSet(m_messageQueue) = {} /\ ToSet(messages) = {}
      /\ Merged = {} /\ ToSet(orderBookMsg.to_merge) = {}
      /\ InOrder(wire) /\ InOrder(m_messageQueue) /\ InOrder(orderBookMsg.to_merge)
  BY <1>1, InOrderShort DEF Merged
<1>3. Ordering
  BY <1>2 DEF Ordering, AllBefore, Feed
<1>4. Merging
  BY <1>1, <1>2 DEF Merging, SoundBook
<1>5. HolesWereMissed
  BY DEF Init, HolesWereMissed
<1>6. Accounted
  BY <1>1, <1>2, <1>5 DEF Accounted
<1> QED
  BY <1>3, <1>4, <1>6, IInvInit DEF HolesInv

\* The invariant holds throughout.
LEMMA HolesInvariant == Spec => []HolesInv
<1>1. Init => HolesInv
  BY HolesInit
<1>2. HolesInv /\ [Next]_vars => HolesInv'
  BY IInvStep, OrderingStep, MergingStep, AccountedStep DEF HolesInv
<1> QED
  BY <1>1, <1>2, PTL DEF Spec

\* requestFullOrderBookImpl merges only feed messages newer than the order book,
\* in order, and never an order book left in the queue by the gap, whatever the
\* exchange sends, drops and repeats.
THEOREM MergesAreSound == Spec => []MergeSound
<1>1. HolesInv => MergeSound
  <2> SUFFICES ASSUME HolesInv, NEW b \in Books, NEW i \in 1 .. Len(b.to_merge)
               PROVE  /\ b.to_merge[i].type # "book"
                      /\ b.to_merge[i].sequence > b.sequence
                      /\ i > 1 => b.to_merge[i - 1].sequence <= b.to_merge[i].sequence
    BY DEF MergeSound
  <2>1. b \in Message /\ SoundBook(b)
    <3>1. CASE b = orderBookMsg
      BY <3>1 DEF HolesInv, Merging, IInv, TypeOK
    <3>2. CASE b \in ToSet(m_messageQueue) \cup ToSet(messages) /\ b.type = "book"
      BY <3>2, ToSetElements DEF HolesInv, Merging, IInv, TypeOK
    <3>3. m_messageQueue \in Seq(Message) /\ messages \in Seq(Message)
      BY DEF HolesInv, IInv, TypeOK
    <3> QED
      BY <3>1, <3>2, <3>3, ToSetElements DEF Books
  <2>2. b.to_merge \in Seq(Item)
    BY <2>1 DEF Message
  <2>3. b.to_merge[i] \in ToSet(b.to_merge)
    BY <2>2, ToSetElements
  <2>4. ASSUME i > 1
        PROVE  b.to_merge[i - 1].sequence <= b.to_merge[i].sequence
    <3>1. i - 1 \in 1 .. Len(b.to_merge) /\ i - 1 < i
      BY <2>2, <2>4
    <3>2. b.to_merge[i - 1] \in ToSet(b.to_merge)
      BY <2>2, <3>1, ToSetElements
    <3>3. Before(b.to_merge[i - 1], b.to_merge[i])
      BY <2>1, <2>3, <3>1, <3>2 DEF SoundBook, InOrder
    <3> QED
      BY <3>3 DEF Before
  <2> QED
    BY <2>1, <2>3, <2>4 DEF SoundBook
<1> QED
  BY <1>1, HolesInvariant, PTL

\* A sequence number that the listener has gone past without reflecting it was
\* never put on the wire: over any number of gaps and requests, neither
\* onMessageReceived nor requestFullOrderBookImpl loses a message.
THEOREM NothingIsLost == Spec => []HolesWereMissed
<1>1. HolesInv => HolesWereMissed
  BY DEF HolesInv, Accounted
<1> QED
  BY <1>1, HolesInvariant, PTL
=============================================================================
