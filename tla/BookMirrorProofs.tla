-------------------------- MODULE BookMirrorProofs --------------------------
(***************************************************************************)
(* Proofs about BookMirror, for any orders and sizes, any number of merged *)
(* messages and of changes in a batch, and either meaning of a match's     *)
(* side:                                                                   *)
(*   BookTypes         the type invariant; an order stays on its side;     *)
(*   LiveAreMirrored   an open order is in the book, never too small;      *)
(*   OrdersListedOnce  no order is in the book twice or with a negative    *)
(*                     size;                                               *)
(*   StaleAreClosed    an order the exchange does not have was closed      *)
(*                     after the last snapshot.                            *)
(* The last three except the orders that a batch applied in reverse may    *)
(* have spoilt since the last full order book.                             *)
(***************************************************************************)
EXTENDS BookMirror, SequenceFacts, FiniteSetTheorems

-----------------------------------------------------------------------------
(***************************************************************************)
(* Books, messages, and what a book shows of an order.                     *)
(***************************************************************************)
BookOrder == [order_id : Orders, size : Int]

Books == [m_bids : Seq(BookOrder), m_asks : Seq(BookOrder)]

\* The messages of the exchange, with the side of the order they are about.
OrderMessages ==
    {pc \in [type : {"open", "change"}, order_id : Orders, size : Nat, side : Side]
             \cup [type : {"done"}, order_id : Orders, side : Side] :
        pc.side = OrderSide[pc.order_id]}

MatchMessages ==
    {pc \in [type : {"match"}, maker : Orders, taker : Orders, size : Nat, side : Side] :
        /\ OrderSide[pc.taker] # OrderSide[pc.maker]
        /\ pc.side = IF MatchSide = "maker" THEN OrderSide[pc.maker]
                                            ELSE OrderSide[pc.taker]}

Messages == OrderMessages \cup MatchMessages

\* The book with one side written, and a side with an order erased.
Written(b, side, v) == [b EXCEPT ![VectorOf(side)] = v]

Erased(v, o) == RemoveFirstMatch(v, LAMBDA x : x.order_id = o)

\* Every order of the book is on its own side.
Fits(b) ==
    /\ b \in Books
    /\ \A side \in Side : \A i \in 1 .. Len(On(b, side)) :
         OrderSide[On(b, side)[i].order_id] = side

FitBooks == {b \in Books : Fits(b)}

\* The full order books, and all that Market may have in its queue.
Resets ==
    {pc \in [type : {"reset"}, bids : Seq(BookOrder), asks : Seq(BookOrder),
             toMerge : Seq(Messages)] :
        InitBook(EmptyBook, pc.bids, pc.asks) \in FitBooks}

Changes == Messages \cup Resets

\* What the book shows of an order: whether it is there, the size that
\* matchOrders would find, and whether it is there only once.
Own(b, o) == On(b, OrderSide[o])

Listed(b, o) == Find(Own(b, o), o) # 0

SizeOf(b, o) == Own(b, o)[Find(Own(b, o), o)].size

Once(b, o) ==
    \A i, j \in 1 .. Len(Own(b, o)) :
        Own(b, o)[i].order_id = o /\ Own(b, o)[j].order_id = o => i = j

\* The two books show the same of the order, but for n more in the second.
Less(a, b, o, n) ==
    /\ Listed(a, o) <=> Listed(b, o)
    /\ Listed(b, o) => SizeOf(a, o) = SizeOf(b, o) - n
    /\ Once(a, o) <=> Once(b, o)
    /\ n # 0 => Listed(b, o)

-----------------------------------------------------------------------------
(***************************************************************************)
(* The operations of OrderBook on any book.                                *)
(***************************************************************************)

\* The two sides.
LEMMA Sides ==
    ASSUME NEW side \in Side
    PROVE  /\ Opposite(side) \in Side
           /\ Opposite(side) # side
           /\ Opposite(Opposite(side)) = side
           /\ \A other \in Side : other = side \/ other = Opposite(side)
BY DEF Side, Opposite

\* Writing one side of a book leaves the other alone.
LEMMA WriteSide ==
    ASSUME NEW b \in Books, NEW side \in Side, NEW v \in Seq(BookOrder)
    PROVE  /\ Written(b, side, v) \in Books
           /\ On(Written(b, side, v), side) = v
           /\ On(Written(b, side, v), Opposite(side)) = On(b, Opposite(side))
           /\ v = On(b, side) => Written(b, side, v) = b
<1>1. CASE side = "Buy"
  BY <1>1 DEF Books, VectorOf, Opposite, On, Written
<1>2. CASE side = "Sell"
  BY <1>2 DEF Books, VectorOf, Opposite, On, Written
<1> QED
  BY <1>1, <1>2 DEF Side

\* The sides of a book are sequences of orders.
LEMMA SideTypes ==
    ASSUME NEW b \in Books, NEW side \in Side
    PROVE  /\ On(b, side) \in Seq(BookOrder)
           /\ Len(On(b, side)) \in Nat
           /\ \A i \in 1 .. Len(On(b, side)) : /\ On(b, side)[i] \in BookOrder
                                               /\ On(b, side)[i].order_id \in Orders
                                               /\ On(b, side)[i].size \in Int
<1>1. On(b, side) \in Seq(BookOrder)
  BY DEF Books, VectorOf, On, Side
<1>2. \A i \in 1 .. Len(On(b, side)) : On(b, side)[i] \in BookOrder
  BY <1>1
<1> QED
  BY <1>1, <1>2 DEF BookOrder

\* std::find_if finds the first order of the id if there is one.
LEMMA FindFirst ==
    ASSUME NEW v \in Seq(BookOrder), NEW o
    PROVE  /\ Find(v, o) \in 0 .. Len(v)
           /\ Find(v, o) # 0 => v[Find(v, o)].order_id = o
           /\ Find(v, o) = 0 <=> \A i \in 1 .. Len(v) : v[i].order_id # o
           /\ \A i \in 1 .. Len(v) : v[i].order_id = o => Find(v, o) <= i
<1> DEFINE I == {i \in 1 .. Len(v) : v[i].order_id = o}
<1>1. Find(v, o) = IF I # {} THEN Min(I) ELSE 0
  BY DEF Find, SelectInSeq
<1>2. I \in SUBSET Nat
  OBVIOUS
<1>3. I # {} => Min(I) \in I /\ \A k \in I : Min(I) <= k
  <2> HIDE DEF I
  <2>1. I # {} => \E m \in I : \A k \in I : m <= k
    BY <1>2, LeastElement
  <2> QED
    BY <2>1 DEF Min
<1>4. Len(v) \in Nat
  OBVIOUS
<1> QED
  BY <1>1, <1>3, <1>4

\* An order that is found first at a place is found there.
LEMMA FoundAt ==
    ASSUME NEW v \in Seq(BookOrder), NEW o, NEW k \in 1 .. Len(v), v[k].order_id = o,
           \A i \in 1 .. Len(v) : v[i].order_id = o => k <= i
    PROVE  Find(v, o) = k
<1>1. Find(v, o) \in 0 .. Len(v) /\ Find(v, o) # 0
  BY FindFirst
<1>2. v[Find(v, o)].order_id = o /\ Find(v, o) <= k
  BY <1>1, FindFirst
<1> QED
  BY <1>1, <1>2

\* A side is written at the order that was found, if at all.
LEMMA WrittenTypes ==
    ASSUME NEW v \in Seq(BookOrder), NEW o, NEW n \in Int, Find(v, o) # 0
    PROVE  /\ WithSize(v, o, n) \in Seq(BookOrder)
           /\ Reduced(v, o, n) \in Seq(BookOrder)
<1>1. Find(v, o) \in 1 .. Len(v)
  BY FindFirst
<1>2. v[Find(v, o)] \in BookOrder
  BY <1>1
<1>3. /\ [v[Find(v, o)] EXCEPT !.size = n] \in BookOrder
      /\ [v[Find(v, o)] EXCEPT !.size = @ - n] \in BookOrder
  <2> DEFINE x == v[Find(v, o)]
  <2>1. x \in BookOrder
    BY <1>2
  <2> HIDE DEF x
  <2>2. [x EXCEPT !.size = n] \in BookOrder /\ [x EXCEPT !.size = x.size - n] \in BookOrder
    BY <2>1 DEF BookOrder
  <2> QED
    BY <2>2 DEF x
<1> QED
  BY <1>1, <1>3 DEF WithSize, Reduced

\* Erasing an order leaves a sequence of orders; without it, nothing happens.
LEMMA ErasedTypes ==
    ASSUME NEW v \in Seq(BookOrder), NEW o
    PROVE  /\ Erased(v, o) \in Seq(BookOrder)
           /\ Find(v, o) = 0 => Erased(v, o) = v
<1> DEFINE k == Find(v, o)
           w == Erased(v, o)
<1>1. w = IF \E i \in 1 .. Len(v) : v[i].order_id = o THEN RemoveAt(v, k) ELSE v
  BY DEF Erased, RemoveFirstMatch, Find
<1>2. k \in 0 .. Len(v) /\ (k = 0 <=> \A i \in 1 .. Len(v) : v[i].order_id # o)
  BY FindFirst
<1> HIDE DEF k
<1>3. ASSUME k # 0
      PROVE  RemoveAt(v, k) \in Seq(BookOrder)
  <2>1. k \in 1 .. Len(v) /\ Len(v) \in Nat
    BY <1>2, <1>3
  <2>2. SubSeq(v, 1, k - 1) \in Seq(BookOrder)
    BY <2>1
  <2>3. SubSeq(v, k + 1, Len(v)) \in Seq(BookOrder)
    BY <2>1
  <2> QED
    BY <2>2, <2>3 DEF RemoveAt
<1> HIDE DEF w
<1> QED
  BY <1>1, <1>2, <1>3 DEF k, w

\* A side with an order at its end, and where the orders are found on it.
AppendedSide(w, v, x, o) ==
    /\ w \in Seq(BookOrder) /\ Len(w) = Len(v) + 1 /\ w[Len(v) + 1] = x
    /\ \A i \in 1 .. Len(v) : w[i] = v[i]
    /\ Find(v, o) # 0 => Find(w, o) = Find(v, o) /\ w[Find(v, o)] = v[Find(v, o)]
    /\ Find(v, o) = 0 /\ x.order_id = o => Find(w, o) = Len(v) + 1
    /\ Find(v, o) = 0 /\ x.order_id # o => Find(w, o) = 0

\* addOrder puts an order behind the ones that are there.
LEMMA AppendedFind ==
    ASSUME NEW v \in Seq(BookOrder), NEW x \in BookOrder, NEW o
    PROVE  AppendedSide(Append(v, x), v, x, o)
<1> DEFINE w == Append(v, x)
<1>1. /\ w \in Seq(BookOrder) /\ Len(w) = Len(v) + 1 /\ w[Len(v) + 1] = x
      /\ Len(v) \in Nat /\ \A i \in 1 .. Len(v) : w[i] = v[i]
  OBVIOUS
<1> HIDE DEF w
<1>2. \A i \in 1 .. Len(w) : i \in 1 .. Len(v) \/ i = Len(v) + 1
  BY <1>1
<1>3. CASE Find(v, o) # 0
  <2> DEFINE k == Find(v, o)
  <2>1. /\ k \in 1 .. Len(v) /\ v[k].order_id = o
        /\ \A i \in 1 .. Len(v) : v[i].order_id = o => k <= i
    BY <1>3, FindFirst
  <2> HIDE DEF k
  <2>2. k \in 1 .. Len(w) /\ w[k] = v[k]
    BY <1>1, <2>1
  <2>3. \A i \in 1 .. Len(w) : w[i].order_id = o => k <= i
    BY <1>1, <1>2, <2>1
  <2>4. Find(w, o) = k
    <3>1. w \in Seq(BookOrder)
      BY <1>1
    <3>2. w[k].order_id = o
      BY <2>1, <2>2
    <3>3. k \in 1 .. Len(w)
      BY <2>2
    <3> QED
      BY <2>3, <3>1, <3>2, <3>3, FoundAt
  <2> QED
    BY <1>1, <1>3, <2>2, <2>4 DEF k, w, AppendedSide
<1>4. CASE Find(v, o) = 0
  <2>1. \A i \in 1 .. Len(v) : v[i].order_id # o
    BY <1>4, FindFirst
  <2>2. CASE x.order_id = o
    <3>1. \A i \in 1 .. Len(w) : w[i].order_id = o => Len(v) + 1 <= i
      BY <1>1, <1>2, <2>1
    <3>2. Find(w, o) = Len(v) + 1
      <4> DEFINE k == Len(v) + 1
      <4>1. k \in 1 .. Len(w) /\ w[k].order_id = o /\ \A i \in 1 .. Len(w) : w[i].order_id = o => k <= i
        BY <1>1, <2>2, <3>1
      <4> HIDE DEF k
      <4>2. Find(w, o) = k
        BY <1>1, <4>1, FoundAt
      <4> QED
        BY <4>2 DEF k
    <3> QED
      BY <1>1, <1>4, <2>2, <3>2 DEF w, AppendedSide
  <2>3. CASE x.order_id # o
    <3>1. \A i \in 1 .. Len(w) : w[i].order_id # o
      BY <1>1, <1>2, <2>1, <2>3
    <3>2. Find(w, o) = 0
      BY <1>1, <3>1, FindFirst
    <3> QED
      BY <1>1, <1>4, <2>3, <3>2 DEF w, AppendedSide
  <2> QED
    BY <2>2, <2>3
<1> QED
  BY <1>3, <1>4

\* A side on which one size was reduced, at the first order of the id.
ReducedSide(w, v, id, n) ==
    /\ w \in Seq(BookOrder) /\ Len(w) = Len(v)
    /\ \A i \in 1 .. Len(v) : w[i].order_id = v[i].order_id
    /\ \A o : Find(w, o) = Find(v, o)
    /\ w[Find(v, id)].size = v[Find(v, id)].size - n
    /\ \A i \in 1 .. Len(v) : i # Find(v, id) => w[i] = v[i]

\* matchOrders reduces one size on a side.
LEMMA ReducedFind ==
    ASSUME NEW v \in Seq(BookOrder), NEW id, NEW n \in Int, Find(v, id) # 0
    PROVE  ReducedSide(Reduced(v, id, n), v, id, n)
<1> DEFINE k == Find(v, id)
           w == Reduced(v, id, n)
           y == [v[k] EXCEPT !.size = v[k].size - n]
<1>1. k \in 1 .. Len(v) /\ v[k].order_id = id
  BY FindFirst
<1>2. w = [v EXCEPT ![k] = y]
  BY DEF Reduced
<1>3. w \in Seq(BookOrder)
  BY WrittenTypes
<1> HIDE DEF k, w
<1>4. v[k] \in BookOrder
  BY <1>1
<1>5. y.order_id = v[k].order_id /\ y.size = v[k].size - n
  <2> DEFINE z == v[k]
  <2>1. z \in BookOrder
    BY <1>4
  <2> HIDE DEF z
  <2>2. [z EXCEPT !.size = z.size - n].order_id = z.order_id /\ [z EXCEPT !.size = z.size - n].size = z.size - n
    BY <2>1 DEF BookOrder
  <2> QED
    BY <2>2 DEF z
<1> HIDE DEF y
<1>6. /\ Len(w) = Len(v) /\ w[k] = y
      /\ \A i \in 1 .. Len(v) : i # k => w[i] = v[i]
  BY <1>1, <1>2, <1>3
<1>7. \A i \in 1 .. Len(v) : w[i].order_id = v[i].order_id
  BY <1>5, <1>6
<1>8. ASSUME NEW o
      PROVE  Find(w, o) = Find(v, o)
  <2>1. {i \in 1 .. Len(w) : w[i].order_id = o} = {i \in 1 .. Len(v) : v[i].order_id = o}
    BY <1>6, <1>7
  <2> QED
    BY <2>1 DEF Find, SelectInSeq
<1>9. w[k].size = v[k].size - n
  BY <1>5, <1>6
<1> QED
  BY <1>3, <1>6, <1>7, <1>8, <1>9 DEF k, w, ReducedSide

-----------------------------------------------------------------------------
(***************************************************************************)
(* What a product change does to what the book shows of an order.          *)
(***************************************************************************)

\* An order's own side is a side.
LEMMA OwnSide ==
    ASSUME NEW o \in Orders
    PROVE  OrderSide[o] \in Side
BY BookMirrorAssumption

\* The side of an order is a sequence of orders.
LEMMA OwnTypes ==
    ASSUME NEW b \in Books, NEW o \in Orders
    PROVE  /\ Own(b, o) \in Seq(BookOrder)
           /\ Len(Own(b, o)) \in Nat
           /\ Listed(b, o) => /\ Find(Own(b, o), o) \in 1 .. Len(Own(b, o))
                              /\ Own(b, o)[Find(Own(b, o), o)].order_id = o
                              /\ SizeOf(b, o) \in Int
<1>1. Own(b, o) \in Seq(BookOrder) /\ Len(Own(b, o)) \in Nat
  BY OwnSide, SideTypes DEF Own
<1>2. ASSUME Listed(b, o)
      PROVE  /\ Find(Own(b, o), o) \in 1 .. Len(Own(b, o))
             /\ Own(b, o)[Find(Own(b, o), o)].order_id = o
             /\ SizeOf(b, o) \in Int
  <2>1. /\ Find(Own(b, o), o) \in 1 .. Len(Own(b, o))
        /\ Own(b, o)[Find(Own(b, o), o)].order_id = o
    BY <1>1, <1>2, FindFirst DEF Listed
  <2>2. Own(b, o)[Find(Own(b, o), o)].size \in Int
    BY <2>1, OwnSide, SideTypes DEF Own
  <2> QED
    BY <2>1, <2>2 DEF SizeOf
<1> QED
  BY <1>1, <1>2

\* A book shows the same as itself.
LEMMA LessRefl ==
    ASSUME NEW b \in Books, NEW o \in Orders
    PROVE  Less(b, b, o, 0)
<1>1. Listed(b, o) => SizeOf(b, o) = SizeOf(b, o) - 0
  BY OwnTypes
<1> QED
  BY <1>1 DEF Less

\* Two books with the same orders on the order's side show the same.
LEMMA SameOwn ==
    ASSUME NEW b \in Books, NEW a, NEW o \in Orders, Own(a, o) = Own(b, o)
    PROVE  Less(a, b, o, 0)
<1>1. Listed(b, o) => SizeOf(b, o) = SizeOf(b, o) - 0
  BY OwnTypes
<1> QED
  BY <1>1 DEF Less, Listed, SizeOf, Once

\* Neither book lists the order.
LEMMA LessUnlisted ==
    ASSUME NEW a \in Books, NEW b \in Books, NEW o \in Orders, ~Listed(a, o), ~Listed(b, o)
    PROVE  Less(a, b, o, 0)
<1>1. Once(a, o) /\ Once(b, o)
  BY OwnTypes, FindFirst DEF Listed, Once
<1> QED
  BY <1>1 DEF Less

\* On a book that fits, an order is not found on the other side.
LEMMA NotOpposite ==
    ASSUME NEW b, Fits(b), NEW o \in Orders
    PROVE  /\ Find(On(b, Opposite(OrderSide[o])), o) = 0
           /\ \A side \in Side : side # OrderSide[o] => Find(On(b, side), o) = 0
<1>1. \A side \in Side : side # OrderSide[o] => Find(On(b, side), o) = 0
  <2> SUFFICES ASSUME NEW side \in Side, side # OrderSide[o]
               PROVE  Find(On(b, side), o) = 0
    OBVIOUS
  <2>1. On(b, side) \in Seq(BookOrder)
    BY SideTypes DEF Fits
  <2>2. \A i \in 1 .. Len(On(b, side)) : On(b, side)[i].order_id # o
    BY DEF Fits
  <2> QED
    BY <2>1, <2>2, FindFirst
<1> QED
  BY <1>1, OwnSide, Sides

\* done and change: the order is looked for on the other side, where it never is.
LEMMA DoneAndChange ==
    ASSUME NEW b, Fits(b), NEW pc \in OrderMessages, pc.type # "open"
    PROVE  ApplyChange(b, pc) = b
<1> DEFINE o == pc.order_id
           side == OrderSide[o]
           v == On(b, Opposite(side))
<1>1. /\ pc.type \in {"done", "change"} /\ o \in Orders /\ pc.side = side
      /\ b \in Books
  BY DEF OrderMessages, Fits
<1>2. side \in Side /\ Opposite(side) \in Side
  BY <1>1, OwnSide, Sides
<1>3. Find(v, o) = 0
  BY <1>1, NotOpposite
<1>4. CASE pc.type = "done"
  <2>1. ApplyChange(b, pc) = Written(b, Opposite(side), Erased(v, o))
    BY <1>1, <1>4 DEF ApplyChange, ProductChangeDone, RemoveOrder, On, Written, Erased
  <2>2. v \in Seq(BookOrder)
    BY <1>1, <1>2, SideTypes
  <2>3. Erased(v, o) = v
    BY <1>3, <2>2, ErasedTypes
  <2> HIDE DEF side, o
  <2> QED
    BY <1>1, <1>2, <2>1, <2>2, <2>3, WriteSide
<1>5. CASE pc.type = "change"
  BY <1>1, <1>3, <1>5 DEF ApplyChange, ProductChangeChange, UpdateOrder, On
<1> QED
  BY <1>1, <1>4, <1>5

\* Writing the side of an order leaves the orders of the other side alone.
LEMMA WrittenOwn ==
    ASSUME NEW b, Fits(b), NEW side \in Side, NEW w \in Seq(BookOrder),
           \A i \in 1 .. Len(w) : OrderSide[w[i].order_id] = side
    PROVE  /\ Fits(Written(b, side, w))
           /\ \A o \in Orders : Own(Written(b, side, w), o) =
                                  IF OrderSide[o] = side THEN w ELSE Own(b, o)
<1> DEFINE a == Written(b, side, w)
<1>1. a \in Books /\ On(a, side) = w /\ On(a, Opposite(side)) = On(b, Opposite(side))
  BY WriteSide DEF Fits
<1> HIDE DEF a
<1>2. ASSUME NEW s \in Side
      PROVE  On(a, s) = IF s = side THEN w ELSE On(b, s)
  BY <1>1, Sides
<1>3. Fits(a)
  BY <1>1, <1>2 DEF Fits
<1>4. \A o \in Orders : Own(a, o) = IF OrderSide[o] = side THEN w ELSE Own(b, o)
  BY <1>2, OwnSide DEF Own
<1> QED
  BY <1>3, <1>4 DEF a

\* open: the order is listed, behind what its side has.
LEMMA OpenEffect ==
    ASSUME NEW b, Fits(b), NEW pc \in OrderMessages, pc.type = "open", NEW o \in Orders
    PROVE  /\ Fits(ApplyChange(b, pc))
           /\ o # pc.order_id => Less(ApplyChange(b, pc), b, o, 0)
           /\ o = pc.order_id /\ ~Listed(b, o) => /\ Listed(ApplyChange(b, pc), o)
                                                  /\ SizeOf(ApplyChange(b, pc), o) = pc.size
                                                  /\ Once(ApplyChange(b, pc), o)
           /\ o = pc.order_id /\ Listed(b, o) => /\ Listed(ApplyChange(b, pc), o)
                                                 /\ SizeOf(ApplyChange(b, pc), o) = SizeOf(b, o)
                                                 /\ ~Once(ApplyChange(b, pc), o)
<1> DEFINE id == pc.order_id
           side == OrderSide[id]
           x == [order_id |-> id, size |-> pc.size]
           v == On(b, side)
           w == Append(v, x)
           a == Written(b, side, w)
<1>1. id \in Orders /\ pc.size \in Nat /\ pc.side = side
  BY DEF OrderMessages
<1>2. ApplyChange(b, pc) = a
  BY <1>1 DEF ApplyChange, ProductChangeOpen, AddOrder, On, Written
<1>3. x \in BookOrder /\ x.order_id = id /\ x.size = pc.size
  BY <1>1 DEF BookOrder
<1>4. side \in Side /\ b \in Books
  BY <1>1, OwnSide DEF Fits
<1>5. v \in Seq(BookOrder) /\ Len(v) \in Nat
  BY <1>4, SideTypes
<1> HIDE DEF x, id, v
<1>6. /\ w \in Seq(BookOrder) /\ Len(w) = Len(v) + 1 /\ w[Len(v) + 1] = x
      /\ \A i \in 1 .. Len(v) : w[i] = v[i]
      /\ Find(v, o) # 0 => Find(w, o) = Find(v, o) /\ w[Find(v, o)] = v[Find(v, o)]
      /\ Find(v, o) = 0 /\ x.order_id = o => Find(w, o) = Len(v) + 1
      /\ Find(v, o) = 0 /\ x.order_id # o => Find(w, o) = 0
  <2>1. AppendedSide(w, v, x, o)
    BY <1>3, <1>5, AppendedFind
  <2> HIDE DEF w
  <2> QED
    BY <2>1 DEF AppendedSide
<1> HIDE DEF w
<1>7. \A i \in 1 .. Len(w) : OrderSide[w[i].order_id] = side
  <2>1. \A i \in 1 .. Len(v) : OrderSide[v[i].order_id] = side
    BY <1>4 DEF Fits, v
  <2> QED
    BY <1>3, <1>5, <1>6, <2>1
<1>8. Fits(a) /\ Own(a, o) = IF OrderSide[o] = side THEN w ELSE Own(b, o)
  BY <1>4, <1>6, <1>7, WrittenOwn
<1> HIDE DEF a
<1>9. Fits(a) /\ (OrderSide[o] = side => Own(a, o) = w /\ Own(b, o) = v)
  BY <1>8 DEF Own, v
<1>10. ASSUME o # id
       PROVE  Less(a, b, o, 0)
  <2>1. CASE OrderSide[o] # side
    BY <1>4, <1>8, <2>1, SameOwn
  <2>2. CASE OrderSide[o] = side
    <3>1. Own(a, o) = w /\ Own(b, o) = v
      BY <1>9, <2>2
    <3>2. Listed(a, o) <=> Listed(b, o)
      BY <1>3, <1>5, <1>6, <1>10, <3>1, FindFirst DEF Listed
    <3>3. Listed(b, o) => SizeOf(a, o) = SizeOf(b, o)
      BY <1>6, <3>1 DEF Listed, SizeOf
    <3>4. Once(a, o) <=> Once(b, o)
      BY <1>3, <1>5, <1>6, <1>10, <3>1 DEF Once
    <3>5. Listed(b, o) => SizeOf(b, o) - 0 = SizeOf(b, o)
      BY <1>4, OwnTypes
    <3> QED
      BY <3>2, <3>3, <3>4, <3>5 DEF Less
  <2> QED
    BY <2>1, <2>2
<1>11. ASSUME o = id, ~Listed(b, o)
       PROVE  Listed(a, o) /\ SizeOf(a, o) = pc.size /\ Once(a, o)
  <2>1. Own(a, o) = w /\ Own(b, o) = v
    BY <1>9, <1>11
  <2>2. Find(v, o) = 0 /\ \A i \in 1 .. Len(v) : v[i].order_id # o
    BY <1>5, <1>11, <2>1, FindFirst DEF Listed
  <2>3. Find(w, o) = Len(v) + 1
    BY <1>3, <1>6, <1>11, <2>2
  <2>4. Once(a, o)
    BY <1>5, <1>6, <2>1, <2>2 DEF Once
  <2> QED
    BY <1>3, <1>5, <1>6, <2>1, <2>3, <2>4 DEF Listed, SizeOf
<1>12. ASSUME o = id, Listed(b, o)
       PROVE  Listed(a, o) /\ SizeOf(a, o) = SizeOf(b, o) /\ ~Once(a, o)
  <2>1. Own(a, o) = w /\ Own(b, o) = v
    BY <1>9, <1>12
  <2>2. Find(v, o) \in 1 .. Len(v) /\ v[Find(v, o)].order_id = o
    BY <1>5, <1>12, <2>1, FindFirst DEF Listed
  <2>3. ~Once(a, o)
    <3>1. /\ Find(v, o) \in 1 .. Len(w) /\ w[Find(v, o)].order_id = o
          /\ Len(v) + 1 \in 1 .. Len(w) /\ w[Len(v) + 1].order_id = o
          /\ Find(v, o) # Len(v) + 1
      BY <1>3, <1>5, <1>6, <1>12, <2>2
    <3> QED
      BY <2>1, <3>1 DEF Once
  <2> QED
    BY <1>5, <1>6, <2>1, <2>2, <2>3 DEF Listed, SizeOf
<1> QED
  BY <1>2, <1>8, <1>10, <1>11, <1>12 DEF id

\* Reducing one order on a side.
LEMMA ReduceEffect ==
    ASSUME NEW b, Fits(b), NEW id \in Orders, Listed(b, id), NEW n \in Int,
           NEW a, a = Written(b, OrderSide[id], Reduced(Own(b, id), id, n))
    PROVE  /\ Fits(a)
           /\ Less(a, b, id, n)
           /\ \A o \in Orders : o # id => Less(a, b, o, 0)
<1> DEFINE side == OrderSide[id]
           v == Own(b, id)
           w == Reduced(v, id, n)
           k == Find(v, id)
<1>1. b \in Books /\ side \in Side /\ v \in Seq(BookOrder)
  BY OwnSide, OwnTypes DEF Fits
<1>2. k # 0 /\ k \in 1 .. Len(v) /\ v[k].order_id = id
  BY OwnTypes, <1>1 DEF Listed
<1>3. ReducedSide(w, v, id, n)
  BY <1>1, <1>2, ReducedFind
<1> HIDE DEF w
<1>4. /\ w \in Seq(BookOrder) /\ Len(w) = Len(v)
      /\ \A i \in 1 .. Len(v) : w[i].order_id = v[i].order_id
      /\ \A o : Find(w, o) = Find(v, o)
      /\ w[k].size = v[k].size - n
      /\ \A i \in 1 .. Len(v) : i # k => w[i] = v[i]
  BY <1>3 DEF ReducedSide
<1>5. \A i \in 1 .. Len(w) : OrderSide[w[i].order_id] = side
  BY <1>1, <1>4 DEF Fits, Own
<1>6. Fits(a) /\ \A o \in Orders : Own(a, o) = IF OrderSide[o] = side THEN w ELSE Own(b, o)
  BY <1>1, <1>4, <1>5, WrittenOwn DEF w
<1>7. ASSUME NEW o \in Orders, OrderSide[o] = side
      PROVE  /\ Own(a, o) = w /\ Own(b, o) = v
             /\ Listed(a, o) <=> Listed(b, o)
             /\ Once(a, o) <=> Once(b, o)
  <2>1. Own(a, o) = w /\ Own(b, o) = v
    BY <1>6, <1>7 DEF Own
  <2>2. Listed(a, o) <=> Listed(b, o)
    BY <1>4, <2>1 DEF Listed
  <2>3. Once(a, o) <=> Once(b, o)
    BY <1>4, <2>1 DEF Once
  <2> QED
    BY <2>1, <2>2, <2>3
<1>8. Less(a, b, id, n)
  <2>1. SizeOf(a, id) = SizeOf(b, id) - n
    BY <1>4, <1>7 DEF SizeOf
  <2> QED
    BY <1>7, <2>1 DEF Less
<1>9. ASSUME NEW o \in Orders, o # id
      PROVE  Less(a, b, o, 0)
  <2>1. CASE OrderSide[o] # side
    BY <1>1, <1>6, <2>1, SameOwn
  <2>2. CASE OrderSide[o] = side
    <3>1. Listed(b, o) => SizeOf(a, o) = SizeOf(b, o)
      <4> SUFFICES ASSUME Listed(b, o)
                   PROVE  SizeOf(a, o) = SizeOf(b, o)
        OBVIOUS
      <4>1. Own(a, o) = w /\ Own(b, o) = v
        BY <1>7, <2>2
      <4>2. Find(v, o) \in 1 .. Len(v) /\ v[Find(v, o)].order_id = o
        BY <1>1, <4>1, OwnTypes
      <4>3. Find(v, o) # k
        BY <1>2, <1>9, <4>2
      <4>4. w[Find(v, o)] = v[Find(v, o)] /\ Find(w, o) = Find(v, o)
        BY <1>4, <4>2, <4>3
      <4> HIDE DEF v
      <4> QED
        BY <4>1, <4>4 DEF SizeOf
    <3>2. Listed(b, o) => SizeOf(b, o) - 0 = SizeOf(b, o)
      BY <1>1, OwnTypes
    <3> QED
      BY <1>7, <2>2, <3>1, <3>2 DEF Less
  <2> QED
    BY <2>1, <2>2
<1> QED
  BY <1>6, <1>8, <1>9

\* Sizes add up.
LEMMA LessTrans ==
    ASSUME NEW a, NEW b, NEW c \in Books, NEW o \in Orders, NEW m \in Int, NEW n \in Int,
           Less(a, b, o, m), Less(b, c, o, n)
    PROVE  Less(a, c, o, m + n)
<1>1. Listed(c, o) => SizeOf(c, o) \in Int
  BY OwnTypes
<1> QED
  BY <1>1 DEF Less

\* What a change takes off the size of an order.
Drop(b, pc, o) ==
    IF /\ pc.type = "match" /\ MatchSide = "taker"
       /\ o \in {pc.maker, pc.taker} /\ Listed(b, pc.maker) /\ Listed(b, o)
    THEN pc.size ELSE 0

\* match: maker and taker are reduced if the maker is found on its own side.
LEMMA MatchEffect ==
    ASSUME NEW b, Fits(b), NEW pc \in MatchMessages
    PROVE  /\ Fits(ApplyChange(b, pc))
           /\ \A o \in Orders : Less(ApplyChange(b, pc), b, o, Drop(b, pc, o))
<1> DEFINE m == pc.maker
           t == pc.taker
           n == pc.size
           side == pc.side
           a == ApplyChange(b, pc)
<1>1. /\ pc.type = "match" /\ m \in Orders /\ t \in Orders /\ n \in Int /\ b \in Books
      /\ OrderSide[t] # OrderSide[m]
      /\ side = IF MatchSide = "maker" THEN OrderSide[m] ELSE OrderSide[t]
  BY DEF MatchMessages, Fits
<1>2. /\ OrderSide[m] \in Side /\ OrderSide[t] \in Side /\ OrderSide[m] = Opposite(OrderSide[t])
      /\ m # t
  BY <1>1, OwnSide, Sides
<1> DEFINE reduced == Written(b, Opposite(side), Reduced(On(b, Opposite(side)), m, n))
<1>3. a = IF Find(On(b, Opposite(side)), m) = 0 THEN b
          ELSE IF Find(On(b, side), t) = 0 THEN reduced
          ELSE Written(reduced, side, Reduced(On(reduced, side), t, n))
  BY <1>1 DEF ApplyChange, ProductChangeMatch, MatchOrders, On, Written
<1>4. CASE a = b /\ \A o \in Orders : Drop(b, pc, o) = 0
  BY <1>1, <1>4, LessRefl
<1>5. CASE MatchSide = "maker"
  <2>1. Find(On(b, Opposite(side)), m) = 0
    BY <1>1, <1>5, NotOpposite
  <2>2. \A o \in Orders : Drop(b, pc, o) = 0
    BY <1>5 DEF Drop
  <2> QED
    BY <1>3, <1>4, <2>1, <2>2
<1>6. CASE MatchSide = "taker"
  <2>1. side = OrderSide[t] /\ Opposite(side) = OrderSide[m]
    BY <1>1, <1>2, <1>6
  <2>2. /\ On(b, Opposite(side)) = Own(b, m) /\ On(b, side) = Own(b, t)
        /\ On(reduced, side) = Own(reduced, t)
        /\ Listed(b, m) <=> Find(On(b, Opposite(side)), m) # 0
        /\ Listed(b, t) <=> Find(On(b, side), t) # 0
    BY <2>1 DEF Own, Listed
  <2>3. CASE ~Listed(b, m)
    <3>1. \A o \in Orders : Drop(b, pc, o) = 0
      BY <2>3 DEF Drop
    <3> QED
      BY <1>3, <1>4, <2>2, <2>3, <3>1
  <2>4. CASE Listed(b, m)
    <3>1. reduced = Written(b, OrderSide[m], Reduced(Own(b, m), m, n))
      BY <2>1, <2>2
    <3> HIDE DEF reduced
    <3>2. /\ Fits(reduced) /\ Less(reduced, b, m, n)
          /\ \A o \in Orders : o # m => Less(reduced, b, o, 0)
      BY <1>1, <2>4, <3>1, ReduceEffect
    <3>3. \A o \in Orders : Drop(b, pc, o) = IF o \in {m, t} /\ Listed(b, o) THEN n ELSE 0
      BY <1>1, <1>6, <2>4 DEF Drop
    <3>4. CASE ~Listed(b, t)
      <4>1. a = reduced
        BY <1>3, <2>2, <2>4, <3>4
      <4>2. ASSUME NEW o \in Orders
            PROVE  Less(a, b, o, Drop(b, pc, o))
        <5>1. CASE o = m
          BY <2>4, <3>2, <3>3, <4>1, <5>1
        <5>2. CASE o # m
          <6>1. Drop(b, pc, o) = 0
            BY <3>3, <3>4, <5>2
          <6> QED
            BY <3>2, <4>1, <5>2, <6>1
        <5> QED
          BY <5>1, <5>2
      <4> QED
        BY <3>2, <4>1, <4>2
    <3>5. CASE Listed(b, t)
      <4>1. a = Written(reduced, OrderSide[t], Reduced(Own(reduced, t), t, n))
        BY <1>3, <2>1, <2>2, <2>4, <3>5
      <4>2. Less(reduced, b, t, 0)
        BY <1>1, <1>2, <3>2
      <4>3. Listed(reduced, t)
        BY <3>5, <4>2 DEF Less
      <4> HIDE DEF a
      <4>4. /\ Fits(a) /\ Less(a, reduced, t, n)
            /\ \A o \in Orders : o # t => Less(a, reduced, o, 0)
        BY <1>1, <3>2, <4>1, <4>3, ReduceEffect
      <4>5. ASSUME NEW o \in Orders
            PROVE  Less(a, b, o, Drop(b, pc, o))
        <5>1. CASE o = m
          <6>1. Less(a, reduced, o, 0) /\ Less(reduced, b, o, n) /\ Drop(b, pc, o) = n
            BY <1>2, <2>4, <3>2, <3>3, <4>4, <5>1
          <6>2. Less(a, b, o, 0 + n)
            BY <1>1, <6>1, LessTrans
          <6> QED
            BY <1>1, <6>1, <6>2
        <5>2. CASE o = t
          <6>1. Less(a, reduced, o, n) /\ Less(reduced, b, o, 0) /\ Drop(b, pc, o) = n
            BY <3>3, <3>5, <4>2, <4>4, <5>2
          <6>2. Less(a, b, o, n + 0)
            BY <1>1, <6>1, LessTrans
          <6> QED
            BY <1>1, <6>1, <6>2
        <5>3. CASE o # m /\ o # t
          <6>1. Less(a, reduced, o, 0) /\ Less(reduced, b, o, 0) /\ Drop(b, pc, o) = 0
            BY <3>2, <3>3, <4>4, <5>3
          <6>2. Less(a, b, o, 0 + 0)
            BY <1>1, <6>1, LessTrans
          <6> QED
            BY <6>1, <6>2
        <5> QED
          BY <5>1, <5>2, <5>3
      <4> QED
        BY <4>4, <4>5 DEF a
    <3> QED
      BY <3>4, <3>5
  <2> QED
    BY <2>3, <2>4
<1> QED
  BY <1>5, <1>6, BookMirrorAssumption

\* Opens(pc, o): addOrder is called for the order.
Opens(pc, o) == pc.type = "open" /\ pc.order_id = o

\* A message that does not open an order changes nothing of it but its size.
LEMMA ApplyEffect ==
    ASSUME NEW b, Fits(b), NEW pc \in Messages
    PROVE  /\ Fits(ApplyChange(b, pc))
           /\ \A o \in Orders : ~Opens(pc, o) => Less(ApplyChange(b, pc), b, o, Drop(b, pc, o))
<1>1. CASE pc \in MatchMessages
  BY <1>1, MatchEffect
<1>2. CASE pc \in OrderMessages
  <2>1. \A o \in Orders : Drop(b, pc, o) = 0
    BY <1>2 DEF Drop, OrderMessages
  <2>2. CASE pc.type = "open"
    <3>1. \A o \in Orders : /\ Fits(ApplyChange(b, pc))
                            /\ o # pc.order_id => Less(ApplyChange(b, pc), b, o, 0)
      BY <1>2, <2>2, OpenEffect
    <3>2. pc.order_id \in Orders
      BY <1>2 DEF OrderMessages
    <3> QED
      BY <2>1, <2>2, <3>1, <3>2 DEF Opens
  <2>3. CASE pc.type # "open"
    <3>1. ApplyChange(b, pc) = b /\ b \in Books
      BY <1>2, <2>3, DoneAndChange DEF Fits
    <3> QED
      BY <2>1, <3>1, LessRefl
  <2> QED
    BY <2>2, <2>3
<1> QED
  BY <1>1, <1>2 DEF Messages

-----------------------------------------------------------------------------
(***************************************************************************)
(* Merging.                                                                *)
(***************************************************************************)

\* The books on the way from the snapshot to the merged one.
MergedBy(F, b, bids, asks, s) ==
    /\ ResetOrderBook(b, bids, asks, s) = F[Len(s)]
    /\ F[0] = InitBook(b, bids, asks)
    /\ \A n \in 1 .. Len(s) : F[n] = ApplyChange(F[n - 1], s[n])
    /\ \A n \in 0 .. Len(s) : F[n] \in FitBooks

\* Such books exist.
LEMMA MergeSteps ==
    ASSUME NEW b, NEW bids, NEW asks, InitBook(b, bids, asks) \in FitBooks,
           NEW s \in Seq(Messages)
    PROVE  \E F : MergedBy(F, b, bids, asks, s)
<1> DEFINE base == InitBook(b, bids, asks)
           Step(n, v) == ApplyChange(v, s[n])
           Def(g) == [n \in 0 .. Len(s) |-> IF n = 0 THEN base ELSE Step(n, g[n - 1])]
           F == CHOOSE g : g = Def(g)
           h == [n \in 1 .. Len(s) |-> [v \in FitBooks |-> Step(n, v)]]
<1>1. ResetOrderBook(b, bids, asks, s) = F[Len(s)]
  BY DEF ResetOrderBook
<1>2. Len(s) \in Nat /\ base \in FitBooks
  OBVIOUS
<1>3. ASSUME NEW n \in 1 .. Len(s), NEW v \in FitBooks
      PROVE  Step(n, v) \in FitBooks
  <2>1. s[n] \in Messages
    OBVIOUS
  <2> QED
    BY <2>1, ApplyEffect DEF FitBooks, Fits
<1> HIDE DEF Step, base
<1>4. PICK g \in [0 .. Len(s) -> FitBooks] :
         /\ g[0] = base
         /\ \A i \in 1 .. Len(s) : g[i] = h[i][g[i - 1]]
  <2>1. h \in [1 .. Len(s) -> [FitBooks -> FitBooks]]
    BY <1>3
  <2> HIDE DEF h, Def, F
  <2>2. \E g : Iterates(g, Len(s), FitBooks, base, h)
    BY <1>2, <2>1, RecursionExists
  <2> QED
    BY <2>2 DEF Iterates
<1>5. g = Def(g)
  <2>1. ASSUME NEW i \in 1 .. Len(s)
        PROVE  g[i] = Step(i, g[i - 1])
    <3>1. i - 1 \in 0 .. Len(s)
      BY <1>2
    <3>2. g[i - 1] \in FitBooks
      BY <3>1
    <3> QED
      BY <1>4, <3>2
  <2>2. \A i \in 0 .. Len(s) : i # 0 => i \in 1 .. Len(s)
    BY <1>2
  <2> QED
    BY <1>2, <1>4, <2>1, <2>2
<1>6. F = Def(F)
  <2> HIDE DEF Def
  <2> QED
    BY <1>5
<1> HIDE DEF F
<1>7. F[0] = base /\ \A n \in 1 .. Len(s) : F[n] = Step(n, F[n - 1])
  <2> DEFINE E == Def(F)
  <2>1. \A n \in 0 .. Len(s) : E[n] = IF n = 0 THEN base ELSE Step(n, F[n - 1])
    OBVIOUS
  <2>2. F = E
    BY <1>6
  <2> HIDE DEF E, Def
  <2>3. 0 \in 0 .. Len(s) /\ \A n \in 1 .. Len(s) : n \in 0 .. Len(s) /\ n # 0
    BY <1>2
  <2> QED
    BY <2>1, <2>2, <2>3
<1> DEFINE T == {n \in 0 .. Len(s) : F[n] \in FitBooks}
<1>8. 0 \in T
  BY <1>2, <1>7
<1>9. ASSUME NEW n \in 1 .. Len(s), n - 1 \in T
      PROVE  n \in T
  BY <1>2, <1>3, <1>7, <1>9
<1>10. \A n \in 0 .. Len(s) : n \in T
  <2> DEFINE N == Len(s)
  <2>1. N \in Nat /\ \A n \in 1 .. N : n - 1 \in T => n \in T
    BY <1>2, <1>9
  <2> HIDE DEF T, N
  <2>2. \A n \in 0 .. N : n \in T
    BY <1>8, <2>1, UpToInduction
  <2> QED
    BY <2>2 DEF N
<1>11. \A n \in 1 .. Len(s) : F[n] = ApplyChange(F[n - 1], s[n])
  BY <1>7 DEF Step
<1>12. MergedBy(F, b, bids, asks, s)
  BY <1>1, <1>7, <1>10, <1>11 DEF base, MergedBy
<1> QED
  BY <1>12

\* Without messages to merge, the book is the snapshot.
LEMMA MergeNothing ==
    ASSUME NEW b, NEW bids, NEW asks, InitBook(b, bids, asks) \in FitBooks
    PROVE  ResetOrderBook(b, bids, asks, <<>>) = InitBook(b, bids, asks)
<1>1. <<>> \in Seq(Messages) /\ Len(<<>>) = 0
  OBVIOUS
<1>2. PICK F : MergedBy(F, b, bids, asks, <<>>)
  BY <1>1, MergeSteps
<1> QED
  BY <1>1, <1>2 DEF MergedBy

\* A message that came later is applied to the book merged so far.
LEMMA MergeOneMore ==
    ASSUME NEW b, NEW bids, NEW asks, InitBook(b, bids, asks) \in FitBooks,
           NEW s \in Seq(Messages), NEW pc \in Messages
    PROVE  ResetOrderBook(b, bids, asks, Append(s, pc)) =
             ApplyChange(ResetOrderBook(b, bids, asks, s), pc)
<1> DEFINE t == Append(s, pc)
           N == Len(s)
<1>1. /\ t \in Seq(Messages) /\ N \in Nat /\ Len(t) = N + 1 /\ t[N + 1] = pc
      /\ \A i \in 1 .. N : t[i] = s[i]
  OBVIOUS
<1> HIDE DEF t
<1>F. PICK F : MergedBy(F, b, bids, asks, s)
  BY MergeSteps
<1>G. PICK G : MergedBy(G, b, bids, asks, t)
  BY <1>1, MergeSteps
<1>2. /\ ResetOrderBook(b, bids, asks, s) = F[N]
      /\ F[0] = InitBook(b, bids, asks)
      /\ \A n \in 1 .. N : F[n] = ApplyChange(F[n - 1], s[n])
  BY <1>F DEF MergedBy
<1> HIDE DEF N
<1>3. /\ ResetOrderBook(b, bids, asks, t) = G[N + 1]
      /\ G[0] = InitBook(b, bids, asks)
      /\ \A n \in 1 .. N + 1 : G[n] = ApplyChange(G[n - 1], t[n])
  BY <1>1, <1>G DEF MergedBy
<1> DEFINE T == {n \in 0 .. N : G[n] = F[n]}
<1>4. 0 \in T
  BY <1>1, <1>2, <1>3
<1>5. ASSUME NEW n \in 1 .. N, n - 1 \in T
      PROVE  n \in T
  <2>1. G[n] = ApplyChange(G[n - 1], t[n]) /\ F[n] = ApplyChange(F[n - 1], s[n])
    BY <1>1, <1>2, <1>3
  <2>2. t[n] = s[n] /\ G[n - 1] = F[n - 1] /\ n \in 0 .. N
    BY <1>1, <1>5
  <2> QED
    BY <2>1, <2>2
<1> HIDE DEF T
<1>6. \A n \in 0 .. N : n \in T
  BY <1>1, <1>4, <1>5, UpToInduction
<1>7. G[N] = F[N]
  <2>1. N \in T
    BY <1>1, <1>6
  <2> QED
    BY <2>1 DEF T
<1>8. G[N + 1] = ApplyChange(G[N], t[N + 1])
  <2>1. N + 1 \in 1 .. N + 1 /\ (N + 1) - 1 = N
    BY <1>1
  <2> QED
    BY <1>3, <2>1
<1> QED
  BY <1>1, <1>2, <1>3, <1>7, <1>8 DEF t

-----------------------------------------------------------------------------
(***************************************************************************)
(* Batches.                                                                *)
(***************************************************************************)

\* The book that a full order book and its messages make, whatever was there.
ResetBook(pc) == ResetOrderBook(EmptyBook, pc.bids, pc.asks, pc.toMerge)

\* init forgets the old book.
LEMMA ResetForgets ==
    ASSUME NEW b, NEW c, NEW bids, NEW asks, NEW s
    PROVE  /\ InitBook(b, bids, asks) = InitBook(c, bids, asks)
           /\ ResetOrderBook(b, bids, asks, s) = ResetOrderBook(c, bids, asks, s)
BY DEF ResetOrderBook, InitBook

\* Every product change keeps the orders on their sides.
LEMMA UpdateFits ==
    ASSUME NEW b \in FitBooks, NEW pc \in Changes
    PROVE  /\ UpdateOrderBook(b, pc) \in FitBooks
           /\ pc \in Messages => UpdateOrderBook(b, pc) = ApplyChange(b, pc) /\ pc.type # "reset"
           /\ pc \in Resets => /\ UpdateOrderBook(b, pc) = ResetBook(pc) /\ pc.type = "reset"
                               /\ ResetBook(pc) \in FitBooks
<1>1. ASSUME pc \in Messages
      PROVE  UpdateOrderBook(b, pc) = ApplyChange(b, pc) /\ pc.type # "reset"
  BY <1>1 DEF UpdateOrderBook, Messages, OrderMessages, MatchMessages
<1>2. ASSUME pc \in Messages
      PROVE  ApplyChange(b, pc) \in FitBooks
  BY <1>2, ApplyEffect DEF FitBooks, Fits
<1>3. ASSUME pc \in Resets
      PROVE  UpdateOrderBook(b, pc) = ResetBook(pc) /\ pc.type = "reset"
  <2>1. pc.type = "reset"
    BY <1>3 DEF Resets
  <2>2. UpdateOrderBook(b, pc) = ResetOrderBook(b, pc.bids, pc.asks, pc.toMerge)
    BY <2>1 DEF UpdateOrderBook
  <2> QED
    BY <2>1, <2>2, ResetForgets DEF ResetBook
<1>4. ASSUME pc \in Resets
      PROVE  ResetBook(pc) \in FitBooks
  <2> DEFINE bids == pc.bids
             asks == pc.asks
             s == pc.toMerge
  <2>1. s \in Seq(Messages) /\ InitBook(EmptyBook, bids, asks) \in FitBooks
    BY <1>4 DEF Resets
  <2> HIDE DEF bids, asks, s
  <2>2. PICK F : MergedBy(F, EmptyBook, bids, asks, s)
    BY <2>1, MergeSteps
  <2>3. Len(s) \in 0 .. Len(s)
    BY <2>1
  <2>4. ResetOrderBook(EmptyBook, bids, asks, s) \in FitBooks
    BY <2>2, <2>3 DEF MergedBy
  <2> QED
    BY <2>4 DEF ResetBook, bids, asks, s
<1> QED
  BY <1>1, <1>2, <1>3, <1>4 DEF Changes

\* The books on the way through the changes that a Product is handed.
FoldedBy(F, b, s) ==
    /\ OnProductChanges(b, s) = F[Len(s)]
    /\ F[0] = b
    /\ \A n \in 1 .. Len(s) : F[n] = UpdateOrderBook(F[n - 1], s[n])
    /\ \A n \in 0 .. Len(s) : F[n] \in FitBooks

\* Such books exist.
LEMMA FoldSteps ==
    ASSUME NEW b \in FitBooks,
           NEW s \in Seq(Changes)
    PROVE  \E F : FoldedBy(F, b, s)
<1> DEFINE base == b
           Step(n, v) == UpdateOrderBook(v, s[n])
           Def(g) == [n \in 0 .. Len(s) |-> IF n = 0 THEN base ELSE Step(n, g[n - 1])]
           F == CHOOSE g : g = Def(g)
           h == [n \in 1 .. Len(s) |-> [v \in FitBooks |-> Step(n, v)]]
<1>1. OnProductChanges(b, s) = F[Len(s)]
  BY DEF OnProductChanges
<1>2. Len(s) \in Nat /\ base \in FitBooks
  OBVIOUS
<1>3. ASSUME NEW n \in 1 .. Len(s), NEW v \in FitBooks
      PROVE  Step(n, v) \in FitBooks
  <2>1. s[n] \in Changes
    OBVIOUS
  <2> QED
    BY <2>1, UpdateFits
<1> HIDE DEF Step, base
<1>4. PICK g \in [0 .. Len(s) -> FitBooks] :
         /\ g[0] = base
         /\ \A i \in 1 .. Len(s) : g[i] = h[i][g[i - 1]]
  <2>1. h \in [1 .. Len(s) -> [FitBooks -> FitBooks]]
    BY <1>3
  <2> HIDE DEF h, Def, F
  <2>2. \E g : Iterates(g, Len(s), FitBooks, base, h)
    BY <1>2, <2>1, RecursionExists
  <2> QED
    BY <2>2 DEF Iterates
<1>5. g = Def(g)
  <2>1. ASSUME NEW i \in 1 .. Len(s)
        PROVE  g[i] = Step(i, g[i - 1])
    <3>1. i - 1 \in 0 .. Len(s)
      BY <1>2
    <3>2. g[i - 1] \in FitBooks
      BY <3>1
    <3> QED
      BY <1>4, <3>2
  <2>2. \A i \in 0 .. Len(s) : i # 0 => i \in 1 .. Len(s)
    BY <1>2
  <2> QED
    BY <1>2, <1>4, <2>1, <2>2
<1>6. F = Def(F)
  <2> HIDE DEF Def
  <2> QED
    BY <1>5
<1> HIDE DEF F
<1>7. F[0] = base /\ \A n \in 1 .. Len(s) : F[n] = Step(n, F[n - 1])
  <2> DEFINE E == Def(F)
  <2>1. \A n \in 0 .. Len(s) : E[n] = IF n = 0 THEN base ELSE Step(n, F[n - 1])
    OBVIOUS
  <2>2. F = E
    BY <1>6
  <2> HIDE DEF E, Def
  <2>3. 0 \in 0 .. Len(s) /\ \A n \in 1 .. Len(s) : n \in 0 .. Len(s) /\ n # 0
    BY <1>2
  <2> QED
    BY <2>1, <2>2, <2>3
<1> DEFINE T == {n \in 0 .. Len(s) : F[n] \in FitBooks}
<1>8. 0 \in T
  BY <1>2, <1>7
<1>9. ASSUME NEW n \in 1 .. Len(s), n - 1 \in T
      PROVE  n \in T
  BY <1>2, <1>3, <1>7, <1>9
<1>10. \A n \in 0 .. Len(s) : n \in T
  <2> DEFINE N == Len(s)
  <2>1. N \in Nat /\ \A n \in 1 .. N : n - 1 \in T => n \in T
    BY <1>2, <1>9
  <2> HIDE DEF T, N
  <2>2. \A n \in 0 .. N : n \in T
    BY <1>8, <2>1, UpToInduction
  <2> QED
    BY <2>2 DEF N
<1>11. \A n \in 1 .. Len(s) : F[n] = UpdateOrderBook(F[n - 1], s[n])
  BY <1>7 DEF Step
<1>12. FoldedBy(F, b, s)
  BY <1>1, <1>7, <1>10, <1>11 DEF base, FoldedBy
<1> QED
  BY <1>12

\* The changes that put an order into the book.
Lists(pc, o) == Opens(pc, o) \/ (pc.type = "reset" /\ Listed(ResetBook(pc), o))

\* One change: an order it neither opens nor brings with a full order book does
\* not get into the book, and a message that does not name an order leaves it be.
LEMMA UpdateUnlisted ==
    ASSUME NEW b \in FitBooks, NEW pc \in Changes, NEW o \in Orders
    PROVE  /\ ~Listed(b, o) /\ ~Lists(pc, o) => ~Listed(UpdateOrderBook(b, pc), o)
           /\ pc.type # "reset" /\ o \notin Names(pc) => Less(UpdateOrderBook(b, pc), b, o, 0)
<1>1. Fits(b)
  BY DEF FitBooks
<1>2. CASE pc \in Messages
  <2>1. UpdateOrderBook(b, pc) = ApplyChange(b, pc) /\ pc.type # "reset"
    BY <1>2, UpdateFits
  <2>2. ~Opens(pc, o) => Less(ApplyChange(b, pc), b, o, Drop(b, pc, o))
    BY <1>1, <1>2, ApplyEffect
  <2>3. ~Lists(pc, o) => ~Opens(pc, o)
    BY DEF Lists
  <2>4. ASSUME o \notin Names(pc)
        PROVE  ~Opens(pc, o) /\ Drop(b, pc, o) = 0
    <3>1. CASE pc \in MatchMessages
      <4>1. pc.type = "match" /\ o \notin {pc.maker, pc.taker}
        BY <2>4, <3>1 DEF MatchMessages, Names, About
      <4> QED
        BY <4>1 DEF Opens, Drop
    <3>2. CASE pc \in OrderMessages
      <4>1. pc.type # "match" /\ pc.type # "reset" /\ o # pc.order_id
        BY <2>4, <3>2 DEF OrderMessages, Names, About
      <4> QED
        BY <4>1 DEF Opens, Drop
    <3> QED
      BY <1>2, <3>1, <3>2 DEF Messages
  <2> QED
    BY <2>1, <2>2, <2>3, <2>4 DEF Less
<1>3. CASE pc \in Resets
  <2>1. UpdateOrderBook(b, pc) = ResetBook(pc) /\ pc.type = "reset"
    BY <1>3, UpdateFits
  <2> QED
    BY <2>1 DEF Lists
<1> QED
  BY <1>2, <1>3 DEF Changes

\* Two books that differ in the size of an order still differ by as much after a
\* change, if it is no full order book and no match that takes the order.
LEMMA UpdateLess ==
    ASSUME NEW a \in FitBooks, NEW b \in FitBooks, NEW pc \in Changes, NEW o \in Orders,
           NEW n \in Int, Less(a, b, o, n),
           pc.type = "reset" => n = 0,
           pc.type = "match" => pc.taker # o
    PROVE  Less(UpdateOrderBook(a, pc), UpdateOrderBook(b, pc), o, n)
<1>0. Fits(a) /\ Fits(b) /\ a \in Books /\ b \in Books
  BY DEF FitBooks
<1> DEFINE c == UpdateOrderBook(a, pc)
           d == UpdateOrderBook(b, pc)
<1>1. CASE pc \in Resets
  <2>1. c = d /\ pc.type = "reset" /\ d \in Books
    BY <1>1, UpdateFits DEF FitBooks
  <2> HIDE DEF c, d
  <2>2. Less(c, d, o, 0)
    BY <2>1, LessRefl
  <2> QED
    BY <2>1, <2>2 DEF c, d
<1>2. CASE pc \in Messages /\ ~Opens(pc, o)
  <2>1. c = ApplyChange(a, pc) /\ d = ApplyChange(b, pc)
    BY <1>2, UpdateFits
  <2>2. Less(c, a, o, Drop(a, pc, o)) /\ Less(d, b, o, Drop(b, pc, o))
    BY <1>0, <1>2, <2>1, ApplyEffect
  <2>3. Drop(a, pc, o) = Drop(b, pc, o) /\ Drop(a, pc, o) \in Int
    <3>1. Listed(a, o) <=> Listed(b, o)
      BY DEF Less
    <3>2. pc.type = "match" => pc.size \in Int
      BY <1>2 DEF Messages, OrderMessages, MatchMessages
    <3> QED
      BY <3>1, <3>2 DEF Drop
  <2> DEFINE m == Drop(a, pc, o)
  <2>4. Less(c, a, o, m) /\ Less(d, b, o, m) /\ m \in Int
    BY <2>2, <2>3
  <2> HIDE DEF c, d, m
  <2>5. /\ Listed(a, o) => SizeOf(a, o) \in Int
        /\ Listed(b, o) => SizeOf(b, o) \in Int
    BY <1>0, OwnTypes
  <2>6. Less(c, d, o, n)
    BY <2>4, <2>5 DEF Less
  <2> QED
    BY <2>6 DEF c, d
<1>3. CASE pc \in Messages /\ Opens(pc, o)
  <2>1. c = ApplyChange(a, pc) /\ d = ApplyChange(b, pc)
    BY <1>3, UpdateFits
  <2>2. pc \in OrderMessages /\ pc.type = "open" /\ pc.order_id = o /\ pc.size \in Int
    BY <1>3 DEF Messages, OrderMessages, MatchMessages, Opens
  <2> HIDE DEF c, d
  <2>3. CASE Listed(b, o)
    <3>1. Listed(a, o)
      BY <2>3 DEF Less
    <3>2. /\ Listed(c, o) /\ SizeOf(c, o) = SizeOf(a, o) /\ ~Once(c, o)
          /\ Listed(d, o) /\ SizeOf(d, o) = SizeOf(b, o) /\ ~Once(d, o)
      BY <1>0, <2>1, <2>2, <2>3, <3>1, OpenEffect
    <3>3. Less(c, d, o, n)
      BY <2>3, <3>2 DEF Less
    <3> QED
      BY <3>3 DEF c, d
  <2>4. CASE ~Listed(b, o)
    <3>1. ~Listed(a, o) /\ n = 0
      BY <2>4 DEF Less
    <3>2. /\ Listed(c, o) /\ SizeOf(c, o) = pc.size /\ Once(c, o)
          /\ Listed(d, o) /\ SizeOf(d, o) = pc.size /\ Once(d, o)
      BY <1>0, <2>1, <2>2, <2>4, <3>1, OpenEffect
    <3>3. Less(c, d, o, n)
      BY <2>2, <3>1, <3>2 DEF Less
    <3> QED
      BY <3>3 DEF c, d
  <2> QED
    BY <2>3, <2>4
<1> QED
  BY <1>1, <1>2, <1>3 DEF Changes

\* The book that a queue makes of a book: the newest change comes first.
After(b, q) == OnProductChanges(b, Reverse(q))

\* A queue in reverse.
LEMMA Reversed ==
    ASSUME NEW q \in Seq(Changes)
    PROVE  /\ Reverse(q) \in Seq(Changes) /\ Len(Reverse(q)) = Len(q)
           /\ \A i \in 1 .. Len(q) : Reverse(q)[i] = q[(Len(q) - i) + 1]
           /\ \A i \in 1 .. Len(q) : \E j \in 1 .. Len(q) : Reverse(q)[i] = q[j]
<1> DEFINE r == Reverse(q)
<1>1. Len(q) \in Nat /\ \A i \in 1 .. Len(q) : q[i] \in Changes
  OBVIOUS
<1>2. r = [i \in 1 .. Len(q) |-> q[(Len(q) - i) + 1]]
  BY DEF Reverse
<1>3. \A i \in 1 .. Len(q) : (Len(q) - i) + 1 \in 1 .. Len(q)
  BY <1>1
<1>4. r \in [1 .. Len(q) -> Changes]
  BY <1>1, <1>2, <1>3
<1>5. r \in Seq(Changes) /\ Len(r) = Len(q)
  <2> HIDE DEF r
  <2> QED
    BY <1>1, <1>4
<1>6. \A i \in 1 .. Len(q) : r[i] = q[(Len(q) - i) + 1]
  BY <1>2
<1> HIDE DEF r
<1>7. \A i \in 1 .. Len(q) : \E j \in 1 .. Len(q) : r[i] = q[j]
  BY <1>3, <1>6
<1> QED
  BY <1>5, <1>6, <1>7 DEF r

\* An empty queue changes nothing.
LEMMA AfterNothing ==
    ASSUME NEW b \in FitBooks
    PROVE  After(b, <<>>) = b
<1>1. <<>> \in Seq(Changes) /\ Len(<<>>) = 0
  OBVIOUS
<1>2. Reverse(<<>>) \in Seq(Changes) /\ Len(Reverse(<<>>)) = 0
  BY <1>1, Reversed
<1>3. PICK F : FoldedBy(F, b, Reverse(<<>>))
  BY <1>2, FoldSteps
<1> QED
  BY <1>2, <1>3 DEF FoldedBy, After

\* The change that was queued last is applied first.
LEMMA AfterOneMore ==
    ASSUME NEW b \in FitBooks, NEW q \in Seq(Changes), NEW pc \in Changes
    PROVE  After(b, Append(q, pc)) = After(UpdateOrderBook(b, pc), q)
<1> DEFINE p == Append(q, pc)
           N == Len(q)
           s == Reverse(q)
           t == Reverse(p)
           c == UpdateOrderBook(b, pc)
<1>1. /\ p \in Seq(Changes) /\ N \in Nat /\ Len(p) = N + 1 /\ p[N + 1] = pc
      /\ \A i \in 1 .. N : p[i] = q[i]
  OBVIOUS
<1> HIDE DEF p
<1>2. /\ s \in Seq(Changes) /\ Len(s) = N
      /\ \A i \in 1 .. N : s[i] = q[(N - i) + 1]
  BY Reversed
<1>3. /\ t \in Seq(Changes) /\ Len(t) = N + 1
      /\ \A i \in 1 .. N + 1 : t[i] = p[((N + 1) - i) + 1]
  <2>1. /\ t \in Seq(Changes) /\ Len(t) = Len(p)
        /\ \A i \in 1 .. Len(p) : t[i] = p[(Len(p) - i) + 1]
    BY <1>1, Reversed
  <2> HIDE DEF t
  <2> QED
    BY <1>1, <2>1
<1>4. c \in FitBooks
  BY UpdateFits
<1> HIDE DEF s, t, c, N
<1>5. t[1] = pc
  <2>1. 1 \in 1 .. N + 1 /\ ((N + 1) - 1) + 1 = N + 1
    BY <1>1
  <2> QED
    BY <1>1, <1>3, <2>1
<1>6. \A i \in 1 .. N : t[i + 1] = s[i]
  <2> SUFFICES ASSUME NEW i \in 1 .. N
               PROVE  t[i + 1] = s[i]
    OBVIOUS
  <2>1. i + 1 \in 1 .. N + 1 /\ ((N + 1) - (i + 1)) + 1 = (N - i) + 1 /\ (N - i) + 1 \in 1 .. N
    BY <1>1
  <2> QED
    BY <1>1, <1>2, <1>3, <2>1
<1>F. PICK F : FoldedBy(F, b, t)
  BY <1>3, FoldSteps
<1>G. PICK G : FoldedBy(G, c, s)
  BY <1>2, <1>4, FoldSteps
<1>7. /\ OnProductChanges(b, t) = F[N + 1] /\ F[0] = b
      /\ \A n \in 1 .. N + 1 : F[n] = UpdateOrderBook(F[n - 1], t[n])
  BY <1>3, <1>F DEF FoldedBy
<1>8. /\ OnProductChanges(c, s) = G[N] /\ G[0] = c
      /\ \A n \in 1 .. N : G[n] = UpdateOrderBook(G[n - 1], s[n])
  BY <1>2, <1>G DEF FoldedBy
<1> DEFINE T == {n \in 0 .. N : F[n + 1] = G[n]}
<1>9. 0 \in T
  <2>1. 1 \in 1 .. N + 1 /\ 1 - 1 = 0 /\ 0 + 1 = 1 /\ 0 \in 0 .. N
    BY <1>1
  <2>2. F[1] = UpdateOrderBook(F[0], t[1])
    BY <1>7, <2>1
  <2> QED
    BY <1>5, <1>7, <1>8, <2>1, <2>2 DEF c
<1>10. ASSUME NEW n \in 1 .. N, n - 1 \in T
       PROVE  n \in T
  <2>1. n + 1 \in 1 .. N + 1 /\ (n + 1) - 1 = n /\ (n - 1) + 1 = n /\ n \in 0 .. N
    BY <1>1
  <2>2. F[n + 1] = UpdateOrderBook(F[n], t[n + 1])
    BY <1>7, <2>1
  <2>3. F[n] = G[n - 1]
    BY <1>10, <2>1
  <2> QED
    BY <1>6, <1>8, <2>1, <2>2, <2>3
<1> HIDE DEF T
<1>11. \A n \in 0 .. N : n \in T
  BY <1>1, <1>9, <1>10, UpToInduction
<1>12. F[N + 1] = G[N]
  <2>1. N \in T
    BY <1>1, <1>11
  <2> QED
    BY <2>1 DEF T
<1> QED
  BY <1>7, <1>8, <1>12 DEF After, s, t, p, c

\* A batch keeps the orders on their sides.
LEMMA AfterFits ==
    ASSUME NEW b \in FitBooks, NEW q \in Seq(Changes)
    PROVE  After(b, q) \in FitBooks
<1> DEFINE s == Reverse(q)
<1>1. s \in Seq(Changes)
  BY Reversed
<1> HIDE DEF s
<1>2. PICK F : FoldedBy(F, b, s)
  BY <1>1, FoldSteps
<1>3. Len(s) \in 0 .. Len(s)
  BY <1>1
<1> QED
  BY <1>2, <1>3 DEF FoldedBy, After, s

\* No change of the queue puts the order into the book.
Unlisted(q, o) == \A i \in 1 .. Len(q) : ~Lists(q[i], o)

\* Then a batch does not list it either.
LEMMA AfterUnlisted ==
    ASSUME NEW b \in FitBooks, NEW q \in Seq(Changes), NEW o \in Orders,
           ~Listed(b, o), Unlisted(q, o)
    PROVE  ~Listed(After(b, q), o)
<1> DEFINE s == Reverse(q)
           N == Len(s)
<1>1. s \in Seq(Changes) /\ N \in Nat /\ \A n \in 1 .. N : s[n] \in Changes /\ ~Lists(s[n], o)
  <2>1. s \in Seq(Changes) /\ N = Len(q) /\ \A i \in 1 .. Len(q) : \E j \in 1 .. Len(q) : s[i] = q[j]
    BY Reversed
  <2> HIDE DEF s
  <2> QED
    BY <2>1 DEF Unlisted
<1> HIDE DEF s
<1>2. PICK F : FoldedBy(F, b, s)
  BY <1>1, FoldSteps
<1>3. /\ After(b, q) = F[N] /\ F[0] = b
      /\ \A n \in 1 .. N : F[n] = UpdateOrderBook(F[n - 1], s[n])
      /\ \A n \in 0 .. N : F[n] \in FitBooks
  BY <1>2 DEF FoldedBy, After, s
<1> HIDE DEF N
<1> DEFINE T == {n \in 0 .. N : ~Listed(F[n], o)}
<1>4. 0 \in T
  BY <1>1, <1>3
<1>5. ASSUME NEW n \in 1 .. N, n - 1 \in T
      PROVE  n \in T
  <2>1. n - 1 \in 0 .. N /\ n \in 0 .. N /\ ~Listed(F[n - 1], o)
    BY <1>1, <1>5
  <2>2. F[n - 1] \in FitBooks /\ s[n] \in Changes /\ ~Lists(s[n], o)
    BY <1>1, <1>3, <2>1
  <2>3. ~Listed(UpdateOrderBook(F[n - 1], s[n]), o)
    BY <2>1, <2>2, UpdateUnlisted
  <2> QED
    BY <1>3, <2>1, <2>3
<1> HIDE DEF T
<1>6. \A n \in 0 .. N : n \in T
  BY <1>1, <1>4, <1>5, UpToInduction
<1>7. N \in T
  BY <1>1, <1>6
<1> QED
  BY <1>3, <1>7 DEF T

\* No message of the queue names the order, and there is no full order book.
Unnamed(q, o) == \A i \in 1 .. Len(q) : q[i].type # "reset" /\ o \notin Names(q[i])

\* Then a batch leaves the order as it was.
LEMMA AfterUnnamed ==
    ASSUME NEW b \in FitBooks, NEW q \in Seq(Changes), NEW o \in Orders, Unnamed(q, o)
    PROVE  Less(After(b, q), b, o, 0)
<1> DEFINE s == Reverse(q)
           N == Len(s)
<1>1. /\ s \in Seq(Changes) /\ N \in Nat
      /\ \A n \in 1 .. N : s[n] \in Changes /\ s[n].type # "reset" /\ o \notin Names(s[n])
  <2>1. s \in Seq(Changes) /\ N = Len(q) /\ \A i \in 1 .. Len(q) : \E j \in 1 .. Len(q) : s[i] = q[j]
    BY Reversed
  <2> HIDE DEF s
  <2> QED
    BY <2>1 DEF Unnamed
<1> HIDE DEF s
<1>2. PICK F : FoldedBy(F, b, s)
  BY <1>1, FoldSteps
<1>3. /\ After(b, q) = F[N] /\ F[0] = b
      /\ \A n \in 1 .. N : F[n] = UpdateOrderBook(F[n - 1], s[n])
      /\ \A n \in 0 .. N : F[n] \in FitBooks
  BY <1>2 DEF FoldedBy, After, s
<1> HIDE DEF N
<1>B. b \in Books
  BY DEF FitBooks
<1> DEFINE T == {n \in 0 .. N : Less(F[n], b, o, 0)}
<1>4. 0 \in T
  BY <1>1, <1>3, <1>B, LessRefl
<1>5. ASSUME NEW n \in 1 .. N, n - 1 \in T
      PROVE  n \in T
  <2>1. n - 1 \in 0 .. N /\ n \in 0 .. N /\ Less(F[n - 1], b, o, 0)
    BY <1>1, <1>5
  <2>2. F[n - 1] \in FitBooks /\ s[n] \in Changes /\ s[n].type # "reset" /\ o \notin Names(s[n])
    BY <1>1, <1>3, <2>1
  <2>3. Less(UpdateOrderBook(F[n - 1], s[n]), F[n - 1], o, 0)
    BY <2>2, UpdateUnlisted
  <2>4. Less(UpdateOrderBook(F[n - 1], s[n]), b, o, 0 + 0)
    BY <1>B, <2>1, <2>3, LessTrans
  <2> QED
    BY <1>3, <2>1, <2>4
<1> HIDE DEF T
<1>6. \A n \in 0 .. N : n \in T
  BY <1>1, <1>4, <1>5, UpToInduction
<1>7. N \in T
  BY <1>1, <1>6
<1> QED
  BY <1>3, <1>7 DEF T

\* The order is no taker of a match of the queue.
NoTaker(q, o) == \A i \in 1 .. Len(q) : q[i].type = "match" => q[i].taker # o

\* Two books that differ in the size of such an order differ by as much after a
\* batch without a full order book.
LEMMA AfterLess ==
    ASSUME NEW a \in FitBooks, NEW b \in FitBooks, NEW q \in Seq(Changes), NEW o \in Orders,
           NEW m \in Int, Less(a, b, o, m), NoTaker(q, o),
           m # 0 => \A i \in 1 .. Len(q) : q[i].type # "reset"
    PROVE  Less(After(a, q), After(b, q), o, m)
<1> DEFINE s == Reverse(q)
           N == Len(s)
<1>1. /\ s \in Seq(Changes) /\ N \in Nat
      /\ \A n \in 1 .. N : /\ s[n] \in Changes
                           /\ s[n].type = "reset" => m = 0
                           /\ s[n].type = "match" => s[n].taker # o
  <2>1. s \in Seq(Changes) /\ N = Len(q) /\ \A i \in 1 .. Len(q) : \E j \in 1 .. Len(q) : s[i] = q[j]
    BY Reversed
  <2> HIDE DEF s
  <2> QED
    BY <2>1 DEF NoTaker
<1> HIDE DEF s
<1>F. PICK F : FoldedBy(F, a, s)
  BY <1>1, FoldSteps
<1>G. PICK G : FoldedBy(G, b, s)
  BY <1>1, FoldSteps
<1>2. /\ After(a, q) = F[N] /\ F[0] = a
      /\ \A n \in 1 .. N : F[n] = UpdateOrderBook(F[n - 1], s[n])
      /\ \A n \in 0 .. N : F[n] \in FitBooks
  BY <1>F DEF FoldedBy, After, s
<1>3. /\ After(b, q) = G[N] /\ G[0] = b
      /\ \A n \in 1 .. N : G[n] = UpdateOrderBook(G[n - 1], s[n])
      /\ \A n \in 0 .. N : G[n] \in FitBooks
  BY <1>G DEF FoldedBy, After, s
<1> HIDE DEF N
<1> DEFINE T == {n \in 0 .. N : Less(F[n], G[n], o, m)}
<1>4. 0 \in T
  BY <1>1, <1>2, <1>3
<1>5. ASSUME NEW n \in 1 .. N, n - 1 \in T
      PROVE  n \in T
  <2>1. n - 1 \in 0 .. N /\ n \in 0 .. N /\ Less(F[n - 1], G[n - 1], o, m)
    BY <1>1, <1>5
  <2>2. F[n - 1] \in FitBooks /\ G[n - 1] \in FitBooks
    BY <1>2, <1>3, <2>1
  <2>3. Less(UpdateOrderBook(F[n - 1], s[n]), UpdateOrderBook(G[n - 1], s[n]), o, m)
    BY <1>1, <2>1, <2>2, UpdateLess
  <2> QED
    BY <1>2, <1>3, <2>1, <2>3
<1> HIDE DEF T
<1>6. \A n \in 0 .. N : n \in T
  BY <1>1, <1>4, <1>5, UpToInduction
<1>7. N \in T
  BY <1>1, <1>6
<1> QED
  BY <1>2, <1>3, <1>7 DEF T

-----------------------------------------------------------------------------
(***************************************************************************)
(* The inductive invariant.                                                *)
(***************************************************************************)
ExchangeTypes ==
    /\ DOMAIN live \subseteq Orders
    /\ \A o \in DOMAIN live : live[o] \in 0 .. MaxSize
    /\ unused \subseteq Orders
    /\ closed \subseteq Orders
    /\ unused \cap (DOMAIN live \cup closed) = {}

FeedTypes ==
    /\ synced \in BOOLEAN
    /\ toMerge \in Seq(Messages)
    /\ snapshot # <<>> => /\ snapshot[1] \in Seq(BookOrder) /\ snapshot[2] \in Seq(BookOrder)
                          /\ InitBook(EmptyBook, snapshot[1], snapshot[2]) \in FitBooks
    /\ synced => snapshot = <<>>
    /\ snapshot = <<>> => toMerge = <<>>
    /\ productChanges \in Seq(Changes)
    /\ book \in FitBooks
    /\ reordered \subseteq Orders

\* The book shows an order once and with a size that is not negative.
Sound(b, o) == Listed(b, o) => SizeOf(b, o) >= 0 /\ Once(b, o)

\* The book has the order if lives does, and not too small; it has it only if
\* lives or gone does.
Current(b, o, lives, gone) ==
    /\ o \in DOMAIN lives /\ lives[o] > 0 => Listed(b, o) /\ SizeOf(b, o) >= lives[o]
    /\ Listed(b, o) => o \in DOMAIN lives \cup gone

\* The change that Resync would queue, and the book it would make.
NextReset ==
    [type |-> "reset", bids |-> snapshot[1], asks |-> snapshot[2], toMerge |-> toMerge]

MergedBook == ResetBook(NextReset)

MergedInv ==
    snapshot # <<>> =>
        \A o \in Orders : /\ Sound(MergedBook, o)
                          /\ Current(MergedBook, o, live, closed)
                          /\ Listed(MergedBook, o) => o \in Names(NextReset)

\* What a change in the queue says of orders that are new to the book b, none of
\* which is in it: only a match may name one, as its taker.
Known(pc, b, new) ==
    /\ pc.type = "match" => pc.maker \notin new /\ ~Listed(b, pc.taker)
    /\ pc.type \notin {"match", "reset"} => pc.order_id \notin new
    /\ pc.type = "reset" => \A o \in Orders : Listed(ResetBook(pc), o) => o \in Names(pc) \ new

QueueInv ==
    /\ \A o \in unused : ~Listed(book, o)
    /\ \A i \in 1 .. Len(productChanges) : Known(productChanges[i], book, unused)

\* The book when the market thread has applied the queue.
Settled == After(book, productChanges)

SettledInv ==
    \A o \in Orders \ Suspect : /\ Sound(Settled, o)
                                /\ synced => Current(Settled, o, live, closed)

SoundInv == \A o \in Orders \ reordered : Sound(book, o)

BookInv ==
    /\ ExchangeTypes
    /\ FeedTypes
    /\ MergedInv
    /\ QueueInv
    /\ SettledInv
    /\ SoundInv

-----------------------------------------------------------------------------
(***************************************************************************)
(* The orders that a batch cannot spoil.                                   *)
(***************************************************************************)

\* A queue that gets longer spoils more orders; the ones that are left have
\* nothing in the queue that the new change could overtake to their harm.
LEMMA Undisturbed ==
    ASSUME NEW q \in Seq(Changes), NEW pc \in Changes, NEW o \in Orders,
           o \notin Disturbed(Append(q, pc))
    PROVE  /\ o \notin Disturbed(q)
           /\ o \in Names(pc) => \A i \in 1 .. Len(q) : q[i].type # "reset"
           /\ pc.type = "reset" => \A i \in 1 .. Len(q) : o \notin Names(q[i])
           /\ Opens(pc, o) => NoTaker(q, o)
<1> DEFINE p == Append(q, pc)
           N == Len(q)
<1>1. /\ N \in Nat /\ DOMAIN q = 1 .. N /\ DOMAIN p = 1 .. N + 1 /\ p[N + 1] = pc
      /\ \A i \in 1 .. N : p[i] = q[i]
  OBVIOUS
<1>2. \A i, j \in DOMAIN p :
         i # j => /\ ~(o \in Names(p[i]) /\ p[j].type = "reset")
                  /\ ~(/\ p[i].type = "match" /\ p[i].taker = o
                       /\ p[j].type = "open" /\ p[j].order_id = o)
  BY DEF Disturbed
<1> HIDE DEF p, N
<1>3. \A i \in 1 .. N : i \in DOMAIN p /\ N + 1 \in DOMAIN p /\ i # N + 1
  BY <1>1
<1>4. o \notin Disturbed(q)
  BY <1>1, <1>2, <1>3 DEF Disturbed
<1>5. \A i \in 1 .. N : /\ ~(o \in Names(pc) /\ q[i].type = "reset")
                        /\ ~(o \in Names(q[i]) /\ pc.type = "reset")
                        /\ ~(/\ q[i].type = "match" /\ q[i].taker = o
                             /\ pc.type = "open" /\ pc.order_id = o)
  BY <1>1, <1>2, <1>3
<1> QED
  BY <1>4, <1>5 DEF N, NoTaker, Opens

\* The taker of a match in the queue is not listed by the rest of the queue.
LEMMA TakerUnlisted ==
    ASSUME NEW q \in Seq(Changes), NEW o \in Orders, o \notin Disturbed(q), ~NoTaker(q, o),
           NEW b, NEW new, \A i \in 1 .. Len(q) : Known(q[i], b, new)
    PROVE  Unlisted(q, o) /\ ~Listed(b, o)
<1>1. DOMAIN q = 1 .. Len(q)
  OBVIOUS
<1>2. PICK i \in 1 .. Len(q) : q[i].type = "match" /\ q[i].taker = o
  BY DEF NoTaker
<1>3. o \in Names(q[i])
  BY <1>2 DEF Names, About
<1>4. ASSUME NEW j \in 1 .. Len(q), Lists(q[j], o)
      PROVE  FALSE
  <2>1. q[j].type \in {"open", "reset"} /\ j # i
    BY <1>2, <1>4 DEF Lists, Opens
  <2>2. q[j].type # "reset"
    BY <1>1, <1>3, <2>1 DEF Disturbed
  <2>3. q[j].type = "open" /\ q[j].order_id = o
    BY <1>4, <2>2 DEF Lists, Opens
  <2> QED
    BY <1>1, <1>2, <2>1, <2>3 DEF Disturbed
<1>5. ~Listed(b, o)
  BY <1>2 DEF Known
<1> QED
  BY <1>4, <1>5 DEF Unlisted

\* An order that is new to the book is not listed by the queue, and only a match
\* that takes it names it.
LEMMA NewUnlisted ==
    ASSUME NEW q \in Seq(Changes), NEW new, NEW b, NEW o \in Orders, o \in new,
           \A i \in 1 .. Len(q) : Known(q[i], b, new)
    PROVE  /\ Unlisted(q, o)
           /\ NoTaker(q, o) => \A i \in 1 .. Len(q) : q[i].type # "reset" => o \notin Names(q[i])
<1>1. ASSUME NEW i \in 1 .. Len(q)
      PROVE  ~Lists(q[i], o)
  BY DEF Known, Lists, Opens
<1>2. ASSUME NoTaker(q, o), NEW i \in 1 .. Len(q), q[i].type # "reset"
      PROVE  o \notin Names(q[i])
  <2>1. Known(q[i], b, new) /\ (q[i].type = "match" => q[i].taker # o)
    BY <1>2 DEF NoTaker
  <2>2. CASE q[i].type = "match"
    BY <2>1, <2>2 DEF Known, Names, About
  <2>3. CASE q[i].type # "match"
    BY <1>2, <2>1, <2>3 DEF Known, Names, About
  <2> QED
    BY <2>2, <2>3
<1> QED
  BY <1>1, <1>2 DEF Unlisted

-----------------------------------------------------------------------------
(***************************************************************************)
(* What a message tells of the exchange.                                   *)
(***************************************************************************)

\* The exchange's book before and after the step that sends the message: an
\* order that is not opened only gets smaller, a match takes its size off the
\* maker, and an opened order is new.
Tells(pc, lives, after, gone, gone2, new) ==
    /\ \A o \in Orders : ~Opens(pc, o) =>
         /\ o \in DOMAIN after => o \in DOMAIN lives /\ lives[o] >= after[o]
         /\ o \in DOMAIN lives \cup gone => o \in DOMAIN after \cup gone2
    /\ pc.type = "match" => /\ pc.maker \in DOMAIN lives /\ pc.maker \in DOMAIN after
                            /\ pc.size >= 1 /\ after[pc.maker] = lives[pc.maker] - pc.size
                            /\ pc.taker \in new
    /\ \A o \in Orders : Opens(pc, o) => /\ o \in DOMAIN after /\ after[o] = pc.size
                                         /\ o \in new

Sizes(lives) == \A o \in DOMAIN lives : lives[o] \in Nat

\* A book that shows the same of an order, or the maker of a match reduced, stays
\* sound and current.
LEMMA StaysCurrent ==
    ASSUME NEW a \in Books, NEW b \in Books, NEW o \in Orders, NEW n \in Int, Less(a, b, o, n),
           NEW pc \in Messages, NEW lives, NEW after, NEW gone, NEW gone2, NEW new,
           Tells(pc, lives, after, gone, gone2, new), Sizes(lives), Sizes(after),
           ~Opens(pc, o), n = 0 \/ (pc.type = "match" /\ pc.maker = o /\ n = pc.size),
           Sound(b, o), Current(b, o, lives, gone)
    PROVE  Sound(a, o) /\ Current(a, o, after, gone2)
<1>1. /\ Listed(a, o) <=> Listed(b, o)
      /\ Listed(b, o) => SizeOf(a, o) = SizeOf(b, o) - n /\ SizeOf(b, o) \in Int
      /\ Once(a, o) <=> Once(b, o)
  BY OwnTypes DEF Less
<1>2. /\ o \in DOMAIN after => o \in DOMAIN lives /\ lives[o] >= after[o]
      /\ o \in DOMAIN lives \cup gone => o \in DOMAIN after \cup gone2
  BY DEF Tells
<1>3. /\ o \in DOMAIN lives => lives[o] \in Nat
      /\ o \in DOMAIN after => after[o] \in Nat
  BY DEF Sizes
<1>4. CASE n = 0
  <2>1. Sound(a, o)
    BY <1>1, <1>4 DEF Sound
  <2>2. Current(a, o, after, gone2)
    BY <1>1, <1>2, <1>3, <1>4 DEF Current
  <2> QED
    BY <2>1, <2>2
<1>5. CASE pc.type = "match" /\ pc.maker = o /\ n = pc.size
  <2>1. o \in DOMAIN lives /\ o \in DOMAIN after /\ n >= 1 /\ after[o] = lives[o] - n
    BY <1>5 DEF Tells
  <2>2. lives[o] > 0 /\ after[o] >= 0
    BY <1>3, <2>1
  <2>3. Listed(b, o) /\ SizeOf(b, o) >= lives[o]
    BY <2>1, <2>2 DEF Current
  <2>4. Listed(a, o) /\ SizeOf(a, o) >= after[o] /\ SizeOf(a, o) >= 0
    BY <1>1, <1>3, <2>1, <2>2, <2>3
  <2>5. Once(a, o)
    BY <1>1, <2>3 DEF Sound
  <2> QED
    BY <2>1, <2>4, <2>5 DEF Sound, Current
<1> QED
  BY <1>4, <1>5

\* A book that shows an opened order as the message has it is sound and current.
LEMMA OpenedCurrent ==
    ASSUME NEW b \in FitBooks, NEW o \in Orders, NEW pc \in Messages, Opens(pc, o), ~Listed(b, o),
           NEW lives, NEW after, NEW gone, NEW gone2, NEW new,
           Tells(pc, lives, after, gone, gone2, new),
           NEW a \in Books, Less(a, ApplyChange(b, pc), o, 0)
    PROVE  Sound(a, o) /\ Current(a, o, after, gone2)
<1> DEFINE c == ApplyChange(b, pc)
<1>1. pc \in OrderMessages /\ pc.type = "open" /\ pc.order_id = o /\ pc.size \in Nat
  BY DEF Messages, OrderMessages, MatchMessages, Opens
<1>2. Listed(c, o) /\ SizeOf(c, o) = pc.size /\ Once(c, o)
  BY <1>1, OpenEffect DEF FitBooks
<1> HIDE DEF c
<1>3. Listed(a, o) /\ SizeOf(a, o) = pc.size /\ Once(a, o)
  BY <1>1, <1>2 DEF Less, c
<1>4. o \in DOMAIN after /\ after[o] = pc.size
  BY DEF Tells
<1> QED
  BY <1>1, <1>3, <1>4 DEF Sound, Current

-----------------------------------------------------------------------------
(***************************************************************************)
(* The steps.                                                              *)
(***************************************************************************)

\* What the invariant says of the book, the queue and the orders.
LEMMA Basics ==
    ASSUME BookInv
    PROVE  /\ book \in FitBooks /\ book \in Books /\ Settled \in FitBooks /\ Settled \in Books
           /\ productChanges \in Seq(Changes) /\ toMerge \in Seq(Messages)
           /\ Len(productChanges) \in Nat
           /\ snapshot # <<>> => /\ ~synced /\ NextReset \in Resets /\ NextReset \in Changes
                                 /\ MergedBook \in FitBooks /\ MergedBook \in Books
           /\ Sizes(live) /\ unused \subseteq Orders
           /\ \A o \in unused : o \notin DOMAIN live \cup closed
<1>1. /\ book \in FitBooks /\ productChanges \in Seq(Changes) /\ toMerge \in Seq(Messages)
      /\ FeedTypes /\ ExchangeTypes
  BY DEF BookInv, FeedTypes
<1>2. Settled \in FitBooks
  BY <1>1, AfterFits DEF Settled
<1>3. ASSUME snapshot # <<>>
      PROVE  /\ ~synced /\ NextReset \in Resets /\ NextReset \in Changes
             /\ MergedBook \in FitBooks /\ MergedBook \in Books
  <2>1. NextReset \in Resets
    BY <1>1, <1>3 DEF NextReset, Resets, FeedTypes
  <2>2. NextReset \in Changes
    BY <2>1 DEF Changes
  <2>3. MergedBook \in FitBooks
    BY <1>1, <2>1, <2>2, UpdateFits DEF MergedBook
  <2> QED
    BY <1>1, <1>3, <2>1, <2>2, <2>3 DEF FeedTypes, FitBooks
<1>4. Sizes(live)
  BY <1>1, BookMirrorAssumption DEF ExchangeTypes, Sizes
<1> QED
  BY <1>1, <1>2, <1>3, <1>4 DEF FitBooks, ExchangeTypes

\* A message that is merged.
LEMMA MessageMerged ==
    ASSUME BookInv, NEW pc \in Messages, snapshot # <<>>, snapshot' = snapshot,
           toMerge' = Append(toMerge, pc), Sizes(live'),
           Tells(pc, live, live', closed, closed', unused)
    PROVE  \A o \in Orders : /\ Sound(MergedBook', o)
                             /\ Current(MergedBook', o, live', closed')
                             /\ Listed(MergedBook', o) => o \in Names(NextReset')
<1> DEFINE M == MergedBook
           N == MergedBook'
<1>1. /\ M \in FitBooks /\ M \in Books /\ Fits(M) /\ toMerge \in Seq(Messages) /\ Sizes(live)
      /\ InitBook(EmptyBook, snapshot[1], snapshot[2]) \in FitBooks
      /\ \A o \in unused : o \notin DOMAIN live \cup closed
  BY Basics DEF FitBooks, BookInv, FeedTypes
<1>2. N = ApplyChange(M, pc)
  <2>1. M = ResetOrderBook(EmptyBook, snapshot[1], snapshot[2], toMerge)
    BY DEF MergedBook, NextReset, ResetBook
  <2>2. N = ResetOrderBook(EmptyBook, snapshot[1], snapshot[2], Append(toMerge, pc))
    BY DEF MergedBook, NextReset, ResetBook
  <2> QED
    BY <1>1, <2>1, <2>2, MergeOneMore
<1>3. \A o \in Orders : /\ Sound(M, o) /\ Current(M, o, live, closed)
                        /\ Listed(M, o) => o \in Names(NextReset)
  BY DEF BookInv, MergedInv
<1>4. Names(NextReset) \cup About(pc) \subseteq Names(NextReset')
  <2> DEFINE t == Append(toMerge, pc)
  <2>1. /\ DOMAIN t = 1 .. Len(toMerge) + 1 /\ DOMAIN toMerge = 1 .. Len(toMerge)
        /\ Len(toMerge) \in Nat /\ t[Len(toMerge) + 1] = pc
        /\ \A i \in 1 .. Len(toMerge) : t[i] = toMerge[i]
    BY <1>1
  <2> HIDE DEF t
  <2>2. /\ \A i \in DOMAIN toMerge : i \in DOMAIN t /\ t[i] = toMerge[i]
        /\ Len(toMerge) + 1 \in DOMAIN t
    BY <2>1
  <2>3. (UNION {About(toMerge[i]) : i \in DOMAIN toMerge}) \cup About(pc)
          \subseteq UNION {About(t[i]) : i \in DOMAIN t}
    BY <2>1, <2>2
  <2>4. NextReset' = [type |-> "reset", bids |-> snapshot[1], asks |-> snapshot[2], toMerge |-> t]
    BY DEF NextReset, t
  <2> QED
    BY <2>3, <2>4 DEF Names, NextReset
<1> HIDE DEF M
<1>5. N \in Books
  BY <1>1, <1>2, ApplyEffect DEF Fits
<1> HIDE DEF N
<1>6. ASSUME NEW o \in Orders
      PROVE  Sound(N, o) /\ Current(N, o, live', closed') /\ (Listed(N, o) => o \in Names(NextReset'))
  <2>1. CASE Opens(pc, o)
    <3>1. o \in unused
      BY <2>1 DEF Tells
    <3>2. ~Listed(M, o)
      BY <1>1, <1>3, <3>1 DEF Current
    <3>3. Less(N, ApplyChange(M, pc), o, 0)
      BY <1>2, <1>5, LessRefl
    <3>4. Sound(N, o) /\ Current(N, o, live', closed')
      BY <1>1, <1>5, <2>1, <3>2, <3>3, OpenedCurrent
    <3>5. o \in About(pc)
      BY <2>1 DEF Opens, About
    <3> QED
      BY <1>4, <3>4, <3>5
  <2>2. CASE ~Opens(pc, o)
    <3> DEFINE n == Drop(M, pc, o)
    <3>1. Less(N, M, o, n)
      BY <1>1, <1>2, <2>2, ApplyEffect
    <3>2. n \in Int /\ (n = 0 \/ (pc.type = "match" /\ pc.maker = o /\ n = pc.size))
      <4>1. pc.type = "match" => pc.size \in Int
        BY DEF Messages, OrderMessages, MatchMessages
      <4>2. pc.type = "match" => pc.taker \in unused
        BY DEF Tells
      <4>3. pc.type = "match" /\ o = pc.taker => ~Listed(M, o)
        BY <1>1, <1>3, <4>2 DEF Current
      <4> QED
        BY <4>1, <4>3 DEF Drop
    <3> HIDE DEF n
    <3>3. Sound(N, o) /\ Current(N, o, live', closed')
      BY <1>1, <1>3, <1>5, <2>2, <3>1, <3>2, StaysCurrent
    <3>4. Listed(N, o) => o \in Names(NextReset)
      BY <1>3, <3>1 DEF Less
    <3> QED
      BY <1>4, <3>3, <3>4
  <2> QED
    BY <2>1, <2>2
<1> QED
  BY <1>6 DEF N

\* A message that is queued.
LEMMA MessageQueued ==
    ASSUME BookInv, NEW pc \in Messages, synced, book' = book, reordered' = reordered,
           productChanges' = Append(productChanges, pc), Sizes(live'),
           Tells(pc, live, live', closed, closed', unused),
           NEW o \in Orders, o \notin Suspect'
    PROVE  Sound(Settled', o) /\ Current(Settled', o, live', closed')
<1> DEFINE q == productChanges
           S == Settled
           U == Settled'
           b == book
           c == UpdateOrderBook(b, pc)
<1>1. /\ b \in FitBooks /\ b \in Books /\ Fits(b) /\ q \in Seq(Changes) /\ pc \in Changes
      /\ S \in FitBooks /\ S \in Books /\ Sizes(live)
      /\ \A x \in unused : ~Listed(b, x)
      /\ \A i \in 1 .. Len(q) : Known(q[i], b, unused)
  BY Basics DEF FitBooks, Changes, BookInv, QueueInv
<1>2. c = ApplyChange(b, pc) /\ c \in FitBooks /\ c \in Books /\ pc.type # "reset"
  BY <1>1, UpdateFits DEF FitBooks
<1>3. S = After(b, q) /\ U = After(c, q)
  <2>1. U = After(b, Append(q, pc))
    BY DEF Settled
  <2> QED
    BY <1>1, <2>1, AfterOneMore DEF Settled
<1>4. U \in Books
  BY <1>1, <1>2, <1>3, AfterFits DEF FitBooks
<1>5. o \notin Disturbed(Append(q, pc)) /\ o \notin Disturbed(q) /\ o \notin Suspect
  <2>1. o \notin Disturbed(Append(q, pc))
    BY DEF Suspect
  <2>2. o \notin Disturbed(q)
    BY <1>1, <2>1, Undisturbed
  <2>3. HasReset(Append(q, pc)) => HasReset(q)
    <3>1. DOMAIN q = 1 .. Len(q) /\ Len(q) \in Nat /\ DOMAIN Append(q, pc) = 1 .. Len(q) + 1
      BY <1>1
    <3>2. \A i \in DOMAIN Append(q, pc) : Append(q, pc)[i] = IF i \in DOMAIN q THEN q[i] ELSE pc
      BY <1>1, <3>1
    <3> QED
      BY <1>2, <3>2 DEF HasReset
  <2> QED
    BY <2>1, <2>2, <2>3 DEF Suspect
<1>6. Sound(S, o) /\ Current(S, o, live, closed)
  BY <1>5 DEF BookInv, SettledInv
<1>7. /\ o \in Names(pc) => \A i \in 1 .. Len(q) : q[i].type # "reset"
      /\ Opens(pc, o) => NoTaker(q, o)
  BY <1>1, <1>5, Undisturbed
<1> HIDE DEF S, U, c, q, b
<1>8. CASE Opens(pc, o)
  <2>1. o \in unused
    BY <1>8 DEF Tells
  <2>2. ~Listed(b, o)
    BY <1>1, <2>1
  <2>3. o \in Names(pc)
    BY <1>2, <1>8 DEF Opens, Names, About
  <2>4. Unnamed(q, o)
    <3>1. \A i \in 1 .. Len(q) : q[i].type # "reset" => o \notin Names(q[i])
      BY <1>1, <1>7, <1>8, <2>1, NewUnlisted
    <3> QED
      BY <1>7, <2>3, <3>1 DEF Unnamed
  <2>5. Less(U, c, o, 0)
    BY <1>1, <1>2, <1>3, <2>4, AfterUnnamed
  <2> QED
    BY <1>1, <1>2, <1>4, <1>8, <2>2, <2>5, OpenedCurrent DEF U
<1>9. CASE ~Opens(pc, o)
  <2> DEFINE n == Drop(b, pc, o)
  <2>1. Less(c, b, o, n)
    BY <1>1, <1>2, <1>9, ApplyEffect
  <2>2. n \in Int /\ (n = 0 \/ (pc.type = "match" /\ pc.maker = o /\ n = pc.size))
    <3>1. pc.type = "match" => pc.size \in Int
      BY DEF Messages, OrderMessages, MatchMessages
    <3>2. pc.type = "match" => pc.taker \in unused
      BY DEF Tells
    <3>3. pc.type = "match" /\ o = pc.taker => ~Listed(b, o)
      BY <1>1, <3>2
    <3> QED
      BY <3>1, <3>3 DEF Drop
  <2> HIDE DEF n
  <2>3. CASE NoTaker(q, o)
    <3>1. n # 0 => \A i \in 1 .. Len(q) : q[i].type # "reset"
      <4>1. n # 0 => o \in Names(pc)
        BY <2>2 DEF Names, About
      <4> QED
        BY <1>7, <4>1
    <3>2. Less(U, S, o, n)
      BY <1>1, <1>2, <1>3, <2>1, <2>2, <2>3, <3>1, AfterLess
    <3> QED
      BY <1>1, <1>4, <1>6, <1>9, <2>2, <3>2, StaysCurrent DEF U
  <2>4. CASE ~NoTaker(q, o)
    <3>1. Unlisted(q, o) /\ ~Listed(b, o)
      BY <1>1, <1>5, <2>4, TakerUnlisted
    <3>2. ~Listed(c, o)
      BY <2>1, <3>1 DEF Less
    <3>3. ~Listed(S, o) /\ ~Listed(U, o)
      BY <1>1, <1>2, <1>3, <3>1, <3>2, AfterUnlisted
    <3>4. Less(U, S, o, 0)
      BY <1>1, <1>4, <3>3, LessUnlisted
    <3> QED
      BY <1>1, <1>4, <1>6, <1>9, <3>4, StaysCurrent DEF U
  <2> QED
    BY <2>3, <2>4
<1> QED
  BY <1>8, <1>9

\* A message keeps the invariant, wherever it goes.
LEMMA Delivered ==
    ASSUME BookInv, NEW pc \in Messages, Deliver(pc), ExchangeTypes', unused' \subseteq unused,
           pc.type # "match" => pc.order_id \notin unused',
           Tells(pc, live, live', closed, closed', unused)
    PROVE  BookInv'
<1>1. UNCHANGED <<synced, snapshot, book, reordered>>
  BY DEF Deliver
<1>2. /\ productChanges \in Seq(Changes) /\ toMerge \in Seq(Messages) /\ pc \in Changes
      /\ FeedTypes /\ pc.type # "reset" /\ Sizes(live)
  BY Basics DEF BookInv, Changes, Messages, OrderMessages, MatchMessages
<1>3. Sizes(live')
  BY BookMirrorAssumption DEF ExchangeTypes, Sizes
<1>4. FeedTypes'
  <2>1. /\ toMerge' \in Seq(Messages) /\ (snapshot = <<>> => toMerge' = <<>>)
        /\ productChanges' \in Seq(Changes)
    BY <1>2 DEF Deliver, FeedTypes
  <2> QED
    BY <1>1, <1>2, <2>1 DEF FeedTypes
<1>5. MergedInv'
  <2> SUFFICES ASSUME snapshot # <<>>
               PROVE  \A o \in Orders : /\ Sound(MergedBook', o)
                                        /\ Current(MergedBook', o, live', closed')
                                        /\ Listed(MergedBook', o) => o \in Names(NextReset')
    BY <1>1 DEF MergedInv
  <2>1. toMerge' = Append(toMerge, pc)
    BY Basics DEF Deliver
  <2> QED
    BY <1>1, <1>3, <2>1, MessageMerged
<1>6. QueueInv'
  <2>1. \A o \in unused' : ~Listed(book', o)
    BY <1>1 DEF BookInv, QueueInv
  <2>2. ASSUME NEW x, Known(x, book, unused)
        PROVE  Known(x, book', unused')
    BY <1>1, <2>2 DEF Known
  <2>3. Known(pc, book', unused')
    <3>1. CASE pc.type = "match"
      <4>1. pc.maker \in DOMAIN live /\ pc.taker \in unused
        BY <3>1 DEF Tells
      <4>2. pc.maker \notin unused' /\ ~Listed(book, pc.taker)
        BY <4>1, Basics DEF BookInv, QueueInv
      <4> QED
        BY <1>1, <3>1, <4>2 DEF Known
    <3>2. CASE pc.type # "match"
      BY <1>2, <3>2 DEF Known
    <3> QED
      BY <3>1, <3>2
  <2>4. \A i \in 1 .. Len(productChanges') : Known(productChanges'[i], book', unused')
    <3>1. \A i \in 1 .. Len(productChanges) : Known(productChanges[i], book', unused')
      BY <2>2 DEF BookInv, QueueInv
    <3>2. CASE ~synced
      BY <3>1, <3>2 DEF Deliver
    <3>3. CASE synced
      <4>1. productChanges' = Append(productChanges, pc)
        BY <3>3 DEF Deliver
      <4>2. /\ Len(productChanges') = Len(productChanges) + 1 /\ Len(productChanges) \in Nat
            /\ \A i \in 1 .. Len(productChanges) + 1 :
                 productChanges'[i] = IF i = Len(productChanges) + 1 THEN pc ELSE productChanges[i]
        BY <1>2, <4>1
      <4>3. \A i \in 1 .. Len(productChanges) + 1 :
              i = Len(productChanges) + 1 \/ i \in 1 .. Len(productChanges)
        BY <4>2
      <4> QED
        BY <2>3, <3>1, <4>2, <4>3
    <3> QED
      BY <3>2, <3>3
  <2> QED
    BY <2>1, <2>4 DEF QueueInv
<1>7. SettledInv'
  <2>1. CASE synced
    <3>1. productChanges' = Append(productChanges, pc)
      BY <2>1 DEF Deliver
    <3>2. ASSUME NEW o \in Orders, o \notin Suspect'
          PROVE  Sound(Settled', o) /\ Current(Settled', o, live', closed')
      BY <1>1, <1>3, <2>1, <3>1, <3>2, MessageQueued
    <3> QED
      BY <3>2 DEF SettledInv
  <2>2. CASE ~synced
    <3>1. productChanges' = productChanges /\ ~synced'
      BY <1>1, <2>2 DEF Deliver
    <3>2. Settled' = Settled /\ Suspect' = Suspect
      BY <1>1, <3>1 DEF Settled, Suspect
    <3> QED
      BY <3>1, <3>2 DEF BookInv, SettledInv
  <2> QED
    BY <2>1, <2>2
<1>8. SoundInv'
  BY <1>1 DEF BookInv, SoundInv
<1> QED
  BY <1>4, <1>5, <1>6, <1>7, <1>8 DEF BookInv

-----------------------------------------------------------------------------
(***************************************************************************)
(* The snapshot.                                                           *)
(***************************************************************************)

\* SetToSeq lists a finite set, each element once.
LEMMA SetListed ==
    ASSUME NEW S, IsFiniteSet(S)
    PROVE  /\ Cardinality(S) \in Nat
           /\ SetToSeq(S) \in [1 .. Cardinality(S) -> S]
           /\ \A i, j \in 1 .. Cardinality(S) : SetToSeq(S)[i] = SetToSeq(S)[j] => i = j
           /\ \A x \in S : \E i \in 1 .. Cardinality(S) : SetToSeq(S)[i] = x
<1> DEFINE n == Cardinality(S)
           f == SetToSeq(S)
<1>1. n \in Nat /\ ExistsBijection(1 .. n, S)
  BY FS_CardinalityType
<1>2. \E g \in [1 .. n -> S] : IsInjective(g)
  BY <1>1 DEF ExistsBijection, Bijection, Injection
<1>3. f \in [1 .. n -> S] /\ IsInjective(f)
  BY <1>2 DEF SetToSeq
<1> HIDE DEF f
<1>4. f \in Injection(1 .. n, S)
  BY <1>3 DEF Injection
<1>5. Cardinality(1 .. n) = n
  BY <1>1, FS_Interval
<1>6. f \in Surjection(1 .. n, S)
  BY <1>4, <1>5, FS_Injection
<1>7. \A i, j \in 1 .. n : f[i] = f[j] => i = j
  BY <1>3 DEF IsInjective
<1>8. \A x \in S : \E i \in 1 .. n : f[i] = x
  BY <1>6 DEF Surjection
<1> QED
  BY <1>1, <1>3, <1>7, <1>8 DEF f

\* The orders that a side of the snapshot lists.
Resting(side) == {o \in DOMAIN live : OrderSide[o] = side /\ live[o] > 0}

ListsResting(v, side) ==
    /\ v \in Seq(BookOrder)
    /\ \A i \in 1 .. Len(v) : v[i].order_id \in Resting(side) /\ v[i].size = live[v[i].order_id]
    /\ \A i, j \in 1 .. Len(v) : v[i].order_id = v[j].order_id => i = j
    /\ \A o \in Resting(side) : \E i \in 1 .. Len(v) : v[i].order_id = o

\* A side of the snapshot lists each of its orders once, with its size.
LEMMA SideListed ==
    ASSUME ExchangeTypes, NEW side
    PROVE  ListsResting(SideOf(side), side)
<1> DEFINE S == Resting(side)
           ids == SetToSeq(S)
           n == Cardinality(S)
           v == [i \in DOMAIN ids |-> [order_id |-> ids[i], size |-> live[ids[i]]]]
<1>1. SideOf(side) = v
  BY DEF SideOf, Resting
<1>2. IsFiniteSet(S)
  <2>1. S \in SUBSET Orders
    BY DEF Resting, ExchangeTypes
  <2> QED
    BY <2>1, BookMirrorAssumption, FS_Subset
<1>3. \A o \in S : o \in Orders /\ live[o] \in Int
  BY BookMirrorAssumption DEF Resting, ExchangeTypes
<1> HIDE DEF S
<1>4. /\ n \in Nat /\ ids \in [1 .. n -> S]
      /\ \A i, j \in 1 .. n : ids[i] = ids[j] => i = j
      /\ \A x \in S : \E i \in 1 .. n : ids[i] = x
  BY <1>2, SetListed
<1> HIDE DEF ids, n
<1>5. \A i \in 1 .. n : v[i] = [order_id |-> ids[i], size |-> live[ids[i]]]
  BY <1>4
<1>6. \A i \in 1 .. n : v[i] \in BookOrder /\ v[i].order_id = ids[i] /\ v[i].size = live[ids[i]]
  <2> SUFFICES ASSUME NEW i \in 1 .. n
               PROVE  v[i] \in BookOrder /\ v[i].order_id = ids[i] /\ v[i].size = live[ids[i]]
    OBVIOUS
  <2>1. ids[i] \in S
    BY <1>4
  <2>2. ids[i] \in Orders /\ live[ids[i]] \in Int
    BY <1>3, <2>1
  <2> DEFINE x == ids[i]
             m == live[x]
             z == [order_id |-> x, size |-> m]
  <2>3. v[i] = z
    BY <1>5
  <2> HIDE DEF v, x, m
  <2>4. z \in BookOrder /\ z.order_id = x /\ z.size = m
    BY <2>2 DEF BookOrder, x, m
  <2> HIDE DEF z
  <2> QED
    BY <2>3, <2>4 DEF x, m
<1>7. v \in [1 .. n -> BookOrder]
  BY <1>4, <1>6
<1> HIDE DEF v
<1>8. v \in Seq(BookOrder) /\ Len(v) = n
  BY <1>4, <1>7
<1> QED
  BY <1>1, <1>4, <1>6, <1>8 DEF S, ListsResting

\* The snapshot is a book that shows every order of the exchange as it is.
LEMMA SnapshotCurrent ==
    ASSUME ExchangeTypes,
           NEW b, b = InitBook(EmptyBook, SideOf("Buy"), SideOf("Sell"))
    PROVE  /\ b \in FitBooks
           /\ \A o \in Orders : /\ Sound(b, o) /\ Current(b, o, live, {})
                                /\ Listed(b, o) => o \in Ids(SideOf("Buy")) \cup Ids(SideOf("Sell"))
<1>1. b \in Books /\ \A side \in Side : On(b, side) = SideOf(side)
  <2>1. SideOf("Buy") \in Seq(BookOrder) /\ SideOf("Sell") \in Seq(BookOrder)
    BY SideListed DEF ListsResting
  <2> QED
    BY <2>1 DEF InitBook, Books, On, VectorOf, Side
<1>2. ASSUME NEW side \in Side
      PROVE  ListsResting(On(b, side), side)
  BY <1>1, SideListed
<1>3. b \in FitBooks
  BY <1>1, <1>2 DEF FitBooks, Fits, Resting, ListsResting
<1>4. ASSUME NEW o \in Orders
      PROVE  /\ Sound(b, o) /\ Current(b, o, live, {})
             /\ Listed(b, o) => o \in Ids(SideOf("Buy")) \cup Ids(SideOf("Sell"))
  <2> DEFINE side == OrderSide[o]
             v == Own(b, o)
             k == Find(v, o)
  <2>1. side \in Side /\ v = On(b, side) /\ v = SideOf(side) /\ v \in Seq(BookOrder)
    BY <1>1, OwnSide, OwnTypes DEF Own
  <2>2. /\ \A i \in 1 .. Len(v) : /\ v[i].order_id \in Resting(side)
                                  /\ v[i].size = live[v[i].order_id]
        /\ \A i, j \in 1 .. Len(v) : v[i].order_id = v[j].order_id => i = j
        /\ o \in Resting(side) => \E i \in 1 .. Len(v) : v[i].order_id = o
    <3>1. ListsResting(v, side)
      BY <1>2, <2>1
    <3> HIDE DEF v, side
    <3> QED
      BY <3>1 DEF ListsResting
  <2>3. Once(b, o)
    BY <2>2 DEF Once
  <2>4. o \in DOMAIN live /\ live[o] > 0 <=> o \in Resting(side)
    BY DEF Resting
  <2> HIDE DEF side
  <2>5. ASSUME Listed(b, o)
        PROVE  /\ k \in 1 .. Len(v) /\ v[k].order_id = o /\ o \in Resting(side)
               /\ SizeOf(b, o) = live[o]
    <3>1. k \in 1 .. Len(v) /\ v[k].order_id = o
      BY <1>1, <2>5, OwnTypes
    <3>2. v[k].size = live[o] /\ o \in Resting(side)
      BY <2>2, <3>1
    <3> QED
      BY <3>1, <3>2 DEF SizeOf
  <2>6. o \in Resting(side) => Listed(b, o)
    BY <2>1, <2>2, FindFirst DEF Listed
  <2>7. o \in DOMAIN live => live[o] \in Nat
    BY BookMirrorAssumption DEF ExchangeTypes
  <2>8. Sound(b, o)
    BY <2>3, <2>4, <2>5, <2>7 DEF Sound
  <2>9. Current(b, o, live, {})
    BY <2>4, <2>5, <2>6, <2>7 DEF Current
  <2>10. Listed(b, o) => o \in Ids(SideOf(side))
    BY <2>1, <2>5 DEF Ids
  <2>11. side \in {"Buy", "Sell"}
    BY <2>1 DEF Side
  <2> QED
    BY <2>8, <2>9, <2>10, <2>11
<1> QED
  BY <1>3, <1>4

-----------------------------------------------------------------------------
(***************************************************************************)
(* The theorems.                                                           *)
(***************************************************************************)

\* The invariant holds at the start.
LEMMA BookInit ==
    ASSUME Init
    PROVE  BookInv
<1>1. ExchangeTypes
  BY DEF Init, ExchangeTypes
<1>2. /\ synced = FALSE /\ snapshot = <<>> /\ toMerge = <<>> /\ productChanges = <<>>
      /\ book = EmptyBook /\ reordered = {} /\ unused = Orders
  BY DEF Init
<1>3. book \in Books /\ \A side \in Side : On(book, side) = <<>>
  BY <1>2 DEF EmptyBook, Books, On, VectorOf
<1>4. book \in FitBooks
  <2>1. Len(<<>>) = 0
    OBVIOUS
  <2> QED
    BY <1>3, <2>1 DEF FitBooks, Fits
<1>5. ASSUME NEW o \in Orders
      PROVE  ~Listed(book, o)
  <2>1. Own(book, o) = <<>> /\ <<>> \in Seq(BookOrder) /\ Len(<<>>) = 0
    BY <1>3, OwnSide DEF Own
  <2>2. Find(<<>>, o) \in 0 .. Len(<<>>)
    BY <2>1, FindFirst
  <2> QED
    BY <2>1, <2>2 DEF Listed
<1>6. FeedTypes
  <2>1. <<>> \in Seq(Messages) /\ <<>> \in Seq(Changes)
    OBVIOUS
  <2> QED
    BY <1>2, <1>4, <2>1 DEF FeedTypes
<1>7. QueueInv
  <2>1. Len(<<>>) = 0
    OBVIOUS
  <2> QED
    BY <1>2, <1>5, <2>1 DEF QueueInv
<1>8. Settled = book
  BY <1>2, <1>4, AfterNothing DEF Settled
<1> QED
  BY <1>1, <1>2, <1>5, <1>6, <1>7, <1>8 DEF BookInv, MergedInv, SettledInv, SoundInv, Sound

\* The snapshot is taken.
LEMMA SnapshotStep ==
    ASSUME BookInv, TakeSnapshot
    PROVE  BookInv'
<1>1. /\ ~synced /\ snapshot = <<>> /\ toMerge = <<>> /\ closed' = {}
      /\ snapshot' = <<SideOf("Buy"), SideOf("Sell")>>
      /\ UNCHANGED <<live, unused, synced, toMerge, productChanges, book, reordered>>
  BY DEF TakeSnapshot, BookInv, FeedTypes
<1>2. ExchangeTypes /\ FeedTypes
  BY DEF BookInv
<1>3. SideOf("Buy") \in Seq(BookOrder) /\ SideOf("Sell") \in Seq(BookOrder)
  BY <1>2, SideListed DEF ListsResting
<1>4. snapshot'[1] = SideOf("Buy") /\ snapshot'[2] = SideOf("Sell") /\ snapshot' # <<>>
  BY <1>1
<1> DEFINE b == InitBook(EmptyBook, SideOf("Buy"), SideOf("Sell"))
<1>5. /\ b \in FitBooks
      /\ \A o \in Orders : /\ Sound(b, o) /\ Current(b, o, live, {})
                           /\ Listed(b, o) => o \in Ids(SideOf("Buy")) \cup Ids(SideOf("Sell"))
  BY <1>2, SnapshotCurrent
<1>6. ExchangeTypes'
  BY <1>1, <1>2 DEF ExchangeTypes
<1>7. FeedTypes'
  BY <1>1, <1>2, <1>3, <1>4, <1>5 DEF FeedTypes
<1>8. MergedBook' = b
  <2>1. MergedBook' = ResetOrderBook(EmptyBook, SideOf("Buy"), SideOf("Sell"), <<>>)
    BY <1>1, <1>4 DEF MergedBook, NextReset, ResetBook
  <2> QED
    BY <1>5, <2>1, MergeNothing
<1> HIDE DEF b
<1>9. Ids(SideOf("Buy")) \cup Ids(SideOf("Sell")) \subseteq Names(NextReset')
  <2>1. /\ NextReset'.type = "reset" /\ NextReset'.bids = SideOf("Buy")
        /\ NextReset'.asks = SideOf("Sell")
    BY <1>4 DEF NextReset
  <2> HIDE DEF NextReset
  <2> QED
    BY <2>1 DEF Names
<1>10. MergedInv'
  <2>1. ASSUME NEW o \in Orders
        PROVE  /\ Sound(MergedBook', o) /\ Current(MergedBook', o, live', closed')
               /\ Listed(MergedBook', o) => o \in Names(NextReset')
    <3>1. /\ Sound(b, o) /\ Current(b, o, live, {})
          /\ Listed(b, o) => o \in Ids(SideOf("Buy")) \cup Ids(SideOf("Sell"))
      BY <1>5
    <3>2. live' = live /\ closed' = {}
      BY <1>1
    <3>3. Sound(MergedBook', o) /\ Current(MergedBook', o, live', closed')
      BY <1>8, <3>1, <3>2
    <3>4. Listed(MergedBook', o) => o \in Ids(SideOf("Buy")) \cup Ids(SideOf("Sell"))
      BY <1>8, <3>1
    <3> QED
      BY <1>9, <3>3, <3>4
  <2> QED
    BY <2>1 DEF MergedInv
<1>11. QueueInv'
  BY <1>1 DEF BookInv, QueueInv
<1>12. Settled' = Settled /\ Suspect' = Suspect
  BY <1>1 DEF Settled, Suspect
<1>13. SettledInv' /\ SoundInv'
  BY <1>1, <1>12 DEF BookInv, SettledInv, SoundInv
<1> QED
  BY <1>6, <1>7, <1>10, <1>11, <1>13 DEF BookInv

\* The full order book is queued.
LEMMA ResyncStep ==
    ASSUME BookInv, Resync
    PROVE  BookInv'
<1> DEFINE q == productChanges
           M == MergedBook
           pc == NextReset
           U == Settled'
<1>1. /\ ~synced /\ snapshot # <<>> /\ productChanges' = Append(q, pc) /\ synced' = TRUE
      /\ snapshot' = <<>> /\ toMerge' = <<>>
      /\ UNCHANGED <<live, unused, book, closed, reordered>>
  BY DEF Resync, NextReset
<1>2. /\ book \in FitBooks /\ q \in Seq(Changes) /\ pc \in Resets /\ pc \in Changes
      /\ M \in FitBooks /\ M \in Books /\ Len(q) \in Nat
      /\ \A o \in unused : o \notin DOMAIN live \cup closed
  BY <1>1, Basics
<1>3. \A o \in Orders : /\ Sound(M, o) /\ Current(M, o, live, closed)
                        /\ Listed(M, o) => o \in Names(pc)
  BY <1>1 DEF BookInv, MergedInv
<1>4. UpdateOrderBook(book, pc) = M /\ pc.type = "reset" /\ ResetBook(pc) = M
  BY <1>2, UpdateFits DEF MergedBook
<1> HIDE DEF M, pc
<1>5. U = After(M, q)
  <2>1. U = After(book, Append(q, pc))
    BY <1>1 DEF Settled
  <2> QED
    BY <1>2, <1>4, <2>1, AfterOneMore
<1> HIDE DEF U
<1>6. FeedTypes' /\ ExchangeTypes'
  <2>1. productChanges' \in Seq(Changes) /\ <<>> \in Seq(Messages)
    BY <1>1, <1>2
  <2> QED
    BY <1>1, <2>1 DEF BookInv, FeedTypes, ExchangeTypes
<1>7. MergedInv' /\ SoundInv'
  BY <1>1 DEF MergedInv, BookInv, SoundInv
<1>8. \A i \in 1 .. Len(q) : Known(q[i], book, unused)
  BY DEF BookInv, QueueInv
<1>9. QueueInv'
  <2>1. Known(pc, book, unused)
    <3>1. \A o \in Orders : Listed(M, o) => o \in Names(pc) \ unused
      BY <1>2, <1>3 DEF Current
    <3> QED
      BY <1>4, <3>1 DEF Known
  <2>2. /\ Len(productChanges') = Len(q) + 1
        /\ \A i \in 1 .. Len(q) + 1 :
             productChanges'[i] = IF i = Len(q) + 1 THEN pc ELSE q[i]
    BY <1>1, <1>2
  <2>3. \A i \in 1 .. Len(q) + 1 : i = Len(q) + 1 \/ i \in 1 .. Len(q)
    BY <1>2
  <2>4. \A i \in 1 .. Len(productChanges') : Known(productChanges'[i], book, unused)
    BY <1>8, <2>1, <2>2, <2>3
  <2> QED
    BY <1>1, <2>4 DEF BookInv, QueueInv
<1>10. ASSUME NEW o \in Orders, o \notin Disturbed(Append(q, pc))
       PROVE  Sound(U, o) /\ Current(U, o, live, closed)
  <2>1. /\ o \in Names(pc) => \A i \in 1 .. Len(q) : q[i].type # "reset"
        /\ \A i \in 1 .. Len(q) : o \notin Names(q[i])
    BY <1>2, <1>4, <1>10, Undisturbed
  <2>2. CASE o \in Names(pc)
    <3>1. Unnamed(q, o)
      BY <2>1, <2>2 DEF Unnamed
    <3>2. Less(U, M, o, 0)
      BY <1>2, <1>5, <3>1, AfterUnnamed
    <3>3. Listed(M, o) => SizeOf(M, o) \in Int
      BY <1>2, OwnTypes
    <3> QED
      BY <1>3, <3>2, <3>3 DEF Less, Sound, Current
  <2>3. CASE o \notin Names(pc)
    <3>1. ~Listed(M, o)
      BY <1>3, <2>3
    <3>2. Unlisted(q, o)
      <4> SUFFICES ASSUME NEW i \in 1 .. Len(q), Lists(q[i], o)
                   PROVE  FALSE
        BY DEF Unlisted
      <4>1. CASE Opens(q[i], o)
        <5>1. o \in Names(q[i])
          BY <4>1 DEF Opens, Names, About
        <5> QED
          BY <2>1, <5>1
      <4>2. CASE q[i].type = "reset" /\ Listed(ResetBook(q[i]), o)
        <5>1. o \in Names(q[i])
          BY <1>8, <4>2 DEF Known
        <5> QED
          BY <2>1, <5>1
      <4> QED
        BY <4>1, <4>2 DEF Lists
    <3>3. ~Listed(U, o)
      BY <1>2, <1>5, <3>1, <3>2, AfterUnlisted
    <3> QED
      BY <1>3, <3>1, <3>3 DEF Sound, Current
  <2> QED
    BY <2>2, <2>3
<1>11. SettledInv'
  <2> SUFFICES ASSUME NEW o \in Orders, o \notin Suspect'
               PROVE  Sound(Settled', o) /\ Current(Settled', o, live', closed')
    BY DEF SettledInv
  <2>1. o \notin Disturbed(Append(q, pc))
    BY <1>1 DEF Suspect, pc
  <2> QED
    BY <1>1, <1>10, <2>1 DEF U
<1> QED
  BY <1>6, <1>7, <1>9, <1>11 DEF BookInv

\* The market thread applies its batch.
LEMMA ProcessStep ==
    ASSUME BookInv, ProcessProductChanges
    PROVE  BookInv'
<1>1. /\ book' = Settled /\ productChanges' = <<>> /\ reordered' = Suspect
      /\ UNCHANGED <<live, unused, synced, snapshot, toMerge, closed>>
  BY DEF ProcessProductChanges, Settled, After
<1>2. /\ book \in FitBooks /\ Settled \in FitBooks /\ productChanges \in Seq(Changes)
      /\ unused \subseteq Orders /\ reordered \subseteq Orders
  BY Basics DEF BookInv, FeedTypes
<1>3. Suspect \subseteq Orders
  BY <1>2 DEF Suspect, Disturbed
<1>4. Settled' = Settled
  BY <1>1, <1>2, AfterNothing DEF Settled
<1>5. Suspect' = Suspect
  <2>1. DOMAIN <<>> = {}
    OBVIOUS
  <2>2. ~HasReset(<<>>) /\ Disturbed(<<>>) = {}
    BY <2>1 DEF HasReset, Disturbed
  <2>3. Suspect' = reordered'
    BY <1>1, <2>2 DEF Suspect
  <2> QED
    BY <1>1, <2>3
<1>6. ExchangeTypes' /\ FeedTypes' /\ MergedInv'
  <2>1. <<>> \in Seq(Changes)
    OBVIOUS
  <2>2. MergedBook' = MergedBook /\ NextReset' = NextReset
    BY <1>1 DEF MergedBook, NextReset
  <2>3. MergedInv'
    BY <1>1, <2>2 DEF BookInv, MergedInv
  <2> QED
    BY <1>1, <1>2, <1>3, <2>1, <2>3 DEF BookInv, ExchangeTypes, FeedTypes
<1>7. QueueInv'
  <2>1. Len(<<>>) = 0
    OBVIOUS
  <2>2. ASSUME NEW o \in unused
        PROVE  ~Listed(Settled, o)
    <3>1. ~Listed(book, o) /\ \A i \in 1 .. Len(productChanges) : Known(productChanges[i], book, unused)
      BY DEF BookInv, QueueInv
    <3>2. Unlisted(productChanges, o)
      BY <1>2, <3>1, NewUnlisted
    <3> QED
      BY <1>2, <3>1, <3>2, AfterUnlisted DEF Settled
  <2> QED
    BY <1>1, <2>1, <2>2 DEF QueueInv
<1>8. SettledInv'
  BY <1>1, <1>4, <1>5 DEF BookInv, SettledInv
<1>9. SoundInv'
  BY <1>1 DEF BookInv, SettledInv, SoundInv
<1> QED
  BY <1>6, <1>7, <1>8, <1>9 DEF BookInv

\* Every step preserves the invariant.
LEMMA BookStep ==
    ASSUME BookInv, [Next]_vars
    PROVE  BookInv'
<1>0. /\ ExchangeTypes /\ OrderSide \in [Orders -> Side]
      /\ \A o \in DOMAIN live : o \in Orders /\ live[o] \in Nat /\ live[o] \in 0 .. MaxSize
      /\ \A o \in unused : o \in Orders /\ o \notin DOMAIN live \cup closed
      /\ MaxSize \in Nat
  BY BookMirrorAssumption DEF BookInv, ExchangeTypes
<1>1. ASSUME NEW o \in Orders, NEW size \in 1 .. MaxSize, Open(o, size)
      PROVE  BookInv'
  <2> DEFINE pc == [type |-> "open", order_id |-> o, size |-> size, side |-> OrderSide[o]]
  <2>1. /\ Deliver(pc) /\ o \in unused /\ UNCHANGED closed /\ unused' = unused \ {o}
        /\ live' = [id \in DOMAIN live \cup {o} |-> IF id = o THEN size ELSE live[id]]
    BY <1>1 DEF Open
  <2>2. size \in Nat /\ OrderSide[o] \in Side
    BY <1>0
  <2>3. pc \in Messages
    BY <2>2 DEF Messages, OrderMessages
  <2>4. /\ DOMAIN live' = DOMAIN live \cup {o} /\ live'[o] = size
        /\ \A id \in DOMAIN live : id # o => live'[id] = live[id]
    BY <2>1
  <2>5. ExchangeTypes'
    BY <1>0, <2>1, <2>2, <2>4 DEF ExchangeTypes
  <2>6. /\ pc.type = "open" /\ pc.order_id = o /\ pc.size = size
        /\ \A id : Opens(pc, id) <=> id = o
    BY DEF Opens
  <2> HIDE DEF pc
  <2>7. Tells(pc, live, live', closed, closed', unused)
    BY <1>0, <2>1, <2>4, <2>6 DEF Tells
  <2> QED
    BY <2>1, <2>3, <2>5, <2>6, <2>7, Delivered
<1>2. ASSUME NEW o \in Orders, Done(o)
      PROVE  BookInv'
  <2> DEFINE pc == [type |-> "done", order_id |-> o, side |-> OrderSide[o]]
  <2>1. /\ Deliver(pc) /\ o \in DOMAIN live /\ UNCHANGED unused /\ closed' = closed \cup {o}
        /\ live' = [id \in DOMAIN live \ {o} |-> live[id]]
    BY <1>2 DEF Done
  <2>2. OrderSide[o] \in Side
    BY <1>0
  <2>3. pc \in Messages
    BY <2>2 DEF Messages, OrderMessages
  <2>4. DOMAIN live' = DOMAIN live \ {o} /\ \A id \in DOMAIN live' : live'[id] = live[id]
    BY <2>1
  <2>5. ExchangeTypes'
    BY <1>0, <2>1, <2>4 DEF ExchangeTypes
  <2>6. pc.type = "done" /\ pc.order_id = o /\ \A id : ~Opens(pc, id)
    BY DEF Opens
  <2> HIDE DEF pc
  <2>7. Tells(pc, live, live', closed, closed', unused)
    BY <1>0, <2>1, <2>4, <2>6 DEF Tells
  <2> QED
    BY <1>0, <2>1, <2>3, <2>5, <2>6, <2>7, Delivered
<1>3. ASSUME NEW o \in Orders, DoneUnopened(o)
      PROVE  BookInv'
  <2> DEFINE pc == [type |-> "done", order_id |-> o, side |-> OrderSide[o]]
  <2>1. Deliver(pc) /\ o \in unused /\ UNCHANGED <<live, closed>> /\ unused' = unused \ {o}
    BY <1>3 DEF DoneUnopened
  <2>2. OrderSide[o] \in Side
    BY <1>0
  <2>3. pc \in Messages
    BY <2>2 DEF Messages, OrderMessages
  <2>5. ExchangeTypes'
    BY <1>0, <2>1 DEF ExchangeTypes
  <2>6. pc.type = "done" /\ pc.order_id = o /\ \A id : ~Opens(pc, id)
    BY DEF Opens
  <2> HIDE DEF pc
  <2>7. Tells(pc, live, live', closed, closed', unused)
    BY <1>0, <2>1, <2>6 DEF Tells
  <2> QED
    BY <2>1, <2>3, <2>5, <2>6, <2>7, Delivered
<1>4. ASSUME NEW o \in Orders, NEW taker \in Orders, NEW size \in 1 .. MaxSize,
             Match(o, taker, size)
      PROVE  BookInv'
  <2> DEFINE side == IF MatchSide = "maker" THEN OrderSide[o] ELSE OrderSide[taker]
             pc == [type |-> "match", maker |-> o, taker |-> taker, size |-> size, side |-> side]
  <2>1. /\ Deliver(pc) /\ o \in DOMAIN live /\ taker \in unused /\ UNCHANGED <<unused, closed>>
        /\ OrderSide[taker] # OrderSide[o]
        /\ size <= live[o] /\ live' = [live EXCEPT ![o] = @ - size]
    BY <1>4 DEF Match
  <2>2. side \in Side /\ size \in Nat /\ size >= 1
    BY <1>0
  <2>3. pc \in Messages
    BY <2>1, <2>2 DEF Messages, MatchMessages
  <2> HIDE DEF side
  <2>4. /\ DOMAIN live' = DOMAIN live /\ live'[o] = live[o] - size
        /\ \A id \in DOMAIN live : id # o => live'[id] = live[id]
    BY <2>1
  <2>5. ExchangeTypes'
    <3>1. live[o] - size \in 0 .. MaxSize
      BY <1>0, <2>1, <2>2
    <3> QED
      BY <1>0, <2>1, <2>4, <3>1 DEF ExchangeTypes
  <2>6. /\ pc.type = "match" /\ pc.maker = o /\ pc.taker = taker /\ pc.size = size
        /\ \A id : ~Opens(pc, id)
    BY DEF Opens
  <2> HIDE DEF pc
  <2>7. Tells(pc, live, live', closed, closed', unused)
    <3>1. ASSUME NEW id \in DOMAIN live
          PROVE  live[id] >= live'[id]
      <4>1. live[id] \in Nat
        BY <1>0
      <4>2. CASE id = o
        BY <2>2, <2>4, <4>1, <4>2
      <4>3. CASE id # o
        BY <2>4, <4>1, <4>3
      <4> QED
        BY <4>2, <4>3
    <3> QED
      BY <2>1, <2>2, <2>4, <2>6, <3>1 DEF Tells
  <2> QED
    BY <2>1, <2>3, <2>5, <2>6, <2>7, Delivered
<1>5. ASSUME NEW o \in Orders, NEW size \in 1 .. MaxSize, Change(o, size)
      PROVE  BookInv'
  <2> DEFINE pc == [type |-> "change", order_id |-> o, size |-> size, side |-> OrderSide[o]]
  <2>1. /\ Deliver(pc) /\ o \in DOMAIN live /\ UNCHANGED <<unused, closed>>
        /\ size < live[o] /\ live' = [live EXCEPT ![o] = size]
    BY <1>5 DEF Change
  <2>2. OrderSide[o] \in Side /\ size \in Nat
    BY <1>0
  <2>3. pc \in Messages
    BY <2>2 DEF Messages, OrderMessages
  <2>4. /\ DOMAIN live' = DOMAIN live /\ live'[o] = size
        /\ \A id \in DOMAIN live : id # o => live'[id] = live[id]
    BY <2>1
  <2>5. ExchangeTypes'
    BY <1>0, <2>1, <2>2, <2>4 DEF ExchangeTypes
  <2>6. pc.type = "change" /\ pc.order_id = o /\ \A id : ~Opens(pc, id)
    BY DEF Opens
  <2> HIDE DEF pc
  <2>7. Tells(pc, live, live', closed, closed', unused)
    <3>1. ASSUME NEW id \in DOMAIN live
          PROVE  live[id] >= live'[id]
      <4>1. live[id] \in Nat
        BY <1>0
      <4>2. CASE id = o
        BY <2>1, <2>2, <2>4, <4>1, <4>2
      <4>3. CASE id # o
        BY <2>4, <4>1, <4>3
      <4> QED
        BY <4>2, <4>3
    <3> QED
      BY <2>1, <2>4, <2>6, <3>1 DEF Tells
  <2> QED
    BY <1>0, <2>1, <2>3, <2>5, <2>6, <2>7, Delivered
<1>6. CASE LoseSync
  <2>1. /\ synced /\ synced' = FALSE /\ snapshot = <<>>
        /\ UNCHANGED <<live, unused, snapshot, toMerge, productChanges, book, closed, reordered>>
    BY <1>6 DEF LoseSync, BookInv, FeedTypes
  <2>2. Settled' = Settled /\ Suspect' = Suspect
    BY <2>1 DEF Settled, Suspect
  <2>3. FeedTypes' /\ ExchangeTypes' /\ MergedInv' /\ QueueInv' /\ SoundInv'
    BY <2>1 DEF BookInv, FeedTypes, ExchangeTypes, MergedInv, QueueInv, SoundInv
  <2>4. SettledInv'
    BY <2>1, <2>2 DEF BookInv, SettledInv
  <2> QED
    BY <2>3, <2>4 DEF BookInv
<1>7. CASE TakeSnapshot
  BY <1>7, SnapshotStep
<1>8. CASE Resync
  BY <1>8, ResyncStep
<1>9. CASE ProcessProductChanges
  BY <1>9, ProcessStep
<1>10. CASE UNCHANGED vars
  <2>1. UNCHANGED <<live, unused, synced, snapshot, toMerge, productChanges, book, closed, reordered>>
    BY <1>10 DEF vars
  <2>2. /\ Settled' = Settled /\ Suspect' = Suspect
        /\ MergedBook' = MergedBook /\ NextReset' = NextReset
    BY <2>1 DEF Settled, Suspect, MergedBook, NextReset
  <2>3. MergedInv' /\ SettledInv'
    BY <2>1, <2>2 DEF BookInv, MergedInv, SettledInv
  <2>4. FeedTypes' /\ ExchangeTypes' /\ QueueInv' /\ SoundInv'
    BY <2>1 DEF BookInv, FeedTypes, ExchangeTypes, QueueInv, SoundInv
  <2> QED
    BY <2>3, <2>4 DEF BookInv
<1> QED
  BY <1>1, <1>2, <1>3, <1>4, <1>5, <1>6, <1>7, <1>8, <1>9, <1>10 DEF Next

\* The invariant holds in every state.
THEOREM BookInvariant == Spec => []BookInv
<1>1. Init => BookInv
  BY BookInit
<1>2. BookInv /\ [Next]_vars => BookInv'
  BY BookStep
<1> QED
  BY <1>1, <1>2, PTL DEF Spec

\* A side of a book that fits holds only orders of that side.
LEMMA SideOrders ==
    ASSUME NEW b \in FitBooks, NEW side \in Side
    PROVE  On(b, side) \in Seq([order_id : {o \in Orders : OrderSide[o] = side}, size : Int])
<1> DEFINE v == On(b, side)
           T == [order_id : {o \in Orders : OrderSide[o] = side}, size : Int]
<1>1. v \in Seq(BookOrder)
  BY SideTypes DEF FitBooks
<1>2. ASSUME NEW i \in 1 .. Len(v)
      PROVE  v[i] \in T
  <2>1. OrderSide[v[i].order_id] = side
    BY DEF FitBooks, Fits
  <2>2. v[i] \in BookOrder
    BY <1>1
  <2> HIDE DEF v
  <2> DEFINE x == v[i]
  <2>3. x \in BookOrder /\ OrderSide[x.order_id] = side
    BY <2>1, <2>2
  <2> HIDE DEF x
  <2>4. x \in T
    BY <2>3 DEF BookOrder
  <2> QED
    BY <2>4 DEF x
<1> HIDE DEF v
<1>3. DOMAIN v = 1 .. Len(v) /\ Len(v) \in Nat /\ v \in [1 .. Len(v) -> BookOrder]
  BY <1>1
<1> HIDE DEF T
<1>4. v \in [1 .. Len(v) -> T]
  BY <1>2, <1>3
<1>5. v \in Seq(T)
  BY <1>3, <1>4
<1> QED
  BY <1>5 DEF v, T

\* The exchange's book and the server's book keep their types, and no product
\* change puts an order on the side it does not belong to.
THEOREM BookTypes == Spec => []TypeOK
<1>1. BookInv => TypeOK
  <2> SUFFICES ASSUME BookInv
               PROVE  TypeOK
    OBVIOUS
  <2>1. ExchangeTypes /\ FeedTypes
    BY DEF BookInv
  <2>2. \A side \in Side :
           On(book, side) \in Seq([order_id : {o \in Orders : OrderSide[o] = side}, size : Int])
    BY <2>1, SideOrders DEF FeedTypes
  <2>3. DOMAIN book = {"m_bids", "m_asks"}
    BY <2>1 DEF FeedTypes, FitBooks, Books
  <2>4. unused \subseteq Orders \ DOMAIN live
    BY <2>1 DEF ExchangeTypes
  <2>5. synced \in BOOLEAN /\ reordered \subseteq Orders
    BY <2>1 DEF FeedTypes
  <2> QED
    BY <2>1, <2>2, <2>3, <2>4, <2>5 DEF TypeOK, ExchangeTypes
<1> QED
  BY <1>1, BookInvariant, PTL

\* When the queue is empty the invariant is about the book itself.
LEMMA CaughtUpBook ==
    ASSUME BookInv, CaughtUp
    PROVE  /\ book \in Books
           /\ \A o \in Orders \ reordered : Sound(book, o) /\ Current(book, o, live, closed)
<1>1. synced /\ productChanges = <<>> /\ book \in FitBooks
  BY Basics DEF CaughtUp
<1>2. Settled = book
  BY <1>1, AfterNothing DEF Settled
<1>3. Suspect = reordered
  <2>1. DOMAIN <<>> = {}
    OBVIOUS
  <2>2. ~HasReset(<<>>) /\ Disturbed(<<>>) = {}
    BY <2>1 DEF HasReset, Disturbed
  <2> QED
    BY <1>1, <2>2 DEF Suspect
<1> QED
  BY <1>1, <1>2, <1>3 DEF BookInv, SettledInv, FitBooks

\* When the book has caught up, every open order that no reversed batch touched
\* is in it, on its own side and never with less than its size.
THEOREM LiveAreMirrored == Spec => []LiveMirrored
<1>1. BookInv => LiveMirrored
  <2> SUFFICES ASSUME BookInv, CaughtUp, NEW o \in DOMAIN live \ reordered, live[o] > 0
               PROVE  \E i \in DOMAIN On(book, OrderSide[o]) :
                        LET order == On(book, OrderSide[o])[i]
                        IN  order.order_id = o /\ order.size >= live[o]
    BY DEF LiveMirrored
  <2>1. o \in Orders
    BY DEF BookInv, ExchangeTypes
  <2>2. book \in Books /\ Listed(book, o) /\ SizeOf(book, o) >= live[o]
    BY <2>1, CaughtUpBook DEF Current
  <2> DEFINE k == Find(Own(book, o), o)
  <2>3. k \in 1 .. Len(Own(book, o)) /\ Own(book, o)[k].order_id = o
    BY <2>1, <2>2, OwnTypes
  <2>4. DOMAIN Own(book, o) = 1 .. Len(Own(book, o))
    BY <2>1, <2>2, OwnTypes
  <2>5. Own(book, o)[k].size >= live[o]
    BY <2>2 DEF SizeOf
  <2> HIDE DEF k
  <2> QED
    BY <2>3, <2>4, <2>5 DEF Own
<1> QED
  BY <1>1, BookInvariant, PTL

\* An order that no reversed batch touched is in the book once and without a
\* negative size.
THEOREM OrdersListedOnce == Spec => []ListedOnce
<1>1. BookInv => ListedOnce
  <2> SUFFICES ASSUME BookInv, NEW side \in Side,
                      NEW i \in DOMAIN On(book, side), NEW j \in DOMAIN On(book, side),
                      On(book, side)[i].order_id \notin reordered
               PROVE  /\ On(book, side)[i].size >= 0
                      /\ On(book, side)[i].order_id = On(book, side)[j].order_id => i = j
    BY DEF ListedOnce
  <2> DEFINE v == On(book, side)
             o == v[i].order_id
  <2>1. book \in Books /\ Fits(book)
    BY Basics DEF FitBooks
  <2>2. /\ v \in Seq(BookOrder) /\ DOMAIN v = 1 .. Len(v)
        /\ o \in Orders /\ OrderSide[o] = side
    <3>1. v \in Seq(BookOrder) /\ DOMAIN v = 1 .. Len(v)
      BY <2>1, SideTypes
    <3> QED
      BY <2>1, <3>1, SideTypes DEF Fits
  <2>3. Own(book, o) = v /\ Sound(book, o)
    <3>1. Own(book, o) = v
      BY <2>2 DEF Own
    <3> QED
      BY <2>2, <3>1 DEF BookInv, SoundInv
  <2> HIDE DEF v
  <2>4. /\ i \in 1 .. Len(v) /\ j \in 1 .. Len(v) /\ Find(v, o) # 0
        /\ Find(v, o) \in 1 .. Len(v) /\ v[Find(v, o)].order_id = o
    BY <2>2, FindFirst DEF v
  <2>5. Listed(book, o)
    BY <2>3, <2>4 DEF Listed
  <2>6. SizeOf(book, o) >= 0 /\ Once(book, o)
    BY <2>3, <2>5 DEF Sound
  <2>7. i = Find(v, o) /\ (v[j].order_id = o => i = j)
    BY <2>3, <2>4, <2>6 DEF Once
  <2> QED
    BY <2>3, <2>6, <2>7 DEF SizeOf, v
<1> QED
  BY <1>1, BookInvariant, PTL

\* An order in the book that the exchange does not have and that no reversed batch
\* touched was closed after the last full order book: nothing of an older book
\* survives init.
THEOREM StaleAreClosed == Spec => []StaleWereClosed
<1>1. BookInv => StaleWereClosed
  <2> SUFFICES ASSUME BookInv, CaughtUp,
                      NEW o \in (Ids(book.m_bids) \cup Ids(book.m_asks)) \ reordered
               PROVE  o \in DOMAIN live \cup closed
    BY DEF StaleWereClosed
  <2>1. book \in Books /\ Fits(book)
    BY Basics DEF FitBooks
  <2>2. On(book, "Buy") = book.m_bids /\ On(book, "Sell") = book.m_asks
    BY DEF On, VectorOf
  <2>3. PICK side \in Side : o \in Ids(On(book, side))
    BY <2>2 DEF Side
  <2> DEFINE v == On(book, side)
  <2>4. v \in Seq(BookOrder) /\ DOMAIN v = 1 .. Len(v)
    BY <2>1, SideTypes
  <2>5. PICK i \in 1 .. Len(v) : v[i].order_id = o
    BY <2>3, <2>4 DEF Ids
  <2>6. o \in Orders /\ OrderSide[o] = side
    BY <2>1, <2>5, SideTypes DEF Fits
  <2>7. Own(book, o) = v
    BY <2>6 DEF Own
  <2> HIDE DEF v
  <2>8. Listed(book, o)
    BY <2>4, <2>5, <2>7, FindFirst DEF Listed
  <2> QED
    BY <2>6, <2>8, CaughtUpBook DEF Current
<1> QED
  BY <1>1, BookInvariant, PTL
=============================================================================
