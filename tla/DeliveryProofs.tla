--------------------------- MODULE DeliveryProofs ---------------------------
(***************************************************************************)
(* Proofs about Delivery, for any clients and products, any number of      *)
(* requests and changes and any sequence numbers:                          *)
(*   OrderMakesExact       changes applied in order make a book without a  *)
(*                         gap;                                            *)
(*   OnlyReversedMissing   what was applied is in the book, or fell victim *)
(*                         to the reversed order of a batch;               *)
(*   RepeatsNeedNewerBook  a message meets a book that reflects it only    *)
(*                         after a full order book newer than the message; *)
(*   BooksNeverGoBack      no published book reflects less than the one    *)
(*                         before.                                         *)
(***************************************************************************)
EXTENDS Delivery, MarketProofs

-----------------------------------------------------------------------------
(***************************************************************************)
(* The inductive invariant.                                                *)
(***************************************************************************)
Content ==
    [product : Products, kind : {"book", "message"}, sequence : 1 .. MaxSeq,
     needs : 0 .. MaxSeq]

StreamTypes ==
    /\ content \in Seq(Content)
    /\ Len(content) = delivered
    /\ pos \in [Products -> 0 .. MaxSeq]
    /\ kind \in [Products -> {"none", "book", "message"}]

\* Each change has a content, which is of its product.
Carried == \A pc \in AllChanges : content[pc.number].product = pc.product

\* Change i is the last one of p before change j.
LastBefore(i, j, p) ==
    /\ i < j
    /\ content[i].product = p
    /\ \A k \in i + 1 .. j - 1 : content[k].product # p

\* A stream that has begun ends with the last change of its product.
StreamsEnd ==
    \A p \in Products : kind[p] # "none" =>
        \E i \in 1 .. Len(content) :
            LastBefore(i, Len(content) + 1, p) /\ content[i].sequence = pos[p]

\* The changes of a product: a full order book is not older than any change
\* before it, a message follows the change before it.
StreamsFollow ==
    \A j \in 1 .. Len(content) :
        /\ content[j].kind = "book" =>
             \A i \in 1 .. j - 1 : content[i].product = content[j].product =>
                content[i].sequence <= content[j].sequence
        /\ content[j].kind = "message" =>
             \E i \in 1 .. j - 1 :
                /\ LastBefore(i, j, content[j].product)
                /\ content[j].sequence = content[i].sequence + 1

\* A stream that has begun is at the newest sequence number of its product.
StreamsNewest == \A p \in Products : kind[p] # "none" => NotBefore(p, pos[p])

\* The content c may come after the content b: if it is a message and of the same
\* product, it is newer, and if it needs b, then b opens an order.
MayFollow(b, c) ==
    c.kind = "message" /\ b.product = c.product =>
        /\ b.sequence < c.sequence
        /\ b.sequence = c.needs => b.needs = 0

\* A message is newer than all changes before it and than what it needs.
StreamsNeed ==
    \A j \in 1 .. Len(content) :
        /\ content[j].needs < content[j].sequence
        /\ \A i \in 1 .. j - 1 : MayFollow(content[i], content[j])

\* A change with the content c makes a book reflect the message d.
BringsOf(c, d) == IF c.kind = "book" THEN d \in 1 .. c.sequence ELSE d = c.sequence

\* Among the changes A with the contents c is one of feed product f of p, older
\* than n, that has brought the message d.
Brought(A, c, p, f, n, d) ==
    \E a \in A :
        a.product = p /\ a.feed = f /\ a.number < n /\ BringsOf(c[a.number], d)

\* The feed product has brought all that its stream is past, and what a change
\* needs was brought by its own feed product.
StreamsBring ==
    /\ \A p \in Products : kind[p] # "none" =>
         \A d \in 1 .. pos[p] :
           Brought(AllChanges, content, p, made[p], delivered + 1, d)
    /\ \A pc \in AllChanges :
         LET d == content[pc.number].needs IN
         d # 0 => Brought(AllChanges, content, pc.product, pc.feed, pc.number, d)

\* The book of a product has been given changes of its product that count as
\* applied; from the first one it got, all that the market thread is done with;
\* and all that were applied of the feed product that exists.
BookGiven(p) ==
    LET given == ToSet(m_products[p].book) IN
    /\ given \subseteq {pc \in applied : pc.product = p}
    /\ \A a \in given, pc \in applied \cup dropped :
         pc.product = p /\ a.number < pc.number => pc \in given
    /\ \A pc \in applied :
         pc.product = p /\ p \in m_prodIdToListener /\ pc.feed = made[p] => pc \in given

BooksGiven == \A p \in DOMAIN m_products : BookGiven(p)

\* No change is in a book twice.
Distinct(b) == \A i, j \in 1 .. Len(b) : b[i].number = b[j].number => i = j

BooksDistinct == \A p \in DOMAIN m_products : Distinct(m_products[p].book)

DeliveryInv ==
    /\ MarketInv
    /\ StreamTypes
    /\ Carried
    /\ StreamsEnd
    /\ StreamsFollow
    /\ StreamsNewest
    /\ StreamsNeed
    /\ StreamsBring
    /\ BooksGiven
    /\ BooksDistinct
-----------------------------------------------------------------------------
(***************************************************************************)
(* What a sequence of changes makes of an empty book.                      *)
(***************************************************************************)

\* Updated with the contents c.
UpdatedBy(c, r, pc) ==
    LET e == c[pc.number] IN
    IF e.kind = "book" THEN 1 .. e.sequence
    ELSE IF e.needs \in r \cup {0} THEN r \cup {e.sequence} ELSE r

\* What the first k changes of b, with the contents c, make a book reflect.
FoldOf(c, b, k) ==
    LET Reflected[n \in 0 .. Len(b)] ==
          IF n = 0 THEN {} ELSE UpdatedBy(c, Reflected[n - 1], b[n])
    IN  Reflected[k]

\* F has what the book reflects after each of the changes.
Reflects(F, c, b) ==
    /\ F \in [0 .. Len(b) -> SUBSET Nat]
    /\ F[0] = {}
    /\ \A n \in 1 .. Len(b) : F[n] = UpdatedBy(c, F[n - 1], b[n])

\* The recursion is well defined.
LEMMA FoldExists ==
    ASSUME NEW c, NEW S, NEW b \in Seq(S),
           \A n \in 1 .. Len(b) : c[b[n].number].sequence \in Nat
    PROVE  \E F : Reflects(F, c, b) /\ \A k \in 0 .. Len(b) : FoldOf(c, b, k) = F[k]
<1> DEFINE Step(n, v) == UpdatedBy(c, v, b[n])
           Def(g) == [n \in 0 .. Len(b) |-> IF n = 0 THEN {} ELSE Step(n, g[n - 1])]
           F == CHOOSE g : g = Def(g)
           h == [n \in 1 .. Len(b) |-> [v \in SUBSET Nat |-> Step(n, v)]]
<1>1. \A k \in 0 .. Len(b) : FoldOf(c, b, k) = F[k]
  BY DEF FoldOf
<1>2. Len(b) \in Nat
  OBVIOUS
<1>3. ASSUME NEW n \in 1 .. Len(b), NEW v \in SUBSET Nat
      PROVE  Step(n, v) \in SUBSET Nat
  <2>1. c[b[n].number].sequence \in Nat
    OBVIOUS
  <2> DEFINE k == c[b[n].number].sequence
  <2>2. 1 .. k \subseteq Nat /\ v \cup {k} \subseteq Nat
    <3> HIDE DEF k
    <3>1. k \in Nat /\ v \subseteq Nat
      BY <2>1 DEF k
    <3> QED
      BY <3>1
  <2>3. Step(n, v) = 1 .. k \/ Step(n, v) = v \cup {k} \/ Step(n, v) = v
    BY DEF UpdatedBy
  <2> QED
    BY <2>2, <2>3
<1> HIDE DEF Step
<1>4. PICK g \in [0 .. Len(b) -> SUBSET Nat] :
         /\ g[0] = {}
         /\ \A i \in 1 .. Len(b) : g[i] = h[i][g[i - 1]]
  <2>1. h \in [1 .. Len(b) -> [SUBSET Nat -> SUBSET Nat]]
    BY <1>3
  <2> DEFINE N == Len(b)  V == SUBSET Nat  base == {}
  <2>2. N \in Nat /\ base \in V /\ h \in [1 .. N -> [V -> V]]
    BY <1>2, <2>1
  <2> HIDE DEF h, N, V, base
  <2>3. \E g : Iterates(g, N, V, base, h)
    BY <2>2, RecursionExists
  <2> QED
    BY <2>3 DEF Iterates, N, V, base
<1>5. \A i \in 1 .. Len(b) : g[i] = Step(i, g[i - 1])
  <2> TAKE i \in 1 .. Len(b)
  <2>1. i - 1 \in 0 .. Len(b)
    BY <1>2
  <2>2. g[i - 1] \in SUBSET Nat
    BY <2>1
  <2> QED
    BY <1>4, <2>2
<1>6. g = Def(g)
  <2>1. \A i \in 0 .. Len(b) : i # 0 => i \in 1 .. Len(b)
    BY <1>2
  <2> QED
    BY <1>2, <1>4, <1>5, <2>1
<1>7. F = Def(F)
  <2> HIDE DEF Def
  <2> QED
    BY <1>6
<1> HIDE DEF F
<1>8. F[0] = {} /\ \A n \in 1 .. Len(b) : F[n] = Step(n, F[n - 1])
  <2>1. 0 \in 0 .. Len(b) /\ \A n \in 1 .. Len(b) : n \in 0 .. Len(b) /\ n # 0
    BY <1>2
  <2> QED
    BY <1>7, <2>1
<1> DEFINE T == {n \in 0 .. Len(b) : F[n] \in SUBSET Nat}
<1>9. 0 \in T
  BY <1>2, <1>8
<1>10. ASSUME NEW n \in 1 .. Len(b), n - 1 \in T
       PROVE  n \in T
  <2>1. F[n] \in SUBSET Nat
    BY <1>3, <1>8, <1>10
  <2> QED
    BY <1>2, <2>1
<1>11. \A n \in 0 .. Len(b) : n \in T
  <2> HIDE DEF T
  <2> QED
    BY <1>2, <1>9, <1>10, UpToInduction
<1>12. F \in [0 .. Len(b) -> SUBSET Nat]
  <2>1. F = [n \in 0 .. Len(b) |-> F[n]]
    <3>1. Def(F) = [n \in 0 .. Len(b) |-> Def(F)[n]]
      OBVIOUS
    <3> HIDE DEF Def
    <3> QED
      BY <1>7, <3>1
  <2> QED
    BY <1>11, <2>1
<1>13. Reflects(F, c, b)
  BY <1>8, <1>12 DEF Reflects, Step
<1> QED
  BY <1>1, <1>13

\* The changes of e, with the contents d, begin with those of b, with the contents c.
Lengthens(c, b, d, e) ==
    /\ Len(b) <= Len(e)
    /\ \A n \in 1 .. Len(b) : e[n] = b[n] /\ d[b[n].number] = c[b[n].number]

\* A longer sequence of changes, or one with more contents, begins like a shorter.
LEMMA FoldPrefix ==
    ASSUME NEW F, NEW G, NEW c, NEW d, NEW S, NEW b \in Seq(S), NEW e \in Seq(S),
           Reflects(F, c, b), Reflects(G, d, e), Lengthens(c, b, d, e)
    PROVE  \A n \in 0 .. Len(b) : G[n] = F[n]
<1> DEFINE T == {n \in 0 .. Len(b) : G[n] = F[n]}
<1>1. Len(b) \in Nat /\ Len(e) \in Nat
  OBVIOUS
<1>2. 0 \in T
  <2>1. F[0] = {} /\ G[0] = {}
    BY DEF Reflects
  <2>2. 0 \in 0 .. Len(b)
    BY <1>1
  <2>3. G[0] = F[0]
    BY <2>1
  <2> QED
    BY <2>2, <2>3, Zenon
<1>3. ASSUME NEW n \in 1 .. Len(b), n - 1 \in T
      PROVE  n \in T
  <2>1. n \in 1 .. Len(e) /\ n \in 0 .. Len(b) /\ G[n - 1] = F[n - 1]
    BY <1>1, <1>3 DEF Lengthens
  <2>2. F[n] = UpdatedBy(c, F[n - 1], b[n]) /\ G[n] = UpdatedBy(d, G[n - 1], e[n])
    BY <2>1 DEF Reflects
  <2>3. e[n] = b[n] /\ d[b[n].number] = c[b[n].number]
    BY DEF Lengthens
  <2>4. G[n] = F[n]
    BY <2>1, <2>2, <2>3 DEF UpdatedBy
  <2> QED
    BY <2>1, <2>4
<1> HIDE DEF T
<1>4. \A n \in 0 .. Len(b) : n \in T
  BY <1>1, <1>2, <1>3, UpToInduction
<1> QED
  BY <1>4 DEF T

\* A book reflects nothing newer than the newest of its changes.
LEMMA FoldBounded ==
    ASSUME NEW F, NEW c, NEW S, NEW b \in Seq(S), Reflects(F, c, b),
           NEW m \in Nat, \A n \in 1 .. Len(b) : c[b[n].number].sequence \in 1 .. m
    PROVE  \A n \in 0 .. Len(b) : F[n] \subseteq 1 .. m
<1> DEFINE T == {n \in 0 .. Len(b) : F[n] \subseteq 1 .. m}
<1>1. Len(b) \in Nat
  OBVIOUS
<1>2. 0 \in T
  BY <1>1 DEF Reflects
<1>3. ASSUME NEW n \in 1 .. Len(b), n - 1 \in T
      PROVE  n \in T
  <2>1. n \in 0 .. Len(b) /\ F[n - 1] \subseteq 1 .. m
    BY <1>1, <1>3
  <2>2. F[n] = UpdatedBy(c, F[n - 1], b[n])
    BY DEF Reflects
  <2>3. c[b[n].number].sequence \in 1 .. m
    OBVIOUS
  <2>4. F[n] \subseteq 1 .. m
    BY <2>1, <2>2, <2>3 DEF UpdatedBy
  <2> QED
    BY <2>1, <2>4
<1> HIDE DEF T
<1>4. \A n \in 0 .. Len(b) : n \in T
  BY <1>1, <1>2, <1>3, UpToInduction
<1> QED
  BY <1>4 DEF T

\* What the book reflects after change i, and no later full order book is older
\* than, it reflects in the end.
LEMMA FoldKeeps ==
    ASSUME NEW F, NEW c, NEW S, NEW b \in Seq(S), Reflects(F, c, b),
           NEW i \in 0 .. Len(b), NEW x \in F[i],
           \A n \in i + 1 .. Len(b) :
             c[b[n].number].kind = "book" => x \in 1 .. c[b[n].number].sequence
    PROVE  x \in F[Len(b)]
<1> DEFINE T == {n \in 0 .. Len(b) : n >= i => x \in F[n]}
<1>1. Len(b) \in Nat
  OBVIOUS
<1>2. 0 \in T
  BY <1>1
<1>3. ASSUME NEW n \in 1 .. Len(b), n - 1 \in T
      PROVE  n \in T
  <2>1. n \in 0 .. Len(b) /\ F[n] = UpdatedBy(c, F[n - 1], b[n])
    BY <1>1 DEF Reflects
  <2>2. CASE n < i
    BY <2>1, <2>2
  <2>3. CASE n = i
    BY <2>1, <2>3
  <2>4. CASE n > i
    <3>1. x \in F[n - 1] /\ n \in i + 1 .. Len(b)
      BY <1>3, <2>4
    <3>2. x \in F[n]
      BY <2>1, <3>1 DEF UpdatedBy
    <3> QED
      BY <2>1, <3>2
  <2> QED
    BY <2>2, <2>3, <2>4
<1> HIDE DEF T
<1>4. \A n \in 0 .. Len(b) : n \in T
  BY <1>1, <1>2, <1>3, UpToInduction
<1>5. Len(b) \in T
  BY <1>1, <1>4
<1> QED
  BY <1>1, <1>5 DEF T

\* A full order book, and then only newer ones and messages that follow each
\* other, make a book without a gap.
LEMMA FoldExact ==
    ASSUME NEW F, NEW c, NEW S, NEW b \in Seq(S), Reflects(F, c, b), b # <<>>,
           \A n \in 1 .. Len(b) : c[b[n].number].sequence \in Nat,
           c[b[1].number].kind = "book",
           \A n \in 2 .. Len(b) : c[b[n].number].kind # "book" =>
               /\ c[b[n].number].sequence = c[b[n - 1].number].sequence + 1
               /\ c[b[n].number].needs \in 0 .. c[b[n - 1].number].sequence
    PROVE  F[Len(b)] = 1 .. c[b[Len(b)].number].sequence
<1> DEFINE T == {n \in 0 .. Len(b) : n > 0 => F[n] = 1 .. c[b[n].number].sequence}
<1>1. Len(b) \in Nat /\ Len(b) > 0
  OBVIOUS
<1>2. 0 \in T
  BY <1>1
<1>3. ASSUME NEW n \in 1 .. Len(b), n - 1 \in T
      PROVE  n \in T
  <2>1. n \in 0 .. Len(b) /\ F[n] = UpdatedBy(c, F[n - 1], b[n])
    BY <1>1 DEF Reflects
  <2>2. CASE c[b[n].number].kind = "book"
    BY <2>1, <2>2 DEF UpdatedBy
  <2>3. CASE c[b[n].number].kind # "book"
    <3>1. n \in 2 .. Len(b) /\ n - 1 \in 1 .. Len(b)
      BY <1>1, <2>3
    <3>2. F[n - 1] = 1 .. c[b[n - 1].number].sequence
      BY <1>3, <3>1
    <3>3. /\ c[b[n].number].sequence = c[b[n - 1].number].sequence + 1
          /\ c[b[n].number].needs \in 0 .. c[b[n - 1].number].sequence
          /\ c[b[n - 1].number].sequence \in Nat
      BY <2>3, <3>1
    <3> DEFINE m == c[b[n - 1].number].sequence
    <3>4. 1 .. m + 1 = 1 .. m \cup {m + 1} /\ 0 .. m \subseteq 1 .. m \cup {0}
      <4> HIDE DEF m
      <4>1. m \in Nat
        BY <3>3 DEF m
      <4> QED
        BY <4>1
    <3>5. F[n] = F[n - 1] \cup {c[b[n].number].sequence}
      BY <2>1, <2>3, <3>2, <3>3, <3>4 DEF UpdatedBy
    <3>6. F[n] = 1 .. c[b[n].number].sequence
      BY <3>2, <3>3, <3>4, <3>5
    <3> QED
      BY <2>1, <3>6
  <2> QED
    BY <2>2, <2>3
<1> HIDE DEF T
<1>4. \A n \in 0 .. Len(b) : n \in T
  BY <1>1, <1>2, <1>3, UpToInduction
<1>5. Len(b) \in T
  BY <1>1, <1>4
<1> QED
  BY <1>1, <1>5 DEF T
-----------------------------------------------------------------------------
(***************************************************************************)
(* The streams.                                                            *)
(***************************************************************************)

\* A step of Delivery is a step of Market or leaves it alone.
LEMMA DeliveryIsMarket ==
    ASSUME [DeliveryNext]_<<vars, stream>>
    PROVE  [Next]_vars
<1>1. ASSUME NEW p \in Products, HandOn(p)
      PROVE  Next
  BY <1>1 DEF HandOn, Next
<1>2. CASE NewFeed
  BY <1>2 DEF NewFeed, Next, ServiceThread
<1>3. CASE Elsewhere
  BY <1>3 DEF Elsewhere, Next, ServiceThread
<1>4. CASE UNCHANGED <<vars, stream>>
  BY <1>4
<1> QED
  BY <1>1, <1>2, <1>3, <1>4 DEF DeliveryNext

\* What p's feed product hands on, of the kind k, at n and in need of d.
Handed(p, k, n, d) ==
    /\ content' = Append(content, [product |-> p, kind |-> k,
                                   sequence |-> n, needs |-> d])
    /\ kind' = [kind EXCEPT ![p] = k]
    /\ pos' = [pos EXCEPT ![p] = n]
    /\ k = "book" => NotBefore(p, n) /\ d = 0
    /\ k = "message" => kind[p] # "none" /\ n = pos[p] + 1 /\ CanNeed(p, n, d)

\* It is the next element of the stream.
LEMMA HandedOn ==
    ASSUME StreamTypes, NEW p \in Products, HandOn(p)
    PROVE  \E k \in {"book", "message"}, n \in 1 .. MaxSeq, d \in 0 .. MaxSeq :
             Handed(p, k, n, d)
<1>1. PICK k \in {"book", "message"}, n \in 1 .. MaxSeq, d \in 0 .. MaxSeq :
        /\ IF k = "book" THEN NotBefore(p, n) /\ d = 0 ELSE CanNeed(p, n, d)
        /\ kind' = [kind EXCEPT ![p] = k]
        /\ pos' = [pos EXCEPT ![p] = n]
        /\ Stream(p)!Next
        /\ content' = Append(content, [product |-> p, kind |-> k,
                                       sequence |-> n, needs |-> d])
  BY DEF HandOn
<1>2. kind'[p] = k /\ pos'[p] = n
  BY <1>1 DEF StreamTypes
<1>3. k = "message" => kind[p] # "none" /\ n = pos[p] + 1
  BY <1>1, <1>2 DEF Stream!Next, Stream!Resync, Stream!Advance
<1> QED
  BY <1>1, <1>3 DEF Handed

\* One more content leaves those before alone.
LEMMA ContentAdded ==
    ASSUME NEW c \in Seq(Content), NEW e \in Content
    PROVE  /\ Append(c, e) \in Seq(Content)
           /\ Len(Append(c, e)) = Len(c) + 1
           /\ Len(c) \in Nat
           /\ \A i \in 1 .. Len(c) : Append(c, e)[i] = c[i]
           /\ Append(c, e)[Len(c) + 1] = e
OBVIOUS

\* Streams, contents and their number keep their types and the contents go with
\* their changes, whatever a feed product hands on.
LEMMA HandOnKeepsStreams ==
    ASSUME MarketInv, StreamTypes, Carried, StreamsEnd, StreamsFollow,
           NEW p \in Products, HandOn(p)
    PROVE  StreamTypes' /\ Carried' /\ StreamsEnd' /\ StreamsFollow'
<1>1. PICK k \in {"book", "message"}, n \in 1 .. MaxSeq, d \in 0 .. MaxSeq :
        /\ content' = Append(content, [product |-> p, kind |-> k,
                                       sequence |-> n, needs |-> d])
        /\ kind' = [kind EXCEPT ![p] = k]
        /\ pos' = [pos EXCEPT ![p] = n]
        /\ k = "book" => NotBefore(p, n) /\ d = 0
        /\ k = "message" => kind[p] # "none" /\ n = pos[p] + 1 /\ CanNeed(p, n, d)
  BY HandedOn DEF Handed
<1>0. PICK L \in Nat : L = Len(content)
  BY DEF StreamTypes
<1> DEFINE e == [product |-> p, kind |-> k, sequence |-> n, needs |-> d]
<1>2. e \in Content
  BY DEF Content
<1>3. /\ content' \in Seq(Content) /\ Len(content') = L + 1 /\ L \in Nat
      /\ \A i \in 1 .. L : content'[i] = content[i]
      /\ content'[L + 1] = e
  <2>1. content \in Seq(Content) /\ content' = Append(content, e)
    BY <1>1 DEF StreamTypes
  <2> HIDE DEF e
  <2> QED
    BY <1>0, <1>2, <2>1, ContentAdded
<1>4. /\ e.product = p /\ e.kind = k /\ e.sequence = n /\ e.needs = d
  OBVIOUS
<1>5. L = delivered /\ delivered' = delivered + 1
  BY <1>0 DEF StreamTypes, HandOn, OnProductChange
<1> HIDE DEF e
<1>6. StreamTypes'
  <2>1. kind' \in [Products -> {"none", "book", "message"}]
    BY <1>1 DEF StreamTypes
  <2>2. pos' \in [Products -> 0 .. MaxSeq]
    BY <1>1 DEF StreamTypes
  <2> QED
    BY <1>3, <1>5, <2>1, <2>2 DEF StreamTypes
<1>7. Carried'
  <2>1. AllChanges' = AllChanges \cup {NewChange(p)}
    <3>1. NewChange(p) \in ProductChange
      BY DEF NewChange, ProductChange, MarketInv, TypeOK
    <3>2. ToSet(productChanges') = ToSet(productChanges) \cup {NewChange(p)}
      BY <3>1, ToSetAppend DEF HandOn, OnProductChange, MarketInv, TypeOK
    <3>3. UNCHANGED <<currentChanges, applied, dropped>>
      BY DEF HandOn, OnProductChange, market
    <3> QED
      BY <3>2, <3>3 DEF AllChanges
  <2>2. content'[NewChange(p).number].product = NewChange(p).product
    BY <1>3, <1>4, <1>5 DEF NewChange
  <2>3. \A pc \in AllChanges : pc.number \in 1 .. L
    BY <1>5, NumbersOnce DEF MarketInv
  <2> QED
    BY <1>3, <2>1, <2>2, <2>3 DEF Carried
<1>8. StreamsEnd'
  <2> SUFFICES ASSUME NEW q \in Products, kind'[q] # "none"
               PROVE  \E i \in 1 .. Len(content') :
                        /\ LastBefore(i, Len(content) + 1, q)'
                        /\ content'[i].sequence = pos'[q]
    BY DEF StreamsEnd
  <2>1. CASE q = p
    <3>1. L + 1 \in 1 .. Len(content') /\ L + 1 < Len(content') + 1
      BY <1>3
    <3>2. (L + 1) + 1 .. (Len(content') + 1) - 1 = {}
      BY <1>3
    <3>3. content'[L + 1].product = q /\ content'[L + 1].sequence = pos'[q]
      BY <1>1, <1>3, <1>4, <2>1 DEF StreamTypes
    <3> QED
      BY <3>1, <3>2, <3>3 DEF LastBefore
  <2>2. CASE q # p
    <3>1. kind[q] = kind'[q] /\ pos'[q] = pos[q]
      BY <1>1, <2>2 DEF StreamTypes
    <3>2. PICK i \in 1 .. L : LastBefore(i, L + 1, q) /\ content[i].sequence = pos[q]
      BY <1>0, <3>1 DEF StreamsEnd
    <3>3. i \in 1 .. Len(content') /\ i < Len(content') + 1
      BY <1>3
    <3>4. content'[i].product = q /\ content'[i].sequence = pos'[q]
      BY <1>3, <3>1, <3>2 DEF LastBefore
    <3>5. ASSUME NEW m \in i + 1 .. (Len(content') + 1) - 1
          PROVE  content'[m].product # q
      <4>1. m \in i + 1 .. L \/ m = L + 1
        BY <1>3
      <4>2. CASE m = L + 1
        BY <1>3, <1>4, <2>2, <4>2
      <4>3. CASE m \in i + 1 .. L
        <5>1. m \in 1 .. L /\ m \in i + 1 .. (L + 1) - 1
          BY <1>3, <4>3
        <5> QED
          BY <1>3, <3>2, <5>1 DEF LastBefore
      <4> QED
        BY <4>1, <4>2, <4>3
    <3> QED
      BY <3>3, <3>4, <3>5 DEF LastBefore
  <2> QED
    BY <2>1, <2>2
<1>9. StreamsFollow'
  <2> DEFINE BookLast(j) ==
               content[j].kind = "book" =>
                 \A i \in 1 .. j - 1 : content[i].product = content[j].product =>
                    content[i].sequence <= content[j].sequence
             MessageNext(j) ==
               content[j].kind = "message" =>
                 \E i \in 1 .. j - 1 :
                    /\ LastBefore(i, j, content[j].product)
                    /\ content[j].sequence = content[i].sequence + 1
  <2>1. ASSUME NEW j \in 1 .. L
        PROVE  BookLast(j)' /\ MessageNext(j)'
    <3>1. BookLast(j) /\ MessageNext(j)
      BY <1>0 DEF StreamsFollow
    <3>2. content'[j] = content[j] /\ \A i \in 1 .. j - 1 : i \in 1 .. L /\ content'[i] = content[i]
      BY <1>3
    <3>3. BookLast(j)'
      BY <3>1, <3>2
    <3>4. ASSUME NEW i \in 1 .. j - 1, NEW q
          PROVE  LastBefore(i, j, q)' <=> LastBefore(i, j, q)
      <4>1. \A m \in i + 1 .. j - 1 : m \in 1 .. j - 1
        BY <1>3
      <4> QED
        BY <3>2, <4>1 DEF LastBefore
    <3>5. MessageNext(j)'
      BY <3>1, <3>2, <3>4
    <3> QED
      BY <3>3, <3>5
  <2>2. BookLast(L + 1)'
    <3>1. ASSUME content'[L + 1].kind = "book", NEW i \in 1 .. (L + 1) - 1,
                 content'[i].product = content'[L + 1].product
          PROVE  content'[i].sequence <= content'[L + 1].sequence
      <4>1. i \in 1 .. L /\ content'[i] = content[i]
        BY <1>3
      <4>2. NotBefore(p, n) /\ content[i].product = p
        BY <1>1, <1>3, <1>4, <3>1, <4>1
      <4>3. i \in DOMAIN content
        BY <1>0, <4>1 DEF StreamTypes
      <4> QED
        BY <1>3, <1>4, <4>1, <4>2, <4>3 DEF NotBefore
    <3> QED
      BY <3>1
  <2>3. MessageNext(L + 1)'
    <3>1. ASSUME content'[L + 1].kind = "message"
          PROVE  \E i \in 1 .. (L + 1) - 1 :
                    /\ LastBefore(i, L + 1, p)'
                    /\ content'[L + 1].sequence = content'[i].sequence + 1
      <4>1. kind[p] # "none" /\ n = pos[p] + 1
        BY <1>1, <1>3, <1>4, <3>1
      <4>2. PICK i \in 1 .. L : LastBefore(i, L + 1, p) /\ content[i].sequence = pos[p]
        BY <1>0, <4>1 DEF StreamsEnd
      <4>3. i \in 1 .. (L + 1) - 1 /\ \A m \in i + 1 .. (L + 1) - 1 : m \in 1 .. L
        BY <1>3
      <4>4. LastBefore(i, L + 1, p)'
        BY <1>3, <4>2, <4>3 DEF LastBefore
      <4>5. content'[L + 1].sequence = content'[i].sequence + 1
        BY <1>3, <1>4, <4>1, <4>2
      <4> QED
        BY <4>3, <4>4, <4>5
    <3>2. content'[L + 1].product = p
      BY <1>3, <1>4
    <3> QED
      BY <3>1, <3>2
  <2>4. \A j \in 1 .. Len(content') : j \in 1 .. L \/ j = L + 1
    BY <1>3
  <2>5. \A j \in 1 .. Len(content') : BookLast(j)' /\ MessageNext(j)'
    BY <2>1, <2>2, <2>3, <2>4
  <2> QED
    BY <2>5 DEF StreamsFollow
<1> QED
  BY <1>6, <1>7, <1>8, <1>9

\* The newest sequence numbers and what messages need, whatever a feed product
\* hands on.
LEMMA HandOnKeepsNeeds ==
    ASSUME StreamTypes, StreamsNewest, StreamsNeed, NEW p \in Products, HandOn(p)
    PROVE  StreamsNewest' /\ StreamsNeed'
<1>1. PICK k \in {"book", "message"}, n \in 1 .. MaxSeq, d \in 0 .. MaxSeq :
        /\ content' = Append(content, [product |-> p, kind |-> k,
                                       sequence |-> n, needs |-> d])
        /\ kind' = [kind EXCEPT ![p] = k]
        /\ pos' = [pos EXCEPT ![p] = n]
        /\ k = "book" => NotBefore(p, n) /\ d = 0
        /\ k = "message" => kind[p] # "none" /\ n = pos[p] + 1 /\ CanNeed(p, n, d)
  BY HandedOn DEF Handed
<1>2. PICK L \in Nat : L = Len(content)
  BY DEF StreamTypes
<1> DEFINE e == [product |-> p, kind |-> k, sequence |-> n, needs |-> d]
<1>3. e \in Content
  BY DEF Content
<1>4. /\ content' \in Seq(Content) /\ Len(content') = L + 1
      /\ \A i \in 1 .. L : content'[i] = content[i]
      /\ content'[L + 1] = e
      /\ DOMAIN content = 1 .. L /\ DOMAIN content' = 1 .. L + 1
  <2>1. content \in Seq(Content) /\ content' = Append(content, e)
    BY <1>1 DEF StreamTypes
  <2> HIDE DEF e
  <2>2. content' \in Seq(Content) /\ Len(content') = L + 1
    BY <1>2, <1>3, <2>1, ContentAdded
  <2> QED
    BY <1>2, <1>3, <2>1, <2>2, ContentAdded
<1>5. e.product = p /\ e.kind = k /\ e.sequence = n /\ e.needs = d
  OBVIOUS
<1> HIDE DEF e
<1>6. \A i \in 1 .. L : content[i].sequence \in 1 .. MaxSeq
  <2>1. \A i \in 1 .. L : content[i] \in Content
    BY <1>2 DEF StreamTypes
  <2>2. \A c \in Content : c.sequence \in 1 .. MaxSeq
    BY DEF Content
  <2> QED
    BY <2>1, <2>2
<1>7. NotBefore(p, n) /\ n \in Nat
  <2>1. n \in Nat
    BY DeliveryAssumption
  <2>2. CASE k = "book"
    BY <1>1, <2>1, <2>2
  <2>3. CASE k = "message"
    <3>1. NotBefore(p, pos[p]) /\ n = pos[p] + 1
      BY <1>1, <2>3 DEF StreamsNewest
    <3>2. \A i \in 1 .. L : content[i].sequence \in 1 .. MaxSeq
      BY <1>6
    <3>3. pos[p] \in 0 .. MaxSeq
      BY DEF StreamTypes
    <3> QED
      BY <1>4, <2>1, <3>1, <3>2, <3>3, DeliveryAssumption DEF NotBefore
  <2> QED
    BY <2>2, <2>3
<1>8. StreamsNewest'
  <2> SUFFICES ASSUME NEW q \in Products, kind'[q] # "none",
                      NEW i \in 1 .. L + 1, content'[i].product = q
               PROVE  content'[i].sequence <= pos'[q]
    BY <1>4 DEF StreamsNewest, NotBefore
  <2>1. CASE q = p
    <3>1. pos'[q] = n
      BY <1>1, <2>1 DEF StreamTypes
    <3>2. CASE i = L + 1
      BY <1>4, <1>5, <1>7, <3>1, <3>2
    <3>3. CASE i # L + 1
      <4>1. i \in 1 .. L
        BY <3>3
      <4> QED
        BY <1>4, <1>7, <2>1, <3>1, <4>1 DEF NotBefore
    <3> QED
      BY <3>2, <3>3
  <2>2. CASE q # p
    <3>1. kind'[q] = kind[q] /\ pos'[q] = pos[q]
      BY <1>1, <2>2 DEF StreamTypes
    <3>2. i # L + 1
      BY <1>4, <1>5, <2>2
    <3>3. i \in 1 .. L
      BY <3>2
    <3> QED
      BY <1>4, <3>1, <3>3 DEF StreamsNewest, NotBefore
  <2> QED
    BY <2>1, <2>2
<1>9. StreamsNeed'
  <2>1. ASSUME NEW j \in 1 .. L
        PROVE  /\ content'[j].needs < content'[j].sequence
               /\ \A i \in 1 .. j - 1 : MayFollow(content'[i], content'[j])
    <3>1. content'[j] = content[j] /\ \A i \in 1 .. j - 1 : i \in 1 .. L /\ content'[i] = content[i]
      BY <1>4
    <3> QED
      BY <1>2, <3>1 DEF StreamsNeed
  <2>2. d < n
    BY <1>1, <1>7 DEF CanNeed
  <2>3. ASSUME NEW i \in 1 .. L
        PROVE  MayFollow(content[i], e)
    <3> SUFFICES ASSUME k = "message", content[i].product = p
                 PROVE  /\ content[i].sequence < n
                        /\ content[i].sequence = d => content[i].needs = 0
      BY <1>5 DEF MayFollow
    <3>1. NotBefore(p, pos[p]) /\ n = pos[p] + 1 /\ CanNeed(p, n, d)
      BY <1>1 DEF StreamsNewest
    <3>2. content[i].sequence \in 1 .. MaxSeq /\ pos[p] \in 0 .. MaxSeq
      BY <1>6 DEF StreamTypes
    <3>3. content[i].sequence <= pos[p]
      BY <1>4, <3>1 DEF NotBefore
    <3> QED
      BY <1>4, <3>1, <3>2, <3>3, DeliveryAssumption DEF CanNeed
  <2>4. \A i \in 1 .. (L + 1) - 1 : i \in 1 .. L
    OBVIOUS
  <2>5. \A j \in 1 .. Len(content') : j \in 1 .. L \/ j = L + 1
    BY <1>4
  <2> QED
    BY <1>4, <1>5, <2>1, <2>2, <2>3, <2>4, <2>5 DEF StreamsNeed
<1> QED
  BY <1>8, <1>9

\* A change that is added is among the changes.
LEMMA ChangeAdded ==
    ASSUME MarketInv, NEW p \in Products, HandOn(p)
    PROVE  /\ AllChanges' = AllChanges \cup {NewChange(p)}
           /\ NewChange(p) \in ProductChange
           /\ NewChange(p).product = p
           /\ NewChange(p).feed = made[p]
           /\ NewChange(p).number = delivered + 1
           /\ delivered' = delivered + 1 /\ delivered \in Nat
           /\ made' = made
<1>1. /\ NewChange(p) \in ProductChange
      /\ NewChange(p).product = p /\ NewChange(p).feed = made[p]
      /\ NewChange(p).number = delivered + 1
      /\ delivered \in Nat
  BY DEF NewChange, ProductChange, MarketInv, TypeOK
<1>2. ToSet(productChanges') = ToSet(productChanges) \cup {NewChange(p)}
  BY <1>1, ToSetAppend DEF HandOn, OnProductChange, MarketInv, TypeOK
<1>3. UNCHANGED <<currentChanges, applied, dropped, made>> /\ delivered' = delivered + 1
  BY DEF HandOn, OnProductChange, market
<1> QED
  BY <1>1, <1>2, <1>3 DEF AllChanges

\* What was brought stays brought, while contents are added.
LEMMA BroughtStays ==
    ASSUME MarketInv, StreamTypes, AllChanges \subseteq AllChanges',
           \A i \in 1 .. Len(content) : content'[i] = content[i],
           NEW p, NEW f, NEW n \in Nat, NEW m \in Nat, n <= m, NEW d,
           Brought(AllChanges, content, p, f, n, d)
    PROVE  Brought(AllChanges', content', p, f, m, d)
<1>1. PICK a \in AllChanges :
         a.product = p /\ a.feed = f /\ a.number < n /\ BringsOf(content[a.number], d)
  BY DEF Brought
<1>2. a.number \in 1 .. Len(content)
  BY <1>1, NumbersOnce DEF MarketInv, StreamTypes
<1>3. a.number \in Nat
  BY <1>1, ChangeType DEF MarketInv
<1>4. a.number < m
  BY <1>1, <1>3
<1>5. content'[a.number] = content[a.number]
  BY <1>2
<1> QED
  BY <1>1, <1>4, <1>5 DEF Brought

\* What streams have brought, whatever a feed product hands on.
LEMMA HandOnKeepsBrought ==
    ASSUME MarketInv, StreamTypes, StreamsBring, NEW p \in Products, HandOn(p)
    PROVE  StreamsBring'
<1>1. PICK k \in {"book", "message"}, n \in 1 .. MaxSeq, d \in 0 .. MaxSeq :
        /\ content' = Append(content, [product |-> p, kind |-> k,
                                       sequence |-> n, needs |-> d])
        /\ kind' = [kind EXCEPT ![p] = k]
        /\ pos' = [pos EXCEPT ![p] = n]
        /\ k = "book" => NotBefore(p, n) /\ d = 0
        /\ k = "message" => kind[p] # "none" /\ n = pos[p] + 1 /\ CanNeed(p, n, d)
  BY HandedOn DEF Handed
<1> DEFINE e == [product |-> p, kind |-> k, sequence |-> n, needs |-> d]
           new == NewChange(p)
<1>2. e \in Content /\ e.kind = k /\ e.sequence = n /\ e.needs = d
  BY DEF Content
<1>3. /\ \A i \in 1 .. Len(content) : content'[i] = content[i]
      /\ content'[Len(content) + 1] = e
  <2>1. content \in Seq(Content) /\ content' = Append(content, e)
    BY <1>1 DEF StreamTypes
  <2> HIDE DEF e
  <2> QED
    BY <1>2, <2>1, ContentAdded
<1>4. /\ AllChanges' = AllChanges \cup {new}
      /\ new.product = p /\ new.feed = made[p] /\ new.number = delivered + 1
      /\ delivered' = delivered + 1 /\ delivered \in Nat
      /\ made' = made
  BY ChangeAdded
<1>5. content'[new.number] = e
  BY <1>3, <1>4 DEF StreamTypes
<1> HIDE DEF e, new
<1>6. ASSUME NEW q, NEW f, NEW m \in Nat, NEW x,
             Brought(AllChanges, content, q, f, m, x)
      PROVE  /\ Brought(AllChanges', content', q, f, m, x)
             /\ Brought(AllChanges', content', q, f, m + 1, x)
  <2>1. AllChanges \subseteq AllChanges'
    BY <1>4
  <2>2. m + 1 \in Nat /\ m <= m + 1 /\ m <= m
    OBVIOUS
  <2>3. \A u \in Nat : m <= u => Brought(AllChanges', content', q, f, u, x)
    BY <1>3, <1>6, <2>1, BroughtStays
  <2> QED
    BY <2>2, <2>3
<1>7. ASSUME NEW q \in Products, kind'[q] # "none", NEW x \in 1 .. pos'[q]
      PROVE  Brought(AllChanges', content', q, made[q], delivered + 2, x)
  <2>0. delivered + 1 \in Nat /\ (delivered + 1) + 1 = delivered + 2
    BY <1>4
  <2>1. CASE q = p /\ ~(k = "message" /\ x < n)
    <3>1. pos'[p] = n /\ n \in Nat /\ x \in Nat
      BY <1>1, <2>1, DeliveryAssumption DEF StreamTypes
    <3>2. BringsOf(content'[new.number], x)
      <4>1. k = "book" => x \in 1 .. n
        BY <1>7, <2>1, <3>1
      <4>2. k = "message" => x = n
        BY <1>7, <2>1, <3>1
      <4> QED
        BY <1>2, <1>5, <4>1, <4>2 DEF BringsOf
    <3>3. new.number < delivered + 2
      BY <1>4
    <3> QED
      BY <1>4, <2>1, <3>2, <3>3 DEF Brought
  <2>2. CASE q = p /\ k = "message" /\ x < n
    <3>1. kind[p] # "none" /\ n = pos[p] + 1 /\ x \in Nat /\ x >= 1
      BY <1>1, <1>7, <2>2 DEF StreamTypes
    <3>2. x \in 1 .. pos[p]
      BY <2>2, <3>1 DEF StreamTypes
    <3>3. Brought(AllChanges, content, p, made[p], delivered + 1, x)
      BY <3>1, <3>2 DEF StreamsBring
    <3> QED
      BY <1>6, <2>0, <2>2, <3>3
  <2>3. CASE q # p
    <3>1. kind'[q] = kind[q] /\ pos'[q] = pos[q]
      BY <1>1, <2>3 DEF StreamTypes
    <3>2. Brought(AllChanges, content, q, made[q], delivered + 1, x)
      BY <1>7, <3>1 DEF StreamsBring
    <3> QED
      BY <1>6, <2>0, <3>2
  <2> QED
    BY <2>1, <2>2, <2>3
<1>8. ASSUME NEW pc \in AllChanges', content'[pc.number].needs # 0
      PROVE  Brought(AllChanges', content', pc.product, pc.feed, pc.number,
                     content'[pc.number].needs)
  <2>1. CASE pc \in AllChanges
    <3>1. pc.number \in 1 .. Len(content) /\ pc.number \in Nat
      BY <2>1, NumbersOnce, ChangeType DEF MarketInv, StreamTypes
    <3>2. content'[pc.number] = content[pc.number]
      BY <1>3, <3>1
    <3>3. Brought(AllChanges, content, pc.product, pc.feed, pc.number,
                  content[pc.number].needs)
      BY <1>8, <2>1, <3>2 DEF StreamsBring
    <3> QED
      BY <1>6, <3>1, <3>2, <3>3
  <2>2. CASE pc = new
    <3>1. d # 0 /\ content'[pc.number].needs = d
      BY <1>2, <1>5, <1>8, <2>2
    <3>2. k = "message" /\ kind[p] # "none" /\ n = pos[p] + 1 /\ d < n
      BY <1>1, <3>1 DEF CanNeed
    <3>3. d \in 1 .. pos[p]
      BY <3>1, <3>2 DEF StreamTypes
    <3>4. Brought(AllChanges, content, p, made[p], delivered + 1, d)
      BY <3>2, <3>3 DEF StreamsBring
    <3>5. delivered + 1 \in Nat
      BY <1>4
    <3> QED
      BY <1>4, <1>6, <2>2, <3>1, <3>4, <3>5
  <2> QED
    BY <1>4, <2>1, <2>2
<1>9. delivered' + 1 = delivered + 2 /\ made' = made
  BY <1>4
<1> QED
  BY <1>7, <1>8, <1>9 DEF StreamsBring

\* A new feed product begins its stream; the others go on with theirs.
LEMMA NewFeedKeepsStreams ==
    ASSUME StreamTypes, Carried, StreamsEnd, StreamsFollow, StreamsNewest, StreamsNeed,
           StreamsBring, NewFeed
    PROVE  /\ StreamTypes' /\ Carried' /\ StreamsEnd' /\ StreamsFollow'
           /\ StreamsNewest' /\ StreamsNeed' /\ StreamsBring'
<1>1. /\ content' = content
      /\ UNCHANGED <<productChanges, currentChanges, applied, dropped, delivered>>
  BY DEF NewFeed, SubscribeFeed, market
<1>2. \A p \in Products : \/ pos'[p] = pos[p] /\ kind'[p] = kind[p] /\ made'[p] = made[p]
                          \/ pos'[p] = 0 /\ kind'[p] = "none"
  BY DEF NewFeed
<1>3. StreamTypes'
  <2>1. /\ pos' = [p \in Products |-> IF made'[p] = made[p] THEN pos[p] ELSE 0]
        /\ kind' = [p \in Products |-> IF made'[p] = made[p] THEN kind[p] ELSE "none"]
    BY DEF NewFeed
  <2>2. pos' \in [Products -> 0 .. MaxSeq]
    BY <2>1, DeliveryAssumption DEF StreamTypes
  <2>3. kind' \in [Products -> {"none", "book", "message"}]
    BY <2>1 DEF StreamTypes
  <2> QED
    BY <1>1, <2>2, <2>3 DEF StreamTypes
<1>4. Carried'
  BY <1>1 DEF Carried, AllChanges
<1>5. StreamsEnd'
  BY <1>1, <1>2 DEF StreamsEnd, LastBefore
<1>6. StreamsFollow'
  BY <1>1 DEF StreamsFollow, LastBefore
<1>7. StreamsNewest' /\ StreamsNeed'
  BY <1>1, <1>2 DEF StreamsNewest, NotBefore, StreamsNeed
<1>8. StreamsBring'
  <2>1. AllChanges' = AllChanges /\ delivered' = delivered
    BY <1>1 DEF AllChanges
  <2> QED
    BY <1>1, <1>2, <2>1 DEF StreamsBring
<1> QED
  BY <1>3, <1>4, <1>5, <1>6, <1>7, <1>8

\* The steps of Market that make no change move changes from place to place.
LEMMA ChangesMoved ==
    ASSUME MarketInv, Elsewhere
    PROVE  AllChanges' = AllChanges /\ delivered' = delivered
<1> USE DEF registries, service, websocket, market, feed
<1>1. ASSUME NEW type \in RequestTypes, NEW c \in Clients, NEW p \in Products,
             Request(type, c, p)
      PROVE  UNCHANGED <<productChanges, currentChanges, applied, dropped, delivered>>
  BY <1>1 DEF Request
<1>2. CASE \/ SubscribeProduct \/ SubscribeTrades \/ Unsubscribe \/ UnsubscribeCrashes
           \/ UnsubscribeFeed \/ UnsubscribeJoin
  BY <1>2 DEF SubscribeProduct, SubscribeTrades, Unsubscribe, UnsubscribeCrashes,
              UnsubscribeFeed, UnsubscribeJoin, AllChanges
<1>3. ASSUME NEW p \in Products, OnMessageReceived(p)
      PROVE  UNCHANGED <<productChanges, currentChanges, applied, dropped, delivered>>
  BY <1>3 DEF OnMessageReceived
<1>4. CASE OnTrade \/ Stop \/ CheckRunning
  BY <1>4 DEF OnTrade, Stop, CheckRunning, AllChanges
<1>5. CASE TakeChanges
  <2>1. /\ currentChanges' = productChanges /\ productChanges' = <<>>
        /\ currentChanges = <<>>
        /\ UNCHANGED <<applied, dropped, delivered>>
    BY <1>5 DEF TakeChanges, Left, MarketInv, Batched
  <2> QED
    BY <2>1, ToSetEmpty DEF AllChanges
<1>6. CASE ApplyChanges
  <2>1. /\ applied' = applied \cup UNION {ToSet(GroupOf(currentChanges, p)) :
                                            p \in {q \in DOMAIN m_products : Known(q)}}
        /\ dropped' = dropped \cup {pc \in ToSet(currentChanges) : ~Known(pc.product)}
        /\ currentChanges' = <<>>
        /\ UNCHANGED <<productChanges, delivered>>
    BY <1>6 DEF ApplyChanges
  <2>2. \A p : ToSet(GroupOf(currentChanges, p)) =
                 {c \in ToSet(currentChanges) : c.product = p}
    BY GroupOfProduct DEF MarketInv, TypeOK
  <2>3. ToSet(currentChanges') = {}
    BY <2>1, ToSetEmpty
  <2>4. UNION {ToSet(GroupOf(currentChanges, p)) :
                 p \in {q \in DOMAIN m_products : Known(q)}}
          = {pc \in ToSet(currentChanges) : Known(pc.product)}
    BY <2>2 DEF Known
  <2>5. applied' \cup dropped' = applied \cup dropped \cup ToSet(currentChanges)
    BY <2>1, <2>4
  <2> QED
    BY <2>1, <2>3, <2>5 DEF AllChanges
<1> QED
  BY <1>1, <1>2, <1>3, <1>4, <1>5, <1>6 DEF Elsewhere, MarketThread, AllChanges

\* They leave the streams alone.
LEMMA ElsewhereKeepsStreams ==
    ASSUME MarketInv, StreamTypes, Carried, StreamsEnd, StreamsFollow, StreamsNewest,
           StreamsNeed, StreamsBring, Elsewhere
    PROVE  /\ StreamTypes' /\ Carried' /\ StreamsEnd' /\ StreamsFollow'
           /\ StreamsNewest' /\ StreamsNeed' /\ StreamsBring'
<1>1. UNCHANGED <<pos, kind, content>>
  BY DEF Elsewhere, stream
<1>2. AllChanges' = AllChanges /\ delivered' = delivered
  BY ChangesMoved
<1>3. StreamTypes'
  BY <1>1, <1>2 DEF StreamTypes
<1>4. Carried'
  BY <1>1, <1>2 DEF Carried
<1>5. StreamsEnd' /\ StreamsFollow'
  BY <1>1 DEF StreamsEnd, StreamsFollow, LastBefore
<1>6. StreamsNewest' /\ StreamsNeed'
  BY <1>1 DEF StreamsNewest, NotBefore, StreamsNeed
<1>7. made' = made
  <2> USE DEF registries, service, websocket, market, feed
  <2>1. ASSUME NEW type \in RequestTypes, NEW c \in Clients, NEW p \in Products,
               Request(type, c, p)
        PROVE  made' = made
    BY <2>1 DEF Request
  <2>2. ASSUME NEW p \in Products, OnMessageReceived(p)
        PROVE  made' = made
    BY <2>2 DEF OnMessageReceived
  <2>3. CASE \/ SubscribeProduct \/ SubscribeTrades \/ Unsubscribe \/ UnsubscribeCrashes
             \/ UnsubscribeFeed \/ UnsubscribeJoin
    BY <2>3 DEF SubscribeProduct, SubscribeTrades, Unsubscribe, UnsubscribeCrashes,
                UnsubscribeFeed, UnsubscribeJoin
  <2>4. CASE OnTrade \/ Stop \/ MarketThread
    BY <2>4 DEF OnTrade, Stop, MarketThread, CheckRunning, TakeChanges, ApplyChanges
  <2> QED
    BY <2>1, <2>2, <2>3, <2>4 DEF Elsewhere
<1>8. StreamsBring'
  BY <1>1, <1>2, <1>7 DEF StreamsBring
<1> QED
  BY <1>3, <1>4, <1>5, <1>6, <1>8

-----------------------------------------------------------------------------
(***************************************************************************)
(* The books.                                                              *)
(***************************************************************************)

\* A step that neither applies a change nor makes a feed product for p, and keeps
\* its book, keeps what is said of it.
LEMMA BookKept ==
    ASSUME NEW p, BookGiven(p),
           m_products'[p].book = m_products[p].book,
           p \in m_prodIdToListener' => p \in m_prodIdToListener,
           UNCHANGED <<applied, dropped, made>>
    PROVE  BookGiven(p)'
BY DEF BookGiven

\* subscribe makes a product with an empty book and, at first, no feed product.
LEMMA BooksSubscribe ==
    ASSUME MarketInv, BooksGiven, SubscribeProduct
    PROVE  BooksGiven'
<1>1. UNCHANGED <<applied, dropped, made, m_prodIdToListener>>
  BY DEF SubscribeProduct, market, feed
<1>2. CASE request.product \in DOMAIN m_products
  BY <1>1, <1>2 DEF SubscribeProduct, BooksGiven, BookGiven
<1>3. CASE request.product \notin DOMAIN m_products
  <2>1. m_products' = [q \in DOMAIN m_products \cup {request.product} |->
                         IF q = request.product THEN NewProduct ELSE m_products[q]]
    BY <1>3 DEF SubscribeProduct
  <2>2. request.product \notin m_prodIdToListener
    BY <1>3 DEF SubscribeProduct, MarketInv, RegistriesByPc
  <2>3. ASSUME NEW q \in DOMAIN m_products'
        PROVE  BookGiven(q)'
    <3>1. CASE q = request.product
      <4>1. m_products'[q].book = <<>>
        BY <2>1, <3>1 DEF NewProduct
      <4>2. ToSet(m_products'[q].book) = {}
        BY <4>1, ToSetEmpty
      <4> QED
        BY <1>1, <2>2, <3>1, <4>2 DEF BookGiven
    <3>2. CASE q # request.product
      <4>1. q \in DOMAIN m_products /\ m_products'[q] = m_products[q]
        BY <2>1, <3>2
      <4>2. BookGiven(q)
        BY <4>1 DEF BooksGiven
      <4> QED
        BY <1>1, <4>1, <4>2, BookKept
    <3> QED
      BY <3>1, <3>2
  <2> QED
    BY <2>3 DEF BooksGiven
<1> QED
  BY <1>2, <1>3

\* No change of the new feed product has been applied yet.
LEMMA BooksNewFeed ==
    ASSUME MarketInv, BooksGiven, SubscribeFeed
    PROVE  BooksGiven'
<1>1. UNCHANGED <<applied, dropped, m_products>>
  BY DEF SubscribeFeed, market
<1>2. request.product \in Products
  BY RequestType DEF SubscribeFeed, MarketInv
<1>3. \A pc \in applied : pc.feed \in Nat /\ pc.feed <= made[pc.product]
  BY ChangeType DEF MarketInv, FeedsExist, AllChanges
<1>4. ASSUME NEW q \in DOMAIN m_products
      PROVE  BookGiven(q)'
  <2>1. BookGiven(q)
    BY DEF BooksGiven
  <2>2. ASSUME NEW pc \in applied, pc.product = q,
               q \in m_prodIdToListener', pc.feed = made'[q]
        PROVE  q \in m_prodIdToListener /\ pc.feed = made[q]
    <3>1. made \in [Products -> Nat] /\ q \in Products
      BY DEF MarketInv, TypeOK
    <3>2. CASE request.product \in m_prodIdToListener
      BY <2>2, <3>2 DEF SubscribeFeed
    <3>3. CASE request.product \notin m_prodIdToListener
      <4>1. made' = [made EXCEPT ![request.product] = @ + 1]
        BY <3>3 DEF SubscribeFeed
      <4>2. CASE q = request.product
        BY <1>2, <1>3, <2>2, <3>1, <4>1, <4>2
      <4>3. CASE q # request.product
        BY <2>2, <3>1, <4>1, <4>3 DEF SubscribeFeed
      <4> QED
        BY <4>2, <4>3
    <3> QED
      BY <3>2, <3>3
  <2> QED
    BY <1>1, <2>1, <2>2 DEF BookGiven
<1> QED
  BY <1>1, <1>4 DEF BooksGiven

\* The product leaves with its book.
LEMMA BooksUnsubscribe ==
    ASSUME MarketInv, BooksGiven, Unsubscribe \/ UnsubscribeJoin
    PROVE  BooksGiven'
<1>1. /\ UNCHANGED <<applied, dropped, made>>
      /\ m_prodIdToListener' \subseteq m_prodIdToListener
  BY DEF Unsubscribe, UnsubscribeJoin, market, feed
<1>2. ASSUME NEW q \in DOMAIN m_products'
      PROVE  q \in DOMAIN m_products /\ m_products'[q].book = m_products[q].book
  <2>1. CASE Unsubscribe
    <3>1. m_products' = [m_products EXCEPT ![request.product] =
                           RemoveClient(m_products[request.product], request.client)]
      BY <2>1 DEF Unsubscribe
    <3>2. q \in DOMAIN m_products
      BY <3>1
    <3>3. m_products[q] \in [m_clients : SUBSET Clients, book : Seq(ProductChange)]
      BY <3>2 DEF MarketInv, TypeOK
    <3>4. RemoveClient(m_products[q], request.client).book = m_products[q].book
      BY <3>3 DEF RemoveClient
    <3> QED
      BY <3>1, <3>2, <3>4
  <2>2. CASE UnsubscribeJoin
    BY <2>2 DEF UnsubscribeJoin
  <2> QED
    BY <2>1, <2>2
<1>3. ASSUME NEW q \in DOMAIN m_products'
      PROVE  BookGiven(q)'
  <2>1. BookGiven(q)
    BY <1>2 DEF BooksGiven
  <2> QED
    BY <1>1, <1>2, <2>1, BookKept
<1> QED
  BY <1>3 DEF BooksGiven

\* What the market thread does with a batch: changes of products the market has
\* are applied, the others are dropped, and each book gets its own.
LEMMA BatchApplied ==
    ASSUME MarketInv, ApplyChanges
    PROVE  LET batch == ToSet(currentChanges) IN
           /\ applied' = applied \cup {pc \in batch : pc.product \in DOMAIN m_products}
           /\ dropped' = dropped \cup {pc \in batch : pc.product \notin DOMAIN m_products}
           /\ DOMAIN m_products' = DOMAIN m_products
           /\ UNCHANGED <<made, m_prodIdToListener>>
           /\ \A q \in DOMAIN m_products :
                LET group == GroupOf(currentChanges, q) IN
                /\ group \in Seq(ProductChange)
                /\ ToSet(group) = {pc \in batch : pc.product = q}
                /\ m_products[q].book \in Seq(ProductChange)
                /\ m_products'[q].book = m_products[q].book \o group
                /\ ToSet(m_products'[q].book) = ToSet(m_products[q].book) \cup ToSet(group)
<1> DEFINE batch == ToSet(currentChanges)
           groups == UNION {ToSet(GroupOf(currentChanges, p)) :
                              p \in {q \in DOMAIN m_products : Known(q)}}
<1>1. /\ applied' = applied \cup groups
      /\ dropped' = dropped \cup {pc \in batch : ~Known(pc.product)}
      /\ UNCHANGED <<made, m_prodIdToListener>>
  BY DEF ApplyChanges, feed
<1>2. \A p : /\ GroupOf(currentChanges, p) \in Seq(ProductChange)
             /\ ToSet(GroupOf(currentChanges, p)) = {pc \in batch : pc.product = p}
  BY GroupOfProduct DEF MarketInv, TypeOK
<1>3. groups = {pc \in batch : pc.product \in DOMAIN m_products}
  BY <1>2 DEF Known
<1>4. DOMAIN m_products' = DOMAIN m_products
  BY DEF ApplyChanges
<1>5. ASSUME NEW q \in DOMAIN m_products
      PROVE  /\ m_products[q].book \in Seq(ProductChange)
             /\ m_products'[q].book = m_products[q].book \o GroupOf(currentChanges, q)
  <2>1. m_products[q] \in [m_clients : SUBSET Clients, book : Seq(ProductChange)]
    BY DEF MarketInv, TypeOK
  <2>2. m_products'[q] = [m_products[q] EXCEPT !.book =
                            m_products[q].book \o GroupOf(currentChanges, q)]
    BY DEF ApplyChanges, Known
  <2> QED
    BY <2>1, <2>2
<1>6. ASSUME NEW q \in DOMAIN m_products
      PROVE  ToSet(m_products'[q].book) =
               ToSet(m_products[q].book) \cup ToSet(GroupOf(currentChanges, q))
  <2> DEFINE b == m_products[q].book
             g == GroupOf(currentChanges, q)
  <2>1. b \in Seq(ProductChange) /\ g \in Seq(ProductChange)
    BY <1>2, <1>5
  <2>2. m_products'[q].book = b \o g
    BY <1>5
  <2> HIDE DEF b, g
  <2>3. ToSet(b \o g) = ToSet(b) \cup ToSet(g)
    BY <2>1, ToSetConcat
  <2> QED
    BY <2>2, <2>3 DEF b, g
<1> HIDE DEF groups
<1> QED
  BY <1>1, <1>2, <1>3, <1>4, <1>5, <1>6 DEF Known

\* Each book gets all of the batch that is its own, and the batch is newer than
\* all that was done before.
LEMMA BooksApply ==
    ASSUME MarketInv, BooksGiven, ApplyChanges
    PROVE  BooksGiven'
<1> DEFINE batch == ToSet(currentChanges)
<1>1. /\ applied' = applied \cup {pc \in batch : pc.product \in DOMAIN m_products}
      /\ dropped' = dropped \cup {pc \in batch : pc.product \notin DOMAIN m_products}
      /\ DOMAIN m_products' = DOMAIN m_products
      /\ UNCHANGED <<made, m_prodIdToListener>>
      /\ \A q \in DOMAIN m_products :
           ToSet(m_products'[q].book) =
             ToSet(m_products[q].book) \cup {pc \in batch : pc.product = q}
  BY BatchApplied
<1>2. \A a \in applied \cup dropped, b \in batch :
        a.number \in Nat /\ b.number \in Nat /\ a.number < b.number
  <2>1. \A a \in applied \cup dropped, b \in batch : a.number < b.number
    BY DEF MarketInv, BatchesInOrder
  <2>2. \A a \in applied \cup dropped \cup batch : a.number \in Nat
    BY ChangeType DEF MarketInv, AllChanges
  <2> QED
    BY <2>1, <2>2
<1>3. ASSUME NEW q \in DOMAIN m_products
      PROVE  BookGiven(q)'
  <2> DEFINE given == ToSet(m_products[q].book)
             own == {pc \in batch : pc.product = q}
  <2>1. ToSet(m_products'[q].book) = given \cup own
    BY <1>1
  <2>2. BookGiven(q)
    BY DEF BooksGiven
  <2>3. given \cup own \subseteq {pc \in applied' : pc.product = q}
    BY <1>1, <2>2 DEF BookGiven
  <2>4. ASSUME NEW a \in given \cup own, NEW pc \in applied' \cup dropped',
               pc.product = q, a.number < pc.number
        PROVE  pc \in given \cup own
    <3>1. pc \in applied \cup dropped \/ pc \in batch
      BY <1>1
    <3>2. CASE pc \in batch
      BY <2>4, <3>2
    <3>3. CASE pc \in applied \cup dropped
      <4>1. CASE a \in given
        BY <2>2, <2>4, <3>3, <4>1 DEF BookGiven
      <4>2. CASE a \in own
        BY <1>2, <2>4, <3>3, <4>2
      <4> QED
        BY <4>1, <4>2
    <3> QED
      BY <3>1, <3>2, <3>3
  <2>5. ASSUME NEW pc \in applied', pc.product = q, q \in m_prodIdToListener',
               pc.feed = made'[q]
        PROVE  pc \in given \cup own
    BY <1>1, <2>2, <2>5 DEF BookGiven
  <2> HIDE DEF given, own
  <2> QED
    BY <2>1, <2>3, <2>4, <2>5 DEF BookGiven
<1> QED
  BY <1>1, <1>3 DEF BooksGiven

\* Every other step leaves books, registries and done changes alone.
LEMMA BooksStep ==
    ASSUME MarketInv, BooksGiven, [DeliveryNext]_<<vars, stream>>
    PROVE  BooksGiven'
<1> USE DEF locks, registries, service, websocket, market, feed, vars
<1> DEFINE Kept == UNCHANGED <<m_products, m_prodIdToListener, applied, dropped, made>>
<1>1. Kept => BooksGiven'
  BY DEF BooksGiven, BookGiven
<1>2. ASSUME NEW p \in Products, HandOn(p)
      PROVE  Kept
  BY <1>2 DEF HandOn, OnProductChange
<1>3. CASE NewFeed
  BY <1>3, BooksNewFeed DEF NewFeed
<1>4. ASSUME NEW type \in RequestTypes, NEW c \in Clients, NEW p \in Products,
             Request(type, c, p)
      PROVE  Kept
  BY <1>4 DEF Request
<1>5. ASSUME NEW p \in Products, OnMessageReceived(p)
      PROVE  Kept
  BY <1>5 DEF OnMessageReceived
<1>6. CASE \/ SubscribeTrades \/ UnsubscribeCrashes \/ UnsubscribeFeed \/ OnTrade
           \/ CheckRunning \/ TakeChanges \/ Stop \/ UNCHANGED <<vars, stream>>
  <2>1. Kept
    BY <1>6 DEF SubscribeTrades, UnsubscribeCrashes, UnsubscribeFeed, OnTrade,
                CheckRunning, TakeChanges, Stop
  <2> QED
    BY <1>1, <2>1
<1>7. CASE SubscribeProduct
  BY <1>7, BooksSubscribe
<1>8. CASE Unsubscribe \/ UnsubscribeJoin
  BY <1>8, BooksUnsubscribe
<1>9. CASE ApplyChanges
  BY <1>9, BooksApply
<1> HIDE DEF Kept
<1> QED
  BY <1>1, <1>2, <1>3, <1>4, <1>5, <1>6, <1>7, <1>8, <1>9
     DEF DeliveryNext, Elsewhere, MarketThread

\* The numbers of a queue fall.
Falling(s) == \A i, j \in 1 .. Len(s) : i < j => s[j].number < s[i].number

\* A number greater than all of a falling queue can be put before it.
LEMMA FallingMore ==
    ASSUME NEW S, NEW s \in Seq(S), NEW x \in S, Falling(s),
           \A y \in ToSet(s) : y.number < x.number
    PROVE  Falling(<<x>> \o s)
<1> DEFINE t == <<x>> \o s
<1>1. /\ t \in Seq(S) /\ Len(s) \in Nat /\ Len(t) = Len(s) + 1
      /\ t[1] = x /\ \A i \in 2 .. Len(t) : t[i] = s[i - 1] /\ i - 1 \in 1 .. Len(s)
  OBVIOUS
<1>2. \A i \in 1 .. Len(s) : s[i] \in ToSet(s)
  BY ToSetElements
<1> HIDE DEF t
<1>3. ASSUME NEW i \in 1 .. Len(t), NEW j \in 1 .. Len(t), i < j
      PROVE  t[j].number < t[i].number
  <2>1. j \in 2 .. Len(t)
    BY <1>1, <1>3
  <2>2. CASE i = 1
    BY <1>1, <1>2, <2>1, <2>2
  <2>3. CASE i # 1
    <3>1. i \in 2 .. Len(t) /\ i - 1 < j - 1
      BY <1>1, <1>3, <2>3
    <3> QED
      BY <1>1, <2>1, <3>1 DEF Falling
  <2> QED
    BY <2>2, <2>3
<1> QED
  BY <1>3 DEF Falling, t

\* The group of a batch is in the reverse of the order in which it was queued.
LEMMA GroupFalls ==
    ASSUME NEW s \in Seq(ProductChange), Growing(s), NEW p
    PROVE  Falling(GroupOf(s, p))
<1>1. PICK F : Inserts(F, s, p) /\ GroupOf(s, p) = F[Len(s)]
  BY GroupInserted
<1>2. Len(s) \in Nat /\ \A i \in 1 .. Len(s) : s[i] \in ProductChange
  OBVIOUS
<1> DEFINE Upto(n) == {s[i] : i \in 1 .. n}
           T == {n \in 0 .. Len(s) :
                   F[n] \in Seq(ProductChange) /\ Falling(F[n]) /\ ToSet(F[n]) \subseteq Upto(n)}
<1>3. 0 \in T
  <2>1. F[0] = <<>> /\ 0 \in 0 .. Len(s) /\ <<>> \in Seq(ProductChange) /\ Len(<<>>) = 0
    BY <1>1, <1>2 DEF Inserts
  <2>2. Falling(<<>>)
    BY <2>1 DEF Falling
  <2> QED
    BY <2>1, <2>2, ToSetEmpty
<1>4. ASSUME NEW n \in 1 .. Len(s), n - 1 \in T
      PROVE  n \in T
  <2> DEFINE g == F[n - 1]
  <2>1. /\ n \in 0 .. Len(s) /\ s[n] \in ProductChange
        /\ g \in Seq(ProductChange) /\ Falling(g) /\ ToSet(g) \subseteq Upto(n - 1)
    BY <1>2, <1>4
  <2>2. F[n] = IF s[n].product = p THEN <<s[n]>> \o g ELSE g
    BY <1>1 DEF Inserts
  <2>3. Upto(n - 1) \subseteq Upto(n) /\ s[n] \in Upto(n)
    BY <1>2
  <2>4. \A y \in Upto(n - 1) : y.number < s[n].number
    BY <1>2 DEF Growing
  <2> HIDE DEF g, Upto
  <2>5. CASE s[n].product = p
    <3>1. F[n] = <<s[n]>> \o g
      BY <2>2, <2>5
    <3>2. Falling(F[n])
      BY <2>1, <2>4, <3>1, FallingMore
    <3>3. F[n] \in Seq(ProductChange) /\ F[n] # <<>> /\ Head(F[n]) = s[n] /\ Tail(F[n]) = g
      BY <2>1, <3>1
    <3>4. ToSet(F[n]) = {s[n]} \cup ToSet(g) /\ F[n] \in Seq(ProductChange)
      BY <3>3, ToSetTail
    <3> QED
      BY <2>1, <2>3, <3>2, <3>4
  <2>6. CASE s[n].product # p
    BY <2>1, <2>2, <2>3, <2>6 DEF g
  <2> QED
    BY <2>5, <2>6
<1> HIDE DEF T
<1>5. \A n \in 0 .. Len(s) : n \in T
  BY <1>2, <1>3, <1>4, UpToInduction
<1>6. Len(s) \in T
  BY <1>2, <1>5
<1> QED
  BY <1>1, <1>6 DEF T

\* A book that gets newer changes, none of them twice, has none twice.
LEMMA DistinctMore ==
    ASSUME NEW b \in Seq(ProductChange), NEW g \in Seq(ProductChange),
           Distinct(b), Falling(g),
           \A x \in ToSet(b), y \in ToSet(g) : x.number < y.number
    PROVE  Distinct(b \o g)
<1> DEFINE e == b \o g
<1>1. /\ Len(b) \in Nat /\ Len(g) \in Nat /\ Len(e) = Len(b) + Len(g)
      /\ \A i \in 1 .. Len(b) : e[i] = b[i]
      /\ \A i \in Len(b) + 1 .. Len(e) : e[i] = g[i - Len(b)] /\ i - Len(b) \in 1 .. Len(g)
  OBVIOUS
<1>2. /\ \A i \in 1 .. Len(b) : b[i] \in ToSet(b) /\ b[i].number \in Nat
      /\ \A i \in 1 .. Len(g) : g[i] \in ToSet(g) /\ g[i].number \in Nat
  <2>1. \A x \in ProductChange : x.number \in Nat
    BY DEF ProductChange
  <2> QED
    BY <2>1, ToSetElements
<1> HIDE DEF e
<1>3. ASSUME NEW i \in 1 .. Len(e), NEW j \in 1 .. Len(e), i < j
      PROVE  e[i].number # e[j].number
  <2>1. CASE j <= Len(b)
    <3>1. i \in 1 .. Len(b) /\ j \in 1 .. Len(b)
      BY <1>1, <1>3, <2>1
    <3> QED
      BY <1>1, <1>3, <3>1 DEF Distinct
  <2>2. CASE i <= Len(b) /\ j > Len(b)
    <3>1. i \in 1 .. Len(b) /\ j \in Len(b) + 1 .. Len(e)
      BY <1>1, <2>2
    <3>2. e[i] = b[i] /\ e[j] = g[j - Len(b)] /\ j - Len(b) \in 1 .. Len(g)
      BY <1>1, <3>1
    <3>3. e[i].number < e[j].number /\ e[i].number \in Nat /\ e[j].number \in Nat
      BY <1>2, <3>1, <3>2
    <3> QED
      BY <3>3
  <2>3. CASE i > Len(b)
    <3>1. i \in Len(b) + 1 .. Len(e) /\ j \in Len(b) + 1 .. Len(e) /\ i - Len(b) < j - Len(b)
      BY <1>1, <1>3, <2>3
    <3>2. /\ e[i] = g[i - Len(b)] /\ i - Len(b) \in 1 .. Len(g)
          /\ e[j] = g[j - Len(b)] /\ j - Len(b) \in 1 .. Len(g)
      BY <1>1, <3>1
    <3>3. e[j].number < e[i].number /\ e[i].number \in Nat /\ e[j].number \in Nat
      BY <1>2, <3>1, <3>2 DEF Falling
    <3> QED
      BY <3>3
  <2> QED
    BY <1>1, <2>1, <2>2, <2>3
<1>4. ASSUME NEW i \in 1 .. Len(e), NEW j \in 1 .. Len(e), e[i].number = e[j].number
      PROVE  i = j
  <2>1. ~(i < j) /\ ~(j < i)
    BY <1>3, <1>4
  <2> QED
    BY <1>1, <2>1
<1> QED
  BY <1>4 DEF Distinct, e

\* Batches are newer than what is in the books, and no step puts a change into a
\* book again.
LEMMA DistinctStep ==
    ASSUME MarketInv, BooksGiven, BooksDistinct, [DeliveryNext]_<<vars, stream>>
    PROVE  BooksDistinct'
<1> USE DEF locks, registries, service, websocket, market, feed, vars
<1>1. ASSUME \A q \in DOMAIN m_products' :
               q \in DOMAIN m_products /\ m_products'[q].book = m_products[q].book
      PROVE  BooksDistinct'
  BY <1>1 DEF BooksDistinct
<1>2. ASSUME NEW p \in Products, HandOn(p)
      PROVE  m_products' = m_products
  BY <1>2 DEF HandOn, OnProductChange
<1>3. ASSUME NEW type \in RequestTypes, NEW c \in Clients, NEW p \in Products,
             Request(type, c, p)
      PROVE  m_products' = m_products
  BY <1>3 DEF Request
<1>4. ASSUME NEW p \in Products, OnMessageReceived(p)
      PROVE  m_products' = m_products
  BY <1>4 DEF OnMessageReceived
<1>5. CASE \/ NewFeed \/ SubscribeTrades \/ UnsubscribeCrashes \/ UnsubscribeFeed
           \/ OnTrade \/ CheckRunning \/ TakeChanges \/ Stop \/ UNCHANGED <<vars, stream>>
  <2>1. m_products' = m_products
    BY <1>5 DEF NewFeed, SubscribeFeed, SubscribeTrades, UnsubscribeCrashes,
                UnsubscribeFeed, OnTrade, CheckRunning, TakeChanges, Stop
  <2> QED
    BY <1>1, <2>1
<1>6. CASE SubscribeProduct
  <2>1. ASSUME NEW q \in DOMAIN m_products'
        PROVE  \/ q \in DOMAIN m_products /\ m_products'[q] = m_products[q]
               \/ m_products'[q].book = <<>>
    BY <1>6 DEF SubscribeProduct, NewProduct
  <2>2. Distinct(<<>>)
    BY DEF Distinct
  <2> QED
    BY <2>1, <2>2 DEF BooksDistinct
<1>7. CASE Unsubscribe
  <2>1. ASSUME NEW q \in DOMAIN m_products'
        PROVE  q \in DOMAIN m_products /\ m_products'[q].book = m_products[q].book
    <3>1. m_products' = [m_products EXCEPT ![request.product] =
                           RemoveClient(m_products[request.product], request.client)]
      BY <1>7 DEF Unsubscribe
    <3>2. q \in DOMAIN m_products
      BY <3>1
    <3>3. m_products[q] \in [m_clients : SUBSET Clients, book : Seq(ProductChange)]
      BY <3>2 DEF MarketInv, TypeOK
    <3>4. RemoveClient(m_products[q], request.client).book = m_products[q].book
      BY <3>3 DEF RemoveClient
    <3> QED
      BY <3>1, <3>2, <3>4
  <2> QED
    BY <1>1, <2>1
<1>8. CASE UnsubscribeJoin
  <2>1. \A q \in DOMAIN m_products' :
          q \in DOMAIN m_products /\ m_products'[q].book = m_products[q].book
    BY <1>8 DEF UnsubscribeJoin
  <2> QED
    BY <1>1, <2>1
<1>9. CASE ApplyChanges
  <2>1. ASSUME NEW q \in DOMAIN m_products'
        PROVE  Distinct(m_products'[q].book)
    <3> DEFINE b == m_products[q].book
               g == GroupOf(currentChanges, q)
    <3>1. /\ q \in DOMAIN m_products
          /\ b \in Seq(ProductChange) /\ g \in Seq(ProductChange)
          /\ m_products'[q].book = b \o g
          /\ ToSet(g) \subseteq ToSet(currentChanges)
      BY <1>9, <2>1, BatchApplied
    <3>2. Falling(g)
      BY GroupFalls DEF MarketInv, TypeOK, Batched
    <3>3. ToSet(b) \subseteq applied
      BY <3>1 DEF BooksGiven, BookGiven
    <3>4. \A x \in ToSet(b), y \in ToSet(g) : x.number < y.number
      BY <3>1, <3>3 DEF MarketInv, BatchesInOrder
    <3>5. Distinct(b)
      BY <3>1 DEF BooksDistinct
    <3> HIDE DEF b, g
    <3> QED
      BY <3>1, <3>2, <3>4, <3>5, DistinctMore
  <2> QED
    BY <2>1 DEF BooksDistinct
<1> QED
  BY <1>1, <1>2, <1>3, <1>4, <1>5, <1>6, <1>7, <1>8, <1>9
     DEF DeliveryNext, Elsewhere, MarketThread

-----------------------------------------------------------------------------
(***************************************************************************)
(* The invariant.                                                          *)
(***************************************************************************)

\* It holds when there are no products and no changes.
LEMMA DeliveryStarts ==
    ASSUME DeliveryInit
    PROVE  DeliveryInv
<1>1. MarketInv
  BY MarketInit DEF DeliveryInit
<1>2. /\ content = <<>> /\ Len(content) = 0 /\ content \in Seq(Content)
      /\ pos = [p \in Products |-> 0]
      /\ kind = [p \in Products |-> "none"]
      /\ delivered = 0
  BY DEF DeliveryInit, Init
<1>3. StreamTypes
  <2>1. pos \in [Products -> 0 .. MaxSeq]
    BY <1>2, DeliveryAssumption
  <2>2. kind \in [Products -> {"none", "book", "message"}]
    BY <1>2
  <2> QED
    BY <1>2, <2>1, <2>2 DEF StreamTypes
<1>4. AllChanges = {}
  BY ToSetEmpty DEF DeliveryInit, Init, AllChanges
<1>5. Carried
  BY <1>4 DEF Carried
<1>6. StreamsEnd /\ StreamsFollow /\ StreamsNewest /\ StreamsNeed /\ StreamsBring
  BY <1>2, <1>4 DEF StreamsEnd, StreamsFollow, StreamsNewest, StreamsNeed, StreamsBring
<1>7. BooksGiven /\ BooksDistinct
  <2>1. DOMAIN m_products = {}
    BY DEF DeliveryInit, Init
  <2> QED
    BY <2>1 DEF BooksGiven, BooksDistinct
<1> QED
  BY <1>1, <1>3, <1>5, <1>6, <1>7 DEF DeliveryInv

\* Every step keeps it.
LEMMA DeliveryStep ==
    ASSUME DeliveryInv, [DeliveryNext]_<<vars, stream>>
    PROVE  DeliveryInv'
<1>1. MarketInv'
  BY DeliveryIsMarket, MarketStep DEF DeliveryInv
<1>2. BooksGiven' /\ BooksDistinct'
  BY BooksStep, DistinctStep DEF DeliveryInv
<1>3. /\ StreamTypes' /\ Carried' /\ StreamsEnd' /\ StreamsFollow'
      /\ StreamsNewest' /\ StreamsNeed' /\ StreamsBring'
  <2>1. ASSUME NEW p \in Products, HandOn(p)
        PROVE  /\ StreamTypes' /\ Carried' /\ StreamsEnd' /\ StreamsFollow'
               /\ StreamsNewest' /\ StreamsNeed' /\ StreamsBring'
    BY <2>1, HandOnKeepsStreams, HandOnKeepsNeeds, HandOnKeepsBrought DEF DeliveryInv
  <2>2. CASE NewFeed
    BY <2>2, NewFeedKeepsStreams DEF DeliveryInv
  <2>3. CASE Elsewhere
    BY <2>3, ElsewhereKeepsStreams DEF DeliveryInv
  <2>4. CASE UNCHANGED <<vars, stream>>
    <3>1. UNCHANGED <<pos, kind, content, delivered, productChanges, currentChanges,
                      applied, dropped, made>>
      BY <2>4 DEF vars, stream, market, feed
    <3>2. AllChanges' = AllChanges
      BY <3>1 DEF AllChanges
    <3>3. StreamTypes' /\ Carried'
      BY <3>1, <3>2 DEF DeliveryInv, StreamTypes, Carried
    <3>4. StreamsEnd' /\ StreamsFollow'
      BY <3>1 DEF DeliveryInv, StreamsEnd, StreamsFollow, LastBefore
    <3>5. StreamsNewest' /\ StreamsNeed'
      BY <3>1 DEF DeliveryInv, StreamsNewest, NotBefore, StreamsNeed
    <3>6. StreamsBring'
      BY <3>1, <3>2 DEF DeliveryInv, StreamsBring
    <3> QED
      BY <3>3, <3>4, <3>5, <3>6
  <2> QED
    BY <2>1, <2>2, <2>3, <2>4 DEF DeliveryNext
<1> QED
  BY <1>1, <1>2, <1>3 DEF DeliveryInv

\* What holds in every reachable state of Delivery.
LEMMA DeliveryInvariant == DeliverySpec => []DeliveryInv
<1>1. DeliveryInit => DeliveryInv
  BY DeliveryStarts
<1>2. DeliveryInv /\ [DeliveryNext]_<<vars, stream>> => DeliveryInv'
  BY DeliveryStep
<1> QED
  BY <1>1, <1>2, PTL DEF DeliverySpec

-----------------------------------------------------------------------------
(***************************************************************************)
(* The theorems.                                                           *)
(***************************************************************************)

\* The changes of a book: each has a content, which is of the book's product.
LEMMA ChangesOfBook ==
    ASSUME DeliveryInv, NEW p \in DOMAIN m_products
    PROVE  LET b == m_products[p].book IN
           /\ b \in Seq(ProductChange)
           /\ \A n \in 1 .. Len(b) :
                /\ b[n] \in ToSet(b)
                /\ b[n] \in applied
                /\ b[n].number \in 1 .. Len(content)
                /\ content[b[n].number] \in Content
                /\ content[b[n].number].product = p
                /\ content[b[n].number].sequence \in 1 .. MaxSeq
<1> DEFINE b == m_products[p].book
<1>1. b \in Seq(ProductChange)
  BY DEF DeliveryInv, MarketInv, TypeOK
<1>2. ASSUME NEW n \in 1 .. Len(b)
      PROVE  /\ b[n] \in ToSet(b)
             /\ b[n] \in applied
             /\ b[n].number \in 1 .. Len(content)
             /\ content[b[n].number] \in Content
             /\ content[b[n].number].product = p
             /\ content[b[n].number].sequence \in 1 .. MaxSeq
  <2>1. b[n] \in ToSet(b)
    <3> HIDE DEF b
    <3> QED
      BY <1>1, ToSetElements
  <2>2. b[n] \in applied /\ b[n].product = p
    BY <2>1 DEF DeliveryInv, BooksGiven, BookGiven
  <2>3. b[n] \in AllChanges
    BY <2>2 DEF AllChanges
  <2>4. b[n].number \in 1 .. delivered
    BY <2>3, NumbersOnce DEF DeliveryInv, MarketInv
  <2>5. b[n].number \in 1 .. Len(content) /\ content \in Seq(Content)
    BY <2>4 DEF DeliveryInv, StreamTypes
  <2>6. content[b[n].number] \in Content
    <3> HIDE DEF b
    <3> QED
      BY <2>5
  <2>7. content[b[n].number].product = p
    BY <2>2, <2>3 DEF DeliveryInv, Carried
  <2>8. content[b[n].number].sequence \in 1 .. MaxSeq
    BY <2>6 DEF Content
  <2> QED
    BY <2>1, <2>2, <2>5, <2>6, <2>7, <2>8
<1> QED
  BY <1>1, <1>2

\* What is published of a book is what its changes make of an empty one.
LEMMA PublishedFolds ==
    ASSUME DeliveryInv, NEW p \in DOMAIN m_products
    PROVE  \E F : /\ Reflects(F, content, m_products[p].book)
                  /\ Published(p) = F[Len(m_products[p].book)]
                  /\ \A k \in 0 .. Len(m_products[p].book) : ReflectedAfter(p, k) = F[k]
<1> DEFINE b == m_products[p].book
<1>1. /\ b \in Seq(ProductChange)
      /\ \A n \in 1 .. Len(b) : content[b[n].number].sequence \in Nat
  <2>1. \A k \in 1 .. MaxSeq : k \in Nat
    BY DeliveryAssumption
  <2> QED
    BY <2>1, ChangesOfBook
<1>2. \A k : ReflectedAfter(p, k) = FoldOf(content, b, k)
  BY DEF ReflectedAfter, FoldOf, Updated, UpdatedBy
<1> HIDE DEF b
<1>3. PICK F : Reflects(F, content, b) /\ \A k \in 0 .. Len(b) : FoldOf(content, b, k) = F[k]
  BY <1>1, FoldExists
<1>4. Len(b) \in 0 .. Len(b)
  BY <1>1
<1> QED
  BY <1>2, <1>3, <1>4 DEF b, Published

\* Numbers that grow from place to place grow.
LEMMA AdjacentGrow ==
    ASSUME NEW b \in Seq(ProductChange),
           \A i \in 1 .. Len(b) - 1 : b[i].number < b[i + 1].number
    PROVE  Growing(b)
<1> DEFINE T == {j \in 0 .. Len(b) : \A i \in 1 .. j - 1 : b[i].number < b[j].number}
<1>1. Len(b) \in Nat /\ \A i \in 1 .. Len(b) : b[i].number \in Nat
  <2>1. \A i \in 1 .. Len(b) : b[i] \in ProductChange
    OBVIOUS
  <2>2. \A x \in ProductChange : x.number \in Nat
    BY DEF ProductChange
  <2> QED
    BY <2>1, <2>2
<1>2. 0 \in T
  BY <1>1
<1>3. ASSUME NEW j \in 1 .. Len(b), j - 1 \in T
      PROVE  j \in T
  <2>1. ASSUME NEW i \in 1 .. j - 1
        PROVE  b[i].number < b[j].number
    <3>1. j - 1 \in 1 .. Len(b) - 1 /\ (j - 1) + 1 = j
      BY <1>1
    <3>2. b[j - 1].number < b[j].number
      BY <3>1
    <3>3. CASE i = j - 1
      BY <3>2, <3>3
    <3>4. CASE i # j - 1
      <4>1. i \in 1 .. (j - 1) - 1
        BY <1>1, <3>4
      <4>2. b[i].number < b[j - 1].number
        BY <1>3, <4>1
      <4>3. b[i].number \in Nat /\ b[j - 1].number \in Nat /\ b[j].number \in Nat
        BY <1>1, <3>1
      <4> QED
        BY <3>2, <4>2, <4>3
    <3> QED
      BY <3>3, <3>4
  <2>2. j \in 0 .. Len(b)
    BY <1>1
  <2> QED
    BY <2>1, <2>2
<1>4. \A j \in 0 .. Len(b) : j \in T
  <2> HIDE DEF T
  <2> QED
    BY <1>1, <1>2, <1>3, UpToInduction
<1>5. ASSUME NEW i \in 1 .. Len(b), NEW j \in 1 .. Len(b), i < j
      PROVE  b[i].number < b[j].number
  <2>1. j \in T /\ i \in 1 .. j - 1
    BY <1>1, <1>4, <1>5
  <2> QED
    BY <2>1
<1> QED
  BY <1>5 DEF Growing

\* In a book whose changes are in order, a message comes after the one it follows:
\* no change of the product between them went elsewhere.
LEMMA NeighboursFollow ==
    ASSUME DeliveryInv, NEW p \in DOMAIN m_products,
           Growing(m_products[p].book),
           NEW n \in 2 .. Len(m_products[p].book),
           content[m_products[p].book[n].number].kind # "book"
    PROVE  /\ content[m_products[p].book[n].number].sequence =
                content[m_products[p].book[n - 1].number].sequence + 1
           /\ content[m_products[p].book[n].number].needs \in
                0 .. content[m_products[p].book[n - 1].number].sequence
<1> DEFINE b == m_products[p].book
           j == b[n].number
           h == b[n - 1].number
<1>1. n - 1 \in 1 .. Len(b) /\ n \in 1 .. Len(b) /\ n - 1 < n
  BY ChangesOfBook
<1>2. /\ j \in 1 .. Len(content) /\ content[j] \in Content /\ content[j].product = p
      /\ h \in 1 .. Len(content) /\ content[h].product = p
      /\ b[n] \in applied /\ b[n - 1] \in ToSet(b)
  BY <1>1, ChangesOfBook
<1>3. Len(content) \in Nat /\ h < j
  BY <1>1 DEF Growing, DeliveryInv, StreamTypes
<1>4. PICK i \in 1 .. j - 1 :
         LastBefore(i, j, p) /\ content[j].sequence = content[i].sequence + 1
  <2>1. content[j].kind = "message"
    BY <1>2 DEF Content
  <2> QED
    BY <1>2, <2>1 DEF DeliveryInv, StreamsFollow
<1>5. ~(i < h)
  <2> SUFFICES ASSUME i < h
               PROVE  FALSE
    OBVIOUS
  <2>1. h \in i + 1 .. j - 1
    <3>1. h \in Int /\ j \in Int /\ i \in Int
      BY <1>2, <1>3
    <3> HIDE DEF h, j
    <3> QED
      BY <1>3, <3>1
  <2> QED
    BY <1>2, <1>4, <2>1 DEF LastBefore
<1>6. ~(h < i)
  <2> SUFFICES ASSUME h < i
               PROVE  FALSE
    OBVIOUS
  <2>1. i \in 1 .. delivered /\ content[i].product = p /\ i < j
    BY <1>2, <1>3, <1>4 DEF DeliveryInv, StreamTypes, LastBefore
  <2>2. PICK pc \in AllChanges : pc.number = i
    BY <2>1, NumbersOnce DEF DeliveryInv, MarketInv
  <2>3. pc.product = p
    BY <2>1, <2>2 DEF DeliveryInv, Carried
  <2>4. pc \in applied \cup dropped
    <3>1. ASSUME pc \in ToSet(productChanges) \cup ToSet(currentChanges)
          PROVE  FALSE
      <4>1. b[n].number < pc.number
        BY <1>2, <3>1 DEF DeliveryInv, MarketInv, BatchesInOrder
      <4> QED
        BY <1>2, <1>3, <2>1, <2>2, <4>1
    <3> QED
      BY <3>1 DEF AllChanges
  <2>5. pc \in ToSet(b)
    BY <1>2, <2>2, <2>3, <2>4 DEF DeliveryInv, BooksGiven, BookGiven
  <2>6. PICK m \in 1 .. Len(b) : b[m] = pc
    <3>1. b \in Seq(ProductChange)
      BY ChangesOfBook
    <3> HIDE DEF b
    <3> QED
      BY <2>5, <3>1, ToSetElements
  <2>7. ~(m <= n - 1)
    <3>1. CASE m = n - 1
      BY <1>2, <2>2, <2>6, <3>1
    <3>2. CASE m < n - 1
      <4>1. b[m].number < b[n - 1].number
        BY <1>1, <3>2 DEF Growing
      <4> QED
        BY <1>2, <2>1, <2>2, <2>6, <4>1
    <3> QED
      BY <1>1, <3>1, <3>2
  <2>8. ~(m >= n)
    <3>1. CASE m = n
      BY <1>2, <2>1, <2>2, <2>6, <3>1
    <3>2. CASE m > n
      <4>1. b[n].number < b[m].number
        BY <1>1, <3>2 DEF Growing
      <4> QED
        BY <1>2, <2>1, <2>2, <2>6, <4>1
    <3> QED
      BY <1>1, <3>1, <3>2
  <2> QED
    BY <1>1, <2>7, <2>8
<1>7. i = h
  BY <1>2, <1>5, <1>6
<1>8. content[j].sequence = content[h].sequence + 1
  BY <1>4, <1>7
<1>9. content[j].needs < content[j].sequence
  BY <1>2 DEF DeliveryInv, StreamsNeed
<1>10. content[j].needs \in 0 .. MaxSeq /\ content[h].sequence \in 1 .. MaxSeq
  <2>1. content[j].needs \in 0 .. MaxSeq
    BY <1>2 DEF Content
  <2>2. content[h].sequence \in 1 .. MaxSeq
    BY <1>1, ChangesOfBook
  <2> QED
    BY <2>1, <2>2
<1>11. content[j].needs \in 0 .. content[h].sequence
  <2> HIDE DEF j, h
  <2> QED
    BY <1>8, <1>9, <1>10, DeliveryAssumption
<1> QED
  BY <1>8, <1>11

\* Whatever onProductChange, the batches of processProductChanges and
\* onProductChanges do to the changes, those that were applied in order, from a
\* full order book on, make a book without a gap.
THEOREM OrderMakesExact == DeliverySpec => []InOrderIsExact
<1>1. DeliveryInv => InOrderIsExact
  <2> SUFFICES ASSUME DeliveryInv, NEW p \in DOMAIN m_products,
                      m_products[p].book # <<>>,
                      content[m_products[p].book[1].number].kind = "book",
                      \A i \in 1 .. Len(m_products[p].book) - 1 :
                        m_products[p].book[i].number < m_products[p].book[i + 1].number
               PROVE  Published(p) =
                        1 .. content[Last(m_products[p].book).number].sequence
    BY DEF InOrderIsExact
  <2> DEFINE b == m_products[p].book
             c == content
  <2>1. /\ b \in Seq(ProductChange)
        /\ \A n \in 1 .. Len(b) : c[b[n].number].sequence \in Nat
    <3>1. \A k \in 1 .. MaxSeq : k \in Nat
      BY DeliveryAssumption
    <3> QED
      BY <3>1, ChangesOfBook
  <2>2. PICK F : Reflects(F, c, b) /\ Published(p) = F[Len(b)]
    BY PublishedFolds
  <2>3. Growing(b)
    BY <2>1, AdjacentGrow
  <2>4. \A n \in 2 .. Len(b) : c[b[n].number].kind # "book" =>
          /\ c[b[n].number].sequence = c[b[n - 1].number].sequence + 1
          /\ c[b[n].number].needs \in 0 .. c[b[n - 1].number].sequence
    BY <2>3, NeighboursFollow
  <2>5. b # <<>> /\ c[b[1].number].kind = "book"
    OBVIOUS
  <2>6. Last(b) = b[Len(b)]
    BY DEF Last
  <2> HIDE DEF b, c
  <2>7. F[Len(b)] = 1 .. c[b[Len(b)].number].sequence
    BY <2>1, <2>2, <2>4, <2>5, FoldExact
  <2> QED
    BY <2>2, <2>6, <2>7 DEF b, c
<1> QED
  BY <1>1, DeliveryInvariant, PTL

\* What a change of the present feed product needs is in the book too.
LEMMA NeededIsGiven ==
    ASSUME DeliveryInv, NEW p \in DOMAIN m_products, NEW pc \in applied,
           pc.product = p, pc.feed = made[p], p \in m_prodIdToListener,
           content[pc.number].needs # 0
    PROVE  \E h \in 1 .. Len(m_products[p].book) :
             /\ m_products[p].book[h].number < pc.number
             /\ Brings(m_products[p].book[h], content[pc.number].needs)
<1> DEFINE b == m_products[p].book
           d == content[pc.number].needs
<1>1. pc \in AllChanges
  BY DEF AllChanges
<1>2. PICK a \in AllChanges :
         /\ a.product = p /\ a.feed = made[p] /\ a.number < pc.number
         /\ BringsOf(content[a.number], d)
  BY <1>1 DEF DeliveryInv, StreamsBring, Brought
<1>3. a.number \in Nat /\ pc.number \in Nat
  BY <1>1, <1>2, ChangeType DEF DeliveryInv, MarketInv
<1>4. a \in applied
  <2>1. ASSUME a \in ToSet(productChanges) \cup ToSet(currentChanges)
        PROVE  FALSE
    <3>1. pc.number < a.number
      BY <2>1 DEF DeliveryInv, MarketInv, BatchesInOrder
    <3> QED
      BY <1>2, <1>3, <3>1
  <2>2. ASSUME a \in dropped
        PROVE  FALSE
    <3>1. made[p] < made[p]
      BY <1>2, <2>2 DEF DeliveryInv, MarketInv, DroppedAreOrphans
    <3>2. made[p] \in Nat
      BY <1>1, ChangeType DEF DeliveryInv, MarketInv
    <3> QED
      BY <3>1, <3>2
  <2> QED
    BY <1>2, <2>1, <2>2 DEF AllChanges
<1>5. a \in ToSet(b)
  BY <1>2, <1>4 DEF DeliveryInv, BooksGiven, BookGiven
<1>6. b \in Seq(ProductChange)
  BY ChangesOfBook
<1>7. PICK h \in 1 .. Len(b) : b[h] = a
  <2> HIDE DEF b
  <2> QED
    BY <1>5, <1>6, ToSetElements
<1>8. Brings(b[h], d)
  BY <1>2, <1>7 DEF Brings, BringsOf, IsBook
<1> QED
  BY <1>2, <1>7, <1>8

\* A full order book that does not reflect the message x, which change k of the
\* book has brought, is older than that change.
LEMMA OlderBook ==
    ASSUME DeliveryInv, NEW p \in DOMAIN m_products,
           NEW n \in 1 .. Len(m_products[p].book), IsBook(m_products[p].book[n]),
           NEW x \in 1 .. MaxSeq,
           x \notin 1 .. content[m_products[p].book[n].number].sequence,
           NEW k \in 1 .. Len(m_products[p].book),
           x <= content[m_products[p].book[k].number].sequence
    PROVE  m_products[p].book[n].number < m_products[p].book[k].number
<1> DEFINE b == m_products[p].book
           i == b[k].number
           j == b[n].number
<1>1. /\ i \in 1 .. Len(content) /\ j \in 1 .. Len(content)
      /\ content[i].product = p /\ content[j].product = p
      /\ content[i].sequence \in 1 .. MaxSeq /\ content[j].sequence \in 1 .. MaxSeq
  BY ChangesOfBook
<1>2. content[j].sequence < content[i].sequence
  <2>1. x \in 1 .. MaxSeq /\ x \notin 1 .. content[j].sequence /\ x <= content[i].sequence
    OBVIOUS
  <2> HIDE DEF i, j
  <2> QED
    BY <1>1, <2>1, DeliveryAssumption
<1>3. content[j].kind = "book"
  BY DEF IsBook
<1>4. Len(content) \in Nat
  BY DEF DeliveryInv, StreamTypes
<1>5. ~(i < j)
  <2> SUFFICES ASSUME i < j
               PROVE  FALSE
    OBVIOUS
  <2>1. i \in 1 .. j - 1
    <3> HIDE DEF i, j
    <3> QED
      BY <1>1, <1>4
  <2>2. content[i].sequence <= content[j].sequence
    BY <1>1, <1>3, <2>1 DEF DeliveryInv, StreamsFollow
  <2> HIDE DEF i, j
  <2> QED
    BY <1>1, <1>2, <2>2, DeliveryAssumption
<1>6. i # j
  <2> HIDE DEF i, j
  <2> QED
    BY <1>1, <1>2, DeliveryAssumption
<1>7. j < i
  <2> HIDE DEF i, j
  <2> QED
    BY <1>1, <1>4, <1>5, <1>6
<1> QED
  BY <1>7

\* What change k of a book has brought and the book does not reflect n changes
\* later, an older full order book has undone.
LEMMA UndoneByOlder ==
    ASSUME DeliveryInv, NEW p \in DOMAIN m_products,
           NEW F, Reflects(F, content, m_products[p].book),
           NEW k \in 1 .. Len(m_products[p].book), NEW x \in 1 .. MaxSeq,
           x <= content[m_products[p].book[k].number].sequence,
           x \in F[k],
           NEW n \in k .. Len(m_products[p].book), x \notin F[n]
    PROVE  \E j \in k + 1 .. n :
             /\ IsBook(m_products[p].book[j])
             /\ m_products[p].book[j].number < m_products[p].book[k].number
<1> DEFINE b == m_products[p].book
           T == {m \in 0 .. n : m >= k => x \in F[m]}
<1>1. b \in Seq(ProductChange) /\ Len(b) \in Nat /\ n \in Nat /\ k \in Nat /\ n <= Len(b)
  BY ChangesOfBook
<1>2. SUFFICES ASSUME \A j \in k + 1 .. n :
                        IsBook(b[j]) => ~(b[j].number < b[k].number)
               PROVE  FALSE
  OBVIOUS
<1>3. 0 \in T
  BY <1>1
<1>4. ASSUME NEW m \in 1 .. n, m - 1 \in T
      PROVE  m \in T
  <2>1. m \in 0 .. n /\ m \in 1 .. Len(b)
    BY <1>1
  <2>2. F[m] = UpdatedBy(content, F[m - 1], b[m])
    BY <2>1 DEF Reflects
  <2>3. CASE m < k
    BY <1>1, <2>1, <2>3
  <2>4. CASE m = k
    BY <2>1, <2>4
  <2>5. CASE m > k
    <3>1. x \in F[m - 1] /\ m \in k + 1 .. n
      BY <1>1, <1>4, <2>5
    <3>2. CASE IsBook(b[m])
      <4>1. x \in 1 .. content[b[m].number].sequence
        BY <1>2, <2>1, <3>1, <3>2, OlderBook
      <4>2. x \in F[m]
        BY <2>2, <3>2, <4>1 DEF UpdatedBy, IsBook
      <4> QED
        BY <2>1, <4>2
    <3>3. CASE ~IsBook(b[m])
      <4>1. x \in F[m]
        BY <2>2, <3>1, <3>3 DEF UpdatedBy, IsBook
      <4> QED
        BY <2>1, <4>1
    <3> QED
      BY <3>2, <3>3
  <2> QED
    BY <1>1, <2>3, <2>4, <2>5
<1> HIDE DEF T
<1>5. \A m \in 0 .. n : m \in T
  BY <1>1, <1>3, <1>4, UpToInduction
<1>6. n \in T
  BY <1>1, <1>5
<1> QED
  BY <1>1, <1>6 DEF T

\* A change that was applied is in the published book, unless two changes of one
\* batch, applied in the reverse of their order, have cost it its effect: an older
\* full order book came after it or after what it needs, or what it needs came
\* after it.  processProductChanges loses a change in no other way.
THEOREM OnlyReversedMissing == DeliverySpec => []MissingWereReversed
<1>1. DeliveryInv => MissingWereReversed
  <2> SUFFICES ASSUME DeliveryInv, NEW p \in DOMAIN m_products, NEW pc \in applied,
                      pc.product = p, pc.feed = made[p], p \in m_prodIdToListener,
                      content[pc.number].sequence \notin Published(p)
               PROVE  LostToReversal(p, pc)
    BY DEF MissingWereReversed
  <2> DEFINE b == m_products[p].book
             x == content[pc.number].sequence
             d == content[pc.number].needs
  <2>1. /\ b \in Seq(ProductChange) /\ Len(b) \in Nat /\ DOMAIN b = 1 .. Len(b)
        /\ \A n \in 1 .. Len(b) :
             /\ content[b[n].number] \in Content
             /\ content[b[n].number].sequence \in 1 .. MaxSeq
    BY ChangesOfBook
  <2>2. PICK i \in 1 .. Len(b) : b[i] = pc
    <3>1. pc \in ToSet(b)
      BY DEF DeliveryInv, BooksGiven, BookGiven
    <3> HIDE DEF b
    <3> QED
      BY <2>1, <3>1, ToSetElements
  <2>3. PICK F : Reflects(F, content, b) /\ Published(p) = F[Len(b)]
    BY PublishedFolds
  <2>4. F[i] = UpdatedBy(content, F[i - 1], pc)
    BY <2>2, <2>3 DEF Reflects
  <2>5. x \in 1 .. MaxSeq /\ x \in 1 .. x /\ d \in 0 .. MaxSeq
    <3>1. x \in 1 .. MaxSeq
      BY <2>1, <2>2
    <3>2. x \in 1 .. x
      BY <3>1, DeliveryAssumption
    <3>3. d \in 0 .. MaxSeq
      BY <2>1, <2>2 DEF Content
    <3> QED
      BY <3>1, <3>2, <3>3
  <2>6. CASE x \in F[i]
    <3>1. Len(b) \in i .. Len(b) /\ x <= content[b[i].number].sequence
      BY <2>1, <2>2, <2>5, DeliveryAssumption
    <3>2. PICK j \in i + 1 .. Len(b) : IsBook(b[j]) /\ b[j].number < b[i].number
      BY <2>3, <2>5, <2>6, <3>1, UndoneByOlder
    <3>3. i \in DOMAIN b /\ j \in DOMAIN b /\ i < j
      BY <2>1
    <3> QED
      BY <2>2, <3>2, <3>3 DEF LostToReversal
  <2>7. CASE x \notin F[i]
    <3>1. d # 0 /\ d \notin F[i - 1]
      BY <2>4, <2>5, <2>7 DEF UpdatedBy
    <3>2. PICK h \in 1 .. Len(b) : b[h].number < pc.number /\ Brings(b[h], d)
      BY <3>1, NeededIsGiven
    <3>3. i \in DOMAIN b /\ h \in DOMAIN b
      BY <2>1
    <3>4. CASE i < h
      BY <2>2, <3>2, <3>3, <3>4 DEF LostToReversal
    <3>5. CASE h < i
      <4> DEFINE c == content[b[h].number]
      <4>1. /\ c.sequence \in 1 .. MaxSeq
            /\ F[h] = UpdatedBy(content, F[h - 1], b[h])
        BY <2>1, <2>3 DEF Reflects
      <4>2. d \in 1 .. MaxSeq /\ d <= c.sequence /\ (c.kind # "book" => d = c.sequence)
        BY <2>5, <3>1, <3>2, <4>1, DeliveryAssumption DEF Brings, IsBook
      <4>3. c.kind # "book" => c.needs = 0
        <5> SUFFICES ASSUME c.kind # "book"
                     PROVE  c.needs = 0
          OBVIOUS
        <5>1. /\ pc.number \in 1 .. Len(content) /\ b[h].number \in 1 .. Len(content)
              /\ content[pc.number].product = p /\ c.product = p
              /\ content[pc.number] \in Content
          BY <2>2, ChangesOfBook
        <5>2. b[h].number \in 1 .. pc.number - 1
          BY <3>2, <5>1
        <5>3. MayFollow(c, content[pc.number])
          BY <5>1, <5>2 DEF DeliveryInv, StreamsNeed
        <5>4. content[pc.number].kind = "message"
          <6>1. content[pc.number].kind = "book" => x \in F[i]
            BY <2>4, <2>5 DEF UpdatedBy
          <6> QED
            BY <2>7, <5>1, <6>1 DEF Content
        <5> QED
          BY <4>2, <5>1, <5>3, <5>4 DEF MayFollow
      <4>4. d \in F[h]
        <5>1. CASE c.kind = "book"
          <6>1. d \in 1 .. c.sequence
            BY <4>1, <4>2, DeliveryAssumption
          <6> QED
            BY <4>1, <5>1, <6>1 DEF UpdatedBy
        <5>2. CASE c.kind # "book"
          BY <4>1, <4>2, <4>3, <5>2 DEF UpdatedBy
        <5> QED
          BY <5>1, <5>2
      <4>5. i - 1 \in h .. Len(b)
        BY <2>1, <3>5
      <4>6. PICK j \in h + 1 .. i - 1 : IsBook(b[j]) /\ b[j].number < b[h].number
        BY <2>3, <3>1, <4>2, <4>4, <4>5, UndoneByOlder
      <4>7. j \in DOMAIN b /\ h < j
        BY <2>1
      <4> QED
        BY <3>2, <3>3, <4>6, <4>7 DEF LostToReversal
    <3>6. CASE h = i
      <4>1. pc.number \in Nat
        BY ChangeType DEF DeliveryInv, MarketInv, AllChanges
      <4> QED
        BY <2>2, <3>2, <3>6, <4>1
    <3> QED
      BY <2>1, <3>4, <3>5, <3>6
  <2> QED
    BY <2>6, <2>7
<1> QED
  BY <1>1, DeliveryInvariant, PTL

\* What a book reflects, one of its changes has brought.
LEMMA FoldBrought ==
    ASSUME NEW F, NEW c, NEW S, NEW b \in Seq(S), Reflects(F, c, b),
           NEW x, NEW n \in 0 .. Len(b), x \in F[n]
    PROVE  \E k \in 1 .. n : BringsOf(c[b[k].number], x)
<1> DEFINE T == {m \in 0 .. n : x \in F[m] => \E k \in 1 .. m : BringsOf(c[b[k].number], x)}
<1>1. Len(b) \in Nat /\ n \in Nat /\ n <= Len(b)
  OBVIOUS
<1>2. 0 \in T
  BY <1>1 DEF Reflects
<1>3. ASSUME NEW m \in 1 .. n, m - 1 \in T
      PROVE  m \in T
  <2>1. m \in 0 .. n /\ m \in 1 .. Len(b) /\ m \in 1 .. m
    BY <1>1
  <2>2. F[m] = UpdatedBy(c, F[m - 1], b[m])
    BY <2>1 DEF Reflects
  <2>3. ASSUME x \in F[m]
        PROVE  \E k \in 1 .. m : BringsOf(c[b[k].number], x)
    <3>1. x \in F[m - 1] \/ BringsOf(c[b[m].number], x)
      BY <2>2, <2>3 DEF UpdatedBy, BringsOf
    <3>2. CASE x \in F[m - 1]
      <4>1. PICK k \in 1 .. m - 1 : BringsOf(c[b[k].number], x)
        BY <1>3, <3>2
      <4>2. k \in 1 .. m
        BY <1>1
      <4> QED
        BY <4>1, <4>2
    <3> QED
      BY <2>1, <3>1, <3>2
  <2> QED
    BY <2>1, <2>3
<1> HIDE DEF T
<1>4. \A m \in 0 .. n : m \in T
  BY <1>1, <1>2, <1>3, UpToInduction
<1>5. n \in T
  BY <1>1, <1>4
<1> QED
  BY <1>5 DEF T

\* A message is applied to a book that reflects it already only behind a full
\* order book that is newer than the message: the feed product that follows
\* another, the queue and the batches bring no message twice.
THEOREM RepeatsNeedNewerBook == DeliverySpec => []RepeatedOnNewerBook
<1>1. DeliveryInv => RepeatedOnNewerBook
  <2> SUFFICES ASSUME DeliveryInv, NEW p \in DOMAIN m_products,
                      NEW i \in DOMAIN m_products[p].book,
                      ~IsBook(m_products[p].book[i]),
                      content[m_products[p].book[i].number].sequence
                        \in ReflectedAfter(p, i - 1)
               PROVE  \E j \in 1 .. i - 1 :
                        /\ IsBook(m_products[p].book[j])
                        /\ m_products[p].book[i].number < m_products[p].book[j].number
    BY DEF RepeatedOnNewerBook
  <2> DEFINE b == m_products[p].book
             n == b[i].number
             x == content[n].sequence
  <2>1. /\ b \in Seq(ProductChange) /\ Len(b) \in Nat /\ i \in 1 .. Len(b)
        /\ i - 1 \in 0 .. Len(b)
    BY ChangesOfBook
  <2>2. PICK F : Reflects(F, content, b) /\ \A k \in 0 .. Len(b) : ReflectedAfter(p, k) = F[k]
    BY PublishedFolds
  <2>3. x \in F[i - 1]
    BY <2>1, <2>2
  <2>4. PICK k \in 1 .. i - 1 : BringsOf(content[b[k].number], x)
    <3> HIDE DEF b, x
    <3> QED
      BY <2>1, <2>2, <2>3, FoldBrought
  <2> DEFINE m == b[k].number
  <2>5. k \in 1 .. Len(b) /\ k # i
    BY <2>1
  <2>6. /\ n \in 1 .. Len(content) /\ m \in 1 .. Len(content)
        /\ content[n] \in Content /\ content[m] \in Content
        /\ content[n].product = p /\ content[m].product = p
        /\ x \in 1 .. MaxSeq /\ content[m].sequence \in 1 .. MaxSeq
    BY <2>1, <2>5, ChangesOfBook
  <2>7. content[n].kind = "message"
    BY <2>6 DEF IsBook, Content
  <2>8. x <= content[m].sequence
    BY <2>4, <2>6, DeliveryAssumption DEF BringsOf
  <2>9. n # m
    BY <2>1, <2>5 DEF DeliveryInv, BooksDistinct, Distinct
  <2>10. ~(m < n)
    <3> SUFFICES ASSUME m < n
                 PROVE  FALSE
      OBVIOUS
    <3>1. m \in 1 .. n - 1
      BY <2>6
    <3>2. MayFollow(content[m], content[n])
      BY <2>6, <3>1 DEF DeliveryInv, StreamsNeed
    <3>3. content[m].sequence < x
      BY <2>6, <2>7, <3>2 DEF MayFollow
    <3> HIDE DEF n, m, x
    <3> QED
      BY <2>6, <2>8, <3>3, DeliveryAssumption
  <2>11. n < m
    <3> HIDE DEF n, m
    <3> QED
      BY <2>6, <2>9, <2>10
  <2>12. content[m].kind = "book"
    <3> SUFFICES ASSUME content[m].kind # "book"
                 PROVE  FALSE
      OBVIOUS
    <3>1. content[m].kind = "message" /\ content[m].sequence = x
      BY <2>4, <2>6 DEF BringsOf, Content
    <3>2. n \in 1 .. m - 1
      BY <2>6, <2>11
    <3>3. MayFollow(content[n], content[m])
      BY <2>6, <3>2 DEF DeliveryInv, StreamsNeed
    <3>4. x < x
      BY <2>6, <3>1, <3>3 DEF MayFollow
    <3> HIDE DEF n, m, x
    <3> QED
      BY <2>6, <3>4, DeliveryAssumption
  <2> QED
    BY <2>11, <2>12 DEF IsBook
<1> QED
  BY <1>1, DeliveryInvariant, PTL

\* What a step does to a book: it adds changes newer than those it has, and leaves
\* the contents of these alone.
LEMMA BookGrows ==
    ASSUME DeliveryInv, [DeliveryNext]_<<vars, stream>>,
           NEW p \in DOMAIN m_products, p \in DOMAIN m_products'
    PROVE  /\ \E g \in Seq(ProductChange) :
                /\ m_products'[p].book = m_products[p].book \o g
                /\ \A x \in ToSet(m_products[p].book), y \in ToSet(g) : x.number < y.number
           /\ \A i \in 1 .. Len(content) : content'[i] = content[i]
<1> DEFINE b == m_products[p].book
           Added == \E g \in Seq(ProductChange) :
                      /\ m_products'[p].book = b \o g
                      /\ \A x \in ToSet(b), y \in ToSet(g) : x.number < y.number
<1>1. b \in Seq(ProductChange)
  BY ChangesOfBook
<1>2. ASSUME m_products'[p].book = b
      PROVE  Added
  <2>1. <<>> \in Seq(ProductChange) /\ b \o <<>> = b
    BY <1>1
  <2>2. ToSet(<<>>) = {}
    BY ToSetEmpty
  <2> QED
    BY <1>2, <2>1, <2>2
<1>3. ASSUME ApplyChanges
      PROVE  Added
  <2> DEFINE g == GroupOf(currentChanges, p)
  <2>1. /\ g \in Seq(ProductChange)
        /\ m_products'[p].book = b \o g
        /\ ToSet(g) \subseteq ToSet(currentChanges)
    BY <1>3, BatchApplied DEF DeliveryInv
  <2>2. ToSet(b) \subseteq applied
    BY DEF DeliveryInv, BooksGiven, BookGiven
  <2>3. \A x \in ToSet(b), y \in ToSet(g) : x.number < y.number
    BY <2>1, <2>2 DEF DeliveryInv, MarketInv, BatchesInOrder
  <2> HIDE DEF g
  <2> QED
    BY <2>1, <2>3
<1>4. Added
  <2> USE DEF locks, registries, service, websocket, market, feed, vars
  <2>1. ASSUME NEW q \in Products, HandOn(q)
        PROVE  UNCHANGED m_products
    BY <2>1 DEF HandOn, OnProductChange
  <2>2. CASE NewFeed
    BY <1>2, <2>2 DEF NewFeed, SubscribeFeed
  <2>3. ASSUME NEW type \in RequestTypes, NEW c \in Clients, NEW q \in Products,
               Request(type, c, q)
        PROVE  UNCHANGED m_products
    BY <2>3 DEF Request
  <2>4. ASSUME NEW q \in Products, OnMessageReceived(q)
        PROVE  UNCHANGED m_products
    BY <2>4 DEF OnMessageReceived
  <2>5. CASE \/ SubscribeTrades \/ UnsubscribeCrashes \/ UnsubscribeFeed \/ OnTrade
             \/ CheckRunning \/ TakeChanges \/ Stop \/ UNCHANGED <<vars, stream>>
    <3>1. UNCHANGED m_products
      BY <2>5 DEF SubscribeTrades, UnsubscribeCrashes, UnsubscribeFeed, OnTrade,
                  CheckRunning, TakeChanges, Stop
    <3> QED
      BY <1>2, <3>1
  <2>6. CASE SubscribeProduct
    <3>1. m_products'[p] = m_products[p]
      BY <2>6 DEF SubscribeProduct
    <3> QED
      BY <1>2, <3>1
  <2>7. CASE Unsubscribe
    <3>1. m_products[p] \in [m_clients : SUBSET Clients, book : Seq(ProductChange)]
      BY DEF DeliveryInv, MarketInv, TypeOK
    <3>2. \/ m_products'[p] = m_products[p]
          \/ m_products'[p] = RemoveClient(m_products[p], request.client)
      BY <2>7 DEF Unsubscribe
    <3>3. RemoveClient(m_products[p], request.client).book = b
      BY <3>1 DEF RemoveClient
    <3> QED
      BY <1>2, <3>2, <3>3
  <2>8. CASE UnsubscribeJoin
    <3>1. m_products'[p] = m_products[p]
      BY <2>8 DEF UnsubscribeJoin
    <3> QED
      BY <1>2, <3>1
  <2> HIDE DEF Added
  <2> QED
    BY <1>2, <1>3, <2>1, <2>2, <2>3, <2>4, <2>5, <2>6, <2>7, <2>8
       DEF DeliveryNext, Elsewhere, MarketThread
<1>5. \A i \in 1 .. Len(content) : content'[i] = content[i]
  <2>1. ASSUME NEW q \in Products, HandOn(q)
        PROVE  \A i \in 1 .. Len(content) : content'[i] = content[i]
    <3>1. PICK k \in {"book", "message"}, n \in 1 .. MaxSeq, d \in 0 .. MaxSeq :
            content' = Append(content, [product |-> q, kind |-> k,
                                        sequence |-> n, needs |-> d])
      BY <2>1, HandedOn DEF DeliveryInv, Handed
    <3>2. content \in Seq(Content)
      BY DEF DeliveryInv, StreamTypes
    <3>3. [product |-> q, kind |-> k, sequence |-> n, needs |-> d] \in Content
      BY DEF Content
    <3> QED
      BY <3>1, <3>2, <3>3, ContentAdded
  <2>2. CASE NewFeed \/ Elsewhere \/ UNCHANGED <<vars, stream>>
    BY <2>2 DEF NewFeed, Elsewhere, stream
  <2> QED
    BY <2>1, <2>2 DEF DeliveryNext
<1> QED
  BY <1>4, <1>5

\* The full order books among the changes after those of b are no older than any
\* of these.
NewerBooks(d, b, e) ==
    \A n \in Len(b) + 1 .. Len(e) : d[e[n].number].kind = "book" =>
        \A k \in 1 .. Len(b) : d[e[k].number].sequence <= d[e[n].number].sequence

\* A book that gets more changes, with full order books no older than all it had,
\* reflects at least what it did.
LEMMA FoldGrows ==
    ASSUME NEW c, NEW d, NEW S, NEW b \in Seq(S), NEW e \in Seq(S),
           NEW F, Reflects(F, c, b), NEW G, Reflects(G, d, e),
           Lengthens(c, b, d, e), NewerBooks(d, b, e),
           \A n \in 1 .. Len(e) : d[e[n].number].sequence \in Nat \ {0}
    PROVE  F[Len(b)] \subseteq G[Len(e)]
<1>1. Len(b) \in Nat /\ Len(e) \in Nat
  OBVIOUS
<1>2. G[Len(b)] = F[Len(b)] /\ Len(b) \in 0 .. Len(b) /\ Len(b) \in 0 .. Len(e)
  <2>1. \A n \in 0 .. Len(b) : G[n] = F[n]
    BY FoldPrefix
  <2> QED
    BY <1>1, <2>1 DEF Lengthens
<1>3. ASSUME NEW x \in F[Len(b)], NEW n \in Len(b) + 1 .. Len(e),
             d[e[n].number].kind = "book"
      PROVE  x \in 1 .. d[e[n].number].sequence
  <2> DEFINE m == d[e[n].number].sequence
  <2>1. n \in 1 .. Len(e) /\ m \in Nat
    BY <1>1
  <2>2. ASSUME NEW k \in 1 .. Len(b)
        PROVE  c[b[k].number].sequence \in 1 .. m
    <3>1. k \in 1 .. Len(e) /\ e[k] = b[k] /\ d[b[k].number] = c[b[k].number]
      BY <1>1 DEF Lengthens
    <3>2. d[e[k].number].sequence \in Nat \ {0} /\ d[e[k].number].sequence <= m
      BY <1>3, <3>1 DEF NewerBooks
    <3>3. c[b[k].number].sequence = d[e[k].number].sequence
      BY <3>1
    <3> HIDE DEF m
    <3> QED
      BY <2>1, <3>2, <3>3
  <2> HIDE DEF m
  <2>3. \A k \in 0 .. Len(b) : F[k] \subseteq 1 .. m
    BY <2>1, <2>2, FoldBounded
  <2>4. x \in 1 .. m
    BY <1>2, <1>3, <2>3
  <2> QED
    BY <2>4 DEF m
<1>4. ASSUME NEW x \in F[Len(b)]
      PROVE  x \in G[Len(e)]
  <2>1. x \in G[Len(b)]
    BY <1>2, <1>4
  <2> QED
    BY <1>2, <1>3, <2>1, FoldKeeps
<1> QED
  BY <1>4

\* What ChangesOfBook says of the contents, for all books.
BooksSound ==
    \A p \in DOMAIN m_products :
        LET b == m_products[p].book IN
        /\ b \in Seq(ProductChange)
        /\ \A n \in 1 .. Len(b) :
             /\ b[n].number \in 1 .. Len(content)
             /\ content[b[n].number].product = p
             /\ content[b[n].number].sequence \in 1 .. MaxSeq

\* Whatever a batch brings, and in whatever order, the published book of a product
\* reflects all that the one before reflected: a full order book in the batch is
\* no older than anything the book has got.
THEOREM BooksNeverGoBack == DeliverySpec => NeverGoesBack
<1>1. ASSUME DeliveryInv, DeliveryInv', BooksSound', [DeliveryNext]_<<vars, stream>>,
             NEW p \in DOMAIN m_products, p \in DOMAIN m_products'
      PROVE  Published(p) \subseteq Published(p)'
  <2> DEFINE b == m_products[p].book
             e == m_products'[p].book
             c == content
             d == content'
  <2>1. PICK g \in Seq(ProductChange) :
           e = b \o g /\ \A x \in ToSet(b), y \in ToSet(g) : x.number < y.number
    BY <1>1, BookGrows
  <2>2. /\ b \in Seq(ProductChange)
        /\ \A n \in 1 .. Len(b) :
             b[n] \in ToSet(b) /\ b[n].number \in 1 .. Len(c)
    BY <1>1, ChangesOfBook
  <2>3. \A n \in 1 .. Len(b) : d[b[n].number] = c[b[n].number]
    BY <1>1, <2>2, BookGrows
  <2>4. /\ e \in Seq(ProductChange)
        /\ \A n \in 1 .. Len(e) :
             /\ e[n].number \in 1 .. Len(d)
             /\ d[e[n].number].product = p
             /\ d[e[n].number].sequence \in 1 .. MaxSeq
    BY <1>1 DEF BooksSound
  <2>5. \A n \in 1 .. Len(e) : d[e[n].number].sequence \in Nat \ {0}
    <3>1. \A k \in 1 .. MaxSeq : k \in Nat \ {0}
      BY DeliveryAssumption
    <3> QED
      BY <2>4, <3>1
  <2>6. \A j \in 1 .. Len(d) : d[j].kind = "book" =>
          \A i \in 1 .. j - 1 : d[i].product = d[j].product =>
             d[i].sequence <= d[j].sequence
    BY <1>1 DEF DeliveryInv, StreamsFollow
  <2>7. PICK F : Reflects(F, c, b) /\ Published(p) = F[Len(b)]
    BY <1>1, PublishedFolds
  <2>8. Published(p)' = FoldOf(d, e, Len(e))
    BY DEF Published, ReflectedAfter, FoldOf, Updated, UpdatedBy
  <2> HIDE DEF b, c, d, e
  <2>9. PICK G : Reflects(G, d, e) /\ FoldOf(d, e, Len(e)) = G[Len(e)]
    <3>1. \A n \in 1 .. Len(e) : d[e[n].number].sequence \in Nat
      BY <2>5
    <3>2. Len(e) \in 0 .. Len(e)
      BY <2>4
    <3> QED
      BY <2>4, <3>1, <3>2, FoldExists
  <2>10. Lengthens(c, b, d, e)
    BY <2>1, <2>2, <2>3 DEF Lengthens
  <2>11. ASSUME NEW n \in Len(b) + 1 .. Len(e), d[e[n].number].kind = "book",
                NEW k \in 1 .. Len(b)
         PROVE  d[e[k].number].sequence <= d[e[n].number].sequence
    <3>1. n \in 1 .. Len(e) /\ k \in 1 .. Len(e) /\ e[k] = b[k]
      <4>1. Len(b) \in Nat /\ Len(e) \in Nat
        BY <2>2, <2>4
      <4>2. Len(b) <= Len(e) /\ e[k] = b[k]
        BY <2>10 DEF Lengthens
      <4> QED
        BY <4>1, <4>2
    <3>2. n - Len(b) \in 1 .. Len(g) /\ e[n] = g[n - Len(b)]
      BY <2>1, <2>2
    <3>3. e[n] \in ToSet(g)
      BY <3>2, ToSetElements
    <3>4. e[k].number < e[n].number
      BY <2>1, <2>2, <3>1, <3>3
    <3>5. e[k].number \in 1 .. e[n].number - 1
      BY <2>4, <3>1, <3>4
    <3> QED
      BY <2>4, <2>6, <2>11, <3>1, <3>5
  <2>12. F[Len(b)] \subseteq G[Len(e)]
    <3>1. NewerBooks(d, b, e)
      BY <2>11 DEF NewerBooks
    <3> QED
      BY <2>2, <2>4, <2>5, <2>7, <2>9, <2>10, <3>1, FoldGrows
  <2> QED
    BY <2>7, <2>8, <2>9, <2>12
<1>2. DeliveryInv => BooksSound
  BY ChangesOfBook DEF BooksSound
<1>3. DeliveryInv /\ DeliveryInv' /\ BooksSound' /\ [DeliveryNext]_<<vars, stream>> =>
        [\A p \in DOMAIN m_products :
           p \in DOMAIN m_products' => Published(p) \subseteq Published(p)']_<<vars, stream>>
  BY <1>1
<1> QED
  BY <1>2, <1>3, DeliveryInvariant, PTL DEF DeliverySpec, NeverGoesBack
=============================================================================
