---------------------------- MODULE MarketProofs ----------------------------
(***************************************************************************)
(* Proofs about Market, for any clients, any products and any number of    *)
(* requests and changes:                                                   *)
(*   MarketTypes            the type invariant;                            *)
(*   RegistriesStayTogether the three registries agree between requests;   *)
(*   NoChangeLost           each change is in one place, once;             *)
(*   BatchesStayInOrder     no change overtakes one of an earlier batch;   *)
(*   OnlyOrphansDropped     only changes of destroyed feed products are    *)
(*                          dropped.                                       *)
(***************************************************************************)
EXTENDS Market, SequenceFacts, SequenceTheorems, FunctionTheorems, FiniteSetTheorems

-----------------------------------------------------------------------------
(***************************************************************************)
(* The inductive invariant.                                                *)
(***************************************************************************)

\* Who holds a mutex follows from where the threads are.
LockOwners ==
    /\ marketDataMutex = "service" <=>
         servicePc \in {"subscribeFeed", "unsubscribeFeed", "unsubscribeJoin"}
    /\ mutexTrades = "service" <=>
         servicePc \in {"unsubscribeFeed", "unsubscribeJoin"}
    /\ m_mutexFeedData = "service" <=> servicePc = "unsubscribeJoin"
    /\ m_mutexFeedData = "websocket" <=> wsPc = "onTrade"

\* What each registry has at every place of the service thread.
RegistriesByPc ==
    LET p == request.product
        known == DOMAIN m_products
    IN
    /\ servicePc \in {"idle", "subscribe", "unsubscribe"} =>
         m_prodIdToListener = known /\ m_trade_publishers = known
    /\ servicePc = "subscribeFeed" =>
         /\ p \in known
         /\ m_prodIdToListener = known \ {p}
         /\ m_trade_publishers = known \ {p}
    /\ servicePc = "subscribeTrades" =>
         /\ p \in known
         /\ m_prodIdToListener = known
         /\ m_trade_publishers \cup {p} = known
    /\ servicePc \in {"unsubscribeFeed", "unsubscribeJoin"} =>
         /\ p \in known
         /\ m_prodIdToListener = known
         /\ m_trade_publishers = known

\* The changes in the queue, in the batch, applied and dropped.
AllChanges ==
    ToSet(productChanges) \cup ToSet(currentChanges) \cup applied \cup dropped

\* A change was made by a feed product that has been made.
FeedsExist == \A pc \in AllChanges : pc.feed <= made[pc.product]

\* The numbers of a queue grow.
Growing(s) == \A i, j \in 1 .. Len(s) : i < j => s[i].number < s[j].number

\* There is a batch only while it is to be applied; queue and batch are in the
\* order the changes were made.
Batched ==
    /\ marketPc # "apply" => currentChanges = <<>>
    /\ Growing(productChanges)
    /\ Growing(currentChanges)
    /\ IsFiniteSet(applied)
    /\ IsFiniteSet(dropped)

MarketInv ==
    /\ TypeOK
    /\ LockOwners
    /\ RegistriesByPc
    /\ FeedsExist
    /\ Batched
    /\ BatchesInOrder
    /\ EachChangeOnce
    /\ DroppedAreOrphans
-----------------------------------------------------------------------------
(***************************************************************************)
(* Queues whose numbers grow.                                              *)
(***************************************************************************)

\* A queue whose numbers grow has as many elements as places.
LEMMA GrowingSize ==
    ASSUME NEW s \in Seq(ProductChange), Growing(s)
    PROVE  /\ IsFiniteSet(ToSet(s))
           /\ Cardinality(ToSet(s)) = Len(s)
<1>1. Len(s) \in Nat
  OBVIOUS
<1>2. s \in [1 .. Len(s) -> ToSet(s)]
  BY ToSetElements
<1>3. ASSUME NEW i \in 1 .. Len(s), NEW j \in 1 .. Len(s), s[i] = s[j]
      PROVE  i = j
  <2>0. s[i] \in ProductChange /\ s[j] \in ProductChange
    OBVIOUS
  <2>1. s[i].number \in Nat /\ s[j].number \in Nat
    BY <2>0 DEF ProductChange
  <2>2. ~(i < j) /\ ~(j < i)
    BY <1>3, <2>1 DEF Growing
  <2> QED
    BY <2>2
<1>4. \A x \in ToSet(s) : \E i \in 1 .. Len(s) : s[i] = x
  BY ToSetElements
<1>5. s \in Bijection(1 .. Len(s), ToSet(s))
  BY <1>2, <1>3, <1>4, Fun_IsBij, Zenon
<1>6. ExistsBijection(1 .. Len(s), ToSet(s))
  BY <1>5 DEF ExistsBijection
<1> QED
  BY <1>1, <1>6, FS_CountingElements, FS_NatBijection

\* F has the group of p after each insert of the loop over s.
Inserts(F, s, p) ==
    /\ F[0] = <<>>
    /\ \A n \in 1 .. Len(s) :
         F[n] = IF s[n].product = p THEN <<s[n]>> \o F[n - 1] ELSE F[n - 1]

\* The recursion of GroupOf is well defined.
LEMMA GroupInserted ==
    ASSUME NEW S, NEW s \in Seq(S), NEW p
    PROVE  \E F : Inserts(F, s, p) /\ GroupOf(s, p) = F[Len(s)]
<1> DEFINE Step(n, v) == IF s[n].product = p THEN <<s[n]>> \o v ELSE v
           Def(g) == [n \in 0 .. Len(s) |-> IF n = 0 THEN <<>> ELSE Step(n, g[n - 1])]
           F == CHOOSE g : g = Def(g)
           h == [n \in 1 .. Len(s) |-> [v \in Seq(S) |-> Step(n, v)]]
<1>1. GroupOf(s, p) = F[Len(s)]
  BY DEF GroupOf
<1>2. Len(s) \in Nat /\ <<>> \in Seq(S)
  OBVIOUS
<1>3. ASSUME NEW n \in 1 .. Len(s), NEW v \in Seq(S)
      PROVE  Step(n, v) \in Seq(S)
  OBVIOUS
<1> HIDE DEF Step
<1>4. PICK g \in [0 .. Len(s) -> Seq(S)] :
         /\ g[0] = <<>>
         /\ \A i \in 1 .. Len(s) : g[i] = h[i][g[i - 1]]
  <2>1. h \in [1 .. Len(s) -> [Seq(S) -> Seq(S)]]
    BY <1>3
  <2> DEFINE N == Len(s)  V == Seq(S)  base == <<>>
  <2>2. N \in Nat /\ base \in V /\ h \in [1 .. N -> [V -> V]]
    BY <1>2, <2>1
  <2> HIDE DEF h, N, V, base
  <2>3. \E g : Iterates(g, N, V, base, h)
    BY <2>2, RecursionExists
  <2> QED
    BY <2>3 DEF Iterates, N, V, base
<1>5. g = Def(g)
  <2>1. ASSUME NEW i \in 1 .. Len(s)
        PROVE  g[i] = Step(i, g[i - 1])
    <3>1. i - 1 \in 0 .. Len(s)
      BY <1>2
    <3>2. g[i - 1] \in Seq(S)
      BY <3>1
    <3> QED
      BY <1>4, <3>2
  <2>2. \A i \in 0 .. Len(s) : i # 0 => i \in 1 .. Len(s)
    BY <1>2
  <2> QED
    BY <1>2, <1>4, <2>1, <2>2
<1>6. F = Def(F)
  <2> HIDE DEF Def
  <2> QED
    BY <1>5
<1> HIDE DEF F
<1>7. F[0] = <<>> /\ \A n \in 1 .. Len(s) : F[n] = Step(n, F[n - 1])
  <2>1. 0 \in 0 .. Len(s) /\ \A n \in 1 .. Len(s) : n \in 0 .. Len(s) /\ n # 0
    BY <1>2
  <2> QED
    BY <1>6, <2>1
<1> QED
  BY <1>1, <1>7 DEF Inserts, Step

\* The changes of a group are the changes of the batch that are of its product.
LEMMA GroupOfProduct ==
    ASSUME NEW S, NEW s \in Seq(S), NEW p
    PROVE  /\ GroupOf(s, p) \in Seq(S)
           /\ ToSet(GroupOf(s, p)) = {c \in ToSet(s) : c.product = p}
<1>1. PICK F : Inserts(F, s, p) /\ GroupOf(s, p) = F[Len(s)]
  BY GroupInserted
<1>2. Len(s) \in Nat /\ <<>> \in Seq(S)
  OBVIOUS
<1> DEFINE Upto(n) == {s[i] : i \in {j \in 1 .. n : s[j].product = p}}
           T == {n \in 0 .. Len(s) : F[n] \in Seq(S) /\ ToSet(F[n]) = Upto(n)}
<1>3. 0 \in T
  <2>1. F[0] = <<>> /\ 0 \in 0 .. Len(s)
    BY <1>1, <1>2 DEF Inserts
  <2>2. Upto(0) = {}
    OBVIOUS
  <2> QED
    BY <1>2, <2>1, <2>2, ToSetEmpty
<1>4. ASSUME NEW n \in 1 .. Len(s), n - 1 \in T
      PROVE  n \in T
  <2>1. n \in 0 .. Len(s) /\ n # 0 /\ F[n - 1] \in Seq(S) /\ ToSet(F[n - 1]) = Upto(n - 1)
    BY <1>4, <1>2
  <2>2. F[n] = IF s[n].product = p THEN <<s[n]>> \o F[n - 1] ELSE F[n - 1]
    BY <1>1 DEF Inserts
  <2>3. F[n] \in Seq(S)
    BY <2>1, <2>2
  <2>4. 1 .. n = 1 .. n - 1 \cup {n}
    BY <1>2
  <2>5. CASE s[n].product = p
    <3>1. F[n] = <<s[n]>> \o F[n - 1]
      BY <2>2, <2>5
    <3>2. s[n] \in S
      BY <1>2
    <3>3. F[n] # <<>> /\ Head(F[n]) = s[n] /\ Tail(F[n]) = F[n - 1]
      BY <2>1, <3>1, <3>2
    <3>4. ToSet(F[n]) = {s[n]} \cup ToSet(F[n - 1])
      BY <2>3, <3>3, ToSetTail
    <3>5. Upto(n) = Upto(n - 1) \cup {s[n]}
      BY <2>4, <2>5
    <3> QED
      BY <2>1, <2>3, <3>4, <3>5
  <2>6. CASE s[n].product # p
    <3>1. F[n] = F[n - 1]
      BY <2>2, <2>6
    <3>2. Upto(n) = Upto(n - 1)
      BY <2>4, <2>6
    <3> QED
      BY <2>1, <3>1, <3>2
  <2> QED
    BY <2>5, <2>6
<1>5. Upto(Len(s)) = {c \in ToSet(s) : c.product = p}
  BY <1>2, ToSetElements
<1> QED
  <2> HIDE DEF T
  <2>1. \A n \in 0 .. Len(s) : n \in T
    BY <1>2, <1>3, <1>4, UpToInduction
  <2>2. Len(s) \in T
    BY <2>1, <1>2
  <2>3. GroupOf(s, p) \in Seq(S) /\ ToSet(GroupOf(s, p)) = Upto(Len(s))
    BY <2>2, <1>1 DEF T
  <2> QED
    BY <2>3, <1>5
-----------------------------------------------------------------------------
(***************************************************************************)
(* Types.                                                                  *)
(***************************************************************************)
\* The constructors establish the types.
LEMMA TypeInit ==
    ASSUME Init
    PROVE  TypeOK
<1>1. isRunning \in BOOLEAN /\ alive \in BOOLEAN
  BY DEF Init
<1>2. made \in [Products -> Nat]
  BY DEF Init
<1>3. DOMAIN m_products = {}
  BY DEF Init
<1> QED
  BY <1>1, <1>2, <1>3 DEF Init, TypeOK

\* The request the service thread is working on.
LEMMA RequestType ==
    ASSUME TypeOK, servicePc # "idle"
    PROVE  request.client \in Clients /\ request.product \in Products
BY DEF TypeOK

\* TypeOK is preserved.
LEMMA TypeStep ==
    ASSUME TypeOK, [Next]_vars
    PROVE  TypeOK'
<1> DEFINE Entry == [m_clients : SUBSET Clients, book : Seq(ProductChange)]
<1>0. \A q \in DOMAIN m_products : m_products[q] \in Entry
  BY DEF TypeOK
<1> USE DEF TypeOK, locks, registries, service, websocket, market, feed, vars
<1>1. ASSUME NEW type \in RequestTypes, NEW c \in Clients, NEW p \in Products,
             Request(type, c, p)
      PROVE  TypeOK'
  <2>1. request' \in [type : RequestTypes, client : Clients, product : Products]
    BY <1>1 DEF Request, NewRequest
  <2>2. type \in {"subscribe", "unsubscribe"}
    BY MarketAssumption
  <2> QED
    BY <1>1, <2>1, <2>2 DEF Request
<1>2. CASE SubscribeProduct
  <2>1. request.client \in Clients /\ request.product \in Products
    BY <1>2, RequestType DEF SubscribeProduct
  <2>2. NewProduct \in Entry
    BY DEF NewProduct
  <2>3. /\ DOMAIN m_products' \subseteq Products
        /\ \A q \in DOMAIN m_products' : m_products'[q] \in Entry
    <3>1. CASE request.product \in DOMAIN m_products
      BY <1>0, <1>2, <3>1 DEF SubscribeProduct
    <3>2. CASE request.product \notin DOMAIN m_products
      <4>1. m_products' = [q \in DOMAIN m_products \cup {request.product} |->
                             IF q = request.product THEN NewProduct ELSE m_products[q]]
        BY <1>2, <3>2 DEF SubscribeProduct
      <4> HIDE DEF Entry
      <4> QED
        BY <1>0, <2>1, <2>2, <4>1
    <3> QED
      BY <3>1, <3>2
  <2> QED
    BY <1>2, <2>1, <2>3 DEF SubscribeProduct
<1>3. CASE SubscribeFeed
  <2>1. request.product \in Products
    BY <1>3, RequestType DEF SubscribeFeed
  <2>2. made' \in [Products -> Nat]
    BY <1>3, <2>1 DEF SubscribeFeed
  <2> QED
    BY <1>3, <2>1, <2>2 DEF SubscribeFeed
<1>4. CASE SubscribeTrades
  <2>1. request.client \in Clients /\ request.product \in Products
    BY <1>4, RequestType DEF SubscribeTrades
  <2> QED
    BY <1>4, <2>1 DEF SubscribeTrades
<1>5. CASE Unsubscribe
  <2>1. request.product \in DOMAIN m_products
    BY <1>5 DEF Unsubscribe
  <2>2. RemoveClient(m_products[request.product], request.client) \in Entry
    BY <1>0, <2>1 DEF RemoveClient
  <2>3. m_products' = [m_products EXCEPT ![request.product] =
                         RemoveClient(m_products[request.product], request.client)]
    BY <1>5 DEF Unsubscribe
  <2>4. /\ DOMAIN m_products' = DOMAIN m_products
        /\ \A q \in DOMAIN m_products : m_products'[q] \in Entry
    <3> HIDE DEF Entry
    <3> QED
      BY <1>0, <2>1, <2>2, <2>3
  <2> QED
    BY <1>5, <2>4 DEF Unsubscribe
<1>6. CASE UnsubscribeCrashes
  <2>1. alive' \in BOOLEAN
    BY <1>6 DEF UnsubscribeCrashes
  <2> QED
    BY <1>6, <2>1 DEF UnsubscribeCrashes
<1>7. CASE UnsubscribeFeed
  BY <1>7 DEF UnsubscribeFeed
<1>8. CASE UnsubscribeJoin
  <2>1. /\ DOMAIN m_products' \subseteq DOMAIN m_products
        /\ \A q \in DOMAIN m_products' : m_products'[q] \in Entry
    <3> HIDE DEF Entry
    <3> QED
      BY <1>0, <1>8 DEF UnsubscribeJoin
  <2> QED
    BY <1>8, <2>1 DEF UnsubscribeJoin, ErasePublisher
<1>9. ASSUME NEW p \in Products, OnProductChange(p)
      PROVE  TypeOK'
  <2>1. NewChange(p) \in ProductChange
    BY DEF NewChange, ProductChange
  <2>2. productChanges' \in Seq(ProductChange)
    BY <1>9, <2>1 DEF OnProductChange
  <2> QED
    BY <1>9, <2>2 DEF OnProductChange
<1>10. ASSUME NEW p \in Products, OnMessageReceived(p)
       PROVE  TypeOK'
  BY <1>10 DEF OnMessageReceived
<1>11. CASE OnTrade
  BY <1>11 DEF OnTrade
<1>12. CASE CheckRunning
  BY <1>12 DEF CheckRunning
<1>13. CASE TakeChanges
  BY <1>13 DEF TakeChanges, Left
<1>14. CASE ApplyChanges
  <2>1. ASSUME NEW q \in DOMAIN m_products
        PROVE  m_products'[q] \in Entry
    <3>1. GroupOf(currentChanges, q) \in Seq(ProductChange)
      BY GroupOfProduct
    <3>2. m_products[q].book \o GroupOf(currentChanges, q) \in Seq(ProductChange)
      BY <1>0, <3>1
    <3>3. m_products'[q] = [m_products[q] EXCEPT !.book =
                              m_products[q].book \o GroupOf(currentChanges, q)]
      BY <1>14 DEF ApplyChanges, Known
    <3> QED
      BY <1>0, <3>2, <3>3
  <2>2. DOMAIN m_products' = DOMAIN m_products
    BY <1>14 DEF ApplyChanges
  <2>3. ToSet(currentChanges) \subseteq ProductChange
    BY ToSetElements
  <2>4. applied' \subseteq ProductChange /\ dropped' \subseteq ProductChange
    <3>1. \A q : ToSet(GroupOf(currentChanges, q)) \subseteq ProductChange
      BY <2>3, GroupOfProduct
    <3> QED
      BY <1>14, <2>3, <3>1 DEF ApplyChanges
  <2>5. currentChanges' \in Seq(ProductChange)
    BY <1>14 DEF ApplyChanges
  <2> QED
    BY <1>14, <2>1, <2>2, <2>4, <2>5 DEF ApplyChanges
<1>15. CASE Stop
  <2>1. isRunning' \in BOOLEAN
    BY <1>15 DEF Stop
  <2> QED
    BY <1>15, <2>1 DEF Stop
<1>16. CASE UNCHANGED vars
  BY <1>16
<1> QED
  BY <1>1, <1>2, <1>3, <1>4, <1>5, <1>6, <1>7, <1>8, <1>9, <1>10, <1>11, <1>12,
     <1>13, <1>14, <1>15, <1>16 DEF Next, ServiceThread, MarketThread
-----------------------------------------------------------------------------
(***************************************************************************)
(* Mutexes and registries.                                                 *)
(***************************************************************************)

\* Each mutex is locked and unlocked where LockOwners says.
LEMMA LockStep ==
    ASSUME TypeOK, LockOwners, [Next]_vars
    PROVE  LockOwners'
<1> USE DEF LockOwners, TypeOK, locks, service, websocket, vars
<1>1. ASSUME NEW type \in RequestTypes, NEW c \in Clients, NEW p \in Products,
             Request(type, c, p)
      PROVE  LockOwners'
  <2>1. type \in {"subscribe", "unsubscribe"}
    BY MarketAssumption
  <2> QED
    BY <1>1, <2>1 DEF Request
<1>2. CASE SubscribeProduct
  BY <1>2 DEF SubscribeProduct
<1>3. CASE SubscribeFeed
  BY <1>3 DEF SubscribeFeed
<1>4. CASE SubscribeTrades
  BY <1>4 DEF SubscribeTrades
<1>5. CASE Unsubscribe
  BY <1>5 DEF Unsubscribe
<1>6. CASE UnsubscribeCrashes
  BY <1>6 DEF UnsubscribeCrashes
<1>7. CASE UnsubscribeFeed
  BY <1>7 DEF UnsubscribeFeed
<1>8. CASE UnsubscribeJoin
  BY <1>8 DEF UnsubscribeJoin
<1>9. ASSUME NEW p \in Products, OnProductChange(p) \/ OnMessageReceived(p)
      PROVE  LockOwners'
  BY <1>9 DEF OnProductChange, OnMessageReceived
<1>10. CASE OnTrade
  BY <1>10 DEF OnTrade
<1>11. CASE MarketThread
  BY <1>11 DEF MarketThread, CheckRunning, TakeChanges, ApplyChanges
<1>12. CASE Stop
  BY <1>12 DEF Stop
<1>13. CASE UNCHANGED vars
  BY <1>13
<1> QED
  BY <1>1, <1>2, <1>3, <1>4, <1>5, <1>6, <1>7, <1>8, <1>9, <1>10, <1>11, <1>12,
     <1>13 DEF Next, ServiceThread

\* Steps that leave the registries, the request and the service thread alone.
LEMMA RegistriesKept ==
    ASSUME RegistriesByPc,
           UNCHANGED <<servicePc, request, m_prodIdToListener, m_trade_publishers>>,
           DOMAIN m_products' = DOMAIN m_products
    PROVE  RegistriesByPc'
BY DEF RegistriesByPc

\* The registries go through the states that RegistriesByPc lists.
LEMMA RegistryStep ==
    ASSUME TypeOK, RegistriesByPc, [Next]_vars
    PROVE  RegistriesByPc'
<1> USE DEF locks, registries, service, vars
<1>1. ASSUME NEW type \in RequestTypes, NEW c \in Clients, NEW p \in Products,
             Request(type, c, p)
      PROVE  RegistriesByPc'
  <2>1. type \in {"subscribe", "unsubscribe"}
    BY MarketAssumption
  <2> QED
    BY <1>1, <2>1 DEF Request, RegistriesByPc
<1>2. CASE SubscribeProduct
  <2>1. CASE request.product \in DOMAIN m_products
    BY <1>2, <2>1 DEF SubscribeProduct, RegistriesByPc
  <2>2. CASE request.product \notin DOMAIN m_products
    <3>1. DOMAIN m_products' = DOMAIN m_products \cup {request.product}
      BY <1>2, <2>2 DEF SubscribeProduct
    <3>2. /\ m_prodIdToListener = DOMAIN m_products
          /\ m_trade_publishers = DOMAIN m_products
      BY <1>2 DEF SubscribeProduct, RegistriesByPc
    <3>3. /\ servicePc' = "subscribeFeed"
          /\ UNCHANGED <<request, m_prodIdToListener, m_trade_publishers>>
      BY <1>2, <2>2 DEF SubscribeProduct
    <3> QED
      BY <2>2, <3>1, <3>2, <3>3 DEF RegistriesByPc
  <2> QED
    BY <2>1, <2>2
<1>3. CASE SubscribeFeed
  BY <1>3 DEF SubscribeFeed, RegistriesByPc
<1>4. CASE SubscribeTrades
  BY <1>4 DEF SubscribeTrades, RegistriesByPc
<1>5. CASE Unsubscribe
  <2>1. DOMAIN m_products' = DOMAIN m_products
    BY <1>5 DEF Unsubscribe
  <2> QED
    BY <1>5, <2>1 DEF Unsubscribe, RegistriesByPc
<1>6. CASE UnsubscribeCrashes
  BY <1>6 DEF UnsubscribeCrashes, RegistriesByPc
<1>7. CASE UnsubscribeFeed
  BY <1>7 DEF UnsubscribeFeed, RegistriesByPc
<1>8. CASE UnsubscribeJoin
  <2>1. DOMAIN m_products' = DOMAIN m_products \ {request.product}
    BY <1>8 DEF UnsubscribeJoin
  <2> QED
    BY <1>8, <2>1 DEF UnsubscribeJoin, ErasePublisher, RegistriesByPc
<1>9. ASSUME NEW p \in Products, OnProductChange(p) \/ OnMessageReceived(p)
      PROVE  RegistriesByPc'
  BY <1>9, RegistriesKept DEF OnProductChange, OnMessageReceived
<1>10. CASE OnTrade
  BY <1>10, RegistriesKept DEF OnTrade
<1>11. CASE CheckRunning
  BY <1>11, RegistriesKept DEF CheckRunning
<1>12. CASE TakeChanges
  BY <1>12, RegistriesKept DEF TakeChanges
<1>13. CASE ApplyChanges
  BY <1>13, RegistriesKept DEF ApplyChanges
<1>14. CASE Stop
  BY <1>14, RegistriesKept DEF Stop
<1>15. CASE UNCHANGED vars
  BY <1>15, RegistriesKept
<1> QED
  BY <1>1, <1>2, <1>3, <1>4, <1>5, <1>6, <1>7, <1>8, <1>9, <1>10, <1>11, <1>12,
     <1>13, <1>14, <1>15 DEF Next, ServiceThread, MarketThread
-----------------------------------------------------------------------------
(***************************************************************************)
(* Changes.                                                                *)
(***************************************************************************)

\* The part of the invariant that is about product changes.
ChangesInv ==
    /\ FeedsExist
    /\ Batched
    /\ BatchesInOrder
    /\ EachChangeOnce
    /\ DroppedAreOrphans

\* EachChangeOnce, element by element.
LEMMA NumbersOnce ==
    ASSUME TypeOK
    PROVE  EachChangeOnce <=>
             /\ \A pc \in AllChanges : pc.number \in 1 .. delivered
             /\ \A n \in 1 .. delivered : \E pc \in AllChanges : pc.number = n
             /\ Len(productChanges) + Len(currentChanges)
                  + Cardinality(applied) + Cardinality(dropped) = delivered
BY DEF EachChangeOnce, AllChanges, Numbers

\* All changes have their types.
LEMMA ChangeType ==
    ASSUME TypeOK, NEW pc \in AllChanges
    PROVE  /\ pc.product \in Products
           /\ pc.feed \in Nat
           /\ pc.number \in Nat
           /\ made[pc.product] \in Nat
<1>1. /\ ToSet(productChanges) \subseteq ProductChange
      /\ ToSet(currentChanges) \subseteq ProductChange
  BY ToSetElements DEF TypeOK
<1>2. pc \in ProductChange
  BY <1>1 DEF AllChanges, TypeOK
<1> QED
  BY <1>2 DEF ProductChange, TypeOK

\* Steps that touch neither the changes nor the registry of the feed client.
LEMMA ChangesKept ==
    ASSUME ChangesInv,
           UNCHANGED <<productChanges, currentChanges, marketPc, applied, dropped,
                       made, delivered, m_prodIdToListener>>
    PROVE  ChangesInv'
BY DEF ChangesInv, FeedsExist, AllChanges, Batched, Growing, BatchesInOrder,
       EachChangeOnce, Numbers, DroppedAreOrphans

\* A new feed product leaves the changes of the one before behind.
LEMMA ChangesSubscribe ==
    ASSUME TypeOK, ChangesInv, SubscribeFeed
    PROVE  ChangesInv'
<1> USE DEF market
<1>1. request.product \in Products
  BY RequestType DEF SubscribeFeed
<1>2. /\ \A q \in Products : made'[q] \in Nat /\ made[q] <= made'[q]
      /\ \A q \in m_prodIdToListener' \ m_prodIdToListener : made[q] < made'[q]
  <2>1. made \in [Products -> Nat]
    BY DEF TypeOK
  <2>2. CASE request.product \in m_prodIdToListener
    BY <1>1, <2>1, <2>2 DEF SubscribeFeed
  <2>3. CASE request.product \notin m_prodIdToListener
    BY <1>1, <2>1, <2>3 DEF SubscribeFeed
  <2> QED
    BY <2>2, <2>3
<1>3. UNCHANGED <<productChanges, currentChanges, marketPc, applied, dropped,
                  delivered>>
  BY DEF SubscribeFeed
<1>4. FeedsExist'
  <2>1. AllChanges' = AllChanges
    BY <1>3 DEF AllChanges
  <2>2. ASSUME NEW pc \in AllChanges
        PROVE  pc.feed <= made'[pc.product]
    <3>1. /\ pc.product \in Products /\ pc.feed \in Nat
          /\ made[pc.product] \in Nat /\ pc.feed <= made[pc.product]
      BY ChangeType DEF ChangesInv, FeedsExist
    <3> QED
      BY <1>2, <3>1
  <2> QED
    BY <2>1, <2>2 DEF FeedsExist
<1>5. DroppedAreOrphans'
  <2>1. ASSUME NEW pc \in dropped, pc.product \in m_prodIdToListener'
        PROVE  pc.feed < made'[pc.product]
    <3>1. /\ pc.product \in Products /\ pc.feed \in Nat
          /\ made[pc.product] \in Nat /\ pc.feed <= made[pc.product]
      BY ChangeType DEF ChangesInv, FeedsExist, AllChanges
    <3>2. CASE pc.product \in m_prodIdToListener
      BY <1>2, <3>1, <3>2 DEF ChangesInv, DroppedAreOrphans
    <3>3. CASE pc.product \notin m_prodIdToListener
      BY <1>2, <2>1, <3>1, <3>3
    <3> QED
      BY <3>2, <3>3
  <2> QED
    BY <1>3, <2>1 DEF DroppedAreOrphans
<1>6. Batched' /\ BatchesInOrder' /\ EachChangeOnce'
  BY <1>3 DEF ChangesInv, Batched, Growing, BatchesInOrder, EachChangeOnce, Numbers
<1> QED
  BY <1>4, <1>5, <1>6 DEF ChangesInv

\* A change is queued with the next number.
LEMMA ChangesQueue ==
    ASSUME TypeOK, TypeOK', ChangesInv, NEW p \in Products, OnProductChange(p)
    PROVE  ChangesInv'
<1> USE DEF market, registries
<1> DEFINE new == NewChange(p)
<1>1. /\ new.product = p /\ new.feed = made[p] /\ new.number = delivered + 1
      /\ new \in ProductChange
  BY DEF NewChange, ProductChange, TypeOK
<1>2. /\ productChanges' = Append(productChanges, new)
      /\ delivered' = delivered + 1
      /\ UNCHANGED <<currentChanges, marketPc, applied, dropped, made,
                     m_prodIdToListener>>
  BY DEF OnProductChange
<1> HIDE DEF new
<1>3. productChanges \in Seq(ProductChange) /\ delivered \in Nat /\ made[p] \in Nat
  BY DEF TypeOK
<1>4. ToSet(productChanges') = ToSet(productChanges) \cup {new}
  BY <1>1, <1>2, <1>3, ToSetAppend
<1>5. AllChanges' = AllChanges \cup {new}
  BY <1>2, <1>4 DEF AllChanges
<1>6. \A pc \in AllChanges : pc.number \in 1 .. delivered
  BY NumbersOnce DEF ChangesInv
<1>7. FeedsExist'
  BY <1>1, <1>2, <1>3, <1>5 DEF ChangesInv, FeedsExist
<1>8. Batched'
  <2>1. /\ Len(productChanges') = Len(productChanges) + 1
        /\ \A i \in 1 .. Len(productChanges) : productChanges'[i] = productChanges[i]
        /\ productChanges'[Len(productChanges) + 1] = new
    BY <1>1, <1>2, <1>3
  <2>2. ASSUME NEW i \in 1 .. Len(productChanges'), NEW j \in 1 .. Len(productChanges'),
               i < j
        PROVE  productChanges'[i].number < productChanges'[j].number
    <3>1. i \in 1 .. Len(productChanges) /\ productChanges'[i] = productChanges[i]
      BY <1>3, <2>1, <2>2
    <3>2. CASE j \in 1 .. Len(productChanges)
      BY <2>1, <2>2, <3>1, <3>2 DEF ChangesInv, Batched, Growing
    <3>3. CASE j = Len(productChanges) + 1
      <4>1. productChanges[i] \in AllChanges
        BY <1>3, <3>1, ToSetElements DEF AllChanges
      <4>2. productChanges[i].number \in 1 .. delivered
        BY <1>6, <4>1
      <4> QED
        BY <1>1, <1>3, <2>1, <3>1, <3>3, <4>2
    <3> QED
      BY <1>3, <2>1, <3>2, <3>3
  <2>3. Growing(productChanges')
    BY <2>2 DEF Growing
  <2> QED
    BY <1>2, <2>3 DEF ChangesInv, Batched, Growing
<1>9. BatchesInOrder'
  <2>1. \A b \in AllChanges : b.number < new.number
    BY <1>1, <1>3, <1>6
  <2> QED
    BY <1>2, <1>4, <2>1 DEF ChangesInv, BatchesInOrder, AllChanges
<1>10. EachChangeOnce'
  <2>1. \A pc \in AllChanges' : pc.number \in 1 .. delivered'
    BY <1>1, <1>2, <1>3, <1>5, <1>6
  <2>2. ASSUME NEW n \in 1 .. delivered'
        PROVE  \E pc \in AllChanges' : pc.number = n
    <3>1. CASE n = delivered + 1
      BY <1>1, <1>5, <3>1
    <3>2. CASE n \in 1 .. delivered
      BY <1>5, <3>2, NumbersOnce DEF ChangesInv
    <3> QED
      BY <1>2, <1>3, <3>1, <3>2
  <2>3. Len(productChanges) + Len(currentChanges)
          + Cardinality(applied) + Cardinality(dropped) = delivered
    BY NumbersOnce DEF ChangesInv
  <2>4. /\ Cardinality(applied) \in Nat
        /\ Cardinality(dropped) \in Nat
        /\ Len(currentChanges) \in Nat
        /\ Len(productChanges) \in Nat
        /\ Len(productChanges') = Len(productChanges) + 1
    BY <1>1, <1>2, <1>3, FS_CardinalityType DEF ChangesInv, Batched, TypeOK
  <2>5. /\ Len(currentChanges') = Len(currentChanges)
        /\ Cardinality(applied') = Cardinality(applied)
        /\ Cardinality(dropped') = Cardinality(dropped)
        /\ delivered' = delivered + 1
    BY <1>2
  <2>6. Len(productChanges') + Len(currentChanges')
          + Cardinality(applied') + Cardinality(dropped') = delivered'
    BY <1>3, <2>3, <2>4, <2>5
  <2> QED
    BY <2>1, <2>2, <2>6 DEF EachChangeOnce, AllChanges, Numbers
<1>11. DroppedAreOrphans'
  BY <1>2 DEF ChangesInv, DroppedAreOrphans
<1> QED
  BY <1>7, <1>8, <1>9, <1>10, <1>11 DEF ChangesInv

\* The queue becomes the batch.
LEMMA ChangesTake ==
    ASSUME TypeOK, ChangesInv, TakeChanges
    PROVE  ChangesInv'
<1>1. /\ marketPc = "wait"
      /\ marketPc' = "apply"
      /\ currentChanges' = productChanges
      /\ productChanges' = <<>>
      /\ UNCHANGED <<applied, dropped, made, delivered, m_prodIdToListener>>
  BY DEF TakeChanges, Left, feed, registries
<1>2. currentChanges = <<>>
  BY <1>1 DEF ChangesInv, Batched
<1>3. /\ ToSet(currentChanges) = {}
      /\ ToSet(productChanges') = {}
      /\ ToSet(currentChanges') = ToSet(productChanges)
  BY <1>1, <1>2, ToSetEmpty
<1>4. AllChanges' = AllChanges
  BY <1>1, <1>3 DEF AllChanges
<1>5. FeedsExist' /\ DroppedAreOrphans'
  BY <1>1, <1>4 DEF ChangesInv, FeedsExist, DroppedAreOrphans
<1>6. Batched'
  <2>1. Growing(currentChanges') /\ Growing(productChanges')
    BY <1>1 DEF ChangesInv, Batched, Growing
  <2> QED
    BY <1>1, <2>1 DEF ChangesInv, Batched
<1>7. BatchesInOrder'
  BY <1>1, <1>3 DEF ChangesInv, BatchesInOrder
<1>8. EachChangeOnce'
  <2>1. /\ \A pc \in AllChanges' : pc.number \in 1 .. delivered'
        /\ \A n \in 1 .. delivered' : \E pc \in AllChanges' : pc.number = n
    BY <1>1, <1>4, NumbersOnce DEF ChangesInv
  <2>2. /\ Len(productChanges') = 0
        /\ Len(currentChanges) = 0
        /\ Len(currentChanges') = Len(productChanges)
        /\ Cardinality(applied') = Cardinality(applied)
        /\ Cardinality(dropped') = Cardinality(dropped)
        /\ delivered' = delivered
    BY <1>1, <1>2
  <2>3. /\ Cardinality(applied) \in Nat
        /\ Cardinality(dropped) \in Nat
        /\ Len(productChanges) \in Nat
    BY FS_CardinalityType DEF ChangesInv, Batched, TypeOK
  <2>4. Len(productChanges) + Len(currentChanges)
          + Cardinality(applied) + Cardinality(dropped) = delivered
    BY NumbersOnce DEF ChangesInv
  <2>5. Len(productChanges') + Len(currentChanges')
          + Cardinality(applied') + Cardinality(dropped') = delivered'
    BY <2>2, <2>3, <2>4
  <2> QED
    BY <2>1, <2>5 DEF EachChangeOnce, AllChanges, Numbers
<1> QED
  BY <1>5, <1>6, <1>7, <1>8 DEF ChangesInv

\* A set without the elements of another, added to it, adds to its size.
LEMMA DisjointSize ==
    ASSUME NEW A, NEW B, IsFiniteSet(A), IsFiniteSet(B), A \cap B = {}
    PROVE  /\ IsFiniteSet(A \cup B)
           /\ Cardinality(A \cup B) = Cardinality(A) + Cardinality(B)
<1>1. /\ IsFiniteSet(A \cup B)
      /\ Cardinality(A \cup B) =
           Cardinality(A) + Cardinality(B) - Cardinality(A \cap B)
  BY FS_Union
<1>2. Cardinality(A \cap B) = 0
  BY FS_EmptySet
<1>3. Cardinality(A) \in Nat /\ Cardinality(B) \in Nat
  BY FS_CardinalityType
<1> QED
  BY <1>1, <1>2, <1>3

\* The batch is shared out between applied and dropped.  As marketDataMutex is
\* free, the registries agree, so that a change without a product in the market
\* has no feed product either.
LEMMA ChangesApply ==
    ASSUME TypeOK, LockOwners, RegistriesByPc, ChangesInv, ApplyChanges
    PROVE  ChangesInv'
<1> DEFINE batch == ToSet(currentChanges)
           known == {pc \in batch : Known(pc.product)}
           lost == {pc \in batch : ~Known(pc.product)}
<1>1. /\ applied' = applied \cup known
      /\ dropped' = dropped \cup lost
      /\ currentChanges' = <<>>
      /\ marketPc' = "check"
      /\ UNCHANGED <<productChanges, made, delivered, m_prodIdToListener>>
  <2> DEFINE groups == UNION {ToSet(GroupOf(currentChanges, p)) :
                                p \in {q \in DOMAIN m_products : Known(q)}}
  <2>1. /\ applied' = applied \cup groups
        /\ dropped' = dropped \cup lost
        /\ currentChanges' = <<>>
        /\ marketPc' = "check"
        /\ UNCHANGED <<productChanges, made, delivered, m_prodIdToListener>>
    BY DEF ApplyChanges, feed
  <2>2. \A p : ToSet(GroupOf(currentChanges, p)) = {pc \in batch : pc.product = p}
    BY GroupOfProduct DEF TypeOK
  <2>3. groups = known
    BY <2>2 DEF Known
  <2> QED
    BY <2>1, <2>3
<1>2. \A pc \in lost : pc.product \notin m_prodIdToListener
  <2>1. servicePc \in {"idle", "subscribe", "unsubscribe", "subscribeTrades"}
    BY DEF ApplyChanges, LockOwners, TypeOK
  <2>2. m_prodIdToListener = DOMAIN m_products
    BY <2>1 DEF RegistriesByPc
  <2> QED
    BY <2>2 DEF Known
<1>3. known \cup lost = batch /\ known \cap lost = {}
  OBVIOUS
<1>4. batch \subseteq AllChanges
  BY DEF AllChanges
<1> HIDE DEF known, lost
<1>5. ToSet(currentChanges') = {}
  BY <1>1, ToSetEmpty
<1>6. AllChanges' = AllChanges
  BY <1>1, <1>3, <1>5 DEF AllChanges
<1>7. FeedsExist'
  BY <1>1, <1>6 DEF ChangesInv, FeedsExist
<1>8. DroppedAreOrphans'
  BY <1>1, <1>2 DEF ChangesInv, DroppedAreOrphans
<1>9. /\ IsFiniteSet(known) /\ IsFiniteSet(lost)
      /\ Cardinality(known) + Cardinality(lost) = Len(currentChanges)
  <2>1. IsFiniteSet(batch) /\ Cardinality(batch) = Len(currentChanges)
    BY GrowingSize DEF ChangesInv, Batched, TypeOK
  <2>2. known \subseteq batch /\ lost \subseteq batch
    BY <1>3
  <2>3. IsFiniteSet(known) /\ IsFiniteSet(lost)
    BY <2>1, <2>2, FS_Subset
  <2>4. Cardinality(known \cup lost) = Cardinality(known) + Cardinality(lost)
    BY <1>3, <2>3, DisjointSize
  <2> QED
    BY <1>3, <2>1, <2>3, <2>4
<1>10. applied \cap known = {} /\ dropped \cap lost = {}
  <2>1. ASSUME NEW pc \in applied \cup dropped, pc \in batch
        PROVE  FALSE
    <3>1. pc.number < pc.number
      BY <2>1 DEF ChangesInv, BatchesInOrder
    <3>2. pc.number \in Nat
      BY <1>4, <2>1, ChangeType
    <3> QED
      BY <3>1, <3>2
  <2> QED
    BY <1>3, <2>1
<1>11. /\ IsFiniteSet(applied') /\ IsFiniteSet(dropped')
       /\ Cardinality(applied') = Cardinality(applied) + Cardinality(known)
       /\ Cardinality(dropped') = Cardinality(dropped) + Cardinality(lost)
  <2>1. IsFiniteSet(applied) /\ IsFiniteSet(dropped)
    BY DEF ChangesInv, Batched
  <2> QED
    BY <1>1, <1>9, <1>10, <2>1, DisjointSize
<1>12. Batched'
  <2>1. Growing(currentChanges') /\ Growing(productChanges')
    BY <1>1 DEF ChangesInv, Batched, Growing
  <2> QED
    BY <1>1, <1>11, <2>1 DEF Batched
<1>13. BatchesInOrder'
  <2>1. applied' \cup dropped' = applied \cup dropped \cup batch
    BY <1>1, <1>3
  <2> QED
    BY <1>1, <1>5, <2>1 DEF ChangesInv, BatchesInOrder
<1>14. EachChangeOnce'
  <2>1. /\ \A pc \in AllChanges' : pc.number \in 1 .. delivered'
        /\ \A n \in 1 .. delivered' : \E pc \in AllChanges' : pc.number = n
    BY <1>1, <1>6, NumbersOnce DEF ChangesInv
  <2>2. /\ Len(currentChanges') = 0
        /\ Len(productChanges') = Len(productChanges)
        /\ delivered' = delivered
    BY <1>1
  <2>3. /\ Cardinality(applied) \in Nat
        /\ Cardinality(dropped) \in Nat
        /\ Cardinality(known) \in Nat
        /\ Cardinality(lost) \in Nat
        /\ Len(productChanges) \in Nat
        /\ Len(currentChanges) \in Nat
    BY <1>9, FS_CardinalityType DEF ChangesInv, Batched, TypeOK
  <2>4. Len(productChanges) + Len(currentChanges)
          + Cardinality(applied) + Cardinality(dropped) = delivered
    BY NumbersOnce DEF ChangesInv
  <2>5. /\ Cardinality(applied') = Cardinality(applied) + Cardinality(known)
        /\ Cardinality(dropped') = Cardinality(dropped) + Cardinality(lost)
        /\ Cardinality(known) + Cardinality(lost) = Len(currentChanges)
    BY <1>9, <1>11
  <2>6. Len(productChanges') + Len(currentChanges')
          + Cardinality(applied') + Cardinality(dropped') = delivered'
    BY <2>2, <2>3, <2>4, <2>5
  <2> QED
    BY <2>1, <2>6 DEF EachChangeOnce, AllChanges, Numbers
<1> QED
  BY <1>7, <1>8, <1>12, <1>13, <1>14 DEF ChangesInv

\* Every step keeps the changes in order, in one place and with their owners.
LEMMA ChangesStep ==
    ASSUME TypeOK, TypeOK', LockOwners, RegistriesByPc, ChangesInv, [Next]_vars
    PROVE  ChangesInv'
<1> USE DEF locks, registries, service, websocket, market, feed, vars
<1>1. ASSUME NEW type \in RequestTypes, NEW c \in Clients, NEW p \in Products,
             Request(type, c, p)
      PROVE  ChangesInv'
  BY <1>1, ChangesKept DEF Request
<1>2. CASE SubscribeProduct \/ SubscribeTrades
  BY <1>2, ChangesKept DEF SubscribeProduct, SubscribeTrades
<1>3. CASE SubscribeFeed
  BY <1>3, ChangesSubscribe
<1>4. CASE Unsubscribe \/ UnsubscribeCrashes \/ UnsubscribeFeed
  BY <1>4, ChangesKept DEF Unsubscribe, UnsubscribeCrashes, UnsubscribeFeed
<1>5. CASE UnsubscribeJoin
  <2>1. /\ m_prodIdToListener' \subseteq m_prodIdToListener
        /\ UNCHANGED <<productChanges, currentChanges, marketPc, applied, dropped,
                       made, delivered>>
    BY <1>5 DEF UnsubscribeJoin
  <2>2. DroppedAreOrphans'
    BY <2>1 DEF ChangesInv, DroppedAreOrphans
  <2> QED
    BY <2>1, <2>2 DEF ChangesInv, FeedsExist, AllChanges, Batched, Growing,
                      BatchesInOrder, EachChangeOnce, Numbers
<1>6. ASSUME NEW p \in Products, OnProductChange(p)
      PROVE  ChangesInv'
  BY <1>6, ChangesQueue
<1>7. ASSUME NEW p \in Products, OnMessageReceived(p)
      PROVE  ChangesInv'
  BY <1>7, ChangesKept DEF OnMessageReceived
<1>8. CASE OnTrade \/ Stop
  BY <1>8, ChangesKept DEF OnTrade, Stop
<1>9. CASE CheckRunning
  <2>1. /\ marketPc = "check"
        /\ UNCHANGED <<productChanges, currentChanges, applied, dropped, made,
                       delivered, m_prodIdToListener>>
    BY <1>9 DEF CheckRunning
  <2>2. currentChanges = <<>>
    BY <2>1 DEF ChangesInv, Batched
  <2> QED
    BY <2>1, <2>2 DEF ChangesInv, FeedsExist, AllChanges, Batched, Growing,
                      BatchesInOrder, EachChangeOnce, Numbers, DroppedAreOrphans
<1>10. CASE TakeChanges
  BY <1>10, ChangesTake
<1>11. CASE ApplyChanges
  BY <1>11, ChangesApply
<1>12. CASE UNCHANGED vars
  BY <1>12, ChangesKept
<1> QED
  BY <1>1, <1>2, <1>3, <1>4, <1>5, <1>6, <1>7, <1>8, <1>9, <1>10, <1>11, <1>12
     DEF Next, ServiceThread, MarketThread

-----------------------------------------------------------------------------
(***************************************************************************)
(* The theorems.                                                           *)
(***************************************************************************)
\* The invariant holds when the threads start.
LEMMA MarketInit ==
    ASSUME Init
    PROVE  MarketInv
<1>1. TypeOK
  BY TypeInit
<1>2. LockOwners
  BY DEF Init, LockOwners
<1>3. RegistriesByPc
  BY DEF Init, RegistriesByPc
<1>4. AllChanges = {}
  BY ToSetEmpty DEF Init, AllChanges
<1>5. FeedsExist
  BY <1>4 DEF FeedsExist
<1>6. Batched
  BY FS_EmptySet DEF Init, Batched, Growing
<1>7. BatchesInOrder
  BY ToSetEmpty DEF Init, BatchesInOrder
<1>8. EachChangeOnce
  <2>1. /\ Cardinality(applied) = 0 /\ Cardinality(dropped) = 0
        /\ Len(productChanges) = 0 /\ Len(currentChanges) = 0
        /\ delivered = 0
    BY FS_EmptySet DEF Init
  <2>2. /\ \A pc \in AllChanges : pc.number \in 1 .. delivered
        /\ \A n \in 1 .. delivered : \E pc \in AllChanges : pc.number = n
    BY <1>4, <2>1
  <2> QED
    BY <1>1, <2>1, <2>2, NumbersOnce
<1>9. DroppedAreOrphans
  BY DEF Init, DroppedAreOrphans
<1> QED
  BY <1>1, <1>2, <1>3, <1>5, <1>6, <1>7, <1>8, <1>9 DEF MarketInv

\* Every step of every thread preserves the invariant.
LEMMA MarketStep ==
    ASSUME MarketInv, [Next]_vars
    PROVE  MarketInv'
<1>1. TypeOK' /\ LockOwners' /\ RegistriesByPc'
  BY TypeStep, LockStep, RegistryStep DEF MarketInv
<1>2. ChangesInv'
  BY <1>1, ChangesStep DEF MarketInv, ChangesInv
<1> QED
  BY <1>1, <1>2 DEF MarketInv, ChangesInv

\* A process that ends leaves the invariant true.
LEMMA MarketCrash ==
    ASSUME MarketInv, alive' = FALSE,
           UNCHANGED <<locks, registries, productChanges, isRunning, service,
                       websocket, market, feed>>
    PROVE  MarketInv'
<1> USE DEF locks, registries, service, websocket, market, feed
<1>1. alive' \in BOOLEAN
  OBVIOUS
<1>2. TypeOK'
  BY <1>1 DEF MarketInv, TypeOK
<1>3. LockOwners' /\ RegistriesByPc'
  BY DEF MarketInv, LockOwners, RegistriesByPc
<1>4. ChangesInv'
  BY ChangesKept DEF MarketInv, ChangesInv
<1> QED
  BY <1>2, <1>3, <1>4 DEF MarketInv, ChangesInv

\* What holds in every reachable state of Market.
LEMMA MarketInvariant == Spec => []MarketInv
<1>1. Init => MarketInv
  BY MarketInit
<1>2. MarketInv /\ [Next]_vars => MarketInv'
  BY MarketStep
<1> QED
  BY <1>1, <1>2, PTL DEF Spec

\* The state of Market, CoinbaseFeedClient and their threads keeps its types.
THEOREM MarketTypes == Spec => []TypeOK
<1>1. MarketInv => TypeOK
  BY DEF MarketInv
<1> QED
  BY <1>1, MarketInvariant, PTL

\* Between requests, m_products, m_prodIdToListener and m_trade_publishers have
\* the same products, whatever subscribe and unsubscribe did before.
THEOREM RegistriesStayTogether == Spec => []RegistriesAgree
<1>1. MarketInv => RegistriesAgree
  BY DEF MarketInv, RegistriesByPc, RegistriesAgree
<1> QED
  BY <1>1, MarketInvariant, PTL

\* onProductChange, the swap of the queue and processProductChanges neither lose
\* nor repeat a change.
THEOREM NoChangeLost == Spec => []EachChangeOnce
<1>1. MarketInv => EachChangeOnce
  BY DEF MarketInv
<1> QED
  BY <1>1, MarketInvariant, PTL

\* Whatever the order within a batch, batches are applied in the order they were
\* queued.
THEOREM BatchesStayInOrder == Spec => []BatchesInOrder
<1>1. MarketInv => BatchesInOrder
  BY DEF MarketInv
<1> QED
  BY <1>1, MarketInvariant, PTL

\* processProductChanges drops no change of a feed product that still exists.
THEOREM OnlyOrphansDropped == Spec => []DroppedAreOrphans
<1>1. MarketInv => DroppedAreOrphans
  BY DEF MarketInv
<1> QED
  BY <1>1, MarketInvariant, PTL
=============================================================================
