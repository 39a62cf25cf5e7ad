------------------------------ MODULE Endpoints ------------------------------
(***************************************************************************)
(* EndpointProvider: the ports of the products the exchange lists.         *)
(*                                                                         *)
(* The constructor walks the exchange's list of products and gives each    *)
(* product that is online the next order book port and the next trade      *)
(* port.  Both ranges lie above 65535; the socket that is bound to such a  *)
(* port, and the one that connects to it, use its lower 16 bits.           *)
(***************************************************************************)
EXTENDS Integers, Sequences, FiniteSets

CONSTANT
    Listing         \* the exchange's answer: products with their status

ASSUME ListingAssumption ==
    /\ Listing \in Seq([id : {Listing[i].id : i \in DOMAIN Listing},
                        status : {"online", "offline"}])
    /\ Len(Listing) <= 10000

FirstOrderPort == 83000

FirstTradePort == 93000

\* The entries the loop inserts, and how many it has met before entry i.
Online == {i \in DOMAIN Listing : Listing[i].status = "online"}

Before(i) == {j \in Online : j < i}

\* insert keeps the first entry of an id.
EntryOf(p) ==
    CHOOSE i \in Online :
        /\ Listing[i].id = p
        /\ \A j \in Online : Listing[j].id = p => i <= j

\* The products that contains() finds.
ListedIds == {Listing[i].id : i \in Online}

OrderPort(p) == FirstOrderPort + Cardinality(Before(EntryOf(p)))

\* Faulty TradePort: orderPort is used for both.
SameTradePort(p) == FirstOrderPort + Cardinality(Before(EntryOf(p)))

TradePort(p) == FirstTradePort + Cardinality(Before(EntryOf(p)))

\* What a TCP address with this port number is bound to.
SocketPort(port) == port % 65536

\* The sockets that publish the order books of some products and the trades of
\* others are bound to different ports, and none to port 0.
PortsApart(orders, trades) ==
    /\ \A p, q \in orders :
         SocketPort(OrderPort(p)) = SocketPort(OrderPort(q)) => p = q
    /\ \A p, q \in trades :
         SocketPort(TradePort(p)) = SocketPort(TradePort(q)) => p = q
    /\ \A p \in orders, q \in trades :
         SocketPort(OrderPort(p)) # SocketPort(TradePort(q))
    /\ \A p \in orders : SocketPort(OrderPort(p)) # 0
    /\ \A p \in trades : SocketPort(TradePort(p)) # 0
=============================================================================
