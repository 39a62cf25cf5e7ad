------------------------------ MODULE Session ------------------------------
(***************************************************************************)
(* ClientService and its clients: the request and reply protocol.          *)
(*                                                                         *)
(* The service answers one request after the other on a ZMQ REP socket.    *)
(* Programs are runs of client.cpp: a main loop on a REQ socket that       *)
(* handles a reply and sends the next request, a thread that plays the     *)
(* scenario, a thread that handles new endpoints and one listener thread   *)
(* per endpoint.  Others are clients of another make, which may send       *)
(* anything.  Market is reduced to the set of products it has.             *)
(***************************************************************************)
EXTENDS Naturals, Sequences, FiniteSets, SequencesExt

CONSTANTS
    Programs,
    Others,
    Products,       \* product ids named in requests
    Listed,         \* the products the EndpointProvider knows
    Scenario,       \* what each program was told to do on its command line
    ListingMayFail, \* the REST request for the list of products may fail
    Missing,        \* stands for a field a request does not have
    MaxOther,       \* bound: requests of others
    MaxRestarts     \* bound: restarts of the server

ASSUME SessionAssumption ==
    /\ Programs \cap Others = {}
    /\ Listed \subseteq Products
    /\ Missing \notin Products
    /\ Scenario \in [Programs -> Seq([subscribe : BOOLEAN, productId : Products])]
    /\ ListingMayFail \in BOOLEAN
    /\ MaxOther \in Nat
    /\ MaxRestarts \in Nat

VARIABLES
    \* The server.
    up,                     \* the server process runs
    servicePc,              \* "recv", "register" once a client id is sent, or
                            \* "blocked" when Market::unsubscribe does not return
    m_registeredClientIds,
    products,               \* products the Market has
    listed,                 \* EndpointProvider has been constructed
    issued,                 \* number of ids made by generate_uuid: 1, 2, 3, ...
    restarts,
    \* The network: at most one message for each client.
    request, reply,
    asked,                  \* number of requests of others
    \* The programs.
    running,                \* FALSE once the program has crashed
    mainPc,                 \* "recv" or "send"
    clientId,               \* 0 is the empty string
    scenario, scenarioMessagesQueue,
    endpointsToSubscribe, endpointsToUnsubscribe,
    endpointToHandler,      \* endpoint to the listener whose flag is kept for it
    listeners,              \* [endpoint, at, exited] for each thread started
    confirmed               \* the confirmations received, in order

server == <<up, servicePc, m_registeredClientIds, products, listed,
            issued, restarts>>
network == <<request, reply>>
mainLoop == <<mainPc, clientId, confirmed>>
played == <<scenario, scenarioMessagesQueue>>
endpoints == <<endpointsToSubscribe, endpointsToUnsubscribe>>
threads == <<endpointToHandler, listeners>>

vars == <<server, network, asked, running, mainLoop, played, endpoints, threads>>

NoMessage == [type |-> "none"]

Request(type, id, p) == [type |-> type, client_id |-> id, product_id |-> p]

Reply(type, id, p) == Request(type, id, p)

Error(error) == [type |-> "error", error |-> error]

\* main of client.cpp sends the first request before it starts its threads.
Init ==
    /\ up = TRUE
    /\ servicePc = "recv"
    /\ m_registeredClientIds = {}
    /\ products = {}
    /\ listed = FALSE
    /\ issued = 0
    /\ restarts = 0
    /\ request = [c \in Programs \cup Others |->
                    IF c \in Programs
                    THEN Request("client_id_request", Missing, Missing)
                    ELSE NoMessage]
    /\ reply = [c \in Programs \cup Others |-> NoMessage]
    /\ asked = 0
    /\ running = [c \in Programs |-> TRUE]
    /\ mainPc = [c \in Programs |-> "recv"]
    /\ clientId = [c \in Programs |-> 0]
    /\ confirmed = [c \in Programs |-> <<>>]
    /\ scenario = Scenario
    /\ scenarioMessagesQueue = [c \in Programs |-> <<>>]
    /\ endpointsToSubscribe = [c \in Programs |-> <<>>]
    /\ endpointsToUnsubscribe = [c \in Programs |-> <<>>]
    /\ endpointToHandler = [c \in Programs |-> <<>>]
    /\ listeners = [c \in Programs |-> <<>>]

clientVars == <<asked, running, mainLoop, played, endpoints, threads>>

-----------------------------------------------------------------------------
(***************************************************************************)
(* The service: runImpl, one action per branch.                            *)
(***************************************************************************)
Serving(c, type) ==
    /\ up
    /\ servicePc = "recv"
    /\ request[c].type = type

Answer(c, r) ==
    /\ request' = [request EXCEPT ![c] = NoMessage]
    /\ reply' = [reply EXCEPT ![c] = r]

\* The request has been taken off the socket and is never answered.
NoAnswer(c) ==
    /\ request' = [request EXCEPT ![c] = NoMessage]
    /\ UNCHANGED reply

\* An exception that nothing catches leaves the service thread: std::terminate.
Terminate(c) ==
    /\ up' = FALSE
    /\ NoAnswer(c)

\* The id is sent first and registered after that.
ServeClientId(c) ==
    /\ Serving(c, "client_id_request")
    /\ issued' = issued + 1
    /\ Answer(c, Reply("client_id_request", issued + 1, Missing))
    /\ servicePc' = "register"
    /\ UNCHANGED <<up, m_registeredClientIds, products, listed, restarts,
                   clientVars>>

\* Faulty Registered: an id that has not been made is stored.
RegisteredNext(id) == m_registeredClientIds \cup {id + 1}

\* Faulty Registered: the id is not stored.
RegisteredNot(id) == m_registeredClientIds

Registered(id) == m_registeredClientIds \cup {id}

RegisterClientId ==
    /\ up
    /\ servicePc = "register"
    /\ m_registeredClientIds' = Registered(issued)
    /\ servicePc' = "recv"
    /\ UNCHANGED <<up, products, listed, issued, restarts, network, clientVars>>

\* The error of a request that has its fields; a later test overrides an
\* earlier one.
ErrorOf(r) ==
    IF r.product_id \notin Listed THEN "UnknownProductId"
    ELSE IF r.client_id \notin m_registeredClientIds THEN "UnknownClientId"
    ELSE ""

HasFields(r) == r.client_id # Missing /\ r.product_id # Missing

\* subscribe inserts the id, which is known, once more.
ServeSubscribe(c) ==
    LET r == request[c] IN
    /\ Serving(c, "subscribe_request")
    /\ HasFields(r)
    /\ listed' = TRUE
    /\ IF ErrorOf(r) # ""
       THEN /\ Answer(c, Error(ErrorOf(r)))
            /\ UNCHANGED products
       ELSE /\ products' = products \cup {r.product_id}
            /\ Answer(c, r)
    /\ UNCHANGED <<up, servicePc, m_registeredClientIds, issued, restarts,
                   clientVars>>

\* Market::unsubscribe waits for the websocket thread, and the websocket thread
\* for it: nothing is served any more.
Block(c) ==
    /\ servicePc' = "blocked"
    /\ NoAnswer(c)
    /\ UNCHANGED <<up, products>>

\* Market::unsubscribe ends the process when it does not have the product, and
\* may block when it has.
ServeUnsubscribe(c) ==
    LET r == request[c] IN
    /\ Serving(c, "unsubscribe_request")
    /\ HasFields(r)
    /\ listed' = TRUE
    /\ IF ErrorOf(r) # ""
       THEN /\ Answer(c, Error(ErrorOf(r)))
            /\ UNCHANGED <<up, servicePc, products>>
       ELSE \/ /\ r.product_id \in products
               /\ products' = products \ {r.product_id}
               /\ Answer(c, r)
               /\ UNCHANGED <<up, servicePc>>
            \/ /\ r.product_id \in products
               /\ Block(c)
            \/ /\ r.product_id \notin products
               /\ Terminate(c)
               /\ UNCHANGED <<servicePc, products>>
    /\ UNCHANGED <<m_registeredClientIds, issued, restarts, clientVars>>

\* The first use of EndpointProvider constructs it, and its constructor throws:
\* the parse_error of an answer that is no JSON is taken for one of the request,
\* the type_error of an answer that is no list leaves the thread.  The next use
\* tries again.
ServeUnlisted(c) ==
    /\ Serving(c, "subscribe_request") \/ Serving(c, "unsubscribe_request")
    /\ HasFields(request[c])
    /\ ListingMayFail
    /\ ~listed
    /\ \/ Answer(c, Error("Invalid message")) /\ UNCHANGED up
       \/ Terminate(c)
    /\ UNCHANGED <<servicePc, m_registeredClientIds, products, listed, issued,
                   restarts, clientVars>>

ServeHeartbeat(c) ==
    LET r == request[c] IN
    /\ Serving(c, "heartbeat")
    /\ r.client_id # Missing
    /\ Answer(c, IF r.client_id \in m_registeredClientIds
                 THEN Reply("heartbeat", r.client_id, Missing)
                 ELSE Error("UnknownClientId"))
    /\ UNCHANGED <<server, clientVars>>

\* A request without a field it needs: subscribe_request goes on to receive on
\* a REP socket that owes a reply, the other two convert null to a string; the
\* exception of either leaves the thread.
ServeMalformed(c) ==
    LET r == request[c] IN
    /\ \/ Serving(c, "subscribe_request") /\ ~HasFields(r)
       \/ Serving(c, "unsubscribe_request") /\ ~HasFields(r)
       \/ Serving(c, "heartbeat") /\ r.client_id = Missing
    /\ Terminate(c)
    /\ UNCHANGED <<servicePc, m_registeredClientIds, products, listed, issued,
                   restarts, clientVars>>

\* No type, an unknown type, or no JSON at all.
ServeUnsupported(c) ==
    /\ Serving(c, "unsupported")
    /\ Answer(c, Error("unsupported"))
    /\ UNCHANGED <<server, clientVars>>

\* The server, whatever state it was in, is started again: it knows no client and
\* has no product, and any request or reply under way may be lost.
ServerRestarts ==
    /\ restarts < MaxRestarts
    /\ restarts' = restarts + 1
    /\ up' = TRUE
    /\ servicePc' = "recv"
    /\ m_registeredClientIds' = {}
    /\ products' = {}
    /\ listed' = FALSE
    /\ \E lost \in SUBSET (Programs \cup Others) :
        /\ request' = [c \in DOMAIN request |->
                         IF c \in lost THEN NoMessage ELSE request[c]]
        /\ reply' = [c \in DOMAIN reply |->
                       IF c \in lost THEN NoMessage ELSE reply[c]]
    /\ UNCHANGED <<issued, clientVars>>

-----------------------------------------------------------------------------
(***************************************************************************)
(* client.cpp.                                                             *)
(***************************************************************************)

\* handleScenario: the time of the next entry has come.
ScenarioDue(c) ==
    /\ running[c]
    /\ scenario[c] # <<>>
    /\ scenarioMessagesQueue' =
         [scenarioMessagesQueue EXCEPT ![c] = Append(@, Head(scenario[c]))]
    /\ scenario' = [scenario EXCEPT ![c] = Tail(@)]
    /\ UNCHANGED <<server, network, asked, running, mainLoop, endpoints, threads>>

\* Faulty Queued: only subscriptions are passed on.
QueuedSubscribed(queue, r, type) ==
    IF r.type = type /\ type = "subscribe_request" THEN Append(queue, r.product_id)
                                                   ELSE queue

Queued(queue, r, type) ==
    IF r.type = type THEN Append(queue, r.product_id) ELSE queue

\* main: a reply arrives.  Without one, recv times out and main receives again.
ReceiveReply(c) ==
    LET r == reply[c] IN
    /\ running[c]
    /\ mainPc[c] = "recv"
    /\ r.type # "none"
    /\ reply' = [reply EXCEPT ![c] = NoMessage]
    /\ mainPc' = [mainPc EXCEPT ![c] = "send"]
    /\ clientId' = IF r.type = "client_id_request"
                   THEN [clientId EXCEPT ![c] = r.client_id] ELSE clientId
    /\ endpointsToSubscribe' =
         [endpointsToSubscribe EXCEPT ![c] = Queued(@, r, "subscribe_request")]
    /\ endpointsToUnsubscribe' =
         [endpointsToUnsubscribe EXCEPT ![c] = Queued(@, r, "unsubscribe_request")]
    /\ confirmed' =
         IF r.type \in {"subscribe_request", "unsubscribe_request"}
         THEN [confirmed EXCEPT ![c] =
                 Append(@, [subscribe |-> r.type = "subscribe_request",
                            productId |-> r.product_id])]
         ELSE confirmed
    /\ UNCHANGED <<server, request, asked, running, played, threads>>

\* Faulty AnyDue: the last entry that is due is left in the queue.
SeveralDue(queue) == Len(queue) > 1

AnyDue(queue) == queue # <<>>

\* main: the next entry of the scenario that is due, or a heartbeat.
SendNext(c) ==
    LET due == scenarioMessagesQueue[c] IN
    /\ running[c]
    /\ mainPc[c] = "send"
    /\ mainPc' = [mainPc EXCEPT ![c] = "recv"]
    /\ IF AnyDue(due)
       THEN /\ request' = [request EXCEPT ![c] =
                 Request(IF Head(due).subscribe THEN "subscribe_request"
                                                ELSE "unsubscribe_request",
                         clientId[c], Head(due).productId)]
            /\ scenarioMessagesQueue' =
                 [scenarioMessagesQueue EXCEPT ![c] = Tail(due)]
       ELSE /\ request' = [request EXCEPT ![c] =
                             Request("heartbeat", clientId[c], Missing)]
            /\ UNCHANGED scenarioMessagesQueue
    /\ UNCHANGED <<server, reply, asked, running, clientId, confirmed, scenario,
                   endpoints, threads>>

Listener(e) == [endpoint |-> e, at |-> TRUE, exited |-> FALSE]

\* Faulty Emplaced: the new flags are not kept.
EmplacedNothing(handlers, started) == handlers

\* emplace keeps what an endpoint has already.
Emplaced(handlers, started) ==
    [e \in DOMAIN handlers \cup {l.endpoint : l \in ToSet(started)} |->
        IF e \in DOMAIN handlers
        THEN handlers[e]
        ELSE SelectInSeq(started, LAMBDA l : l.endpoint = e)]

\* Faulty ToStart: no thread is started for an endpoint that has a flag.
ToStartNewOnly(c) ==
    SelectSeq(endpointsToSubscribe[c], LAMBDA e : e \notin DOMAIN endpointToHandler[c])

ToStart(c) == endpointsToSubscribe[c]

\* hendleNewEndpoints takes both queues and handles the subscriptions first; an
\* endpoint that has no flag to clear is a null pointer.
HandleEndpoints(c) ==
    LET new == ToStart(c)
        started == listeners[c] \o [i \in DOMAIN new |-> Listener(new[i])]
        handlers == Emplaced(endpointToHandler[c], started)
        toStop == ToSet(endpointsToUnsubscribe[c])
        stopped == {handlers[e] : e \in toStop \cap DOMAIN handlers}
    IN
    /\ running[c]
    /\ endpointsToSubscribe[c] # <<>> \/ endpointsToUnsubscribe[c] # <<>>
    /\ endpointsToSubscribe' = [endpointsToSubscribe EXCEPT ![c] = <<>>]
    /\ endpointsToUnsubscribe' = [endpointsToUnsubscribe EXCEPT ![c] = <<>>]
    /\ endpointToHandler' = [endpointToHandler EXCEPT ![c] = handlers]
    /\ listeners' = [listeners EXCEPT ![c] =
         [i \in DOMAIN started |->
            IF i \in stopped THEN [started[i] EXCEPT !.at = FALSE]
                             ELSE started[i]]]
    /\ running' = [running EXCEPT ![c] = toStop \subseteq DOMAIN handlers]
    /\ UNCHANGED <<server, network, asked, mainLoop, played>>

\* A listener thread sees its flag cleared after its receive has timed out.
ListenerExits(c) ==
    /\ running[c]
    /\ \E i \in DOMAIN listeners[c] :
        /\ ~listeners[c][i].at
        /\ ~listeners[c][i].exited
        /\ listeners' = [listeners EXCEPT ![c][i].exited = TRUE]
    /\ UNCHANGED <<server, network, asked, running, mainLoop, played, endpoints,
                   endpointToHandler>>

-----------------------------------------------------------------------------
(***************************************************************************)
(* Clients of another make.                                                *)
(***************************************************************************)
OtherRequests ==
    {Request(type, Missing, Missing) : type \in {"client_id_request", "unsupported"}}
    \cup {Request("heartbeat", id, Missing) : id \in {1, Missing}}
    \cup {Request(type, id, p) :
            type \in {"subscribe_request", "unsubscribe_request"},
            id \in {1, Missing}, p \in Products \cup {Missing}}

OtherSends(o, r) ==
    /\ asked < MaxOther
    /\ asked' = asked + 1
    /\ request[o] = NoMessage
    /\ reply[o] = NoMessage
    /\ request' = [request EXCEPT ![o] = r]
    /\ UNCHANGED <<server, reply, running, mainLoop, played, endpoints, threads>>

OtherReceives(o) ==
    /\ reply[o] # NoMessage
    /\ reply' = [reply EXCEPT ![o] = NoMessage]
    /\ UNCHANGED <<server, request, clientVars>>

-----------------------------------------------------------------------------
Serve(c) ==
    \/ ServeClientId(c)
    \/ ServeSubscribe(c)
    \/ ServeUnsubscribe(c)
    \/ ServeUnlisted(c)
    \/ ServeHeartbeat(c)
    \/ ServeMalformed(c)
    \/ ServeUnsupported(c)

MainLoop(c) == ReceiveReply(c) \/ SendNext(c)

Next ==
    \/ \E c \in Programs \cup Others : Serve(c)
    \/ RegisterClientId
    \/ ServerRestarts
    \/ \E c \in Programs :
         \/ MainLoop(c)
         \/ ScenarioDue(c)
         \/ HandleEndpoints(c)
         \/ ListenerExits(c)
    \/ \E o \in Others :
         \/ \E r \in OtherRequests : OtherSends(o, r)
         \/ OtherReceives(o)

Spec == Init /\ [][Next]_vars

\* The service thread and each thread of a program are scheduled; a REP socket
\* takes the requests of its clients in turn.
Fairness ==
    /\ \A c \in Programs \cup Others : WF_vars(Serve(c))
    /\ WF_vars(RegisterClientId)
    /\ \A c \in Programs :
        /\ WF_vars(MainLoop(c))
        /\ WF_vars(ScenarioDue(c))
        /\ WF_vars(HandleEndpoints(c))
        /\ WF_vars(ListenerExits(c))

FairSpec == Spec /\ Fairness

-----------------------------------------------------------------------------
(***************************************************************************)
(* Properties.                                                             *)
(***************************************************************************)

\* Types of the state of ClientService and of the client programs.
TypeOK ==
    LET Everyone == Programs \cup Others IN
    /\ up \in BOOLEAN
    /\ servicePc \in {"recv", "register", "blocked"}
    /\ m_registeredClientIds \subseteq 1 .. issued
    /\ products \subseteq Listed
    /\ listed \in BOOLEAN
    /\ products # {} => listed
    /\ restarts \in 0 .. MaxRestarts
    /\ DOMAIN request = Everyone
    /\ DOMAIN reply = Everyone
    /\ running \in [Programs -> BOOLEAN]
    /\ mainPc \in [Programs -> {"recv", "send"}]
    /\ clientId \in [Programs -> 0 .. issued]
    /\ confirmed \in [Programs -> Seq([subscribe : BOOLEAN, productId : Listed])]
    /\ \A c \in Programs :
        /\ endpointsToSubscribe[c] \in Seq(Listed)
        /\ endpointsToUnsubscribe[c] \in Seq(Listed)
        /\ DOMAIN endpointToHandler[c] \subseteq Listed
        /\ \A e \in DOMAIN endpointToHandler[c] :
             listeners[c][endpointToHandler[c][e]].endpoint = e

\* The id a program was given is known whenever it is used, although runImpl
\* sends it before it stores it: only a restart makes a program unknown.
IdsKnown ==
    \A c \in Programs : reply[c] = Error("UnknownClientId") => restarts > 0

\* No product is unsubscribed from before it has been subscribed to.
WellFormed(s) ==
    \A i \in DOMAIN s : ~s[i].subscribe =>
        \E j \in 1 .. i - 1 : s[j].subscribe /\ s[j].productId = s[i].productId

\* A program never finds an endpoint without a flag in hendleNewEndpoints,
\* however the confirmations of several rounds are batched and whatever other
\* clients do to the product: only the confirmed unsubscription of a product
\* whose subscription was refused makes it.
FlagsExist == \A c \in Programs : WellFormed(confirmed[c]) => running[c]

\* The last confirmation about p is a subscription.
Wanted(c, p) ==
    LET i == SelectLastInSeq(confirmed[c], LAMBDA e : e.productId = p)
    IN  i # 0 /\ confirmed[c][i].subscribe

Listening(c, p) ==
    \E i \in DOMAIN listeners[c] :
        listeners[c][i].endpoint = p /\ ~listeners[c][i].exited

Rounds(c, p) ==
    Cardinality({i \in DOMAIN listeners[c] : listeners[c][i].endpoint = p})

\* A product whose last confirmation was a subscription is listened to in the
\* end and from then on: no clearing of a flag for an earlier unsubscription,
\* handled late, silences it, unless the first confirmation of all was the
\* unsubscription (hendleNewEndpoints starts before it stops).
ConfirmedIsHeard ==
    \A c \in Programs, p \in Listed :
        <>[](WellFormed(confirmed[c]) /\ Wanted(c, p)) => <>[]Listening(c, p)

\* A product subscribed to once and then unsubscribed from is no longer listened
\* to.  A second subscription starts a listener whose flag nobody keeps.
FirstRoundStops ==
    \A c \in Programs, p \in Listed :
        <>[](~Wanted(c, p) /\ Rounds(c, p) <= 1 /\ running[c])
            => <>[]~Listening(c, p)

\* What the scenario thread queues is sent: request and reply keep alternating
\* through every branch of the service that answers, until one ends the process
\* or does not return.
ScenarioPlayed ==
    \A c \in Programs :
        scenarioMessagesQueue[c] # <<>> ~>
            \/ scenarioMessagesQueue[c] = <<>>
            \/ ~running[c] \/ ~up \/ servicePc = "blocked" \/ restarts > 0

\* client.cpp says, when no answer has come, that it "Will try to retrigger in
\* 1s": a program whose request or answer was lost sends again.
Retriggers ==
    \A c \in Programs :
        (mainPc[c] = "recv" /\ request[c] = NoMessage /\ reply[c] = NoMessage)
            ~> request[c] # NoMessage
=============================================================================
