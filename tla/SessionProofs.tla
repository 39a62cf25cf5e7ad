---------------------------- MODULE SessionProofs ----------------------------
(***************************************************************************)
(* Proofs about Session, for any programs and other clients, any listing   *)
(* and any scenarios:                                                      *)
(*   SessionTypesCorrect  the type invariant;                              *)
(*   IdsStayKnown         a client id is known whenever it is used;        *)
(*   FlagsAreKept         a program never looks for a flag it does not     *)
(*                        keep.                                            *)
(***************************************************************************)
EXTENDS Session, SequenceFacts

-----------------------------------------------------------------------------
(***************************************************************************)
(* The inductive invariant.                                                *)
(***************************************************************************)
Everyone == Programs \cup Others

Confirmation == [subscribe : BOOLEAN, productId : Listed]

ListenerThread == [endpoint : Listed, at : BOOLEAN, exited : BOOLEAN]

\* What a reply says is true: the id has been issued, the product is listed.
ReplyOK(r, n) ==
    /\ r.type = "client_id_request" => r.client_id \in 1 .. n
    /\ r.type \in {"subscribe_request", "unsubscribe_request"} => r.product_id \in Listed

ServerTypes ==
    /\ up \in BOOLEAN
    /\ servicePc \in {"recv", "register", "blocked"}
    /\ issued \in Nat
    /\ servicePc = "register" => issued > 0
    /\ m_registeredClientIds \subseteq 1 .. issued
    /\ products \subseteq Listed
    /\ listed \in BOOLEAN
    /\ products # {} => listed
    /\ restarts \in 0 .. MaxRestarts

MessageTypes ==
    /\ DOMAIN request = Everyone
    /\ DOMAIN reply = Everyone
    /\ \A c \in Everyone : ReplyOK(reply[c], issued)

ProgramTypes ==
    /\ running \in [Programs -> BOOLEAN]
    /\ mainPc \in [Programs -> {"recv", "send"}]
    /\ clientId \in [Programs -> 0 .. issued]
    /\ confirmed \in [Programs -> Seq(Confirmation)]
    /\ endpointsToSubscribe \in [Programs -> Seq(Listed)]
    /\ endpointsToUnsubscribe \in [Programs -> Seq(Listed)]

\* Each flag kept for an endpoint is that of one of its listeners.
HandlersOf(handlers, threadsOf) ==
    /\ DOMAIN handlers \subseteq Listed
    /\ \A e \in DOMAIN handlers :
        /\ handlers[e] \in 1 .. Len(threadsOf)
        /\ threadsOf[handlers[e]].endpoint = e

HandlerTypes ==
    /\ DOMAIN endpointToHandler = Programs
    /\ listeners \in [Programs -> Seq(ListenerThread)]
    /\ \A c \in Programs : HandlersOf(endpointToHandler[c], listeners[c])

\* The requests a program signs with its id, and the programs that must have one.
Signed == {"heartbeat", "subscribe_request", "unsubscribe_request"}

HasId(c) ==
    \/ mainPc[c] = "send"
    \/ request[c].type \in Signed
    \/ reply[c].type \notin {"none", "client_id_request"}

\* The service has stored every id it has issued, except the one it is about to
\* store.
StoredIds ==
    1 .. issued \subseteq
        m_registeredClientIds \cup (IF servicePc = "register" THEN {issued} ELSE {})

\* A program that has sent or may send anything but its first request has an id
\* that was issued, signs with one and has not been told that it is unknown.
IdOf(c) ==
    /\ request[c].type \in Signed \cup {"client_id_request", "none"}
    /\ request[c].type \in Signed => request[c].client_id \in 1 .. issued
    /\ HasId(c) => clientId[c] \in 1 .. issued
    /\ reply[c].type = "error" => reply[c].error # "UnknownClientId"

\* Both hold as long as the server has not been restarted.
IdsStored == restarts = 0 => StoredIds /\ \A c \in Programs : IdOf(c)

\* What was confirmed is in the queue to hendleNewEndpoints or has been handled.
Subscribed(s, p) == \E i \in 1 .. Len(s) : s[i].subscribe /\ s[i].productId = p

Unsubscribed(s, p) == \E i \in 1 .. Len(s) : ~s[i].subscribe /\ s[i].productId = p

FollowedBy(c) ==
    /\ \A p \in Listed : Subscribed(confirmed[c], p) =>
         p \in ToSet(endpointsToSubscribe[c]) \cup DOMAIN endpointToHandler[c]
    /\ \A p \in ToSet(endpointsToUnsubscribe[c]) : Unsubscribed(confirmed[c], p)
    /\ WellFormed(confirmed[c]) => running[c]

Followed == \A c \in Programs : FollowedBy(c)

SessionInv ==
    /\ ServerTypes
    /\ MessageTypes
    /\ ProgramTypes
    /\ HandlerTypes
    /\ IdsStored
    /\ Followed
-----------------------------------------------------------------------------
(***************************************************************************)
(* Types of the server and of the messages.                                *)
(***************************************************************************)

\* Every step preserves the types of the server's state.
LEMMA ServerTypesStep ==
    ASSUME ServerTypes, [Next]_vars
    PROVE  ServerTypes'
<1> USE DEF ServerTypes, server
<1>1. ASSUME NEW c, ServeClientId(c)
      PROVE  ServerTypes'
  <2>1. issued' \in Nat /\ issued' > 0 /\ m_registeredClientIds \subseteq 1 .. issued'
    BY <1>1 DEF ServeClientId
  <2> QED
    BY <1>1, <2>1 DEF ServeClientId
<1>2. ASSUME NEW c, ServeSubscribe(c)
      PROVE  ServerTypes'
  <2>1. products' \subseteq Listed
    BY <1>2 DEF ServeSubscribe, ErrorOf
  <2> QED
    BY <1>2, <2>1 DEF ServeSubscribe
<1>3. ASSUME NEW c, ServeUnsubscribe(c)
      PROVE  ServerTypes'
  <2>1. /\ products' \subseteq products /\ up' \in BOOLEAN
        /\ servicePc' \in {"recv", "register", "blocked"}
        /\ servicePc' = "register" => servicePc = "register"
    BY <1>3 DEF ServeUnsubscribe, Terminate, Block
  <2>2. /\ listed' = TRUE
        /\ UNCHANGED <<m_registeredClientIds, issued, restarts>>
    BY <1>3 DEF ServeUnsubscribe
  <2> QED
    BY <2>1, <2>2
<1>4. ASSUME NEW c, ServeUnlisted(c)
      PROVE  ServerTypes'
  <2>1. up' \in BOOLEAN
    BY <1>4 DEF ServeUnlisted, Terminate
  <2> QED
    BY <1>4, <2>1 DEF ServeUnlisted
<1>5. ASSUME NEW c, ServeHeartbeat(c) \/ ServeUnsupported(c)
      PROVE  ServerTypes'
  BY <1>5 DEF ServeHeartbeat, ServeUnsupported
<1>6. ASSUME NEW c, ServeMalformed(c)
      PROVE  ServerTypes'
  BY <1>6 DEF ServeMalformed, Terminate
<1>7. CASE RegisterClientId
  BY <1>7 DEF RegisterClientId, Registered
<1>8. CASE ServerRestarts
  <2>1. restarts' \in 0 .. MaxRestarts
    BY <1>8, SessionAssumption DEF ServerRestarts
  <2> QED
    BY <1>8, <2>1 DEF ServerRestarts
<1>9. CASE UNCHANGED server
  BY <1>9
<1>10. ASSUME NEW c, ReceiveReply(c) \/ SendNext(c) \/ ScenarioDue(c) \/ HandleEndpoints(c)
                      \/ ListenerExits(c)
       PROVE  UNCHANGED server
  BY <1>10 DEF ReceiveReply, SendNext, ScenarioDue, HandleEndpoints, ListenerExits
<1>11. ASSUME NEW o, (\E r \in OtherRequests : OtherSends(o, r)) \/ OtherReceives(o)
       PROVE  UNCHANGED server
  BY <1>11 DEF OtherSends, OtherReceives
<1>12. UNCHANGED vars => UNCHANGED server
  BY DEF vars
<1> QED
  BY <1>1, <1>2, <1>3, <1>4, <1>5, <1>6, <1>7, <1>8, <1>9, <1>10, <1>11, <1>12
     DEF Next, Serve, MainLoop

\* A reply stays true when more ids are issued.
LEMMA ReplyLater ==
    ASSUME NEW r, NEW m \in Nat, NEW n \in Nat, m <= n, ReplyOK(r, m)
    PROVE  ReplyOK(r, n)
BY DEF ReplyOK

\* No reply, and no error, claims anything.
LEMMA ReplyNothing ==
    ASSUME NEW n, NEW e
    PROVE  /\ ReplyOK(NoMessage, n)
           /\ ReplyOK(Error(e), n)
<1>1. NoMessage.type = "none" /\ Error(e).type = "error"
  BY DEF NoMessage, Error
<1> QED
  BY <1>1 DEF ReplyOK

\* The service answers client c, and no one else.
LEMMA AnswerTypes ==
    ASSUME MessageTypes, NEW c \in Everyone, NEW r, ReplyOK(r, issued), Answer(c, r),
           UNCHANGED issued
    PROVE  MessageTypes'
<1>1. /\ DOMAIN request' = Everyone /\ DOMAIN reply' = Everyone
      /\ reply'[c] = r
      /\ \A d \in Everyone : d # c => reply'[d] = reply[d]
  BY DEF MessageTypes, Answer
<1>2. \A d \in Everyone : ReplyOK(reply'[d], issued)
  BY <1>1 DEF MessageTypes
<1> QED
  BY <1>1, <1>2 DEF MessageTypes

\* The service thread ends or blocks without an answer.
LEMMA NoAnswerTypes ==
    ASSUME MessageTypes, NEW c \in Everyone, NoAnswer(c), UNCHANGED issued
    PROVE  MessageTypes'
BY DEF MessageTypes, NoAnswer

\* Every step preserves the types of the messages.
LEMMA MessageTypesStep ==
    ASSUME ServerTypes, MessageTypes, [Next]_vars
    PROVE  MessageTypes'
<1> USE DEF server, network
<1>1. ASSUME NEW c \in Everyone, ServeClientId(c)
      PROVE  MessageTypes'
  <2> DEFINE r == Reply("client_id_request", issued + 1, Missing)
  <2>1. issued \in Nat /\ issued' = issued + 1 /\ issued' \in Nat /\ issued <= issued'
    BY <1>1 DEF ServeClientId, ServerTypes
  <2>2. r.type = "client_id_request" /\ r.client_id = issued'
    BY <2>1 DEF Reply, Request
  <2>3. ReplyOK(r, issued')
    BY <2>1, <2>2 DEF ReplyOK
  <2> HIDE DEF r
  <2>4. /\ DOMAIN request' = Everyone /\ DOMAIN reply' = Everyone
        /\ reply'[c] = r
        /\ \A d \in Everyone : d # c => reply'[d] = reply[d]
    BY <1>1 DEF MessageTypes, ServeClientId, Answer, r
  <2>5. \A d \in Everyone : ReplyOK(reply[d], issued')
    BY <2>1, ReplyLater DEF MessageTypes
  <2>6. \A d \in Everyone : ReplyOK(reply'[d], issued')
    BY <2>3, <2>4, <2>5
  <2> QED
    BY <2>4, <2>6 DEF MessageTypes
<1>2. ASSUME NEW c \in Everyone, ServeSubscribe(c)
      PROVE  MessageTypes'
  <2>1. UNCHANGED issued
    BY <1>2 DEF ServeSubscribe
  <2>2. CASE ErrorOf(request[c]) # ""
    BY <1>2, <2>1, <2>2, AnswerTypes, ReplyNothing DEF ServeSubscribe
  <2>3. CASE ErrorOf(request[c]) = ""
    <3>1. ReplyOK(request[c], issued)
      BY <1>2, <2>3 DEF ServeSubscribe, Serving, ErrorOf, ReplyOK
    <3> QED
      BY <1>2, <2>1, <2>3, <3>1, AnswerTypes DEF ServeSubscribe
  <2> QED
    BY <2>2, <2>3
<1>3. ASSUME NEW c \in Everyone, ServeUnsubscribe(c)
      PROVE  MessageTypes'
  <2>1. UNCHANGED issued
    BY <1>3 DEF ServeUnsubscribe
  <2>2. CASE ErrorOf(request[c]) # ""
    BY <1>3, <2>1, <2>2, AnswerTypes, ReplyNothing DEF ServeUnsubscribe
  <2>3. CASE ErrorOf(request[c]) = ""
    <3>1. ReplyOK(request[c], issued)
      BY <1>3, <2>3 DEF ServeUnsubscribe, Serving, ErrorOf, ReplyOK
    <3> QED
      BY <1>3, <2>1, <2>3, <3>1, AnswerTypes, NoAnswerTypes
         DEF ServeUnsubscribe, Terminate, Block
  <2> QED
    BY <2>2, <2>3
<1>4. ASSUME NEW c \in Everyone, ServeUnlisted(c)
      PROVE  MessageTypes'
  BY <1>4, AnswerTypes, NoAnswerTypes, ReplyNothing DEF ServeUnlisted, Terminate
<1>5. ASSUME NEW c \in Everyone, ServeHeartbeat(c)
      PROVE  MessageTypes'
  <2>1. Reply("heartbeat", request[c].client_id, Missing).type = "heartbeat"
    BY DEF Reply, Request
  <2>2. ReplyOK(Reply("heartbeat", request[c].client_id, Missing), issued)
    BY <2>1 DEF ReplyOK
  <2>3. UNCHANGED issued
    BY <1>5 DEF ServeHeartbeat
  <2>4. \/ Answer(c, Reply("heartbeat", request[c].client_id, Missing))
        \/ Answer(c, Error("UnknownClientId"))
    BY <1>5 DEF ServeHeartbeat
  <2> QED
    BY <2>2, <2>3, <2>4, AnswerTypes, ReplyNothing
<1>6. ASSUME NEW c \in Everyone, ServeMalformed(c) \/ ServeUnsupported(c)
      PROVE  MessageTypes'
  BY <1>6, AnswerTypes, NoAnswerTypes, ReplyNothing
     DEF ServeMalformed, ServeUnsupported, Terminate
<1>7. CASE RegisterClientId
  BY <1>7 DEF RegisterClientId, MessageTypes
<1>8. CASE ServerRestarts
  <2>1. /\ DOMAIN request' = DOMAIN request /\ DOMAIN reply' = DOMAIN reply
        /\ \A c \in DOMAIN reply : reply'[c] \in {reply[c], NoMessage}
        /\ UNCHANGED issued
    BY <1>8 DEF ServerRestarts
  <2>2. \A c \in Everyone : ReplyOK(reply'[c], issued)
    BY <2>1, ReplyNothing DEF MessageTypes
  <2> QED
    BY <2>1, <2>2 DEF MessageTypes
<1>9. ASSUME NEW c \in Everyone, reply' = [reply EXCEPT ![c] = NoMessage],
             UNCHANGED <<issued, request>>
      PROVE  MessageTypes'
  <2>1. /\ DOMAIN reply' = DOMAIN reply
        /\ \A d \in DOMAIN reply : reply'[d] \in {reply[d], NoMessage}
    BY <1>9
  <2>2. \A d \in Everyone : ReplyOK(reply'[d], issued)
    BY <2>1, ReplyNothing DEF MessageTypes
  <2> QED
    BY <1>9, <2>1, <2>2 DEF MessageTypes
<1>10. ASSUME UNCHANGED <<issued, reply>>, DOMAIN request' = DOMAIN request
       PROVE  MessageTypes'
  BY <1>10 DEF MessageTypes
<1>11. ASSUME NEW c \in Programs, ReceiveReply(c)
       PROVE  MessageTypes'
  BY <1>9, <1>11 DEF ReceiveReply, Everyone
<1>12. ASSUME NEW c \in Programs, SendNext(c) \/ ScenarioDue(c) \/ HandleEndpoints(c)
                                   \/ ListenerExits(c)
       PROVE  MessageTypes'
  BY <1>10, <1>12 DEF SendNext, ScenarioDue, HandleEndpoints, ListenerExits
<1>13. ASSUME NEW o \in Others, NEW r, OtherSends(o, r)
       PROVE  MessageTypes'
  BY <1>10, <1>13 DEF OtherSends
<1>14. ASSUME NEW o \in Others, OtherReceives(o)
       PROVE  MessageTypes'
  BY <1>9, <1>14 DEF OtherReceives, Everyone
<1>15. CASE UNCHANGED vars
  BY <1>10, <1>15 DEF vars
<1> QED
  BY <1>1, <1>2, <1>3, <1>4, <1>5, <1>6, <1>7, <1>8, <1>11, <1>12, <1>13, <1>14, <1>15
     DEF Next, Serve, MainLoop, Everyone

-----------------------------------------------------------------------------
(***************************************************************************)
(* Types of the programs.                                                  *)
(***************************************************************************)
programs == <<running, mainLoop, endpoints, threads>>

\* Only a step of its own threads changes a program; ids are only ever added.
LEMMA ProgramSteps ==
    ASSUME ServerTypes, [Next]_vars
    PROVE  /\ issued \in Nat /\ issued' \in Nat /\ issued <= issued'
           /\ \/ UNCHANGED programs
              \/ \E c \in Programs : \/ ReceiveReply(c) \/ SendNext(c)
                                     \/ HandleEndpoints(c) \/ ListenerExits(c)
<1> USE DEF server, clientVars, programs
<1>0. issued \in Nat /\ issued + 1 \in Nat /\ issued <= issued + 1
  BY DEF ServerTypes
<1>1. ASSUME NEW c, Serve(c)
      PROVE  UNCHANGED programs /\ issued' \in {issued, issued + 1}
  <2>1. UNCHANGED clientVars
    BY <1>1 DEF Serve, ServeClientId, ServeSubscribe, ServeUnsubscribe, ServeUnlisted,
                ServeHeartbeat, ServeMalformed, ServeUnsupported
  <2>2. issued' \in {issued, issued + 1}
    BY <1>1 DEF Serve, ServeClientId, ServeSubscribe, ServeUnsubscribe, ServeUnlisted,
                ServeHeartbeat, ServeMalformed, ServeUnsupported
  <2> QED
    BY <2>1, <2>2
<1>2. CASE RegisterClientId \/ ServerRestarts
  BY <1>0, <1>2 DEF RegisterClientId, ServerRestarts
<1>3. ASSUME NEW c, ReceiveReply(c) \/ SendNext(c) \/ HandleEndpoints(c) \/ ListenerExits(c)
      PROVE  issued' = issued
  BY <1>3 DEF ReceiveReply, SendNext, HandleEndpoints, ListenerExits
<1>4. ASSUME NEW c, ScenarioDue(c)
      PROVE  UNCHANGED programs /\ issued' = issued
  BY <1>4 DEF ScenarioDue
<1>5. ASSUME NEW o, (\E r \in OtherRequests : OtherSends(o, r)) \/ OtherReceives(o)
      PROVE  UNCHANGED programs /\ issued' = issued
  BY <1>5 DEF OtherSends, OtherReceives
<1>6. CASE UNCHANGED vars
  BY <1>0, <1>6 DEF vars
<1> HIDE DEF server, clientVars, programs
<1> QED
  BY <1>0, <1>1, <1>2, <1>3, <1>4, <1>5, <1>6 DEF Next, MainLoop

\* A queue takes the product of a reply of its type.
LEMMA QueuedProduct ==
    ASSUME NEW queue \in Seq(Listed), NEW r, NEW n, ReplyOK(r, n),
           NEW type \in {"subscribe_request", "unsubscribe_request"}
    PROVE  /\ Queued(queue, r, type) \in Seq(Listed)
           /\ ToSet(Queued(queue, r, type)) =
                ToSet(queue) \cup (IF r.type = type THEN {r.product_id} ELSE {})
<1>1. CASE r.type = type
  <2>1. r.product_id \in Listed
    BY <1>1 DEF ReplyOK
  <2>2. Append(queue, r.product_id) \in Seq(Listed)
    BY <2>1
  <2>3. ToSet(Append(queue, r.product_id)) = ToSet(queue) \cup {r.product_id}
    BY <2>1, ToSetAppend
  <2> QED
    BY <1>1, <2>2, <2>3 DEF Queued
<1>2. CASE r.type # type
  BY <1>2 DEF Queued
<1> QED
  BY <1>1, <1>2

\* Every step preserves the types of the programs' main loops and queues.
LEMMA ProgramTypesStep ==
    ASSUME ServerTypes, MessageTypes, ProgramTypes, [Next]_vars
    PROVE  ProgramTypes'
<1>0. /\ issued \in Nat /\ issued' \in Nat /\ issued <= issued'
      /\ clientId \in [Programs -> 0 .. issued']
  <2>1. issued \in Nat /\ issued' \in Nat /\ issued <= issued'
    BY ProgramSteps
  <2>2. 0 .. issued \subseteq 0 .. issued'
    BY <2>1
  <2> QED
    BY <2>1, <2>2 DEF ProgramTypes
<1>1. CASE UNCHANGED programs
  BY <1>0, <1>1 DEF ProgramTypes, programs, mainLoop, endpoints, threads
<1>2. ASSUME NEW c \in Programs, ReceiveReply(c)
      PROVE  ProgramTypes'
  <2> DEFINE r == reply[c]
             new == [subscribe |-> r.type = "subscribe_request", productId |-> r.product_id]
  <2>1. ReplyOK(r, issued)
    BY DEF MessageTypes, Everyone
  <2>2. running' \in [Programs -> BOOLEAN] /\ mainPc' \in [Programs -> {"recv", "send"}]
    BY <1>2 DEF ReceiveReply, ProgramTypes
  <2>3. clientId' \in [Programs -> 0 .. issued']
    <3>1. CASE r.type = "client_id_request"
      <4>1. r.client_id \in 0 .. issued'
        BY <1>0, <2>1, <3>1 DEF ReplyOK
      <4>2. clientId' = [clientId EXCEPT ![c] = r.client_id]
        BY <1>2, <3>1 DEF ReceiveReply
      <4> QED
        BY <1>0, <4>1, <4>2
    <3>2. CASE r.type # "client_id_request"
      BY <1>0, <1>2, <3>2 DEF ReceiveReply
    <3> QED
      BY <3>1, <3>2
  <2>4. confirmed' \in [Programs -> Seq(Confirmation)]
    <3>1. CASE r.type \in {"subscribe_request", "unsubscribe_request"}
      <4>1. new \in Confirmation
        BY <2>1, <3>1 DEF ReplyOK, Confirmation
      <4>2. confirmed' = [confirmed EXCEPT ![c] = Append(@, new)]
        BY <1>2, <3>1 DEF ReceiveReply
      <4> HIDE DEF new
      <4>3. Append(confirmed[c], new) \in Seq(Confirmation)
        BY <4>1 DEF ProgramTypes
      <4> QED
        BY <4>2, <4>3 DEF ProgramTypes
    <3>2. CASE r.type \notin {"subscribe_request", "unsubscribe_request"}
      BY <1>2, <3>2 DEF ReceiveReply, ProgramTypes
    <3> QED
      BY <3>1, <3>2
  <2> HIDE DEF r, new
  <2>5. endpointsToSubscribe' \in [Programs -> Seq(Listed)]
    <3>1. Queued(endpointsToSubscribe[c], r, "subscribe_request") \in Seq(Listed)
      BY <2>1, QueuedProduct DEF ProgramTypes
    <3> QED
      BY <1>2, <3>1 DEF ReceiveReply, ProgramTypes, r
  <2>6. endpointsToUnsubscribe' \in [Programs -> Seq(Listed)]
    <3>1. Queued(endpointsToUnsubscribe[c], r, "unsubscribe_request") \in Seq(Listed)
      BY <2>1, QueuedProduct DEF ProgramTypes
    <3> QED
      BY <1>2, <3>1 DEF ReceiveReply, ProgramTypes, r
  <2> QED
    BY <2>2, <2>3, <2>4, <2>5, <2>6 DEF ProgramTypes
<1>3. ASSUME NEW c \in Programs, SendNext(c)
      PROVE  ProgramTypes'
  <2>1. mainPc' \in [Programs -> {"recv", "send"}]
    BY <1>3 DEF SendNext, ProgramTypes
  <2>2. UNCHANGED <<running, clientId, confirmed, endpointsToSubscribe, endpointsToUnsubscribe>>
    BY <1>3 DEF SendNext, endpoints
  <2> QED
    BY <1>0, <2>1, <2>2 DEF ProgramTypes
<1>4. ASSUME NEW c \in Programs, HandleEndpoints(c)
      PROVE  ProgramTypes'
  <2>1. UNCHANGED mainLoop
    BY <1>4 DEF HandleEndpoints
  <2>2. running' \in [Programs -> BOOLEAN]
    BY <1>4 DEF HandleEndpoints, ProgramTypes
  <2>3. /\ endpointsToSubscribe' = [endpointsToSubscribe EXCEPT ![c] = <<>>]
        /\ endpointsToUnsubscribe' = [endpointsToUnsubscribe EXCEPT ![c] = <<>>]
    BY <1>4 DEF HandleEndpoints
  <2>4. <<>> \in Seq(Listed)
    OBVIOUS
  <2>5. /\ endpointsToSubscribe' \in [Programs -> Seq(Listed)]
        /\ endpointsToUnsubscribe' \in [Programs -> Seq(Listed)]
    BY <2>3, <2>4 DEF ProgramTypes
  <2> QED
    BY <1>0, <2>1, <2>2, <2>5 DEF ProgramTypes, mainLoop
<1>5. ASSUME NEW c \in Programs, ListenerExits(c)
      PROVE  ProgramTypes'
  BY <1>0, <1>5 DEF ListenerExits, ProgramTypes, mainLoop, endpoints
<1> QED
  BY <1>1, <1>2, <1>3, <1>4, <1>5, ProgramSteps

-----------------------------------------------------------------------------
(***************************************************************************)
(* The listeners and their flags.                                          *)
(***************************************************************************)

\* The flag kept for a new endpoint is that of its first listener.
LEMMA FirstListener ==
    ASSUME NEW started \in Seq(ListenerThread), NEW e,
           \E i \in 1 .. Len(started) : started[i].endpoint = e
    PROVE  \E k \in 1 .. Len(started) :
              /\ SelectInSeq(started, LAMBDA l : l.endpoint = e) = k
              /\ started[k].endpoint = e
<1> DEFINE I == {i \in 1 .. Len(started) : started[i].endpoint = e}
<1>1. I # {} /\ I \in SUBSET Nat
  OBVIOUS
<1>2. SelectInSeq(started, LAMBDA l : l.endpoint = e) = Min(I)
  BY <1>1 DEF SelectInSeq
<1>3. Min(I) \in I
  <2> HIDE DEF I
  <2>1. \E m \in I : \A k \in I : m <= k
    BY <1>1, LeastElement
  <2> QED
    BY <2>1 DEF Min
<1> QED
  BY <1>2, <1>3

\* emplace keeps the flags there are, and each flag is its endpoint's.
LEMMA EmplacedFlags ==
    ASSUME NEW old \in Seq(ListenerThread), NEW started \in Seq(ListenerThread),
           NEW handlers, HandlersOf(handlers, old),
           Len(old) <= Len(started),
           \A i \in 1 .. Len(old) : started[i] = old[i]
    PROVE  LET new == Emplaced(handlers, started)
           IN  /\ DOMAIN new = DOMAIN handlers \cup {l.endpoint : l \in ToSet(started)}
               /\ HandlersOf(new, started)
<1> DEFINE new == Emplaced(handlers, started)
<1>1. DOMAIN new = DOMAIN handlers \cup {l.endpoint : l \in ToSet(started)}
  BY DEF Emplaced
<1>2. DOMAIN new \subseteq Listed
  <2>1. ToSet(started) \subseteq ListenerThread
    BY ToSetElements
  <2>2. \A l \in ToSet(started) : l.endpoint \in Listed
    BY <2>1 DEF ListenerThread
  <2> QED
    BY <1>1, <2>2 DEF HandlersOf
<1>3. ASSUME NEW e \in DOMAIN new
      PROVE  new[e] \in 1 .. Len(started) /\ started[new[e]].endpoint = e
  <2>1. CASE e \in DOMAIN handlers
    <3>1. new[e] = handlers[e]
      BY <2>1 DEF Emplaced
    <3>2. handlers[e] \in 1 .. Len(old) /\ old[handlers[e]].endpoint = e
      BY <2>1 DEF HandlersOf
    <3> QED
      BY <3>1, <3>2
  <2>2. CASE e \notin DOMAIN handlers
    <3>1. PICK l \in ToSet(started) : l.endpoint = e
      BY <1>1, <1>3, <2>2
    <3>2. \E i \in 1 .. Len(started) : started[i].endpoint = e
      BY <3>1, ToSetElements
    <3>3. new[e] = SelectInSeq(started, LAMBDA k : k.endpoint = e)
      BY <1>1, <1>3, <2>2 DEF Emplaced
    <3>4. \E k \in 1 .. Len(started) :
             /\ SelectInSeq(started, LAMBDA m : m.endpoint = e) = k
             /\ started[k].endpoint = e
      BY <3>2, FirstListener
    <3> HIDE DEF new
    <3> QED
      BY <3>3, <3>4
  <2> QED
    BY <2>1, <2>2
<1> HIDE DEF new
<1>4. HandlersOf(new, started)
  BY <1>2, <1>3 DEF HandlersOf
<1> QED
  BY <1>1, <1>4 DEF new

\* What hendleNewEndpoints starts: a listener for each endpoint of the queue.
Started(c) == listeners[c] \o [i \in DOMAIN ToStart(c) |-> Listener(ToStart(c)[i])]

\* The new listeners come after the old ones, one for each new endpoint.
LEMMA StartedListeners ==
    ASSUME ProgramTypes, HandlerTypes, NEW c \in Programs
    PROVE  /\ Started(c) \in Seq(ListenerThread)
           /\ Len(listeners[c]) <= Len(Started(c))
           /\ \A i \in 1 .. Len(listeners[c]) : Started(c)[i] = listeners[c][i]
           /\ \A e \in ToSet(endpointsToSubscribe[c]) :
                \E l \in ToSet(Started(c)) : l.endpoint = e
<1> DEFINE new == ToStart(c)
           added == [i \in DOMAIN new |-> Listener(new[i])]
<1>1. new \in Seq(Listed) /\ listeners[c] \in Seq(ListenerThread)
  BY DEF ToStart, ProgramTypes, HandlerTypes
<1> HIDE DEF new
<1>2. DOMAIN new = 1 .. Len(new) /\ Len(new) \in Nat
  BY <1>1
<1>3. \A i \in DOMAIN new : Listener(new[i]) \in ListenerThread
  BY <1>1, <1>2 DEF Listener, ListenerThread
<1>4. added \in Seq(ListenerThread) /\ Len(added) = Len(new)
  <2>1. added \in [1 .. Len(new) -> ListenerThread]
    BY <1>2, <1>3
  <2> HIDE DEF added
  <2> QED
    BY <1>2, <2>1
<1>5. \A i \in 1 .. Len(new) : added[i].endpoint = new[i]
  BY <1>2 DEF Listener
<1> HIDE DEF added
<1>6. Started(c) = listeners[c] \o added
  BY DEF Started, added, new
<1> DEFINE old == listeners[c]
           all == Started(c)
<1>7. /\ all \in Seq(ListenerThread)
      /\ Len(all) = Len(old) + Len(added)
      /\ \A i \in 1 .. Len(old) : all[i] = old[i]
      /\ \A i \in 1 .. Len(added) : all[Len(old) + i] = added[i]
  <2>1. Len(old) \in Nat /\ Len(added) \in Nat
    BY <1>1, <1>4
  <2>2. all \in Seq(ListenerThread) /\ Len(all) = Len(old) + Len(added)
    BY <1>1, <1>4, <1>6, ConcatProperties
  <2>3. \A i \in 1 .. Len(old) + Len(added) :
           all[i] = IF i <= Len(old) THEN old[i] ELSE added[i - Len(old)]
    BY <1>1, <1>4, <1>6, ConcatProperties
  <2>4. \A i \in 1 .. Len(added) : /\ Len(old) + i \in 1 .. Len(old) + Len(added)
                                   /\ ~(Len(old) + i <= Len(old))
                                   /\ (Len(old) + i) - Len(old) = i
    BY <2>1
  <2> HIDE DEF all, old
  <2> QED
    BY <2>1, <2>2, <2>3, <2>4
<1>8. Len(old) \in Nat
  BY <1>1
<1> HIDE DEF all, old
<1>9. ASSUME NEW e \in ToSet(endpointsToSubscribe[c])
      PROVE  \E l \in ToSet(all) : l.endpoint = e
  <2>1. PICK i \in 1 .. Len(new) : new[i] = e
    BY <1>1, ToSetElements DEF new, ToStart
  <2>2. Len(old) + i \in 1 .. Len(all) /\ all[Len(old) + i].endpoint = e
    BY <1>2, <1>4, <1>5, <1>7, <1>8, <2>1
  <2>3. all[Len(old) + i] \in ToSet(all)
    BY <1>7, <2>2, ToSetElements
  <2> QED
    BY <2>2, <2>3
<1>10. Len(old) <= Len(all)
  BY <1>2, <1>4, <1>7, <1>8
<1> QED
  BY <1>7, <1>9, <1>10 DEF all, old

\* The flags of a program are its listeners', whatever is written to them.
LEMMA FlagsWritten ==
    ASSUME NEW handlers, NEW before \in Seq(ListenerThread), NEW after \in Seq(ListenerThread),
           HandlersOf(handlers, before), Len(after) = Len(before),
           \A i \in 1 .. Len(before) : after[i].endpoint = before[i].endpoint
    PROVE  HandlersOf(handlers, after)
BY DEF HandlersOf

\* Every step preserves the types of the listeners and of the flags kept.
LEMMA HandlerTypesStep ==
    ASSUME ServerTypes, ProgramTypes, HandlerTypes, [Next]_vars
    PROVE  HandlerTypes'
<1>1. CASE UNCHANGED threads
  BY <1>1 DEF HandlerTypes, threads
<1>2. ASSUME NEW c \in Programs, HandleEndpoints(c)
      PROVE  HandlerTypes'
  <2> DEFINE started == Started(c)
             handlers == Emplaced(endpointToHandler[c], started)
             stopped == {handlers[e] : e \in ToSet(endpointsToUnsubscribe[c]) \cap DOMAIN handlers}
             after == [i \in DOMAIN started |->
                         IF i \in stopped THEN [started[i] EXCEPT !.at = FALSE] ELSE started[i]]
  <2>1. /\ endpointToHandler' = [endpointToHandler EXCEPT ![c] = handlers]
        /\ listeners' = [listeners EXCEPT ![c] = after]
    BY <1>2 DEF HandleEndpoints, Started
  <2>2. started \in Seq(ListenerThread) /\ HandlersOf(handlers, started)
    <3>1. listeners[c] \in Seq(ListenerThread) /\ HandlersOf(endpointToHandler[c], listeners[c])
      BY DEF HandlerTypes
    <3> HIDE DEF started
    <3>2. /\ started \in Seq(ListenerThread) /\ Len(listeners[c]) <= Len(started)
          /\ \A i \in 1 .. Len(listeners[c]) : started[i] = listeners[c][i]
      BY StartedListeners DEF started
    <3> QED
      BY <3>1, <3>2, EmplacedFlags
  <2> HIDE DEF started, handlers, stopped
  <2>3. /\ after \in Seq(ListenerThread) /\ Len(after) = Len(started)
        /\ \A i \in 1 .. Len(started) : after[i].endpoint = started[i].endpoint
    <3>1. DOMAIN started = 1 .. Len(started) /\ Len(started) \in Nat
      BY <2>2
    <3>2. \A i \in 1 .. Len(started) : /\ after[i] \in ListenerThread
                                       /\ after[i].endpoint = started[i].endpoint
      <4> SUFFICES ASSUME NEW i \in 1 .. Len(started)
                   PROVE  after[i] \in ListenerThread /\ after[i].endpoint = started[i].endpoint
        OBVIOUS
      <4>1. started[i] \in ListenerThread
        BY <2>2
      <4>2. after[i] = started[i] \/ after[i] = [started[i] EXCEPT !.at = FALSE]
        BY <3>1
      <4> HIDE DEF after
      <4> QED
        BY <4>1, <4>2 DEF ListenerThread
    <3>3. after \in [1 .. Len(started) -> ListenerThread]
      BY <3>1, <3>2
    <3> HIDE DEF after
    <3> QED
      BY <3>1, <3>2, <3>3
  <2> HIDE DEF after
  <2>4. HandlersOf(handlers, after)
    BY <2>2, <2>3, FlagsWritten
  <2>5. DOMAIN endpointToHandler' = Programs /\ listeners' \in [Programs -> Seq(ListenerThread)]
    BY <2>1, <2>3 DEF HandlerTypes
  <2>6. ASSUME NEW d \in Programs
        PROVE  HandlersOf(endpointToHandler'[d], listeners'[d])
    <3>1. CASE d = c
      BY <2>1, <2>4, <3>1 DEF HandlerTypes
    <3>2. CASE d # c
      BY <2>1, <3>2 DEF HandlerTypes
    <3> QED
      BY <3>1, <3>2
  <2> QED
    BY <2>5, <2>6 DEF HandlerTypes
<1>3. ASSUME NEW c \in Programs, ListenerExits(c)
      PROVE  HandlerTypes'
  <2>1. PICK i \in DOMAIN listeners[c] : listeners' = [listeners EXCEPT ![c][i].exited = TRUE]
    BY <1>3 DEF ListenerExits
  <2> DEFINE before == listeners[c]
             after == [before EXCEPT ![i].exited = TRUE]
  <2>2. before \in Seq(ListenerThread)
    BY DEF HandlerTypes
  <2>3. listeners' = [listeners EXCEPT ![c] = after] /\ UNCHANGED endpointToHandler
    BY <1>3, <2>1 DEF ListenerExits, HandlerTypes
  <2>4. i \in 1 .. Len(before) /\ before[i] \in ListenerThread
    BY <2>2
  <2> HIDE DEF before
  <2>5. [before[i] EXCEPT !.exited = TRUE] \in ListenerThread
    BY <2>4 DEF ListenerThread
  <2>6. /\ after \in Seq(ListenerThread) /\ Len(after) = Len(before)
        /\ \A j \in 1 .. Len(before) : after[j].endpoint = before[j].endpoint
    BY <2>2, <2>4, <2>5
  <2>7. HandlersOf(endpointToHandler[c], before)
    BY DEF HandlerTypes, before
  <2> HIDE DEF after
  <2>8. HandlersOf(endpointToHandler[c], after)
    BY <2>2, <2>6, <2>7, FlagsWritten
  <2>9. listeners' \in [Programs -> Seq(ListenerThread)]
    BY <2>3, <2>6 DEF HandlerTypes
  <2>10. \A d \in Programs : HandlersOf(endpointToHandler[d], listeners'[d])
    BY <2>3, <2>8 DEF HandlerTypes
  <2> QED
    BY <2>3, <2>9, <2>10 DEF HandlerTypes
<1>4. ASSUME NEW c, ReceiveReply(c) \/ SendNext(c)
      PROVE  UNCHANGED threads
  BY <1>4 DEF ReceiveReply, SendNext
<1> QED
  BY <1>1, <1>2, <1>3, <1>4, ProgramSteps DEF programs

-----------------------------------------------------------------------------
(***************************************************************************)
(* The ids.                                                                *)
(***************************************************************************)

\* Until the server is restarted, an id that has been issued is stored in the
\* end.
LEMMA StoredIdsStep ==
    ASSUME ServerTypes, StoredIds, [Next]_vars, restarts' = 0
    PROVE  StoredIds'
<1> DEFINE ids == <<issued, m_registeredClientIds, servicePc>>
<1>1. ASSUME NEW c, ServeClientId(c)
      PROVE  StoredIds'
  <2>1. issued \in Nat /\ issued' = issued + 1
    BY <1>1 DEF ServeClientId, ServerTypes
  <2>2. 1 .. issued' = 1 .. issued \cup {issued'}
    BY <2>1
  <2>3. 1 .. issued \subseteq m_registeredClientIds
    BY <1>1 DEF ServeClientId, Serving, StoredIds
  <2>4. servicePc' = "register" /\ UNCHANGED m_registeredClientIds
    BY <1>1 DEF ServeClientId
  <2> QED
    BY <2>2, <2>3, <2>4 DEF StoredIds
<1>2. ASSUME NEW c, \/ ServeSubscribe(c) \/ ServeUnlisted(c) \/ ServeHeartbeat(c)
                    \/ ServeMalformed(c) \/ ServeUnsupported(c)
      PROVE  UNCHANGED ids
  BY <1>2 DEF ServeSubscribe, ServeUnlisted, ServeHeartbeat, ServeMalformed,
              ServeUnsupported, server
<1>3. CASE RegisterClientId
  BY <1>3 DEF RegisterClientId, Registered, StoredIds
<1>4. ~ServerRestarts
  BY DEF ServerRestarts, ServerTypes
<1>5. ASSUME NEW c, \/ ReceiveReply(c) \/ SendNext(c) \/ ScenarioDue(c)
                    \/ HandleEndpoints(c) \/ ListenerExits(c)
      PROVE  UNCHANGED ids
  BY <1>5 DEF ReceiveReply, SendNext, ScenarioDue, HandleEndpoints, ListenerExits, server
<1>6. ASSUME NEW o, (\E r \in OtherRequests : OtherSends(o, r)) \/ OtherReceives(o)
      PROVE  UNCHANGED ids
  BY <1>6 DEF OtherSends, OtherReceives, server
<1>7. UNCHANGED vars => UNCHANGED ids
  BY DEF vars, server
<1>8. UNCHANGED ids => StoredIds'
  BY DEF StoredIds
<1>9. ASSUME NEW c, ServeUnsubscribe(c)
      PROVE  StoredIds'
  <2>1. servicePc = "recv" /\ UNCHANGED <<issued, m_registeredClientIds>>
    BY <1>9 DEF ServeUnsubscribe, Serving
  <2> QED
    BY <2>1 DEF StoredIds
<1> HIDE DEF ids
<1> QED
  BY <1>1, <1>2, <1>3, <1>4, <1>5, <1>6, <1>7, <1>8, <1>9 DEF Next, Serve, MainLoop

\* A program to which nothing new is said keeps its id.
LEMMA IdKept ==
    ASSUME NEW c, IdOf(c), issued \in Nat, issued' \in Nat, issued <= issued',
           mainPc'[c] = mainPc[c], clientId'[c] = clientId[c],
           request'[c] \in {request[c], NoMessage}, reply'[c] \in {reply[c], NoMessage}
    PROVE  IdOf(c)'
<1>1. NoMessage.type = "none" /\ "none" \notin Signed /\ "none" # "error"
  BY DEF NoMessage, Signed
<1>2. 1 .. issued \subseteq 1 .. issued'
  OBVIOUS
<1>3. HasId(c)' => HasId(c)
  BY <1>1 DEF HasId
<1>4. request'[c].type \in Signed => request'[c] = request[c]
  BY <1>1
<1>5. request'[c].type \in Signed \cup {"client_id_request", "none"}
  BY <1>1 DEF IdOf
<1>6. reply'[c].type = "error" => reply'[c] = reply[c]
  BY <1>1
<1> QED
  BY <1>2, <1>3, <1>4, <1>5, <1>6 DEF IdOf

\* The service gives a program an id, or answers what it has signed.
LEMMA AnsweredIds ==
    ASSUME MessageTypes, \A c \in Programs : IdOf(c),
           issued \in Nat, issued' \in Nat, issued <= issued', UNCHANGED <<mainPc, clientId>>,
           NEW c \in Everyone, NEW r, Answer(c, r),
           \/ r.type = "client_id_request"
           \/ c \in Programs => /\ request[c].type \in Signed
                                /\ r.type = "error" => r.error # "UnknownClientId"
    PROVE  \A d \in Programs : IdOf(d)'
<1> SUFFICES ASSUME NEW d \in Programs
             PROVE  IdOf(d)'
  OBVIOUS
<1>0. d \in Everyone
  BY DEF Everyone
<1>1. CASE d # c
  <2>1. request'[d] = request[d] /\ reply'[d] = reply[d]
    BY <1>0, <1>1 DEF Answer, MessageTypes
  <2> QED
    BY <2>1, IdKept
<1>2. CASE d = c
  <2>1. request'[d] = NoMessage /\ reply'[d] = r
    BY <1>0, <1>2 DEF Answer, MessageTypes
  <2>2. request'[d].type = "none" /\ "none" \notin Signed
    BY <2>1 DEF NoMessage, Signed
  <2>3. 1 .. issued \subseteq 1 .. issued'
    OBVIOUS
  <2>4. HasId(d)' => HasId(d)
    BY <1>2, <2>1, <2>2 DEF HasId
  <2>5. r.type = "error" => r.error # "UnknownClientId"
    BY <1>2
  <2> QED
    BY <2>1, <2>2, <2>3, <2>4, <2>5 DEF IdOf
<1> QED
  BY <1>1, <1>2

\* A request is taken without an answer.
LEMMA NoAnswerIds ==
    ASSUME MessageTypes, \A c \in Programs : IdOf(c), issued \in Nat,
           UNCHANGED <<issued, mainPc, clientId>>, NEW c \in Everyone, NoAnswer(c)
    PROVE  \A d \in Programs : IdOf(d)'
<1> SUFFICES ASSUME NEW d \in Programs
             PROVE  IdOf(d)'
  OBVIOUS
<1>1. request'[d] \in {request[d], NoMessage} /\ reply'[d] = reply[d]
  BY DEF NoAnswer, MessageTypes, Everyone
<1> QED
  BY <1>1, IdKept

\* What a program has signed does not fail for its id, as long as the service
\* stores what it has issued before it takes the next request.
LEMMA SignedIsKnown ==
    ASSUME StoredIds, NEW c, IdOf(c), NEW type \in Signed, Serving(c, type)
    PROVE  /\ request[c].type \in Signed
           /\ request[c].client_id \in m_registeredClientIds
           /\ ErrorOf(request[c]) # "UnknownClientId"
<1>1. request[c].type \in Signed /\ servicePc = "recv"
  BY DEF Serving
<1>2. request[c].client_id \in m_registeredClientIds
  BY <1>1 DEF IdOf, StoredIds
<1> QED
  BY <1>1, <1>2 DEF ErrorOf

\* An answer leaves every program with its id.
LEMMA ServedIds ==
    ASSUME ServerTypes, MessageTypes, StoredIds, \A c \in Programs : IdOf(c),
           NEW c \in Everyone, Serve(c)
    PROVE  \A d \in Programs : IdOf(d)'
<1> USE DEF server, clientVars, mainLoop
<1>0. issued \in Nat /\ Signed = {"heartbeat", "subscribe_request", "unsubscribe_request"}
  BY DEF ServerTypes, Signed
<1>1. CASE ServeClientId(c)
  <2>1. Reply("client_id_request", issued + 1, Missing).type = "client_id_request"
    BY DEF Reply, Request
  <2>2. /\ issued' \in Nat /\ issued <= issued' /\ UNCHANGED <<mainPc, clientId>>
        /\ Answer(c, Reply("client_id_request", issued + 1, Missing))
    BY <1>0, <1>1 DEF ServeClientId
  <2> QED
    BY <1>0, <2>1, <2>2, AnsweredIds
<1>2. ASSUME NEW r, Answer(c, r), UNCHANGED <<issued, mainPc, clientId>>,
             c \in Programs => /\ request[c].type \in Signed
                               /\ r.type = "error" => r.error # "UnknownClientId"
      PROVE  \A d \in Programs : IdOf(d)'
  BY <1>0, <1>2, AnsweredIds
<1>3. ASSUME NoAnswer(c), UNCHANGED <<issued, mainPc, clientId>>
      PROVE  \A d \in Programs : IdOf(d)'
  BY <1>0, <1>3, NoAnswerIds
<1>4. \A type \in Signed : Serving(c, type) /\ c \in Programs =>
         /\ request[c].type \in Signed
         /\ request[c].client_id \in m_registeredClientIds
         /\ ErrorOf(request[c]) # "UnknownClientId"
  BY SignedIsKnown
<1>5. \A e : Error(e).type = "error" /\ Error(e).error = e
  BY DEF Error
<1>6. CASE ServeSubscribe(c) \/ ServeUnsubscribe(c)
  <2>1. /\ \E type \in {"subscribe_request", "unsubscribe_request"} : Serving(c, type)
        /\ UNCHANGED <<issued, mainPc, clientId>>
        /\ \/ Answer(c, Error(ErrorOf(request[c])))
           \/ Answer(c, request[c])
           \/ NoAnswer(c)
    BY <1>6 DEF ServeSubscribe, ServeUnsubscribe, Terminate, Block
  <2>2. request[c].type # "error"
    BY <2>1 DEF Serving
  <2>3. CASE Answer(c, Error(ErrorOf(request[c])))
    BY <1>0, <1>2, <1>4, <1>5, <2>1, <2>3
  <2>4. CASE Answer(c, request[c])
    BY <1>0, <1>2, <1>4, <2>1, <2>2, <2>4
  <2> QED
    BY <1>3, <2>1, <2>3, <2>4
<1>7. CASE ServeUnlisted(c)
  <2>1. /\ \E type \in {"subscribe_request", "unsubscribe_request"} : Serving(c, type)
        /\ UNCHANGED <<issued, mainPc, clientId>>
        /\ Answer(c, Error("Invalid message")) \/ NoAnswer(c)
    BY <1>7 DEF ServeUnlisted, Terminate
  <2>2. CASE Answer(c, Error("Invalid message"))
    BY <1>0, <1>2, <1>4, <1>5, <2>1, <2>2
  <2> QED
    BY <1>3, <2>1, <2>2
<1>8. CASE ServeHeartbeat(c)
  <2> DEFINE r == IF request[c].client_id \in m_registeredClientIds
                  THEN Reply("heartbeat", request[c].client_id, Missing)
                  ELSE Error("UnknownClientId")
  <2>1. Serving(c, "heartbeat") /\ Answer(c, r) /\ UNCHANGED <<issued, mainPc, clientId>>
    BY <1>8 DEF ServeHeartbeat
  <2>2. c \in Programs => request[c].type \in Signed /\ r.type = "heartbeat"
    BY <1>0, <1>4, <2>1 DEF Reply, Request
  <2> HIDE DEF r
  <2> QED
    BY <1>2, <2>1, <2>2
<1>9. CASE ServeMalformed(c)
  BY <1>3, <1>9 DEF ServeMalformed, Terminate
<1>10. CASE ServeUnsupported(c)
  <2>1. Answer(c, Error("unsupported")) /\ UNCHANGED <<issued, mainPc, clientId>>
    BY <1>10 DEF ServeUnsupported
  <2>2. c \notin Programs
    BY <1>0, <1>10 DEF ServeUnsupported, Serving, IdOf
  <2> QED
    BY <1>2, <2>1, <2>2
<1> QED
  BY <1>1, <1>6, <1>7, <1>8, <1>9, <1>10 DEF Serve

\* Every step preserves what the ids are known by.
LEMMA IdsStoredStep ==
    ASSUME ServerTypes, MessageTypes, ProgramTypes, IdsStored, [Next]_vars
    PROVE  IdsStored'
<1> SUFFICES ASSUME restarts' = 0
             PROVE  StoredIds' /\ \A c \in Programs : IdOf(c)'
  BY DEF IdsStored
<1>0. ~ServerRestarts
  BY DEF ServerRestarts, ServerTypes
<1>1. restarts = 0
  <2>1. ASSUME NEW c, Serve(c)
        PROVE  UNCHANGED restarts
    BY <2>1 DEF Serve, ServeClientId, ServeSubscribe, ServeUnsubscribe, ServeUnlisted,
                ServeHeartbeat, ServeMalformed, ServeUnsupported, server
  <2>2. RegisterClientId => UNCHANGED restarts
    BY DEF RegisterClientId
  <2>3. ASSUME NEW c, \/ ReceiveReply(c) \/ SendNext(c) \/ ScenarioDue(c)
                      \/ HandleEndpoints(c) \/ ListenerExits(c)
        PROVE  UNCHANGED restarts
    BY <2>3 DEF ReceiveReply, SendNext, ScenarioDue, HandleEndpoints, ListenerExits, server
  <2>4. ASSUME NEW o, (\E r \in OtherRequests : OtherSends(o, r)) \/ OtherReceives(o)
        PROVE  UNCHANGED restarts
    BY <2>4 DEF OtherSends, OtherReceives, server
  <2>5. UNCHANGED vars => UNCHANGED restarts
    BY DEF vars, server
  <2> QED
    BY <1>0, <2>1, <2>2, <2>3, <2>4, <2>5 DEF Next, MainLoop
<1>2. StoredIds /\ \A c \in Programs : IdOf(c)
  BY <1>1 DEF IdsStored
<1>3. StoredIds'
  BY <1>2, StoredIdsStep
<1> SUFFICES \A c \in Programs : IdOf(c)'
  BY <1>3
<1>4. issued \in Nat
  BY DEF ServerTypes
<1>5. ASSUME UNCHANGED <<issued, mainPc, clientId>>,
             \A c \in Programs : /\ request'[c] \in {request[c], NoMessage}
                                 /\ reply'[c] \in {reply[c], NoMessage}
      PROVE  \A c \in Programs : IdOf(c)'
  BY <1>2, <1>4, <1>5, IdKept
<1>6. ASSUME NEW c \in Everyone, Serve(c)
      PROVE  \A d \in Programs : IdOf(d)'
  BY <1>2, <1>6, ServedIds
<1>7. ASSUME NEW c \in Programs, ReceiveReply(c)
      PROVE  \A d \in Programs : IdOf(d)'
  <2> SUFFICES ASSUME NEW d \in Programs
               PROVE  IdOf(d)'
    OBVIOUS
  <2>1. UNCHANGED <<issued, request>>
    BY <1>7 DEF ReceiveReply, server
  <2>2. CASE d # c
    <3>1. mainPc'[d] = mainPc[d] /\ clientId'[d] = clientId[d] /\ reply'[d] = reply[d]
      BY <1>7, <2>2 DEF ReceiveReply, ProgramTypes, MessageTypes, Everyone
    <3> QED
      BY <1>2, <1>4, <2>1, <3>1, IdKept
  <2>3. CASE d = c
    <3>1. reply'[d] = NoMessage /\ NoMessage.type = "none"
      BY <1>7, <2>3 DEF ReceiveReply, MessageTypes, Everyone, NoMessage
    <3>2. CASE reply[c].type = "client_id_request"
      <4>1. clientId'[d] = reply[c].client_id
        BY <1>7, <2>3, <3>2 DEF ReceiveReply, ProgramTypes
      <4>2. reply[c].client_id \in 1 .. issued
        BY <3>2 DEF MessageTypes, ReplyOK, Everyone
      <4> QED
        BY <1>2, <2>1, <3>1, <4>1, <4>2 DEF IdOf
    <3>3. CASE reply[c].type # "client_id_request"
      <4>1. clientId' = clientId /\ HasId(c)
        BY <1>7, <3>3 DEF ReceiveReply, HasId
      <4> QED
        BY <1>2, <2>1, <2>3, <3>1, <4>1 DEF IdOf
    <3> QED
      BY <3>2, <3>3
  <2> QED
    BY <2>2, <2>3
<1>8. ASSUME NEW c \in Programs, SendNext(c)
      PROVE  \A d \in Programs : IdOf(d)'
  <2> SUFFICES ASSUME NEW d \in Programs
               PROVE  IdOf(d)'
    OBVIOUS
  <2>1. UNCHANGED <<issued, reply, clientId>>
    BY <1>8 DEF SendNext, server
  <2>2. CASE d # c
    <3>1. mainPc'[d] = mainPc[d] /\ request'[d] = request[d]
      BY <1>8, <2>2 DEF SendNext, ProgramTypes, MessageTypes, Everyone
    <3> QED
      BY <1>2, <1>4, <2>1, <3>1, IdKept
  <2>3. CASE d = c
    <3>1. PICK type, p : type \in Signed /\ request'[c] = Request(type, clientId[c], p)
      BY <1>8 DEF SendNext, MessageTypes, Everyone, Signed
    <3>2. request'[c].type \in Signed /\ request'[c].client_id = clientId[c]
      BY <3>1 DEF Request
    <3>3. HasId(c)
      BY <1>8 DEF SendNext, HasId
    <3> QED
      BY <1>2, <2>1, <2>3, <3>2, <3>3 DEF IdOf
  <2> QED
    BY <2>2, <2>3
<1>9. ASSUME NEW c, RegisterClientId \/ ScenarioDue(c) \/ HandleEndpoints(c) \/ ListenerExits(c)
      PROVE  \A d \in Programs : IdOf(d)'
  <2>1. UNCHANGED <<issued, mainPc, clientId, request, reply>>
    BY <1>9 DEF RegisterClientId, ScenarioDue, HandleEndpoints, ListenerExits, server, network,
                mainLoop, clientVars
  <2> QED
    BY <1>5, <2>1
<1>10. ASSUME NEW o \in Others, NEW r, OtherSends(o, r) \/ OtherReceives(o)
       PROVE  \A d \in Programs : IdOf(d)'
  <2>1. UNCHANGED <<issued, mainPc, clientId>>
    BY <1>10 DEF OtherSends, OtherReceives, server, mainLoop, clientVars
  <2>2. \A d \in Programs : d # o /\ request'[d] = request[d] /\ reply'[d] = reply[d]
    BY <1>10, SessionAssumption DEF OtherSends, OtherReceives, MessageTypes, Everyone
  <2> QED
    BY <1>5, <2>1, <2>2
<1>11. CASE UNCHANGED vars
  <2>1. UNCHANGED <<issued, mainPc, clientId, request, reply>>
    BY <1>11 DEF vars, server, network, mainLoop
  <2> QED
    BY <1>5, <2>1
<1> QED
  BY <1>0, <1>6, <1>7, <1>8, <1>9, <1>10, <1>11 DEF Next, MainLoop, Everyone

-----------------------------------------------------------------------------
(***************************************************************************)
(* The confirmations.                                                      *)
(***************************************************************************)

\* What a confirmation adds to those before it.
LEMMA ConfirmationAdded ==
    ASSUME NEW s \in Seq(Confirmation), NEW x \in Confirmation
    PROVE  LET t == Append(s, x)
           IN  /\ \A p : Subscribed(t, p) =>
                    Subscribed(s, p) \/ (x.subscribe /\ p = x.productId)
               /\ \A p : Unsubscribed(s, p) \/ (~x.subscribe /\ p = x.productId) =>
                    Unsubscribed(t, p)
               /\ WellFormed(t) => WellFormed(s)
<1> DEFINE t == Append(s, x)
<1>1. /\ Len(s) \in Nat /\ Len(t) = Len(s) + 1
      /\ \A i \in 1 .. Len(s) : t[i] = s[i]
      /\ t[Len(s) + 1] = x
      /\ DOMAIN s = 1 .. Len(s) /\ DOMAIN t = 1 .. Len(t)
  OBVIOUS
<1> HIDE DEF t
<1>2. 1 .. Len(t) = 1 .. Len(s) \cup {Len(s) + 1}
  BY <1>1
<1>3. ASSUME NEW p, Subscribed(t, p)
      PROVE  Subscribed(s, p) \/ (x.subscribe /\ p = x.productId)
  BY <1>1, <1>2, <1>3 DEF Subscribed
<1>4. ASSUME NEW p, Unsubscribed(s, p) \/ (~x.subscribe /\ p = x.productId)
      PROVE  Unsubscribed(t, p)
  BY <1>1, <1>2, <1>4 DEF Unsubscribed
<1>5. ASSUME WellFormed(t)
      PROVE  WellFormed(s)
  <2> SUFFICES ASSUME NEW i \in 1 .. Len(s), ~s[i].subscribe
               PROVE  \E j \in 1 .. i - 1 : s[j].subscribe /\ s[j].productId = s[i].productId
    BY <1>1 DEF WellFormed
  <2>1. t[i] = s[i] /\ i \in DOMAIN t
    BY <1>1, <1>2
  <2>2. PICK j \in 1 .. i - 1 : t[j].subscribe /\ t[j].productId = t[i].productId
    BY <1>5, <2>1 DEF WellFormed
  <2>3. j \in 1 .. Len(s)
    BY <1>1, <2>2
  <2> QED
    BY <1>1, <2>1, <2>2, <2>3
<1> QED
  BY <1>3, <1>4, <1>5 DEF t

\* In a history that is well formed, what was unsubscribed was subscribed.
LEMMA WasSubscribed ==
    ASSUME NEW s \in Seq(Confirmation), WellFormed(s), NEW p, Unsubscribed(s, p)
    PROVE  Subscribed(s, p)
<1>1. PICK i \in 1 .. Len(s) : ~s[i].subscribe /\ s[i].productId = p
  BY DEF Unsubscribed
<1>2. PICK j \in 1 .. i - 1 : s[j].subscribe /\ s[j].productId = s[i].productId
  BY <1>1 DEF WellFormed
<1>3. j \in 1 .. Len(s)
  BY <1>1, <1>2
<1> QED
  BY <1>1, <1>2, <1>3 DEF Subscribed

\* The main loop passes on what it has been confirmed.
LEMMA ReceivedIsFollowed ==
    ASSUME MessageTypes, ProgramTypes, NEW c \in Programs, FollowedBy(c), ReceiveReply(c)
    PROVE  FollowedBy(c)'
<1> DEFINE r == reply[c]
           x == [subscribe |-> r.type = "subscribe_request", productId |-> r.product_id]
           s == confirmed[c]
<1>1. ReplyOK(r, issued)
  BY DEF MessageTypes, Everyone
<1>2. s \in Seq(Confirmation)
  BY DEF ProgramTypes
<1>3. UNCHANGED <<endpointToHandler, running>>
  BY DEF ReceiveReply, threads
<1>4. /\ endpointsToSubscribe'[c] = Queued(endpointsToSubscribe[c], r, "subscribe_request")
      /\ endpointsToUnsubscribe'[c] = Queued(endpointsToUnsubscribe[c], r, "unsubscribe_request")
  BY DEF ReceiveReply, ProgramTypes
<1> HIDE DEF r
<1>5. /\ ToSet(endpointsToSubscribe'[c]) = ToSet(endpointsToSubscribe[c])
           \cup (IF r.type = "subscribe_request" THEN {r.product_id} ELSE {})
      /\ ToSet(endpointsToUnsubscribe'[c]) = ToSet(endpointsToUnsubscribe[c])
           \cup (IF r.type = "unsubscribe_request" THEN {r.product_id} ELSE {})
  BY <1>1, <1>4, QueuedProduct DEF ProgramTypes
<1>6. CASE r.type \in {"subscribe_request", "unsubscribe_request"}
  <2>1. x \in Confirmation
    BY <1>1, <1>6 DEF ReplyOK, Confirmation
  <2>2. x.subscribe <=> r.type = "subscribe_request"
    OBVIOUS
  <2>3. x.productId = r.product_id
    OBVIOUS
  <2>4. confirmed'[c] = Append(s, x)
    BY <1>6 DEF ReceiveReply, ProgramTypes, r
  <2> HIDE DEF x, s
  <2>5. /\ \A p : Subscribed(confirmed'[c], p) =>
             Subscribed(s, p) \/ (x.subscribe /\ p = x.productId)
        /\ \A p : Unsubscribed(s, p) \/ (~x.subscribe /\ p = x.productId) =>
             Unsubscribed(confirmed'[c], p)
        /\ WellFormed(confirmed'[c]) => WellFormed(s)
    BY <1>2, <2>1, <2>4, ConfirmationAdded
  <2>6. \A p \in Listed : Subscribed(confirmed'[c], p) =>
           p \in ToSet(endpointsToSubscribe'[c]) \cup DOMAIN endpointToHandler'[c]
    BY <1>3, <1>5, <2>2, <2>3, <2>5 DEF FollowedBy, s
  <2>7. \A p \in ToSet(endpointsToUnsubscribe'[c]) : Unsubscribed(confirmed'[c], p)
    BY <1>5, <2>2, <2>3, <2>5 DEF FollowedBy, s
  <2>8. WellFormed(confirmed'[c]) => running'[c]
    BY <1>3, <2>5 DEF FollowedBy, s
  <2> QED
    BY <2>6, <2>7, <2>8 DEF FollowedBy
<1>7. CASE r.type \notin {"subscribe_request", "unsubscribe_request"}
  <2>1. UNCHANGED confirmed
    BY <1>7 DEF ReceiveReply, r
  <2> QED
    BY <1>3, <1>5, <1>7, <2>1 DEF FollowedBy
<1> QED
  BY <1>6, <1>7

\* hendleNewEndpoints finds every flag it clears, as it starts before it stops.
LEMMA HandledIsFollowed ==
    ASSUME ProgramTypes, HandlerTypes, NEW c \in Programs, FollowedBy(c), HandleEndpoints(c)
    PROVE  FollowedBy(c)'
<1> DEFINE started == Started(c)
           handlers == Emplaced(endpointToHandler[c], started)
           toStop == ToSet(endpointsToUnsubscribe[c])
<1>1. /\ UNCHANGED confirmed
      /\ endpointsToUnsubscribe'[c] = <<>>
      /\ endpointToHandler'[c] = handlers
      /\ running'[c] = (toStop \subseteq DOMAIN handlers)
  <2>1. /\ endpointsToUnsubscribe' = [endpointsToUnsubscribe EXCEPT ![c] = <<>>]
        /\ endpointToHandler' = [endpointToHandler EXCEPT ![c] = handlers]
        /\ running' = [running EXCEPT ![c] = toStop \subseteq DOMAIN handlers]
        /\ UNCHANGED confirmed
    BY DEF HandleEndpoints, Started, mainLoop
  <2> HIDE DEF handlers, toStop
  <2> QED
    BY <2>1 DEF ProgramTypes, HandlerTypes
<1>2. /\ started \in Seq(ListenerThread)
      /\ Len(listeners[c]) <= Len(started)
      /\ \A i \in 1 .. Len(listeners[c]) : started[i] = listeners[c][i]
      /\ \A e \in ToSet(endpointsToSubscribe[c]) : \E l \in ToSet(started) : l.endpoint = e
  BY StartedListeners
<1>3. listeners[c] \in Seq(ListenerThread) /\ HandlersOf(endpointToHandler[c], listeners[c])
  BY DEF HandlerTypes
<1> HIDE DEF started
<1>4. DOMAIN handlers =
        DOMAIN endpointToHandler[c] \cup {l.endpoint : l \in ToSet(started)}
  BY <1>2, <1>3, EmplacedFlags
<1> HIDE DEF handlers, toStop
<1>5. ToSet(endpointsToSubscribe[c]) \cup DOMAIN endpointToHandler[c] \subseteq DOMAIN handlers
  BY <1>2, <1>4
<1>6. \A p \in Listed : Subscribed(confirmed[c], p) => p \in DOMAIN handlers
  BY <1>5 DEF FollowedBy
<1>7. ASSUME WellFormed(confirmed[c])
      PROVE  running'[c]
  <2>1. confirmed[c] \in Seq(Confirmation) /\ toStop \subseteq Listed
    BY ToSetElements DEF ProgramTypes, toStop
  <2>2. \A p \in toStop : Subscribed(confirmed[c], p)
    BY <1>7, <2>1, WasSubscribed DEF FollowedBy, toStop
  <2> QED
    BY <1>1, <1>6, <2>1, <2>2
<1>8. ToSet(endpointsToUnsubscribe'[c]) = {}
  BY <1>1, ToSetEmpty
<1> QED
  BY <1>1, <1>6, <1>7, <1>8 DEF FollowedBy

\* Every step preserves what a program does with its confirmations.
LEMMA FollowedStep ==
    ASSUME ServerTypes, MessageTypes, ProgramTypes, HandlerTypes, Followed, [Next]_vars
    PROVE  Followed'
<1> USE DEF mainLoop, endpoints, threads
<1>1. ASSUME NEW d \in Programs,
             confirmed'[d] = confirmed[d], running'[d] = running[d],
             endpointsToSubscribe'[d] = endpointsToSubscribe[d],
             endpointsToUnsubscribe'[d] = endpointsToUnsubscribe[d],
             endpointToHandler'[d] = endpointToHandler[d]
      PROVE  FollowedBy(d)'
  BY <1>1 DEF Followed, FollowedBy
<1>2. CASE UNCHANGED programs
  BY <1>1, <1>2 DEF programs, Followed
<1>3. ASSUME NEW c \in Programs, SendNext(c) \/ ListenerExits(c)
      PROVE  Followed'
  <2>1. UNCHANGED <<confirmed, running, endpoints, endpointToHandler>>
    BY <1>3 DEF SendNext, ListenerExits
  <2> QED
    BY <1>1, <2>1 DEF Followed
<1>4. ASSUME NEW c \in Programs, ReceiveReply(c)
      PROVE  Followed'
  <2>1. FollowedBy(c)'
    BY <1>4, ReceivedIsFollowed DEF Followed
  <2>2. ASSUME NEW d \in Programs, d # c
        PROVE  FollowedBy(d)'
    <3>1. /\ confirmed'[d] = confirmed[d]
          /\ endpointsToSubscribe'[d] = endpointsToSubscribe[d]
          /\ endpointsToUnsubscribe'[d] = endpointsToUnsubscribe[d]
      BY <1>4, <2>2 DEF ReceiveReply, ProgramTypes
    <3>2. UNCHANGED <<running, endpointToHandler>>
      BY <1>4 DEF ReceiveReply
    <3> QED
      BY <1>1, <3>1, <3>2
  <2> QED
    BY <2>1, <2>2 DEF Followed
<1>5. ASSUME NEW c \in Programs, HandleEndpoints(c)
      PROVE  Followed'
  <2>1. FollowedBy(c)'
    BY <1>5, HandledIsFollowed DEF Followed
  <2>2. ASSUME NEW d \in Programs, d # c
        PROVE  FollowedBy(d)'
    <3>1. /\ UNCHANGED confirmed
          /\ endpointsToSubscribe'[d] = endpointsToSubscribe[d]
          /\ endpointsToUnsubscribe'[d] = endpointsToUnsubscribe[d]
          /\ endpointToHandler'[d] = endpointToHandler[d]
          /\ running'[d] = running[d]
      BY <1>5, <2>2 DEF HandleEndpoints, ProgramTypes, HandlerTypes
    <3> QED
      BY <1>1, <3>1
  <2> QED
    BY <2>1, <2>2 DEF Followed
<1> QED
  BY <1>2, <1>3, <1>4, <1>5, ProgramSteps

-----------------------------------------------------------------------------
(***************************************************************************)
(* The theorems.                                                           *)
(***************************************************************************)

\* The invariant holds at the start.
LEMMA SessionInit ==
    ASSUME Init
    PROVE  SessionInv
<1>1. ServerTypes
  <2>1. 0 \in 0 .. MaxRestarts
    BY SessionAssumption
  <2>2. /\ up = TRUE /\ servicePc = "recv" /\ m_registeredClientIds = {} /\ products = {}
        /\ listed = FALSE /\ issued = 0 /\ restarts = 0
    BY DEF Init
  <2> QED
    BY <2>1, <2>2 DEF ServerTypes
<1>2. MessageTypes
  <2>1. \A c \in Everyone : reply[c] = NoMessage
    BY DEF Init, Everyone
  <2>2. \A c \in Everyone : ReplyOK(reply[c], issued)
    BY <2>1, ReplyNothing
  <2>3. DOMAIN request = Everyone /\ DOMAIN reply = Everyone
    BY DEF Init, Everyone
  <2> QED
    BY <2>2, <2>3 DEF MessageTypes
<1>3. <<>> \in Seq(Listed) /\ <<>> \in Seq(Confirmation) /\ <<>> \in Seq(ListenerThread)
  OBVIOUS
<1>4. ProgramTypes
  BY <1>3 DEF Init, ProgramTypes
<1>5. HandlerTypes
  <2>1. DOMAIN <<>> = {}
    OBVIOUS
  <2>2. HandlersOf(<<>>, <<>>)
    BY <2>1 DEF HandlersOf
  <2> QED
    BY <1>3, <2>2 DEF Init, HandlerTypes
<1>6. IdsStored
  <2>1. StoredIds
    BY DEF Init, StoredIds
  <2>2. ASSUME NEW c \in Programs
        PROVE  IdOf(c)
    <3>1. request[c].type = "client_id_request" /\ reply[c].type = "none" /\ mainPc[c] = "recv"
      BY DEF Init, Request, NoMessage
    <3> QED
      BY <3>1 DEF IdOf, HasId, Signed
  <2> QED
    BY <2>1, <2>2 DEF IdsStored
<1>7. Followed
  <2>1. ASSUME NEW c \in Programs
        PROVE  FollowedBy(c)
    <3>1. confirmed[c] = <<>> /\ endpointsToUnsubscribe[c] = <<>> /\ running[c]
      BY DEF Init
    <3>2. \A p : ~Subscribed(<<>>, p)
      BY DEF Subscribed
    <3> QED
      BY <3>1, <3>2, ToSetEmpty DEF FollowedBy
  <2> QED
    BY <2>1 DEF Followed
<1> QED
  BY <1>1, <1>2, <1>4, <1>5, <1>6, <1>7 DEF SessionInv

\* Every step preserves the invariant.
LEMMA SessionStep ==
    ASSUME SessionInv, [Next]_vars
    PROVE  SessionInv'
BY ServerTypesStep, MessageTypesStep, ProgramTypesStep, HandlerTypesStep, IdsStoredStep,
   FollowedStep DEF SessionInv

\* The invariant holds in every state.
THEOREM SessionInvariant == Spec => []SessionInv
<1>1. Init => SessionInv
  BY SessionInit
<1>2. SessionInv /\ [Next]_vars => SessionInv'
  BY SessionStep
<1> QED
  BY <1>1, <1>2, PTL DEF Spec

\* The state of ClientService and of the programs keeps its types, for any
\* number of programs, other clients, products and restarts: every flag a program
\* keeps is one of a listener of that endpoint.
THEOREM SessionTypesCorrect == Spec => []TypeOK
<1>1. SessionInv => TypeOK
  <2> SUFFICES ASSUME SessionInv
               PROVE  TypeOK
    OBVIOUS
  <2>1. ASSUME NEW c \in Programs
        PROVE  /\ endpointsToSubscribe[c] \in Seq(Listed)
               /\ endpointsToUnsubscribe[c] \in Seq(Listed)
               /\ DOMAIN endpointToHandler[c] \subseteq Listed
               /\ \A e \in DOMAIN endpointToHandler[c] :
                    listeners[c][endpointToHandler[c][e]].endpoint = e
    BY DEF SessionInv, ProgramTypes, HandlerTypes, HandlersOf
  <2> QED
    BY <2>1 DEF SessionInv, ServerTypes, MessageTypes, ProgramTypes, Everyone, Confirmation,
                TypeOK
<1> QED
  BY <1>1, SessionInvariant, PTL

\* Although runImpl sends an id before it stores it, no program is told that its
\* id is unknown unless the server was restarted: the service takes no request
\* in between, and a program has an id before it signs with one.
THEOREM IdsStayKnown == Spec => []IdsKnown
<1>1. SessionInv => IdsKnown
  <2> SUFFICES ASSUME SessionInv, NEW c \in Programs, reply[c] = Error("UnknownClientId")
               PROVE  restarts > 0
    BY DEF IdsKnown
  <2>1. reply[c].type = "error" /\ reply[c].error = "UnknownClientId"
    BY DEF Error
  <2>2. restarts # 0
    BY <2>1 DEF SessionInv, IdsStored, IdOf
  <2> QED
    BY <2>2 DEF SessionInv, ServerTypes
<1> QED
  BY <1>1, SessionInvariant, PTL

\* hendleNewEndpoints never dereferences the null pointer of an endpoint that has
\* no flag, however confirmations are batched, unless the program was confirmed
\* an unsubscription from a product whose subscription was refused.
THEOREM FlagsAreKept == Spec => []FlagsExist
<1>1. SessionInv => FlagsExist
  BY DEF SessionInv, Followed, FollowedBy, FlagsExist
<1> QED
  BY <1>1, SessionInvariant, PTL
=============================================================================
