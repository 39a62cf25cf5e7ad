---------------------------- MODULE TradeMessages ----------------------------
(***************************************************************************)
(* What becomes of a feed message that tells of a trade: the Trade that    *)
(* MessageToTrade makes of it and the message that Trade generates.        *)
(*                                                                         *)
(* A feed message has a type, a product, a number by which we tell         *)
(* messages apart, and the set of its numeric fields.                      *)
(***************************************************************************)
EXTENDS Naturals

Fields == {"size", "price", "founds"}

\* isTradeMsg.
IsTradeMsg(message) == message.type \in {"activate", "received", "match"}

\* The fields that MessageToTrade::getTrade reads without asking whether the
\* message has them.  nlohmann's operator[] only asserts that they are there; in
\* the Release build of the Dockerfile a missing one is an undefined read.
Needed(type) ==
    CASE type = "activate" -> Fields
      [] type = "received" -> {}
      [] type = "match"    -> {"size", "price"}

Readable(message) == Needed(message.type) \subseteq message.fields

\* The fields TradeReceive::generateMessage sets; founds is set when there is a
\* price.
ReceiveSets(fields) ==
    (fields \cap {"size", "price"}) \cup (IF "price" \in fields THEN {"founds"} ELSE {})

\* Faulty Values: the price is set from m_founds.
ValuesOfFounds(message, sets) ==
    [f \in sets |-> IF f \in message.fields /\ f # "price" THEN "given"
                    ELSE IF f \in Needed(message.type) THEN "undefined"
                    ELSE IF "founds" \in message.fields THEN "given"
                    ELSE "indeterminate"]

\* The values of the fields set: a field that the message does not have is read
\* from an empty optional or, when getTrade needs it, was read past the end.
Values(message, sets) ==
    [f \in sets |-> IF f \in message.fields THEN "given"
                    ELSE IF f \in Needed(message.type) THEN "undefined"
                    ELSE "indeterminate"]

\* generateMessage of TradeActivate, TradeReceive and TradeMatch.
GenerateMessage(message) ==
    [type    |-> IF message.type = "match" THEN "MATCH" ELSE "ACTIVATE",
     product |-> message.product,
     number  |-> message.number,
     values  |-> Values(message,
                        CASE message.type = "activate" -> Fields
                          [] message.type = "received" -> ReceiveSets(message.fields)
                          [] message.type = "match"    -> {"size"})]
=============================================================================
