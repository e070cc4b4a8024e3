------------------------------ MODULE OrderTerms ------------------------------
(***************************************************************************)
(* One order, from what the client asks for to what the client is told:    *)
(* the Encoder writes its terms in the words of the exchange, the tables   *)
(* of map.cpp and map_error in utils.cpp read the exchange's words back.   *)
(*                                                                         *)
(* There are two ways back.  DropCopy passes on every change of the order, *)
(* in order.  OrderEntryREST publishes the answers to amend and cancel     *)
(* requests as order updates as well, with "the last known (?) status of   *)
(* the order" (order_entry_rest.cpp:965); OrderEntryWS does not.  Nothing  *)
(* orders the two.                                                         *)
(*                                                                         *)
(* OrderRequests has the connections and what fails on them; here they     *)
(* stay up.  An empty string stands for a word the exchange's message does *)
(* not have, NaN for such a number.  Numbers are whole: the Encoder writes *)
(* quantity and price with the decimals of the reference data, and that a  *)
(* number which has no more comes out as it went in is taken for granted.  *)
(***************************************************************************)
EXTENDS Integers, Sequences

CONSTANTS
    CreateOrders,   \* what a client may ask for,
    ModifyOrders,   \* and how to modify it
    ReturnCodes,    \* the codes with which the exchange may refuse
    MaxRequests     \* bound on the requests

NaN == -1

(* The enumerations of the API (roq). *)
Sides == {"UNDEFINED", "BUY", "SELL"}
OrderTypes == {"UNDEFINED", "MARKET", "LIMIT"}
TimesInForce == {"UNDEFINED", "GFD", "GTC", "OPG", "IOC", "FOK", "GTX", "GTD", "AT_THE_CLOSE",
    "GOOD_THROUGH_CROSSING", "AT_CROSSING", "GOOD_FOR_TIME", "GFA", "GFM"}
Instructions == {"PARTICIPATE_DO_NOT_INITIATE", "DO_NOT_INCREASE"}

ASSUME RequestsAssumption ==
    /\ CreateOrders \subseteq [side: Sides, order_type: OrderTypes, time_in_force: TimesInForce,
                               execution_instructions: SUBSET Instructions,
                               quantity: Nat \ {0}, price: Nat \cup {NaN}]
    /\ ModifyOrders \subseteq [quantity: (Nat \ {0}) \cup {NaN}, price: Nat \cup {NaN}]
    /\ MaxRequests \in Nat

VARIABLES
    transport,     \* "ws" with settings.ws_api, else "rest"
    \* the client and the OMS
    asked,         \* the CreateOrder
    requests,      \* the number of requests
    refused,       \* the creation was refused
    known,         \* external_order_id is known
    response,      \* the last: [request_status, error], and the exchange's reason
    shown,         \* the order, as its updates tell
    \* on their way
    sent,          \* requests
    acks,          \* answers to them
    updates,       \* changes of the order, to DropCopy
    \* the exchange
    order,
    \* history
    agreed,        \* the terms of the requests the exchange has executed
    shownAt,       \* the newest change of the order that was published
    overtaken      \* what was published last is older than that

oms == <<asked, requests>>
told == <<refused, known, response, shown, shownAt, overtaken>>
vars == <<transport, oms, told, sent, acks, updates, order, agreed>>

-----------------------------------------------------------------------------
(* map.cpp: the exchange's words for the API's *)

ToSide(side) == CASE side = "BUY" -> "Buy" [] side = "SELL" -> "Sell" [] OTHER -> ""

ToOrderType(type) == CASE type = "MARKET" -> "Market" [] type = "LIMIT" -> "Limit" [] OTHER -> ""

ToTimeInForce(tif, instructions) ==
    CASE tif = "GTC" /\ "PARTICIPATE_DO_NOT_INITIATE" \in instructions -> "PostOnly"
      [] tif \in {"IOC", "FOK"} \/ (tif = "GTC" /\ "PARTICIPATE_DO_NOT_INITIATE" \notin instructions) -> tif
      [] OTHER -> ""

(* and the API's for the exchange's *)

FromSide(side) == CASE side = "Buy" -> "BUY" [] side = "Sell" -> "SELL" [] OTHER -> "UNDEFINED"

FromOrderType(type) ==
    CASE type = "Market" -> "MARKET"
      [] type \in {"Limit", "Block trade-Limit"} -> "LIMIT"
      [] OTHER -> "UNDEFINED"

FromTimeInForce(tif) ==
    CASE tif \in {"GTC", "PostOnly"} -> "GTC"
      [] tif \in {"IOC", "FOK"} -> tif
      [] OTHER -> "UNDEFINED"

\* Mutant: an order that was filled in part and canceled is taken for a working one.
FromOrderStatusPartsWork(status) ==
    CASE status \in {"Created", "New", "PartiallyFilled", "PartiallyFilledCanceled"} -> "WORKING"
      [] status = "Cancelled" -> "CANCELED"
      [] status = "Filled" -> "COMPLETED"
      [] status = "Rejected" -> "REJECTED"
      [] OTHER -> "UNDEFINED"

\* Untriggered, Triggered, Deactivated and Active are not told apart from an unknown
\* word; they are those of conditional orders, which the gateway does not place.
FromOrderStatus(status) ==
    CASE status \in {"Created", "New", "PartiallyFilled"} -> "WORKING"
      [] status \in {"Cancelled", "PartiallyFilledCanceled"} -> "CANCELED"
      [] status = "Filled" -> "COMPLETED"
      [] status = "Rejected" -> "REJECTED"
      [] OTHER -> "UNDEFINED"

-----------------------------------------------------------------------------
(* utils.cpp: map_error, as pairs of ret_code and Error *)

GeneralErrors ==
    ({10001} \X {"INVALID_REQUEST_ARGS"}) \cup ({110001} \X {"TOO_LATE_TO_MODIFY_OR_CANCEL"})

RequestErrors ==
    UNION {{12800, 12801, 12806, 12814, 12823, 12824} \X {"INVALID_REQUEST_ARGS"},
           {12809, 12810, 12815, 12014} \X {"INVALID_SYMBOL"},
           {12813} \X {"INVALID_EXCHANGE"}, {12816} \X {"TIMEOUT"},
           {12819, 12820} \X {"INVALID_REQUEST_ID"}}

OrderErrors ==
    UNION {{12130} \X {"INVALID_REQUEST_ARGS"}, {12121, 12221} \X {"INVALID_SYMBOL"},
           {12124, 12131} \X {"INSUFFICIENT_FUNDS"}, {12115} \X {"INVALID_TIME_IN_FORCE"},
           {12116} \X {"INVALID_ORDER_TYPE"}, {12117} \X {"INVALID_SIDE"},
           {12132, 12133, 12134, 12138, 12192, 12193, 12194, 12203, 12204} \X {"INVALID_PRICE"},
           {12135, 12136, 12137, 12148, 12156, 12197, 12198, 12199, 12200, 12228, 12229}
               \X {"INVALID_QUANTITY"},
           {12139, 12142, 12144, 12145} \X {"TOO_LATE_TO_MODIFY_OR_CANCEL"},
           {12141} \X {"INVALID_REQUEST_ID"}, {12143} \X {"UNKNOWN_ORDER_ID"}}

TokenErrors ==
    UNION {{12403, 12406} \X {"INSUFFICIENT_FUNDS"}, {12407} \X {"UNKNOWN_ORDER_ID"},
           {12416} \X {"INVALID_REQUEST_ARGS"}}

NamedErrors == UNION {GeneralErrors, RequestErrors, OrderErrors, TokenErrors}

\* Mutant: a code that has no case is no error.
MapErrorNoDefault(code) ==
    IF \E e \in NamedErrors : e[1] = code
    THEN (CHOOSE e \in NamedErrors : e[1] = code)[2] ELSE "UNDEFINED"

MapError(code) ==
    IF code = 0 THEN "UNDEFINED"
    ELSE IF \E e \in NamedErrors : e[1] = code
    THEN (CHOOSE e \in NamedErrors : e[1] = code)[2] ELSE "UNKNOWN"

RequestStatus(code) == IF code = 0 THEN "ACCEPTED" ELSE "REJECTED"

-----------------------------------------------------------------------------
(* Encoder: the terms of a request, without the envelope *)

PlaceOrder(create) ==
    [side |-> ToSide(create.side), orderType |-> ToOrderType(create.order_type),
     qty |-> create.quantity, price |-> create.price,
     timeInForce |-> ToTimeInForce(create.time_in_force, create.execution_instructions),
     reduceOnly |-> "DO_NOT_INCREASE" \in create.execution_instructions]

\* orderId if it is known, else orderLinkId with the id of the previous request.
ExternalId == 0
Name == IF known THEN ExternalId ELSE requests

\* Mutant: with a new price the quantity is left out.
AmendOrderEither(modify) ==
    [qty |-> IF modify.price = NaN THEN modify.quantity ELSE NaN, price |-> modify.price, order |-> Name]

AmendOrder(modify) == [qty |-> modify.quantity, price |-> modify.price, order |-> Name]

CancelOrder == [order |-> Name]

\* The encoders of the websocket write the same terms.
PlaceOrderWs(create) == PlaceOrder(create)
AmendOrderWs(modify) == AmendOrder(modify)
CancelOrderWs == CancelOrder

-----------------------------------------------------------------------------
(* What the client is told *)

Nothing == [side |-> "UNDEFINED", order_type |-> "UNDEFINED", time_in_force |-> "UNDEFINED",
            order_status |-> "UNDEFINED", quantity |-> NaN, price |-> NaN, traded |-> NaN]
Words == {"side", "order_type", "time_in_force", "order_status"}

\* The OMS keeps what an update does not tell.
Merge(old, update) ==
    [f \in DOMAIN old |->
        IF f \in Words THEN IF update[f] = "UNDEFINED" THEN old[f] ELSE update[f]
        ELSE IF update[f] = NaN THEN old[f] ELSE update[f]]

\* The order update made of an item of DropCopy, or of the result of an answer.
OrderUpdate(item) ==
    [side |-> FromSide(item.side), order_type |-> FromOrderType(item.orderType),
     time_in_force |-> FromTimeInForce(item.timeInForce),
     order_status |-> FromOrderStatus(item.orderStatus),
     quantity |-> item.qty, price |-> item.price, traded |-> item.cumExecQty]

\* An order the exchange does not have, and the result of an answer without one.
Bare == [side |-> "", orderType |-> "", timeInForce |-> "", reduceOnly |-> FALSE,
         qty |-> NaN, price |-> NaN, orderStatus |-> "", cumExecQty |-> NaN, changes |-> 0]

Final == {"CANCELED", "COMPLETED", "REJECTED"}

Init ==
    /\ transport \in {"rest", "ws"} /\ asked \in CreateOrders /\ requests = 0
    /\ refused = FALSE /\ known = FALSE /\ shown = Nothing
    /\ response = [request_status |-> "UNDEFINED", error |-> "UNDEFINED", reason |-> "none"]
    /\ sent = <<>> /\ acks = <<>> /\ updates = <<>>
    /\ order = Bare
    /\ agreed = asked /\ shownAt = 0 /\ overtaken = FALSE

-----------------------------------------------------------------------------
(* Requests.  (The limit is a bound of the model.) *)

Send(op, terms, meant) ==
    /\ requests < MaxRequests
    /\ requests' = requests + 1
    /\ sent' = Append(sent, [op |-> op, terms |-> terms, meant |-> meant])
    /\ UNCHANGED <<transport, asked, told, acks, updates, order, agreed>>

NewOrder ==
    /\ requests = 0
    /\ Send("create", IF transport = "ws" THEN PlaceOrderWs(asked) ELSE PlaceOrder(asked), asked)

\* The OMS passes on nothing for an order that was refused or is over.
Alive == requests > 0 /\ ~refused /\ shown.order_status \notin Final

ModifyOrder(modify) ==
    /\ Alive
    /\ Send("amend", IF transport = "ws" THEN AmendOrderWs(modify) ELSE AmendOrder(modify), modify)

Cancel ==
    /\ Alive
    /\ Send("cancel", IF transport = "ws" THEN CancelOrderWs ELSE CancelOrder, asked)

-----------------------------------------------------------------------------
(* The exchange *)

Open == order.orderStatus \in {"New", "PartiallyFilled"}

\* A change of the order: DropCopy is told of it.
Change(new) ==
    /\ order' = [new EXCEPT !.changes = order.changes + 1]
    /\ updates' = Append(updates, order')

\* The answer to the first request.  The result has the order, as it is now, or nothing.
Answer(code, reason) ==
    \E result \in IF code = 0 THEN {Bare, order'} ELSE {Bare} :
        acks' = Append(acks, [op |-> Head(sent).op, ret_code |-> code, reason |-> reason,
                              result |-> result])

Handle(op) == sent # <<>> /\ Head(sent).op = op /\ sent' = Tail(sent)
Terms == Head(sent).terms

\* What the exchange finds wrong with a new order.
Wrong(terms) ==
    (IF terms.side = "" THEN {"side"} ELSE {})
        \cup (IF terms.orderType = "" THEN {"type"} ELSE {})
        \cup (IF terms.orderType = "Limit" /\ terms.price = NaN THEN {"price"} ELSE {})

\* A market order is IOC, and GTC is the default.
TimeInForceOf(terms) ==
    IF terms.orderType = "Market" THEN "IOC"
    ELSE IF terms.timeInForce = "" THEN "GTC" ELSE terms.timeInForce

ExchangeCreates ==
    /\ Handle("create") /\ Wrong(Terms) = {}
    /\ Change([Bare EXCEPT !.side = Terms.side, !.orderType = Terms.orderType,
                           !.timeInForce = TimeInForceOf(Terms), !.reduceOnly = Terms.reduceOnly,
                           !.qty = Terms.qty, !.price = Terms.price,
                           !.orderStatus = "New", !.cumExecQty = 0])
    /\ Answer(0, "none")
    /\ UNCHANGED <<transport, oms, told, agreed>>

\* An order is found by its own id, or by that of its creation.
Exists == order.orderStatus # ""
Found == Exists /\ Terms.order \in {ExternalId, 1}

Given(new, old) == IF new = NaN THEN old ELSE new

ExchangeAmends ==
    /\ Handle("amend") /\ Found /\ Open
    /\ Given(Terms.qty, order.qty) > order.cumExecQty
    /\ Change([order EXCEPT !.qty = Given(Terms.qty, @), !.price = Given(Terms.price, @)])
    /\ Answer(0, "none")
    /\ agreed' = LET meant == Head(sent).meant IN
                 [agreed EXCEPT !.quantity = Given(meant.quantity, @), !.price = Given(meant.price, @)]
    /\ UNCHANGED <<transport, oms, told>>

Cancelled == IF order.cumExecQty = 0 THEN "Cancelled" ELSE "PartiallyFilledCanceled"

ExchangeCancels ==
    /\ Handle("cancel") /\ Found /\ Open
    /\ Change([order EXCEPT !.orderStatus = Cancelled])
    /\ Answer(0, "none")
    /\ UNCHANGED <<transport, oms, told, agreed>>

\* Why the exchange may refuse the first request, and what it then says.
Reasons ==
    IF Head(sent).op = "create" THEN Wrong(Terms) \cup {"funds", "busy"}
    ELSE IF ~Found THEN {"not found"}
    ELSE IF ~Open THEN {"over"}
    ELSE IF Head(sent).op = "amend" THEN {"quantity", "busy"} ELSE {"busy"}

\* The codes with that reason, by what the comments of map_error say of them.  The table
\* has no error for some: 12218 (price), 12140 (quantity), 12213 (not found), 12190 (over).
Codes(reason) ==
    CASE reason = "side" -> {12117} [] reason = "type" -> {12116}
      [] reason = "price" -> {12132, 12133, 12134, 12138, 12192, 12193, 12194, 12218}
      [] reason = "funds" -> {12124, 12131}
      [] reason = "quantity" -> {12135, 12136, 12137, 12140, 12148, 12156, 12197, 12198, 12199,
                                 12200, 12228, 12229}
      [] reason = "busy" -> {10006, 12005, 12016, 12114, 12222, 12999}
      [] reason = "not found" -> {110001, 12143, 12213}
      [] reason = "over" -> {110001, 12139, 12142, 12144, 12145, 12190}

ExchangeRefuses ==
    /\ sent # <<>> /\ sent' = Tail(sent)
    /\ \E reason \in Reasons : \E code \in Codes(reason) \cap ReturnCodes :
         acks' = Append(acks, [op |-> Head(sent).op, ret_code |-> code, reason |-> reason, result |-> Bare])
    /\ UNCHANGED <<transport, oms, told, updates, order, agreed>>

\* On its own: the order is filled, or rejected or canceled after all.
ExchangeFills ==
    /\ Open
    /\ \E executed \in order.cumExecQty + 1 .. order.qty :
         Change([order EXCEPT !.cumExecQty = executed,
                     !.orderStatus = IF executed = order.qty THEN "Filled" ELSE "PartiallyFilled"])
    /\ UNCHANGED <<transport, oms, told, sent, acks, agreed>>

ExchangeEnds ==
    /\ Open
    /\ \E status \in {Cancelled} \cup (IF order.cumExecQty = 0 THEN {"Rejected"} ELSE {}) :
         Change([order EXCEPT !.orderStatus = status])
    /\ UNCHANGED <<transport, oms, told, sent, acks, agreed>>

-----------------------------------------------------------------------------
(* Answers.  Those of the websocket are not told unless the request was refused. *)

Respond(ack) ==
    /\ response' = [request_status |-> RequestStatus(ack.ret_code), error |-> MapError(ack.ret_code),
                    reason |-> ack.reason]
    /\ refused' = (refused \/ (ack.op = "create" /\ ack.ret_code # 0))

TakeAck(op) == acks # <<>> /\ Head(acks).op = op /\ acks' = Tail(acks)

\* The result, if it has the order, is published whatever was published before.
PublishResult(result) ==
    /\ shown' = Merge(shown, OrderUpdate(result))
    /\ IF result = Bare THEN UNCHANGED <<shownAt, overtaken>>
       ELSE /\ overtaken' = (result.changes < shownAt)
            /\ shownAt' = IF result.changes < shownAt THEN shownAt ELSE result.changes

\* An accepted request tells the id of the order.
Learn(ack) == known' = (known \/ ack.ret_code = 0)

PlaceOrderAck ==
    /\ transport = "rest" /\ TakeAck("create")
    /\ Respond(Head(acks)) /\ Learn(Head(acks))
    /\ UNCHANGED <<transport, oms, shown, shownAt, overtaken, sent, updates, order, agreed>>

AmendOrderAck ==
    /\ transport = "rest" /\ TakeAck("amend")
    /\ Respond(Head(acks)) /\ Learn(Head(acks)) /\ PublishResult(Head(acks).result)
    /\ UNCHANGED <<transport, oms, sent, updates, order, agreed>>

CancelOrderAck ==
    /\ transport = "rest" /\ TakeAck("cancel")
    /\ Respond(Head(acks)) /\ Learn(Head(acks)) /\ PublishResult(Head(acks).result)
    /\ UNCHANGED <<transport, oms, sent, updates, order, agreed>>

RespondIfRejected(ack) == IF ack.ret_code # 0 THEN Respond(ack) ELSE UNCHANGED <<response, refused>>

PlaceOrder2 ==
    /\ transport = "ws" /\ TakeAck("create")
    /\ RespondIfRejected(Head(acks))
    /\ UNCHANGED <<transport, oms, known, shown, shownAt, overtaken, sent, updates, order, agreed>>

\* Mutant: the result is published, like that of the REST answer.
AmendOrder2Publishes ==
    /\ transport = "ws" /\ TakeAck("amend")
    /\ RespondIfRejected(Head(acks)) /\ PublishResult(Head(acks).result)
    /\ UNCHANGED <<transport, oms, known, sent, updates, order, agreed>>

AmendOrder2 ==
    /\ transport = "ws" /\ TakeAck("amend")
    /\ RespondIfRejected(Head(acks))
    /\ UNCHANGED <<transport, oms, known, shown, shownAt, overtaken, sent, updates, order, agreed>>

CancelOrder2 ==
    /\ transport = "ws" /\ TakeAck("cancel")
    /\ RespondIfRejected(Head(acks))
    /\ UNCHANGED <<transport, oms, known, shown, shownAt, overtaken, sent, updates, order, agreed>>

\* DropCopy passes on a change.  It may be older than an answer was.
DropCopyOrder ==
    /\ updates # <<>> /\ updates' = Tail(updates)
    /\ shown' = Merge(shown, OrderUpdate(Head(updates))) /\ known' = TRUE
    /\ overtaken' = (Head(updates).changes < shownAt)
    /\ shownAt' = IF overtaken' THEN shownAt ELSE Head(updates).changes
    /\ UNCHANGED <<transport, oms, refused, response, sent, acks, order, agreed>>

-----------------------------------------------------------------------------
ClientNext == NewOrder \/ Cancel \/ \E modify \in ModifyOrders : ModifyOrder(modify)

ExchangeNext ==
    \/ ExchangeCreates \/ ExchangeAmends \/ ExchangeCancels \/ ExchangeRefuses
    \/ ExchangeFills \/ ExchangeEnds

GatewayNext ==
    \/ PlaceOrderAck \/ AmendOrderAck \/ CancelOrderAck
    \/ PlaceOrder2 \/ AmendOrder2 \/ CancelOrder2
    \/ DropCopyOrder

Next == ClientNext \/ ExchangeNext \/ GatewayNext

Spec == Init /\ [][Next]_vars
-----------------------------------------------------------------------------
(* Properties *)

\* The time in force that a limit order was asked to have.  (What the exchange has no
\* word for is sent as none, order_entry_rest.cpp:788, and becomes its default, GTC.)
Means(create) ==
    IF create.order_type # "LIMIT" \/ create.time_in_force \notin {"GTC", "IOC", "FOK"}
    THEN {order.timeInForce}
    ELSE IF create.time_in_force = "GTC" /\ "PARTICIPATE_DO_NOT_INITIATE" \in create.execution_instructions
         THEN {"PostOnly"} ELSE {create.time_in_force}

\* The order at the exchange is the one that was agreed upon: as it was asked for, with
\* what the executed requests changed and nothing else, over either transport, in
\* whatever order requests, fills and answers happen (encoder.cpp:20, 63, 151, 200).
AgreedTerms ==
    Exists =>
        /\ agreed.side = FromSide(order.side) /\ agreed.order_type = FromOrderType(order.orderType)
        /\ order.qty = agreed.quantity /\ order.price = agreed.price
        /\ order.reduceOnly <=> "DO_NOT_INCREASE" \in agreed.execution_instructions
        /\ order.timeInForce \in Means(agreed)

\* What is shown once everything was delivered.
Told == Exists /\ updates = <<>> /\ acks = <<>>

\* In the end the client is shown the order as it is -- its terms, what was traded, and
\* whether it is working, completed, canceled or rejected -- unless an answer with the
\* "last known (?) status" (order_entry_rest.cpp:965) was overtaken by DropCopy, which
\* nothing corrects.
ShownAsItIs ==
    Told /\ ~(overtaken /\ transport = "rest") =>
        /\ shown.side = agreed.side /\ shown.order_type = agreed.order_type
        /\ shown.quantity = agreed.quantity /\ shown.price = agreed.price
        /\ shown.traded = order.cumExecQty
        /\ shown.time_in_force = "GTC" <=> order.timeInForce \in {"GTC", "PostOnly"}
        /\ shown.order_status = "WORKING" <=> Open
        /\ shown.order_status = "COMPLETED" <=> order.cumExecQty = order.qty
        /\ shown.order_status = "REJECTED" <=> order.orderStatus = "Rejected"

\* An order that is over does not come back to life in the client's eyes, nor are its
\* fills taken back; over REST only when an answer and an update overtake each other.
OverIsOver ==
    [][shown.order_status \in Final /\ ~(overtaken' /\ transport = "rest") =>
        shown'.order_status = shown.order_status /\ shown'.traded = shown.traded]_vars

Why == [side |-> "INVALID_SIDE", type |-> "INVALID_ORDER_TYPE", price |-> "INVALID_PRICE",
        quantity |-> "INVALID_QUANTITY", funds |-> "INSUFFICIENT_FUNDS"]

\* A response gives no wrong reason: an error exactly if it was rejected, and if that
\* error is not UNKNOWN it is the one that stands for the exchange's reason.  UNKNOWN is
\* said of any reason, for the table has no error for some codes of most (utils.cpp:161,
\* 194, 237, 241).  "Too late" is for an order that is over, but also for one that the
\* exchange does not find (:38) and that may be open: it was named by the wrong id.
NoWrongReason ==
    /\ response.request_status = "REJECTED" <=> response.error # "UNDEFINED"
    /\ response.error = "TOO_LATE_TO_MODIFY_OR_CANCEL" => response.reason \in {"over", "not found"}
    /\ response.reason = "over" => response.error \in {"TOO_LATE_TO_MODIFY_OR_CANCEL", "UNKNOWN"}
    /\ \A reason \in DOMAIN Why :
         /\ response.error = Why[reason] => response.reason = reason
         /\ response.reason = reason => response.error \in {Why[reason], "UNKNOWN"}
=============================================================================
