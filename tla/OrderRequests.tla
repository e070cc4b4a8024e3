---------------------------- MODULE OrderRequests ----------------------------
(***************************************************************************)
(* What becomes of the requests of a client: create, modify and cancel an  *)
(* order, cancel all orders.                                               *)
(*                                                                         *)
(* The Controller sends orders to OrderEntryREST or, with settings.ws_api, *)
(* to OrderEntryWS; cancelling all orders always goes to OrderEntryREST.   *)
(* A stream that is not ready refuses with an exception.  Otherwise the    *)
(* request goes to the exchange, and the stream reports a response to the  *)
(* order management system (OMS) when it is answered: over REST always,    *)
(* over the websocket only if it was rejected, since DropCopy tells the    *)
(* rest.                                                                   *)
(*                                                                         *)
(* The OMS (not part of the repository) numbers the requests of an order   *)
(* 1, 2, ...: request v of order o is <<o, v>>, and so is its request_id.  *)
(* The exchange knows an order by the request_id of its creation and by    *)
(* the id it gave to it, which the OMS learns from acknowledgements and    *)
(* from DropCopy.                                                          *)
(***************************************************************************)
EXTENDS Naturals, FiniteSets

CONSTANTS
    Orders,      \* orders the clients may create
    Symbols,
    SymbolOf,    \* the symbol of each order
    CancelAlls,  \* requests to cancel all orders
    MaxVersion,  \* bound on the requests per order,
    MaxRequests, \* and on those of all orders together
    WsApi,       \* settings.ws_api
    Spot         \* Api::api = SPOT

ASSUME OrdersAssumption == IsFiniteSet(Symbols) /\ SymbolOf \in [Orders -> Symbols]
ASSUME VersionAssumption == MaxVersion \in Nat \ {0} /\ MaxRequests \in Nat
ASSUME FlagsAssumption == WsApi \in BOOLEAN /\ Spot \in BOOLEAN

Versions == 1 .. MaxVersion
Requests == Orders \X Versions
Types == {"CREATE_ORDER", "MODIFY_ORDER", "CANCEL_ORDER"}

\* The order is named by the id the exchange gave to it.
ExternalId == 0

(***************************************************************************)
(* The way of a request, after it was issued:                              *)
(*   refused             the stream threw NotReady or NotSupported         *)
(*   sent                on its way to the exchange                        *)
(*   executed, rejected  the exchange has handled it, the answer is on its *)
(*                       way back                                          *)
(*   answered            a response was reported to the OMS                *)
(*   silent              executed, and the websocket stream says nothing   *)
(*   lost                the websocket went down with it                   *)
(***************************************************************************)
Stages == {"unissued", "refused", "sent", "executed", "rejected", "answered", "silent", "lost"}
InFlight == {"sent", "executed", "rejected"}

(***************************************************************************)
(* What OrderEntryREST::process_response sees:                             *)
(*   success    2xx; the body has the exchange's verdict as ret_code       *)
(*   http       4xx: the exchange did not execute it                       *)
(*   server     5xx, whatever the exchange did                             *)
(*   network    a timeout or a lost connection, whatever the exchange did  *)
(*   exception  thrown before the OMS has the response: a bad body, or the *)
(*              dispatcher, which takes a response or throws; the error    *)
(*              handler then reports instead                               *)
(*   fatal      3xx, or 403 under settings.rest.terminate_on_403           *)
(***************************************************************************)
Outcomes == {"success", "http", "server", "network", "exception", "fatal"}
PossibleOutcomes(st) ==
    CASE st = "sent" -> {"http", "server", "network", "fatal"}
      [] st = "executed" -> {"success", "server", "network", "exception"}
      [] st = "rejected" -> Outcomes

\* RequestStatus of a response.  A 5xx is REJECTED as well, with Error::UNKNOWN and
\* the HTTP status as its text; it is kept apart as REJECTED_BY_SERVER.  ERROR stands
\* for whatever status an exception carries (RequestStatus::ERROR, that of a NetworkError
\* or of a server::oms::Exception): nothing is claimed of it, whichever it is.
Statuses == {"none", "ACCEPTED", "REJECTED", "REJECTED_BY_SERVER", "ERROR"}

VARIABLES
    process,       \* "ended" once log::fatal was called
    restReady,     \* "READY" or not: connection_status_ of OrderEntryREST
    wsLink,        \* OrderEntryWS: "down", or "ready" after the handshake
    wsStatus,      \* its connection_status_
    \* the OMS
    version,       \* the number of requests of each order
    type, target,  \* what each request is, and the id by which it names its order
    external,      \* orders whose external_order_id is known
    \* requests, the exchange and the responses
    stage,
    executed,      \* requests the exchange has carried out
    open,          \* orders open at the exchange
    responses,     \* how many responses each request got
    status,        \* the status of the last
    \* cancel all orders: per request and symbol
    caStage,
    caForwarded,   \* FORWARDED acks
    caAccepted,    \* ACCEPTED acks of each request
    caRejected     \* REJECTED acks of each request

links == <<restReady, wsLink, wsStatus>>
oms == <<version, type, target>>
exchange == <<executed, open>>
reported == <<responses, status>>
cancelAll == <<caStage, caForwarded, caAccepted, caRejected>>
vars == <<process, links, oms, external, stage, exchange, reported, cancelAll>>

Running == process = "running"
CancelAllRequests == CancelAlls \X Symbols

Init ==
    /\ process = "running"
    /\ restReady = "DISCONNECTED" /\ wsLink = "down" /\ wsStatus = "DISCONNECTED"
    /\ version = [o \in Orders |-> 0]
    /\ type = [r \in Requests |-> "none"] /\ target = [r \in Requests |-> ExternalId]
    /\ external = {} /\ stage = [r \in Requests |-> "unissued"]
    /\ executed = {} /\ open = {}
    /\ responses = [r \in Requests |-> 0] /\ status = [r \in Requests |-> "none"]
    /\ caStage = [k \in CancelAllRequests |-> "unissued"]
    /\ caForwarded = [k \in CancelAllRequests |-> 0]
    /\ caAccepted = [c \in CancelAlls |-> 0] /\ caRejected = [c \in CancelAlls |-> 0]

-----------------------------------------------------------------------------
(* Connections.  READY is the end of the account download (AccountSync).     *)

RestBecomesReady ==
    /\ restReady = "DISCONNECTED"
    /\ restReady' = "READY"
    /\ UNCHANGED <<process, wsLink, wsStatus, oms, external, stage, exchange, reported, cancelAll>>

WsReady ==
    /\ WsApi /\ wsLink = "down"
    /\ wsLink' = "ready" /\ wsStatus' = "LOGIN_SENT"
    /\ UNCHANGED <<process, restReady, oms, external, stage, exchange, reported, cancelAll>>

WsAuth2(ok) ==
    /\ wsLink = "ready" /\ wsStatus = "LOGIN_SENT"
    /\ process' = IF ok THEN "running" ELSE "ended"
    /\ wsStatus' = IF ok THEN "READY" ELSE wsStatus
    /\ UNCHANGED <<restReady, wsLink, oms, external, stage, exchange, reported, cancelAll>>

\* What is in flight on the websocket is forgotten.  (If the exchange executes it
\* later, it might as well have done so before: nobody looks in between.)
WsDisconnected ==
    /\ wsLink = "ready"
    /\ wsLink' = "down" /\ wsStatus' = "DISCONNECTED"
    /\ stage' = [r \in Requests |-> IF WsApi /\ stage[r] \in InFlight THEN "lost" ELSE stage[r]]
    /\ UNCHANGED <<process, restReady, oms, external, exchange, reported, cancelAll>>

\* An error message, a binary one, or one that cannot be parsed.
WsError ==
    /\ wsLink = "ready"
    /\ process' = "ended"
    /\ UNCHANGED <<links, oms, external, stage, exchange, reported, cancelAll>>

-----------------------------------------------------------------------------
(* Requests *)

\* OrderEntryWS::ready() asks the connection, not the login.
Ready == IF WsApi THEN wsLink = "ready" ELSE restReady = "READY"

\* Mutant: nothing is checked.
RefusedNever(kind) == FALSE

\* NotSupported comes from OrderEntryREST only.
Refused(kind) == ~Ready \/ (~WsApi /\ Spot /\ kind = "MODIFY_ORDER")

\* Encoder: external_order_id if there is one, else previous_request_id.
EncodedTarget(o, v) == IF o \in external THEN ExternalId ELSE v - 1

\* Mutant: a stream that throws reports a response as well.
IssueAnswersRefusal(o, kind) ==
    LET v == version[o] + 1
        refused == IF Refused(kind) THEN {<<o, v>>} ELSE {}
    IN /\ v \in Versions
       /\ version' = [version EXCEPT ![o] = v]
       /\ type' = [type EXCEPT ![<<o, v>>] = kind]
       /\ target' = [target EXCEPT ![<<o, v>>] =
                       IF kind = "CREATE_ORDER" THEN v ELSE EncodedTarget(o, v)]
       /\ stage' = [stage EXCEPT ![<<o, v>>] = IF Refused(kind) THEN "answered" ELSE "sent"]
       /\ responses' = [r \in Requests |-> responses[r] + IF r \in refused THEN 1 ELSE 0]
       /\ status' = [r \in Requests |-> IF r \in refused THEN "REJECTED" ELSE status[r]]
       /\ UNCHANGED <<process, links, external, exchange, cancelAll>>

\* Controller::get_order_entry, and place_order, amend_order or cancel_order.
Issue(o, kind) ==
    LET v == version[o] + 1 IN
    /\ v \in Versions /\ Cardinality({r \in Requests : stage[r] # "unissued"}) < MaxRequests
    /\ version' = [version EXCEPT ![o] = v]
    /\ type' = [type EXCEPT ![<<o, v>>] = kind]
    /\ target' = [target EXCEPT ![<<o, v>>] =
                    IF kind = "CREATE_ORDER" THEN v ELSE EncodedTarget(o, v)]
    /\ stage' = [stage EXCEPT ![<<o, v>>] = IF Refused(kind) THEN "refused" ELSE "sent"]
    /\ UNCHANGED <<process, links, external, exchange, reported, cancelAll>>

CreateOrder(o) == version[o] = 0 /\ Issue(o, "CREATE_ORDER")

\* The OMS passes on no request for an order whose creation has failed.
Alive(o) ==
    /\ version[o] > 0
    /\ stage[<<o, 1>>] # "refused"
    /\ status[<<o, 1>>] \notin {"REJECTED", "REJECTED_BY_SERVER"}

ModifyOrder(o) == Alive(o) /\ Issue(o, "MODIFY_ORDER")
CancelOrder(o) == Alive(o) /\ Issue(o, "CANCEL_ORDER")

\* get_all_order_symbols, filtered by the symbol of the request if it has one:
\* each is acknowledged as FORWARDED.  Nothing at all is if there is none.
CancelAllOrders(c, filter) ==
    LET symbols == {SymbolOf[o] : o \in {p \in Orders : version[p] > 0}} \cap filter IN
    /\ \A s \in Symbols : caStage[<<c, s>>] = "unissued"
    /\ caStage' = [k \in CancelAllRequests |->
                     IF k[1] # c THEN caStage[k]
                     ELSE IF restReady # "READY" THEN "refused"
                     ELSE IF k[2] \in symbols THEN "sent" ELSE "unissued"]
    /\ caForwarded' = [k \in CancelAllRequests |->
                         IF k[1] = c /\ restReady = "READY" /\ k[2] \in symbols
                         THEN caForwarded[k] + 1 ELSE caForwarded[k]]
    /\ UNCHANGED <<process, links, oms, external, stage, exchange, reported, caAccepted, caRejected>>

-----------------------------------------------------------------------------
(* The exchange *)

Created(o) == <<o, 1>> \in executed

\* It finds the order by its own id, or by the id of the create request.
Resolves(r) == Created(r[1]) /\ target[r] \in {ExternalId, 1}

MayExecute(r) ==
    /\ WsApi => wsStatus = "READY"
    /\ type[r] # "CREATE_ORDER" => Resolves(r) /\ r[1] \in open

ExchangeExecutes(r) ==
    /\ stage[r] = "sent" /\ MayExecute(r)
    /\ stage' = [stage EXCEPT ![r] = "executed"]
    /\ executed' = executed \cup {r}
    /\ open' = CASE type[r] = "CREATE_ORDER" -> open \cup {r[1]}
                 [] type[r] = "CANCEL_ORDER" -> open \ {r[1]}
                 [] OTHER -> open
    /\ UNCHANGED <<process, links, oms, external, reported, cancelAll>>

ExchangeRejects(r) ==
    /\ stage[r] = "sent"
    /\ stage' = [stage EXCEPT ![r] = "rejected"]
    /\ UNCHANGED <<process, links, oms, external, exchange, reported, cancelAll>>

ExchangeHandlesCancelAll(k, ok) ==
    /\ caStage[k] = "sent"
    /\ caStage' = [caStage EXCEPT ![k] = IF ok THEN "executed" ELSE "rejected"]
    /\ open' = IF ok THEN {o \in open : SymbolOf[o] # k[2]} ELSE open
    /\ UNCHANGED <<process, links, oms, external, stage, executed, reported, caForwarded,
                   caAccepted, caRejected>>

\* DropCopy reports an order the exchange has, with both its ids.
DropCopyOrder(o) ==
    /\ Created(o)
    /\ external' = external \cup {o}
    /\ UNCHANGED <<process, links, oms, stage, exchange, reported, cancelAll>>

-----------------------------------------------------------------------------
(* OrderEntryREST: responses *)

\* Mutant: version of the order's last request, as if read when the answer comes.
ReportLastVersion(r, st) ==
    LET last == <<r[1], version[r[1]]>> IN
    /\ responses' = [responses EXCEPT ![last] = @ + 1]
    /\ status' = [status EXCEPT ![last] = st]

\* Mutant: the response carries no version, like those of OrderEntryWS.
ReportNoVersion(r, st) ==
    /\ responses' = [q \in Requests \cup {<<r[1], 0>>} |->
                        IF q \in Requests THEN responses[q] ELSE 1]
    /\ UNCHANGED status

\* The callback has captured order and version of its request.
Report(r, st) ==
    /\ responses' = [responses EXCEPT ![r] = @ + 1]
    /\ status' = [status EXCEPT ![r] = st]

\* Mutant: ret_code is not looked at.
RestStatusNoRetCode(st, outcome) == IF outcome = "success" THEN "ACCEPTED" ELSE "REJECTED"

\* request_status of a response: from ret_code if there is a body.
RestStatus(st, outcome) ==
    CASE outcome = "success" -> IF st = "executed" THEN "ACCEPTED" ELSE "REJECTED"
      [] outcome = "http" -> "REJECTED"
      [] outcome = "server" -> "REJECTED_BY_SERVER"
      [] outcome \in {"network", "exception"} -> "ERROR"

\* The response gives the exchange's id of the order, result.order_id.
NamesOrder(st, outcome) == outcome = "success" /\ st = "executed"

\* place_order_ack, amend_order_ack and cancel_order_ack.
OrderAck(r, outcome) ==
    /\ ~WsApi /\ restReady = "READY"
    /\ stage[r] \in InFlight /\ outcome \in PossibleOutcomes(stage[r])
    /\ IF outcome = "fatal"
       THEN process' = "ended" /\ UNCHANGED <<stage, reported, external>>
       ELSE /\ Report(r, RestStatus(stage[r], outcome))
            /\ stage' = [stage EXCEPT ![r] = "answered"]
            /\ external' = IF NamesOrder(stage[r], outcome)
                           THEN external \cup {r[1]} ELSE external
            /\ UNCHANGED process
    /\ UNCHANGED <<links, oms, exchange, cancelAll>>

\* Mutant: a success is answered, and so is the exception thrown after it.
CancelAllReportTwice(c, st) ==
    /\ caAccepted' = [caAccepted EXCEPT ![c] = IF st = "ACCEPTED" THEN @ + 1 ELSE @]
    /\ caRejected' = [caRejected EXCEPT ![c] = @ + 1]

CancelAllReport(c, st) ==
    IF st = "ACCEPTED"
    THEN caAccepted' = [caAccepted EXCEPT ![c] = @ + 1] /\ UNCHANGED caRejected
    ELSE caRejected' = [caRejected EXCEPT ![c] = @ + 1] /\ UNCHANGED caAccepted

\* cancel_all_orders_ack: a body that can be read is a success, whatever its ret_code.
CancelAllOrdersAck(k, outcome) ==
    /\ restReady = "READY"
    /\ caStage[k] \in InFlight /\ outcome \in PossibleOutcomes(caStage[k])
    /\ IF outcome = "fatal"
       THEN process' = "ended" /\ UNCHANGED <<caStage, caAccepted, caRejected>>
       ELSE /\ CancelAllReport(k[1], IF outcome = "success" THEN "ACCEPTED" ELSE "REJECTED")
            /\ caStage' = [caStage EXCEPT ![k] = "answered"]
            /\ UNCHANGED process
    /\ UNCHANGED <<links, oms, external, stage, exchange, reported, caForwarded>>

\* Every outstanding request fails with a network error, and its handler reports it.
RestDisconnected ==
    LET failed == {r \in Requests : ~WsApi /\ stage[r] \in InFlight}
        caFailed == {k \in CancelAllRequests : caStage[k] \in InFlight}
    IN /\ restReady = "READY"
       /\ restReady' = "DISCONNECTED"
       /\ stage' = [r \in Requests |-> IF r \in failed THEN "answered" ELSE stage[r]]
       /\ responses' = [r \in Requests |-> responses[r] + IF r \in failed THEN 1 ELSE 0]
       /\ status' = [r \in Requests |-> IF r \in failed THEN "ERROR" ELSE status[r]]
       /\ caStage' = [k \in CancelAllRequests |-> IF k \in caFailed THEN "answered" ELSE caStage[k]]
       /\ caRejected' = [c \in CancelAlls |->
                           caRejected[c] + Cardinality({s \in Symbols : <<c, s>> \in caFailed})]
       /\ UNCHANGED <<process, wsLink, wsStatus, oms, external, exchange, caForwarded, caAccepted>>

-----------------------------------------------------------------------------
(* OrderEntryWS: PlaceOrder2, AmendOrder2, CancelOrder2 carry the request_id *)

OrderAck2(r) ==
    /\ WsApi /\ wsLink = "ready" /\ stage[r] \in {"executed", "rejected"}
    /\ IF stage[r] = "rejected"
       THEN Report(r, "REJECTED") /\ stage' = [stage EXCEPT ![r] = "answered"]
       ELSE stage' = [stage EXCEPT ![r] = "silent"] /\ UNCHANGED reported
    /\ UNCHANGED <<process, links, oms, external, exchange, cancelAll>>

-----------------------------------------------------------------------------
ClientNext ==
    \/ \E o \in Orders : CreateOrder(o) \/ ModifyOrder(o) \/ CancelOrder(o)
    \/ \E c \in CancelAlls : \/ CancelAllOrders(c, Symbols)
                             \/ \E s \in Symbols : CancelAllOrders(c, {s})

ExchangeNext ==
    \/ \E r \in Requests : ExchangeExecutes(r) \/ ExchangeRejects(r)
    \/ \E k \in CancelAllRequests, ok \in BOOLEAN : ExchangeHandlesCancelAll(k, ok)
    \/ \E o \in Orders : DropCopyOrder(o)

RestNext ==
    \/ RestBecomesReady \/ RestDisconnected
    \/ \E r \in Requests, outcome \in Outcomes : OrderAck(r, outcome)
    \/ \E k \in CancelAllRequests, outcome \in Outcomes : CancelAllOrdersAck(k, outcome)

WsNext ==
    \/ WsReady \/ WsDisconnected \/ WsError
    \/ \E ok \in BOOLEAN : WsAuth2(ok)
    \/ \E r \in Requests : OrderAck2(r)

Next == Running /\ (ClientNext \/ ExchangeNext \/ RestNext \/ WsNext)

Spec == Init /\ [][Next]_vars

(***************************************************************************)
(* Fairness: the exchange handles what it was sent, and an answer comes or *)
(* the connection (or the request, by its timeout) fails.                  *)
(***************************************************************************)
ExchangeHandles(r) == ExchangeExecutes(r) \/ ExchangeRejects(r)
Answer(r) == (\E outcome \in Outcomes : OrderAck(r, outcome)) \/ OrderAck2(r)

Fairness ==
    \A r \in Requests : WF_vars(Running /\ ExchangeHandles(r)) /\ WF_vars(Running /\ Answer(r))

FairSpec == Spec /\ Fairness
-----------------------------------------------------------------------------
(* Properties *)

TypeOK ==
    /\ process \in {"running", "ended"}
    /\ restReady \in {"READY", "DISCONNECTED"}
    /\ wsLink \in {"down", "ready"} /\ wsStatus \in {"DISCONNECTED", "LOGIN_SENT", "READY"}
    /\ version \in [Orders -> 0 .. MaxVersion]
    /\ type \in [Requests -> Types \cup {"none"}] /\ target \in [Requests -> 0 .. MaxVersion]
    /\ external \subseteq Orders
    /\ stage \in [Requests -> Stages]
    /\ executed \subseteq Requests /\ open \subseteq Orders
    /\ responses \in [Requests -> Nat] /\ status \in [Requests -> Statuses]
    /\ caStage \in [CancelAllRequests -> Stages]
    /\ caForwarded \in [CancelAllRequests -> Nat]
    /\ caAccepted \in [CancelAlls -> Nat] /\ caRejected \in [CancelAlls -> Nat]

\* Every request that was issued is accounted for: it is refused at once, or in
\* flight, or was answered with exactly one response under its own order and
\* version -- or, on the websocket only, it was executed without a word or lost
\* with the connection.  No interleaving of several versions, of answers, errors
\* and disconnects answers a request twice, or one for another.
Accounted ==
    \A r \in Requests :
        /\ stage[r] = "unissued" <=> version[r[1]] < r[2]
        /\ responses[r] = IF stage[r] = "answered" THEN 1 ELSE 0
        /\ stage[r] \in {"silent", "lost"} => WsApi

\* A response tells the truth: ACCEPTED only if the exchange has executed the
\* request, REJECTED only if it has not (order_entry_rest.cpp:843, 963, 1086,
\* order_entry_ws.cpp:296).  The status of an exception says nothing, and neither does
\* the REJECTED of a 5xx (CHANGELOG 1.0.9, #522 has it for 503), which the exchange may
\* send for a request it has executed.
TruthfulResponses ==
    \A r \in Requests :
        /\ status[r] = "ACCEPTED" => r \in executed
        /\ status[r] = "REJECTED" => r \notin executed

\* The OMS takes no order for known to the exchange that is not.
KnownOrdersExist == \A o \in external : Created(o)

\* Each request of a cancel-all that was sent is acknowledged as FORWARDED once and
\* has one final acknowledgement, though all of them carry the one request_id
\* (order_entry_rest.cpp:1155, 1212).
CancelAllAccounted ==
    /\ \A k \in CancelAllRequests :
         caForwarded[k] = IF caStage[k] \in {"unissued", "refused"} THEN 0 ELSE 1
    /\ \A c \in CancelAlls :
         caAccepted[c] + caRejected[c] = Cardinality({s \in Symbols : caStage[<<c, s>>] = "answered"})

\* A request is not left waiting while its connection is up.
RequestsConcluded ==
    \A r \in Requests : stage[r] = "sent" ~>
        (stage[r] \in {"answered", "silent", "lost"} \/ ~Running)

\* An amend or cancel names its order by an id the exchange has for it.  The code
\* says itself that previous_request_id is "not correct -- we need original
\* request_id" (encoder.cpp:93).
TargetsOwnOrder ==
    \A r \in Requests : stage[r] = "sent" => target[r] \in {ExternalId, 1}

\* The abstract service this module implements, and what it sees of a request.
requestState ==
    [r \in Requests |-> CASE stage[r] = "unissued" -> "idle"
                          [] stage[r] \in InFlight -> "pending"
                          [] OTHER -> "concluded"]
Service == INSTANCE RequestService WITH state <- requestState, answers <- responses

\* Whatever streams, exchange and connections do, a request is concluded once, with
\* one answer at most, and not before it was made.
ServiceSpec == Service!Spec
=============================================================================
