------------------------------ MODULE Messages ------------------------------
(***************************************************************************)
(* What becomes of a message of the exchange: the text messages of the     *)
(* websocket streams, which Parser or Parser2 hand to a handler of the     *)
(* stream, and the snapshots OrderEntryREST gets.  Each is turned into     *)
(* updates for server::Dispatcher.                                         *)
(*                                                                         *)
(* Fills and public trades are collected in scratch vectors of Shared and  *)
(* dispatched whenever the order (the symbol) changes.  shared_.fills is   *)
(* the one of all accounts, and is cleared after use only: an exception of *)
(* the dispatcher, which OrderEntryREST survives, leaves fills in it.      *)
(***************************************************************************)
EXTENDS Naturals, FiniteSets, SequencesExt

CONSTANTS
    Accounts,
    Names,      \* names of orders, symbols or currencies
    Discarded,  \* those the configuration filters out (discard_symbol)
    NoName,     \* the empty string
    MbpDepth,   \* settings.ws.mbp_depth, or the default of the API
    TimeSeries, \* settings.download.time_series_lookback is not zero
    AllowUnknownEventTypes,
    MaxItems    \* bound on the fills and trades of a message (of others, less one)

ASSUME NamesAssumption == NoName \notin Names \cup Accounts /\ Discarded \subseteq Names
ASSUME SettingsAssumption ==
    MbpDepth \in Nat \ {0} /\ TimeSeries \in BOOLEAN /\ AllowUnknownEventTypes \in BOOLEAN
ASSUME BoundAssumption == MaxItems \in Nat

\* INVERSE does here what LINEAR does.
Apis == {"SPOT", "LINEAR", "OPTION"}

VARIABLES
    process,     \* "ended" once log::fatal was called
    api,         \* Api::api, read once
    fills,       \* Shared::fills
    last,        \* the last message: how it was handled, and the fills it found
    updates,     \* what it published of items
    kinds        \* and the kinds of updates, if it was market data

vars == <<process, api, fills, last, updates, kinds>>

Running == process = "running"

Init ==
    /\ process = "running"
    /\ api \in Apis
    /\ fills = <<>>
    /\ last = [handler |-> "NONE", expected |-> TRUE, items |-> <<>>, failed |-> FALSE,
               before |-> <<>>]
    /\ updates = <<>>
    /\ kinds = {}

-----------------------------------------------------------------------------
(* Parser and Parser2.  A field that is absent is UNDEFINED.                 *)

Topics == {"ORDERBOOK", "PUBLIC_TRADE", "TICKERS", "KLINE", "WALLET", "POSITION", "ORDER", "EXECUTION"}
Operations == {"AUTH", "PING", "PONG", "SUBSCRIBE", "ORDER_CREATE", "ORDER_AMEND", "ORDER_CANCEL"}
EventTypes == {"ERROR", "SNAPSHOT", "DELTA", "COMMAND_RESP"}
Missing == {"UNDEFINED", "UNKNOWN"}

\* Each step of the parser finds a handler, ends the search or goes on ("NEXT").
ByOperation(op, allow) ==
    CASE op \in {"AUTH", "PING", "SUBSCRIBE"} -> op
      [] op \in {"PONG", "ORDER_CREATE", "ORDER_AMEND", "ORDER_CANCEL"} -> "IGNORED"
      [] op = "UNKNOWN" /\ allow -> "LOGGED"
      [] OTHER -> "NEXT"

\* Mutant: the reply of the option API to a subscription is forgotten.
ByTypeNoCommandResp(type, allow) ==
    CASE type = "ERROR" -> "ERROR"
      [] type = "UNKNOWN" /\ allow -> "LOGGED"
      [] OTHER -> "FATAL"

ByType(type, allow) ==
    CASE type = "ERROR" -> "ERROR"
      [] type = "COMMAND_RESP" -> "SUBSCRIBE"
      [] type = "UNKNOWN" /\ allow -> "LOGGED"
      [] OTHER -> "FATAL"

Parser(m, allow) ==
    IF m.topic \in Topics THEN m.topic
    ELSE IF ByOperation(m.op, allow) # "NEXT" THEN ByOperation(m.op, allow)
    ELSE ByType(m.type, allow)

\* The op alone decides.
Parser2(m, allow) ==
    CASE m.op \in {"AUTH", "ORDER_CREATE", "ORDER_AMEND", "ORDER_CANCEL"} -> m.op
      [] m.op \notin {"AUTH", "ORDER_CREATE", "ORDER_AMEND", "ORDER_CANCEL"} ->
           IF allow THEN "LOGGED" ELSE "FATAL"

\* The handlers of a stream that do not end the process.
MarketDataHandles == {"ORDERBOOK", "PUBLIC_TRADE", "TICKERS", "KLINE", "PING", "SUBSCRIBE"}
DropCopyHandles == {"WALLET", "POSITION", "ORDER", "EXECUTION", "AUTH", "PING", "SUBSCRIBE"}
OrderEntryHandles == {"AUTH", "ORDER_CREATE", "ORDER_AMEND", "ORDER_CANCEL"}

Handler(stream, m) ==
    IF stream = "OrderEntryWS"
    THEN Parser2(m, AllowUnknownEventTypes)
    ELSE Parser(m, AllowUnknownEventTypes)

\* Anything but a handler that does its work, or a message that is only logged.
Fatal(stream, handler) ==
    LET handles == CASE stream = "MarketData" -> MarketDataHandles
                     [] stream = "DropCopy" -> DropCopyHandles
                     [] stream = "OrderEntryWS" -> OrderEntryHandles
    IN handler \notin handles \cup {"IGNORED", "LOGGED"}

-----------------------------------------------------------------------------
(* What the streams ask for, and what the exchange may send on them.         *)

MarketDataTopics ==
    {<<"ORDERBOOK", MbpDepth>>, <<"PUBLIC_TRADE", 0>>, <<"TICKERS", 0>>}
        \cup (IF api = "SPOT" THEN {<<"ORDERBOOK", 1>>} ELSE {})
        \cup (IF TimeSeries THEN {<<"KLINE", 0>>} ELSE {})

DropCopyTopics ==
    {<<"WALLET", 0>>, <<"ORDER", 0>>, <<"EXECUTION", 0>>}
        \cup (IF api = "SPOT" THEN {} ELSE {<<"POSITION", 0>>})

\* Fields of a message: topic with its depth, op and type.
Message(topic, op, type) == [topic |-> topic[1], depth |-> topic[2], op |-> op, type |-> type]
NoTopic == <<"UNDEFINED", 0>>
Reply(op) == Message(NoTopic, op, "UNDEFINED")

TopicMessages(topics) == {Message(t, "UNDEFINED", "DELTA") : t \in topics}

\* The exchange: updates of the topics, replies to auth, ping and subscribe (the
\* option API has its own form of the last two), and the answers to orders.
Expected(stream) ==
    CASE stream = "MarketData" ->
           TopicMessages(MarketDataTopics)
             \cup (IF api = "OPTION"
                   THEN {Reply("PONG"), Message(NoTopic, "UNDEFINED", "COMMAND_RESP")}
                   ELSE {Reply("PING"), Reply("SUBSCRIBE")})
      [] stream = "DropCopy" -> TopicMessages(DropCopyTopics) \cup {Reply("AUTH"), Reply("SUBSCRIBE")}
      [] stream = "OrderEntryWS" -> {Reply(op) : op \in OrderEntryHandles}

\* What it is not expected to send, a sample of each way through the parsers.
Unexpected ==
    {Message(NoTopic, "UNDEFINED", type) : type \in EventTypes \cup Missing}
        \cup {Message(<<"UNKNOWN", 0>>, "UNDEFINED", "DELTA"), Reply("UNKNOWN")}
        \cup {Message(t, "UNDEFINED", "DELTA") : t \in {<<"TICKERS", 0>>, <<"ORDER", 0>>}}

-----------------------------------------------------------------------------
(* From items to updates.  A state of the work has the name the update will  *)
(* carry, the items collected for it, and the updates so far; the dispatch   *)
(* of update number failAt throws.                                           *)

Item(account, name) == [account |-> account, name |-> name]

Work(account, content, failAt) ==
    [account |-> account, name |-> NoName, content |-> content, done |-> <<>>,
     failAt |-> failAt, failed |-> FALSE]

\* The lambda dispatch of the handlers.
Dispatch(w) ==
    IF w.failed \/ w.content = <<>> THEN w
    ELSE IF Len(w.done) + 1 = w.failAt THEN [w EXCEPT !.failed = TRUE]
    ELSE [w EXCEPT !.done = Append(@, [account |-> w.account, name |-> w.name, content |-> w.content]),
                   !.content = <<>>]

\* Mutant: only the first name counts.
GroupFirstName(w, name) ==
    LET next == IF w.name = NoName THEN [Dispatch(w) EXCEPT !.name = name] ELSE w
    IN IF next.failed THEN next
       ELSE [next EXCEPT !.content = Append(@, Item(w.account, name))]

\* Mutant: an exception does not end the loop.
GroupAfterFailure(w, name) ==
    LET next == IF name # w.name THEN [Dispatch(w) EXCEPT !.name = name] ELSE w
    IN [next EXCEPT !.content = Append(@, Item(w.account, name))]

\* One item of executions or public trades: a new name dispatches what there is.
Group(w, name) ==
    LET next == IF name # w.name THEN [Dispatch(w) EXCEPT !.name = name] ELSE w
    IN IF next.failed THEN next
       ELSE [next EXCEPT !.content = Append(@, Item(w.account, name))]

\* One item of a wallet, of positions or orders: an update of its own.
OneEach(w, name) ==
    IF w.failed THEN w
    ELSE Dispatch([w EXCEPT !.name = name, !.content = <<Item(w.account, name)>>])

\* discard_symbol comes before anything else.
OnePosition(w, name) == IF name \in Discarded THEN w ELSE OneEach(w, name)

OneItem(handler, w, name) ==
    CASE handler \in {"EXECUTION", "PUBLIC_TRADE"} -> Group(w, name)
      [] handler = "POSITION" -> OnePosition(w, name)
      [] handler \in {"WALLET", "ORDER"} -> OneEach(w, name)

\* The loop of a handler over the items of its message.
Loop(handler, start, items) ==
    LET work[n \in 0 .. Len(items)] ==
          IF n = 0 THEN start ELSE OneItem(handler, work[n - 1], items[n])
    IN work[Len(items)]

\* Mutant: the last group is not dispatched.
ExecutionsNoLast(account, items, failAt) == Loop("EXECUTION", Work(account, fills, failAt), items)

Executions(account, items, failAt) ==
    Dispatch(Loop("EXECUTION", Work(account, fills, failAt), items))

\* trades.clear() comes first.
Trades(items) == Dispatch(Loop("PUBLIC_TRADE", Work(NoName, <<>>, 0), items))

\* A wallet, positions or orders.
Each(handler, account, items, failAt) == Loop(handler, Work(account, <<>>, failAt), items)

HasItems(handler) == handler \in {"PUBLIC_TRADE", "WALLET", "POSITION", "ORDER", "EXECUTION"}
ItemSequences == BoundedSeq(Names, MaxItems)
ShortSequences == {items \in ItemSequences : Len(items) < MaxItems}
Items(handler) ==
    CASE handler \in {"EXECUTION", "PUBLIC_TRADE"} -> ItemSequences
      [] handler \in {"WALLET", "POSITION", "ORDER"} -> ShortSequences
      [] ~HasItems(handler) -> {<<>>}

\* The updates of books, tickers and candles are left out.
Conversion(account, handler, items, failAt) ==
    CASE handler = "EXECUTION" -> Executions(account, items, failAt)
      [] handler = "PUBLIC_TRADE" -> Trades(items)
      [] handler \in {"WALLET", "POSITION", "ORDER"} -> Each(handler, account, items, failAt)
      [] ~HasItems(handler) -> Work(account, <<>>, failAt)

Found(handler, expected, items, failed) ==
    [handler |-> handler, expected |-> expected, items |-> items, failed |-> failed,
     before |-> fills]

Convert(account, handler, expected, items, failAt) ==
    LET w == Conversion(account, handler, items, failAt)
    IN /\ fills' = IF handler = "EXECUTION" THEN w.content ELSE fills
       /\ updates' = w.done
       /\ last' = Found(handler, expected, items, w.failed)

-----------------------------------------------------------------------------
\* What MarketData announces (SUPPORTS), but for the market status, which is Rest's.
Supports == {"TOP_OF_BOOK", "MARKET_BY_PRICE", "TRADE_SUMMARY", "STATISTICS"}

\* A book of depth 1 is published as a top of book, any other as market by price.
OrderBookKinds(depth) == IF depth = 1 THEN {"TOP_OF_BOOK"} ELSE {"MARKET_BY_PRICE"}

\* Mutant: the spot API is no exception.
TickersKindsAlways == {"TOP_OF_BOOK", "STATISTICS"}

\* Tickers give a top of book too, unless the API is SPOT ("using orderbook.1").
TickersKinds == (IF api = "SPOT" THEN {} ELSE {"TOP_OF_BOOK"}) \cup {"STATISTICS"}

\* The kinds of updates that a message leads to.
Kinds(m, handler) ==
    CASE handler = "ORDERBOOK" -> OrderBookKinds(m.depth)
      [] handler = "TICKERS" -> TickersKinds
      [] handler = "PUBLIC_TRADE" -> {"TRADE_SUMMARY"}
      [] OTHER -> {}

-----------------------------------------------------------------------------
\* A text message.  The dispatcher may throw at any of the updates, which are one for
\* each item at most, and one for what was left.  An exception ends the process (Unhandled::terminate).
Text(stream, account, m) ==
    LET handler == Handler(stream, m)
        expected == m \in Expected(stream)
    IN
    /\ IF Fatal(stream, handler)
       THEN /\ last' = Found("FATAL", expected, <<>>, FALSE)
            /\ updates' = <<>>
            /\ process' = "ended"
            /\ UNCHANGED fills /\ kinds' = {}
       ELSE /\ \E items \in Items(handler) : \E failAt \in 0 .. Len(items) + 1 :
                  Convert(account, handler, expected, items, failAt)
            /\ process' = IF last'.failed THEN "ended" ELSE "running"
            /\ kinds' = Kinds(m, handler)
    /\ UNCHANGED api

MarketDataText(m) == Text("MarketData", NoName, m)
DropCopyText(a, m) == Text("DropCopy", a, m)
OrderEntryText(a, m) == Text("OrderEntryWS", a, m)

\* OrderEntryREST: a snapshot, if the answer was a success.  process_response
\* turns an exception into an error, which is logged.
Snapshot(a, handler) ==
    /\ \E items \in Items(handler) : \E failAt \in 0 .. Len(items) + 1 :
         Convert(a, handler, TRUE, items, failAt)
    /\ kinds' = {} /\ UNCHANGED <<process, api>>

WalletBalanceAck(a) == Snapshot(a, "WALLET")
PositionsAck(a) == api # "SPOT" /\ Snapshot(a, "POSITION")
OrdersAck(a) == Snapshot(a, "ORDER")
ExecutionsAck(a) == Snapshot(a, "EXECUTION")

-----------------------------------------------------------------------------
Next ==
    /\ Running
    /\ \/ \E m \in Expected("MarketData") \cup Unexpected : MarketDataText(m)
       \/ \E a \in Accounts :
            \/ \E m \in Expected("DropCopy") \cup Unexpected : DropCopyText(a, m)
            \/ \E m \in Expected("OrderEntryWS") \cup Unexpected : OrderEntryText(a, m)
            \/ WalletBalanceAck(a) \/ PositionsAck(a) \/ OrdersAck(a) \/ ExecutionsAck(a)

Spec == Init /\ [][Next]_vars
-----------------------------------------------------------------------------
(* Properties *)

Updates == {updates[k] : k \in DOMAIN updates}
Contents(u) == {u.content[k] : k \in DOMAIN u.content}

\* The scratch vector holds one message's fills at most, however often the
\* dispatcher throws: what an exception leaves is the first thing to be dispatched.
TypeOK ==
    /\ process \in {"running", "ended"} /\ api \in Apis
    /\ Len(fills) <= MaxItems
    /\ \A k \in DOMAIN fills : fills[k] \in [account : Accounts, name : Names]
    /\ kinds \subseteq Supports
    /\ last.failed \in BOOLEAN /\ last.expected \in BOOLEAN

\* An update names the order (symbol) of everything in it, in whatever order the
\* items of different ones come; what an exception has left goes out without any
\* name, and never under that of another order (order_entry_rest.cpp:748).
UnderTheirOwnName ==
    \A u \in Updates :
        \/ \A c \in Contents(u) : c = Item(u.account, u.name)
        \/ u.name = NoName /\ u.content = last.before

\* Every item is published once and in its place: the updates and what is left
\* continue what was left before, and nothing is unless the dispatcher threw.
Kept(items) == FlattenSeq([k \in DOMAIN items |-> IF items[k] \in Discarded THEN <<>> ELSE <<items[k]>>])
Passed == IF last.handler = "POSITION" THEN Kept(last.items) ELSE last.items
Names_(seq) == [k \in DOMAIN seq |-> seq[k].name]
Published == FlattenSeq([k \in DOMAIN updates |-> Names_(updates[k].content)])
EveryItemOnce ==
    LET found == IF last.handler = "EXECUTION" THEN Names_(last.before) ELSE <<>>
        left == IF last.handler = "EXECUTION" THEN Names_(fills) ELSE <<>>
    IN IF last.failed
       THEN IsPrefix(Published \o left, found \o Passed)
       ELSE Published = found \o Passed /\ left = <<>>

\* Two topics that publish the same kind of update overwrite each other in the order
\* they arrive: on every API each kind the stream announces comes from one of its
\* topics, and from no other -- unless settings.ws.mbp_depth is 1, which turns market
\* by price into a second top of book (market_data.cpp:286).
KindsOf(t) == Kinds(Message(t, "UNDEFINED", "DELTA"), t[1])
OneSourceEach ==
    MbpDepth # 1 =>
        \A k \in Supports \cup kinds : Cardinality({t \in MarketDataTopics : k \in KindsOf(t)}) = 1

\* What a stream has asked for never ends the process: the parser finds a handler
\* for each topic of its subscriptions and each reply, in all forms the APIs have.
ExpectedIsHandled == process = "ended" => ~last.expected \/ last.failed
=============================================================================
