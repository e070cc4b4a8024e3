----------------------------- MODULE AccountView -----------------------------
(***************************************************************************)
(* What the gateway shows of one topic -- the position, the order or the   *)
(* fills of one symbol -- from two channels that know nothing of each      *)
(* other: DropCopy passes on the updates of the private websocket,         *)
(* OrderEntryREST the snapshots it downloads.  Neither compares what it    *)
(* publishes with what was published before.                               *)
(*                                                                         *)
(* When the snapshots are requested is the business of AccountSync; here   *)
(* it is the abstract SnapshotService, which AccountSync implements: a     *)
(* snapshot becomes due when its topic is acknowledged, is requested after *)
(* that, and is forgotten with the session.  This module adds the exchange,*)
(* the two channels, and the view.  Topics share nothing but the order of  *)
(* the requests, so one is watched at a time, any of them.                 *)
(*                                                                         *)
(* The exchange keeps a log of events; contents are versions, that is      *)
(* positions in the log.  There is one order: a "fill" executes a part of  *)
(* it and moves the position, a "cancel" closes it.  The wallet is left    *)
(* out: its handlers are those of the position.                            *)
(***************************************************************************)
EXTENDS Integers, Sequences, FiniteSets

CONSTANTS
    TradesLookback,            \* settings.download.trades_lookback
    TradesLookbackOnRestart,   \* settings.download.trades_lookback_on_restart
    TradesLimit,               \* settings.download.trades_limit
    Margin,                    \* the minute added to the current time
    MaxTime, MaxEvents,        \* bounds on the clock and the exchange's log,
    MaxSessions,               \* on the sessions of DropCopy
    MaxInFlight                \* and on the requests in flight

ASSUME LookbackAssumption ==
    TradesLookback \in Nat /\ TradesLookbackOnRestart \in Nat /\ Margin \in Nat
ASSUME LimitAssumption == TradesLimit \in Nat \ {0}
ASSUME BoundsAssumption ==
    MaxTime \in Nat /\ MaxEvents \in Nat /\ MaxSessions \in Nat /\ MaxInFlight \in Nat

\* The topics whose contents are a state, and the one that is a stream of fills.
StateTopics == {"position", "order"}
Topics == StateTopics \cup {"execution"}

VARIABLES
    process, due, requested,     \* SnapshotService; due = the acknowledged topics
    topic,       \* the topic watched
    \* the exchange
    now,         \* its clock, and that of the gateway
    log,         \* what happened: [kind, time]
    \* the private websocket
    link,        \* "up" once DropCopy is logged on
    sessions,    \* its sessions so far
    since,       \* the length of the log when the exchange subscribed, -1 before
    wire,        \* the updates not yet delivered
    \* the REST connection, which is pipelined
    pipeline,    \* requests in flight, in order
    first,       \* download_trades_is_first_
    \* the view
    published,   \* the versions published (of the execution topic: the fills)
    shown,       \* the one published last
    \* history
    restored,    \* a snapshot asked for by this session was delivered
    excused      \* the fills it was too late for

service == <<process, due, requested>>
exchange == <<topic, now, log>>
socket == <<link, sessions, since, wire>>
rest == <<pipeline, first>>
view == <<published, shown>>
history == <<restored, excused>>
vars == <<service, exchange, socket, rest, view, history>>

Service == INSTANCE SnapshotService WITH Requests <- Topics

Running == process = "running"
Acknowledged == topic \in due
Subscribed == since # -1

Init ==
    /\ Service!Init
    /\ topic \in Topics /\ now = 0 /\ log = <<>>
    /\ link = "down" /\ sessions = 0 /\ since = -1 /\ wire = <<>>
    /\ pipeline = <<>> /\ first = TRUE
    /\ published = {} /\ shown = 0
    /\ restored = FALSE /\ excused = {}

-----------------------------------------------------------------------------
(* The exchange *)

Fills(upto) == {i \in 1 .. upto : log[i].kind = "fill"}
Closed(upto) == \E i \in 1 .. upto : log[i].kind = "cancel"

\* What the exchange tells of the topic: the order's versions, or the fills.
Told(upto) == IF topic = "order" THEN 1 .. upto ELSE Fills(upto)

Latest(S) == IF S = {} THEN 0 ELSE CHOOSE i \in S : \A j \in S : j <= i

\* The version of the topic's contents after the first upto events.
Version(upto) == Latest(Told(upto))

Happens(kind) ==
    /\ Len(log) < MaxEvents /\ ~Closed(Len(log))
    /\ log' = Append(log, [kind |-> kind, time |-> now])
    /\ wire' = IF Subscribed /\ (kind = "cancel" => topic = "order")
               THEN Append(wire, Len(log) + 1) ELSE wire
    /\ UNCHANGED <<service, topic, now, link, sessions, since, rest, view, history>>

Tick ==
    /\ now < MaxTime
    /\ now' = now + 1
    /\ UNCHANGED <<service, topic, log, socket, rest, view, history>>

\* The exchange acts on the subscription, and acknowledges it.
ExchangeSubscribes ==
    /\ link = "up" /\ ~Subscribed
    /\ since' = Len(log)
    /\ UNCHANGED <<service, exchange, link, sessions, wire, rest, view, history>>

-----------------------------------------------------------------------------
(* DropCopy *)

\* Logged on: subscribe() asks for the topics.
Auth ==
    /\ link = "down" /\ sessions < MaxSessions
    /\ link' = "up" /\ sessions' = sessions + 1
    /\ UNCHANGED <<service, exchange, since, wire, rest, view, history>>

\* Mutant: the snapshot is asked for together with the subscription.
SubscribeAtOnce ==
    /\ link = "up" /\ ~Acknowledged
    /\ Service!BecomeDue({topic})
    /\ UNCHANGED <<exchange, socket, rest, view, history>>

\* The acknowledgement reaches the gateway.
Subscribe ==
    /\ link = "up" /\ Subscribed /\ ~Acknowledged
    /\ Service!BecomeDue({topic})
    /\ UNCHANGED <<exchange, socket, rest, view, history>>

\* Versions are published, whatever was published before.
Publish(versions) ==
    /\ published' = published \cup versions
    /\ shown' = IF versions = {} THEN shown ELSE Latest(versions)

\* Mutant: updates are ignored until the snapshot has arrived.
UpdateAfterSnapshot ==
    /\ link = "up" /\ Acknowledged /\ wire # <<>>
    /\ wire' = Tail(wire)
    /\ Publish(IF restored THEN {Head(wire)} ELSE {})
    /\ UNCHANGED <<service, exchange, link, sessions, since, rest, history>>

\* An update arrives, behind the acknowledgement and in order.
Update ==
    /\ link = "up" /\ Acknowledged /\ wire # <<>>
    /\ wire' = Tail(wire)
    /\ Publish({Head(wire)})
    /\ UNCHANGED <<service, exchange, link, sessions, since, rest, history>>

\* The snapshots that are due are forgotten; requests in flight stay in flight, but
\* are none of the next session's.
Disconnected ==
    /\ link = "up"
    /\ Service!Forget
    /\ link' = "down" /\ since' = -1 /\ wire' = <<>>
    /\ pipeline' = [k \in DOMAIN pipeline |-> [pipeline[k] EXCEPT !.own = FALSE]]
    /\ restored' = FALSE /\ excused' = {}
    /\ UNCHANGED <<exchange, sessions, first, view>>

-----------------------------------------------------------------------------
(* OrderEntryREST *)

\* get_download_trades_lookback
Lookback == IF first /\ TradesLookbackOnRestart # 0 THEN TradesLookbackOnRestart ELSE TradesLookback

\* Mutant: the lookback is forgotten.
StartTimeNow == now

\* startTime: the lookback is taken off a time in the future.
StartTime == (now + Margin) - Lookback

\* get_positions, get_orders, get_executions.  (None of them follows the cursor to
\* a next page.)  A snapshot that is due is requested once.  Before the topic is
\* acknowledged a snapshot may be asked for on behalf of a new symbol.
Request ==
    /\ link = "up" /\ Len(pipeline) < MaxInFlight
    /\ IF Acknowledged THEN topic \notin requested /\ Service!Request({topic})
       ELSE UNCHANGED service
    /\ pipeline' = Append(pipeline, [own |-> Acknowledged, at |-> now, upto |-> -1,
                                     from |-> IF topic = "execution" THEN StartTime ELSE 0])
    /\ UNCHANGED <<exchange, socket, first, view, history>>

\* The exchange answers in the order of the requests, with its state of the moment.
ExchangeAnswers ==
    \E k \in DOMAIN pipeline :
        /\ pipeline[k].upto = -1
        /\ \A j \in 1 .. k - 1 : pipeline[j].upto # -1
        /\ pipeline' = [pipeline EXCEPT ![k].upto = Len(log)]
        /\ UNCHANGED <<service, exchange, socket, first, view, history>>

\* The answer to get_positions: the position as it is.
Positions(answer) == {Version(answer.upto)}

\* The answer to get_orders, openOnly=0: the order, if it is open.
OpenOrders(answer) == IF Closed(answer.upto) THEN {} ELSE {Version(answer.upto)}

\* The answer to get_executions: the fills since startTime, limit of them at most,
\* the newest first.
Newer(i, upto) == {j \in Fills(upto) : j > i}
Executions(answer) ==
    {i \in Fills(answer.upto) :
        log[i].time >= answer.from /\ Cardinality(Newer(i, answer.upto)) < TradesLimit}

\* The fills that a download is not expected to bring: those older than the shorter of
\* the lookbacks less the margin, and those beyond the limit of the one page.
ShortestLookback ==
    IF TradesLookbackOnRestart # 0 /\ TradesLookbackOnRestart < TradesLookback
    THEN TradesLookbackOnRestart ELSE TradesLookback
OutOfReach(answer) ==
    {i \in Fills(answer.upto) :
        \/ log[i].time < answer.at + Margin - ShortestLookback
        \/ Cardinality(Newer(i, answer.upto)) >= TradesLimit}

\* The response to the first request: success, another ret_code, or no body at all.
Outcomes == {"success", "rejected", "error"}
Ack(t, outcome, Contents(_)) ==
    /\ topic = t /\ pipeline # <<>>
    /\ outcome # "error" => Head(pipeline).upto # -1
    /\ pipeline' = Tail(pipeline)
    /\ Publish(IF outcome = "success" THEN Contents(Head(pipeline)) ELSE {})
    /\ IF outcome = "success" /\ Head(pipeline).own
       THEN restored' = TRUE /\ excused' = OutOfReach(Head(pipeline))
       ELSE UNCHANGED history
    /\ UNCHANGED <<service, exchange, socket>>

GetPositionsAck(outcome) == Ack("position", outcome, Positions) /\ UNCHANGED first
GetOrdersAck(outcome) == Ack("order", outcome, OpenOrders) /\ UNCHANGED first
GetExecutionsAck(outcome) ==
    Ack("execution", outcome, Executions) /\ first' = (first /\ outcome = "error")

\* All requests in flight fail.
RestDisconnected ==
    /\ pipeline # <<>>
    /\ pipeline' = <<>>
    /\ UNCHANGED <<service, exchange, socket, first, view, history>>

-----------------------------------------------------------------------------
ExchangeNext ==
    \/ \E kind \in {"fill", "cancel"} : Happens(kind)
    \/ Tick
    \/ ExchangeSubscribes \/ ExchangeAnswers

DropCopyNext == Auth \/ Disconnected \/ Subscribe \/ Update

RestNext ==
    \/ Request
    \/ \E outcome \in Outcomes :
         GetPositionsAck(outcome) \/ GetOrdersAck(outcome) \/ GetExecutionsAck(outcome)
    \/ RestDisconnected

Next == Running /\ (ExchangeNext \/ DropCopyNext \/ RestNext)

Spec == Init /\ [][Next]_vars
-----------------------------------------------------------------------------
(* Properties *)

OnWire == {wire[k] : k \in DOMAIN wire}
Restored == Acknowledged /\ restored

\* No fill is lost in the gap between two sessions, or between the download and the
\* stream: once the executions of the session are downloaded, every fill is published
\* or on its way, other than those that were older than the shorter of the lookbacks
\* less the margin -- which the code adds to the end of the window and thereby takes
\* off its start (order_entry_rest.cpp:654) -- and those beyond the limit of the one
\* page that is read.
FillsComplete ==
    Restored /\ topic = "execution" => Fills(Len(log)) \subseteq published \cup OnWire \cup excused

\* A stale snapshot may replace a newer update (order_entry_rest.cpp:493), but what is
\* shown after the session's own snapshot is never older than the subscription: asking
\* for it only after the acknowledgement bounds how far the view can fall back.  Not so
\* the order, once it is closed: the list of open orders does not correct a stale one.
NotOlderThanSubscription ==
    Restored /\ topic \in StateTopics =>
        shown >= Version(since) \/ (topic = "order" /\ Closed(Len(log)))

\* When nothing is on its way, the newest version the exchange has was published at
\* some time, so that a client who goes by the exchange time of updates has the
\* current position and order -- except for an order that was closed while nobody
\* listened, which neither the stream nor the list of open orders ever tells of.
NewestPublished ==
    Restored /\ topic \in StateTopics /\ wire = <<>> =>
        Latest(published) = Version(Len(log)) \/ (topic = "order" /\ Closed(since))
=============================================================================
