------------------------------ MODULE TimeSeries ------------------------------
(***************************************************************************)
(* The candles of one symbol, as the gateway shows them: MarketData passes *)
(* on the updates of the kline topic, Rest the history it downloads once   *)
(* per subscription.  The history is asked for as soon as the subscription *)
(* is sent (market_data.cpp:609), not when it is acknowledged, and the     *)
(* last candle of the answer, which is in progress, is published as        *)
(* confirmed like the others (rest.cpp:393).                               *)
(*                                                                         *)
(* Time is counted in candles: candle c lasts from c to c + 1.  A candle   *)
(* is abstracted to the trades it has seen.  MarketDataStreams has the     *)
(* queue of all symbols and the life of the connections.                   *)
(***************************************************************************)
EXTENDS Integers, Sequences, FiniteSets

CONSTANTS
    Lookback,     \* settings.time_series.lookback, in candles
    Limit,        \* settings.download.time_series_limit
    MaxTime, MaxTrades,      \* bounds on time and the trades per candle,
    MaxSessions, MaxInFlight \* on the sessions and the downloads in flight

\* The Controller refuses to start otherwise (controller.cpp:112).
ASSUME LookbackAssumption ==
    Lookback \in Nat /\ Limit \in Nat \ {0} /\ Lookback <= Limit
ASSUME BoundsAssumption ==
    MaxTime \in Nat /\ MaxTrades \in Nat /\ MaxSessions \in Nat /\ MaxInFlight \in Nat

VARIABLES
    realtime,    \* settings.time_series.realtime, read once
    \* the exchange
    now,         \* the candle in progress
    trades,      \* per candle
    \* MarketData
    link,        \* "up" between Ready and Disconnected
    sessions,    \* its sessions so far
    since,       \* the candle in progress when the exchange subscribed, -1 before
    wire,        \* updates not yet delivered: [candle, trades, confirm]
    \* Rest
    queued,      \* entries of the symbol in time_series_request_queue
    pipeline,    \* downloads in flight, in order
    \* the view
    shown,       \* per candle: its trades (-1: not shown) and whether it is confirmed
    \* history
    restored,    \* the last candle of the last history of the session, -1 before
    overtaken    \* the last candle of it had already been confirmed by the stream

exchange == <<realtime, now, trades>>
stream == <<link, sessions, since, wire>>
rest == <<queued, pipeline>>
history == <<restored, overtaken>>
vars == <<exchange, stream, rest, shown, history>>

Candles == 0 .. MaxTime
Subscribed == since # -1

Init ==
    /\ realtime \in BOOLEAN /\ now = 0 /\ trades = [c \in Candles |-> 0]
    /\ link = "down" /\ sessions = 0 /\ since = -1 /\ wire = <<>>
    /\ queued = 0 /\ pipeline = <<>>
    /\ shown = [c \in Candles |-> [trades |-> -1, confirmed |-> FALSE]]
    /\ restored = -1 /\ overtaken = FALSE

-----------------------------------------------------------------------------
(* The exchange *)

Push(update) == wire' = IF Subscribed THEN Append(wire, update) ELSE wire

ExchangeTrades ==
    /\ trades[now] < MaxTrades
    /\ trades' = [trades EXCEPT ![now] = @ + 1]
    /\ Push([candle |-> now, trades |-> trades[now] + 1, confirm |-> FALSE])
    /\ UNCHANGED <<realtime, now, link, sessions, since, rest, shown, history>>

\* The candle is over: it is confirmed.
ExchangeConfirms ==
    /\ now < MaxTime
    /\ now' = now + 1
    /\ Push([candle |-> now, trades |-> trades[now], confirm |-> TRUE])
    /\ UNCHANGED <<realtime, trades, link, sessions, since, rest, shown, history>>

ExchangeSubscribes ==
    /\ link = "up" /\ ~Subscribed
    /\ since' = now
    /\ UNCHANGED <<exchange, link, sessions, wire, rest, shown, history>>

\* The answer to the first download that has none: the candles that began at its start
\* or later, Limit of them at most, the newest first.
ExchangeAnswers ==
    \E k \in DOMAIN pipeline :
        /\ ~pipeline[k].answered
        /\ \A j \in 1 .. k - 1 : pipeline[j].answered
        /\ pipeline' = [pipeline EXCEPT ![k] =
             [@ EXCEPT !.answered = TRUE, !.upto = now, !.trades = trades,
                       !.from = IF pipeline[k].from < now + 1 - Limit
                                THEN now + 1 - Limit ELSE pipeline[k].from]]
        /\ UNCHANGED <<exchange, stream, queued, shown, history>>

-----------------------------------------------------------------------------
(* MarketData *)

\* Ready, and subscribe(): the topic is asked for, and the history queued.
Ready ==
    /\ link = "down" /\ sessions < MaxSessions
    /\ link' = "up" /\ sessions' = sessions + 1
    /\ queued' = queued + 1
    /\ UNCHANGED <<exchange, since, wire, pipeline, shown, history>>

\* Neither the queue nor what is in flight is touched, but it is not the next session's.
Disconnected ==
    /\ link = "up"
    /\ link' = "down" /\ since' = -1 /\ wire' = <<>>
    /\ pipeline' = [k \in DOMAIN pipeline |-> [pipeline[k] EXCEPT !.own = FALSE]]
    /\ restored' = -1 /\ overtaken' = FALSE
    /\ UNCHANGED <<exchange, sessions, queued, shown>>

\* An update; unless real-time candles are wanted, those in progress are skipped.
Kline ==
    /\ link = "up" /\ wire # <<>>
    /\ wire' = Tail(wire)
    /\ LET item == Head(wire) IN
       shown' = IF item.confirm \/ realtime
                THEN [shown EXCEPT ![item.candle] = [trades |-> item.trades, confirmed |-> item.confirm]]
                ELSE shown
    /\ UNCHANGED <<exchange, link, sessions, since, rest, history>>

-----------------------------------------------------------------------------
(* Rest *)

\* Mutant: the lookback is forgotten.
StartsNow == {now}

\* get_kline: the start is the lookback before now.  Of the candle that began then it
\* depends on the second whether it is among those that began later.
Starts == {now - Lookback, now - Lookback + 1}

GetKline ==
    /\ queued > 0 /\ Len(pipeline) < MaxInFlight
    /\ queued' = queued - 1
    /\ \E start \in Starts :
         pipeline' = Append(pipeline,
             [own |-> link = "up", answered |-> FALSE, trades |-> [c \in Candles |-> 0],
              from |-> start, upto |-> now])
    /\ UNCHANGED <<exchange, stream, shown, history>>

\* get_kline_ack: without success nothing happens, and nothing is asked for again.
GetKlineFails ==
    /\ pipeline # <<>>
    /\ pipeline' = Tail(pipeline)
    /\ UNCHANGED <<exchange, stream, queued, shown, history>>

\* The stream has told that the candle was over, and the update was delivered.
ConfirmDelivered(c) ==
    /\ Subscribed /\ since <= c /\ c < now
    /\ \A k \in DOMAIN wire : wire[k].candle # c

\* KlineAck: every candle is published as confirmed.
KlineAck ==
    LET answer == Head(pipeline) IN
    /\ pipeline # <<>> /\ answer.answered
    /\ pipeline' = Tail(pipeline)
    /\ shown' = [c \in Candles |->
                   IF c \in answer.from .. answer.upto
                   THEN [trades |-> answer.trades[c], confirmed |-> TRUE] ELSE shown[c]]
    /\ IF answer.own
       THEN /\ restored' = answer.upto
            /\ overtaken' = ConfirmDelivered(answer.upto)
       ELSE UNCHANGED history
    /\ UNCHANGED <<exchange, stream, queued>>

-----------------------------------------------------------------------------
Next ==
    \/ ExchangeTrades \/ ExchangeConfirms \/ ExchangeSubscribes \/ ExchangeAnswers
    \/ Ready \/ Disconnected \/ Kline
    \/ GetKline \/ GetKlineFails \/ KlineAck

Spec == Init /\ [][Next]_vars
-----------------------------------------------------------------------------
(* Properties *)

\* A candle shown as confirmed does not change again, and nobody corrects it.
Final(c) == shown[c] = [trades |-> trades[c], confirmed |-> TRUE]

\* Those that the history was taken too early for: in progress then, or not begun, and
\* over before the stream told of it.
InTheGap(c) == restored <= c /\ c < since

\* With the history of the session in and its updates delivered, every candle of the
\* lookback that is over is shown as the exchange has it -- in whatever order history,
\* subscription and updates overtake each other -- except for those that ended between
\* the history and the subscription, and the last candle of a history that arrived
\* after the stream had confirmed it.
CandlesFinal ==
    restored # -1 /\ Subscribed /\ wire = <<>> =>
        \A c \in Candles :
            c < now /\ c > restored - Lookback =>
                Final(c) \/ InTheGap(c) \/ (c = restored /\ overtaken)
=============================================================================
