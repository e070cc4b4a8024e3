--------------------------- MODULE TimeSeriesProofs ---------------------------
(***************************************************************************)
(* Proof that the candles end up as the exchange has them, for any         *)
(* lookback, any limit that allows it, and any number of trades, sessions  *)
(* and downloads in flight.                                                *)
(*                                                                         *)
(* Until an update is delivered, the confirmation of its candle is behind  *)
(* it (WireInv).  Answers arrive in the order they were given, so that the *)
(* one which spoils the last of its candles comes before those that reach  *)
(* further (PipelineInv, StreamInv).  What a download of the session       *)
(* leaves open is in the gap, on the wire, or overtaken (CandleInv).       *)
(***************************************************************************)
EXTENDS TimeSeries, SequenceTheorems, TLAPS

Update == [candle: Candles, trades: Nat, confirm: BOOLEAN]
Download == [own: BOOLEAN, answered: BOOLEAN, trades: [Candles -> Nat], from: Int, upto: Candles]
Shown == [trades: Int, confirmed: BOOLEAN]

TypesOK ==
    /\ realtime \in BOOLEAN /\ now \in Candles /\ trades \in [Candles -> Nat]
    /\ link \in {"up", "down"} /\ since \in Candles \cup {-1} /\ wire \in Seq(Update)
    /\ pipeline \in Seq(Download) /\ shown \in [Candles -> Shown]
    /\ restored \in Candles \cup {-1} /\ overtaken \in BOOLEAN

SessionInv ==
    /\ since <= now /\ restored <= now
    /\ link = "down" => ~Subscribed /\ restored = -1
    /\ ~Subscribed => wire = <<>>

\* The confirmation of candle c is at place k or behind it.
ConfirmedFrom(k, c) == \E j \in k .. Len(wire) : wire[j].candle = c /\ wire[j].confirm
Pending(c) == ConfirmedFrom(1, c)
WireInv ==
    \A k \in 1 .. Len(wire) :
        /\ wire[k].candle >= since /\ wire[k].candle <= now
        /\ wire[k].confirm => wire[k].candle < now /\ wire[k].trades = trades[wire[k].candle]
        /\ wire[k].candle < now => ConfirmedFrom(k, wire[k].candle)

\* A download in flight.
Complete(d) ==
    IF d.answered
    THEN /\ d.upto <= now /\ d.from <= d.upto - Lookback + 1
         /\ \A c \in Candles : c < d.upto => d.trades[c] = trades[c]
    ELSE d.from <= now - Lookback + 1
PipelineInv ==
    /\ \A k \in 1 .. Len(pipeline) :
         /\ Complete(pipeline[k])
         /\ pipeline[k].own => link = "up"
         /\ restored # -1 => pipeline[k].own
    /\ \A j, k \in 1 .. Len(pipeline) : j <= k =>
         /\ pipeline[j].own => pipeline[k].own
         /\ pipeline[k].answered => pipeline[j].answered /\ pipeline[j].upto <= pipeline[k].upto

\* What the stream has told is shown, as far as the answers still to come do not reach
\* less far.
Reached(c) == \A k \in 1 .. Len(pipeline) : pipeline[k].answered => c <= pipeline[k].upto
StreamInv ==
    Subscribed => \A c \in Candles : since <= c /\ c < now => Final(c) \/ Pending(c) \/ Reached(c)

\* What the session's downloads have left open.
CandleInv ==
    restored # -1 => \A c \in Candles : c < now /\ c > restored - Lookback =>
        \/ Final(c) \/ Pending(c)
        \/ restored <= c /\ (~Subscribed \/ c < since)
        \/ c = restored /\ overtaken

IndInv == TypesOK /\ SessionInv /\ WireInv /\ PipelineInv /\ StreamInv /\ CandleInv

-----------------------------------------------------------------------------
(***************************************************************************)
(* Sequences and frames.                                                   *)
(***************************************************************************)
LEMMA Pushed ==
    ASSUME NEW S, NEW s \in Seq(S), NEW e \in S, NEW t, t = Append(s, e)
    PROVE  /\ t \in Seq(S) /\ Len(s) \in Nat /\ Len(t) = Len(s) + 1 /\ t[Len(s) + 1] = e
           /\ \A k \in 1 .. Len(s) : k \in 1 .. Len(t) /\ t[k] = s[k]
           /\ \A k \in 1 .. Len(t) : k \in 1 .. Len(s) \/ k = Len(s) + 1
BY AppendProperties, LenProperties

LEMMA Popped ==
    ASSUME NEW S, NEW s \in Seq(S), s # <<>>, NEW t, t = Tail(s)
    PROVE  /\ t \in Seq(S) /\ Len(s) \in Nat /\ Len(t) = Len(s) - 1
           /\ Head(s) = s[1] /\ 1 \in 1 .. Len(s) /\ s[1] \in S
           /\ \A k \in 1 .. Len(t) : k + 1 \in 1 .. Len(s) /\ t[k] = s[k + 1]
           /\ \A k \in 1 .. Len(s) : k = 1 \/ (k - 1 \in 1 .. Len(t) /\ t[k - 1] = s[k])
BY HeadTailProperties, EmptySeq, LenProperties

\* Steps that leave the places alone that a part speaks of.
LEMMA WireFrame ==
    ASSUME WireInv, UNCHANGED <<now, trades, since, wire>>
    PROVE  WireInv'
BY DEF WireInv, ConfirmedFrom

LEMMA PipelineFrame ==
    ASSUME PipelineInv, UNCHANGED <<now, trades, link, pipeline, restored>>
    PROVE  PipelineInv'
BY DEF PipelineInv, Complete

LEMMA StreamFrame ==
    ASSUME StreamInv, UNCHANGED <<now, trades, since, wire, pipeline, shown>>
    PROVE  StreamInv'
BY DEF StreamInv, Subscribed, Final, Pending, ConfirmedFrom, Reached

LEMMA CandleFrame ==
    ASSUME CandleInv, UNCHANGED <<now, trades, since, wire, shown, restored, overtaken>>
    PROVE  CandleInv'
BY DEF CandleInv, Subscribed, Final, Pending, ConfirmedFrom

LEMMA Times ==
    ASSUME TypesOK
    PROVE  now \in 0 .. MaxTime /\ now \in Int /\ since \in Int /\ restored \in Int
           /\ (restored # -1 => restored \in Candles) /\ Lookback \in Nat /\ MaxTime \in Nat
           /\ Len(wire) \in Nat /\ Len(pipeline) \in Nat
BY LookbackAssumption, BoundsAssumption, LenProperties DEF TypesOK, Candles

LEMMA Items ==
    ASSUME TypesOK
    PROVE  /\ \A k \in 1 .. Len(wire) : wire[k] \in Update /\ wire[k].candle \in Candles
           /\ \A k \in 1 .. Len(pipeline) : pipeline[k] \in Download /\ pipeline[k].upto \in Candles
<1>1. /\ \A k \in 1 .. Len(wire) : wire[k] \in Update
      /\ \A k \in 1 .. Len(pipeline) : pipeline[k] \in Download
  BY ElementOfSeq DEF TypesOK
<1> QED
  BY <1>1 DEF Update, Download

-----------------------------------------------------------------------------
(***************************************************************************)
(* The steps.                                                              *)
(***************************************************************************)
LEMMA InitInv == Init => IndInv
<1> SUFFICES ASSUME Init PROVE IndInv
  OBVIOUS
<1>1. wire = <<>> /\ pipeline = <<>> /\ since = -1 /\ restored = -1 /\ now = 0
  BY DEF Init
<1>2. TypesOK
  <2>1. 0 \in Candles /\ wire \in Seq(Update) /\ pipeline \in Seq(Download)
    BY <1>1, BoundsAssumption, EmptySeq DEF Candles
  <2>2. shown \in [Candles -> Shown] /\ trades \in [Candles -> Nat]
    BY DEF Init, Shown
  <2>3. realtime \in BOOLEAN /\ overtaken \in BOOLEAN
    BY Zenon DEF Init
  <2> QED
    BY <1>1, <2>1, <2>2, <2>3 DEF Init, TypesOK
<1> QED
  BY <1>1, <1>2 DEF IndInv, Init, SessionInv, WireInv, PipelineInv, StreamInv, CandleInv, Subscribed

\* An update is pushed: the confirmations on the wire stay.
LEMMA PendingStays ==
    ASSUME wire \in Seq(Update), NEW u \in Update, wire' = Append(wire, u)
    PROVE  \A k \in 1 .. Len(wire), c \in Candles : ConfirmedFrom(k, c) => ConfirmedFrom(k, c)'
<1>1. /\ Len(wire) \in Nat /\ Len(wire') = Len(wire) + 1
      /\ \A k \in 1 .. Len(wire) : wire'[k] = wire[k]
  BY Pushed
<1> QED
  BY <1>1 DEF ConfirmedFrom

LEMMA PendingGrows ==
    ASSUME wire \in Seq(Update), NEW u \in Update, wire' = Append(wire, u)
    PROVE  \A c \in Candles : Pending(c) => Pending(c)'
<1>1. /\ Len(wire) \in Nat /\ Len(wire') = Len(wire) + 1
      /\ \A k \in 1 .. Len(wire) : k \in 1 .. Len(wire') /\ wire'[k] = wire[k]
  BY Pushed
<1> QED
  BY <1>1 DEF Pending, ConfirmedFrom

LEMMA ExchangeTradesStep == IndInv /\ ExchangeTrades => IndInv'
<1> SUFFICES ASSUME IndInv, ExchangeTrades PROVE IndInv'
  OBVIOUS
<1> DEFINE u == [candle |-> now, trades |-> trades[now] + 1, confirm |-> FALSE]
<1> USE DEF IndInv
<1>1. /\ trades' = [trades EXCEPT ![now] = @ + 1]
      /\ wire' = IF Subscribed THEN Append(wire, u) ELSE wire
      /\ UNCHANGED <<realtime, now, link, since, queued, pipeline, shown, restored, overtaken>>
  BY DEF ExchangeTrades, Push, rest, history
<1>2. now \in Candles /\ now \in Int /\ trades[now] \in Nat /\ u \in Update
  BY Times DEF TypesOK, Update
<1>3. /\ \A c \in Candles : c < now => trades'[c] = trades[c]
      /\ trades' \in [Candles -> Nat]
  BY <1>1, <1>2 DEF TypesOK
<1>4. \A c \in Candles : (Pending(c) => Pending(c)') /\ (c < now /\ Final(c) => Final(c)')
  <2>1. \A c \in Candles : Pending(c) => Pending(c)'
    BY <1>1, <1>2, PendingGrows DEF TypesOK, Pending, ConfirmedFrom
  <2> QED
    BY <1>1, <1>3, <2>1 DEF Final
<1> HIDE DEF u
<1>5. TypesOK'
  <2>1. wire' \in Seq(Update)
    BY <1>1, <1>2, Pushed DEF TypesOK
  <2> QED
    BY <1>1, <1>3, <2>1 DEF TypesOK
<1>6. SessionInv'
  BY <1>1 DEF SessionInv, Subscribed
<1>7. WireInv'
  <2>1. CASE Subscribed
    <3>1. wire \in Seq(Update) /\ wire' = Append(wire, u)
      BY <1>1, <2>1 DEF TypesOK
    <3>2. /\ wire'[Len(wire) + 1] = u /\ \A k \in 1 .. Len(wire) : wire'[k] = wire[k]
          /\ \A k \in 1 .. Len(wire') : k \in 1 .. Len(wire) \/ k = Len(wire) + 1
      BY <1>2, <3>1, Pushed
    <3>3. \A k \in 1 .. Len(wire), c \in Candles : ConfirmedFrom(k, c) => ConfirmedFrom(k, c)'
      BY <1>2, <3>1, PendingStays
    <3>4. \A k \in 1 .. Len(wire) : wire[k].candle \in Candles
      BY Items
    <3>5. u.candle = now /\ u.confirm = FALSE /\ now >= since /\ now \in Int
      BY <1>2 DEF u, SessionInv, TypesOK
    <3>6. ASSUME NEW k \in 1 .. Len(wire)
          PROVE  /\ wire'[k].candle >= since' /\ wire'[k].candle <= now'
                 /\ wire'[k].confirm => wire'[k].candle < now' /\ wire'[k].trades = trades'[wire'[k].candle]
                 /\ wire'[k].candle < now' => ConfirmedFrom(k, wire[k].candle)'
      BY <1>1, <1>3, <3>2, <3>3, <3>4 DEF WireInv
    <3>7. ASSUME NEW k \in 1 .. Len(wire')
          PROVE  /\ wire'[k].candle >= since' /\ wire'[k].candle <= now'
                 /\ wire'[k].confirm => wire'[k].candle < now' /\ wire'[k].trades = trades'[wire'[k].candle]
                 /\ wire'[k].candle < now' => ConfirmedFrom(k, wire[k].candle)'
      <4>1. CASE k \in 1 .. Len(wire)
        BY <3>6, <4>1
      <4>2. CASE k = Len(wire) + 1
        BY <1>1, <3>2, <3>5, <4>2
      <4> QED
        BY <3>2, <4>1, <4>2
    <3> QED
      BY <3>7 DEF WireInv
  <2>2. CASE ~Subscribed
    BY <1>1, <2>2, EmptySeq DEF SessionInv, WireInv, ConfirmedFrom
  <2> QED
    BY <2>1, <2>2
<1>8. PipelineInv'
  <2>1. ASSUME NEW k \in 1 .. Len(pipeline), Complete(pipeline[k]) PROVE Complete(pipeline[k])'
    <3>1. pipeline[k].upto \in Candles
      BY Items
    <3>2. \A c \in Candles : pipeline[k].upto <= now /\ c < pipeline[k].upto => c < now
      BY <1>2, <3>1, BoundsAssumption DEF Candles
    <3> QED
      BY <1>1, <1>3, <2>1, <3>2 DEF Complete
  <2> QED
    BY <1>1, <2>1 DEF PipelineInv
<1>9. StreamInv'
  BY <1>1, <1>4 DEF StreamInv, Subscribed, Reached
<1>10. CandleInv'
  BY <1>1, <1>4 DEF CandleInv, Subscribed
<1> QED
  BY <1>5, <1>6, <1>7, <1>8, <1>9, <1>10

LEMMA ExchangeSubscribesStep == IndInv /\ ExchangeSubscribes => IndInv'
<1> SUFFICES ASSUME IndInv, ExchangeSubscribes PROVE IndInv'
  OBVIOUS
<1> USE DEF IndInv
<1>1. /\ link = "up" /\ ~Subscribed /\ since' = now
      /\ UNCHANGED <<realtime, now, trades, link, wire, pipeline, shown, restored, overtaken>>
  BY DEF ExchangeSubscribes, exchange, rest, history
<1>2. now \in Candles /\ now \in Int /\ restored \in Int /\ wire = <<>> /\ now # -1
  BY <1>1, Times DEF TypesOK, SessionInv
<1>3. TypesOK'
  BY <1>1, <1>2 DEF TypesOK
<1>4. SessionInv'
  BY <1>1, <1>2 DEF SessionInv, Subscribed
<1>5. WireInv'
  BY <1>1, <1>2 DEF WireInv
<1>6. PipelineInv'
  BY <1>1, PipelineFrame
<1>7. StreamInv'
  BY <1>1, <1>2, Times DEF StreamInv, Candles
<1>8. CandleInv'
  BY <1>1, <1>2 DEF CandleInv, Final, Pending, ConfirmedFrom, Subscribed
<1> QED
  BY <1>3, <1>4, <1>5, <1>6, <1>7, <1>8

LEMMA ReadyStep == IndInv /\ Ready => IndInv'
<1> SUFFICES ASSUME IndInv, Ready PROVE IndInv'
  OBVIOUS
<1> USE DEF IndInv
<1>1. /\ link = "down" /\ link' = "up"
      /\ UNCHANGED <<realtime, now, trades, since, wire, pipeline, shown, restored, overtaken>>
  BY DEF Ready, exchange, history
<1>2. TypesOK'
  BY <1>1 DEF TypesOK
<1>3. SessionInv'
  BY <1>1 DEF SessionInv, Subscribed
<1>4. PipelineInv'
  BY <1>1 DEF PipelineInv, Complete
<1> QED
  BY <1>1, <1>2, <1>3, <1>4, WireFrame, StreamFrame, CandleFrame

\* What a session leaves behind.
LEMMA DisconnectedStep == IndInv /\ Disconnected => IndInv'
<1> SUFFICES ASSUME IndInv, Disconnected PROVE IndInv'
  OBVIOUS
<1> USE DEF IndInv
<1>1. /\ link' = "down" /\ since' = -1 /\ wire' = <<>> /\ restored' = -1 /\ overtaken' = FALSE
      /\ pipeline' = [k \in DOMAIN pipeline |-> [pipeline[k] EXCEPT !.own = FALSE]]
      /\ UNCHANGED <<realtime, now, trades, shown>>
  BY DEF Disconnected, exchange
<1>2. /\ pipeline' \in Seq(Download) /\ Len(pipeline') = Len(pipeline) /\ Len(pipeline) \in Nat
      /\ \A k \in 1 .. Len(pipeline) :
           pipeline[k] \in Download /\ pipeline'[k] = [pipeline[k] EXCEPT !.own = FALSE]
  <2>1. DOMAIN pipeline = 1 .. Len(pipeline) /\ Len(pipeline) \in Nat
        /\ \A k \in 1 .. Len(pipeline) : pipeline[k] \in Download
    BY LenProperties DEF TypesOK
  <2>2. \A d \in Download : [d EXCEPT !.own = FALSE] \in Download
    BY DEF Download
  <2>3. \A k \in 1 .. Len(pipeline) : [pipeline[k] EXCEPT !.own = FALSE] \in Download
    BY <2>1, <2>2, Zenon
  <2>4. pipeline' \in Seq(Download) /\ Len(pipeline') = Len(pipeline)
    BY <1>1, <2>1, <2>3, IsASeq
  <2> QED
    BY <1>1, <2>1, <2>4
<1>3. TypesOK'
  BY <1>1, <1>2, EmptySeq DEF TypesOK
<1>4. SessionInv'
  BY <1>1, Times DEF SessionInv, Subscribed
<1>5. WireInv'
  BY <1>1, EmptySeq DEF WireInv
<1>6. PipelineInv'
  <2>1. ASSUME NEW k \in 1 .. Len(pipeline)
        PROVE  /\ ~pipeline'[k].own /\ pipeline'[k].answered = pipeline[k].answered
               /\ pipeline'[k].upto = pipeline[k].upto /\ pipeline'[k].from = pipeline[k].from
               /\ pipeline'[k].trades = pipeline[k].trades
    BY <1>2 DEF Download
  <2>2. \A k \in 1 .. Len(pipeline) : Complete(pipeline[k]) => Complete(pipeline[k])'
    BY <1>1, <2>1 DEF Complete
  <2> QED
    <3>1. \A k \in 1 .. Len(pipeline') :
            /\ Complete(pipeline[k])' /\ ~pipeline'[k].own /\ restored' = -1
      BY <1>1, <1>2, <2>1, <2>2 DEF PipelineInv
    <3>2. \A j, k \in 1 .. Len(pipeline') : j <= k =>
            (pipeline'[k].answered => pipeline'[j].answered /\ pipeline'[j].upto <= pipeline'[k].upto)
      BY <1>2, <2>1 DEF PipelineInv
    <3> QED
      BY <3>1, <3>2 DEF PipelineInv
<1> QED
  BY <1>1, <1>3, <1>4, <1>5, <1>6 DEF StreamInv, CandleInv, Subscribed

\* The candle is over, and the stream is told so.
LEMMA ExchangeConfirmsStep == IndInv /\ ExchangeConfirms => IndInv'
<1> SUFFICES ASSUME IndInv, ExchangeConfirms PROVE IndInv'
  OBVIOUS
<1> USE DEF IndInv
<1>0. PICK n \in Candles : n = now
  BY DEF TypesOK
<1> DEFINE u == [candle |-> n, trades |-> trades[n], confirm |-> TRUE]
<1>1. /\ now < MaxTime /\ now' = n + 1
      /\ wire' = IF Subscribed THEN Append(wire, u) ELSE wire
      /\ UNCHANGED <<realtime, trades, link, since, queued, pipeline, shown, restored, overtaken>>
  BY <1>0 DEF ExchangeConfirms, Push, rest, history
<1>2. n \in Int /\ trades[n] \in Nat /\ since \in Int /\ since <= n /\ restored \in Int /\ restored <= n
  BY <1>0, Times DEF TypesOK, SessionInv
<1>3. u \in Update /\ u.candle = n /\ u.confirm /\ u.trades = trades[n]
  BY <1>2 DEF Update
<1> HIDE DEF u
<1>4. \A c \in Candles : c \in Int /\ (c < now' => c < now \/ c = n)
  BY <1>0, <1>1, <1>2 DEF Candles
<1>5. \A c \in Candles : (Pending(c) => Pending(c)') /\ (Final(c) => Final(c)')
  <2>1. \A c \in Candles : Pending(c) => Pending(c)'
    BY <1>1, <1>3, PendingGrows DEF TypesOK, Pending, ConfirmedFrom
  <2> QED
    BY <1>1, <2>1 DEF Final
<1>6. ASSUME Subscribed
      PROVE  /\ wire' \in Seq(Update) /\ Len(wire) \in Nat /\ Len(wire') = Len(wire) + 1
             /\ wire'[Len(wire) + 1] = u /\ \A k \in 1 .. Len(wire) : wire'[k] = wire[k]
             /\ \A k \in 1 .. Len(wire') : k \in 1 .. Len(wire) \/ k = Len(wire) + 1
             /\ \A k \in 1 .. Len(wire') : ConfirmedFrom(k, n)'
  <2>1. wire \in Seq(Update) /\ wire' = Append(wire, u)
    BY <1>1, <1>6 DEF TypesOK
  <2>2. /\ wire' \in Seq(Update) /\ Len(wire) \in Nat /\ Len(wire') = Len(wire) + 1
        /\ wire'[Len(wire) + 1] = u /\ \A k \in 1 .. Len(wire) : wire'[k] = wire[k]
        /\ \A k \in 1 .. Len(wire') : k \in 1 .. Len(wire) \/ k = Len(wire) + 1
    BY <1>3, <2>1, Pushed
  <2>3. ASSUME NEW k \in 1 .. Len(wire') PROVE Len(wire) + 1 \in k .. Len(wire')
    BY <2>2
  <2>4. \A k \in 1 .. Len(wire') : ConfirmedFrom(k, n)'
    BY <1>3, <2>2, <2>3 DEF ConfirmedFrom
  <2> QED
    BY <2>2, <2>4
<1>7. TypesOK'
  <2>1. wire' \in Seq(Update)
    BY <1>1, <1>6 DEF TypesOK
  <2>2. now' \in Candles
    BY <1>0, <1>1, BoundsAssumption DEF Candles
  <2> QED
    BY <1>1, <2>1, <2>2 DEF TypesOK
<1>8. SessionInv'
  <2>1. ~Subscribed => wire' = wire
    BY <1>1
  <2> QED
    BY <1>1, <1>2, <2>1 DEF SessionInv, Subscribed
<1>9. WireInv'
  <2>1. CASE Subscribed
    <3>1. \A k \in 1 .. Len(wire), c \in Candles : ConfirmedFrom(k, c) => ConfirmedFrom(k, c)'
      BY <1>1, <1>3, <2>1, PendingStays DEF TypesOK
    <3>2. ASSUME NEW k \in 1 .. Len(wire')
          PROVE  /\ wire'[k].candle >= since' /\ wire'[k].candle <= now'
                 /\ wire'[k].confirm => wire'[k].candle < now' /\ wire'[k].trades = trades'[wire'[k].candle]
                 /\ wire'[k].candle < now' => ConfirmedFrom(k, wire[k].candle)'
      <4>1. CASE k \in 1 .. Len(wire)
        <5>1. wire'[k] = wire[k] /\ wire[k].candle \in Candles
          BY <1>6, <2>1, <4>1, Items
        <5>2. wire[k].candle < now' => wire[k].candle < now \/ wire[k].candle = n
          BY <1>4, <5>1
        <5>3. wire[k].candle < now' => ConfirmedFrom(k, wire[k].candle)'
          BY <1>6, <2>1, <3>1, <4>1, <5>1, <5>2 DEF WireInv
        <5>4. /\ wire[k].candle >= since /\ wire[k].candle <= now
              /\ wire[k].confirm => wire[k].candle < now /\ wire[k].trades = trades[wire[k].candle]
          BY <4>1 DEF WireInv
        <5>5. wire[k].candle \in Int
          BY <1>4, <5>1
        <5> QED
          BY <1>0, <1>1, <1>2, <5>1, <5>3, <5>4, <5>5
      <4>2. CASE k = Len(wire) + 1
        BY <1>1, <1>2, <1>3, <1>6, <2>1, <4>2
      <4> QED
        BY <1>6, <2>1, <4>1, <4>2
    <3> QED
      BY <3>2 DEF WireInv
  <2>2. CASE ~Subscribed
    BY <1>1, <2>2, EmptySeq DEF SessionInv, WireInv
  <2> QED
    BY <2>1, <2>2
<1>10. PipelineInv'
  <2>1. ASSUME NEW k \in 1 .. Len(pipeline), Complete(pipeline[k]) PROVE Complete(pipeline[k])'
    <3>1. pipeline[k] \in Download /\ pipeline[k].from \in Int /\ pipeline[k].upto \in Int
      <4>1. pipeline[k] \in Download /\ pipeline[k].upto \in Candles
        BY Items
      <4> QED
        BY <1>4, <4>1 DEF Download
    <3> QED
      BY <1>0, <1>1, <1>2, <2>1, <3>1, Times DEF Complete
  <2> QED
    BY <1>1, <2>1 DEF PipelineInv
<1>11. StreamInv'
  <2>1. Subscribed => Pending(n)'
    BY <1>6 DEF Pending
  <2> QED
    BY <1>1, <1>4, <1>5, <2>1 DEF StreamInv, Subscribed, Reached
<1>12. CandleInv'
  <2>1. Subscribed => Pending(n)'
    BY <1>6 DEF Pending
  <2> QED
    BY <1>1, <1>2, <1>4, <1>5, <2>1 DEF CandleInv, Subscribed
<1> QED
  BY <1>7, <1>8, <1>9, <1>10, <1>11, <1>12

LEMMA ExchangeAnswersStep == IndInv /\ ExchangeAnswers => IndInv'
<1> SUFFICES ASSUME IndInv, ExchangeAnswers PROVE IndInv'
  OBVIOUS
<1> USE DEF IndInv
<1>1. UNCHANGED <<realtime, now, trades, link, since, wire, shown, restored, overtaken>>
  BY DEF ExchangeAnswers, exchange, stream, history
<1>2. PICK k \in 1 .. Len(pipeline) :
        /\ ~pipeline[k].answered
        /\ \A j \in 1 .. k - 1 : pipeline[j].answered
        /\ pipeline' = [pipeline EXCEPT ![k] =
             [@ EXCEPT !.answered = TRUE, !.upto = now, !.trades = trades,
                       !.from = IF pipeline[k].from < now + 1 - Limit
                                THEN now + 1 - Limit ELSE pipeline[k].from]]
  BY LenProperties DEF ExchangeAnswers, TypesOK
<1>3. pipeline[k] \in Download /\ pipeline[k].from \in Int /\ pipeline[k].own \in BOOLEAN
  BY Items DEF Download
<1> DEFINE from == IF pipeline[k].from < now + 1 - Limit THEN now + 1 - Limit ELSE pipeline[k].from
           d == [pipeline[k] EXCEPT !.answered = TRUE, !.upto = now, !.trades = trades, !.from = from]
<1>4. from \in Int /\ from <= now - Lookback + 1
  <2>1. pipeline[k].from <= now - Lookback + 1
    BY <1>2 DEF PipelineInv, Complete
  <2> QED
    BY <1>3, <2>1, Times, LookbackAssumption
<1>5. pipeline' = [pipeline EXCEPT ![k] = d]
  BY <1>2
<1> HIDE DEF from
<1>6. d \in Download
  BY <1>3, <1>4 DEF TypesOK, Download
<1>7. d.answered /\ d.upto = now /\ d.own = pipeline[k].own /\ d.trades = trades /\ d.from = from
  BY <1>3 DEF Download
<1> HIDE DEF d
<1>8. /\ pipeline' \in Seq(Download) /\ Len(pipeline') = Len(pipeline) /\ pipeline'[k] = d
      /\ \A j \in 1 .. Len(pipeline) : j # k => pipeline'[j] = pipeline[j]
  BY <1>5, <1>6, ExceptSeq DEF TypesOK
<1>9. TypesOK'
  BY <1>1, <1>8 DEF TypesOK
<1>10. SessionInv'
  BY <1>1 DEF SessionInv, Subscribed
<1>11. \A j \in 1 .. Len(pipeline) : j > k => ~pipeline[j].answered
  BY <1>2 DEF PipelineInv
<1>12. \A j \in 1 .. Len(pipeline) : pipeline[j].answered => pipeline[j].upto <= now
  BY DEF PipelineInv, Complete
<1>13. PipelineInv'
  <2>1. ASSUME NEW j \in 1 .. Len(pipeline)
        PROVE  /\ Complete(pipeline[j])' /\ pipeline'[j].own = pipeline[j].own
               /\ pipeline[j].own => link = "up"
               /\ restored # -1 => pipeline[j].own
    <3>1. CASE j = k
      <4>1. Complete(pipeline[j])'
        BY <1>1, <1>4, <1>7, <1>8, <3>1, Times DEF Complete
      <4> QED
        BY <1>7, <1>8, <3>1, <4>1 DEF PipelineInv
    <3>2. CASE j # k
      <4>1. pipeline'[j] = pipeline[j]
        BY <1>8, <3>2
      <4> QED
        BY <1>1, <4>1 DEF PipelineInv, Complete
    <3> QED
      BY <3>1, <3>2
  <2>2. ASSUME NEW i \in 1 .. Len(pipeline), NEW j \in 1 .. Len(pipeline), i <= j
        PROVE  pipeline'[j].answered => pipeline'[i].answered /\ pipeline'[i].upto <= pipeline'[j].upto
    <3>1. CASE j = k
      <4>1. i = k \/ i \in 1 .. k - 1
        BY <2>2, <3>1
      <4>2. i # k => pipeline[i].answered /\ pipeline[i].upto <= now
        BY <1>2, <1>12, <4>1
      <4> QED
        BY <1>7, <1>8, <3>1, <4>2, Times
    <3>2. CASE j < k
      <4>1. pipeline'[i] = pipeline[i] /\ pipeline'[j] = pipeline[j]
        BY <1>8, <2>2, <3>2
      <4> QED
        BY <2>2, <4>1 DEF PipelineInv
    <3>3. CASE j > k
      BY <1>8, <1>11, <3>3
    <3> QED
      BY <3>1, <3>2, <3>3
  <2>3. \A i, j \in 1 .. Len(pipeline) : i <= j /\ pipeline[i].own => pipeline[j].own
    BY DEF PipelineInv
  <2> QED
    BY <1>1, <1>8, <2>1, <2>2, <2>3 DEF PipelineInv
<1>14. StreamInv'
  <2>1. \A c \in Candles : c < now /\ Reached(c) => Reached(c)'
    <3>1. ASSUME NEW c \in Candles, c < now, Reached(c), NEW j \in 1 .. Len(pipeline), pipeline'[j].answered
          PROVE  c <= pipeline'[j].upto
      <4>1. CASE j = k
        BY <1>7, <1>8, <3>1, <4>1, Times DEF Candles
      <4>2. CASE j # k
        BY <1>8, <3>1, <4>2 DEF Reached
      <4> QED
        BY <4>1, <4>2
    <3> QED
      BY <1>8, <3>1 DEF Reached
  <2> QED
    BY <1>1, <2>1 DEF StreamInv, Subscribed, Final, Pending, ConfirmedFrom
<1> QED
  BY <1>1, <1>9, <1>10, <1>13, <1>14, WireFrame, CandleFrame

LEMMA GetKlineStep == IndInv /\ GetKline => IndInv'
<1> SUFFICES ASSUME IndInv, GetKline PROVE IndInv'
  OBVIOUS
<1> USE DEF IndInv
<1>1. UNCHANGED <<realtime, now, trades, link, since, wire, shown, restored, overtaken>>
  BY DEF GetKline, exchange, stream, history
<1>2. PICK start \in Starts :
        pipeline' = Append(pipeline,
             [own |-> link = "up", answered |-> FALSE, trades |-> [c \in Candles |-> 0],
              from |-> start, upto |-> now])
  BY DEF GetKline
<1> DEFINE d == [own |-> link = "up", answered |-> FALSE, trades |-> [c \in Candles |-> 0],
                 from |-> start, upto |-> now]
<1>3. start \in Int /\ start <= now - Lookback + 1
  BY Times DEF Starts
<1>4. d \in Download
  <2>1. (link = "up") \in BOOLEAN
    BY Zenon
  <2> QED
    BY <1>3, <2>1 DEF TypesOK, Download
<1>5. ~d.answered /\ d.from = start /\ (d.own <=> link = "up")
  OBVIOUS
<1>6. pipeline' = Append(pipeline, d)
  BY <1>2
<1> HIDE DEF d
<1>7. /\ pipeline' \in Seq(Download) /\ Len(pipeline) \in Nat /\ Len(pipeline') = Len(pipeline) + 1
      /\ pipeline'[Len(pipeline) + 1] = d
      /\ \A k \in 1 .. Len(pipeline) : pipeline'[k] = pipeline[k]
      /\ \A k \in 1 .. Len(pipeline') : k \in 1 .. Len(pipeline) \/ k = Len(pipeline) + 1
  BY <1>4, <1>6, Pushed DEF TypesOK
<1>8. TypesOK'
  BY <1>1, <1>7 DEF TypesOK
<1>9. SessionInv'
  BY <1>1 DEF SessionInv, Subscribed
<1>10. PipelineInv'
  <2>1. ASSUME NEW k \in 1 .. Len(pipeline')
        PROVE  /\ Complete(pipeline[k])'
               /\ pipeline'[k].own => link = "up"
               /\ restored # -1 => pipeline'[k].own
    <3>1. CASE k \in 1 .. Len(pipeline)
      BY <1>1, <1>7, <3>1 DEF PipelineInv, Complete
    <3>2. CASE k = Len(pipeline) + 1
      <4>1. restored # -1 => link = "up"
        BY DEF TypesOK, SessionInv
      <4>2. Complete(pipeline[k])'
        BY <1>1, <1>3, <1>5, <1>7, <3>2 DEF Complete
      <4> QED
        BY <1>5, <1>7, <3>2, <4>1, <4>2
    <3> QED
      BY <1>7, <3>1, <3>2
  <2>2. ASSUME NEW i \in 1 .. Len(pipeline'), NEW j \in 1 .. Len(pipeline'), i <= j
        PROVE  /\ pipeline'[i].own => pipeline'[j].own
               /\ pipeline'[j].answered => pipeline'[i].answered /\ pipeline'[i].upto <= pipeline'[j].upto
    <3>1. CASE j \in 1 .. Len(pipeline)
      <4>1. i \in 1 .. Len(pipeline) /\ pipeline'[i] = pipeline[i] /\ pipeline'[j] = pipeline[j]
        BY <1>7, <2>2, <3>1
      <4> QED
        BY <2>2, <3>1, <4>1 DEF PipelineInv
    <3>2. CASE j = Len(pipeline) + 1
      BY <1>5, <1>7, <2>1, <3>2
    <3> QED
      BY <1>7, <3>1, <3>2
  <2> QED
    BY <1>1, <2>1, <2>2 DEF PipelineInv
<1>11. StreamInv'
  <2>1. \A c \in Candles : Reached(c) => Reached(c)'
    BY <1>5, <1>7 DEF Reached
  <2> QED
    BY <1>1, <2>1 DEF StreamInv, Subscribed, Final, Pending, ConfirmedFrom
<1> QED
  BY <1>1, <1>8, <1>9, <1>10, <1>11, WireFrame, CandleFrame

\* An update is delivered.
LEMMA KlineStep == IndInv /\ Kline => IndInv'
<1> SUFFICES ASSUME IndInv, Kline PROVE IndInv'
  OBVIOUS
<1> USE DEF IndInv
<1>1. /\ link = "up" /\ wire # <<>> /\ wire' = Tail(wire)
      /\ UNCHANGED <<realtime, now, trades, link, since, pipeline, restored, overtaken>>
  BY DEF Kline, exchange, rest, history
<1>2. /\ wire' \in Seq(Update) /\ Len(wire) \in Nat /\ Len(wire') = Len(wire) - 1
      /\ Head(wire) = wire[1] /\ 1 \in 1 .. Len(wire)
      /\ \A k \in 1 .. Len(wire') : k + 1 \in 1 .. Len(wire) /\ wire'[k] = wire[k + 1]
      /\ \A k \in 1 .. Len(wire) : k = 1 \/ (k - 1 \in 1 .. Len(wire') /\ wire'[k - 1] = wire[k])
  BY <1>1, Popped DEF TypesOK
<1>3. PICK item \in Update : item = wire[1]
  BY <1>2, Items
<1>4. shown' = IF item.confirm \/ realtime
               THEN [shown EXCEPT ![item.candle] = [trades |-> item.trades, confirmed |-> item.confirm]]
               ELSE shown
  BY <1>2, <1>3 DEF Kline
<1>5. item.candle \in Candles /\ [trades |-> item.trades, confirmed |-> item.confirm] \in Shown
  BY DEF Update, Shown
<1>6. /\ item.confirm => item.candle < now /\ item.trades = trades[item.candle]
      /\ item.candle < now => ConfirmedFrom(1, item.candle)
  BY <1>2, <1>3 DEF WireInv
<1>7. \A k \in 1 .. Len(wire'), c \in Candles : ConfirmedFrom(k + 1, c) => ConfirmedFrom(k, c)'
  <2>1. ASSUME NEW k \in 1 .. Len(wire'), NEW c \in Candles, ConfirmedFrom(k + 1, c)
        PROVE  ConfirmedFrom(k, c)'
    <3>1. PICK j \in k + 1 .. Len(wire) : wire[j].candle = c /\ wire[j].confirm
      BY <2>1 DEF ConfirmedFrom
    <3>2. j - 1 \in k .. Len(wire') /\ wire'[j - 1] = wire[j]
      BY <1>2
    <3> QED
      BY <3>1, <3>2 DEF ConfirmedFrom
  <2> QED
    BY <2>1
<1>8. \A c \in Candles : Pending(c) => Pending(c)' \/ (item.confirm /\ item.candle = c)
  <2>1. ASSUME NEW c \in Candles, Pending(c)
        PROVE  Pending(c)' \/ (item.confirm /\ item.candle = c)
    <3>1. PICK j \in 1 .. Len(wire) : wire[j].candle = c /\ wire[j].confirm
      BY <2>1 DEF Pending, ConfirmedFrom
    <3>2. CASE j = 1
      BY <1>3, <3>1, <3>2
    <3>3. CASE j # 1
      <4>1. j - 1 \in 1 .. Len(wire') /\ wire'[j - 1] = wire[j]
        BY <1>2, <3>3
      <4> QED
        BY <3>1, <4>1 DEF Pending, ConfirmedFrom
    <3> QED
      BY <3>2, <3>3
  <2> QED
    BY <2>1
<1>9. TypesOK'
  <2>1. shown' \in [Candles -> Shown]
    BY <1>4, <1>5 DEF TypesOK
  <2> QED
    BY <1>1, <1>2, <2>1 DEF TypesOK
<1>10. item.confirm => Final(item.candle)'
  BY <1>1, <1>4, <1>5, <1>6 DEF Final, TypesOK
<1>11. ASSUME NEW c \in Candles, c < now, Final(c) \/ Pending(c)
       PROVE  Final(c)' \/ Pending(c)'
  <2>1. CASE item.candle = c
    <3>1. Pending(c)
      BY <1>6, <1>11, <2>1 DEF Pending
    <3> QED
      BY <1>8, <1>10, <2>1, <3>1
  <2>2. CASE item.candle # c
    <3>1. shown'[c] = shown[c]
      BY <1>4, <1>5, <2>2 DEF TypesOK
    <3> QED
      BY <1>1, <1>8, <1>11, <2>2, <3>1 DEF Final
  <2> QED
    BY <2>1, <2>2
<1>12. SessionInv'
  <2>1. Subscribed
    BY <1>1 DEF SessionInv
  <2> QED
    BY <1>1, <2>1 DEF SessionInv, Subscribed
<1>13. WireInv'
  <2>1. ASSUME NEW k \in 1 .. Len(wire')
        PROVE  /\ wire'[k].candle >= since' /\ wire'[k].candle <= now'
               /\ wire'[k].confirm => wire'[k].candle < now' /\ wire'[k].trades = trades'[wire'[k].candle]
               /\ wire'[k].candle < now' => ConfirmedFrom(k, wire[k].candle)'
    <3>1. k + 1 \in 1 .. Len(wire) /\ wire'[k] = wire[k + 1] /\ wire[k + 1].candle \in Candles
      BY <1>2, Items
    <3> QED
      BY <1>1, <1>7, <3>1 DEF WireInv
  <2> QED
    BY <2>1 DEF WireInv
<1>14. StreamInv'
  BY <1>1, <1>11 DEF StreamInv, Subscribed, Reached
<1>15. CandleInv'
  BY <1>1, <1>11 DEF CandleInv, Subscribed
<1> QED
  BY <1>1, <1>9, <1>12, <1>13, <1>14, <1>15, PipelineFrame

\* The first download is done with.
LEMMA DownloadDone ==
    ASSUME TypesOK, PipelineInv, pipeline # <<>>, pipeline' = Tail(pipeline)
    PROVE  /\ pipeline' \in Seq(Download) /\ Len(pipeline) \in Nat
           /\ Head(pipeline) = pipeline[1] /\ 1 \in 1 .. Len(pipeline)
           /\ \A k \in 1 .. Len(pipeline') : k + 1 \in 1 .. Len(pipeline) /\ pipeline'[k] = pipeline[k + 1]
           /\ \A c \in Candles : Reached(c) => Reached(c)'
           /\ UNCHANGED <<now, trades, link, restored>> => PipelineInv'
<1>1. /\ pipeline' \in Seq(Download) /\ Len(pipeline) \in Nat
      /\ Head(pipeline) = pipeline[1] /\ 1 \in 1 .. Len(pipeline)
      /\ \A k \in 1 .. Len(pipeline') : k + 1 \in 1 .. Len(pipeline) /\ pipeline'[k] = pipeline[k + 1]
  BY Popped DEF TypesOK
<1>2. \A c \in Candles : Reached(c) => Reached(c)'
  BY <1>1 DEF Reached
<1>3. ASSUME UNCHANGED <<now, trades, link, restored>> PROVE PipelineInv'
  <2>1. ASSUME NEW k \in 1 .. Len(pipeline')
        PROVE  /\ Complete(pipeline[k])'
               /\ pipeline'[k].own => link = "up"
               /\ restored # -1 => pipeline'[k].own
    BY <1>1, <1>3 DEF PipelineInv, Complete
  <2>2. ASSUME NEW j \in 1 .. Len(pipeline'), NEW k \in 1 .. Len(pipeline'), j <= k
        PROVE  /\ pipeline'[j].own => pipeline'[k].own
               /\ pipeline'[k].answered => pipeline'[j].answered /\ pipeline'[j].upto <= pipeline'[k].upto
    <3>1. /\ j + 1 \in 1 .. Len(pipeline) /\ k + 1 \in 1 .. Len(pipeline) /\ j + 1 <= k + 1
          /\ pipeline'[j] = pipeline[j + 1] /\ pipeline'[k] = pipeline[k + 1]
      BY <1>1, <2>2
    <3> QED
      BY <3>1 DEF PipelineInv
  <2> QED
    BY <1>3, <2>1, <2>2 DEF PipelineInv
<1> QED
  BY <1>1, <1>2, <1>3

LEMMA GetKlineFailsStep == IndInv /\ GetKlineFails => IndInv'
<1> SUFFICES ASSUME IndInv, GetKlineFails PROVE IndInv'
  OBVIOUS
<1> USE DEF IndInv
<1>1. /\ pipeline # <<>> /\ pipeline' = Tail(pipeline)
      /\ UNCHANGED <<realtime, now, trades, link, since, wire, shown, restored, overtaken>>
  BY DEF GetKlineFails, exchange, stream, history
<1>2. pipeline' \in Seq(Download) /\ PipelineInv' /\ \A c \in Candles : Reached(c) => Reached(c)'
  BY <1>1, DownloadDone
<1>3. TypesOK'
  BY <1>1, <1>2 DEF TypesOK
<1>4. SessionInv'
  BY <1>1 DEF SessionInv, Subscribed
<1>5. StreamInv'
  BY <1>1, <1>2 DEF StreamInv, Subscribed, Final, Pending, ConfirmedFrom
<1> QED
  BY <1>1, <1>2, <1>3, <1>4, <1>5, WireFrame, CandleFrame

\* The history: what is before its last candle is final, that candle may not be.
LEMMA KlineAckStep == IndInv /\ KlineAck => IndInv'
<1> SUFFICES ASSUME IndInv, KlineAck PROVE IndInv'
  OBVIOUS
<1> USE DEF IndInv
<1>1. /\ pipeline # <<>> /\ pipeline' = Tail(pipeline)
      /\ UNCHANGED <<realtime, now, trades, link, since, wire>>
  BY DEF KlineAck, exchange, stream
<1>2. /\ pipeline' \in Seq(Download) /\ Head(pipeline) = pipeline[1] /\ 1 \in 1 .. Len(pipeline)
      /\ \A k \in 1 .. Len(pipeline') : k + 1 \in 1 .. Len(pipeline) /\ pipeline'[k] = pipeline[k + 1]
      /\ \A c \in Candles : Reached(c) => Reached(c)'
      /\ UNCHANGED restored => PipelineInv'
  BY <1>1, DownloadDone
<1>3. PICK d \in Download : d = pipeline[1]
  BY <1>2, Items
<1>4. /\ d.answered
      /\ shown' = [c \in Candles |-> IF c \in d.from .. d.upto
                                     THEN [trades |-> d.trades[c], confirmed |-> TRUE] ELSE shown[c]]
      /\ IF d.own THEN restored' = d.upto /\ overtaken' = ConfirmDelivered(d.upto)
         ELSE UNCHANGED <<restored, overtaken>>
  BY <1>2, <1>3 DEF KlineAck, history
<1>5. PICK u \in Candles : u = d.upto
  BY DEF Download
<1>6. /\ u \in Int /\ d.from \in Int /\ d.from <= u - Lookback + 1 /\ u <= now
      /\ \A c \in Candles : c \in Int /\ (c < u => d.trades[c] = trades[c])
  <2>1. Complete(d)
    BY <1>2, <1>3 DEF PipelineInv
  <2>2. d.from \in Int
    BY DEF Download
  <2> QED
    BY <1>4, <1>5, <2>1, <2>2 DEF Complete, Candles
<1>7. \A k \in 1 .. Len(pipeline') : pipeline'[k].answered => u <= pipeline'[k].upto
  BY <1>2, <1>3, <1>5 DEF PipelineInv
\* What it reaches, and what it does not.
<1>8. ASSUME NEW c \in Candles, c < now
      PROVE  /\ c # u /\ Final(c) => Final(c)'
             /\ c < u /\ c >= d.from => Final(c)'
             /\ Pending(c) => Pending(c)'
  <2>1. c \in d.from .. u => shown'[c] = [trades |-> d.trades[c], confirmed |-> TRUE]
    BY <1>4, <1>5
  <2>2. c \notin d.from .. u => shown'[c] = shown[c]
    BY <1>4, <1>5
  <2>3. c < u /\ c >= d.from => Final(c)'
    <3>1. CASE c < u /\ c >= d.from
      <4>1. c \in d.from .. u /\ d.trades[c] = trades[c]
        BY <1>6, <3>1
      <4> QED
        BY <1>1, <2>1, <4>1 DEF Final
    <3> QED
      BY <3>1
  <2>4. c # u /\ Final(c) => Final(c)'
    BY <1>1, <1>6, <2>2, <2>3 DEF Final
  <2>5. Pending(c) => Pending(c)'
    BY <1>1 DEF Pending, ConfirmedFrom
  <2> QED
    BY <2>3, <2>4, <2>5
<1>9. TypesOK'
  <2>1. shown' \in [Candles -> Shown]
    <3>1. d.trades \in [Candles -> Nat]
      BY DEF Download
    <3> QED
      BY <1>4, <3>1 DEF TypesOK, Shown
  <2>2. restored' \in Candles \cup {-1}
    BY <1>4, <1>5 DEF TypesOK
  <2>3. overtaken' \in BOOLEAN
    <3>1. ConfirmDelivered(d.upto) \in BOOLEAN
      BY Zenon DEF ConfirmDelivered
    <3> QED
      BY <1>4, <3>1, Zenon DEF TypesOK
  <2> QED
    BY <1>1, <1>2, <2>1, <2>2, <2>3 DEF TypesOK
<1>10. d.own => link = "up" /\ \A k \in 1 .. Len(pipeline) : pipeline[k].own
  BY <1>2, <1>3 DEF PipelineInv
<1>11. ~d.own => restored = -1 /\ restored' = -1
  BY <1>2, <1>3, <1>4 DEF PipelineInv
<1>12. SessionInv'
  BY <1>1, <1>4, <1>5, <1>6, <1>10 DEF SessionInv, Subscribed
<1>13. PipelineInv'
  <2>1. CASE ~d.own
    BY <1>2, <1>4, <2>1
  <2>2. CASE d.own
    <3>1. \A k \in 1 .. Len(pipeline') : Complete(pipeline[k])' /\ pipeline'[k].own /\ link' = "up"
      BY <1>1, <1>2, <1>10, <2>2 DEF PipelineInv, Complete
    <3>2. ASSUME NEW j \in 1 .. Len(pipeline'), NEW k \in 1 .. Len(pipeline'), j <= k
          PROVE  pipeline'[k].answered => pipeline'[j].answered /\ pipeline'[j].upto <= pipeline'[k].upto
      <4>1. /\ j + 1 \in 1 .. Len(pipeline) /\ k + 1 \in 1 .. Len(pipeline) /\ j + 1 <= k + 1
            /\ pipeline'[j] = pipeline[j + 1] /\ pipeline'[k] = pipeline[k + 1]
        BY <1>2, <3>2
      <4> QED
        BY <4>1 DEF PipelineInv
    <3> QED
      BY <3>1, <3>2 DEF PipelineInv
  <2> QED
    BY <2>1, <2>2
<1>14. StreamInv'
  <2>1. ASSUME Subscribed, NEW c \in Candles, since <= c, c < now
        PROVE  Final(c)' \/ Pending(c)' \/ Reached(c)'
    <3>1. Final(c) \/ Pending(c) \/ Reached(c)
      BY <2>1 DEF StreamInv
    <3>2. c = u => Reached(c)'
      BY <1>7 DEF Reached
    <3> QED
      BY <1>2, <1>8, <2>1, <3>1, <3>2
  <2> QED
    BY <1>1, <2>1 DEF StreamInv, Subscribed
<1>15. CandleInv'
  <2>1. CASE ~d.own
    BY <1>11, <2>1 DEF CandleInv
  <2>2. CASE d.own
    <3>1. ASSUME NEW c \in Candles, c < now, c > u - Lookback
          PROVE  \/ Final(c)' \/ Pending(c)'
                 \/ u <= c /\ (~Subscribed \/ c < since)
                 \/ c = u /\ ConfirmDelivered(u)
      <4>1. CASE c < u
        <5>1. c >= d.from
          BY <1>6, <3>1, LookbackAssumption
        <5> QED
          BY <1>8, <3>1, <4>1, <5>1
      <4>2. CASE c = u
        <5>1. ASSUME Subscribed, since <= u, ~ConfirmDelivered(u) PROVE Pending(u)
          <6>1. PICK k \in 1 .. Len(wire) : wire[k].candle = u
            BY <3>1, <4>2, <5>1, LenProperties DEF ConfirmDelivered, TypesOK
          <6>2. ConfirmedFrom(k, u)
            BY <3>1, <4>2, <6>1 DEF WireInv
          <6> QED
            BY <6>2 DEF ConfirmedFrom, Pending
        <5>2. Pending(u) => Pending(c)'
          BY <1>8, <3>1, <4>2
        <5>3. since \in Int /\ u <= c /\ (since <= u \/ c < since)
          BY <1>6, <4>2, Times
        <5> QED
          BY <4>2, <5>1, <5>2, <5>3, Zenon
      <4>3. CASE c > u
        <5>1. ~Reached(c)
          BY <1>2, <1>3, <1>4, <1>5, <1>6, <4>3 DEF Reached
        <5>2. Subscribed /\ since <= c => Final(c)' \/ Pending(c)'
          <6>1. Subscribed /\ since <= c => Final(c) \/ Pending(c)
            BY <3>1, <5>1 DEF StreamInv
          <6>2. c # u
            BY <1>6, <4>3
          <6> QED
            BY <1>8, <3>1, <6>1, <6>2
        <5>3. since \in Int /\ c \in Int
          BY <1>6, Times
        <5> QED
          BY <1>6, <4>3, <5>2, <5>3
      <4> QED
        BY <1>6, <4>1, <4>2, <4>3
    <3>2. restored' = u /\ overtaken' = ConfirmDelivered(u)
      BY <1>4, <1>5, <2>2
    <3> QED
      BY <1>1, <3>1, <3>2 DEF CandleInv, Subscribed
  <2> QED
    BY <2>1, <2>2
<1> QED
  BY <1>1, <1>9, <1>12, <1>13, <1>14, <1>15, WireFrame

LEMMA NextInv == IndInv /\ [Next]_vars => IndInv'
<1> SUFFICES ASSUME IndInv, [Next]_vars PROVE IndInv'
  OBVIOUS
<1>1. CASE UNCHANGED vars
  <2>1. UNCHANGED <<realtime, now, trades, link, since, wire, pipeline, shown, restored, overtaken>>
    BY <1>1 DEF vars, exchange, stream, rest, history
  <2>2. TypesOK' /\ SessionInv'
    BY <2>1 DEF IndInv, TypesOK, SessionInv, Subscribed
  <2> QED
    BY <2>1, <2>2, WireFrame, PipelineFrame, StreamFrame, CandleFrame DEF IndInv
<1>2. CASE Next
  BY <1>2, ExchangeTradesStep, ExchangeConfirmsStep, ExchangeSubscribesStep, ExchangeAnswersStep,
     ReadyStep, DisconnectedStep, KlineStep, GetKlineStep, GetKlineFailsStep, KlineAckStep DEF Next
<1> QED
  BY <1>1, <1>2

\* The strengthened invariant is one.
THEOREM Inductive == Spec => []IndInv
BY InitInv, NextInv, PTL DEF Spec

\* Once the history of the session is in and its updates are delivered, the candles of
\* the lookback that are over are shown as the exchange has them, but for those in the
\* gap and the one whose confirmation overtook the history (Rest and MarketData).
THEOREM CandlesFinalHolds == Spec => []CandlesFinal
<1>1. IndInv => CandlesFinal
  <2> SUFFICES ASSUME IndInv, restored # -1, Subscribed, wire = <<>>,
                      NEW c \in Candles, c < now, c > restored - Lookback
               PROVE  Final(c) \/ InTheGap(c) \/ (c = restored /\ overtaken)
    BY DEF CandlesFinal
  <2>1. ~Pending(c)
    BY EmptySeq DEF Pending, ConfirmedFrom
  <2> QED
    BY <2>1 DEF IndInv, CandleInv, InTheGap
<1> QED
  BY <1>1, Inductive, PTL
=============================================================================
