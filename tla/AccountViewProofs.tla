-------------------------- MODULE AccountViewProofs --------------------------
(***************************************************************************)
(* Proof that the view of a topic is complete and no older than it should  *)
(* be, for any log of the exchange, any lookbacks and limits, any number   *)
(* of sessions, and any number of requests in flight.                      *)
(*                                                                         *)
(* Three things carry it.  What happens after the subscription is on the   *)
(* wire or was published (WireInv).  A request of the session was sent     *)
(* after the acknowledgement, so that its answer has at least what came    *)
(* before the subscription, and requests of older sessions are in front of *)
(* it (PipelineInv).  Hence, from the session's first answer on, whatever  *)
(* REST still publishes is no older than the subscription (ViewInv).       *)
(***************************************************************************)
EXTENDS AccountView, FiniteSetTheorems, SequenceTheorems, WellFoundedInduction, TLAPS

Event == [kind: {"fill", "cancel"}, time: Nat]
RequestType == [own: BOOLEAN, at: Nat, upto: Int, from: Int]

TypesOK ==
    /\ topic \in Topics /\ now \in Nat /\ log \in Seq(Event)
    /\ since \in Int /\ wire \in Seq(Nat) /\ pipeline \in Seq(RequestType)
    /\ published \in SUBSET Nat /\ shown \in Nat /\ restored \in BOOLEAN

SessionInv ==
    /\ -1 <= since /\ since <= Len(log)
    /\ Acknowledged => Subscribed
    /\ ~Subscribed => wire = <<>>
    /\ restored => Acknowledged

WireInv ==
    /\ \A k \in 1 .. Len(wire) : wire[k] \in Told(Len(log)) /\ wire[k] > since
    /\ Subscribed => \A i \in Told(Len(log)) : i > since => i \in published \cup OnWire

InFlightInv(k) ==
    /\ pipeline[k].upto = -1 \/ pipeline[k].upto \in 0 .. Len(log)
    /\ pipeline[k].own => Acknowledged /\ (pipeline[k].upto = -1 \/ since <= pipeline[k].upto)
    /\ topic = "execution" => pipeline[k].from <= pipeline[k].at + Margin - ShortestLookback
    /\ restored => pipeline[k].own
    /\ \A j \in 1 .. k : pipeline[j].own => pipeline[k].own
PipelineInv == \A k \in 1 .. Len(pipeline) : InFlightInv(k)

\* Once a snapshot of the session is in: nothing from before the subscription is missing
\* (an order may have been closed without an update or a snapshot that says so), and
\* what is shown is no older.
FillsRestored == restored /\ topic = "execution" => Fills(since) \subseteq published \cup excused
VersionRestored ==
    restored /\ topic \in StateTopics =>
        \/ Version(since) \in published
        \/ \E i \in Told(Len(log)) : i > since
        \/ topic = "order" /\ Closed(since)
NotOlder ==
    restored /\ topic \in StateTopics =>
        shown >= Version(since) \/ (topic = "order" /\ Closed(Len(log)))
ViewInv ==
    /\ published \subseteq Told(Len(log)) \cup {0}
    /\ FillsRestored /\ VersionRestored /\ NotOlder

IndInv == TypesOK /\ SessionInv /\ WireInv /\ PipelineInv /\ ViewInv

-----------------------------------------------------------------------------
(***************************************************************************)
(* Versions.                                                               *)
(***************************************************************************)

\* A set of numbers that are bounded has a greatest.
LEMMA HasMaximum ==
    ASSUME NEW n \in Nat, NEW S \in SUBSET (0 .. n), S # {}
    PROVE  \E x \in S : \A y \in S : y <= x
<1> DEFINE R == {ss \in Nat \X Nat : ss[1] < ss[2]}
           T == {n - x : x \in S}
<1>1. IsWellFoundedOn(R, Nat)
  BY NatLessThanWellFounded DEF OpToRel
<1>2. \A a, b \in Nat : a < b => <<a, b>> \in R
  OBVIOUS
<1>3. \A x \in S : x \in 0 .. n /\ n - x \in Nat
  OBVIOUS
<1>4. T \subseteq Nat /\ T # {}
  BY <1>3
<1> HIDE DEF R
<1>5. PICK t \in T : \A s \in T : ~(<<s, t>> \in R)
  BY <1>1, <1>4, WFMin
<1>6. PICK x \in S : t = n - x
  BY <1>5
<1>7. ASSUME NEW y \in S PROVE y <= x
  <2>1. n - y \in T /\ n - y \in Nat /\ t \in Nat
    BY <1>4
  <2>2. ~(n - y < t)
    BY <2>1, <1>2, <1>5
  <2> QED
    BY <2>2, <1>3, <1>6
<1> QED
  BY <1>7

LEMMA LatestIsMaximum ==
    ASSUME NEW n \in Nat, NEW S \in SUBSET (0 .. n), S # {}
    PROVE  Latest(S) \in S /\ \A y \in S : y <= Latest(S)
BY HasMaximum DEF Latest

LEMMA LatestOfOne ==
    ASSUME NEW v \in Nat
    PROVE  Latest({v}) = v
BY DEF Latest

LEMMA LatestOfNone == Latest({}) = 0
BY DEF Latest

\* The version is the greatest of what was told, if anything was.
LEMMA VersionIsMaximum ==
    ASSUME NEW n \in Nat
    PROVE  /\ Version(n) \in 0 .. n
           /\ Told(n) # {} => Version(n) \in Told(n)
           /\ Told(n) = {} => Version(n) = 0
           /\ \A i \in Told(n) : i <= Version(n)
<1>1. Told(n) \in SUBSET (1 .. n)
  BY DEF Told, Fills
<1>2. CASE Told(n) = {}
  BY <1>2, LatestOfNone DEF Version
<1>3. CASE Told(n) # {}
  <2>1. Told(n) \in SUBSET (0 .. n)
    BY <1>1
  <2>2. Latest(Told(n)) \in Told(n) /\ \A i \in Told(n) : i <= Latest(Told(n))
    BY <1>3, <2>1, LatestIsMaximum, Zenon
  <2> QED
    BY <1>3, <2>1, <2>2 DEF Version
<1> QED
  BY <1>2, <1>3

\* What was told of fewer events is a part of what is told of more.
LEMMA ToldGrows ==
    ASSUME NEW n \in Nat, NEW m \in Nat, m <= n
    PROVE  /\ Told(m) = {i \in Told(n) : i <= m}
           /\ Fills(m) = {i \in Fills(n) : i <= m}
           /\ Closed(m) => Closed(n)
           /\ Version(m) <= Version(n)
<1>1. /\ Told(m) = {i \in Told(n) : i <= m} /\ Fills(m) = {i \in Fills(n) : i <= m}
      /\ Closed(m) => Closed(n)
  BY DEF Told, Fills, Closed
<1>2. Version(m) <= Version(n)
  <2>1. CASE Told(m) = {}
    BY <2>1, VersionIsMaximum
  <2>2. CASE Told(m) # {}
    BY <2>2, <1>1, VersionIsMaximum
  <2> QED
    BY <2>1, <2>2
<1> QED
  BY <1>1, <1>2

\* What happens changes nothing of what was told before.
LEMMA LogGrows ==
    ASSUME log \in Seq(Event), NEW e \in Event, log' = Append(log, e), topic' = topic,
           NEW n \in Int, n <= Len(log)
    PROVE  /\ Told(n)' = Told(n) /\ Fills(n)' = Fills(n)
           /\ Closed(n)' <=> Closed(n)
           /\ Version(n)' = Version(n)
<1>1. \A i \in 1 .. n : log'[i] = log[i]
  BY AppendProperties
<1>2. Fills(n)' = Fills(n) /\ (Closed(n)' <=> Closed(n))
  BY <1>1 DEF Fills, Closed
<1>3. Told(n)' = Told(n)
  BY <1>2 DEF Told
<1> QED
  BY <1>2, <1>3 DEF Version

-----------------------------------------------------------------------------
(***************************************************************************)
(* The steps.                                                              *)
(***************************************************************************)
LEMMA InitInv == Init => IndInv
<1> SUFFICES ASSUME Init PROVE IndInv
  OBVIOUS
<1>1. topic \in Topics /\ log = <<>> /\ since = -1 /\ wire = <<>> /\ pipeline = <<>>
  BY DEF Init
<1>2. TypesOK
  <2>1. log \in Seq(Event) /\ wire \in Seq(Nat) /\ pipeline \in Seq(RequestType)
    BY <1>1
  <2>2. restored \in BOOLEAN
    BY Zenon DEF Init
  <2> QED
    BY <1>1, <2>1, <2>2 DEF Init, TypesOK
<1>3. SessionInv /\ WireInv /\ PipelineInv
  BY DEF Init, SessionInv, WireInv, PipelineInv, Subscribed, Acknowledged, Service!Init
<1>4. ViewInv
  BY DEF Init, ViewInv, FillsRestored, VersionRestored, NotOlder
<1> QED
  BY <1>2, <1>3, <1>4 DEF IndInv

\* Something happens at the exchange, which tells of it if it was asked to.
LEMMA HappensStep ==
    ASSUME IndInv, NEW kind \in {"fill", "cancel"}, Happens(kind)
    PROVE  IndInv'
<1> DEFINE e == [kind |-> kind, time |-> now]
<1> USE DEF IndInv
<1>0. PICK n \in Nat : n = Len(log)
  BY DEF TypesOK
<1>1. /\ log' = Append(log, e) /\ e \in Event
      /\ UNCHANGED <<service, topic, now, link, sessions, since, rest, view, history>>
  BY DEF Happens, TypesOK, Event
<1>2. n = Len(log) /\ Len(log') = n + 1 /\ log' \in Seq(Event) /\ log'[n + 1] = e
  BY <1>0, <1>1, AppendProperties DEF TypesOK
<1>3. \A m \in Int : m <= n =>
        Told(m)' = Told(m) /\ Fills(m)' = Fills(m) /\ (Closed(m)' <=> Closed(m)) /\ Version(m)' = Version(m)
  BY <1>0, <1>1, LogGrows DEF TypesOK
<1>4. Told(n + 1)' = Told(n) \cup (IF kind = "cancel" /\ topic # "order" THEN {} ELSE {n + 1})
  <2>1. \A i \in 1 .. n : log'[i] = log[i]
    BY <1>0, <1>1, AppendProperties DEF TypesOK
  <2> QED
    BY <1>0, <1>1, <1>2, <2>1 DEF Told, Fills
<1>5. IF Subscribed /\ (kind = "cancel" => topic = "order")
      THEN wire' = Append(wire, n + 1) ELSE wire' = wire
  BY <1>0 DEF Happens
<1>6. TypesOK'
  <2>1. n + 1 \in Nat /\ wire \in Seq(Nat)
    BY DEF TypesOK
  <2>2. wire' \in Seq(Nat)
    BY <1>5, <2>1, AppendProperties
  <2> QED
    BY <1>1, <1>2, <2>2 DEF TypesOK, rest, view, history
<1>7. SessionInv'
  BY <1>1, <1>2, <1>5 DEF SessionInv, Subscribed, Acknowledged, service, history, TypesOK
<1>8. Closed(n) => Closed(n + 1)'
  <2>1. Closed(n) => Closed(n)'
    BY <1>2, <1>3
  <2> QED
    BY <1>2, <2>1 DEF Closed
<1>9. WireInv'
  <2>1. CASE Subscribed /\ (kind = "cancel" => topic = "order")
    <3>1. /\ Len(wire') = Len(wire) + 1 /\ wire'[Len(wire) + 1] = n + 1 /\ Len(wire) \in Nat
          /\ \A k \in 1 .. Len(wire) : wire'[k] = wire[k]
      <4>1. n + 1 \in Nat /\ wire \in Seq(Nat) /\ wire' = Append(wire, n + 1)
        BY <1>5, <2>1 DEF TypesOK
      <4> QED
        BY <4>1, AppendProperties, LenProperties
    <3>2. OnWire' = OnWire \cup {n + 1}
      BY <3>1 DEF OnWire
    <3>3. n + 1 > since /\ Told(n + 1)' = Told(n) \cup {n + 1}
      BY <1>2, <1>4, <2>1 DEF SessionInv, TypesOK
    <3>4. \A k \in 1 .. Len(wire') : wire'[k] \in Told(n + 1)' /\ wire'[k] > since
      BY <1>2, <3>1, <3>3 DEF WireInv
    <3>5. \A i \in Told(n + 1)' : i > since => i \in published \cup OnWire'
      BY <1>2, <2>1, <3>2, <3>3 DEF WireInv
    <3> QED
      BY <1>1, <1>2, <3>4, <3>5 DEF WireInv, view
  <2>2. CASE ~(Subscribed /\ (kind = "cancel" => topic = "order"))
    <3>1. wire' = wire /\ OnWire' = OnWire
      BY <1>5, <2>2 DEF OnWire
    <3> QED
      BY <1>1, <1>2, <1>4, <2>2, <3>1 DEF WireInv, SessionInv, Subscribed, view, TypesOK
  <2> QED
    BY <2>1, <2>2
<1>10. PipelineInv'
  BY <1>1, <1>2 DEF PipelineInv, InFlightInv, Acknowledged, service, rest, history, ShortestLookback
<1>11. since \in Int /\ since <= n /\ Told(since)' = Told(since) /\ Fills(since)' = Fills(since)
       /\ (Closed(since)' <=> Closed(since)) /\ Version(since)' = Version(since)
  BY <1>1, <1>2, <1>3 DEF TypesOK, SessionInv
<1>12. ViewInv'
  <2>1. published' \subseteq Told(Len(log))' \cup {0}
    BY <1>1, <1>2, <1>4 DEF ViewInv, view
  <2>2. FillsRestored'
    BY <1>1, <1>11 DEF ViewInv, FillsRestored, view, history
  <2>3. VersionRestored'
    BY <1>1, <1>2, <1>4, <1>11 DEF ViewInv, VersionRestored, view, history
  <2>4. NotOlder'
    BY <1>1, <1>2, <1>8, <1>11 DEF ViewInv, NotOlder, view, history
  <2> QED
    BY <2>1, <2>2, <2>3, <2>4 DEF ViewInv
<1> QED
  BY <1>6, <1>7, <1>9, <1>10, <1>12

\* Steps that leave the contents alone.
LEMMA ViewFrame ==
    ASSUME ViewInv, UNCHANGED <<topic, log, since, published, shown, restored, excused>>
    PROVE  ViewInv'
<1>1. UNCHANGED <<Told(Len(log)), Fills(since), Version(since), Closed(since), Closed(Len(log))>>
  BY DEF Told, Fills, Version, Closed, Latest
<1> QED
  BY <1>1 DEF ViewInv, FillsRestored, VersionRestored, NotOlder

LEMMA WireFrame ==
    ASSUME WireInv, UNCHANGED <<topic, log, since, wire, published>>
    PROVE  WireInv'
BY DEF WireInv, Told, Fills, OnWire, Subscribed

LEMMA PipelineFrame ==
    ASSUME PipelineInv, UNCHANGED <<topic, log, since, due, pipeline, restored>>
    PROVE  PipelineInv'
BY DEF PipelineInv, InFlightInv, Acknowledged, ShortestLookback

LEMMA TickStep == IndInv /\ Tick => IndInv'
<1> SUFFICES ASSUME IndInv, Tick PROVE IndInv'
  OBVIOUS
<1> USE DEF IndInv, Tick, service, socket, rest, view, history
<1>1. TypesOK'
  BY DEF TypesOK
<1>2. SessionInv'
  BY DEF SessionInv, Subscribed, Acknowledged
<1> QED
  BY <1>1, <1>2, ViewFrame, WireFrame, PipelineFrame

LEMMA AuthStep == IndInv /\ Auth => IndInv'
<1> SUFFICES ASSUME IndInv, Auth PROVE IndInv'
  OBVIOUS
<1> USE DEF IndInv, Auth, service, exchange, rest, view, history
<1>1. TypesOK'
  BY DEF TypesOK
<1>2. SessionInv'
  BY DEF SessionInv, Subscribed, Acknowledged
<1> QED
  BY <1>1, <1>2, ViewFrame, WireFrame, PipelineFrame

\* The exchange subscribes: from here on it tells what happens.
LEMMA ExchangeSubscribesStep == IndInv /\ ExchangeSubscribes => IndInv'
<1> SUFFICES ASSUME IndInv, ExchangeSubscribes PROVE IndInv'
  OBVIOUS
<1> USE DEF IndInv
<1>1. /\ ~Subscribed /\ since' = Len(log)
      /\ UNCHANGED <<due, topic, now, log, wire, pipeline, published, shown, restored, excused>>
  BY DEF ExchangeSubscribes, service, exchange, rest, view, history
<1>2. Len(log) \in Nat /\ wire = <<>> /\ ~restored /\ ~Acknowledged /\ ~Acknowledged'
  BY <1>1, LenProperties DEF TypesOK, SessionInv, Acknowledged
<1>3. TypesOK'
  BY <1>1, <1>2 DEF TypesOK
<1>4. SessionInv'
  BY <1>1, <1>2 DEF SessionInv, TypesOK
<1>5. WireInv'
  BY <1>1, <1>2 DEF WireInv, Told, Fills
<1>6. PipelineInv'
  BY <1>1, <1>2 DEF PipelineInv, InFlightInv, ShortestLookback
<1>7. ViewInv'
  <2>1. published' \subseteq Told(Len(log))' \cup {0}
    BY <1>1 DEF ViewInv, Told, Fills
  <2> QED
    BY <1>1, <1>2, <2>1 DEF ViewInv, FillsRestored, VersionRestored, NotOlder
<1> QED
  BY <1>3, <1>4, <1>5, <1>6, <1>7

LEMMA SubscribeStep == IndInv /\ Subscribe => IndInv'
<1> SUFFICES ASSUME IndInv, Subscribe PROVE IndInv'
  OBVIOUS
<1> USE DEF IndInv
<1>1. /\ Subscribed /\ ~Acknowledged /\ Acknowledged'
      /\ UNCHANGED <<topic, now, log, since, wire, pipeline, published, shown, restored, excused>>
  BY DEF Subscribe, Service!BecomeDue, Acknowledged, exchange, socket, rest, view, history
<1>2. TypesOK'
  BY <1>1 DEF TypesOK
<1>3. SessionInv'
  BY <1>1 DEF SessionInv, Subscribed
<1>4. PipelineInv'
  BY <1>1 DEF PipelineInv, InFlightInv, ShortestLookback
<1> QED
  BY <1>1, <1>2, <1>3, <1>4, ViewFrame, WireFrame

\* An update moves from the wire to the view.
LEMMA UpdateStep == IndInv /\ Update => IndInv'
<1> SUFFICES ASSUME IndInv, Update PROVE IndInv'
  OBVIOUS
<1> DEFINE v == Head(wire)
<1> USE DEF IndInv
<1>1. /\ Acknowledged /\ wire # <<>> /\ wire' = Tail(wire) /\ Publish({v})
      /\ UNCHANGED <<due, topic, now, log, since, pipeline, restored, excused>>
  BY DEF Update, service, exchange, rest, history
<1>2. /\ Len(wire) \in Nat \ {0} /\ v = wire[1] /\ v \in Nat
      /\ wire' \in Seq(Nat) /\ Len(wire') = Len(wire) - 1
      /\ \A k \in 1 .. Len(wire') : wire'[k] = wire[k + 1]
  BY <1>1, HeadTailProperties, EmptySeq DEF TypesOK
<1>3. v \in Told(Len(log)) /\ v > since
  BY <1>2 DEF WireInv
<1>4. published' = published \cup {v} /\ shown' = v
  BY <1>1, <1>2, LatestOfOne DEF Publish
<1>5. Subscribed /\ since \in Nat
  BY <1>1 DEF SessionInv, Subscribed, TypesOK
<1>6. TypesOK'
  BY <1>1, <1>2, <1>4 DEF TypesOK
<1>7. SessionInv'
  BY <1>1, <1>5 DEF SessionInv, Subscribed, Acknowledged
<1>8. published \cup OnWire \subseteq published' \cup OnWire'
  <2>1. OnWire = {wire[k] : k \in 1 .. Len(wire)} /\ OnWire' = {wire'[k] : k \in 1 .. Len(wire')}
    BY <1>2, LenProperties DEF OnWire, TypesOK
  <2>2. ASSUME NEW k \in 1 .. Len(wire) PROVE wire[k] \in {v} \cup {wire'[j] : j \in 1 .. Len(wire')}
    <3>1. CASE k = 1
      BY <1>2, <3>1
    <3>2. CASE k # 1
      <4>1. k - 1 \in 1 .. Len(wire') /\ wire'[k - 1] = wire[k]
        BY <1>2, <3>2
      <4> QED
        BY <4>1
    <3> QED
      BY <3>1, <3>2
  <2> QED
    BY <1>4, <2>1, <2>2
<1>9. WireInv'
  <2>1. Told(Len(log))' = Told(Len(log))
    BY <1>1 DEF Told, Fills
  <2>2. ASSUME NEW k \in 1 .. Len(wire')
        PROVE  wire'[k] \in Told(Len(log)) /\ wire'[k] > since
    <3>1. k + 1 \in 1 .. Len(wire) /\ wire'[k] = wire[k + 1]
      BY <1>2
    <3> QED
      BY <3>1 DEF WireInv
  <2> QED
    BY <1>1, <1>5, <1>8, <2>1, <2>2 DEF WireInv
<1>10. ViewInv'
  <2>1. UNCHANGED <<Told(Len(log)), Fills(since), Version(since), Closed(since), Closed(Len(log))>>
    BY <1>1 DEF Told, Fills, Version, Closed, Latest
  <2>2. Version(since) <= since /\ Version(since) \in Nat
    BY <1>5, VersionIsMaximum
  <2>3. NotOlder'
    BY <1>1, <1>2, <1>3, <1>4, <1>5, <2>1, <2>2 DEF NotOlder
  <2> QED
    BY <1>1, <1>3, <1>4, <2>1, <2>3 DEF ViewInv, FillsRestored, VersionRestored
<1> QED
  BY <1>1, <1>6, <1>7, <1>9, <1>10, PipelineFrame

\* The session ends: nothing is restored any more, and no request is its own.
LEMMA DisconnectedStep == IndInv /\ Disconnected => IndInv'
<1> SUFFICES ASSUME IndInv, Disconnected PROVE IndInv'
  OBVIOUS
<1> DEFINE e(k) == [pipeline[k] EXCEPT !.own = FALSE]
<1> USE DEF IndInv
<1>1. /\ ~Acknowledged' /\ ~Subscribed' /\ since' = -1 /\ wire' = <<>> /\ restored' = FALSE
      /\ pipeline' = [k \in DOMAIN pipeline |-> e(k)]
      /\ UNCHANGED <<topic, now, log, published, shown>>
  BY DEF Disconnected, Service!Forget, Acknowledged, Subscribed, exchange, view
<1>2. PICK n \in Nat : n = Len(pipeline) /\ DOMAIN pipeline = 1 .. n
  BY LenProperties DEF TypesOK
<1>3. \A k \in 1 .. n : pipeline[k] \in RequestType /\ e(k) \in RequestType
  <2>1. \A k \in 1 .. n : pipeline[k] \in RequestType
    BY <1>2, ElementOfSeq DEF TypesOK
  <2> QED
    BY <2>1 DEF RequestType
<1>4. \A k \in 1 .. n : e(k) = [own |-> FALSE, at |-> pipeline[k].at, upto |-> pipeline[k].upto,
                                 from |-> pipeline[k].from]
  BY <1>3 DEF RequestType
<1> HIDE DEF e
<1>5. pipeline' \in Seq(RequestType) /\ Len(pipeline') = n /\ \A k \in 1 .. n : pipeline'[k] = e(k)
  BY <1>1, <1>2, <1>3
<1>6. restored' \in BOOLEAN /\ ~restored'
  BY <1>1, Zenon
<1>7. TypesOK'
  BY <1>1, <1>5, <1>6 DEF TypesOK
<1>8. SessionInv'
  BY <1>1, <1>6, LenProperties DEF SessionInv, TypesOK
<1>9. WireInv'
  BY <1>1, EmptySeq DEF WireInv
<1>10. PipelineInv'
  <2> SUFFICES ASSUME NEW k \in 1 .. n PROVE InFlightInv(k)'
    BY <1>5 DEF PipelineInv
  <2>1. InFlightInv(k)
    BY <1>2 DEF PipelineInv
  <2>2. /\ pipeline'[k].own = FALSE /\ pipeline'[k].upto = pipeline[k].upto
        /\ pipeline'[k].at = pipeline[k].at /\ pipeline'[k].from = pipeline[k].from
    BY <1>4, <1>5
  <2>3. \A j \in 1 .. k : ~pipeline'[j].own
    BY <1>2, <1>4, <1>5
  <2> QED
    BY <1>1, <1>6, <2>1, <2>2, <2>3 DEF InFlightInv, ShortestLookback
<1>11. ViewInv'
  <2>1. published' \subseteq Told(Len(log))' \cup {0}
    BY <1>1 DEF ViewInv, Told, Fills
  <2> QED
    BY <1>6, <2>1 DEF ViewInv, FillsRestored, VersionRestored, NotOlder
<1> QED
  BY <1>7, <1>8, <1>9, <1>10, <1>11

-----------------------------------------------------------------------------
(***************************************************************************)
(* The REST connection.                                                    *)
(***************************************************************************)

\* A snapshot is requested: its lookback is not shorter than the shortest.
LEMMA RequestStep == IndInv /\ Request => IndInv'
<1> SUFFICES ASSUME IndInv, Request PROVE IndInv'
  OBVIOUS
<1> DEFINE r == [own |-> Acknowledged, at |-> now, upto |-> -1,
                 from |-> IF topic = "execution" THEN StartTime ELSE 0]
<1> USE DEF IndInv
<1>1. /\ pipeline' = Append(pipeline, r) /\ UNCHANGED due
      /\ UNCHANGED <<topic, now, log, since, wire, published, shown, restored, excused>>
  BY DEF Request, Service!Request, service, exchange, socket, view, history
<1>2. StartTime \in Int /\ StartTime <= now + Margin - ShortestLookback
  BY LookbackAssumption DEF StartTime, Lookback, ShortestLookback, TypesOK
<1>3. Acknowledged \in BOOLEAN
  BY DEF Acknowledged
<1>4. r \in RequestType
  BY <1>2, <1>3 DEF RequestType, TypesOK
<1>5. PICK n \in Nat : n = Len(pipeline)
  BY LenProperties DEF TypesOK
<1>6. /\ pipeline' \in Seq(RequestType) /\ Len(pipeline') = n + 1 /\ pipeline'[n + 1] = r
      /\ \A k \in 1 .. n : pipeline'[k] = pipeline[k]
  BY <1>1, <1>4, <1>5, AppendProperties DEF TypesOK
<1>7. TypesOK'
  BY <1>1, <1>6 DEF TypesOK
<1>8. SessionInv'
  BY <1>1 DEF SessionInv, Subscribed, Acknowledged
<1>9. PipelineInv'
  <2> SUFFICES ASSUME NEW k \in 1 .. n + 1 PROVE InFlightInv(k)'
    BY <1>6 DEF PipelineInv
  <2>1. CASE k \in 1 .. n
    <3>1. InFlightInv(k)
      BY <1>5, <2>1 DEF PipelineInv
    <3>2. pipeline'[k] = pipeline[k] /\ \A j \in 1 .. k : pipeline'[j] = pipeline[j]
      BY <1>6, <2>1
    <3> QED
      BY <1>1, <3>1, <3>2 DEF InFlightInv, Acknowledged, ShortestLookback
  <2>2. CASE k = n + 1
    <3>1. /\ pipeline'[k].own <=> Acknowledged
          /\ pipeline'[k].upto = -1 /\ pipeline'[k].at = now
          /\ topic = "execution" => pipeline'[k].from = StartTime
      BY <1>6, <2>2
    <3>2. \A j \in 1 .. n : pipeline[j].own => Acknowledged
      BY <1>5 DEF PipelineInv, InFlightInv
    <3>3. \A j \in 1 .. k : pipeline'[j].own => pipeline'[k].own
      BY <1>6, <2>2, <3>1, <3>2
    <3>4. Acknowledged' <=> Acknowledged
      BY <1>1 DEF Acknowledged
    <3>5. restored => Acknowledged
      BY DEF SessionInv
    <3>6. topic = "execution" => pipeline'[k].from <= pipeline'[k].at + Margin - ShortestLookback
      BY <1>2, <3>1
    <3> QED
      BY <1>1, <3>1, <3>3, <3>4, <3>5, <3>6 DEF InFlightInv, ShortestLookback
  <2> QED
    BY <2>1, <2>2
<1> QED
  BY <1>1, <1>7, <1>8, <1>9, ViewFrame, WireFrame

\* The exchange answers with what it has, which is not less than at the subscription.
LEMMA ExchangeAnswersStep == IndInv /\ ExchangeAnswers => IndInv'
<1> SUFFICES ASSUME IndInv, ExchangeAnswers PROVE IndInv'
  OBVIOUS
<1> USE DEF IndInv
<1>1. PICK i \in DOMAIN pipeline : pipeline' = [pipeline EXCEPT ![i].upto = Len(log)]
  BY DEF ExchangeAnswers
<1>2. UNCHANGED <<due, topic, now, log, since, wire, published, shown, restored, excused>>
  BY DEF ExchangeAnswers, service, exchange, socket, view, history
<1>3. PICK n \in Nat : n = Len(pipeline) /\ DOMAIN pipeline = 1 .. n
  BY LenProperties DEF TypesOK
<1>4. Len(log) \in Nat
  BY LenProperties DEF TypesOK
<1>5. pipeline[i] \in RequestType /\ i \in 1 .. n
  BY <1>3, ElementOfSeq DEF TypesOK
<1> DEFINE r == [pipeline[i] EXCEPT !.upto = Len(log)]
<1>6. /\ r \in RequestType /\ r.upto = Len(log)
      /\ r.own = pipeline[i].own /\ r.at = pipeline[i].at /\ r.from = pipeline[i].from
  BY <1>4, <1>5 DEF RequestType
<1>7. pipeline' = [pipeline EXCEPT ![i] = r]
  BY <1>1
<1> HIDE DEF r
<1>8. /\ pipeline' \in Seq(RequestType) /\ Len(pipeline') = n
      /\ \A k \in 1 .. n : pipeline'[k] = IF k = i THEN r ELSE pipeline[k]
  BY <1>3, <1>5, <1>6, <1>7, ExceptSeq DEF TypesOK
<1>9. TypesOK'
  BY <1>2, <1>8 DEF TypesOK
<1>10. SessionInv'
  BY <1>2 DEF SessionInv, Subscribed, Acknowledged
<1>11. PipelineInv'
  <2> SUFFICES ASSUME NEW k \in 1 .. n PROVE InFlightInv(k)'
    BY <1>8 DEF PipelineInv
  <2>1. InFlightInv(k)
    BY <1>3 DEF PipelineInv
  <2>2. /\ \A j \in 1 .. n : pipeline'[j].own = pipeline[j].own
        /\ pipeline'[k].at = pipeline[k].at /\ pipeline'[k].from = pipeline[k].from
        /\ pipeline'[k].upto \in {Len(log), pipeline[k].upto}
    BY <1>6, <1>8
  <2>3. \A j \in 1 .. k : pipeline'[j].own => pipeline'[k].own
    BY <2>1, <2>2 DEF InFlightInv
  <2>4. since <= Len(log)
    BY DEF SessionInv
  <2> QED
    BY <1>2, <1>4, <2>1, <2>2, <2>3, <2>4 DEF InFlightInv, Acknowledged, ShortestLookback
<1> QED
  BY <1>2, <1>9, <1>10, <1>11, ViewFrame, WireFrame

\* Whatever was in flight is lost.
LEMMA RestDisconnectedStep == IndInv /\ RestDisconnected => IndInv'
<1> SUFFICES ASSUME IndInv, RestDisconnected PROVE IndInv'
  OBVIOUS
<1> USE DEF IndInv, RestDisconnected, service, exchange, socket, view, history
<1>1. TypesOK'
  BY EmptySeq DEF TypesOK
<1>2. SessionInv'
  BY DEF SessionInv, Subscribed, Acknowledged
<1>3. PipelineInv'
  BY EmptySeq DEF PipelineInv
<1> QED
  BY <1>1, <1>2, <1>3, ViewFrame, WireFrame

\* A download brings every fill that is within its reach.
LEMMA ExecutionsReach ==
    ASSUME TypesOK, NEW h \in RequestType, h.upto \in 0 .. Len(log),
           h.from <= h.at + Margin - ShortestLookback
    PROVE  Executions(h) \subseteq Fills(h.upto) /\ Fills(h.upto) \subseteq Executions(h) \cup OutOfReach(h)
<1>1. ASSUME NEW i \in Fills(h.upto)
      PROVE  i \in Executions(h) \/ i \in OutOfReach(h)
  <2>1. Cardinality(Newer(i, h.upto)) \in Nat
    <3>1. Newer(i, h.upto) \in SUBSET (1 .. h.upto)
      BY DEF Newer, Fills
    <3>2. IsFiniteSet(1 .. h.upto)
      <4>1. 1 \in Int /\ h.upto \in Int
        BY DEF RequestType
      <4> QED
        BY <4>1, FS_Interval
    <3> QED
      BY <3>1, <3>2, FS_Subset, FS_CardinalityType
  <2>2. log[i] \in Event
    <3>1. Len(log) \in Nat /\ i \in 1 .. Len(log)
      BY LenProperties DEF Fills, TypesOK
    <3> QED
      BY <3>1, ElementOfSeq DEF TypesOK
  <2>3. log[i].time \in Nat /\ h.from \in Int /\ h.at \in Nat /\ ShortestLookback \in Nat /\ Margin \in Nat
    BY <2>2, LookbackAssumption DEF Event, RequestType, ShortestLookback
  <2> QED
    BY <2>1, <2>3, LimitAssumption DEF Executions, OutOfReach
<1> QED
  BY <1>1 DEF Executions

\* The answer to the first request is published.  If it is the session's own, the view
\* is restored, and as new as the subscription.
LEMMA AckStep ==
    ASSUME IndInv, pipeline # <<>>, pipeline' = Tail(pipeline),
           UNCHANGED <<due, topic, now, log, since, wire>>,
           NEW contents \in SUBSET Nat, Publish(contents),
           \/ contents = {} /\ UNCHANGED history
           \/ ~Head(pipeline).own /\ UNCHANGED history
           \/ Head(pipeline).own /\ restored' = TRUE /\ excused' = OutOfReach(Head(pipeline)),
           ~(contents = {} /\ UNCHANGED history) =>
             /\ Head(pipeline).upto # -1
             /\ topic = "execution" => contents = Executions(Head(pipeline))
             /\ topic \in StateTopics =>
                  \/ contents = {Version(Head(pipeline).upto)}
                  \/ topic = "order" /\ contents = {} /\ Closed(Head(pipeline).upto)
    PROVE  IndInv'
<1> DEFINE h == Head(pipeline)
           failed == contents = {} /\ UNCHANGED history
<1> USE DEF IndInv
<1>1. PICK n \in Nat : n = Len(pipeline) - 1
  BY EmptySeq DEF TypesOK
<1>2. /\ h = pipeline[1] /\ h \in RequestType
      /\ pipeline' \in Seq(RequestType) /\ Len(pipeline') = n
      /\ \A k \in 1 .. n : pipeline'[k] = pipeline[k + 1]
  BY <1>1, HeadTailProperties DEF TypesOK
<1>3. InFlightInv(1)
  BY <1>1 DEF PipelineInv
<1> HIDE DEF h
<1>4. /\ published' = published \cup contents
      /\ shown' = IF contents = {} THEN shown ELSE Latest(contents)
  BY DEF Publish
<1>5. /\ h.upto = -1 \/ h.upto \in 0 .. Len(log)
      /\ h.own => Acknowledged /\ (h.upto = -1 \/ since <= h.upto)
      /\ topic = "execution" => h.from <= h.at + Margin - ShortestLookback
      /\ restored => h.own
  BY <1>2, <1>3 DEF InFlightInv
<1>6. ~failed =>
        /\ h.upto \in 0 .. Len(log)
        /\ topic = "execution" => contents = Executions(h)
        /\ topic \in StateTopics =>
             contents = {Version(h.upto)} \/ (topic = "order" /\ contents = {} /\ Closed(h.upto))
  BY <1>5 DEF h
<1>7. \/ UNCHANGED history
      \/ h.own /\ restored' = TRUE /\ excused' = OutOfReach(h) /\ ~failed
  BY DEF h
<1>8. restored' /\ ~failed => h.own
  BY <1>5, <1>7 DEF history
<1>9. restored' \in BOOLEAN
  BY <1>7 DEF history, TypesOK
<1>10. Len(log) \in Nat /\ since \in Int /\ since <= Len(log)
  BY LenProperties DEF TypesOK, SessionInv
<1>11. topic = "execution" /\ ~failed => contents \subseteq Fills(h.upto) /\ Fills(h.upto) \subseteq contents \cup OutOfReach(h)
  BY <1>2, <1>5, <1>6, ExecutionsReach
<1>12. restored' => Acknowledged /\ since \in 0 .. Len(log)
  <2>1. restored' => Acknowledged
    BY <1>5, <1>7 DEF SessionInv, history
  <2> QED
    BY <2>1, <1>10 DEF SessionInv, Subscribed
<1>13. TypesOK'
  <2>1. shown' \in Nat
    <3>1. CASE contents = {}
      BY <1>4, <3>1 DEF TypesOK
    <3>2. CASE contents # {} /\ topic = "execution"
      <4>1. contents \in SUBSET (0 .. Len(log))
        BY <1>6, <1>10, <1>11, <3>2 DEF Fills
      <4> QED
        BY <1>4, <1>10, <3>2, <4>1, LatestIsMaximum
    <3>3. CASE contents # {} /\ topic # "execution"
      <4>1. contents = {Version(h.upto)}
        BY <1>6, <3>3 DEF TypesOK, Topics
      <4> QED
        BY <1>4, <4>1, LatestOfOne
    <3> QED
      BY <3>1, <3>2, <3>3
  <2> QED
    BY <1>2, <1>4, <1>9, <2>1 DEF TypesOK
<1>14. SessionInv'
  BY <1>12 DEF SessionInv, Subscribed, Acknowledged
<1>15. WireInv'
  <2>1. Told(Len(log))' = Told(Len(log)) /\ OnWire' = OnWire
    BY DEF Told, Fills, OnWire
  <2> QED
    BY <1>4, <2>1 DEF WireInv, Subscribed
<1>16. PipelineInv'
  <2> SUFFICES ASSUME NEW k \in 1 .. n PROVE InFlightInv(k)'
    BY <1>2 DEF PipelineInv
  <2>1. InFlightInv(k + 1) /\ pipeline'[k] = pipeline[k + 1]
    BY <1>1, <1>2 DEF PipelineInv
  <2>2. h.own => pipeline'[k].own
    BY <1>2, <2>1 DEF InFlightInv
  <2>3. restored' => pipeline'[k].own
    BY <1>7, <2>1, <2>2 DEF InFlightInv, history
  <2>4. \A j \in 1 .. k : pipeline'[j].own => pipeline'[k].own
    <3>1. \A j \in 1 .. k : j + 1 \in 1 .. k + 1 /\ pipeline'[j] = pipeline[j + 1]
      BY <1>2
    <3> QED
      BY <2>1, <3>1 DEF InFlightInv
  <2> QED
    BY <2>1, <2>3, <2>4 DEF InFlightInv, Acknowledged, ShortestLookback
<1>17. ViewInv'
  <2>1. UNCHANGED <<Told(Len(log)), Fills(since), Version(since), Closed(since), Closed(Len(log))>>
    BY DEF Told, Fills, Version, Closed, Latest
  <2>2. published' \subseteq Told(Len(log)) \cup {0}
    <3>1. CASE failed
      BY <1>4, <3>1 DEF ViewInv
    <3>2. CASE ~failed /\ topic = "execution"
      <4>1. contents \subseteq Told(Len(log))
        BY <1>6, <1>10, <1>11, <3>2, ToldGrows DEF Told
      <4> QED
        BY <1>4, <4>1 DEF ViewInv
    <3>3. CASE ~failed /\ topic # "execution"
      <4>1. contents \subseteq {Version(h.upto)} /\ h.upto \in 0 .. Len(log)
        BY <1>6, <3>3 DEF TypesOK, Topics
      <4>2. Version(h.upto) \in Told(Len(log)) \cup {0}
        BY <1>10, <4>1, ToldGrows, VersionIsMaximum
      <4> QED
        BY <1>4, <4>1, <4>2 DEF ViewInv
    <3> QED
      BY <3>1, <3>2, <3>3
  <2>3. FillsRestored'
    <3> SUFFICES ASSUME restored', topic = "execution" PROVE Fills(since) \subseteq published' \cup excused'
      BY <2>1 DEF FillsRestored
    <3>1. CASE UNCHANGED history
      BY <1>4, <3>1 DEF ViewInv, FillsRestored, history
    <3>2. CASE h.own /\ excused' = OutOfReach(h) /\ ~failed
      <4>1. Fills(since) \subseteq Fills(h.upto)
        BY <1>5, <1>6, <1>10, <1>12, <3>2, ToldGrows
      <4> QED
        BY <1>4, <1>11, <3>2, <4>1
    <3> QED
      BY <1>7, <3>1, <3>2
  <2>4. VersionRestored'
    <3> SUFFICES ASSUME restored', topic \in StateTopics, ~ \E i \in Told(Len(log)) : i > since
                 PROVE  Version(since) \in published' \/ (topic = "order" /\ Closed(since))
      BY <2>1 DEF VersionRestored
    <3>1. CASE UNCHANGED history
      BY <1>4, <3>1 DEF ViewInv, VersionRestored, history
    <3>2. CASE h.own /\ ~failed
      <4>1. since \in Nat /\ h.upto \in Nat /\ since <= h.upto /\ h.upto <= Len(log)
        BY <1>5, <1>6, <1>10, <1>12, <3>2
      <4>2. Told(h.upto) = Told(since)
        <5>1. \A i \in Told(Len(log)) : i \in Nat /\ i <= since
          BY <1>10, <4>1 DEF Told, Fills
        <5>2. /\ Told(since) = {i \in Told(Len(log)) : i <= since}
              /\ Told(h.upto) = {i \in Told(Len(log)) : i <= h.upto}
          BY <1>10, <4>1, ToldGrows
        <5> QED
          BY <4>1, <5>1, <5>2
      <4>3. CASE contents = {Version(h.upto)}
        BY <1>4, <4>2, <4>3 DEF Version
      <4>4. CASE topic = "order" /\ Closed(h.upto)
        BY <4>1, <4>2, <4>4 DEF Told, Closed
      <4> QED
        BY <1>6, <3>2, <4>3, <4>4
    <3> QED
      BY <1>7, <3>1, <3>2
  <2>5. NotOlder'
    <3> SUFFICES ASSUME restored', topic \in StateTopics
                 PROVE  shown' >= Version(since) \/ (topic = "order" /\ Closed(Len(log)))
      BY <2>1 DEF NotOlder
    <3>1. CASE failed
      BY <1>4, <3>1 DEF ViewInv, NotOlder, history
    <3>2. CASE ~failed
      <4>1. since \in Nat /\ h.upto \in Nat /\ since <= h.upto /\ h.upto <= Len(log)
        BY <1>5, <1>6, <1>8, <1>10, <1>12, <3>2
      <4>2. CASE contents = {Version(h.upto)}
        <5>1. shown' = Version(h.upto)
          BY <1>4, <4>1, <4>2, LatestOfOne, VersionIsMaximum
        <5> QED
          BY <4>1, <5>1, ToldGrows, VersionIsMaximum
      <4>3. CASE topic = "order" /\ Closed(h.upto)
        BY <1>10, <4>1, <4>3, ToldGrows
      <4> QED
        BY <1>6, <3>2, <4>2, <4>3
    <3> QED
      BY <3>1, <3>2
  <2> QED
    BY <2>1, <2>2, <2>3, <2>4, <2>5 DEF ViewInv
<1> QED
  BY <1>13, <1>14, <1>15, <1>16, <1>17

\* What each handler makes of the answer.
LEMMA AnswerStep ==
    ASSUME IndInv, NEW outcome \in Outcomes,
           GetPositionsAck(outcome) \/ GetOrdersAck(outcome) \/ GetExecutionsAck(outcome)
    PROVE  IndInv'
<1> DEFINE h == Head(pipeline)
           answer == CASE topic = "position" -> Positions(h)
                       [] topic = "order" -> OpenOrders(h)
                       [] topic = "execution" -> Executions(h)
           contents == IF outcome = "success" THEN answer ELSE {}
<1>1. /\ pipeline # <<>> /\ pipeline' = Tail(pipeline)
      /\ UNCHANGED <<due, topic, now, log, since, wire>>
      /\ outcome # "error" => h.upto # -1
      /\ IF outcome = "success" /\ h.own
         THEN restored' = TRUE /\ excused' = OutOfReach(h) ELSE UNCHANGED history
  BY DEF GetPositionsAck, GetOrdersAck, GetExecutionsAck, Ack, service, exchange, socket
<1>2. Publish(contents)
  BY DEF GetPositionsAck, GetOrdersAck, GetExecutionsAck, Ack
<1>3. h.upto = -1 \/ h.upto \in 0 .. Len(log)
  <2>1. h = pipeline[1] /\ 1 \in 1 .. Len(pipeline)
    BY <1>1, EmptySeq DEF IndInv, TypesOK
  <2> QED
    BY <2>1 DEF IndInv, PipelineInv, InFlightInv
<1>4. topic \in {"position", "order", "execution"}
  BY DEF IndInv, TypesOK, Topics, StateTopics
<1>5. topic \in StateTopics /\ outcome = "success" =>
        contents = {Version(h.upto)} \/ (topic = "order" /\ contents = {} /\ Closed(h.upto))
  BY DEF Positions, OpenOrders, StateTopics
<1>6. contents \in SUBSET Nat
  <2>1. CASE outcome = "success" /\ topic = "execution"
    BY <2>1 DEF Executions, Fills
  <2>2. CASE outcome = "success" /\ topic \in StateTopics
    <3>1. h.upto \in Nat
      BY <1>1, <1>3, <2>2, LenProperties DEF IndInv, TypesOK
    <3>2. Version(h.upto) \in Nat
      BY <3>1, VersionIsMaximum
    <3>3. contents = {Version(h.upto)} \/ contents = {}
      BY <1>5, <2>2, Zenon
    <3> QED
      BY <3>2, <3>3
  <2> QED
    BY <1>4, <2>1, <2>2 DEF StateTopics
<1>7. topic = "execution" /\ outcome = "success" => contents = Executions(h)
  OBVIOUS
<1> HIDE DEF answer
<1>8. \/ contents = {} /\ UNCHANGED history
      \/ outcome = "success" /\ ~h.own /\ UNCHANGED history
      \/ outcome = "success" /\ h.own /\ restored' = TRUE /\ excused' = OutOfReach(h)
  BY <1>1
<1>9. ~(contents = {} /\ UNCHANGED history) => outcome = "success" /\ h.upto # -1
  BY <1>1, <1>8 DEF Outcomes
<1> HIDE DEF contents
<1> QED
  BY <1>1, <1>2, <1>5, <1>6, <1>7, <1>8, <1>9, AckStep

-----------------------------------------------------------------------------
LEMMA NextInv == IndInv /\ [Next]_vars => IndInv'
<1> SUFFICES ASSUME IndInv, [Next]_vars PROVE IndInv'
  OBVIOUS
<1>1. CASE ExchangeNext
  BY <1>1, HappensStep, TickStep, ExchangeSubscribesStep, ExchangeAnswersStep DEF ExchangeNext
<1>2. CASE DropCopyNext
  BY <1>2, AuthStep, DisconnectedStep, SubscribeStep, UpdateStep DEF DropCopyNext
<1>3. CASE RestNext
  BY <1>3, RequestStep, AnswerStep, RestDisconnectedStep DEF RestNext
<1>4. CASE UNCHANGED vars
  <2> USE <1>4 DEF vars, service, exchange, socket, rest, view, history
  <2>1. TypesOK' /\ SessionInv'
    BY DEF IndInv, TypesOK, SessionInv, Subscribed, Acknowledged
  <2>2. WireInv' /\ PipelineInv' /\ ViewInv'
    BY WireFrame, PipelineFrame, ViewFrame DEF IndInv
  <2> QED
    BY <2>1, <2>2 DEF IndInv
<1> QED
  BY <1>1, <1>2, <1>3, <1>4 DEF Next

LEMMA Invariance == Spec => []IndInv
BY InitInv, NextInv, PTL DEF Spec

\* No fill is lost between two sessions or between the download and the stream, for
\* any lookbacks, margin and limit, but for those out of their reach.
THEOREM FillsCompleteHolds == Spec => []FillsComplete
<1>1. IndInv => FillsComplete
  <2> SUFFICES ASSUME IndInv, restored, Acknowledged, topic = "execution", NEW i \in Fills(Len(log))
               PROVE  i \in published \cup OnWire \cup excused
    BY DEF FillsComplete, Restored
  <2>1. Len(log) \in Nat /\ since \in Nat /\ since <= Len(log) /\ i \in Nat /\ Subscribed
    BY LenProperties DEF IndInv, TypesOK, SessionInv, Subscribed, Fills
  <2>2. CASE i <= since
    BY <2>1, <2>2, ToldGrows DEF IndInv, ViewInv, FillsRestored
  <2>3. CASE i > since
    BY <2>1, <2>3 DEF IndInv, WireInv, Told
  <2> QED
    BY <2>1, <2>2, <2>3
<1> QED
  BY <1>1, Invariance, PTL

\* After the session's own snapshot the view never falls back behind the subscription.
THEOREM NotOlderThanSubscriptionHolds == Spec => []NotOlderThanSubscription
<1>1. IndInv => NotOlderThanSubscription
  BY DEF IndInv, ViewInv, NotOlder, NotOlderThanSubscription, Restored
<1> QED
  BY <1>1, Invariance, PTL

\* With nothing on its way, the newest version is among those published.
THEOREM NewestPublishedHolds == Spec => []NewestPublished
<1>1. IndInv => NewestPublished
  <2> SUFFICES ASSUME IndInv, restored, Acknowledged, topic \in StateTopics, wire = <<>>,
                      ~(topic = "order" /\ Closed(since))
               PROVE  Latest(published) = Version(Len(log))
    BY DEF NewestPublished, Restored
  <2>1. Len(log) \in Nat /\ since \in Nat /\ since <= Len(log) /\ Subscribed
    BY LenProperties DEF IndInv, TypesOK, SessionInv, Subscribed
  <2>2. /\ Version(Len(log)) \in 0 .. Len(log)
        /\ \A i \in Told(Len(log)) : i <= Version(Len(log)) /\ i \in 1 .. Len(log)
        /\ Told(Len(log)) # {} => Version(Len(log)) \in Told(Len(log))
    BY <2>1, VersionIsMaximum DEF Told, Fills
  <2>3. OnWire = {}
    BY EmptySeq DEF OnWire
  <2>4. Version(Len(log)) \in published
    <3>1. CASE \E i \in Told(Len(log)) : i > since
      BY <2>1, <2>2, <2>3, <3>1 DEF IndInv, WireInv
    <3>2. CASE ~ \E i \in Told(Len(log)) : i > since
      <4>1. Version(since) \in published
        BY <3>2 DEF IndInv, ViewInv, VersionRestored
      <4>2. Told(since) = Told(Len(log))
        <5>1. Told(since) = {i \in Told(Len(log)) : i <= since}
          BY <2>1, ToldGrows
        <5>2. \A i \in Told(Len(log)) : i <= since
          BY <2>1, <2>2, <3>2
        <5> QED
          BY <5>1, <5>2
      <4> QED
        BY <4>1, <4>2 DEF Version
    <3> QED
      BY <3>1, <3>2
  <2>5. \A v \in published : v \in 0 .. Len(log) /\ v <= Version(Len(log))
    BY <2>1, <2>2 DEF IndInv, ViewInv
  <2>6. Latest(published) \in published /\ \A v \in published : v <= Latest(published)
    BY <2>1, <2>4, <2>5, LatestIsMaximum
  <2> QED
    BY <2>2, <2>4, <2>5, <2>6
<1> QED
  BY <1>1, Invariance, PTL

-----------------------------------------------------------------------------
(***************************************************************************)
(* The snapshots are requested as SnapshotService says.  What AccountSync  *)
(* is shown to implement is thereby all that this module needs of it.      *)
(***************************************************************************)
LEMMA ServiceStep == IndInv /\ [Next]_vars => [Service!Next]_(Service!vars)
<1> SUFFICES ASSUME IndInv, [Next]_vars PROVE [Service!Next]_(Service!vars)
  OBVIOUS
<1>1. topic \in Topics
  BY DEF IndInv, TypesOK
<1>2. {topic} \in SUBSET Topics
  BY <1>1
<1>3. ASSUME UNCHANGED service PROVE [Service!Next]_(Service!vars)
  BY <1>3 DEF service, Service!vars
<1>4. CASE ExchangeNext
  <2>1. UNCHANGED service
    BY <1>4 DEF ExchangeNext, Happens, Tick, ExchangeSubscribes, ExchangeAnswers
  <2> QED
    BY <1>3, <2>1
<1>5. CASE Auth \/ Update \/ RestDisconnected
  <2>1. UNCHANGED service
    BY <1>5 DEF Auth, Update, RestDisconnected
  <2> QED
    BY <1>3, <2>1
<1>6. CASE Subscribe
  <2>1. Service!BecomeDue({topic})
    BY <1>6 DEF Subscribe
  <2> QED
    BY <1>2, <2>1 DEF Service!Next
<1>7. CASE Disconnected
  BY <1>7 DEF Disconnected, Service!Next
<1>8. CASE Request
  <2>1. CASE Acknowledged
    <3>1. Service!Request({topic})
      BY <1>8, <2>1 DEF Request
    <3> QED
      BY <1>2, <3>1 DEF Service!Next
  <2>2. CASE ~Acknowledged
    <3>1. UNCHANGED service
      BY <1>8, <2>2 DEF Request
    <3> QED
      BY <1>3, <3>1
  <2> QED
    BY <2>1, <2>2
<1>9. ASSUME NEW outcome \in Outcomes,
             GetPositionsAck(outcome) \/ GetOrdersAck(outcome) \/ GetExecutionsAck(outcome)
      PROVE  [Service!Next]_(Service!vars)
  <2>1. UNCHANGED service
    BY <1>9 DEF GetPositionsAck, GetOrdersAck, GetExecutionsAck, Ack
  <2> QED
    BY <1>3, <2>1
<1>10. CASE UNCHANGED vars
  BY <1>3, <1>10 DEF vars
<1> QED
  BY <1>4, <1>5, <1>6, <1>7, <1>8, <1>9, <1>10 DEF Next, DropCopyNext, RestNext

\* For all of its behaviours, the view asks for snapshots only as the service allows: when
\* one is due, once, and with those that are due forgotten when the session ends.
THEOREM TakesServiceSteps == Spec => Service!Safety
<1>1. Init => Service!Init
  BY DEF Init
<1> QED
  BY <1>1, ServiceStep, Invariance, PTL DEF Spec, Service!Safety
=============================================================================
