------------------------- MODULE OrderRequestsProofs -------------------------
(***************************************************************************)
(* Proofs about OrderRequests: every request is accounted for, responses   *)
(* tell the truth, and the module implements RequestService -- for any     *)
(* orders, any number of requests per order and either kind of stream.     *)
(***************************************************************************)
EXTENDS OrderRequests, FiniteSetTheorems, TLAPS

LEMMA RequestsAreVersions ==
    ASSUME NEW r \in Requests
    PROVE  r[1] \in Orders /\ r[2] \in Nat /\ r[2] > 0 /\ r = <<r[1], r[2]>>
  BY DEF Requests, Versions

LEMMA VersionsAreRequests ==
    ASSUME NEW o \in Orders, NEW v \in Versions
    PROVE  <<o, v>> \in Requests
  BY DEF Requests

LEMMA OneIsAVersion == 1 \in Versions
  BY VersionAssumption DEF Versions

-----------------------------------------------------------------------------
(***************************************************************************)
(* Types.  The variables fall into three groups, of which most actions     *)
(* change one.                                                             *)
(***************************************************************************)
LinksType ==
    /\ process \in {"running", "ended"}
    /\ restReady \in {"READY", "DISCONNECTED"}
    /\ wsLink \in {"down", "ready"} /\ wsStatus \in {"DISCONNECTED", "LOGIN_SENT", "READY"}
RequestsType ==
    /\ version \in [Orders -> 0 .. MaxVersion]
    /\ type \in [Requests -> Types \cup {"none"}] /\ target \in [Requests -> 0 .. MaxVersion]
    /\ external \subseteq Orders
    /\ stage \in [Requests -> Stages]
    /\ executed \subseteq Requests /\ open \subseteq Orders
    /\ responses \in [Requests -> Nat] /\ status \in [Requests -> Statuses]
CancelAllType ==
    /\ caStage \in [CancelAllRequests -> Stages]
    /\ caForwarded \in [CancelAllRequests -> Nat]
    /\ caAccepted \in [CancelAlls -> Nat] /\ caRejected \in [CancelAlls -> Nat]

requestVars == <<oms, external, stage, executed, open, reported>>

LEMMA TypeParts == TypeOK <=> LinksType /\ RequestsType /\ CancelAllType
  BY DEF TypeOK, LinksType, RequestsType, CancelAllType

LEMMA RequestsFrame == RequestsType /\ UNCHANGED requestVars => RequestsType'
  BY DEF RequestsType, requestVars, oms, reported

LEMMA CancelAllFrame == CancelAllType /\ UNCHANGED cancelAll => CancelAllType'
  BY DEF CancelAllType, cancelAll

LEMMA LinksFrame == LinksType /\ UNCHANGED <<process, links>> => LinksType'
  BY DEF LinksType, links

LEMMA RestStatusType ==
    ASSUME NEW st \in InFlight, NEW outcome \in PossibleOutcomes(st), outcome # "fatal"
    PROVE  RestStatus(st, outcome) \in Statuses
  BY DEF InFlight, PossibleOutcomes, Outcomes, RestStatus, Statuses

LEMMA ReportType ==
    ASSUME RequestsType, NEW r \in Requests, NEW st \in Statuses, Report(r, st)
    PROVE  responses' \in [Requests -> Nat] /\ status' \in [Requests -> Statuses]
  BY DEF RequestsType, Report

LEMMA IssueType ==
    ASSUME RequestsType, NEW o \in Orders, NEW kind \in Types, Issue(o, kind)
    PROVE  RequestsType'
  <1> DEFINE v == version[o] + 1
  <1>1. v \in Versions /\ <<o, v>> \in Requests /\ v \in 0 .. MaxVersion
    BY VersionsAreRequests DEF Issue, Versions
  <1>2. version' \in [Orders -> 0 .. MaxVersion]
    BY <1>1 DEF Issue, RequestsType
  <1>3. type' \in [Requests -> Types \cup {"none"}]
    BY <1>1 DEF Issue, RequestsType
  <1>4. EncodedTarget(o, v) \in 0 .. MaxVersion
    BY <1>1, VersionAssumption DEF EncodedTarget, ExternalId, Versions
  <1>5. target' \in [Requests -> 0 .. MaxVersion]
    BY <1>1, <1>4 DEF Issue, RequestsType
  <1>6. stage' \in [Requests -> Stages]
    BY <1>1 DEF Issue, RequestsType, Stages
  <1> QED
    BY <1>2, <1>3, <1>5, <1>6 DEF Issue, RequestsType, exchange, reported

LEMMA SubsetOfSymbols ==
    ASSUME NEW S \in SUBSET Symbols
    PROVE  IsFiniteSet(S) /\ Cardinality(S) \in Nat
  BY FS_Subset, FS_CardinalityType, OrdersAssumption

LEMMA InitType == Init => TypeOK
  <1> SUFFICES ASSUME Init PROVE TypeOK
    OBVIOUS
  <1>1. LinksType
    BY DEF Init, LinksType
  <1>2. RequestsType
    BY VersionAssumption DEF Init, RequestsType, Stages, Statuses, ExternalId
  <1>3. CancelAllType
    BY DEF Init, CancelAllType, Stages
  <1> QED
    BY <1>1, <1>2, <1>3, TypeParts

LEMMA NextType == TypeOK /\ [Next]_vars => TypeOK'
  <1> SUFFICES ASSUME LinksType, RequestsType, CancelAllType, [Next]_vars
               PROVE  LinksType' /\ RequestsType' /\ CancelAllType'
    BY TypeParts, PTL
  <1>1. CASE ClientNext
    <2>1. ASSUME NEW o \in Orders, CreateOrder(o) \/ ModifyOrder(o) \/ CancelOrder(o)
          PROVE  LinksType' /\ RequestsType' /\ CancelAllType'
      <3>1. PICK kind \in Types : Issue(o, kind)
        BY <2>1 DEF CreateOrder, ModifyOrder, CancelOrder, Types
      <3> QED
        BY <3>1, IssueType, LinksFrame, CancelAllFrame
        DEF Issue, cancelAll, exchange
    <2>2. ASSUME NEW c \in CancelAlls, NEW filter \in SUBSET Symbols, CancelAllOrders(c, filter)
          PROVE  LinksType' /\ RequestsType' /\ CancelAllType'
      <3>1. UNCHANGED <<process, links>> /\ UNCHANGED requestVars
        BY <2>2 DEF CancelAllOrders, requestVars, exchange
      <3>2. CancelAllType'
        BY <2>2 DEF CancelAllOrders, CancelAllType, Stages, exchange
      <3> QED
        BY <3>1, <3>2, LinksFrame, RequestsFrame
    <2> QED
      BY <1>1, <2>1, <2>2 DEF ClientNext
  <1>2. CASE ExchangeNext
    <2>1. ASSUME NEW r \in Requests, ExchangeExecutes(r)
          PROVE  LinksType' /\ RequestsType' /\ CancelAllType'
      <3>1. UNCHANGED <<process, links>> /\ UNCHANGED cancelAll
        BY <2>1 DEF ExchangeExecutes, cancelAll
      <3>2. RequestsType'
        BY <2>1, RequestsAreVersions DEF ExchangeExecutes, RequestsType, Stages, oms, reported
      <3> QED
        BY <3>1, <3>2, LinksFrame, CancelAllFrame
    <2>2. ASSUME NEW r \in Requests, ExchangeRejects(r)
          PROVE  LinksType' /\ RequestsType' /\ CancelAllType'
      <3>1. UNCHANGED <<process, links>> /\ UNCHANGED cancelAll
        BY <2>2 DEF ExchangeRejects, cancelAll, exchange
      <3>2. RequestsType'
        BY <2>2 DEF ExchangeRejects, RequestsType, Stages, oms, exchange, reported
      <3> QED
        BY <3>1, <3>2, LinksFrame, CancelAllFrame
    <2>3. ASSUME NEW k \in CancelAllRequests, NEW ok \in BOOLEAN, ExchangeHandlesCancelAll(k, ok)
          PROVE  LinksType' /\ RequestsType' /\ CancelAllType'
      <3>1. UNCHANGED <<process, links>>
        BY <2>3 DEF ExchangeHandlesCancelAll
      <3>2. CancelAllType'
        BY <2>3 DEF ExchangeHandlesCancelAll, CancelAllType, Stages
      <3>3. RequestsType'
        BY <2>3 DEF ExchangeHandlesCancelAll, RequestsType, oms, reported
      <3> QED
        BY <3>1, <3>2, <3>3, LinksFrame
    <2>4. ASSUME NEW o \in Orders, DropCopyOrder(o)
          PROVE  LinksType' /\ RequestsType' /\ CancelAllType'
      <3>1. UNCHANGED <<process, links>> /\ UNCHANGED cancelAll
        BY <2>4 DEF DropCopyOrder, cancelAll, exchange
      <3>2. RequestsType'
        BY <2>4 DEF DropCopyOrder, RequestsType, oms, exchange, reported
      <3> QED
        BY <3>1, <3>2, LinksFrame, CancelAllFrame
    <2> QED
      BY <1>2, <2>1, <2>2, <2>3, <2>4 DEF ExchangeNext
  <1>3. CASE RestNext
    <2>1. ASSUME RestBecomesReady
          PROVE  LinksType' /\ RequestsType' /\ CancelAllType'
      <3>1. LinksType'
        BY <2>1 DEF RestBecomesReady, LinksType
      <3> QED
        BY <2>1, <3>1, RequestsFrame, CancelAllFrame
        DEF RestBecomesReady, requestVars, cancelAll, exchange
    <2>2. ASSUME NEW r \in Requests, NEW outcome \in Outcomes, OrderAck(r, outcome)
          PROVE  LinksType' /\ RequestsType' /\ CancelAllType'
      <3>1. LinksType'
        BY <2>2 DEF OrderAck, LinksType, links
      <3>2. UNCHANGED cancelAll
        BY <2>2 DEF OrderAck, cancelAll, exchange
      <3>3. CASE outcome = "fatal"
        BY <2>2, <3>1, <3>2, <3>3, RequestsFrame, CancelAllFrame
        DEF OrderAck, requestVars, exchange
      <3>4. CASE outcome # "fatal"
        <4>1. RestStatus(stage[r], outcome) \in Statuses /\ Report(r, RestStatus(stage[r], outcome))
          BY <2>2, <3>4, RestStatusType DEF OrderAck
        <4>2. responses' \in [Requests -> Nat] /\ status' \in [Requests -> Statuses]
          BY <4>1, ReportType
        <4>3. stage' \in [Requests -> Stages]
          BY <2>2, <3>4 DEF OrderAck, RequestsType, Stages
        <4>4. external' \subseteq Orders
          BY <2>2, <3>4, RequestsAreVersions DEF OrderAck, RequestsType
        <4>5. RequestsType'
          BY <2>2, <4>2, <4>3, <4>4 DEF OrderAck, RequestsType, oms, exchange
        <4> QED
          BY <3>1, <3>2, <4>5, CancelAllFrame
      <3> QED
        BY <3>3, <3>4
    <2>3. ASSUME NEW k \in CancelAllRequests, NEW outcome \in Outcomes, CancelAllOrdersAck(k, outcome)
          PROVE  LinksType' /\ RequestsType' /\ CancelAllType'
      <3>1. LinksType'
        BY <2>3 DEF CancelAllOrdersAck, LinksType, links
      <3>2. UNCHANGED requestVars
        BY <2>3 DEF CancelAllOrdersAck, requestVars, exchange
      <3>3. k[1] \in CancelAlls
        BY DEF CancelAllRequests
      <3>4. CASE outcome = "fatal"
        BY <2>3, <3>1, <3>2, <3>4, RequestsFrame, CancelAllFrame
        DEF CancelAllOrdersAck, cancelAll, exchange
      <3>5. CASE outcome # "fatal"
        <4>1. caStage' \in [CancelAllRequests -> Stages]
          BY <2>3, <3>5 DEF CancelAllOrdersAck, CancelAllType, Stages
        <4>2. caAccepted' \in [CancelAlls -> Nat] /\ caRejected' \in [CancelAlls -> Nat]
          BY <2>3, <3>3, <3>5 DEF CancelAllOrdersAck, CancelAllReport, CancelAllType
        <4>3. CancelAllType'
          BY <2>3, <4>1, <4>2 DEF CancelAllOrdersAck, CancelAllType, exchange
        <4> QED
          BY <3>1, <3>2, <4>3, RequestsFrame
      <3> QED
        BY <3>4, <3>5
    <2>4. ASSUME RestDisconnected
          PROVE  LinksType' /\ RequestsType' /\ CancelAllType'
      <3>1. LinksType'
        BY <2>4 DEF RestDisconnected, LinksType
      <3>2. RequestsType'
        <4>1. stage' \in [Requests -> Stages]
          BY <2>4 DEF RestDisconnected, RequestsType, Stages
        <4>2. responses' \in [Requests -> Nat]
          BY <2>4 DEF RestDisconnected, RequestsType
        <4>3. status' \in [Requests -> Statuses]
          BY <2>4 DEF RestDisconnected, RequestsType, Statuses
        <4> QED
          BY <2>4, <4>1, <4>2, <4>3 DEF RestDisconnected, RequestsType, oms, exchange
      <3>3. CancelAllType'
        <4>1. caStage' \in [CancelAllRequests -> Stages]
          BY <2>4 DEF RestDisconnected, CancelAllType, Stages
        <4>2. caRejected' \in [CancelAlls -> Nat]
          <5> DEFINE failed(c) == {s \in Symbols : <<c, s>> \in {k \in CancelAllRequests : caStage[k] \in InFlight}}
          <5>1. ASSUME NEW c \in CancelAlls PROVE Cardinality(failed(c)) \in Nat
            <6>1. failed(c) \in SUBSET Symbols
              OBVIOUS
            <6> QED
              BY <6>1, SubsetOfSymbols
          <5>2. caRejected' = [c \in CancelAlls |-> caRejected[c] + Cardinality(failed(c))]
            BY <2>4 DEF RestDisconnected
          <5> HIDE DEF failed
          <5> QED
            BY <5>1, <5>2 DEF CancelAllType
        <4> QED
          BY <2>4, <4>1, <4>2 DEF RestDisconnected, CancelAllType, exchange
      <3> QED
        BY <3>1, <3>2, <3>3
    <2> QED
      BY <1>3, <2>1, <2>2, <2>3, <2>4 DEF RestNext
  <1>4. CASE WsNext
    <2>1. ASSUME WsReady \/ WsError \/ \E ok \in BOOLEAN : WsAuth2(ok)
          PROVE  LinksType' /\ RequestsType' /\ CancelAllType'
      <3>1. LinksType'
        BY <2>1 DEF WsReady, WsError, WsAuth2, LinksType, links
      <3> QED
        BY <2>1, <3>1, RequestsFrame, CancelAllFrame
        DEF WsReady, WsError, WsAuth2, requestVars, cancelAll, exchange
    <2>2. ASSUME WsDisconnected
          PROVE  LinksType' /\ RequestsType' /\ CancelAllType'
      <3>1. LinksType'
        BY <2>2 DEF WsDisconnected, LinksType
      <3>2. RequestsType'
        BY <2>2 DEF WsDisconnected, RequestsType, Stages, oms, exchange, reported
      <3> QED
        BY <2>2, <3>1, <3>2, CancelAllFrame DEF WsDisconnected, cancelAll, exchange
    <2>3. ASSUME NEW r \in Requests, OrderAck2(r)
          PROVE  LinksType' /\ RequestsType' /\ CancelAllType'
      <3>1. responses' \in [Requests -> Nat] /\ status' \in [Requests -> Statuses]
        BY <2>3, ReportType DEF OrderAck2, RequestsType, Statuses, reported
      <3>2. RequestsType'
        BY <2>3, <3>1 DEF OrderAck2, RequestsType, Stages, oms, exchange
      <3> QED
        BY <2>3, <3>2, LinksFrame, CancelAllFrame DEF OrderAck2, cancelAll, exchange
    <2> QED
      BY <1>4, <2>1, <2>2, <2>3 DEF WsNext
  <1>5. CASE UNCHANGED vars
    BY <1>5, LinksFrame, RequestsFrame, CancelAllFrame
    DEF vars, requestVars, cancelAll, exchange
  <1> QED
    BY <1>1, <1>2, <1>3, <1>4, <1>5 DEF Next

\* Every variable has its type.
THEOREM TypeCorrect == Spec => []TypeOK
  BY InitType, NextType, PTL DEF Spec

-----------------------------------------------------------------------------
(***************************************************************************)
(* The inductive invariant.  Accounted and TruthfulResponses are not       *)
(* inductive: what the exchange has executed must be tied to the stage of  *)
(* the request, a response to its having been answered, and everything     *)
(* executed to the creation of its order.                                  *)
(***************************************************************************)
RequestInv(r) ==
    /\ stage[r] = "unissued" <=> version[r[1]] < r[2]
    /\ responses[r] = IF stage[r] = "answered" THEN 1 ELSE 0
    /\ stage[r] \in {"silent", "lost"} => WsApi
    /\ stage[r] \in {"executed", "silent"} => r \in executed
    /\ stage[r] \in {"unissued", "refused", "sent", "rejected"} => r \notin executed
    /\ status[r] # "none" => stage[r] = "answered"
    /\ status[r] = "ACCEPTED" => r \in executed
    /\ status[r] = "REJECTED" => r \notin executed
    /\ r \in executed => Created(r[1])
    /\ type[r] = "CREATE_ORDER" => r[2] = 1

EachRequestInv == (\A r \in Requests : RequestInv(r)) /\ KnownOrdersExist
IInv == TypeOK /\ EachRequestInv

LEMMA InitRequests == Init => EachRequestInv
  <1> SUFFICES ASSUME Init PROVE EachRequestInv
    OBVIOUS
  <1>1. ASSUME NEW r \in Requests PROVE RequestInv(r)
    BY RequestsAreVersions DEF Init, RequestInv
  <1> QED
    BY <1>1 DEF Init, EachRequestInv, KnownOrdersExist

LEMMA FrameRequests == EachRequestInv /\ UNCHANGED requestVars => EachRequestInv'
  BY DEF EachRequestInv, RequestInv, KnownOrdersExist, Created, requestVars, oms, reported

LEMMA IssueRequests ==
    ASSUME RequestsType, EachRequestInv, NEW o \in Orders, NEW kind \in Types, Issue(o, kind),
           kind = "CREATE_ORDER" => version[o] = 0
    PROVE  EachRequestInv'
  <1> DEFINE v == version[o] + 1
  <1>1. v \in Versions /\ <<o, v>> \in Requests
    BY VersionsAreRequests DEF Issue
  <1>2. /\ version' = [version EXCEPT ![o] = v]
        /\ type' = [type EXCEPT ![<<o, v>>] = kind]
        /\ stage' = [stage EXCEPT ![<<o, v>>] = IF Refused(kind) THEN "refused" ELSE "sent"]
        /\ UNCHANGED <<external, executed, responses, status>>
    BY DEF Issue, exchange, reported
  <1>3. version[o] \in Nat /\ v \in Nat /\ version'[o] = v
    BY <1>2 DEF RequestsType
  <1>4. ASSUME NEW r \in Requests PROVE RequestInv(r)'
    <2>1. RequestInv(r) /\ r[1] \in Orders /\ r[2] \in Nat /\ r = <<r[1], r[2]>>
      BY RequestsAreVersions DEF EachRequestInv
    <2>2. CASE r = <<o, v>>
      <3>1. r[1] = o /\ r[2] = v
        BY <2>2
      <3>2. stage[r] = "unissued"
        BY <1>3, <2>1, <3>1 DEF RequestInv
      <3>3. stage'[r] \in {"refused", "sent"} /\ type'[r] = kind
        BY <1>1, <1>2, <2>2 DEF RequestsType
      <3> HIDE DEF v
      <3>4. stage'[r] # "unissued" /\ ~(version'[r[1]] < r[2])
        BY <1>3, <3>1, <3>3
      <3>5. type'[r] = "CREATE_ORDER" => r[2] = 1
        BY <1>3, <3>1, <3>3 DEF v
      <3> QED
        BY <1>2, <2>1, <3>2, <3>3, <3>4, <3>5 DEF RequestInv, Created
    <2>3. CASE r # <<o, v>>
      <3>1. stage'[r] = stage[r] /\ type'[r] = type[r]
        BY <1>1, <1>2, <2>3 DEF RequestsType
      <3>2. version'[r[1]] < r[2] <=> version[r[1]] < r[2]
        <4>1. CASE r[1] = o
          <5>1. r[2] # v
            BY <2>1, <2>3, <4>1
          <5> QED
            BY <1>3, <2>1, <4>1, <5>1
        <4>2. CASE r[1] # o
          BY <1>2, <2>1, <4>2 DEF RequestsType
        <4> QED
          BY <4>1, <4>2
      <3> QED
        BY <1>2, <2>1, <3>1, <3>2 DEF RequestInv, Created
    <2> QED
      BY <2>2, <2>3
  <1>5. KnownOrdersExist'
    BY <1>2 DEF EachRequestInv, KnownOrdersExist, Created
  <1> QED
    BY <1>4, <1>5 DEF EachRequestInv

LEMMA ExchangeExecutesRequests ==
    ASSUME RequestsType, EachRequestInv, NEW r \in Requests, ExchangeExecutes(r)
    PROVE  EachRequestInv'
  <1>1. /\ stage[r] = "sent" /\ stage' = [stage EXCEPT ![r] = "executed"]
        /\ executed' = executed \cup {r}
        /\ UNCHANGED <<version, type, external, responses, status>>
    BY DEF ExchangeExecutes, oms, reported
  <1>2. Created(r[1])'
    <2>1. CASE type[r] = "CREATE_ORDER"
      <3>1. r = <<r[1], 1>>
        BY <2>1, RequestsAreVersions DEF EachRequestInv, RequestInv
      <3> QED
        BY <1>1, <3>1 DEF Created
    <2>2. CASE type[r] # "CREATE_ORDER"
      BY <1>1, <2>2 DEF ExchangeExecutes, MayExecute, Resolves, Created
    <2> QED
      BY <2>1, <2>2
  <1>3. ASSUME NEW q \in Requests PROVE RequestInv(q)'
    <2>1. RequestInv(q)
      BY DEF EachRequestInv
    <2>2. CASE q = r
      BY <1>1, <1>2, <2>1, <2>2 DEF RequestInv, RequestsType
    <2>3. CASE q # r
      BY <1>1, <2>1, <2>3 DEF RequestInv, RequestsType, Created
    <2> QED
      BY <2>2, <2>3
  <1>4. KnownOrdersExist'
    BY <1>1 DEF EachRequestInv, KnownOrdersExist, Created
  <1> QED
    BY <1>3, <1>4 DEF EachRequestInv

\* A request that leaves the ones in flight without an answer.
LEMMA UnansweredRequests ==
    ASSUME RequestsType, EachRequestInv, NEW S \in SUBSET Requests, NEW next,
           \A r \in Requests \ S : stage'[r] = stage[r],
           \A r \in S : stage'[r] = next,
           UNCHANGED <<version, type, external, executed, responses, status>>,
           \/ next = "rejected" /\ \A r \in S : stage[r] = "sent"
           \/ next = "lost" /\ WsApi /\ \A r \in S : stage[r] \in InFlight
           \/ next = "silent" /\ WsApi /\ \A r \in S : stage[r] = "executed"
    PROVE  EachRequestInv'
  <1>1. ASSUME NEW q \in Requests PROVE RequestInv(q)'
    <2>1. RequestInv(q)
      BY DEF EachRequestInv
    <2>2. CASE q \in S
      BY <2>1, <2>2 DEF RequestInv, Created, InFlight
    <2>3. CASE q \notin S
      BY <2>1, <2>3 DEF RequestInv, Created
    <2> QED
      BY <2>2, <2>3
  <1>2. KnownOrdersExist'
    BY DEF EachRequestInv, KnownOrdersExist, Created
  <1> QED
    BY <1>1, <1>2 DEF EachRequestInv

\* Answers to the requests S, all with the status st.
LEMMA AnsweredRequests ==
    ASSUME RequestsType, EachRequestInv, NEW S \in SUBSET Requests, NEW st,
           UNCHANGED <<version, type, executed>>,
           \A r \in Requests \ S : /\ stage'[r] = stage[r] /\ responses'[r] = responses[r]
                                   /\ status'[r] = status[r],
           \A r \in S : /\ stage'[r] = "answered" /\ responses'[r] = responses[r] + 1
                        /\ status'[r] = st,
           \A r \in S : /\ stage[r] \in InFlight
                        /\ st = "ACCEPTED" => stage[r] = "executed"
                        /\ st = "REJECTED" => stage[r] \in {"sent", "rejected"}
    PROVE  \A r \in Requests : RequestInv(r)'
  <1> SUFFICES ASSUME NEW q \in Requests PROVE RequestInv(q)'
    OBVIOUS
  <1>1. RequestInv(q) /\ responses[q] \in Nat
    BY DEF EachRequestInv, RequestsType
  <1>2. CASE q \in S
    <2>1. stage[q] \in InFlight /\ stage'[q] = "answered" /\ status'[q] = st
      BY <1>2
    <2>2. responses'[q] = 1
      BY <1>1, <1>2, <2>1 DEF RequestInv, InFlight
    <2> QED
      BY <1>1, <1>2, <2>1, <2>2 DEF RequestInv, Created, InFlight
  <1>3. CASE q \notin S
    <2>1. responses'[q] = responses[q]
      BY <1>1, <1>3
    <2> QED
      BY <1>1, <1>3, <2>1 DEF RequestInv, Created
  <1> QED
    BY <1>2, <1>3

LEMMA AnsweredRequest ==
    ASSUME RequestsType, EachRequestInv, NEW r \in Requests, NEW st \in Statuses, Report(r, st),
           stage' = [stage EXCEPT ![r] = "answered"],
           UNCHANGED <<version, type, executed>>,
           stage[r] \in InFlight,
           st = "ACCEPTED" => stage[r] = "executed",
           st = "REJECTED" => stage[r] \in {"sent", "rejected"}
    PROVE  \A q \in Requests : RequestInv(q)'
  <1> DEFINE S == {r}
  <1>1. /\ \A q \in Requests \ S : /\ stage'[q] = stage[q] /\ responses'[q] = responses[q]
                                  /\ status'[q] = status[q]
        /\ \A q \in S : /\ stage'[q] = "answered" /\ responses'[q] = responses[q] + 1
                       /\ status'[q] = st
    BY DEF Report, RequestsType
  <1>2. \A q \in S : /\ stage[q] \in InFlight
                     /\ st = "ACCEPTED" => stage[q] = "executed"
                     /\ st = "REJECTED" => stage[q] \in {"sent", "rejected"}
    OBVIOUS
  <1>3. S \in SUBSET Requests
    OBVIOUS
  <1> HIDE DEF S
  <1> QED
    BY <1>1, <1>2, <1>3, AnsweredRequests

LEMMA RestStatusTruth ==
    ASSUME NEW st \in InFlight, NEW outcome \in PossibleOutcomes(st), outcome # "fatal"
    PROVE  /\ RestStatus(st, outcome) = "ACCEPTED" => st = "executed"
           /\ RestStatus(st, outcome) = "REJECTED" => st \in {"sent", "rejected"}
  BY DEF InFlight, PossibleOutcomes, Outcomes, RestStatus

LEMMA NextRequests == TypeOK /\ EachRequestInv /\ [Next]_vars => EachRequestInv'
  <1> SUFFICES ASSUME RequestsType, EachRequestInv, [Next]_vars PROVE EachRequestInv'
    BY TypeParts
  <1>1. ASSUME NEW o \in Orders, CreateOrder(o) \/ ModifyOrder(o) \/ CancelOrder(o)
        PROVE  EachRequestInv'
    <2>1. PICK kind \in Types : Issue(o, kind) /\ (kind = "CREATE_ORDER" => version[o] = 0)
      BY <1>1 DEF CreateOrder, ModifyOrder, CancelOrder, Types
    <2> QED
      BY <2>1, IssueRequests
  <1>2. ASSUME NEW r \in Requests, ExchangeExecutes(r) PROVE EachRequestInv'
    BY <1>2, ExchangeExecutesRequests
  <1>3. ASSUME NEW r \in Requests, ExchangeRejects(r) PROVE EachRequestInv'
    <2> DEFINE S == {r}
    <2>1. (\A q \in Requests \ S : stage'[q] = stage[q]) /\ (\A q \in S : stage'[q] = "rejected")
      BY <1>3 DEF ExchangeRejects, RequestsType
    <2>2. /\ S \in SUBSET Requests /\ \A q \in S : stage[q] = "sent"
          /\ UNCHANGED <<version, type, external, executed, responses, status>>
      BY <1>3 DEF ExchangeRejects, oms, exchange, reported
    <2> HIDE DEF S
    <2> QED
      BY <2>1, <2>2, UnansweredRequests
  <1>4. ASSUME NEW o \in Orders, DropCopyOrder(o) PROVE EachRequestInv'
    BY <1>4
    DEF DropCopyOrder, oms, exchange, reported, EachRequestInv, RequestInv, KnownOrdersExist, Created
  <1>5. ASSUME NEW r \in Requests, NEW outcome \in Outcomes, OrderAck(r, outcome)
        PROVE  EachRequestInv'
    <2>1. CASE outcome = "fatal"
      BY <1>5, <2>1, FrameRequests DEF OrderAck, requestVars, exchange
    <2>2. CASE outcome # "fatal"
      <3> DEFINE st == RestStatus(stage[r], outcome)
      <3>1. /\ stage[r] \in InFlight /\ outcome \in PossibleOutcomes(stage[r])
            /\ Report(r, st) /\ stage' = [stage EXCEPT ![r] = "answered"]
            /\ external' = IF NamesOrder(stage[r], outcome)
                           THEN external \cup {r[1]} ELSE external
            /\ UNCHANGED <<version, type, executed>>
        BY <1>5, <2>2 DEF OrderAck, oms, exchange
      <3>2. /\ st = "ACCEPTED" => stage[r] = "executed"
            /\ st = "REJECTED" => stage[r] \in {"sent", "rejected"}
        BY <2>2, <3>1, RestStatusTruth
      <3>0. st \in Statuses
        BY <2>2, <3>1, RestStatusType
      <3> HIDE DEF st
      <3>3. \A q \in Requests : RequestInv(q)'
        BY <3>1, <3>2, <3>0, AnsweredRequest
      <3>4. KnownOrdersExist'
        <4>1. NamesOrder(stage[r], outcome) => Created(r[1])
          BY DEF NamesOrder, EachRequestInv, RequestInv
        <4> QED
          BY <3>1, <4>1 DEF EachRequestInv, KnownOrdersExist, Created
      <3> QED
        BY <3>3, <3>4 DEF EachRequestInv
    <2> QED
      BY <2>1, <2>2
  <1>6. ASSUME RestDisconnected PROVE EachRequestInv'
    <2> DEFINE failed == {r \in Requests : ~WsApi /\ stage[r] \in InFlight}
    <2>1. /\ \A r \in Requests \ failed : /\ stage'[r] = stage[r] /\ responses'[r] = responses[r]
                                         /\ status'[r] = status[r]
          /\ \A r \in failed : /\ stage'[r] = "answered" /\ responses'[r] = responses[r] + 1
                              /\ status'[r] = "ERROR"
          /\ UNCHANGED <<version, type, external, executed>>
      BY <1>6 DEF RestDisconnected, oms, exchange, RequestsType
    <2>2. failed \in SUBSET Requests /\ \A r \in failed : stage[r] \in InFlight
      OBVIOUS
    <2> HIDE DEF failed
    <2>3. \A r \in Requests : RequestInv(r)'
      BY <2>1, <2>2, AnsweredRequests
    <2>4. KnownOrdersExist'
      BY <2>1 DEF EachRequestInv, KnownOrdersExist, Created
    <2> QED
      BY <2>3, <2>4 DEF EachRequestInv
  <1>7. ASSUME WsDisconnected PROVE EachRequestInv'
    <2> DEFINE lost == {r \in Requests : WsApi /\ stage[r] \in InFlight}
    <2>1. /\ stage' = [r \in Requests |-> IF r \in lost THEN "lost" ELSE stage[r]]
          /\ \A r \in Requests \ lost : stage'[r] = stage[r]
          /\ \A r \in lost : stage'[r] = "lost"
          /\ UNCHANGED <<version, type, external, executed, responses, status>>
      BY <1>7 DEF WsDisconnected, oms, exchange, reported
    <2>2. lost \in SUBSET Requests /\ \A r \in lost : WsApi /\ stage[r] \in InFlight
      OBVIOUS
    <2> HIDE DEF lost
    <2>3. CASE lost = {}
      <3>1. stage' = stage
        BY <2>1, <2>3 DEF RequestsType
      <3> QED
        BY <2>1, <3>1 DEF EachRequestInv, RequestInv, KnownOrdersExist, Created
    <2>4. CASE lost # {}
      BY <2>1, <2>2, <2>4, UnansweredRequests
    <2> QED
      BY <2>3, <2>4
  <1>8. ASSUME NEW r \in Requests, OrderAck2(r) PROVE EachRequestInv'
    <2>1. CASE stage[r] = "rejected"
      <3>1. /\ Report(r, "REJECTED") /\ stage' = [stage EXCEPT ![r] = "answered"]
            /\ UNCHANGED <<version, type, external, executed>>
        BY <1>8, <2>1 DEF OrderAck2, oms, exchange
      <3>2. \A q \in Requests : RequestInv(q)'
        BY <2>1, <3>1, AnsweredRequest DEF InFlight, Statuses
      <3>3. KnownOrdersExist'
        BY <3>1 DEF EachRequestInv, KnownOrdersExist, Created
      <3> QED
        BY <3>2, <3>3 DEF EachRequestInv
    <2>2. CASE stage[r] # "rejected"
      <3> DEFINE S == {r}
      <3>1. /\ WsApi /\ S \in SUBSET Requests /\ \A q \in S : stage[q] = "executed"
            /\ \A q \in Requests \ S : stage'[q] = stage[q]
            /\ \A q \in S : stage'[q] = "silent"
            /\ UNCHANGED <<version, type, external, executed, responses, status>>
        BY <1>8, <2>2 DEF OrderAck2, oms, exchange, reported, RequestsType
      <3> HIDE DEF S
      <3> QED
        BY <3>1, UnansweredRequests
    <2> QED
      BY <2>1, <2>2
  <1>9. ASSUME \/ \E c \in CancelAlls, filter \in SUBSET Symbols : CancelAllOrders(c, filter)
               \/ \E k \in CancelAllRequests, ok \in BOOLEAN : ExchangeHandlesCancelAll(k, ok)
               \/ \E k \in CancelAllRequests, outcome \in Outcomes : CancelAllOrdersAck(k, outcome)
               \/ RestBecomesReady \/ WsReady \/ WsError
               \/ \E ok \in BOOLEAN : WsAuth2(ok)
               \/ UNCHANGED vars
        PROVE  EachRequestInv'
    <2>1. UNCHANGED <<oms, external, stage, executed, reported>>
      BY <1>9 DEF CancelAllOrders, ExchangeHandlesCancelAll, CancelAllOrdersAck, RestBecomesReady,
                  WsReady, WsError, WsAuth2, vars, exchange
    <2> QED
      BY <2>1 DEF EachRequestInv, RequestInv, KnownOrdersExist, Created, oms, reported
  <1>10. ASSUME NEW c \in CancelAlls, \/ CancelAllOrders(c, Symbols)
                                      \/ \E s \in Symbols : CancelAllOrders(c, {s})
         PROVE  EachRequestInv'
    <2>1. \E filter \in SUBSET Symbols : CancelAllOrders(c, filter)
      BY <1>10
    <2> QED
      BY <1>9, <2>1
  <1>11. CASE ClientNext
    BY <1>1, <1>10, <1>11 DEF ClientNext
  <1>12. CASE ExchangeNext
    BY <1>2, <1>3, <1>4, <1>9, <1>12 DEF ExchangeNext
  <1>13. CASE RestNext
    BY <1>5, <1>6, <1>9, <1>13 DEF RestNext
  <1>14. CASE WsNext
    BY <1>7, <1>8, <1>9, <1>14 DEF WsNext
  <1> QED
    BY <1>9, <1>11, <1>12, <1>13, <1>14 DEF Next

LEMMA Invariance == Spec => []IInv
  <1>1. Init => IInv
    BY InitType, InitRequests DEF IInv
  <1>2. IInv /\ [Next]_vars => IInv'
    BY NextType, NextRequests DEF IInv
  <1> QED
    BY <1>1, <1>2, PTL DEF Spec

\* Every request is accounted for: refused, in flight, or answered once under its
\* own version -- silent or lost on the websocket only.
THEOREM AccountedHolds == Spec => []Accounted
  <1>1. IInv => Accounted
    BY DEF IInv, EachRequestInv, RequestInv, Accounted
  <1> QED
    BY <1>1, Invariance, PTL

\* ACCEPTED means executed, and REJECTED (but for a 5xx) means not executed.
THEOREM TruthfulResponsesHolds == Spec => []TruthfulResponses
  <1>1. IInv => TruthfulResponses
    BY DEF IInv, EachRequestInv, RequestInv, TruthfulResponses
  <1> QED
    BY <1>1, Invariance, PTL

\* The OMS knows by its external id no order the exchange has not created.
THEOREM KnownOrdersExistHolds == Spec => []KnownOrdersExist
  <1>1. IInv => KnownOrdersExist
    BY DEF IInv, EachRequestInv
  <1> QED
    BY <1>1, Invariance, PTL
-----------------------------------------------------------------------------
(***************************************************************************)
(* Cancel all orders: the acknowledgements are counted.                    *)
(***************************************************************************)
AnsweredFor(c) == {s \in Symbols : caStage[<<c, s>>] = "answered"}

LEMMA InitCancelAll == Init => CancelAllAccounted
  <1> SUFFICES ASSUME Init PROVE CancelAllAccounted
    OBVIOUS
  <1>1. ASSUME NEW c \in CancelAlls
        PROVE  Cardinality({s \in Symbols : caStage[<<c, s>>] = "answered"}) = 0
    <2>1. {s \in Symbols : caStage[<<c, s>>] = "answered"} = {}
      BY DEF Init, CancelAllRequests
    <2> QED
      BY <2>1, FS_EmptySet
  <1> QED
    BY <1>1 DEF Init, CancelAllAccounted

\* Steps that answer no request of a cancel-all.
LEMMA UnansweredCancelAll ==
    ASSUME CancelAllAccounted,
           \A k \in CancelAllRequests : caStage'[k] = "answered" <=> caStage[k] = "answered",
           \A k \in CancelAllRequests :
              caForwarded'[k] = IF caStage'[k] \in {"unissued", "refused"} THEN 0 ELSE 1,
           UNCHANGED <<caAccepted, caRejected>>
    PROVE  CancelAllAccounted'
  <1>1. ASSUME NEW c \in CancelAlls
        PROVE  {s \in Symbols : caStage'[<<c, s>>] = "answered"} = {s \in Symbols : caStage[<<c, s>>] = "answered"}
    BY DEF CancelAllRequests
  <1> QED
    BY <1>1 DEF CancelAllAccounted

LEMMA CancelAllOrdersAccounted ==
    ASSUME TypeOK, CancelAllAccounted, NEW c \in CancelAlls, NEW filter \in SUBSET Symbols,
           CancelAllOrders(c, filter)
    PROVE  CancelAllAccounted'
  <1> DEFINE symbols == {SymbolOf[o] : o \in {p \in Orders : version[p] > 0}} \cap filter
  <1>1. \A k \in CancelAllRequests : k[1] = c => caStage[k] = "unissued"
    BY DEF CancelAllOrders, CancelAllRequests
  <1>2. /\ caStage' = [k \in CancelAllRequests |->
                        IF k[1] # c THEN caStage[k]
                        ELSE IF restReady # "READY" THEN "refused"
                        ELSE IF k[2] \in symbols THEN "sent" ELSE "unissued"]
        /\ caForwarded' = [k \in CancelAllRequests |->
                            IF k[1] = c /\ restReady = "READY" /\ k[2] \in symbols
                            THEN caForwarded[k] + 1 ELSE caForwarded[k]]
        /\ UNCHANGED <<caAccepted, caRejected>>
    BY DEF CancelAllOrders
  <1> HIDE DEF symbols
  <1>3. \A k \in CancelAllRequests : caStage'[k] = "answered" <=> caStage[k] = "answered"
    BY <1>1, <1>2
  <1>4. \A k \in CancelAllRequests :
          caForwarded'[k] = IF caStage'[k] \in {"unissued", "refused"} THEN 0 ELSE 1
    BY <1>1, <1>2 DEF CancelAllAccounted
  <1> QED
    BY <1>2, <1>3, <1>4, UnansweredCancelAll

LEMMA CancelAllOrdersAckAccounted ==
    ASSUME TypeOK, CancelAllAccounted, NEW k \in CancelAllRequests, NEW outcome \in Outcomes,
           CancelAllOrdersAck(k, outcome)
    PROVE  CancelAllAccounted'
  <1>1. CASE outcome = "fatal"
    BY <1>1, UnansweredCancelAll DEF CancelAllOrdersAck, CancelAllAccounted
  <1>2. CASE outcome # "fatal"
    <2>1. /\ caStage[k] \in InFlight /\ caStage' = [caStage EXCEPT ![k] = "answered"]
          /\ CancelAllReport(k[1], IF outcome = "success" THEN "ACCEPTED" ELSE "REJECTED")
          /\ UNCHANGED caForwarded
      BY <1>2 DEF CancelAllOrdersAck
    <2>2. PICK d \in CancelAlls, t \in Symbols : k = <<d, t>>
      BY DEF CancelAllRequests
    <2>3. \A l \in CancelAllRequests : caStage'[l] = IF l = k THEN "answered" ELSE caStage[l]
      BY <2>1 DEF TypeOK
    <2>4. \A l \in CancelAllRequests :
            caForwarded'[l] = IF caStage'[l] \in {"unissued", "refused"} THEN 0 ELSE 1
      BY <2>1, <2>3 DEF CancelAllAccounted, InFlight
    <2>5. ASSUME NEW c \in CancelAlls
          PROVE  caAccepted'[c] + caRejected'[c] = Cardinality(AnsweredFor(c)')
      <3>1. caAccepted[c] + caRejected[c] = Cardinality(AnsweredFor(c))
        BY DEF CancelAllAccounted, AnsweredFor
      <3>2. CASE c = d
        <4>1. AnsweredFor(c)' = AnsweredFor(c) \cup {t}
          BY <2>2, <2>3, <3>2 DEF AnsweredFor, CancelAllRequests
        <4>2. t \notin AnsweredFor(c)
          BY <2>1, <2>2, <3>2 DEF AnsweredFor, InFlight
        <4>3. IsFiniteSet(AnsweredFor(c))
          BY SubsetOfSymbols DEF AnsweredFor
        <4>4. Cardinality(AnsweredFor(c)') = Cardinality(AnsweredFor(c)) + 1
          BY <4>1, <4>2, <4>3, FS_AddElement
        <4>5. caAccepted'[c] + caRejected'[c] = caAccepted[c] + caRejected[c] + 1
          BY <2>1, <2>2, <3>2 DEF CancelAllReport, TypeOK
        <4> QED
          BY <3>1, <4>4, <4>5
      <3>3. CASE c # d
        <4>1. AnsweredFor(c)' = AnsweredFor(c)
          BY <2>2, <2>3, <3>3 DEF AnsweredFor, CancelAllRequests
        <4>2. caAccepted'[c] = caAccepted[c] /\ caRejected'[c] = caRejected[c]
          BY <2>1, <2>2, <3>3 DEF CancelAllReport, TypeOK
        <4> QED
          BY <3>1, <4>1, <4>2
      <3> QED
        BY <3>2, <3>3
    <2> QED
      BY <2>4, <2>5 DEF CancelAllAccounted, AnsweredFor
  <1> QED
    BY <1>1, <1>2

\* All that are outstanding are answered, each by its own handler.
LEMMA RestDisconnectedAccounted ==
    ASSUME TypeOK, CancelAllAccounted, RestDisconnected
    PROVE  CancelAllAccounted'
  <1> DEFINE failed(c) == {s \in Symbols : <<c, s>> \in {k \in CancelAllRequests : caStage[k] \in InFlight}}
  <1>1. /\ \A k \in CancelAllRequests :
             caStage'[k] = IF caStage[k] \in InFlight THEN "answered" ELSE caStage[k]
        /\ caRejected' = [c \in CancelAlls |-> caRejected[c] + Cardinality(failed(c))]
        /\ UNCHANGED <<caForwarded, caAccepted>>
    BY DEF RestDisconnected
  <1>2. \A k \in CancelAllRequests :
          caForwarded'[k] = IF caStage'[k] \in {"unissued", "refused"} THEN 0 ELSE 1
    BY <1>1 DEF CancelAllAccounted, InFlight
  <1>3. ASSUME NEW c \in CancelAlls
        PROVE  caAccepted'[c] + caRejected'[c] = Cardinality(AnsweredFor(c)')
    <2>1. AnsweredFor(c)' = AnsweredFor(c) \cup failed(c)
      BY <1>1 DEF AnsweredFor, CancelAllRequests
    <2>2. AnsweredFor(c) \cap failed(c) = {}
      BY DEF AnsweredFor, InFlight
    <2>3. AnsweredFor(c) \in SUBSET Symbols /\ failed(c) \in SUBSET Symbols
      BY DEF AnsweredFor
    <2>4. caRejected'[c] = caRejected[c] + Cardinality(failed(c))
      BY <1>1, Zenon
    <2> HIDE DEF failed
    <2>5. /\ IsFiniteSet(AnsweredFor(c)) /\ Cardinality(AnsweredFor(c)) \in Nat
          /\ IsFiniteSet(failed(c)) /\ Cardinality(failed(c)) \in Nat
      BY <2>3, SubsetOfSymbols
    <2>6. Cardinality(AnsweredFor(c)') = Cardinality(AnsweredFor(c)) + Cardinality(failed(c))
      <3>1. Cardinality(AnsweredFor(c) \cup failed(c)) =
              Cardinality(AnsweredFor(c)) + Cardinality(failed(c)) - Cardinality({})
        BY <2>2, <2>5, FS_Union, Zenon
      <3> QED
        BY <2>1, <2>5, <3>1, FS_EmptySet
    <2>7. caAccepted[c] + caRejected[c] = Cardinality(AnsweredFor(c))
      BY DEF CancelAllAccounted, AnsweredFor
    <2> QED
      BY <1>1, <2>4, <2>5, <2>6, <2>7 DEF TypeOK
  <1> QED
    BY <1>2, <1>3 DEF CancelAllAccounted, AnsweredFor

LEMMA NextCancelAll == TypeOK /\ CancelAllAccounted /\ [Next]_vars => CancelAllAccounted'
  <1> SUFFICES ASSUME TypeOK, CancelAllAccounted, [Next]_vars PROVE CancelAllAccounted'
    OBVIOUS
  <1>1. ASSUME UNCHANGED cancelAll PROVE CancelAllAccounted'
    BY <1>1 DEF CancelAllAccounted, cancelAll
  <1>2. CASE ClientNext
    <2>1. ASSUME NEW o \in Orders, CreateOrder(o) \/ ModifyOrder(o) \/ CancelOrder(o)
          PROVE  CancelAllAccounted'
      BY <1>1, <2>1 DEF CreateOrder, ModifyOrder, CancelOrder, Issue
    <2> QED
      BY <1>2, <2>1, CancelAllOrdersAccounted DEF ClientNext
  <1>3. CASE ExchangeNext
    <2>1. ASSUME NEW k \in CancelAllRequests, NEW ok \in BOOLEAN, ExchangeHandlesCancelAll(k, ok)
          PROVE  CancelAllAccounted'
      BY <2>1, UnansweredCancelAll DEF ExchangeHandlesCancelAll, TypeOK, CancelAllAccounted
    <2> QED
      BY <1>1, <1>3, <2>1 DEF ExchangeNext, ExchangeExecutes, ExchangeRejects, DropCopyOrder
  <1>4. CASE RestNext
    BY <1>1, <1>4, RestDisconnectedAccounted, CancelAllOrdersAckAccounted
    DEF RestNext, RestBecomesReady, OrderAck
  <1>5. CASE WsNext
    BY <1>1, <1>5 DEF WsNext, WsReady, WsDisconnected, WsError, WsAuth2, OrderAck2
  <1>6. CASE UNCHANGED vars
    BY <1>1, <1>6 DEF vars
  <1> QED
    BY <1>2, <1>3, <1>4, <1>5, <1>6 DEF Next

\* For any symbols and cancel-alls, each request that was sent is forwarded once and has
\* one final acknowledgement, whatever is answered, fails or is lost with the connection.
THEOREM CancelAllAccountedHolds == Spec => []CancelAllAccounted
  <1>1. Spec => []TypeOK
    BY TypeCorrect
  <1> QED
    BY <1>1, InitCancelAll, NextCancelAll, PTL DEF Spec

-----------------------------------------------------------------------------
(***************************************************************************)
(* The refinement.  A step of the service changes requestState pointwise,  *)
(* so each action is first reduced to what it does to the stages.          *)
(***************************************************************************)
LEMMA StateOfStage ==
    ASSUME NEW r \in Requests
    PROVE  /\ stage[r] = "unissued" => requestState[r] = "idle"
           /\ stage[r] \in InFlight => requestState[r] = "pending"
           /\ stage[r] \notin InFlight \cup {"unissued"} => requestState[r] = "concluded"
  <1>1. requestState[r] = CASE stage[r] = "unissued" -> "idle"
                            [] stage[r] \in InFlight -> "pending"
                            [] OTHER -> "concluded"
    BY DEF requestState
  <1>2. "unissued" \notin InFlight
    BY DEF InFlight
  <1> QED
    BY <1>1, <1>2

LEMMA NextStateOfStage ==
    ASSUME NEW r \in Requests
    PROVE  /\ stage'[r] = "unissued" => requestState'[r] = "idle"
           /\ stage'[r] \in InFlight => requestState'[r] = "pending"
           /\ stage'[r] \notin InFlight \cup {"unissued"} => requestState'[r] = "concluded"
  <1>1. requestState'[r] = CASE stage'[r] = "unissued" -> "idle"
                             [] stage'[r] \in InFlight -> "pending"
                             [] OTHER -> "concluded"
    BY DEF requestState
  <1>2. "unissued" \notin InFlight
    BY DEF InFlight
  <1> QED
    BY <1>1, <1>2

LEMMA SameStateOfStage ==
    ASSUME NEW r \in Requests, stage'[r] = stage[r]
    PROVE  requestState'[r] = requestState[r]
  BY DEF requestState

LEMMA MakeStep ==
    ASSUME RequestsType, NEW r \in Requests, stage[r] = "unissued",
           stage'[r] \in {"sent", "refused"},
           \A q \in Requests \ {r} : stage'[q] = stage[q],
           UNCHANGED responses
    PROVE  Service!Make(r)
  <1>1. requestState[r] = "idle"
    BY StateOfStage
  <1>2. requestState'[r] \in {"pending", "concluded"}
    BY NextStateOfStage DEF InFlight
  <1>3. \A q \in Requests \ {r} : requestState'[q] = requestState[q]
    BY SameStateOfStage
  <1>4. requestState' = [requestState EXCEPT ![r] = requestState'[r]]
    <2>1. DOMAIN requestState = Requests /\ requestState = [q \in Requests |-> requestState[q]]
      BY DEF requestState
    <2>2. requestState' = [q \in Requests |-> requestState'[q]]
      BY DEF requestState
    <2> QED
      BY <1>3, <2>1, <2>2
  <1> QED
    BY <1>1, <1>2, <1>4 DEF Service!Make

LEMMA ConcludeStep ==
    ASSUME RequestsType, NEW C \in SUBSET Requests, NEW A \in SUBSET C, C # {},
           \A r \in C : stage[r] \in InFlight /\ stage'[r] \in {"answered", "silent", "lost"},
           \A r \in Requests \ C : stage'[r] = stage[r],
           responses' \in [Requests -> Nat],
           \A r \in A : responses'[r] = responses[r] + 1,
           \A r \in Requests \ A : responses'[r] = responses[r]
    PROVE  Service!Next
  <1>1. \A r \in C : requestState[r] = "pending"
    BY StateOfStage
  <1>2. \A r \in C : requestState'[r] = "concluded"
    BY NextStateOfStage DEF InFlight
  <1>3. \A r \in Requests \ C : requestState'[r] = requestState[r]
    BY SameStateOfStage
  <1>4. requestState' = [r \in Requests |-> IF r \in C THEN "concluded" ELSE requestState[r]]
    <2>1. requestState' = [r \in Requests |-> requestState'[r]]
      BY DEF requestState
    <2> QED
      BY <1>2, <1>3, <2>1
  <1>5. responses' = [r \in Requests |-> IF r \in A THEN responses[r] + 1 ELSE responses[r]]
    OBVIOUS
  <1>6. Service!Conclude(C, A)
    BY <1>1, <1>4, <1>5 DEF Service!Conclude
  <1> QED
    BY <1>6 DEF Service!Next

\* Requests whose stage changes within InFlight: nothing the service sees.
LEMMA ServiceStutters ==
    ASSUME \A r \in Requests :
               stage'[r] = stage[r] \/ (stage[r] \in InFlight /\ stage'[r] \in InFlight),
           UNCHANGED responses
    PROVE  UNCHANGED <<requestState, responses>>
  <1>1. ASSUME NEW r \in Requests PROVE requestState'[r] = requestState[r]
    BY SameStateOfStage, StateOfStage, NextStateOfStage
  <1>2. /\ requestState = [r \in Requests |-> requestState[r]]
        /\ requestState' = [r \in Requests |-> requestState'[r]]
    BY DEF requestState
  <1>3. requestState' = requestState
    BY <1>1, <1>2
  <1> QED
    BY <1>3

LEMMA ServiceInit == Init => Service!Init
  <1> SUFFICES ASSUME Init PROVE Service!Init
    OBVIOUS
  <1>1. ASSUME NEW r \in Requests PROVE requestState[r] = "idle"
    BY StateOfStage DEF Init
  <1>2. requestState = [r \in Requests |-> requestState[r]]
    BY DEF requestState
  <1>3. requestState = [r \in Requests |-> "idle"]
    BY <1>1, <1>2
  <1> QED
    BY <1>3 DEF Init, Service!Init

LEMMA ServiceStep == IInv /\ TypeOK' /\ [Next]_vars => [Service!Next]_(Service!vars)
  <1> SUFFICES ASSUME RequestsType, EachRequestInv, RequestsType', [Next]_vars
               PROVE  Service!Next \/ UNCHANGED <<requestState, responses>>
    BY DEF IInv, Service!vars, TypeOK, RequestsType
  <1>0. stage \in [Requests -> Stages] /\ responses' \in [Requests -> Nat]
    BY DEF RequestsType
  <1>1. ASSUME NEW o \in Orders, CreateOrder(o) \/ ModifyOrder(o) \/ CancelOrder(o)
        PROVE  Service!Next
    <2> DEFINE r == <<o, version[o] + 1>>
    <2>1. PICK kind \in Types : Issue(o, kind)
      BY <1>1 DEF CreateOrder, ModifyOrder, CancelOrder, Types
    <2>2. r \in Requests /\ r[1] = o /\ r[2] = version[o] + 1
      BY <2>1, VersionsAreRequests DEF Issue
    <2>3. stage[r] = "unissued"
      BY <2>2 DEF EachRequestInv, RequestInv, RequestsType
    <2>4. stage' = [stage EXCEPT ![r] = IF Refused(kind) THEN "refused" ELSE "sent"]
          /\ UNCHANGED responses
      BY <2>1 DEF Issue, reported
    <2> HIDE DEF r
    <2>5. stage'[r] \in {"sent", "refused"} /\ \A q \in Requests \ {r} : stage'[q] = stage[q]
      BY <1>0, <2>2, <2>4
    <2>6. Service!Make(r)
      BY <2>2, <2>3, <2>4, <2>5, MakeStep
    <2> QED
      BY <2>2, <2>6 DEF Service!Next
  <1>2. ASSUME NEW r \in Requests, ExchangeExecutes(r) \/ ExchangeRejects(r)
        PROVE  UNCHANGED <<requestState, responses>>
    <2>1. /\ \A q \in Requests : stage'[q] = stage[q]
                                 \/ (stage[q] \in InFlight /\ stage'[q] \in InFlight)
          /\ UNCHANGED responses
      BY <1>0, <1>2 DEF ExchangeExecutes, ExchangeRejects, InFlight, reported
    <2> QED
      BY <2>1, ServiceStutters
  <1>3. ASSUME NEW r \in Requests, NEW A \in SUBSET {r}, NEW next \in {"answered", "silent"},
               stage[r] \in InFlight, stage' = [stage EXCEPT ![r] = next],
               \A q \in A : responses'[q] = responses[q] + 1,
               \A q \in Requests \ A : responses'[q] = responses[q]
        PROVE  Service!Next
    <2> DEFINE C == {r}
    <2>1. /\ C \in SUBSET Requests /\ A \in SUBSET C /\ C # {}
          /\ \A q \in C : stage[q] \in InFlight /\ stage'[q] \in {"answered", "silent", "lost"}
          /\ \A q \in Requests \ C : stage'[q] = stage[q]
      BY <1>0, <1>3
    <2> HIDE DEF C
    <2> QED
      BY <1>0, <1>3, <2>1, ConcludeStep
  <1>4. ASSUME NEW r \in Requests, NEW st \in Statuses, Report(r, st), stage[r] \in InFlight,
               stage' = [stage EXCEPT ![r] = "answered"]
        PROVE  Service!Next
    <2> DEFINE A == {r}
    <2>1. /\ \A q \in A : responses'[q] = responses[q] + 1
          /\ \A q \in Requests \ A : responses'[q] = responses[q]
      BY <1>4 DEF Report, RequestsType
    <2>2. A \in SUBSET {r}
      OBVIOUS
    <2> HIDE DEF A
    <2> QED
      BY <1>3, <1>4, <2>1, <2>2
  <1>5. ASSUME NEW r \in Requests, NEW outcome \in Outcomes, OrderAck(r, outcome)
        PROVE  Service!Next \/ UNCHANGED <<requestState, responses>>
    <2>1. CASE outcome = "fatal"
      BY <1>5, <2>1, ServiceStutters DEF OrderAck, reported
    <2>2. CASE outcome # "fatal"
      <3>1. /\ stage[r] \in InFlight /\ outcome \in PossibleOutcomes(stage[r])
            /\ Report(r, RestStatus(stage[r], outcome))
            /\ stage' = [stage EXCEPT ![r] = "answered"]
        BY <1>5, <2>2 DEF OrderAck
      <3> QED
        BY <1>4, <2>2, <3>1, RestStatusType
    <2> QED
      BY <2>1, <2>2
  <1>6. ASSUME NEW r \in Requests, OrderAck2(r) PROVE Service!Next
    <2>1. stage[r] \in {"executed", "rejected"} /\ stage[r] \in InFlight
      BY <1>6 DEF OrderAck2, InFlight
    <2>2. CASE stage[r] = "rejected"
      BY <1>4, <1>6, <2>1, <2>2 DEF OrderAck2, Statuses
    <2>3. CASE stage[r] # "rejected"
      <3>1. stage' = [stage EXCEPT ![r] = "silent"] /\ responses' = responses
        BY <1>6, <2>3 DEF OrderAck2, reported
      <3> DEFINE A == {}
      <3>2. /\ A \in SUBSET {r} /\ \A q \in A : responses'[q] = responses[q] + 1
            /\ \A q \in Requests \ A : responses'[q] = responses[q]
        BY <3>1
      <3> HIDE DEF A
      <3> QED
        BY <1>3, <2>1, <3>1, <3>2
    <2> QED
      BY <2>2, <2>3
  <1>7. ASSUME RestDisconnected PROVE Service!Next \/ UNCHANGED <<requestState, responses>>
    <2> DEFINE C == {r \in Requests : ~WsApi /\ stage[r] \in InFlight}
    <2>1. /\ \A r \in C : stage'[r] = "answered" /\ responses'[r] = responses[r] + 1
          /\ \A r \in Requests \ C : stage'[r] = stage[r] /\ responses'[r] = responses[r]
      BY <1>7 DEF RestDisconnected, RequestsType
    <2>2. C \in SUBSET Requests /\ \A r \in C : stage[r] \in InFlight
      OBVIOUS
    <2>3. responses' = [r \in Requests |-> responses'[r]] /\ responses = [r \in Requests |-> responses[r]]
      BY <1>0 DEF RequestsType
    <2> HIDE DEF C
    <2>4. CASE C = {}
      <3>1. responses' = responses /\ \A r \in Requests : stage'[r] = stage[r]
        BY <2>1, <2>3, <2>4
      <3> QED
        BY <3>1, ServiceStutters
    <2>5. CASE C # {}
      <3>1. C \in SUBSET C
        OBVIOUS
      <3> QED
        BY <1>0, <2>1, <2>2, <2>5, <3>1, ConcludeStep
    <2> QED
      BY <2>4, <2>5
  <1>8. ASSUME WsDisconnected PROVE Service!Next \/ UNCHANGED <<requestState, responses>>
    <2> DEFINE C == {r \in Requests : WsApi /\ stage[r] \in InFlight}
    <2>1. /\ \A r \in C : stage'[r] = "lost"
          /\ \A r \in Requests \ C : stage'[r] = stage[r]
          /\ responses' = responses
      BY <1>8 DEF WsDisconnected, reported
    <2>2. C \in SUBSET Requests /\ \A r \in C : stage[r] \in InFlight
      OBVIOUS
    <2> HIDE DEF C
    <2>3. CASE C = {}
      BY <2>1, <2>3, ServiceStutters
    <2>4. CASE C # {}
      <3> DEFINE A == {}
      <3>1. /\ A \in SUBSET C /\ \A r \in A : responses'[r] = responses[r] + 1
            /\ \A r \in Requests \ A : responses'[r] = responses[r]
        BY <2>1
      <3> HIDE DEF A
      <3> QED
        BY <1>0, <2>1, <2>2, <2>4, <3>1, ConcludeStep
    <2> QED
      BY <2>3, <2>4
  <1>9. ASSUME UNCHANGED <<stage, responses>> PROVE UNCHANGED <<requestState, responses>>
    BY <1>9, ServiceStutters
  <1>10. CASE ClientNext
    BY <1>1, <1>9, <1>10 DEF ClientNext, CancelAllOrders, reported
  <1>11. CASE ExchangeNext
    BY <1>2, <1>9, <1>11 DEF ExchangeNext, ExchangeHandlesCancelAll, DropCopyOrder, reported
  <1>12. CASE RestNext
    BY <1>5, <1>7, <1>9, <1>12 DEF RestNext, RestBecomesReady, CancelAllOrdersAck, reported
  <1>13. CASE WsNext
    BY <1>6, <1>8, <1>9, <1>13 DEF WsNext, WsReady, WsError, WsAuth2, reported
  <1>14. CASE UNCHANGED vars
    BY <1>9, <1>14 DEF vars, reported
  <1> QED
    BY <1>10, <1>11, <1>12, <1>13, <1>14 DEF Next

\* The way a request takes through the order entry streams is that of RequestService:
\* concluded once, with at most one answer.
THEOREM Implements == Spec => ServiceSpec
  <1>1. Init => Service!Init
    BY ServiceInit
  <1>2. IInv /\ TypeOK' /\ [Next]_vars => [Service!Next]_(Service!vars)
    BY ServiceStep
  <1>3. Spec => []IInv
    BY Invariance
  <1>4. Spec => []TypeOK
    BY TypeCorrect
  <1> QED
    BY <1>1, <1>2, <1>3, <1>4, PTL DEF Spec, ServiceSpec, Service!Spec

-----------------------------------------------------------------------------
(***************************************************************************)
(* How far TargetsOwnOrder holds, and what comes of it where it does not.  *)
(* previous_request_id is the id of the creation for the second request    *)
(* only; what names its order by a later one is not found by the exchange. *)
(***************************************************************************)
OwnId(r) == target[r] \in {ExternalId, 1}
StrayInv == \A r \in Requests : ~OwnId(r) => r[2] > 2 /\ r \notin executed

LEMMA IssueStrays ==
    ASSUME TypeOK, EachRequestInv, StrayInv, NEW o \in Orders,
           CreateOrder(o) \/ ModifyOrder(o) \/ CancelOrder(o)
    PROVE  StrayInv'
<1>1. PICK kind : /\ Issue(o, kind)
                  /\ kind = "CREATE_ORDER" => version[o] = 0
                  /\ kind # "CREATE_ORDER" => version[o] > 0
  <2>1. CASE CreateOrder(o)
    BY <2>1 DEF CreateOrder
  <2>2. CASE ModifyOrder(o)
    BY <2>2 DEF ModifyOrder, Alive
  <2>3. CASE CancelOrder(o)
    BY <2>3 DEF CancelOrder, Alive
  <2> QED
    BY <2>1, <2>2, <2>3
<1> DEFINE v == version[o] + 1
<1>2. version[o] \in Nat /\ v \in Versions /\ <<o, v>> \in Requests /\ version[o] < v
  BY <1>1 DEF Issue, TypeOK, Requests
<1>3. target' = [target EXCEPT ![<<o, v>>] = IF kind = "CREATE_ORDER" THEN v ELSE EncodedTarget(o, v)]
  BY <1>1 DEF Issue
<1>4. executed' = executed
  BY <1>1 DEF Issue, exchange
<1>5. <<o, v>> \notin executed
  <2>1. stage[<<o, v>>] = "unissued"
    BY <1>2 DEF EachRequestInv, RequestInv
  <2> QED
    BY <1>2, <2>1 DEF EachRequestInv, RequestInv
<1>6. target'[<<o, v>>] \in {ExternalId, 1} \/ v > 2
  <2>1. target'[<<o, v>>] = IF kind = "CREATE_ORDER" THEN v ELSE EncodedTarget(o, v)
    BY <1>2, <1>3 DEF TypeOK
  <2>2. CASE kind = "CREATE_ORDER"
    BY <1>1, <2>1, <2>2
  <2>3. CASE kind # "CREATE_ORDER"
    BY <1>1, <1>2, <2>1, <2>3 DEF EncodedTarget
  <2> QED
    BY <2>2, <2>3
<1>7. ASSUME NEW r \in Requests, target'[r] \notin {ExternalId, 1}
      PROVE  r[2] > 2 /\ r \notin executed
  <2>1. CASE r = <<o, v>>
    <3>1. r[2] = v
      BY <2>1
    <3> QED
      BY <1>5, <1>6, <1>7, <2>1, <3>1
  <2>2. CASE r # <<o, v>>
    <3>1. target'[r] = target[r]
      BY <1>3, <2>2 DEF TypeOK
    <3> QED
      BY <1>7, <3>1 DEF StrayInv, OwnId
  <2> QED
    BY <2>1, <2>2
<1> QED
  BY <1>4, <1>7 DEF StrayInv, OwnId

LEMMA NextStrays == IInv /\ StrayInv /\ [Next]_vars => StrayInv'
<1> SUFFICES ASSUME IInv, StrayInv, [Next]_vars PROVE StrayInv'
  OBVIOUS
<1>1. ASSUME UNCHANGED <<target, executed>> PROVE StrayInv'
  BY <1>1 DEF StrayInv, OwnId
<1>2. ASSUME NEW o \in Orders, CreateOrder(o) \/ ModifyOrder(o) \/ CancelOrder(o) PROVE StrayInv'
  BY <1>2, IssueStrays DEF IInv
<1>3. ASSUME NEW c \in CancelAlls, NEW filter, CancelAllOrders(c, filter) PROVE StrayInv'
  BY <1>1, <1>3 DEF CancelAllOrders, oms, exchange
<1>4. ASSUME NEW r \in Requests, ExchangeExecutes(r) PROVE StrayInv'
  <2>1. executed' = executed \cup {r} /\ target' = target
    BY <1>4 DEF ExchangeExecutes, oms
  <2>2. OwnId(r)
    <3>1. CASE type[r] = "CREATE_ORDER"
      <4>1. r[2] = 1
        BY <3>1 DEF IInv, EachRequestInv, RequestInv
      <4> QED
        BY <4>1 DEF StrayInv
    <3>2. CASE type[r] # "CREATE_ORDER"
      BY <1>4, <3>2 DEF ExchangeExecutes, MayExecute, Resolves, OwnId
    <3> QED
      BY <3>1, <3>2
  <2> QED
    BY <2>1, <2>2 DEF StrayInv, OwnId
<1>5. ASSUME NEW r \in Requests, ExchangeRejects(r) PROVE StrayInv'
  BY <1>1, <1>5 DEF ExchangeRejects, oms, exchange
<1>6. ASSUME NEW k \in CancelAllRequests, NEW ok \in BOOLEAN, ExchangeHandlesCancelAll(k, ok)
      PROVE  StrayInv'
  BY <1>1, <1>6 DEF ExchangeHandlesCancelAll, oms
<1>7. ASSUME NEW o \in Orders, DropCopyOrder(o) PROVE StrayInv'
  BY <1>1, <1>7 DEF DropCopyOrder, oms, exchange
<1>8. CASE RestNext
  <2>1. UNCHANGED <<target, executed>>
    BY <1>8 DEF RestNext, RestBecomesReady, RestDisconnected, OrderAck, CancelAllOrdersAck, oms,
                exchange
  <2> QED
    BY <1>1, <2>1
<1>9. CASE WsNext
  <2>1. UNCHANGED <<target, executed>>
    BY <1>9 DEF WsNext, WsReady, WsDisconnected, WsError, WsAuth2, OrderAck2, oms, exchange
  <2> QED
    BY <1>1, <2>1
<1>10. CASE UNCHANGED vars
  BY <1>1, <1>10 DEF vars, oms, exchange
<1>11. CASE ClientNext
  BY <1>2, <1>3, <1>11 DEF ClientNext
<1>12. CASE ExchangeNext
  BY <1>4, <1>5, <1>6, <1>7, <1>12 DEF ExchangeNext
<1> QED
  BY <1>8, <1>9, <1>10, <1>11, <1>12 DEF Next

LEMMA StrayInvariance == Spec => []StrayInv
<1>1. Init => StrayInv
  BY DEF Init, StrayInv, OwnId
<1> QED
  BY <1>1, NextStrays, Invariance, PTL DEF Spec

\* A request that names its order by an id the exchange does not have for it is the third
\* or a later one of its order, is never executed, and is never reported as accepted.
THEOREM StraysAreNeverExecuted ==
    Spec => [](\A r \in Requests :
                  ~OwnId(r) => r[2] > 2 /\ r \notin executed /\ status[r] # "ACCEPTED")
<1>1. IInv /\ StrayInv => \A r \in Requests :
                             ~OwnId(r) => r[2] > 2 /\ r \notin executed /\ status[r] # "ACCEPTED"
  BY DEF IInv, EachRequestInv, RequestInv, StrayInv
<1> QED
  BY <1>1, StrayInvariance, Invariance, PTL

\* With two requests to an order, the creation and one more, each names its own.
THEOREM TwoRequestsTargetTheirOrder ==
    ASSUME MaxVersion <= 2
    PROVE  Spec => []TargetsOwnOrder
<1>1. StrayInv => TargetsOwnOrder
  <2> SUFFICES ASSUME StrayInv, NEW r \in Requests PROVE target[r] \in {ExternalId, 1}
    BY DEF TargetsOwnOrder
  <2>1. r[2] \in 1 .. MaxVersion
    BY RequestsAreVersions DEF Versions, Requests
  <2>2. ~(r[2] > 2)
    BY <2>1, VersionAssumption
  <2> QED
    BY <2>2 DEF StrayInv, OwnId
<1> QED
  BY <1>1, StrayInvariance, PTL
=============================================================================
