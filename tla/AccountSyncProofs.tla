-------------------------- MODULE AccountSyncProofs --------------------------
(***************************************************************************)
(* Proofs about AccountSync, for every set of symbols, every setting and   *)
(* any number of sessions.                                                 *)
(***************************************************************************)
EXTENDS AccountSync, TLAPS

(***************************************************************************)
(* Requests and topics.                                                    *)
(***************************************************************************)

\* A request is the wallet's or that of one symbol topic and one symbol.
LEMMA RequestShape ==
    ASSUME NEW r \in Requests
    PROVE  \/ r = WalletRequest /\ r[1] = "wallet"
           \/ r[1] \in SymbolTopics /\ r[2] \in Symbols /\ r = <<r[1], r[2]>>
  BY DEF Requests, WalletRequest, SymbolTopics

\* The requests a topic asks for are exactly the requests of that topic for the
\* symbols known.
LEMMA TopicRequestsAre ==
    ASSUME NEW t \in Topics, NEW S \in SUBSET Symbols, NEW r \in Requests
    PROVE  r \in TopicRequests(t, S) <=> r[1] = t /\ (t = "wallet" \/ r[2] \in S)
  BY DEF Requests, Topics, SymbolTopics, TopicRequests, WalletRequest

\* Acknowledged topics A and known symbols S promise exactly the requests of a
\* topic in A and, unless it is the wallet's, a symbol in S.
LEMMA PromisedIff ==
    ASSUME NEW A \in SUBSET Topics, NEW S \in SUBSET Symbols
    PROVE  /\ PromisedFor(A, S) \subseteq Requests
           /\ \A r \in Requests : r \in PromisedFor(A, S) <=>
                                    r[1] \in A /\ (r[1] = "wallet" \/ r[2] \in S)
  <1>1. PromisedFor(A, S) \subseteq Requests
    BY DEF PromisedFor, TopicRequests, Requests, Topics, SymbolTopics, WalletRequest
  <1>2. ASSUME NEW r \in Requests
        PROVE  r \in PromisedFor(A, S) <=> r[1] \in A /\ (r[1] = "wallet" \/ r[2] \in S)
    <2>1. \A t \in A : r \in TopicRequests(t, S) <=> r[1] = t /\ (t = "wallet" \/ r[2] \in S)
      BY TopicRequestsAre
    <2> QED
      BY <2>1 DEF PromisedFor
  <1> QED
    BY <1>1, <1>2

\* What the answer to a snapshot request changes, and what it does not.
LEMMA SnapshotAckFrame ==
    ASSUME NEW outcome \in Outcomes, SnapshotAck(outcome)
    PROVE  /\ UNCHANGED <<queued, dcVars, restLink, restStatus, restState, outstanding, retry,
                          wsVars, sessions, history>>
           /\ process' \in {"running", "ended"}
           /\ TypeOK => inflight' \in [Requests -> Nat]
           /\ tradesLookback' \in {tradesLookback, "default"}
  <1>1. PICK r \in Requests : Answered(r, outcome)
    BY DEF SnapshotAck, GetWalletBalanceAck, GetPositionsAck, GetOrdersAck, GetExecutionsAck,
           Requests, SymbolTopics
  <1>2. tradesLookback' \in {tradesLookback, "default"}
    BY DEF SnapshotAck, GetWalletBalanceAck, GetPositionsAck, GetOrdersAck, GetExecutionsAck
  <1>3. TypeOK => inflight' \in [Requests -> Nat]
    BY <1>1 DEF Answered, TypeOK
  <1> QED
    BY <1>1, <1>2, <1>3 DEF Answered

-----------------------------------------------------------------------------
(***************************************************************************)
(* Type correctness.                                                       *)
(***************************************************************************)

\* The initial state is well typed.
LEMMA InitType == Init => TypeOK
  BY DEF Init, TypeOK, NothingQueued, WsLinks, Statuses, Connections

\* Every step keeps the state well typed.
LEMMA NextType == TypeOK /\ [Next]_vars => TypeOK'
  <1> SUFFICES ASSUME TypeOK, [Next]_vars PROVE TypeOK'
    OBVIOUS
  <1> USE DEF TypeOK, WsLinks, Statuses
  <1>0. NothingQueued \in [Requests -> Nat]
    BY DEF NothingQueued
  <1>1. CASE DropCopyNext
    <2>1. CASE DcConnected
      BY <2>1 DEF DcConnected, NewSession, Connections, restVars, wsVars, history, session
    <2>2. CASE DcReady
      BY <2>2 DEF DcReady, restVars, wsVars, history, session, Topics, SymbolTopics
    <2>3. CASE DcDisconnected
      BY <1>0, <2>3 DEF DcDisconnected, restVars, wsVars
    <2>4. CASE DcError
      BY <2>4 DEF DcError, dcVars, restVars, wsVars, history, session
    <2>5. ASSUME NEW success \in BOOLEAN, DcAuth(success) PROVE TypeOK'
      BY <2>5, FlagsAssumption
      DEF DcAuth, restVars, wsVars, history, session, Topics, SubscribedTopics
    <2>6. ASSUME NEW t \in Topics, DcSubscribe(t) PROVE TypeOK'
      BY <2>6 DEF DcSubscribe, Enqueue, restVars, wsVars
    <2>7. ASSUME NEW S \in SUBSET Symbols, SymbolsUpdate(S) PROVE TypeOK'
      <3>1. {r \in IF dcLink = "ready" THEN NewSymbolTopics \X (S \cap TradeSymbols) ELSE {} :
                r[1] \notin acked} \subseteq Requests
        BY DEF NewSymbolTopics, Requests, SubscribedTopics
      <3> QED
        BY <2>7, <3>1 DEF SymbolsUpdate, Enqueue, restVars, wsVars
    <2> QED
      BY <1>1, <2>1, <2>2, <2>3, <2>4, <2>5, <2>6, <2>7 DEF DropCopyNext
  <1>2. CASE RestNext
    <2>1. CASE RestConnected
      BY <2>1 DEF RestConnected, NewSession, Connections, RequestAccountInfo, dcVars, wsVars, history, session
    <2>2. CASE RestDisconnected
      BY <1>0, <2>2 DEF RestDisconnected, Downloading, dcVars, wsVars, history, session
    <2>3. CASE RestRetry
      BY <2>3 DEF RestRetry, RequestAccountInfo, dcVars, wsVars, history, session
    <2>4. ASSUME NEW outcome \in Outcomes, GetAccountInfoAck(outcome) PROVE TypeOK'
      BY <2>4 DEF GetAccountInfoAck, dcVars, wsVars, history, session
    <2>5. ASSUME NEW D \in SUBSET Requests, RestTimer(D) PROVE TypeOK'
      BY <2>5 DEF RestTimer, Send, AskTrades, dcVars, wsVars
    <2>6. ASSUME NEW outcome \in Outcomes, SnapshotAck(outcome)
          PROVE TypeOK'
      <3>1. /\ process' \in {"running", "ended"} /\ inflight' \in [Requests -> Nat]
            /\ tradesLookback' \in {"restart", "default"}
        BY <2>6, SnapshotAckFrame
      <3>2. UNCHANGED <<queued, dcVars, restLink, restStatus, restState, outstanding, retry,
                        wsVars, sessions, history>>
        BY <2>6, SnapshotAckFrame
      <3> QED
        BY <3>1, <3>2 DEF dcVars, wsVars, history, session
    <2> QED
      BY <1>2, <2>1, <2>2, <2>3, <2>4, <2>5, <2>6 DEF RestNext
  <1>3. CASE WsNext
    <2>1. CASE WsConnected
      BY <2>1 DEF WsConnected, NewSession, Connections, dcVars, restVars, history, session
    <2>2. CASE WsReady
      BY <2>2 DEF WsReady, dcVars, restVars, history, session
    <2>3. CASE WsDisconnected
      BY <1>0, <2>3 DEF WsDisconnected, dcVars, restVars
    <2>4. ASSUME NEW ok \in BOOLEAN, WsAuth2(ok) PROVE TypeOK'
      BY <2>4 DEF WsAuth2, dcVars, restVars, history, session
    <2> QED
      BY <1>3, <2>1, <2>2, <2>3, <2>4 DEF WsNext
  <1>4. CASE UNCHANGED vars
    BY <1>4 DEF vars, dcVars, restVars, wsVars, history, session
  <1> QED
    BY <1>1, <1>2, <1>3, <1>4 DEF Next

\* The state is always well typed.
THEOREM TypeCorrect == Spec => []TypeOK
  BY InitType, NextType, PTL DEF Spec

-----------------------------------------------------------------------------
(***************************************************************************)
(* What the steps of each component leave alone.                           *)
(***************************************************************************)

LEMMA DropCopyFrame == DropCopyNext => UNCHANGED <<restVars, wsVars>>
  BY DEF DropCopyNext, DcConnected, DcReady, DcDisconnected, DcError, DcAuth,
         DcSubscribe, SymbolsUpdate

LEMMA RestFrame == RestNext => UNCHANGED <<dcVars, wsVars, acked, early, cleared>>
  BY SnapshotAckFrame
  DEF RestNext, RestConnected, RestDisconnected, RestRetry, GetAccountInfoAck,
         RestTimer, Send, AskTrades, history, session

LEMMA WsFrame == WsNext => UNCHANGED <<dcVars, restVars, acked, fresh, early>>
  BY DEF WsNext, WsConnected, WsReady, WsDisconnected, WsAuth2, history, session

-----------------------------------------------------------------------------
(***************************************************************************)
(* The DropCopy session.                                                   *)
(***************************************************************************)

\* No step breaks the log-on and subscription protocol of a session.
LEMMA NextSession == SessionInv /\ [Next]_vars => SessionInv'
  <1> SUFFICES ASSUME SessionInv, [Next]_vars PROVE SessionInv'
    OBVIOUS
  <1> USE DEF SessionInv
  <1>1. CASE DropCopyNext
    <2>1. CASE DcConnected
      BY <2>1 DEF DcConnected, history, session
    <2>2. CASE DcReady
      BY <2>2 DEF DcReady, history, session
    <2>3. CASE DcDisconnected
      BY <2>3 DEF DcDisconnected
    <2>4. CASE DcError
      BY <2>4 DEF DcError, dcVars, history, session
    <2>5. ASSUME NEW success \in BOOLEAN, DcAuth(success) PROVE SessionInv'
      <3>1. acked = {} /\ acked' = {} /\ "auth" \in dcReplies /\ dcLink = "ready"
        BY <2>5 DEF DcAuth, history, session
      <3> QED
        BY <2>5, <3>1 DEF DcAuth, SubscribedTopics, Topics, SymbolTopics
    <2>6. ASSUME NEW t \in Topics, DcSubscribe(t) PROVE SessionInv'
      BY <2>6 DEF DcSubscribe, Topics, SymbolTopics
    <2>7. ASSUME NEW S \in SUBSET Symbols, SymbolsUpdate(S) PROVE SessionInv'
      BY <2>7 DEF SymbolsUpdate
    <2> QED
      BY <1>1, <2>1, <2>2, <2>3, <2>4, <2>5, <2>6, <2>7 DEF DropCopyNext
  <1>2. CASE RestNext
    BY <1>2, RestFrame DEF dcVars
  <1>3. CASE WsNext
    BY <1>3, WsFrame DEF dcVars
  <1>4. CASE UNCHANGED vars
    BY <1>4 DEF vars, dcVars, history, session
  <1> QED
    BY <1>1, <1>2, <1>3, <1>4 DEF Next

\* The timeout of a login is cleared whenever its connection goes down.
LEMMA NextLogonTimeout == LogonTimeoutClear /\ [Next]_vars => LogonTimeoutClear'
  <1> SUFFICES ASSUME LogonTimeoutClear, [Next]_vars PROVE LogonTimeoutClear'
    OBVIOUS
  <1> USE DEF LogonTimeoutClear
  <1>1. CASE DropCopyNext
    BY <1>1 DEF DropCopyNext, DcConnected, DcReady, DcDisconnected, DcError, DcAuth,
                DcSubscribe, SymbolsUpdate, dcVars, wsVars
  <1>2. CASE RestNext
    BY <1>2, RestFrame DEF dcVars, wsVars
  <1>3. CASE WsNext
    BY <1>3 DEF WsNext, WsConnected, WsReady, WsDisconnected, WsAuth2, dcVars
  <1>4. CASE UNCHANGED vars
    BY <1>4 DEF vars, dcVars, wsVars
  <1> QED
    BY <1>1, <1>2, <1>3, <1>4 DEF Next

\* A private stream is READY only while it is up and logged on.
LEMMA NextStreamReady == StreamReadyOnlyLoggedOn /\ [Next]_vars => StreamReadyOnlyLoggedOn'
  <1> SUFFICES ASSUME StreamReadyOnlyLoggedOn, [Next]_vars PROVE StreamReadyOnlyLoggedOn'
    OBVIOUS
  <1> USE DEF StreamReadyOnlyLoggedOn
  <1>1. CASE DropCopyNext
    <2>1. ASSUME NEW success \in BOOLEAN, DcAuth(success) PROVE StreamReadyOnlyLoggedOn'
      BY <2>1 DEF DcAuth, SubscribedTopics, Topics, SymbolTopics, wsVars
    <2>2. ASSUME NEW S \in SUBSET Symbols, SymbolsUpdate(S) PROVE StreamReadyOnlyLoggedOn'
      BY <2>2 DEF SymbolsUpdate, wsVars
    <2> QED
      BY <1>1, <2>1, <2>2
      DEF DropCopyNext, DcConnected, DcReady, DcDisconnected, DcError, DcSubscribe, dcVars, wsVars
  <1>2. CASE RestNext
    BY <1>2, RestFrame DEF dcVars, wsVars
  <1>3. CASE WsNext
    BY <1>3 DEF WsNext, WsConnected, WsReady, WsDisconnected, WsAuth2, dcVars
  <1>4. CASE UNCHANGED vars
    BY <1>4 DEF vars, dcVars, wsVars
  <1> QED
    BY <1>1, <1>2, <1>3, <1>4 DEF Next

\* READY on the REST connection goes with a finished download on a live connection.
LEMMA NextRestReady == RestReadyIffDownloaded /\ [Next]_vars => RestReadyIffDownloaded'
  <1> SUFFICES ASSUME RestReadyIffDownloaded, [Next]_vars PROVE RestReadyIffDownloaded'
    OBVIOUS
  <1> USE DEF RestReadyIffDownloaded
  <1>1. CASE DropCopyNext
    BY <1>1, DropCopyFrame DEF restVars
  <1>2. CASE RestNext
    <2>1. ASSUME NEW outcome \in Outcomes, GetAccountInfoAck(outcome)
          PROVE  RestReadyIffDownloaded'
      BY <2>1 DEF GetAccountInfoAck
    <2>2. ASSUME NEW D \in SUBSET Requests, RestTimer(D) PROVE RestReadyIffDownloaded'
      BY <2>2 DEF RestTimer, Send, AskTrades
    <2>3. ASSUME NEW outcome \in Outcomes, SnapshotAck(outcome)
          PROVE  RestReadyIffDownloaded'
      BY <2>3, SnapshotAckFrame
    <2> QED
      BY <1>2, <2>1, <2>2, <2>3
      DEF RestNext, RestConnected, RestDisconnected, RestRetry, RequestAccountInfo
  <1>3. CASE WsNext
    BY <1>3, WsFrame DEF restVars
  <1>4. CASE UNCHANGED vars
    BY <1>4 DEF vars, restVars
  <1> QED
    BY <1>1, <1>2, <1>3, <1>4 DEF Next


-----------------------------------------------------------------------------
(***************************************************************************)
(* The request queue.                                                      *)
(***************************************************************************)

\* No step puts a second request for the same snapshot on the queue, but for a
\* symbol listed before its topic was acknowledged.
LEMMA NextQueue == TypeOK /\ SessionInv /\ QueueInv /\ [Next]_vars => QueueInv'
  <1> SUFFICES ASSUME TypeOK, SessionInv, QueueInv, [Next]_vars,
                      NEW r \in Requests
               PROVE  /\ queued'[r] > 0 => r[1] = "wallet" \/ r[2] \in symbols_'
                      /\ queued'[r] > 0 => r[1] \in SubscribedTopics
                      /\ r[1] \notin acked' => queued'[r] <= (IF r \in early' THEN 1 ELSE 0)
                      /\ queued'[r] <= (IF r \in early' THEN 2 ELSE 1)
    BY DEF QueueInv
  <1> DEFINE Goal == /\ queued'[r] > 0 => r[1] = "wallet" \/ r[2] \in symbols_'
                     /\ queued'[r] > 0 => r[1] \in SubscribedTopics
                     /\ r[1] \notin acked' => queued'[r] <= (IF r \in early' THEN 1 ELSE 0)
                     /\ queued'[r] <= (IF r \in early' THEN 2 ELSE 1)
  <1> SUFFICES Goal
    OBVIOUS
  <1> HIDE DEF Goal
  <1>0. /\ queued[r] \in Nat
        /\ queued[r] > 0 => r[1] = "wallet" \/ r[2] \in symbols_
        /\ queued[r] > 0 => r[1] \in SubscribedTopics
        /\ r[1] \notin acked => queued[r] <= (IF r \in early THEN 1 ELSE 0)
        /\ queued[r] <= (IF r \in early THEN 2 ELSE 1)
    BY DEF TypeOK, QueueInv
  <1>1. CASE queued' = NothingQueued
    BY <1>1 DEF NothingQueued, Goal
  <1>2. CASE UNCHANGED <<queued, symbols_, acked, early>>
    BY <1>0, <1>2 DEF Goal
  <1>3. ASSUME NEW t \in Topics, DcSubscribe(t) PROVE Goal
    <2>0. t \in SubscribedTopics
      BY <1>3 DEF DcSubscribe, SessionInv, Topics, SymbolTopics
    <2>1. t \notin acked /\ acked' = acked \cup {t} /\ UNCHANGED <<symbols_, early>>
      BY <1>3 DEF DcSubscribe, SessionInv
    <2>2. symbols_ \in SUBSET Symbols
      BY SymbolsAssumption DEF TypeOK
    <2>3. r \in TopicRequests(t, symbols_) <=> r[1] = t /\ (t = "wallet" \/ r[2] \in symbols_)
      BY <2>2, TopicRequestsAre
    <2>4. queued'[r] = IF r \in TopicRequests(t, symbols_) THEN queued[r] + 1 ELSE queued[r]
      BY <1>3 DEF DcSubscribe, Enqueue
    <2> QED
      BY <1>0, <2>0, <2>1, <2>3, <2>4 DEF Goal
  <1>4. ASSUME NEW S \in SUBSET Symbols, SymbolsUpdate(S) PROVE Goal
    <2> DEFINE new == S \cap TradeSymbols
               requests == IF dcLink = "ready" THEN NewSymbolTopics \X new ELSE {}
    <2>1. /\ new \cap symbols_ = {} /\ symbols_' = symbols_ \cup new
          /\ early' = early \cup {q \in requests : q[1] \notin acked}
          /\ acked' = acked
          /\ queued'[r] = IF r \in requests THEN queued[r] + 1 ELSE queued[r]
      BY <1>4 DEF SymbolsUpdate, Enqueue
    <2>2. r \in requests => r[1] # "wallet" /\ r[1] \in SubscribedTopics /\ r[2] \in new
      BY DEF NewSymbolTopics, SymbolTopics
    <2> QED
      BY <1>0, <2>1, <2>2 DEF Goal
  <1>5. ASSUME NEW D \in SUBSET Requests, RestTimer(D) PROVE Goal
    <2>1. queued'[r] \in Nat /\ queued'[r] <= queued[r] /\ (queued'[r] > 0 => queued[r] > 0)
      BY <1>0, <1>5 DEF RestTimer, Send, AskTrades
    <2>2. UNCHANGED <<symbols_, acked, early>>
      BY <1>5 DEF RestTimer, Send, AskTrades, dcVars
    <2> QED
      BY <1>0, <2>1, <2>2 DEF Goal
  <1>6. CASE DropCopyNext
    <2>1. ASSUME NEW success \in BOOLEAN, DcAuth(success)
          PROVE  UNCHANGED <<queued, symbols_, acked, early>>
      BY <2>1 DEF DcAuth, history, session
    <2> QED
      BY <1>1, <1>2, <1>3, <1>4, <1>6, <2>1
      DEF DropCopyNext, DcConnected, DcReady, DcDisconnected, DcError, dcVars, history, session
  <1>7. CASE RestNext
    <2>1. ASSUME NEW outcome \in Outcomes, GetAccountInfoAck(outcome) PROVE UNCHANGED queued
      BY <2>1 DEF GetAccountInfoAck
    <2>2. ASSUME NEW outcome \in Outcomes, SnapshotAck(outcome)
          PROVE  UNCHANGED queued
      BY <2>2, SnapshotAckFrame
    <2>3. (\E D \in SUBSET Requests : RestTimer(D)) \/ UNCHANGED queued
      BY <1>7, <2>1, <2>2 DEF RestNext, RestConnected, RestDisconnected, RestRetry
    <2>4. UNCHANGED <<symbols_, acked, early>>
      BY <1>7, RestFrame DEF dcVars
    <2> QED
      BY <1>2, <1>5, <2>3, <2>4
  <1>8. CASE WsNext
    <2>1. UNCHANGED queued \/ queued' = NothingQueued
      BY <1>8 DEF WsNext, WsConnected, WsReady, WsDisconnected, WsAuth2
    <2>2. UNCHANGED <<symbols_, acked, early>>
      BY <1>8, WsFrame DEF dcVars
    <2> QED
      BY <1>1, <1>2, <2>1, <2>2
  <1>9. CASE UNCHANGED vars
    BY <1>2, <1>9 DEF vars, dcVars, history, session
  <1> QED
    BY <1>6, <1>7, <1>8, <1>9 DEF Next

\* No step leaves a request behind when the DropCopy connection is gone.
LEMMA NextQueueInSession ==
    TypeOK /\ QueueOnlyInSession /\ [Next]_vars => QueueOnlyInSession'
  <1> SUFFICES ASSUME TypeOK, QueueOnlyInSession, [Next]_vars,
                      NEW r \in Requests, queued'[r] > 0
               PROVE  dcLink' \in {"ready", "closing"}
    BY DEF QueueOnlyInSession
  <1>0. queued[r] > 0 => dcLink \in {"ready", "closing"}
    BY DEF QueueOnlyInSession
  <1>1. CASE queued' = NothingQueued
    BY <1>1 DEF NothingQueued
  <1>2. CASE DropCopyNext
    <2>1. ASSUME NEW success \in BOOLEAN, DcAuth(success) PROVE dcLink' \in {"ready", "closing"}
      BY <2>1 DEF DcAuth
    <2>2. ASSUME NEW t \in Topics, DcSubscribe(t) PROVE dcLink' \in {"ready", "closing"}
      BY <2>2 DEF DcSubscribe
    <2>3. ASSUME NEW S \in SUBSET Symbols, SymbolsUpdate(S)
          PROVE  dcLink' \in {"ready", "closing"}
      <3>1. CASE dcLink = "ready"
        BY <2>3, <3>1 DEF SymbolsUpdate
      <3>2. CASE dcLink # "ready"
        BY <1>0, <2>3, <3>2 DEF SymbolsUpdate, Enqueue
      <3> QED
        BY <3>1, <3>2
    <2> QED
      BY <1>0, <1>1, <1>2, <2>1, <2>2, <2>3
      DEF DropCopyNext, DcConnected, DcReady, DcDisconnected, DcError, dcVars
  <1>3. CASE RestNext
    <2>1. ASSUME NEW D \in SUBSET Requests, RestTimer(D) PROVE queued[r] > 0
      BY <2>1 DEF RestTimer, Send, AskTrades, TypeOK
    <2>2. ASSUME NEW outcome \in Outcomes, GetAccountInfoAck(outcome) PROVE queued[r] > 0
      BY <2>2 DEF GetAccountInfoAck
    <2>3. ASSUME NEW outcome \in Outcomes, SnapshotAck(outcome)
          PROVE  queued[r] > 0
      BY <2>3, SnapshotAckFrame
    <2>4. queued[r] > 0
      BY <1>3, <2>1, <2>2, <2>3 DEF RestNext, RestConnected, RestDisconnected, RestRetry
    <2> QED
      BY <1>0, <1>3, <2>4, RestFrame DEF dcVars
  <1>4. CASE WsNext
    BY <1>0, <1>1, <1>4, WsFrame
    DEF WsNext, WsConnected, WsReady, WsDisconnected, WsAuth2, dcVars
  <1>5. CASE UNCHANGED vars
    BY <1>0, <1>5 DEF vars, dcVars
  <1> QED
    BY <1>2, <1>3, <1>4, <1>5 DEF Next


-----------------------------------------------------------------------------
(***************************************************************************)
(* Coverage and the inductive invariant.                                   *)
(***************************************************************************)

\* No step makes a promised snapshot disappear: it is queued, sent, or thrown
\* away by OrderEntryWS.
LEMMA NextCoverage ==
    TypeOK /\ TypeOK' /\ SessionInv /\ Coverage /\ [Next]_vars => Coverage'
  <1> SUFFICES ASSUME TypeOK, TypeOK', SessionInv, Coverage, [Next]_vars PROVE Coverage'
    OBVIOUS
  <1>a. /\ acked \in SUBSET Topics /\ symbols_ \in SUBSET Symbols
        /\ acked' \in SUBSET Topics /\ symbols_' \in SUBSET Symbols
    BY SymbolsAssumption DEF TypeOK
  <1>b. Promised' \subseteq Requests
    BY <1>a, PromisedIff DEF Promised
  <1> SUFFICES ASSUME NEW r \in Requests, r \in Promised'
               PROVE  queued'[r] > 0 \/ r \in fresh' \/ r \in cleared'
    BY <1>b DEF Coverage
  <1> DEFINE Goal == queued'[r] > 0 \/ r \in fresh' \/ r \in cleared'
  <1>0. r \in Promised <=> r[1] \in acked /\ (r[1] = "wallet" \/ r[2] \in symbols_)
    BY <1>a, PromisedIff DEF Promised
  <1>1. r[1] \in acked' /\ (r[1] = "wallet" \/ r[2] \in symbols_')
    BY <1>a, PromisedIff DEF Promised
  <1>2. queued[r] \in Nat /\ (r \in Promised => queued[r] > 0 \/ r \in fresh \/ r \in cleared)
    BY DEF TypeOK, Coverage
  <1>3. CASE UNCHANGED <<queued, symbols_, acked, fresh, cleared>>
    BY <1>0, <1>1, <1>2, <1>3
  <1>4. ASSUME NEW t \in Topics, DcSubscribe(t) PROVE Goal
    <2>1. /\ acked' = acked \cup {t} /\ UNCHANGED <<symbols_, fresh, cleared>>
          /\ queued'[r] = IF r \in TopicRequests(t, symbols_) THEN queued[r] + 1 ELSE queued[r]
      BY <1>4 DEF DcSubscribe, Enqueue
    <2>2. r \in TopicRequests(t, symbols_) <=> r[1] = t /\ (t = "wallet" \/ r[2] \in symbols_)
      BY TopicRequestsAre, SymbolsAssumption DEF TypeOK
    <2> QED
      BY <1>0, <1>1, <1>2, <2>1, <2>2
  <1>5. ASSUME NEW S \in SUBSET Symbols, SymbolsUpdate(S) PROVE Goal
    <2> DEFINE new == S \cap TradeSymbols
               requests == IF dcLink = "ready" THEN NewSymbolTopics \X new ELSE {}
    <2>1. /\ symbols_' = symbols_ \cup new /\ UNCHANGED <<acked, fresh, cleared>>
          /\ queued'[r] = IF r \in requests THEN queued[r] + 1 ELSE queued[r]
      BY <1>5 DEF SymbolsUpdate, Enqueue
    <2>2. dcLink = "ready" /\ r[1] \in SubscribedTopics
      BY <1>1, <2>1 DEF SessionInv, TypeOK, Topics, SymbolTopics
    <2>3. r[1] # "wallet" /\ r[2] \in new => r \in requests
      BY <2>2, RequestShape DEF NewSymbolTopics, Requests
    <2> QED
      BY <1>0, <1>1, <1>2, <2>1, <2>3
  <1>6. ASSUME NEW D \in SUBSET Requests, RestTimer(D) PROVE Goal
    <2>1. /\ UNCHANGED <<symbols_, acked, cleared>>
          /\ fresh' = fresh \cup {q \in D : q[1] \in acked}
          /\ queued'[r] = IF r \in D THEN queued[r] - 1 ELSE queued[r]
      BY <1>6 DEF RestTimer, Send, AskTrades, dcVars
    <2> QED
      BY <1>0, <1>1, <1>2, <2>1
  <1>7. CASE DropCopyNext
    <2>1. ASSUME NEW success \in BOOLEAN, DcAuth(success)
          PROVE  UNCHANGED <<queued, symbols_, acked, fresh, cleared>>
      BY <2>1 DEF DcAuth, history, session
    <2>2. ~DcDisconnected
      BY <1>1 DEF DcDisconnected
    <2> QED
      BY <1>3, <1>4, <1>5, <1>7, <2>1, <2>2
      DEF DropCopyNext, DcConnected, DcReady, DcError, dcVars, history, session
  <1>8. CASE RestNext
    <2>1. ASSUME NEW outcome \in Outcomes, GetAccountInfoAck(outcome)
          PROVE  UNCHANGED <<queued, fresh>>
      BY <2>1 DEF GetAccountInfoAck, history, session
    <2>2. ASSUME NEW outcome \in Outcomes, SnapshotAck(outcome)
          PROVE  UNCHANGED <<queued, fresh>>
      BY <2>2, SnapshotAckFrame DEF history, session
    <2>3. (\E D \in SUBSET Requests : RestTimer(D)) \/ UNCHANGED <<queued, fresh>>
      BY <1>8, <2>1, <2>2
      DEF RestNext, RestConnected, RestDisconnected, RestRetry, history, session
    <2>4. UNCHANGED <<symbols_, acked, cleared>>
      BY <1>8, RestFrame DEF dcVars
    <2> QED
      BY <1>3, <1>6, <2>3, <2>4
  <1>9. CASE WsNext
    <2>1. UNCHANGED <<symbols_, acked, fresh>>
      BY <1>9, WsFrame DEF dcVars
    <2>2. ASSUME NEW ok \in BOOLEAN, WsAuth2(ok) PROVE UNCHANGED <<queued, cleared>>
      BY <2>2 DEF WsAuth2, history, session
    <2>3. CASE WsDisconnected
      BY <1>0, <1>1, <1>2, <2>1, <2>3 DEF WsDisconnected
    <2> QED
      BY <1>3, <1>9, <2>1, <2>2, <2>3 DEF WsNext, WsConnected, WsReady, history, session
  <1>10. CASE UNCHANGED vars
    BY <1>3, <1>10 DEF vars, dcVars, history, session
  <1> QED
    BY <1>7, <1>8, <1>9, <1>10 DEF Next

\* Coverage is not inductive by itself: that a listed symbol is asked for at once
\* rests on SessionInv, a topic being acknowledged only on a live connection.
IndInv ==
    /\ TypeOK /\ SessionInv /\ QueueInv /\ QueueOnlyInSession /\ LogonTimeoutClear
    /\ StreamReadyOnlyLoggedOn /\ RestReadyIffDownloaded /\ Coverage

LEMMA InitIndInv == Init => IndInv
  <1> SUFFICES ASSUME Init PROVE IndInv
    OBVIOUS
  <1>1. TypeOK
    BY InitType
  <1>2. SessionInv /\ LogonTimeoutClear /\ StreamReadyOnlyLoggedOn /\ RestReadyIffDownloaded
    BY DEF Init, SessionInv, LogonTimeoutClear, StreamReadyOnlyLoggedOn, RestReadyIffDownloaded
  <1>3. QueueInv /\ QueueOnlyInSession
    BY DEF Init, NothingQueued, QueueInv, QueueOnlyInSession
  <1>4. Coverage
    BY DEF Init, Coverage, Promised, PromisedFor
  <1> QED
    BY <1>1, <1>2, <1>3, <1>4 DEF IndInv

LEMMA NextIndInv == IndInv /\ [Next]_vars => IndInv'
  BY NextType, NextSession, NextQueue, NextQueueInSession, NextLogonTimeout,
     NextStreamReady, NextRestReady, NextCoverage
  DEF IndInv

LEMMA Invariance == Spec => []IndInv
  BY InitIndInv, NextIndInv, PTL DEF Spec

\* Every snapshot an acknowledged topic asks for is queued, was requested after the
\* acknowledgement, or was thrown away by OrderEntryWS.
THEOREM CoverageHolds == Spec => []Coverage
  <1>1. IndInv => Coverage
    BY DEF IndInv
  <1> QED
    BY <1>1, Invariance, PTL

\* No snapshot request outlives the DropCopy connection it was queued for.
THEOREM QueueOnlyInSessionHolds == Spec => []QueueOnlyInSession
  <1>1. IndInv => QueueOnlyInSession
    BY DEF IndInv
  <1> QED
    BY <1>1, Invariance, PTL

\* A snapshot waits once, or twice for a symbol listed before the acknowledgement.
THEOREM NoRedundantDownloadsHolds == Spec => []NoRedundantDownloads
  <1>1. IndInv => NoRedundantDownloads
    BY DEF IndInv, QueueInv, NoRedundantDownloads
  <1> QED
    BY <1>1, Invariance, PTL

\* The assertions of the private streams never fail.
THEOREM AssertionsHoldHolds == Spec => []AssertionsHold
  <1>1. IndInv => NoPositionsOnSpot
    BY DEF IndInv, TypeOK, QueueInv, NoPositionsOnSpot, SubscribedTopics
  <1>2. IndInv => LogonTimeoutClear
    BY DEF IndInv
  <1>3. IndInv => AssertionsHold
    BY <1>1, <1>2 DEF AssertionsHold
  <1> QED
    BY <1>3, Invariance, PTL

\* The private streams and the REST connection report READY truthfully.
THEOREM ReadyIsTruthful == Spec => [](StreamReadyOnlyLoggedOn /\ RestReadyIffDownloaded)
  <1>1. IndInv => StreamReadyOnlyLoggedOn /\ RestReadyIffDownloaded
    BY DEF IndInv
  <1> QED
    BY <1>1, Invariance, PTL


-----------------------------------------------------------------------------
(***************************************************************************)
(* Properties of steps.                                                    *)
(***************************************************************************)

LEMMA StepDropsNothing == TypeOK /\ [Next]_vars => NothingDroppedStep
  <1> SUFFICES ASSUME TypeOK, [Next]_vars, NEW r \in Requests, queued'[r] < queued[r]
               PROVE  \/ inflight'[r] = inflight[r] + 1
                      \/ dcLink # "down" /\ dcLink' = "down"
                      \/ wsLink # "down" /\ wsLink' = "down"
    BY DEF NothingDroppedStep
  <1>0. queued[r] \in Nat /\ queued' # queued
    BY DEF TypeOK
  <1>1. ASSUME NEW t \in Topics, DcSubscribe(t) PROVE FALSE
    BY <1>0, <1>1 DEF DcSubscribe, Enqueue
  <1>2. ASSUME NEW S \in SUBSET Symbols, SymbolsUpdate(S) PROVE FALSE
    <2>1. queued'[r] = queued[r] \/ queued'[r] = queued[r] + 1
      BY <1>2 DEF SymbolsUpdate, Enqueue
    <2> QED
      BY <1>0, <2>1
  <1>3. ASSUME NEW success \in BOOLEAN, DcAuth(success) PROVE FALSE
    BY <1>0, <1>3 DEF DcAuth
  <1>4. ASSUME NEW D \in SUBSET Requests, RestTimer(D) PROVE inflight'[r] = inflight[r] + 1
    BY <1>0, <1>4 DEF RestTimer, Send, AskTrades
  <1>5. ASSUME NEW outcome \in Outcomes, GetAccountInfoAck(outcome) PROVE FALSE
    BY <1>0, <1>5 DEF GetAccountInfoAck
  <1>6. ASSUME NEW outcome \in Outcomes, SnapshotAck(outcome)
        PROVE  FALSE
    BY <1>0, <1>6 DEF SnapshotAck, Answered, GetWalletBalanceAck, GetPositionsAck,
             GetOrdersAck, GetExecutionsAck
  <1>7. ASSUME NEW ok \in BOOLEAN, WsAuth2(ok) PROVE FALSE
    BY <1>0, <1>7 DEF WsAuth2
  <1>8. CASE DropCopyNext
    BY <1>0, <1>1, <1>2, <1>3, <1>8
    DEF DropCopyNext, DcConnected, DcReady, DcDisconnected, DcError
  <1>9. CASE RestNext
    BY <1>0, <1>4, <1>5, <1>6, <1>9 DEF RestNext, RestConnected, RestDisconnected, RestRetry
  <1>10. CASE WsNext
    BY <1>0, <1>7, <1>10 DEF WsNext, WsConnected, WsReady, WsDisconnected
  <1>11. CASE UNCHANGED vars
    BY <1>0, <1>11 DEF vars
  <1> QED
    BY <1>8, <1>9, <1>10, <1>11 DEF Next

\* A request leaves the queue only by being sent or because a websocket was lost.
THEOREM NothingDroppedHolds == Spec => NothingDropped
  <1>1. TypeOK /\ [Next]_vars => [NothingDroppedStep]_vars
    BY StepDropsNothing
  <1> QED
    BY <1>1, TypeCorrect, PTL DEF Spec, NothingDropped

-----------------------------------------------------------------------------
(***************************************************************************)
(* AccountSync implements the safety part of SnapshotService.              *)
(***************************************************************************)

\* The initial state of AccountSync is one of the service.
LEMMA InitRefines == Init => Service!Init
  BY DEF Init, Service!Init, Promised, PromisedFor

\* Only acknowledgements and listings make snapshots due; only a lost connection
\* forgets them; only the timer requests them, and only due ones.
LEMMA NextRefines == IndInv /\ IndInv' /\ [Next]_vars => [Service!Next]_(Service!vars)
  <1> SUFFICES ASSUME IndInv, IndInv', [Next]_vars PROVE [Service!Next]_(Service!vars)
    OBVIOUS
  <1> USE DEF Service!Next, Service!vars
  <1>a. /\ acked \in SUBSET Topics /\ symbols_ \in SUBSET Symbols
        /\ acked' \in SUBSET Topics /\ symbols_' \in SUBSET Symbols
    BY SymbolsAssumption DEF IndInv, TypeOK
  <1>b. /\ Promised \in SUBSET Requests /\ Promised' \in SUBSET Requests
        /\ \A r \in Requests :
             r \in Promised <=> r[1] \in acked /\ (r[1] = "wallet" \/ r[2] \in symbols_)
        /\ \A r \in Requests :
             r \in Promised' <=> r[1] \in acked' /\ (r[1] = "wallet" \/ r[2] \in symbols_')
    BY <1>a, PromisedIff DEF Promised
  <1>1. CASE UNCHANGED <<process, symbols_, acked, fresh>>
    BY <1>1 DEF Promised
  <1>2. ASSUME Running, UNCHANGED <<process, fresh>>,
               acked \subseteq acked', symbols_ \subseteq symbols_'
        PROVE  [Service!Next]_(Service!vars)
    <2>1. Promised \subseteq Promised'
      BY <1>2, <1>b
    <2>2. Promised' = Promised \cup (Promised' \ Promised)
      BY <2>1
    <2>3. CASE Promised' = Promised
      BY <1>2, <2>3
    <2>4. CASE Promised' # Promised
      <3>1. Service!BecomeDue(Promised' \ Promised)
        BY <1>2, <2>2, <2>4 DEF Service!BecomeDue, Running
      <3> QED
        BY <1>b, <3>1
    <2> QED
      BY <2>3, <2>4
  <1>3. ASSUME Running, process' \in {"running", "ended"}, UNCHANGED <<symbols_, acked, fresh>>
        PROVE  [Service!Next]_(Service!vars)
    <2>1. UNCHANGED Promised
      BY <1>3 DEF Promised
    <2> QED
      BY <1>3, <2>1 DEF Service!End, Running
  <1>4. ASSUME Running, NEW D \in SUBSET Requests, RestTimer(D)
        PROVE  [Service!Next]_(Service!vars)
    <2> DEFINE R == {r \in D : r[1] \in acked}
    <2>1. R \subseteq Promised
      <3> SUFFICES ASSUME NEW r \in R PROVE r \in Promised
        OBVIOUS
      <3>1. queued[r] > 0 /\ r \in Requests /\ r[1] \in acked
        BY <1>4 DEF RestTimer, Send, AskTrades
      <3> QED
        BY <1>b, <3>1 DEF IndInv, QueueInv
    <2>2. fresh' = fresh \cup R /\ UNCHANGED <<process, symbols_, acked>>
      BY <1>4 DEF RestTimer, Send, AskTrades, dcVars
    <2>3. UNCHANGED Promised
      BY <2>2 DEF Promised
    <2>4. CASE R = {}
      BY <2>2, <2>3, <2>4
    <2>5. CASE R # {}
      <3>1. Service!Request(R)
        BY <1>4, <2>1, <2>2, <2>3, <2>5 DEF Service!Request, Running
      <3> QED
        BY <3>1
    <2> QED
      BY <2>4, <2>5
  <1>5. CASE Running /\ DropCopyNext
    <2>1. CASE DcDisconnected
      <3>1. Promised' = {} /\ fresh' = {} /\ UNCHANGED process
        BY <2>1 DEF DcDisconnected, Promised, PromisedFor
      <3> QED
        BY <1>5, <3>1 DEF Service!Forget, Running
    <2>2. ASSUME NEW success \in BOOLEAN, DcAuth(success) PROVE [Service!Next]_(Service!vars)
      BY <1>3, <1>5, <2>2 DEF DcAuth, history, session, Running
    <2>3. ASSUME NEW t \in Topics, DcSubscribe(t) PROVE [Service!Next]_(Service!vars)
      BY <1>2, <1>5, <2>3 DEF DcSubscribe
    <2>4. ASSUME NEW S \in SUBSET Symbols, SymbolsUpdate(S) PROVE [Service!Next]_(Service!vars)
      BY <1>2, <1>5, <2>4 DEF SymbolsUpdate
    <2>5. CASE DcConnected \/ DcReady
      BY <1>1, <2>5 DEF DcConnected, DcReady, history, session
    <2>6. CASE DcError
      BY <1>3, <1>5, <2>6 DEF DcError, dcVars, history, session
    <2> QED
      BY <1>5, <2>1, <2>2, <2>3, <2>4, <2>5, <2>6 DEF DropCopyNext
  <1>6. CASE Running /\ RestNext
    <2>1. ASSUME NEW outcome \in Outcomes, GetAccountInfoAck(outcome)
          PROVE  [Service!Next]_(Service!vars)
      BY <1>3, <1>6, <2>1 DEF GetAccountInfoAck, dcVars, history, session
    <2>2. ASSUME NEW outcome \in Outcomes, SnapshotAck(outcome)
          PROVE  [Service!Next]_(Service!vars)
      BY <1>3, <1>6, <2>2, SnapshotAckFrame DEF dcVars, history, session
    <2>3. CASE RestConnected \/ RestDisconnected \/ RestRetry
      BY <1>1, <2>3 DEF RestConnected, RestDisconnected, RestRetry, dcVars, history, session
    <2> QED
      BY <1>4, <1>6, <2>1, <2>2, <2>3 DEF RestNext
  <1>7. CASE Running /\ WsNext
    <2>1. UNCHANGED <<symbols_, acked, fresh>>
      BY <1>7, WsFrame DEF dcVars
    <2>2. process' \in {"running", "ended"}
      BY DEF IndInv, TypeOK
    <2> QED
      BY <1>3, <1>7, <2>1, <2>2
  <1>8. CASE UNCHANGED vars
    BY <1>1, <1>8 DEF vars, dcVars, history, session
  <1> QED
    BY <1>5, <1>6, <1>7, <1>8 DEF Next

\* A snapshot that has become due is never withdrawn before the DropCopy session
\* ends, and is counted as requested only after it has become due.
THEOREM Implements == Spec => ServiceSafety
  <1> QED
    BY InitRefines, NextRefines, Invariance, PTL
    DEF Spec, ServiceSafety, Service!Safety

(***************************************************************************)
(* Any part of the requests, such as those of one symbol, is served as if  *)
(* there were no others.  AccountView takes it so, for one topic.          *)
(***************************************************************************)
CONSTANT Part
PartOfService == INSTANCE SnapshotService
    WITH Requests <- Requests \cap Part, due <- Promised \cap Part, requested <- fresh \cap Part

LEMMA PartStep ==
    [Service!Next]_(Service!vars) => [PartOfService!Next]_(PartOfService!vars)
  <1> SUFFICES ASSUME [Service!Next]_(Service!vars) PROVE [PartOfService!Next]_(PartOfService!vars)
    OBVIOUS
  <1> USE DEF PartOfService!Next, PartOfService!vars
  <1>1. ASSUME NEW R \in SUBSET Requests, Service!BecomeDue(R)
        PROVE  [PartOfService!Next]_(PartOfService!vars)
    <2>1. /\ process = "running" /\ UNCHANGED <<process, fresh>>
          /\ (Promised \cap Part)' = (Promised \cap Part) \cup (R \cap Part)
      BY <1>1 DEF Service!BecomeDue
    <2>2. CASE R \cap Part = {}
      BY <2>1, <2>2
    <2>3. CASE R \cap Part # {}
      <3>1. PartOfService!BecomeDue(R \cap Part) /\ R \cap Part \in SUBSET (Requests \cap Part)
        BY <2>1, <2>3 DEF PartOfService!BecomeDue
      <3> QED
        BY <3>1
    <2> QED
      BY <2>2, <2>3
  <1>2. ASSUME NEW R \in SUBSET Requests, Service!Request(R)
        PROVE  [PartOfService!Next]_(PartOfService!vars)
    <2>1. /\ process = "running" /\ UNCHANGED <<process, Promised>> /\ R \subseteq Promised
          /\ (fresh \cap Part)' = (fresh \cap Part) \cup (R \cap Part)
      BY <1>2 DEF Service!Request
    <2>2. CASE R \cap Part = {}
      BY <2>1, <2>2
    <2>3. CASE R \cap Part # {}
      <3>1. PartOfService!Request(R \cap Part) /\ R \cap Part \in SUBSET (Requests \cap Part)
        BY <2>1, <2>3 DEF PartOfService!Request
      <3> QED
        BY <3>1
    <2> QED
      BY <2>2, <2>3
  <1>3. CASE Service!Forget
    <2>1. PartOfService!Forget
      BY <1>3 DEF Service!Forget, PartOfService!Forget
    <2> QED
      BY <2>1
  <1>4. CASE Service!End
    <2>1. PartOfService!End
      BY <1>4 DEF Service!End, PartOfService!End
    <2> QED
      BY <2>1
  <1>5. CASE UNCHANGED Service!vars
    BY <1>5 DEF Service!vars
  <1> QED
    BY <1>1, <1>2, <1>3, <1>4, <1>5 DEF Service!Next

\* Whatever part of the requests one looks at: its snapshots become due, are requested
\* and are forgotten as SnapshotService says, with no regard to the rest.
THEOREM ImplementsForAnyPart == Spec => PartOfService!Safety
  <1>1. Init => PartOfService!Init
    BY InitRefines DEF Service!Init, PartOfService!Init
  <1> QED
    BY <1>1, NextRefines, PartStep, Invariance, PTL DEF Spec, PartOfService!Safety

-----------------------------------------------------------------------------
(***************************************************************************)
(* Which executions are downloaded with the lookback of a restart: it is   *)
(* in force until some were downloaded, and those were asked for before.   *)
(* The first request of all has it, and with one symbol all that need it.  *)
(***************************************************************************)
LookbackInv ==
    /\ \A s \in Symbols : inflight[<<"execution", s>>] > 0 => s \in tradesAsked
    /\ tradesLookback = "default" => tradesAsked # {}

LEMMA NextLookback == TypeOK /\ LookbackInv /\ [Next]_vars => LookbackInv'
<1> SUFFICES ASSUME TypeOK, LookbackInv, [Next]_vars PROVE LookbackInv'
  OBVIOUS
<1>1. \A s \in Symbols : <<"execution", s>> \in Requests
  BY DEF Requests, SymbolTopics
<1>2. ASSUME UNCHANGED <<inflight, tradesLookback, tradesAsked>> PROVE LookbackInv'
  BY <1>2 DEF LookbackInv
<1>3. ASSUME inflight' = NothingQueued, UNCHANGED <<tradesLookback, tradesAsked>> PROVE LookbackInv'
  BY <1>1, <1>3 DEF LookbackInv, NothingQueued
<1>4. ASSUME NEW D \in SUBSET Requests, RestTimer(D) PROVE LookbackInv'
  <2>1. /\ inflight' = [r \in Requests |-> IF r \in D THEN inflight[r] + 1 ELSE inflight[r]]
        /\ tradesAsked' = tradesAsked \cup {s \in Symbols : <<"execution", s>> \in D}
        /\ tradesLookback' = tradesLookback
    BY <1>4 DEF RestTimer, Send, AskTrades
  <2> QED
    BY <1>1, <2>1 DEF LookbackInv
<1>5. ASSUME NEW outcome \in Outcomes, SnapshotAck(outcome) PROVE LookbackInv'
  <2>1. UNCHANGED tradesAsked
    BY <1>5, SnapshotAckFrame DEF history
  <2>2. \A r \in Requests : inflight'[r] > 0 => inflight[r] > 0
    <3>1. PICK q \in Requests : Answered(q, outcome)
      BY <1>5 DEF SnapshotAck, GetWalletBalanceAck, GetPositionsAck, GetOrdersAck, GetExecutionsAck,
                  Requests, SymbolTopics
    <3> QED
      BY <3>1 DEF Answered, TypeOK
  <2>3. \A s \in Symbols : inflight'[<<"execution", s>>] > 0 => s \in tradesAsked'
    BY <1>1, <2>1, <2>2 DEF LookbackInv
  <2>4. tradesLookback' = "default" => tradesAsked' # {}
    <3>1. CASE UNCHANGED tradesLookback
      BY <2>1, <3>1 DEF LookbackInv
    <3>2. ASSUME NEW s \in Symbols, GetExecutionsAck(s, outcome) PROVE tradesAsked' # {}
      BY <2>1, <3>2 DEF GetExecutionsAck, Answered, LookbackInv
    <3> QED
      BY <1>5, <3>1, <3>2 DEF SnapshotAck, GetWalletBalanceAck, GetPositionsAck, GetOrdersAck
  <2> QED
    BY <2>3, <2>4 DEF LookbackInv
<1>6. CASE DropCopyNext
  <2>1. UNCHANGED <<inflight, tradesLookback>>
    BY <1>6, DropCopyFrame DEF restVars
  <2>2. UNCHANGED tradesAsked
    BY <1>6 DEF DropCopyNext, DcConnected, DcReady, DcDisconnected, DcError, DcAuth, DcSubscribe,
                SymbolsUpdate, history
  <2> QED
    BY <1>2, <2>1, <2>2
<1>7. CASE WsNext
  <2>1. UNCHANGED <<inflight, tradesLookback, tradesAsked>>
    BY <1>7 DEF WsNext, WsConnected, WsReady, WsAuth2, WsDisconnected, restVars, history
  <2> QED
    BY <1>2, <2>1
<1>8. CASE RestConnected \/ RestRetry \/ \E outcome \in Outcomes : GetAccountInfoAck(outcome)
  <2>1. UNCHANGED <<inflight, tradesLookback, tradesAsked>>
    BY <1>8 DEF RestConnected, RestRetry, GetAccountInfoAck, history
  <2> QED
    BY <1>2, <2>1
<1>9. CASE RestDisconnected
  BY <1>3, <1>9 DEF RestDisconnected, history
<1>10. CASE UNCHANGED vars
  BY <1>2, <1>10 DEF vars, restVars, history
<1>11. CASE RestNext
  BY <1>4, <1>5, <1>8, <1>9, <1>11 DEF RestNext
<1> QED
  BY <1>6, <1>7, <1>10, <1>11 DEF Next

LEMMA LookbackInvariance == Spec => []LookbackInv
<1>1. Init => LookbackInv
  BY DEF Init, LookbackInv, NothingQueued, Requests, SymbolTopics
<1> QED
  BY <1>1, NextLookback, TypeCorrect, PTL DEF Spec

LEMMA FirstLookback == TypeOK /\ LookbackInv => (tradesAsked = {} => tradesLookback = "restart")
BY DEF TypeOK, LookbackInv

LEMMA AskedGrows == [Next]_vars => tradesAsked \subseteq tradesAsked'
<1> SUFFICES ASSUME [Next]_vars PROVE tradesAsked \subseteq tradesAsked'
  OBVIOUS
<1>1. CASE DropCopyNext
  BY <1>1 DEF DropCopyNext, DcConnected, DcReady, DcDisconnected, DcError, DcAuth, DcSubscribe,
              SymbolsUpdate, history
<1>2. CASE RestNext
  <2>1. ASSUME NEW D \in SUBSET Requests, RestTimer(D) PROVE tradesAsked \subseteq tradesAsked'
    BY <2>1 DEF RestTimer, AskTrades
  <2>2. ASSUME NEW outcome \in Outcomes, SnapshotAck(outcome) PROVE tradesAsked' = tradesAsked
    BY <2>2, SnapshotAckFrame DEF history
  <2> QED
    BY <1>2, <2>1, <2>2 DEF RestNext, RestConnected, RestDisconnected, RestRetry, GetAccountInfoAck,
                            history
<1>3. CASE WsNext
  BY <1>3 DEF WsNext, WsConnected, WsReady, WsAuth2, WsDisconnected, history
<1>4. CASE UNCHANGED vars
  BY <1>4 DEF vars, history
<1> QED
  BY <1>1, <1>2, <1>3, <1>4 DEF Next

\* The lookback of a restart is not used up before executions were asked for: the first
\* request since the start has it, whatever failed, was answered or was reconnected in the
\* meantime.
FirstReachesBackStep ==
    tradesAsked = {} /\ tradesAsked' # {} => tradesLookback = "restart"
THEOREM FirstReachesBack == Spec => [][FirstReachesBackStep]_vars
<1>1. TypeOK /\ LookbackInv /\ [Next]_vars => [FirstReachesBackStep]_vars
  BY FirstLookback DEF FirstReachesBackStep
<1> QED
  BY <1>1, LookbackInvariance, TypeCorrect, PTL DEF Spec

\* With a single symbol, all that are requested for the first time do: for another symbol
\* to take the lookback away (order_entry_rest.cpp:696) there must be one.
ReachesBackStep == tradesAsked' # tradesAsked => tradesLookback = "restart"
THEOREM OneSymbolReachesBack ==
    ASSUME \A s, t \in Symbols : s = t
    PROVE  Spec => [][ReachesBackStep]_vars
<1>1. TypeOK /\ TypeOK' /\ LookbackInv /\ [Next]_vars => [ReachesBackStep]_vars
  <2> SUFFICES ASSUME TypeOK, TypeOK', LookbackInv, [Next]_vars, tradesAsked' # tradesAsked
               PROVE  tradesLookback = "restart"
    BY DEF ReachesBackStep
  <2>1. tradesAsked \subseteq tradesAsked'
    BY AskedGrows
  <2>2. tradesAsked = {}
    BY <2>1 DEF TypeOK
  <2> QED
    BY <2>2, FirstLookback
<1> QED
  BY <1>1, LookbackInvariance, TypeCorrect, PTL DEF Spec
=============================================================================
