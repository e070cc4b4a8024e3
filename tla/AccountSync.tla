----------------------------- MODULE AccountSync -----------------------------
(***************************************************************************)
(* How one account is brought in line with the exchange.                   *)
(*                                                                         *)
(* DropCopy holds the private websocket of the account: it logs on,        *)
(* subscribes to the topics wallet, position, order and execution, and     *)
(* for every acknowledged topic puts snapshot requests on                  *)
(* Account::request_queue.  OrderEntryREST owns the REST connection that   *)
(* takes the requests off that queue on its timer, once its own account    *)
(* download has completed.  OrderEntryWS (only with settings.ws_api)       *)
(* shares the Account, and with it the queue.                              *)
(*                                                                         *)
(* The gateway is one thread running an event loop, so every handler is    *)
(* atomic; what is open is the order in which the three connections, the   *)
(* exchange and the timer call the handlers.                               *)
(***************************************************************************)
EXTENDS Naturals

CONSTANTS
    Symbols,         \* symbols the gateway may come to know
    TradeSymbols,    \* those for which can_account_trade_symbol holds
    NoSymbol,        \* the empty string that goes with the wallet topic
    Spot,            \* Api::api = SPOT: there are no positions
    WsApi,           \* settings.ws_api: OrderEntryWS exists
    RetryLogon,      \* settings.experimental.retry_logon
    MaxSessions      \* bound on the number of sessions, per connection

Connections == {"dc", "rest", "ws"}

ASSUME SymbolsAssumption == TradeSymbols \subseteq Symbols /\ NoSymbol \notin Symbols
ASSUME FlagsAssumption == Spot \in BOOLEAN /\ WsApi \in BOOLEAN /\ RetryLogon \in BOOLEAN
ASSUME MaxSessionsAssumption == MaxSessions \in [Connections -> Nat]

SymbolTopics == {"position", "order", "execution"}
Topics == SymbolTopics \cup {"wallet"}

WalletRequest == <<"wallet", NoSymbol>>

SubscribedTopicsAnyApi == Topics

\* The topics DropCopy::subscribe() asks for.
SubscribedTopics == IF Spot THEN Topics \ {"position"} ELSE Topics

NewSymbolTopicsNoExecution == {"position", "order"} \cap SubscribedTopics

\* The topics for which a newly listed symbol is requested at once.
NewSymbolTopics == SymbolTopics \cap SubscribedTopics

Requests == {WalletRequest} \cup (SymbolTopics \X Symbols)

TopicRequestsOfAllTopics(t, S) == IF t = "wallet" THEN {WalletRequest} ELSE NewSymbolTopics \X S

\* What a topic acknowledged while the symbols S are known asks for.
TopicRequests(t, S) == IF t = "wallet" THEN {WalletRequest} ELSE {t} \X S

(***************************************************************************)
(* What OrderEntryREST::process_response does with a REST response:        *)
(*   success   2xx, and the body has ret_code = 0                          *)
(*   rejected  2xx, and the body has another ret_code                      *)
(*   error     4xx, 5xx, a network error, or an exception on the way       *)
(*   fatal     3xx, or 403 under settings.rest.terminate_on_403            *)
(* The success handler completes for the first two only.                   *)
(***************************************************************************)
Outcomes == {"success", "rejected", "error", "fatal"}
SuccessHandlerRan(outcome) == outcome \in {"success", "rejected"}

VARIABLES
    process,                      \* "ended" once log::fatal was called
    queued,                       \* Account::request_queue, as a bag
    \* DropCopy
    dcLink, dcStatus, dcLogonTimeout, dcReplies, symbols_,
    \* OrderEntryREST
    restLink, restStatus, restState, inflight,
    outstanding,                  \* account requests not yet answered
    retry,                        \* Download2 was asked to retry
    tradesLookback,               \* the lookback download_trades_is_first_ selects
    \* OrderEntryWS
    wsLink, wsStatus, wsLogonTimeout, wsReplies,
    \* session counters (bounds) and history
    sessions,
    acked,       \* topics acknowledged in this DropCopy session
    fresh,       \* requests issued in it after their topic was acknowledged
    early,       \* requests queued in it before their topic was acknowledged
    cleared,     \* requests of it that OrderEntryWS threw off the queue
    tradesAsked  \* symbols whose executions have been requested since the start

dcVars == <<dcLink, dcStatus, dcLogonTimeout, dcReplies, symbols_>>
restVars == <<restLink, restStatus, restState, outstanding, retry, inflight, tradesLookback>>
wsVars == <<wsLink, wsStatus, wsLogonTimeout, wsReplies>>
session == <<acked, fresh, early, cleared>>
history == <<session, tradesAsked>>
vars == <<process, queued, dcVars, restVars, wsVars, sessions, history>>

WsLinks == {"down", "connected", "ready", "closing"}
Statuses == {"UNDEFINED", "DISCONNECTED", "LOGIN_SENT", "DOWNLOADING", "READY"}
NothingQueued == [r \in Requests |-> 0]

Running == process = "running"

Init ==
    /\ process = "running"
    /\ queued = NothingQueued
    /\ dcLink = "down" /\ dcStatus = "UNDEFINED" /\ dcLogonTimeout = "unset"
    /\ dcReplies = {} /\ symbols_ = {}
    /\ restLink = "down" /\ restStatus = "UNDEFINED" /\ restState = "UNDEFINED"
    /\ outstanding = 0 /\ retry = "none" /\ inflight = NothingQueued
    /\ tradesLookback = "restart"
    /\ wsLink = "down" /\ wsStatus = "UNDEFINED" /\ wsLogonTimeout = "unset"
    /\ wsReplies = {}
    /\ sessions = [c \in Connections |-> 0]
    /\ acked = {} /\ fresh = {} /\ early = {} /\ cleared = {}
    /\ tradesAsked = {}

NewSession(c) ==
    /\ sessions[c] < MaxSessions[c]
    /\ sessions' = [sessions EXCEPT ![c] = @ + 1]

\* The last session within the bound stays up, so that what must eventually
\* happen has the time to happen; nothing of the kind depends on OrderEntryWS.
MayDisconnect(c) == sessions[c] < MaxSessions[c] \/ c = "ws"

Enqueue(R) == queued' = [r \in Requests |-> IF r \in R THEN queued[r] + 1 ELSE queued[r]]

-----------------------------------------------------------------------------
(* Mutants: handlers with a plausible bug, which the runs must tell from the *)
(* handlers below.  (Three mutants of helpers stand above, next to them.)    *)

DcDisconnectedKeepsQueue ==
    /\ dcLink # "down" /\ (MayDisconnect("dc") \/ dcLink = "closing")
    /\ dcLink' = "down" /\ dcStatus' = "DISCONNECTED" /\ dcLogonTimeout' = "unset"
    /\ dcReplies' = {} /\ acked' = {} /\ fresh' = {} /\ early' = {} /\ cleared' = {}
    /\ UNCHANGED <<process, queued, symbols_, restVars, wsVars, sessions, tradesAsked>>

RestDisconnectedKeepsStatus ==
    /\ restLink = "up" /\ MayDisconnect("rest")
    /\ restLink' = "down" /\ outstanding' = 0 /\ inflight' = NothingQueued
    /\ IF restState = "ACCOUNT_INFO"
       THEN retry' = "pending" /\ UNCHANGED restState
       ELSE restState' = "UNDEFINED" /\ UNCHANGED retry
    /\ UNCHANGED <<process, queued, dcVars, restStatus, tradesLookback, wsVars, sessions, history>>

GetAccountInfoAckNoRetry(outcome) ==
    /\ restLink = "up" /\ outstanding > 0
    /\ outstanding' = outstanding - 1
    /\ process' = IF outcome = "fatal" THEN "ended" ELSE "running"
    /\ IF outcome = "success" /\ restState = "ACCOUNT_INFO"
       THEN restState' = "DONE" /\ restStatus' = "READY" /\ retry' = "none"
       ELSE UNCHANGED <<restState, restStatus, retry>>
    /\ UNCHANGED <<queued, dcVars, restLink, inflight, tradesLookback, wsVars, sessions, history>>

SendDropsRest(D) ==
    /\ queued' = NothingQueued
    /\ inflight' = [r \in Requests |-> IF r \in D THEN inflight[r] + 1 ELSE inflight[r]]
    /\ fresh' = fresh \cup {r \in D : r[1] \in acked}

SendUnchecked(D) ==
    /\ queued' = [r \in Requests |-> queued[r] - 1]
    /\ inflight' = [r \in Requests |-> IF r \in D THEN inflight[r] + 1 ELSE inflight[r]]
    /\ fresh' = fresh \cup {r \in D : r[1] \in acked}

-----------------------------------------------------------------------------
(* DropCopy *)

DcConnected ==
    /\ dcLink = "down"
    /\ NewSession("dc")
    /\ dcLink' = "connected"
    /\ dcLogonTimeout' = "set"
    /\ UNCHANGED <<process, queued, dcStatus, dcReplies, symbols_, restVars, wsVars, history>>

\* The websocket handshake is done: send_login, then LOGIN_SENT.
DcReady ==
    /\ dcLink = "connected"
    /\ dcLink' = "ready"
    /\ dcStatus' = "LOGIN_SENT"
    /\ dcReplies' = {"auth"}
    /\ UNCHANGED <<process, queued, dcLogonTimeout, symbols_, restVars, wsVars, sessions, history>>

\* The answer to the login.  A refusal closes the connection or ends the process.
DcAuth(success) ==
    /\ dcLink = "ready" /\ "auth" \in dcReplies
    /\ \/ /\ success
          /\ dcStatus' = "READY"
          /\ dcReplies' = SubscribedTopics
          /\ UNCHANGED <<process, dcLink>>
       \/ /\ ~success
          /\ dcReplies' = {}
          /\ process' = IF RetryLogon THEN "running" ELSE "ended"
          /\ dcLink' = "closing"
          /\ UNCHANGED dcStatus
    /\ UNCHANGED <<queued, dcLogonTimeout, symbols_, restVars, wsVars, sessions, history>>

\* The exchange answers the subscription to topic t (its success flag is not read).
DcSubscribe(t) ==
    /\ dcLink = "ready" /\ t \in dcReplies \cap Topics
    /\ dcReplies' = dcReplies \ {t}
    /\ Enqueue(TopicRequests(t, symbols_))
    /\ acked' = acked \cup {t}
    /\ UNCHANGED <<process, dcLink, dcStatus, dcLogonTimeout, symbols_, restVars, wsVars,
                   sessions, fresh, early, cleared, tradesAsked>>

\* An error message, or one that cannot be parsed, ends the process.
DcError ==
    /\ dcLink = "ready"
    /\ process' = "ended"
    /\ UNCHANGED <<queued, dcVars, restVars, wsVars, sessions, history>>

DcDisconnected ==
    /\ dcLink # "down"
    /\ MayDisconnect("dc") \/ dcLink = "closing"
    /\ dcLink' = "down"
    /\ dcStatus' = "DISCONNECTED"
    /\ dcLogonTimeout' = "unset"
    /\ dcReplies' = {}
    /\ queued' = NothingQueued
    /\ acked' = {} /\ fresh' = {} /\ early' = {} /\ cleared' = {}
    /\ UNCHANGED <<process, symbols_, restVars, wsVars, sessions, tradesAsked>>

\* The Controller passes on symbols it has not passed on before.
SymbolsUpdate(S) ==
    LET new == S \cap TradeSymbols
        requests == IF dcLink = "ready" THEN NewSymbolTopics \X new ELSE {}
    IN /\ new # {} /\ new \cap symbols_ = {}
       /\ symbols_' = symbols_ \cup new
       /\ Enqueue(requests)
       /\ early' = early \cup {r \in requests : r[1] \notin acked}
       /\ UNCHANGED <<process, dcLink, dcStatus, dcLogonTimeout, dcReplies, restVars, wsVars,
                      sessions, acked, fresh, cleared, tradesAsked>>

-----------------------------------------------------------------------------
(* OrderEntryREST.  core::Download2 (not part of the repository) calls       *)
(* download(ACCOUNT_INFO) on begin, on bump and some time after retry, and   *)
(* download(DONE) once check_relaxed has seen the state's answer.  A bump    *)
(* does not take back a retry, so two requests may be outstanding.           *)

Downloading == restState = "ACCOUNT_INFO"

\* download(ACCOUNT_INFO): report DOWNLOADING, get_account_info.
RequestAccountInfo ==
    /\ restState' = "ACCOUNT_INFO"
    /\ restStatus' = "DOWNLOADING"
    /\ outstanding' = outstanding + 1

\* bump when a download is in progress, else begin: both request the account.
RestConnected ==
    /\ restLink = "down"
    /\ NewSession("rest")
    /\ restLink' = "up"
    /\ RequestAccountInfo
    /\ UNCHANGED <<process, queued, dcVars, retry, inflight, tradesLookback, wsVars, history>>

\* Outstanding requests fail with a network error: get_account_info_ack then
\* asks for a retry, the snapshot handlers change nothing.
RestDisconnected ==
    /\ restLink = "up" /\ MayDisconnect("rest")
    /\ restLink' = "down"
    /\ restStatus' = "DISCONNECTED"
    /\ outstanding' = 0
    /\ inflight' = NothingQueued
    /\ IF Downloading
       THEN retry' = "pending" /\ UNCHANGED restState
       ELSE restState' = "UNDEFINED" /\ UNCHANGED retry
    /\ UNCHANGED <<process, queued, dcVars, tradesLookback, wsVars, sessions, history>>

RestRetry ==
    /\ restLink = "up" /\ Downloading /\ retry = "pending"
    /\ retry' = "none"
    /\ RequestAccountInfo
    /\ UNCHANGED <<process, queued, dcVars, restLink, inflight, tradesLookback, wsVars, sessions, history>>

\* An answer that comes when the download is done already, to the other of two requests,
\* changes nothing, whatever it says.
GetAccountInfoAck(outcome) ==
    /\ restLink = "up" /\ outstanding > 0
    /\ outstanding' = outstanding - 1
    /\ process' = IF outcome = "fatal" THEN "ended" ELSE "running"
    /\ \/ /\ outcome = "success" /\ Downloading
          /\ restState' = "DONE" /\ restStatus' = "READY" /\ retry' = "none"
       \/ /\ outcome \in {"rejected", "error"} /\ Downloading
          /\ retry' = "pending" /\ UNCHANGED <<restState, restStatus>>
       \/ /\ outcome = "fatal" \/ ~Downloading
          /\ UNCHANGED <<restState, restStatus, retry>>
    /\ UNCHANGED <<queued, dcVars, restLink, inflight, tradesLookback,
                   wsVars, sessions, history>>

\* check_request_queue: the queue gives out the requests D, each is sent.
Send(D) ==
    /\ queued' = [r \in Requests |-> IF r \in D THEN queued[r] - 1 ELSE queued[r]]
    /\ inflight' = [r \in Requests |-> IF r \in D THEN inflight[r] + 1 ELSE inflight[r]]
    /\ fresh' = fresh \cup {r \in D : r[1] \in acked}

\* get_executions: the history of who has asked, with the lookback of the moment.
AskTrades(D) == tradesAsked' = tradesAsked \cup {s \in Symbols : <<"execution", s>> \in D}

\* Timer: while the connection is up and READY the queue gives out as many
\* requests as the rate limiter allows, in whatever order it holds them.
RestTimer(D) ==
    /\ restLink = "up" /\ restStatus = "READY"
    /\ D # {} /\ \A r \in D : queued[r] > 0
    /\ Send(D)
    /\ AskTrades(D)
    /\ UNCHANGED <<process, dcVars, restLink, restStatus, restState, outstanding, retry,
                   tradesLookback, wsVars, sessions, acked, early, cleared>>

\* A snapshot is answered, or its request fails.  Nothing is requested again on an
\* error; DropCopy only logs the Response that follows.
Answered(r, outcome) ==
    /\ restLink = "up" /\ inflight[r] > 0
    /\ inflight' = [inflight EXCEPT ![r] = @ - 1]
    /\ process' = IF outcome = "fatal" THEN "ended" ELSE "running"
    /\ UNCHANGED <<queued, dcVars, restLink, restStatus, restState, outstanding, retry, wsVars,
                   sessions, history>>

GetWalletBalanceAck(outcome) == Answered(WalletRequest, outcome) /\ UNCHANGED tradesLookback

GetPositionsAck(s, outcome) == Answered(<<"position", s>>, outcome) /\ UNCHANGED tradesLookback

GetOrdersAck(s, outcome) == Answered(<<"order", s>>, outcome) /\ UNCHANGED tradesLookback

\* download_trades_is_first_ = false ends the success handler, whatever ret_code was.
GetExecutionsAck(s, outcome) ==
    /\ Answered(<<"execution", s>>, outcome)
    /\ tradesLookback' = IF SuccessHandlerRan(outcome) THEN "default" ELSE tradesLookback

SnapshotAck(outcome) ==
    \/ GetWalletBalanceAck(outcome)
    \/ \E s \in Symbols : \/ GetPositionsAck(s, outcome)
                          \/ GetOrdersAck(s, outcome)
                          \/ GetExecutionsAck(s, outcome)

-----------------------------------------------------------------------------
(* OrderEntryWS *)

WsConnected ==
    /\ WsApi /\ wsLink = "down"
    /\ NewSession("ws")
    /\ wsLink' = "connected"
    /\ wsLogonTimeout' = "set"
    /\ UNCHANGED <<process, queued, dcVars, restVars, wsStatus, wsReplies, history>>

WsReady ==
    /\ wsLink = "connected"
    /\ wsLink' = "ready"
    /\ wsReplies' = {"auth"}
    /\ wsStatus' = "LOGIN_SENT"
    /\ UNCHANGED <<process, queued, dcVars, restVars, wsLogonTimeout, sessions, history>>

WsAuth2(ok) ==
    /\ wsLink = "ready" /\ "auth" \in wsReplies
    /\ wsReplies' = {}
    /\ process' = IF ok THEN "running" ELSE "ended"
    /\ wsStatus' = IF ok THEN "READY" ELSE wsStatus
    /\ UNCHANGED <<queued, dcVars, restVars, wsLink, wsLogonTimeout, sessions, history>>

\* The queue that is emptied here is the one DropCopy fills.
WsDisconnected ==
    /\ wsLink # "down" /\ MayDisconnect("ws")
    /\ wsLink' = "down"
    /\ wsStatus' = "DISCONNECTED"
    /\ wsLogonTimeout' = "unset"
    /\ wsReplies' = {}
    /\ queued' = NothingQueued
    /\ cleared' = cleared \cup {r \in Requests : queued[r] > 0}
    /\ UNCHANGED <<process, dcVars, restVars, sessions, acked, fresh, early, tradesAsked>>

-----------------------------------------------------------------------------
DropCopyNext ==
    \/ DcConnected \/ DcReady \/ DcDisconnected \/ DcError
    \/ \E success \in BOOLEAN : DcAuth(success)
    \/ \E t \in Topics : DcSubscribe(t)
    \/ \E S \in SUBSET Symbols : SymbolsUpdate(S)

RestNext ==
    \/ RestConnected \/ RestDisconnected \/ RestRetry
    \/ \E outcome \in Outcomes : GetAccountInfoAck(outcome)
    \/ \E D \in SUBSET Requests : RestTimer(D)
    \/ \E outcome \in Outcomes : SnapshotAck(outcome)

WsNext ==
    \/ WsConnected \/ WsReady \/ WsDisconnected
    \/ \E ok \in BOOLEAN : WsAuth2(ok)

Next == Running /\ (DropCopyNext \/ RestNext \/ WsNext)

Spec == Init /\ [][Next]_vars

(***************************************************************************)
(* Fairness.  The timer fires forever and the rate limiter refills; the    *)
(* REST client reconnects by itself; Download2 repeats a failed download;  *)
(* and the exchange does not refuse the account download for ever.         *)
(* Nothing is assumed of the private websocket or of OrderEntryWS.         *)
(***************************************************************************)
Dispatch == Running /\ \E D \in SUBSET Requests : RestTimer(D)

Fairness ==
    /\ WF_vars(Dispatch)
    /\ WF_vars(Running /\ RestConnected)
    /\ WF_vars(Running /\ RestRetry)
    /\ SF_vars(Running /\ GetAccountInfoAck("success"))

FairSpec == Spec /\ Fairness
-----------------------------------------------------------------------------
(* Properties *)

\* What the acknowledged topics ask for, given the symbols known by now.
PromisedFor(A, S) == UNION {TopicRequests(t, S) : t \in A}
Promised == PromisedFor(acked, symbols_)

TypeOK ==
    /\ process \in {"running", "ended"}
    /\ queued \in [Requests -> Nat]
    /\ dcLink \in WsLinks /\ dcStatus \in Statuses /\ dcLogonTimeout \in {"set", "unset"}
    /\ dcReplies \subseteq Topics \cup {"auth"} /\ symbols_ \subseteq TradeSymbols
    /\ restLink \in {"down", "up"} /\ restStatus \in Statuses
    /\ restState \in {"UNDEFINED", "ACCOUNT_INFO", "DONE"}
    /\ outstanding \in Nat /\ retry \in {"none", "pending"}
    /\ inflight \in [Requests -> Nat]
    /\ tradesLookback \in {"restart", "default"}
    /\ wsLink \in WsLinks /\ wsStatus \in Statuses
    /\ wsLogonTimeout \in {"set", "unset"} /\ wsReplies \subseteq {"auth"}
    /\ sessions \in [Connections -> Nat]
    /\ acked \subseteq Topics /\ fresh \subseteq Requests /\ early \subseteq Requests
    /\ cleared \subseteq Requests
    /\ tradesAsked \subseteq Symbols

\* No gap in the view of the account: once a topic is acknowledged, and hence
\* its updates flow, every snapshot it asks for is still queued or was requested
\* after the acknowledgement -- whatever the order of symbols, acknowledgements,
\* timers and reconnects -- except for those OrderEntryWS threw away
\* (order_entry_ws.cpp:235).
Coverage == \A r \in Promised : queued[r] > 0 \/ r \in fresh \/ r \in cleared

\* Requests wait only on behalf of a DropCopy connection that is still up: none
\* survives into the next session (drop_copy.cpp:210).
QueueOnlyInSession == (\E r \in Requests : queued[r] > 0) => dcLink \in {"ready", "closing"}

\* A snapshot waits at most once per session, so that the rate limit is not spent
\* on duplicates; the one exception is a symbol listed between the websocket
\* handshake and the acknowledgement of the topic, which is asked for twice
\* (drop_copy.cpp:113, 277).
NoRedundantDownloads ==
    \A r \in Requests : queued[r] <= (IF r \in early THEN 2 ELSE 1)

\* The assertions of the private streams never fail.  get_positions asserts that the
\* API is not SPOT (order_entry_rest.cpp:434): nothing queues a positions download
\* there, whichever way a symbol becomes known.  Both Connected handlers assert that
\* logon_timeout_ is zero (drop_copy.cpp:200, order_entry_ws.cpp:226): neither finds
\* the timeout of an earlier session.
NoPositionsOnSpot ==
    \A r \in Requests : Spot /\ r[1] = "position" => queued[r] = 0
LogonTimeoutClear ==
    /\ dcLink = "down" => dcLogonTimeout = "unset"
    /\ wsLink = "down" => wsLogonTimeout = "unset"
AssertionsHold == NoPositionsOnSpot /\ LogonTimeoutClear

\* READY is reported exactly while the REST connection is up and its account
\* download is done, however often the connection drops in the middle of it; and
\* a connection that is up is always downloading or done.
RestReadyIffDownloaded ==
    /\ restStatus = "READY" <=> (restLink = "up" /\ restState = "DONE")
    /\ restLink = "up" => restState # "UNDEFINED"

\* A private stream reports READY only on a live connection that was logged on.
StreamReadyOnlyLoggedOn ==
    /\ dcStatus = "READY" => dcLink = "ready" /\ "auth" \notin dcReplies
    /\ wsStatus = "READY" => wsLink = "ready" /\ "auth" \notin wsReplies

\* How far a DropCopy session has come: replies are awaited and topics
\* acknowledged only on a live connection, a topic is acknowledged once and not
\* before the login, and only topics that were asked for are.
SessionInv ==
    /\ dcReplies \cup acked # {} => dcLink = "ready"
    /\ acked \cap dcReplies = {}
    /\ "auth" \in dcReplies => dcReplies = {"auth"} /\ acked = {}
    /\ dcReplies \cup acked \subseteq SubscribedTopics \cup {"auth"}

\* What waits in the queue: requests for known symbols only, once, and before
\* the acknowledgement of their topic only those of a symbol listed early.
QueueInv ==
    \A r \in Requests :
        /\ queued[r] > 0 => r[1] = "wallet" \/ r[2] \in symbols_
        /\ queued[r] > 0 => r[1] \in SubscribedTopics
        /\ r[1] \notin acked => queued[r] <= (IF r \in early THEN 1 ELSE 0)
        /\ queued[r] <= (IF r \in early THEN 2 ELSE 1)

\* A request leaves the queue only by being sent, or because one of the private
\* websockets was lost.
NothingDroppedStep ==
    \A r \in Requests : queued'[r] < queued[r] =>
        \/ inflight'[r] = inflight[r] + 1
        \/ dcLink # "down" /\ dcLink' = "down"
        \/ wsLink # "down" /\ wsLink' = "down"
NothingDropped == [][NothingDroppedStep]_vars

\* A REST connection that stays up becomes READY, after any number of failures.
RestBecomesReady == restLink = "up" ~> (restStatus = "READY" \/ restLink = "down" \/ ~Running)

\* The abstract service this module implements.
Service == INSTANCE SnapshotService
    WITH due <- Promised, requested <- fresh

\* A due snapshot is never withdrawn before the DropCopy session ends, and nothing
\* is counted as requested before its topic was acknowledged.
ServiceSafety == Service!Safety

\* Without OrderEntryWS the service is live as well: every snapshot an acknowledged
\* topic asks for is requested in the end, unless DropCopy loses its connection or
\* the process ends.
ServiceSpec == Service!Spec
=============================================================================
