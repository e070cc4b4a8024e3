-------------------------- MODULE MarketDataStreams --------------------------
(***************************************************************************)
(* How the gateway learns its symbols and keeps market data flowing for    *)
(* each of them.                                                           *)
(*                                                                         *)
(* Symbols come from the clients (Controller, Event<Subscribe>) and from   *)
(* the instruments download of Rest.  The Controller registers new symbols *)
(* with core::Symbols, which fills slices of a fixed size; slice i belongs *)
(* to the i-th MarketData stream, created on demand.  A stream subscribes  *)
(* to its slice when its websocket becomes ready and to later additions as *)
(* they come, and asks Rest for the candles of every symbol it subscribes. *)
(*                                                                         *)
(* One thread runs the event loop, so every handler is atomic; open is the *)
(* order in which clients, the exchange and the connections call them, and *)
(* where the dispatcher throws while a listing is handled: Rest catches    *)
(* the exception and downloads again, but what the handler has changed by  *)
(* then stays changed.                                                     *)
(***************************************************************************)
EXTENDS Naturals, FiniteSets

CONSTANTS
    Symbols,         \* symbols that may turn up
    Discarded,       \* those the configuration filters out (discard_symbol)
    SliceSize,       \* settings.ws.max_subscriptions_per_stream
    Klines,          \* settings.download.time_series_lookback is not zero
    MaxSessions,     \* bound on the sessions of each market data stream
    MaxRestSessions  \* bound on the sessions of Rest

ASSUME SymbolsAssumption == IsFiniteSet(Symbols) /\ Discarded \subseteq Symbols
ASSUME SliceSizeAssumption == SliceSize \in Nat \ {0}
ASSUME FlagsAssumption == Klines \in BOOLEAN
ASSUME BoundsAssumption == MaxSessions \in Nat /\ MaxRestSessions \in Nat

\* A registry of n symbols never needs more streams than symbols.
Indexes == 0 .. Cardinality(Symbols)

(***************************************************************************)
(* What Rest::process_response makes of a response: "success" is a 2xx     *)
(* whose body has ret_code = 0; "error" stands for every way to end in the *)
(* error handler; a redirection is fatal.                                  *)
(***************************************************************************)
Outcomes == {"success", "error", "fatal"}

VARIABLES
    process,          \* "ended" once log::fatal was called
    all_symbols,      \* Shared::all_symbols
    place, total,     \* core::Symbols: the position of each of the symbols 1 .. total
    market_data_,     \* the number of streams created
    mdStatus,         \* connection_status_ of each
    subscribed,       \* per stream: how often it asked for a symbol in this session
    \* Rest
    restLink, restStatus, restState,
    outstanding,      \* instruments requests not yet answered
    retry,            \* Download2 was asked to retry
    \* Shared::time_series_request_queue and the requests taken off it
    queued, inflight,
    \* session counters (bounds) and history
    mdSessions, restSessions,
    passedOn,         \* how often a symbol was handed to DropCopy
    processed,        \* listings processed in this instruments download
    klineAsked,       \* symbols whose candles were requested since they were subscribed
    interrupted       \* symbols that were new to a listing whose handler has thrown

registryVars == <<all_symbols, place, total>>
streamVars == <<market_data_, mdStatus, subscribed, mdSessions>>
restVars == <<restLink, restStatus, restState, outstanding, retry, restSessions, processed>>
klineVars == <<queued, inflight, klineAsked>>
history == <<passedOn, interrupted>>
vars == <<process, registryVars, streamVars, restVars, klineVars, history>>

Statuses == {"UNDEFINED", "DISCONNECTED", "DOWNLOADING", "READY"}
NoSymbols == [s \in Symbols |-> 0]
Running == process = "running"

\* Slots are numbered from 1, so that 0 says that a symbol has none.
Registered == {s \in Symbols : place[s] > 0}
SliceOf(s) == (place[s] - 1) \div SliceSize
Slices(n) == (n + SliceSize - 1) \div SliceSize

Init ==
    /\ process = "running"
    /\ all_symbols = {} /\ place = NoSymbols /\ total = 0
    /\ market_data_ = 0
    /\ mdStatus = [i \in Indexes |-> "UNDEFINED"]
    /\ subscribed = [i \in Indexes |-> NoSymbols]
    /\ restLink = "down" /\ restStatus = "UNDEFINED" /\ restState = "UNDEFINED"
    /\ outstanding = 0 /\ retry = "none"
    /\ queued = NoSymbols /\ inflight = NoSymbols
    /\ mdSessions = [i \in Indexes |-> 0] /\ restSessions = 0
    /\ passedOn = NoSymbols /\ processed = 0 /\ klineAsked = {} /\ interrupted = {}

Add(bag, S) == [s \in Symbols |-> IF s \in S THEN bag[s] + 1 ELSE bag[s]]

-----------------------------------------------------------------------------
(* Mutants: definitions with a plausible bug, which the runs must tell from  *)
(* those below.                                                              *)

InstrumentsInfoFailedForGood(listing) ==
    /\ UNCHANGED <<registryVars, streamVars, restStatus, restState, retry, processed, queued,
                   klineAsked, history>>

RestDisconnectedClearsQueue ==
    /\ restLink = "up" /\ restSessions < MaxRestSessions
    /\ restLink' = "down" /\ restStatus' = "DISCONNECTED"
    /\ outstanding' = 0 /\ inflight' = NoSymbols /\ queued' = NoSymbols
    /\ IF restState = "GET_INSTRUMENTS_INFO"
       THEN retry' = "pending" /\ UNCHANGED <<restState, processed>>
       ELSE restState' = "UNDEFINED" /\ processed' = 0 /\ UNCHANGED retry
    /\ UNCHANGED <<process, registryVars, streamVars, restSessions, klineAsked, history>>

RestTimerUnchecked(D) ==
    /\ restLink = "up" /\ restStatus = "READY"
    /\ D # {} /\ \E s \in D : queued[s] > 0
    /\ queued' = [s \in Symbols |-> IF s \in D THEN queued[s] - 1 ELSE queued[s]]
    /\ inflight' = Add(inflight, D)
    /\ klineAsked' = klineAsked \cup D
    /\ UNCHANGED <<process, registryVars, streamVars, restVars, history>>

\* The check of the status is inverted.
RestTimerWhileDownloading(D) ==
    /\ restLink = "up" /\ restStatus # "READY"
    /\ D # {} /\ \A s \in D : queued[s] > 0
    /\ queued' = [s \in Symbols |-> IF s \in D THEN queued[s] - 1 ELSE queued[s]]
    /\ inflight' = Add(inflight, D)
    /\ klineAsked' = klineAsked \cup D
    /\ UNCHANGED <<process, registryVars, streamVars, restVars, history>>

-----------------------------------------------------------------------------
(* Controller: registering symbols *)

\* core::Symbols::get_slice(index, start_from), given the positions p.
GetSlice(p, index, start_from) ==
    {s \in Symbols : p[s] > start_from /\ (p[s] - 1) \div SliceSize = index}

\* MarketData::subscribe(span): each topic of each symbol, and its candles.
RequestKlines(S) ==
    IF Klines
    THEN queued' = Add(queued, S) /\ klineAsked' = klineAsked \ S
    ELSE UNCHANGED <<queued, klineAsked>>

\* Mutant: start_from is not passed on to get_slice.
AddedWholeSlice(position, i) ==
    IF i < market_data_ /\ mdStatus[i] = "READY" THEN GetSlice(position, i, 0) ELSE {}

\* MarketData::subscribe(start_from): what was added to the slice of a stream, if it
\* is ready to subscribe it.
Added(position, i) ==
    IF i < market_data_ /\ mdStatus[i] = "READY" THEN GetSlice(position, i, total) ELSE {}

\* Mutant: one stream at most is created.
EnsureSymbolSlicesOne(n) == market_data_' = IF market_data_ < n THEN market_data_ + 1 ELSE market_data_

\* ensure_symbol_slices: streams are created one at a time, and started.
EnsureSymbolSlices(n) == market_data_' = IF market_data_ < n THEN n ELSE market_data_

\* Controller::operator()(SymbolsUpdate): register the new symbols in the order of
\* the list, create the streams they need, let the streams that are ready subscribe
\* what was added to their slices, and tell every DropCopy, which asks the dispatcher
\* about each symbol.  The first n symbols of the list get that far: all of them,
\* unless the dispatcher throws.
SymbolsUpdate(new, n) ==
    \E order \in [new -> total + 1 .. total + Cardinality(new)] :
        LET position == [s \in Symbols |-> IF s \in new THEN order[s] ELSE place[s]]
        IN /\ \A s, t \in new : order[s] = order[t] => s = t
           /\ place' = position
           /\ total' = total + Cardinality(new)
           /\ EnsureSymbolSlices(Slices(total + Cardinality(new)))
           /\ subscribed' = [i \in Indexes |-> Add(subscribed[i], Added(position, i))]
           /\ RequestKlines(UNION {Added(position, i) : i \in Indexes})
           /\ passedOn' = Add(passedOn, {s \in new : order[s] <= total + n})

\* A client asks for symbols; those already known are only logged.
Subscribe(S) ==
    /\ all_symbols' = all_symbols \cup S
    /\ SymbolsUpdate(S \ all_symbols, Cardinality(S \ all_symbols))
    /\ UNCHANGED <<process, mdStatus, mdSessions, restVars, inflight, interrupted>>

-----------------------------------------------------------------------------
(* MarketData.  Stream i exists once i < market_data_; its websocket client  *)
(* reconnects by itself, and Connected does nothing.                         *)

MdReady(i) ==
    /\ i < market_data_ /\ mdStatus[i] # "READY"
    /\ mdSessions[i] < MaxSessions
    /\ mdSessions' = [mdSessions EXCEPT ![i] = @ + 1]
    /\ mdStatus' = [mdStatus EXCEPT ![i] = "READY"]
    /\ subscribed' = [subscribed EXCEPT ![i] = Add(NoSymbols, GetSlice(place, i, 0))]
    /\ RequestKlines(GetSlice(place, i, 0))
    /\ UNCHANGED <<process, registryVars, market_data_, restVars, inflight, history>>

\* The last session within the bound stays up.
MdDisconnected(i) ==
    /\ i < market_data_ /\ mdStatus[i] # "DISCONNECTED"
    /\ mdSessions[i] < MaxSessions
    /\ mdStatus' = [mdStatus EXCEPT ![i] = "DISCONNECTED"]
    /\ subscribed' = [subscribed EXCEPT ![i] = NoSymbols]
    /\ UNCHANGED <<process, registryVars, market_data_, mdSessions, restVars, klineVars, history>>

\* An error message, a binary one, or one that is for another kind of stream.
MdError(i) ==
    /\ i < market_data_ /\ mdStatus[i] = "READY"
    /\ process' = "ended"
    /\ UNCHANGED <<registryVars, streamVars, restVars, klineVars, history>>

-----------------------------------------------------------------------------
(* Rest.  core::Download2 (not part of the repository) calls                 *)
(* download(GET_INSTRUMENTS_INFO) on begin, on bump, and once more some time *)
(* after retry; a bump does not take back a retry, so two requests of one    *)
(* download may be outstanding.                                              *)

Downloading == restState = "GET_INSTRUMENTS_INFO"

\* download(GET_INSTRUMENTS_INFO)
GetInstrumentsInfo ==
    /\ restState' = "GET_INSTRUMENTS_INFO"
    /\ restStatus' = "DOWNLOADING"
    /\ outstanding' = outstanding + 1

RestConnected ==
    /\ restLink = "down" /\ restSessions < MaxRestSessions
    /\ restLink' = "up"
    /\ restSessions' = restSessions + 1
    /\ GetInstrumentsInfo
    /\ UNCHANGED <<process, registryVars, streamVars, retry, processed, klineVars, history>>

\* Requests that are outstanding fail: the one for the instruments asks for a retry,
\* candles are not asked for again.  The queue stays as it is.
RestDisconnected ==
    /\ restLink = "up" /\ restSessions < MaxRestSessions
    /\ restLink' = "down"
    /\ restStatus' = "DISCONNECTED"
    /\ outstanding' = 0
    /\ inflight' = NoSymbols
    /\ IF Downloading
       THEN retry' = "pending" /\ UNCHANGED <<restState, processed>>
       ELSE restState' = "UNDEFINED" /\ processed' = 0 /\ UNCHANGED retry
    /\ UNCHANGED <<process, registryVars, streamVars, restSessions, queued, klineAsked,
                   history>>

RestRetry ==
    /\ restLink = "up" /\ Downloading /\ retry = "pending"
    /\ retry' = "none"
    /\ GetInstrumentsInfo
    /\ UNCHANGED <<process, registryVars, streamVars, restLink, restSessions, processed,
                   klineVars, history>>

\* What an exception leaves behind.  Either the loop was cut short, and the symbols seen
\* by then are known, but registered nowhere; or SymbolsUpdate was, and they are
\* registered, but only the first n were told to DropCopy.
InstrumentsInfoInterrupted(listing) ==
    LET new == (listing \ Discarded) \ all_symbols
    IN /\ \/ \E seen \in SUBSET new :
                /\ all_symbols' = all_symbols \cup seen
                /\ interrupted' = interrupted \cup seen
                /\ UNCHANGED <<place, total, market_data_, subscribed, queued, klineAsked, passedOn>>
          \/ /\ new # {}
             /\ all_symbols' = all_symbols \cup new
             /\ interrupted' = interrupted \cup new
             /\ \E n \in 0 .. Cardinality(new) : SymbolsUpdate(new, n)
       /\ UNCHANGED <<mdStatus, mdSessions>>

\* An instruments request fails: the exchange refuses it, or the listing is received but
\* its handler throws.  A retry means nothing once the download is done.
InstrumentsInfoFailed(listing) ==
    /\ retry' = IF Downloading THEN "pending" ELSE retry
    /\ IF Downloading
       THEN InstrumentsInfoInterrupted(listing)
       ELSE UNCHANGED <<registryVars, streamVars, queued, klineAsked, history>>
    /\ UNCHANGED <<restStatus, restState, processed>>

\* Mutant: hands on what is listed, known or not.
InstrumentsInfoAckAll(listing) ==
    LET new == listing \ Discarded
    IN /\ all_symbols' = all_symbols \cup new
       /\ SymbolsUpdate(new, Cardinality(new))
       /\ UNCHANGED <<mdStatus, mdSessions, interrupted>>

\* The listing has the symbols in it, of which the discarded are dropped.
InstrumentsInfoAck(listing) ==
    LET new == (listing \ Discarded) \ all_symbols
    IN /\ all_symbols' = all_symbols \cup new
       /\ IF new # {}
          THEN SymbolsUpdate(new, Cardinality(new))
          ELSE UNCHANGED <<place, total, market_data_, subscribed, queued, klineAsked, passedOn>>
       /\ UNCHANGED <<mdStatus, mdSessions, interrupted>>

\* Mutant: never skips.
GetInstrumentsInfoAckAlways(outcome, listing) ==
    /\ restLink = "up" /\ outstanding > 0
    /\ outstanding' = outstanding - 1
    /\ process' = IF outcome = "fatal" THEN "ended" ELSE "running"
    /\ \/ /\ outcome = "success"
          /\ InstrumentsInfoAck(listing)
          /\ restState' = "DONE" /\ restStatus' = "READY" /\ retry' = "none"
          /\ processed' = processed + 1
       \/ outcome # "success" /\ InstrumentsInfoFailed(listing)
    /\ UNCHANGED <<restLink, restSessions, inflight>>

\* get_instruments_info_ack: skipped when the state has been processed already.
GetInstrumentsInfoAck(outcome, listing) ==
    /\ restLink = "up" /\ outstanding > 0
    /\ outstanding' = outstanding - 1
    /\ process' = IF outcome = "fatal" THEN "ended" ELSE "running"
    /\ \/ /\ outcome = "success" /\ Downloading
          /\ InstrumentsInfoAck(listing)
          /\ restState' = "DONE" /\ restStatus' = "READY" /\ retry' = "none"
          /\ processed' = processed + 1
       \/ outcome = "error" /\ InstrumentsInfoFailed(listing)
       \/ /\ outcome = "fatal" \/ (outcome = "success" /\ ~Downloading)
          /\ UNCHANGED <<registryVars, streamVars, restStatus, restState, retry, processed,
                         queued, klineAsked, history>>
    /\ UNCHANGED <<restLink, restSessions, inflight>>

\* Timer, check_request_queue: the queue gives out the symbols D.
RestTimer(D) ==
    /\ restLink = "up" /\ restStatus = "READY"
    /\ D # {} /\ \A s \in D : queued[s] > 0
    /\ queued' = [s \in Symbols |-> IF s \in D THEN queued[s] - 1 ELSE queued[s]]
    /\ inflight' = Add(inflight, D)
    /\ klineAsked' = klineAsked \cup D
    /\ UNCHANGED <<process, registryVars, streamVars, restVars, history>>

\* Candles are published or, on an error, forgotten.
GetKlineAck(s, outcome) ==
    /\ restLink = "up" /\ inflight[s] > 0
    /\ inflight' = [inflight EXCEPT ![s] = @ - 1]
    /\ process' = IF outcome = "fatal" THEN "ended" ELSE "running"
    /\ UNCHANGED <<registryVars, streamVars, restVars, queued, klineAsked, history>>

-----------------------------------------------------------------------------
MdNext == \E i \in Indexes : MdReady(i) \/ MdDisconnected(i) \/ MdError(i)

RestNext ==
    \/ RestConnected \/ RestDisconnected \/ RestRetry
    \/ \E outcome \in Outcomes, listing \in SUBSET Symbols : GetInstrumentsInfoAck(outcome, listing)
    \/ \E D \in SUBSET Symbols : RestTimer(D)
    \/ \E s \in Symbols, outcome \in Outcomes : GetKlineAck(s, outcome)

Next ==
    /\ Running
    /\ \/ \E S \in SUBSET Symbols : Subscribe(S)
       \/ MdNext
       \/ RestNext

Spec == Init /\ [][Next]_vars

(***************************************************************************)
(* Fairness: connections are made again, Download2 does retry, the timer   *)
(* fires, and the instruments request is answered at last by a listing     *)
(* that is handled without an exception.                                   *)
(***************************************************************************)
Fairness ==
    /\ \A i \in Indexes : WF_vars(Running /\ MdReady(i))
    /\ WF_vars(Running /\ RestConnected)
    /\ WF_vars(Running /\ RestRetry)
    /\ SF_vars(Running /\ \E listing \in SUBSET Symbols : GetInstrumentsInfoAck("success", listing))
    /\ WF_vars(Running /\ \E D \in SUBSET Symbols : RestTimer(D))

FairSpec == Spec /\ Fairness
-----------------------------------------------------------------------------
(* Properties *)

TypeOK ==
    /\ process \in {"running", "ended"}
    /\ all_symbols \subseteq Symbols
    /\ place \in [Symbols -> Nat] /\ total \in Nat
    /\ market_data_ \in Nat
    /\ mdStatus \in [Indexes -> Statuses]
    /\ subscribed \in [Indexes -> [Symbols -> Nat]]
    /\ restLink \in {"down", "up"} /\ restStatus \in Statuses
    /\ restState \in {"UNDEFINED", "GET_INSTRUMENTS_INFO", "DONE"}
    /\ outstanding \in Nat /\ retry \in {"none", "pending"}
    /\ queued \in [Symbols -> Nat] /\ inflight \in [Symbols -> Nat]
    /\ mdSessions \in [Indexes -> Nat] /\ restSessions \in Nat
    /\ passedOn \in [Symbols -> Nat] /\ processed \in Nat /\ klineAsked \subseteq Symbols
    /\ interrupted \subseteq Symbols

\* A stream that is READY has asked exactly once for each symbol registered in its
\* slice, and for no other -- whether the symbol came before the stream, with it, while
\* it was down, or later into a slice already in use (market_data.cpp:209, 237), and
\* whether or not an exception followed.  No stream exceeds its number of subscriptions.
SubscribedOnce ==
    \A i \in Indexes :
        /\ \A s \in Symbols : subscribed[i][s] =
             IF mdStatus[i] = "READY" /\ s \in Registered /\ SliceOf(s) = i THEN 1 ELSE 0
        /\ Cardinality({s \in Symbols : subscribed[i][s] > 0}) <= SliceSize

\* assert(res.second) in DropCopy (drop_copy.cpp:112): a symbol is handed on at most
\* once, from whichever of the two sources it comes first, however often it comes, and
\* however often listings are cut short and downloaded again; only what is registered is
\* handed on, and only what is known (all_symbols) is registered.  Conversely, all that
\* is known was registered and handed on, but for the symbols that were new to a listing
\* whose handler has thrown (rest.cpp:309, 327, 333): all_symbols keeps them from being
\* new again (rest.cpp:314), so that some are never handed on.
PassedOnOnce ==
    /\ \A s \in Symbols : passedOn[s] <= (IF s \in Registered THEN 1 ELSE 0)
    /\ Registered \subseteq all_symbols /\ interrupted \subseteq all_symbols
    /\ \A s \in all_symbols \ interrupted : s \in Registered /\ passedOn[s] = 1

\* A download processes one listing to its end, even if a bump and a retry have two
\* requests outstanding (rest.cpp:244); and there are never more than two.
ListingProcessedOnce ==
    /\ processed = IF restState = "DONE" THEN 1 ELSE 0
    /\ outstanding <= 2

\* Candles of a subscribed symbol are still queued, or were requested after the
\* subscription: no reconnect of Rest loses any that wait (rest.cpp:427).
KlineCoverage ==
    Klines => \A i \in Indexes, s \in Symbols :
        subscribed[i][s] > 0 => queued[s] > 0 \/ s \in klineAsked

\* While Rest is away the queue grows by each session of a stream, not by more.
KlineQueueBounded ==
    \A s \in Symbols : queued[s] > 0 =>
        s \in Registered /\ queued[s] <= mdSessions[SliceOf(s)]

\* The abstract specification: which stream owns a registered symbol, which streams are
\* live, and what they have subscribed.
Owner == [s \in Registered |-> SliceOf(s)]
Live == {i \in Indexes : mdStatus[i] = "READY"}
SubscribedSymbols == {s \in Symbols : \E i \in Indexes : subscribed[i][s] > 0}

Service == INSTANCE SubscriptionService
    WITH Streams <- Indexes, Capacity <- SliceSize,
         owner <- Owner, live <- Live, subscribed <- SubscribedSymbols

\* However listings, clients and reconnects are mixed: a symbol stays with the stream it
\* was given to, no stream is given more than it may subscribe, and what is subscribed
\* is lost with its connection only.
ServiceSafety == Service!Safety

\* And every symbol that is registered -- by PassedOnOnce, every known symbol but those
\* an exception has cut off -- is subscribed in the end (market_data.cpp:209, 237;
\* controller.cpp:243), unless the process ends.
ServiceSpec == Service!Spec

\* A REST connection that stays up becomes READY, after any number of failures.
RestBecomesReady == restLink = "up" ~> (restStatus = "READY" \/ restLink = "down" \/ ~Running)

\* Candles that wait are requested, as long as Rest is READY.
KlinesRequested ==
    \A s \in Symbols : queued[s] > 0 ~> (s \in klineAsked \/ ~Running)
=============================================================================
