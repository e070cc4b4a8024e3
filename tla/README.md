# A TLA+ model of roq-bybit

roq-bybit is a gateway between the Roq trading platform and the Bybit exchange (API v5).
This directory holds TLA+ modules that model the gateway's own logic, configurations that
check them with TLC, and proofs of their central properties for TLAPS.  Paths below are
relative to `src/roq/bybit/` of the repository.

## The system

The gateway is one process and one thread: `io::Context` runs an event loop, and every handler
(`operator()(Trace<...> const &)`) runs to its end before the next one starts.  The difficulty
is not in data races but in the order in which handlers of different objects run, because
they share an account's request queue, the list of symbols, the rate limits and scratch vectors.

| component | state it keeps | operations | talks to |
|---|---|---|---|
| `gateway/controller` | the streams, one REST stream per process, three streams per account, a growing list of market data streams | routes start, stop, timer, subscriptions, order requests; passes on `SymbolsUpdate` and `Response` | everything |
| `gateway/rest` | connection status, instruments download, queue of kline requests | downloads the instruments on every connect, asks for klines | Controller (`SymbolsUpdate`), Shared |
| `gateway/market_data` | connection status, subscriptions of one slice of symbols, ping time | subscribes its slice, decodes books, trades, tickers | Shared, dispatcher |
| `gateway/drop_copy` | connection status, login timeout, known symbols | logs on, subscribes private topics, queues snapshot requests, decodes private updates | Account queue, dispatcher |
| `gateway/order_entry_rest` | connection status, account download, lookback flag | account download; takes snapshot requests off the queue; create, modify, cancel, cancel-all | Account queue, dispatcher, Controller (`Response`) |
| `gateway/order_entry_ws` | connection status, login timeout | logs on; create, modify, cancel | Account queue (clears it), dispatcher |
| `gateway/account` | rate limiter, request queue | | |
| `gateway/shared` | throttle, rate limiter, kline queue, symbols, scratch vectors | discard of symbols | |
| `tools/throttle` | suspend time, last header values | reads rate-limit headers and HTTP status of every REST answer | every REST connection |
| `protocol/json` | none | parser, encoder, tables of words and error codes | |

What is hard to get right, and hard to test, is listed with its line in `PROJECT.json` under
`hazards`.  What makes the components correct:

* DropCopy, Account, OrderEntryREST, OrderEntryWS: once a private topic is subscribed, the state
  it reports is downloaded for every symbol, after the subscription and not twice; nothing of a
  lost session leaks into the next; status READY is truthful; downloads resume after failures.
* Controller, Rest, MarketData: no symbol is passed on twice, and every one is passed on unless an exception
  cut its listing short; a registered symbol lands in exactly one market data stream, and is subscribed once
  per session of that stream.
* Order entry: every request that was sent is concluded, over REST by exactly one response with its
  own version, and no response claims what the exchange has not done.  The order at the exchange has
  the terms the client asked for, and the client is shown the order as it is.
* DropCopy and OrderEntryREST, Rest and MarketData: what snapshots and streams tell, together and in
  whatever order they overtake each other, leaves no gap.
* Throttle: the gateway keeps quiet as long as the exchange told it to.

## The modules

| module | models | composed with |
|---|---|---|
| `AccountSync` | one account: `DropCopy`, `Account::request_queue`, the account part of `OrderEntryREST`, the session of `OrderEntryWS` | implements `SnapshotService` |
| `AccountView` | what the client sees of a position, an order, the fills: updates of `DropCopy` and snapshots of `OrderEntryREST` | takes the steps of `SnapshotService`, for which `AccountSync` stands |
| `MarketDataStreams` | `Controller` (symbols, streams), `Rest`, the sessions and subscriptions of `MarketData`, the symbol sets of `Shared` | implements `SubscriptionService` |
| `TimeSeries` | the candles of a symbol: updates of `MarketData` and the history of `Rest` | |
| `OrderRequests` | create, modify, cancel and cancel-all through `Controller`, `OrderEntryREST` or `OrderEntryWS` | implements `RequestService` |
| `OrderTerms` | one order in the words of the client and of the exchange: `Encoder`, `map.cpp`, `map_error`, the contents of responses and order updates | |
| `Messages` | `Parser`, `Parser2`, the conversion of messages and snapshots into updates, the scratch vectors of `Shared` | |
| `Throttle` | `tools::Throttle` | |
| `SnapshotService`, `SubscriptionService`, `RequestService` | nothing: abstract specifications, what a user of the three components may rely on | |
| `AccountSyncProofs`, `AccountViewProofs`, `MarketDataStreamsProofs`, `MessagesProofs`, `OrderRequestsProofs`, `OrderTermsProofs`, `ThrottleProofs`, `TimeSeriesProofs` | theorems | extend the module they are named after |
| `MC*` | instances for TLC: model values, small sets, symmetry | extend the module they are named after |

A module has one action per handler and keeps the handler's name (`DcSubscribe` is
`DropCopy::operator()(Trace<Subscribe>)`, `GetExecutionsAck` is
`OrderEntryREST::get_executions_ack`, and so on); `PROJECT.json` maps every definition to its
lines.  Every handler is atomic, because one thread runs them.  A call of `log::fatal` sets
`process` to `"ended"`, after which nothing happens.  Variables that the code does not have are
history (what was asked when, how many answers a request had) or counters that bound a run; they
are declared under such a heading and no guard other than a bound reads them.

Mutants -- definitions with a plausible bug -- stand next to the definitions they replace; each
property is shown to fail for one of them, so that no property holds whatever the code does.

### AccountSync

State.  `queued` is the account's request queue as a bag: the queue sends in an order of its own,
and no handler looks at the order.  `dcLink`, `restLink` and `wsLink` are the connections
(`"connected"`: TCP and TLS, `"ready"`: websocket handshake done, `"closing"`: `close()` was called),
`dcStatus` and so on the `ConnectionStatus` that is published.  `restState` is the state of
`core::Download2`, `outstanding` the account requests that wait for an answer: a reconnect and a retry that was
pending before it may leave two.  `acked`, `fresh`, `early`, `cleared` and `tradesAsked` are history.

Actions.  `Dc...` are the handlers of `DropCopy`, `Ws...` those of `OrderEntryWS`, the others those
of `OrderEntryREST`.  `RestTimer(D)` takes an arbitrary non-empty set of requests off the queue:
the rate limiter decides how many, and a property must hold whatever it decides.

Promise.  `SnapshotService`: snapshots become due (a topic is acknowledged, or a symbol is listed
while one is), each is requested after that, and none is withdrawn before the DropCopy session
ends.  The mapping is `due <- Promised`, `requested <- fresh`.

### AccountView

State.  The exchange keeps a `log` of events, and contents are positions in it.  `wire` is what
the private websocket has not delivered yet, `pipeline` what was asked over REST: the exchange
answers in order, with its state of the moment, and the answer arrives when it arrives.
`published` and `shown` are the versions the client was told, ever and last.  Topics have nothing in
common but the queue, so one is watched at a time, any of them.

Actions.  The handlers of `DropCopy` and `OrderEntryREST` that ask for contents or publish them.
When a snapshot is asked for is left to `SnapshotService`, whose steps they take -- any request that
is due, in any order -- because `AccountSync` has been shown to implement it; a new symbol's snapshot
may be asked for before the acknowledgement, as there.  Executions reach back to `StartTime`, one
page of them; orders are those that are open.

### MarketDataStreams

State.  `place` and `total` are `core::Symbols`: the slot of each symbol, in order of
registration; slice i has `SliceSize` slots and belongs to the i-th stream.  `market_data_` is the
number of streams, `subscribed` how often each has asked for a symbol in its present session,
`queued` and `inflight` the candle requests of `Rest`.  `interrupted` is history: the symbols that were new to
a listing whose handler has thrown.

Actions.  `Subscribe` (clients) and `GetInstrumentsInfoAck` (the listing) both end in
`SymbolsUpdate`, which registers, creates streams, lets those that are ready subscribe what was
added, and hands the symbols to every DropCopy -- one step, as in the code.  The dispatcher may cut it short
(`InstrumentsInfoInterrupted`): a throw in the loop over the listing leaves symbols known but not registered
(`gateway/rest.cpp:314`, `:327`), one in `SymbolsUpdate` (`:333`) leaves them registered, with only the first of
them told to DropCopy; `Rest` catches it and downloads again, and takes none of them for new.  `MdReady`
subscribes the whole slice.  The order in which a `SymbolsUpdate` lists its symbols is arbitrary.

Promise.  `SubscriptionService`: a registered symbol is given to one stream for good, no stream is given more
than it may subscribe, and a live stream has subscribed all it was given; every registered symbol is
subscribed in the end.  Of symbols that are known and not registered it promises nothing.  The mapping is
`owner <- Owner` (the symbol's slice), `live <- Live` (streams that are READY), `subscribed <-
SubscribedSymbols`; slots, listings and downloads are not in it.

### TimeSeries

State.  Time is counted in candles, and a candle is the number of trades it has seen.  `wire` and
`pipeline` are as in `AccountView`.  `shown` is what the client was told last of each candle.

Actions.  `Ready` sends the subscription and queues the history; `Kline` passes on what is confirmed,
and with `realtime` what is not; `KlineAck` publishes every candle of an answer as confirmed, as the
code does.

### OrderRequests

State.  `<<o, v>>` is request v of order o; `stage` is how far it has come (refused, sent, executed
or rejected by the exchange, answered, silent, lost), `responses` and `status` what the OMS was told
about it, `target` the id by which it names its order.  The exchange's side is `executed` and
`open`.  A cancel-all is one request per symbol; its acknowledgements are counted.

Actions.  `Issue` is `Controller::get_order_entry` with the handler of the stream it selects, from
the check of `ready()` to the request that is sent.  `OrderAck` is the callback of the REST client
for any outcome `process_response` distinguishes; `OrderAck2` is the answer over the websocket,
where an execution is passed over in silence, for DropCopy reports it.

Promise.  `RequestService`: a request is concluded once, with one answer or none, never before it is
made; refinement maps `stage` to idle, pending, concluded.

### OrderTerms

State.  `asked` is the `CreateOrder`, `order` the exchange's, in its own words, and `shown` what the
client was told of it, in those of the API.  `sent`, `acks` and `updates` are on their way, each in
order: requests and answers on one connection, changes of the order on the private websocket.
`agreed`, `shownAt` and `overtaken` are history: the terms with what executed requests were meant to
change, the newest change published, and whether what was published last is older.

Actions.  A request is written by the `Encoder` in the words of the tables; the exchange refuses or
executes it, or changes the order on its own; `PlaceOrderAck` and so on are the answers over REST,
`PlaceOrder2` and so on those over the websocket, `DropCopyOrder` the update.  Only REST publishes the
result of an answer.  Connections stay up here: `OrderRequests` has what fails on them.

`Codes` lists, for each reason to reject a request, the codes of the exchange that give it, by the comments of
the table in `map_error`; those without an error of their own, which become UNKNOWN, are among them.  The
exchange uses those in `ReturnCodes`.

### Messages

State.  `fills` is `Shared::fills`, the scratch vector of all accounts.  `last` and `updates` are what
the last message contained, found and published; `kinds` the kinds of market data it led to.  Within an
action, `Work` is what the handler's local variables hold (the name, the items collected, whether the
dispatcher has thrown), and `Loop` its loop over the items of the message, which does `OneItem` for each.

Actions.  A text message goes through the parser of its stream to a handler; the snapshots of
`OrderEntryREST` go straight to theirs.  The dispatcher may throw at any update, of
which there is at most one for each item and one for what was left.  `parse` then ends the process; `process_response` survives, and leaves in `fills` what was not dispatched.

### Throttle

State.  `now` counts ticks; `suspend_until`, `limit_status` and `limit_reset_timestamp` are the
code's.  `Offset` is what the realtime clock is ahead of the system clock, and stays as it is.
Headers and ends of responses come one at a time and in any order: all REST clients share the
object, and nothing in it is kept per response.

## The runs

| run | asks | instance | why it is enough |
|---|---|---|---|
| `account` | `Coverage`, `QueueOnlyInSession`, `NoRedundantDownloads`, `NothingDropped` | all topics, one symbol that may be traded and one that may not, two sessions of `DropCopy`, one of REST and one of `OrderEntryWS`, which may be lost | a symbol before and one after an acknowledgement; a session after a session; the two websockets overlap in every way |
| `account_live` | `AssertionsHold`, `RestReadyIffDownloaded`, `RestBecomesReady`, `ServiceSpec` | spot, the same symbols, two sessions each | REST is lost during and after its download; two account requests are outstanding at once |
| `account_view` | `FillsComplete`, `NotOlderThanSubscription`, `NewestPublished` | three events, three ticks, two sessions, two requests in flight, a page of two | an event before, between and after subscription and snapshot; a page that is too small; a restart lookback that is longer |
| `market` | `SubscribedOnce`, `PassedOnOnce`, `ListingProcessedOnce`, `KlineCoverage`, `KlineQueueBounded` | three symbols, one of them discarded if the exchange lists it, in slices of two; two sessions | a slice that is filled, one that is started and spilled into the next; a listing of two cut short at, between and after its symbols |
| `market_live` | `ServiceSpec`, `RestBecomesReady`, `KlinesRequested` | two symbols in slices of one; two sessions | two streams; exceptions before the listing that is handled to its end |
| `time_series` | `CandlesFinal` | four candles, two sessions, a lookback and page of two | a candle that ends before, between and after the subscription and the history |
| `orders_rest` | `TruthfulResponses`, `RequestsConcluded`, `ServiceSpec` | two orders, two requests each | two versions of one order at once, and another order beside them |
| `orders_ws` | `Accounted`, `CancelAllAccounted` | the same over the websocket, spot, three requests and a cancel-all for one symbol or both | requests before the login and lost connections; acknowledgements in either order and cut in two |
| `orders_target` | `TargetsOwnOrder` (violated) | one order, three requests | the third is the first that goes wrong |
| `order_terms` | `AgreedTerms`, `ShownAsItIs`, `NoWrongReason`, `OverIsOver` | one order, three requests; each time in force, type and side with and without instructions; quantities to three; for each reason one code for each error its codes are mapped to | two amendments of which one leaves out what the other changes; a fill or the end of the order between any two of them |
| `messages` | `UnderTheirOwnName`, `EveryItemOnce`, `OneSourceEach`, `ExpectedIsHandled` | two accounts, two names, three fills to a message | the pattern a, b, a; what is left by one account is found by the other |
| `throttle` | `ExhaustedSuspends`, `ForbiddenBlocks` | eight ticks, backoffs of two and four | every order of clock, reset and the end of a backoff |

`TypeOK` is an invariant of one run of `AccountSync`, `MarketDataStreams`, `OrderRequests`, `Messages` and
`Throttle`; the three modules about contents say more of their variables than their types.

Every bound is a constant: `MaxSessions`, `MaxRestSessions` (after the last session a connection stays
up, so that liveness is about a connection that holds; `OrderEntryWS`, on which nothing of the kind
depends, may be lost), `MaxVersion`, `MaxRequests`, `MaxItems`, `MaxTime`,
`MaxEvents`, `MaxTrades`, `MaxInFlight`.
Deadlock is not checked: all of these systems may come to rest, when the process has ended, the
bounds are reached, or nobody asks for anything.  What must not come to rest is stated as liveness.

### Fairness

* The timer (`RestTimer`) is weakly fair: `io::Context` calls it for ever, and the rate limiter fills
  up again; the model lets it take as little as one request each time.
* A websocket or REST client reconnects by itself (weakly fair `RestConnected`, `MdReady`);
  `core::Download2` repeats a download it was asked to retry (weakly fair `RestRetry`).
* The exchange does not refuse the account or instruments download for ever (strongly fair success):
  the code repeats it as often as it fails, so nothing else could end it.  An instruments listing is in the
  end handled without an exception.
* A request that was sent is handled and answered, or its connection or its timeout ends it
  (`orders_rest`).
* Nothing is assumed of the login: `DropCopy` sets `logon_timeout_` and never looks at it, so a login
  without an answer waits for ever (a hazard on the list, and the reason why no property says
  that a private stream becomes READY).

## Findings

* `orders_target`: while the order's external id is unknown, a request names it by
  `previous_request_id` (`protocol/json/encoder.cpp:93`, where a comment says that this is not
  correct), which from the third request on is no id of the order.

Met while modelling, without a document that says otherwise, and therefore no findings:

* `download_trades_is_first_` is one flag per account, cleared by the first answer for any symbol
  (`gateway/order_entry_rest.cpp:696`): a symbol whose first executions download is sent later -- the rate
  limiter spaces them -- does not get `trades_lookback_on_restart`;
* symbols that were new to an instruments listing whose handler has thrown (`gateway/rest.cpp:314`, caught at
  `:461`) are not registered, subscribed or handed to DropCopy by the retry, because they are known by then, and
  a client's subscription of them is only logged; `PassedOnOnce` excepts exactly these;
* `OrderEntryWS` clears the account's queue when it is disconnected (`gateway/order_entry_ws.cpp:235`), and with
  it the snapshots DropCopy waits for; nothing queues them again before its next session.  `NothingDropped`
  allows exactly this, and `Coverage` excepts it;
* a 5xx is reported as REJECTED, which is documented for 503 (CHANGELOG, 1.0.9, #522), although the exchange
  may have executed the request; so is the ret_code 12007, "request status unknown" (`protocol/json/utils.cpp:100`);
* codes whose comments give a reason that has an error become UNKNOWN: 12140 (`protocol/json/utils.cpp:161`),
  12190 (`:194`), 12213 (`:237`), 12218 (`:241`).  `NoWrongReason` allows UNKNOWN for any reason, and no other
  wrong error;
* a 403's suspension of ten minutes is lifted by the next header with a limit left, even of a response
  that was under way (`tools/throttle.cpp:82`; `ForbiddenBlocks` allows exactly this); a 429 is ignored while
  a suspension that has expired is on record (`:130`);
* a cancel-all is reported as ACCEPTED whatever its `ret_code`
  (`gateway/order_entry_rest.cpp:1240`), and one for a symbol without orders is not acknowledged at all;
* fills left by an exception go out with the next executions, without a name and possibly under
  another account (`UnderTheirOwnName` allows exactly this);
* with `settings.ws.mbp_depth` = 1 on the spot API, every book is a top of book; on the other APIs the
  tickers then have a rival (`OneSourceEach` excludes it);
* a stale snapshot may replace a newer position until the next update
  (`gateway/order_entry_rest.cpp:493`); `NotOlderThanSubscription` says how far back that can go, and
  `NewestPublished` that a client who goes by the exchange's times has the newest.  An order that was
  closed while the private stream was down is in neither source (`:544`, `openOnly=0`);
* the minute added "to make sure we don't miss anything" shortens the lookback by a minute (`:654`);
* the last candle of a history is published as confirmed while it is in progress
  (`gateway/rest.cpp:398`), and nobody corrects it if the stream's confirmation came first; a candle that
  ends between the history and the subscription, which is sent first, is in neither
  (`gateway/market_data.cpp:609`).  `CandlesFinal` names both;
* an answer over REST may put an order that is over back to work in the client's view, until the next
  update, which an order that is over does not have (`gateway/order_entry_rest.cpp:965`, "a little
  weird"); `ShownAsItIs` and `OverIsOver` except exactly that, and hold without exception over the
  websocket;
* a time in force without a word at the exchange is sent as none, and PARTICIPATE_DO_NOT_INITIATE is
  passed over unless the order is GTC (`protocol/json/encoder.cpp:30`, `map.cpp:400`);
* 110001 is told as too late, even if the order is open and was named by the wrong id
  (`protocol/json/utils.cpp:38`);
* the subscription of candles goes by `download.time_series_lookback`, their history and the check at start
  by `time_series.lookback` (`gateway/market_data.cpp:573`, `gateway/rest.cpp:345`);
* a message with a topic nobody knows and type snapshot or delta ends the process, even with
  `allow_unknown_event_types`.

## What is proved

Every safety property that a passing run checks, invariant or action property, is a theorem.  The theorems
hold for every value of the constants that the named assumptions allow: any sets of symbols, orders and
accounts, any number of sessions, versions, events, candles and items in a message, any lookbacks, limits
and backoffs.

The assumptions are those of the modules: flags are Booleans, times, backoffs, lookbacks and bounds
are natural numbers (`FlagsAssumption`, `TimeAssumption`, `BoundsAssumption` and so on), and

* `SymbolsAssumption`, `OrdersAssumption`: symbols are finite in number where they are counted, tradable
  ones are symbols, an order has one;
* `SliceSizeAssumption`, `LimitAssumption`, `LookbackAssumption`: a slice has a slot, a page has an item, and
  a lookback of candles is within the limit, without which the Controller does not start
  (`gateway/controller.cpp:112`);
* `RequestsAssumption`: a client asks for a quantity above zero, and a price or none.

**AccountSync.**  `TypeCorrect` is inductive by itself.  `Coverage` is not: that a request which is
promised is queued depends on what a session can look like and on what may be in the queue.
`IndInv` adds two invariants to the properties: `SessionInv` (topics are awaited and acknowledged only
on a live connection, after the login, once, and only if they were asked for) and `QueueInv` (what
waits is for known symbols and subscribed topics, once, and before the acknowledgement only if
listed early).  Each conjunct has its own lemma with one step per action.  `NothingDropped` is an
action property proved from `TypeOK`; `Implements` shows that every step is a step of
`SnapshotService` or stutters, and `ImplementsForAnyPart` that this is so of any part of the requests taken by
itself (the constant `Part` of the proofs), such as those of one symbol.  How far the lookback of a restart
reaches is a theorem: an answer comes only to what was asked (`LookbackInv`), so that the first executions
request of all has it (`FirstReachesBack`), and with a single symbol so has each that is the symbol's first
(`OneSymbolReachesBack`).  With more it is not so.

**AccountView.**  None of the three properties is inductive.  `SessionInv` says when a session has
subscribed and what it waits for; `WireInv` that what was told since the subscription is published or
on the wire, and nothing else is on it; `PipelineInv` that what is in flight was asked with a
lookback that is long enough, the session's own behind that of earlier ones, and the answers to it not
older than the subscription; `ViewInv` what the answers that have arrived have restored.  Versions are greatest elements of sets of positions; that there is one follows
from the well-foundedness of the numbers (`HasMaximum`).  `TakesServiceSteps` closes the gap to `AccountSync`: the view
asks for snapshots only as `SnapshotService` allows, which `AccountSync` implements for any part of its requests.

**MarketDataStreams.**  `PlaceInv` (every registered symbol has a slot of its own, up to the total) carries the
others: that a slice has no more symbols than slots is an injection into an interval (`SliceBounded`), and
that no slot is beyond the last stream is arithmetic.  `SubscribedInv` gives the number of subscriptions
of each symbol exactly, `KlineInv` keeps the queue within the sessions of the symbol's stream, and `RestInv`
counts a retry as an instruments request to come, without which "two at most" is not inductive.
`Implements` shows that a `SymbolsUpdate` is a step in which symbols are registered, that a stream which comes or
goes connects or is lost, and that all else stutters.  For that, a slice must be that of a stream there
can be: `PlaceInv` also says that there are as many slots as registered symbols.
`PassedOnOnce` is about known symbols, and is kept by an exception because what was new then is interrupted,
and by the retry because it takes nothing known for new.

**TimeSeries.**  An update on the wire has the confirmation of its candle behind it, unless the candle is in
progress (`WireInv`).  Answers arrive in the order they were given, so that the one which spoils its last
candle comes before those that reach further (`PipelineInv`, `StreamInv`).  What the session's last history
left open is on the wire, in the gap, or overtaken (`CandleInv`).

**OrderRequests.**  `RequestInv` says all of a request that any step depends on: its stage, its version,
its responses, its status and whether the exchange has carried it out belong together.  `EachRequestInv`
says it of all requests.  Actions are grouped by what they do to requests (issue, execute, leave
unanswered, answer), one lemma for each group; `Accounted`, `TruthfulResponses` and `KnownOrdersExist` follow.
`CancelAllAccounted` is inductive with `TypeOK`: an acknowledgement, or a lost
connection that fails many requests at once, adds as many responses as it adds to the finite set of those
answered.  `Implements` maps stages to the three states of `RequestService`: lemmas `MakeStep` and `ConcludeStep` give
the step for a set of requests, so that a lost connection, which concludes many, is one case.
`TargetsOwnOrder` does not hold; `StrayInv` says what does.  A request that names its order by an id that is not
its own is the third or a later one, and is never executed or reported as accepted
(`StraysAreNeverExecuted`); with two requests to an order there is none (`TwoRequestsTargetTheirOrder`).

**OrderTerms.**  `AgreedTerms` is not inductive: what a request is meant to change is known when the
`Encoder` writes it, and needed when the exchange executes it, with any number of requests in between.
`AgreedInv` adds what every request on its way says (its terms are those of the creation, or of the
modification it was made of) and that the creation is first and comes once.  `WordsReturn` and
`TimeInForceAsMeant` are the tables' part: a word the exchange understands is read back as it was meant.
`EveryRejectionHasAnError` is about the response to any code whatever: `map_error` has a default.

`ShownAsItIs` and `OverIsOver` are an argument about versions.  Whatever is on its way, over
either connection, is a version the order has had, and one that is not the present version was open
(`ItemsInv`).  The updates are all versions from some point on (`UpdatesInv`), so that the newest is
published once they are delivered, and what is shown is the newest published unless it was overtaken
(`ViewInv`).  `NoWrongReason` needs that an answer's code matches its reason from the exchange to the client,
and the tables of `map_error`, reason by reason (`ErrorsOfReasons`), for any set of codes in use.

**Messages.**  What is published of a message is computed by loops, in the code and in the model (`Loop`; `FlattenSeq`
for what was published in all).  The library's induction theorems cannot be used, because they take an
operator; but `Induction` says the same of sets (a set of numbers with 0, and with each number the next up
to n, has all up to n), and follows from the numbers being well-founded.  It gives first that the two
recursive definitions mean what they say (`LoopSteps`, `FlattenSteps`: the function they choose exists), and
then the loop invariants: `Collected` for executions and trades (what was published and what is
collected are, in this order, what was left before and the items so far; what is collected has one
name, or is what was left), `Separate` for wallets, positions and orders (each item so far that is not
discarded is an update).  An item keeps them whether the dispatcher throws or not (`ItemCollected`,
`ItemPublished`).  `UnderTheirOwnName` and `EveryItemOnce` follow at the end of the loop
(`ConversionAccomplishes`).  `ExpectedIsHandled` is a case for each form of message
(`ExpectedFindsHandler`), `OneSourceEach` one for each kind of update and API (`OneSource`).

**Throttle.**  `ExhaustedSuspends` and `ForbiddenBlocks` are inductive with `TypeOK`, and say that a suspension is
long enough.  `SuspensionsDoNotAddUp` says that it is not too long: it ends no later than the longer backoff
from now, or than a reset the exchange has named.

Model-checked only: all liveness (`RestBecomesReady`, `ServiceSpec` of AccountSync and of MarketDataStreams as
far as it is liveness, `RequestsConcluded`, `KlinesRequested`), which the prover does not reach.

## What is assumed of code outside the repository

* `core::Download2`: `begin` and `bump` request the current state, `retry` requests it again after a
  while, and means nothing once the download is done.
* `web::rest::Client` fails outstanding requests when the connection is lost; a websocket forgets.
* `core::limit::Queue` loses nothing, and gives out what the rate limiter allows, in an order that is left open.
* `core::Symbols` gives each new symbol the next slot, and returns from `get_slice(index, start_from)` the
  symbols of the slice from that slot on.
* The OMS numbers the requests of an order and stops when its creation has failed.
* The exchange: a 4xx means that the request was not executed, a 5xx, a timeout or a lost connection says
  nothing; an order has the id of its creation and the one the exchange gives.  A request that is lost
  and executed later is the same as one executed before.  The forms of its messages are those in the tests.
* The exchange answers a snapshot with its state of that moment, executions and candles the newest first and
  up to the limit, and delivers the updates of a topic in order and behind its acknowledgement.
* The exchange takes an order without a time in force for GTC and a market order for IOC, and refuses one
  without a side, a type or the price of a limit order.  The answer to an amend or cancel request
  has the order as it is at that moment, or nothing.
* The OMS keeps what an order update does not tell (UNDEFINED, NaN), and sends no requests for an order
  that is shown as over.
* A ret_code other than 0, like a 4xx, means that the request was not executed; the comment on 12007
  (`protocol/json/utils.cpp:100`) leaves room for doubt.
* `server::Dispatcher` may throw, and has then not taken what it was given.  The response an error handler
  sends after a throw at `gateway/order_entry_rest.cpp:898`, `:1024`, `:1147` or `:1243` is then the only one; if
  the OMS had taken the first, it would be a second.  An exception that nothing in the repository catches ends
  the process.
* Of the status that a `NetworkError` or a `server::oms::Exception` carries nothing is said: the model's ERROR
  stands for any.
* Decimals are numbers.  The `Encoder` writes a quantity or price with the precision of the reference data
  (`protocol/json/encoder.cpp:46`, `:50`, `:77`, `:80`), which is taken to be that of what the client asked for.

## Not modelled

Values, where no property is about them: fees, times other than those above, decimals, the text of
requests and their signatures; the tables of `protocol/json/map.cpp` for reference data (trading status,
security type) and for the kind of an update.  Reference data and statistics.  Pings and latencies.
Start-up: settings, flags, configuration, the three applications.  The order books themselves, and what a
BadState of theirs means (the line that would subscribe again is commented out; a hazard on the list).
Conditional orders, which the gateway does not place.  The list of components in `PROJECT.json` gives the
state of each.

## Plan

Done: the core (`AccountSync`, `MarketDataStreams` and `OrderRequests` with their abstract specifications,
`Messages`, `Throttle`), the contents on both sides of it (`AccountView`, `TimeSeries`, `OrderTerms`), and the
proofs of all safety properties.  What would come next: books and tops of book.  A
snapshot replaces, an increment changes, and a side that has become empty has no price to say so
(`gateway/market_data.cpp:282`); what the book does with either is outside the repository.
