------------------------- MODULE SubscriptionService -------------------------
(***************************************************************************)
(* What MarketDataStreams promises, without slots, slices and listings.    *)
(* Each symbol that is registered is given to a stream, which keeps it for *)
(* good and is never given more than it may subscribe.  A stream that is   *)
(* live has subscribed what it was given, all of it and at once; what it   *)
(* has subscribed is only lost with its connection.                        *)
(***************************************************************************)
EXTENDS Naturals, FiniteSets

CONSTANTS Symbols, Streams, Capacity

VARIABLES
    process,     \* "running" or "ended"
    owner,       \* the stream of each symbol that is registered
    live,        \* streams with a connection
    subscribed   \* symbols subscribed by their streams

vars == <<process, owner, live, subscribed>>

Known == DOMAIN owner
Given(i) == {s \in Known : owner[s] = i}

Init == process = "running" /\ owner = [s \in {} |-> 0] /\ live = {} /\ subscribed = {}

Register(S) ==
    /\ process = "running" /\ S # {} /\ S \cap Known = {}
    /\ owner' \in [Known \cup S -> Streams]
    /\ \A s \in Known : owner'[s] = owner[s]
    /\ \A i \in Streams : Cardinality(Given(i)') <= Capacity
    /\ subscribed' = subscribed \cup {s \in S : owner'[s] \in live}
    /\ UNCHANGED <<process, live>>

Connect(i) ==
    /\ process = "running" /\ i \notin live
    /\ live' = live \cup {i}
    /\ subscribed' = subscribed \cup Given(i)
    /\ UNCHANGED <<process, owner>>

Lose(i) ==
    /\ process = "running" /\ i \in live
    /\ live' = live \ {i}
    /\ subscribed' = subscribed \ Given(i)
    /\ UNCHANGED <<process, owner>>

End == process = "running" /\ process' = "ended" /\ UNCHANGED <<owner, live, subscribed>>

Next ==
    \/ \E S \in SUBSET Symbols : Register(S)
    \/ \E i \in Streams : Connect(i) \/ Lose(i)
    \/ End

Safety == Init /\ [][Next]_vars

\* Every registered symbol is subscribed in the end.
Served == \A s \in Symbols : s \in Known ~> (s \in subscribed \/ process = "ended")

Spec == Safety /\ Served
=============================================================================
