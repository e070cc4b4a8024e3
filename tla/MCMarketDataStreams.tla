------------------------ MODULE MCMarketDataStreams ------------------------
(* Instances of MarketDataStreams for TLC. *)
EXTENDS MarketDataStreams, TLC

\* The last of the symbols is filtered out when it is listed; a client may still
\* subscribe it.
CONSTANTS s1, s2, s3

ThreeSymbols == {s1, s2, s3}
LastDiscarded == {s3}
Interchangeable == Permutations({s1, s2})

\* For liveness: two symbols, each with a stream of its own, none filtered out.
TwoSymbols == {s1, s2}
NoneDiscarded == {}
=============================================================================
