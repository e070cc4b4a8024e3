-------------------------- MODULE MCOrderRequests --------------------------
(* Instances of OrderRequests for TLC. *)
EXTENDS OrderRequests

CONSTANTS o1, o2, c1, x, y

OneOrder == {o1}
TwoOrders == {o1, o2}
NoCancelAlls == {}
OneCancelAll == {c1}
BothSymbols == {x, y}

\* The orders are for different symbols.
Symbol == [o \in Orders |-> IF o = o1 THEN x ELSE y]
=============================================================================
