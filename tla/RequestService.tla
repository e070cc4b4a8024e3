--------------------------- MODULE RequestService ---------------------------
(***************************************************************************)
(* What a client may rely on: each request is concluded once, with at most *)
(* one answer, and only after it was made.  A request that is refused is   *)
(* concluded at once, without an answer of the stream.                     *)
(***************************************************************************)
EXTENDS Naturals

CONSTANT Requests

VARIABLES state, answers

vars == <<state, answers>>

Init ==
    /\ state = [r \in Requests |-> "idle"]
    /\ answers = [r \in Requests |-> 0]

\* Accepted to be sent, or refused.
Make(r) ==
    /\ state[r] = "idle"
    /\ \E next \in {"pending", "concluded"} : state' = [state EXCEPT ![r] = next]
    /\ UNCHANGED answers

\* A connection that is lost concludes any number of requests at once.
Conclude(C, A) ==
    /\ C # {} /\ A \subseteq C
    /\ \A r \in C : state[r] = "pending"
    /\ state' = [r \in Requests |-> IF r \in C THEN "concluded" ELSE state[r]]
    /\ answers' = [r \in Requests |-> IF r \in A THEN answers[r] + 1 ELSE answers[r]]

Next ==
    \/ \E r \in Requests : Make(r)
    \/ \E C \in SUBSET Requests : \E A \in SUBSET C : Conclude(C, A)

Spec == Init /\ [][Next]_vars
=============================================================================
