--------------------------- MODULE SnapshotService ---------------------------
(***************************************************************************)
(* What AccountSync promises, without queue, connections or log-on.  In a  *)
(* session of the private stream a set of snapshots becomes due, each is   *)
(* requested after it has become due, and none is withdrawn before the     *)
(* session as a whole is forgotten.                                        *)
(***************************************************************************)
CONSTANT Requests

VARIABLES
    process,    \* "running" or "ended"
    due,        \* snapshots the session owes
    requested   \* those already requested since they became due

vars == <<process, due, requested>>

Init == process = "running" /\ due = {} /\ requested = {}

BecomeDue(R) ==
    /\ process = "running" /\ R # {}
    /\ due' = due \cup R
    /\ UNCHANGED <<process, requested>>

Request(R) ==
    /\ process = "running" /\ R # {} /\ R \subseteq due
    /\ requested' = requested \cup R
    /\ UNCHANGED <<process, due>>

Forget ==
    /\ process = "running"
    /\ due' = {} /\ requested' = {}
    /\ UNCHANGED process

End == process = "running" /\ process' = "ended" /\ UNCHANGED <<due, requested>>

Next ==
    \/ \E R \in SUBSET Requests : BecomeDue(R) \/ Request(R)
    \/ Forget
    \/ End

Safety == Init /\ [][Next]_vars

\* Whatever is due is requested, unless the session or the process ends first.
Served ==
    \A r \in Requests : r \in due ~> (r \in requested \/ r \notin due \/ process = "ended")

Spec == Safety /\ Served
=============================================================================
