--------------------------- MODULE MCAccountSync ---------------------------
(* Instances of AccountSync for TLC. *)
EXTENDS AccountSync

\* One symbol the account may trade and one it may not, all four topics.
CONSTANTS s1, s2

OneOfTwo == {s1}
BothSymbols == {s1, s2}

\* Two sessions of every connection, or of DropCopy only.
TwoSessions == [c \in Connections |-> 2]
TwoDropCopySessions == [[c \in Connections |-> 1] EXCEPT !["dc"] = 2]
=============================================================================
