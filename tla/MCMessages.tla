----------------------------- MODULE MCMessages -----------------------------
(* An instance of Messages for TLC: two accounts, two names of which one is *)
(* discarded, at most three items to a message.                              *)
EXTENDS Messages, TLC

CONSTANTS a1, a2, n1, n2

BothAccounts == {a1, a2}
BothNames == {n1, n2}
SecondName == {n2}

\* The accounts are alike.
Symmetry == Permutations(Accounts)
=============================================================================
