--------------------------- MODULE MCAccountView ---------------------------
(* An instance of AccountView for TLC. *)
EXTENDS AccountView
=============================================================================
