------------------------------ MODULE MCTaint ------------------------------
(* Small instances of Taint for TLC. *)
EXTENDS Taint

\* The number of instructions so far only bounds the search.
View == <<shadow, flags_tainted, owed, flags_owed, followed>>
=============================================================================
