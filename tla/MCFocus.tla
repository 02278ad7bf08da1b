------------------------------- MODULE MCFocus -------------------------------
(* A small instance of Focus for TLC. *)
EXTENDS Focus

CONSTANTS p1, p2
=============================================================================
