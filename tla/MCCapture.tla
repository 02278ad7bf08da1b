----------------------------- MODULE MCCapture -----------------------------
(* Small instances of Capture for TLC. *)
EXTENDS Capture, TLC

CONSTANTS d1, d2

\* The devices differ in nothing.
Symmetry == Permutations(Device)
=============================================================================
