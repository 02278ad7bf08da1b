----------------------------- MODULE MCKeyboard -----------------------------
(* A small instance of Keyboard for TLC. *)
EXTENDS Keyboard, TLC

CONSTANTS a, b, sim, s1, s2, k1

\* One key drives two switches, one of which the simulator drives too.
Switches == a :> s1 @@ b :> s2 @@ sim :> s1

Keys == a :> k1 @@ b :> k1 @@ sim :> NoKey
=============================================================================
