------------------------------ MODULE MCBroker ------------------------------
(* Small instances of Broker for TLC. *)
EXTENDS Broker, TLC

CONSTANTS a, b, c, s1, s2, p1

\* Two mappings drive one switch, a third drives another.
TwoSwitches == a :> s1 @@ b :> s1 @@ c :> s2

\* The mappings of one switch differ in nothing.
Symmetry == Permutations({a, b})

\* One client states its process id and the other does not; nobody does.
OneClaims == [client \in Client |-> IF client = 1 THEN {p1} ELSE {NoPid}]

NobodyClaims == [client \in Client |-> {NoPid}]

\* Two mappings drive the only switch.
OneSwitch == a :> s1 @@ b :> s1
=============================================================================
