------------------------------- MODULE Routing -------------------------------
(***************************************************************************)
(* What the broker promises about who gets the switch events: at first     *)
(* everyone (legacy), then one client at a time (managed), and nobody in   *)
(* between (paused).  Legacy routing never comes back, a session is never  *)
(* handed over from one client to another without a pause, it starts with  *)
(* every switch released, and nothing is held while routing is paused.     *)
(***************************************************************************)
CONSTANTS Client, Switch, Nobody

VARIABLES
  mode,     \* "legacy", "managed" or "paused"
  holder,   \* the client that gets the events in managed routing
  held      \* the switches that are down

vars == <<mode, holder, held>>

Init ==
  /\ mode = "legacy"
  /\ holder = Nobody
  /\ held = {}

\* A switch is pressed or released.
Toggle(s) ==
  /\ mode # "paused"
  /\ held' = IF s \in held THEN held \ {s} ELSE held \cup {s}
  /\ UNCHANGED <<mode, holder>>

\* A session starts.
Grant(c) ==
  /\ mode # "managed"
  /\ mode' = "managed"
  /\ holder' = c
  /\ held' = {}

\* A session, or legacy routing, ends.
Withdraw ==
  /\ mode # "paused"
  /\ mode' = "paused"
  /\ holder' = Nobody
  /\ held' = {}

Next ==
  \/ \E s \in Switch : Toggle(s)
  \/ \E c \in Client : Grant(c)
  \/ Withdraw

Spec == Init /\ [][Next]_vars
=============================================================================
