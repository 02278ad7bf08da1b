------------------------------- MODULE Custody -------------------------------
(***************************************************************************)
(* What capture promises about the input devices: whether the daemon has   *)
(* them or other programs do.  With capture on, the daemon has every       *)
(* device that it can have, and keeps it until it lets capture go.  With   *)
(* capture off it has none.  Devices change hands in between only, one by  *)
(* one, and when some device refuses, the others are let go again.         *)
(*                                                                         *)
(* At first devices come in one by one, as they are opened, also into a    *)
(* release that is under way; none comes back after it was lost.           *)
(***************************************************************************)
CONSTANT Device

VARIABLES
  mode,   \* "start", "on", "releasing", "off" or "taking"
  there,  \* the devices that can be had: they are there, and somebody serves them
  held    \* those of them that the daemon has for itself

vars == <<mode, there, held>>

Init ==
  /\ mode = "start"
  /\ there = {}
  /\ held = {}

\* A device is opened, and had from then on.
Join(d) ==
  /\ mode \in {"start", "releasing"}
  /\ d \in Device \ there
  /\ there' = there \cup {d}
  /\ held' = held \cup {d}
  /\ UNCHANGED mode

Lose(d) ==
  /\ d \in there
  /\ there' = there \ {d}
  /\ held' = held \ {d}
  /\ UNCHANGED mode

\* Capture ends, or could not be had in full.
Release ==
  /\ mode \in {"start", "on", "taking"}
  /\ mode' = "releasing"
  /\ UNCHANGED <<there, held>>

LetGo(d) ==
  /\ mode = "releasing"
  /\ held' = held \ {d}
  /\ UNCHANGED <<mode, there>>

Released ==
  /\ mode = "releasing"
  /\ held = {}
  /\ mode' = "off"
  /\ UNCHANGED <<there, held>>

Acquire ==
  /\ mode = "off"
  /\ mode' = "taking"
  /\ UNCHANGED <<there, held>>

Take(d) ==
  /\ mode = "taking"
  /\ d \in there
  /\ held' = held \cup {d}
  /\ UNCHANGED <<mode, there>>

Acquired ==
  /\ mode = "taking"
  /\ held = there
  /\ mode' = "on"
  /\ UNCHANGED <<there, held>>

Next ==
  \/ \E d \in Device : Join(d) \/ Lose(d) \/ LetGo(d) \/ Take(d)
  \/ Release
  \/ Released
  \/ Acquire
  \/ Acquired

Spec == Init /\ [][Next]_vars
=============================================================================
