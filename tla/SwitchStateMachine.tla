------------------------- MODULE SwitchStateMachine -------------------------
(***************************************************************************)
(* crates/usahp-core/src/state.rs: physical inputs ("mappings") are folded *)
(* into logical switches; several mappings may drive one switch, which is  *)
(* pressed while at least one of them is.                                  *)
(*                                                                         *)
(* The state machine is a pure data structure owned by the broker, so this *)
(* module has operators only.  Its state is the set of the mappings that   *)
(* are pressed: the code keeps the same set split by switch                *)
(* (active_by_switch), and SwitchOf tells which part a mapping is in.      *)
(***************************************************************************)
EXTENDS FiniteSets, Integers

CONSTANTS
  Mapping,      \* the configured physical mappings
  Switch,       \* the logical switches they drive
  SwitchOf      \* mapping_to_switch

\* Every switch of the map is driven by a mapping: new() creates the entries
\* of active_by_switch from the mappings.
ASSUME MappingAssumption ==
  /\ IsFiniteSet(Mapping)
  /\ SwitchOf \in [Mapping -> Switch]
  /\ Switch = {SwitchOf[m] : m \in Mapping}

Press == "pressed"
Release == "released"
Edge == {Press, Release}

NoneActive == {}

\* The mappings that hold switch s down.
ActiveOn(active, s) == {m \in active : SwitchOf[m] = s}

\* snapshots(): the switches reported as pressed.
Held(active) == {SwitchOf[m] : m \in active}

-----------------------------------------------------------------------------
(* apply: a press of a pressed mapping, or a release of a released one, is *)
(* an error that changes nothing.                                          *)

IsValid(active, m, edge) == IF edge = Press THEN m \notin active ELSE m \in active

Applied(active, m, edge) == IF edge = Press THEN active \cup {m} ELSE active \ {m}

\* Faulty variant: every physical edge is taken for a logical one.
EmitsAlways(active, m, edge) == edge \in Edge

\* Only the first press of a switch and its last release are logical edges.
Emits(active, m, edge) ==
  LET now == ActiveOn(Applied(active, m, edge), SwitchOf[m])
  IN  IF edge = Press THEN now = {m} ELSE now = {}

\* release_all: the switches one release is returned for; the state is then
\* NoneActive.
ToRelease(active) == Held(active)
=============================================================================
