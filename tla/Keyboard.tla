------------------------------ MODULE Keyboard ------------------------------
(***************************************************************************)
(* What the operating system, the keyboard hook and the broker believe of  *)
(* a key while capture comes and goes.  The hook is a callback that runs   *)
(* once for each edge of a mapped key (input.rs, spawn_keyboard; on macOS  *)
(* macos_keyboard.rs, spawn); simulator.rs feeds the same channel.         *)
(*                                                                         *)
(* The callback looks at the flag once: the edge goes to the OS, or it is  *)
(* suppressed and becomes one Input command for each mapping of the key.   *)
(* The commands wait in the broker's channel, and when one is taken the    *)
(* routing it was meant for may be over.  An era is the time between two   *)
(* changes of the flag, or between the start and the first session.        *)
(*                                                                         *)
(* Clients and queues are those of module Broker, evdev threads those of   *)
(* Capture: with keyboards only, resume cannot fail.  The other commands   *)
(* of the channel are taken at any time between two Inputs, which is where *)
(* their senders may have put them.                                        *)
(***************************************************************************)
EXTENDS SwitchStateMachine, Sequences

CONSTANTS
  Key, NoKey,
  KeyOf,            \* by_key: the key of a mapping; simulated ones have NoKey
  ChannelCapacity,  \* capacity of the broker's command channel (1024)
  MaxEdges,         \* bound: edges made by the user and by the simulator
  MaxHandshakes     \* bound: handshakes handled while there is no session

ASSUME KeyAssumption ==
  /\ NoKey \notin Key
  /\ KeyOf \in [Mapping -> Key \cup {NoKey}]
  /\ Key \subseteq {KeyOf[m] : m \in Mapping}
  /\ ChannelCapacity \in Nat \ {0}
  /\ MaxEdges \in Nat
  /\ MaxHandshakes \in Nat

VARIABLES
  \* The keyboard.
  down,         \* the keys that are down
  os,           \* the keys that the OS takes to be down
  since,        \* the era in which each went down last
  edges,        \* how many edges were made
  \* The hook and the channel.
  hook,         \* the edge in hand, and the mappings it is yet to be sent for
  channel,      \* Input commands, in the order they were sent
  \* The broker.
  stage,        \* "accepting" between resuming capture and creating a session
  active,       \* state: the mappings that are pressed
  tracker,      \* escape_tracker: the switches with a running clock
  session,      \* whether there is a managed session
  paused,
  enabled,      \* the flag of CaptureControl
  era,
  handshakes    \* how many were handled

keyVars == <<down, os, since, edges>>
brokerVars == <<stage, active, tracker, session, paused, enabled, era, handshakes>>
vars == <<keyVars, hook, channel, brokerVars>>

Idle == [edge |-> Release, left |-> {}]

Mapped(k) == {m \in Mapping : KeyOf[m] = k}

Simulated == Mapped(NoKey)

\* Faulty variant: off by one.
HasRoomForLast == Len(channel) <= ChannelCapacity

HasRoom == Len(channel) < ChannelCapacity

-----------------------------------------------------------------------------
(* The hook and the simulator *)

\* An edge that can happen: a key that is held repeats its press.
Possible(k, edge) == edge = Press \/ k \in down

\* Faulty variant: the flag is looked at for presses only.
PassesPresses(edge) == ~enabled /\ edge = Press

\* Capture is released: the edge goes to the OS untouched.
Passes(edge) == ~enabled

\* Faulty variant: a key drives the first of its mappings only.
FirstOf(k) == {CHOOSE m \in Mapped(k) : TRUE}

\* The mappings an edge of k is sent for.
Targets(k) == Mapped(k)

\* An edge reaches the callback, which handles one at a time.
Deliver(k, edge) ==
  /\ hook = Idle
  /\ edges < MaxEdges
  /\ Possible(k, edge)
  /\ edges' = edges + 1
  /\ down' = Applied(down, k, edge)
  /\ since' = IF k \in down THEN since ELSE [since EXCEPT ![k] = era]
  /\ IF Passes(edge)
       THEN os' = Applied(os, k, edge) /\ UNCHANGED hook
       ELSE hook' = [edge |-> edge, left |-> Targets(k)] /\ UNCHANGED os
  /\ UNCHANGED <<channel, brokerVars>>

\* blocking_send: one command for each mapping, when there is room for it.
SendNext ==
  /\ HasRoom
  /\ \E m \in hook.left :
       /\ channel' = Append(channel, [mapping |-> m, edge |-> hook.edge])
       /\ hook' = IF hook.left = {m} THEN Idle ELSE [hook EXCEPT !.left = @ \ {m}]
  /\ UNCHANGED <<keyVars, brokerVars>>

\* The simulator reads a command for a switch, whether or not capture is enabled.
Simulate(m, edge) ==
  /\ edges < MaxEdges
  /\ HasRoom
  /\ edges' = edges + 1
  /\ channel' = Append(channel, [mapping |-> m, edge |-> edge])
  /\ UNCHANGED <<down, os, since, hook, brokerVars>>

-----------------------------------------------------------------------------
(* The broker *)

Listening == ~paused /\ enabled

\* The next command, if it is for the broker to take.
Ready == stage = "idle" /\ channel # <<>>

Accepted == Listening /\ IsValid(active, Head(channel).mapping, Head(channel).edge)

\* input: while paused, or when the switch state refuses the edge, it is dropped.
DropInput ==
  /\ Ready
  /\ ~Accepted
  /\ channel' = Tail(channel)
  /\ UNCHANGED <<keyVars, hook, brokerVars>>

\* Faulty variant: only a switch that is released is tracked.
TrackerNeverArmed(m, edge) == tracker \ {SwitchOf[m]}

TrackerAfter(m, edge) ==
  IF ~Emits(active, m, edge) THEN tracker
  ELSE IF edge = Press THEN tracker \cup {SwitchOf[m]}
  ELSE tracker \ {SwitchOf[m]}

ApplyInput ==
  LET m == Head(channel).mapping
      edge == Head(channel).edge
  IN  /\ Ready
      /\ Accepted
      /\ active' = Applied(active, m, edge)
      /\ tracker' = TrackerAfter(m, edge)
      /\ channel' = Tail(channel)
      /\ UNCHANGED <<keyVars, hook, stage, session, paused, enabled, era, handshakes>>

\* Faulty variant: what is held stays so.
ReleaseNothing == UNCHANGED active

\* release_messages: release_all, and an event for each switch.
ReleaseAll == active' = NoneActive

\* A handshake while there is no session ...
Handshake ==
  /\ stage = "idle"
  /\ ~session
  /\ handshakes < MaxHandshakes
  /\ handshakes' = handshakes + 1
  /\ era' = era + 1
  /\ UNCHANGED <<keyVars, hook, channel>>

\* ... in legacy routing: everything is released, and the session starts, or its
\* client has gone and capture is paused.
FirstHandshake ==
  /\ ~paused
  /\ ReleaseAll
  /\ \/ session' = TRUE /\ tracker' = {} /\ UNCHANGED <<paused, enabled>>
     \/ paused' = TRUE /\ enabled' = FALSE /\ UNCHANGED <<session, tracker>>
  /\ Handshake
  /\ UNCHANGED stage

\* ... or while paused: capture is resumed first, and the hook captures keys ...
Resume ==
  /\ paused
  /\ Handshake
  /\ enabled' = TRUE
  /\ stage' = "accepting"
  /\ UNCHANGED <<active, tracker, session, paused>>

\* ... before the session starts ...
Accept ==
  /\ stage = "accepting"
  /\ stage' = "idle"
  /\ paused' = FALSE
  /\ session' = TRUE
  /\ tracker' = {}
  /\ UNCHANGED <<keyVars, hook, channel, active, enabled, era, handshakes>>

\* ... or its client turns out to have gone.
Gone ==
  /\ stage = "accepting"
  /\ stage' = "idle"
  /\ enabled' = FALSE
  /\ era' = era + 1
  /\ UNCHANGED <<keyVars, hook, channel, active, tracker, session, paused, handshakes>>

\* revoke: the flag is cleared, and everything is released.
Revoke ==
  /\ session
  /\ session' = FALSE
  /\ paused' = TRUE
  /\ enabled' = FALSE
  /\ era' = era + 1
  /\ ReleaseAll
  /\ tracker' = {}
  /\ UNCHANGED <<keyVars, hook, channel, stage, handshakes>>

\* A timeout, a full queue, or a command of a connection or watcher.
EndSession == Revoke

\* The ticker finds that s has been held for ESCAPE_HOLD_MS.
Escape(s) == s \in tracker /\ Revoke

-----------------------------------------------------------------------------
Init ==
  /\ down = {}
  /\ os = {}
  /\ since = [k \in Key |-> 0]
  /\ edges = 0
  /\ hook = Idle
  /\ channel = <<>>
  /\ stage = "idle"
  /\ active = NoneActive
  /\ tracker = {}
  /\ session = FALSE
  /\ paused = FALSE
  /\ enabled = TRUE
  /\ era = 0
  /\ handshakes = 0

TakeInput == DropInput \/ ApplyInput

Conclude == Accept \/ Gone

Next ==
  \/ \E k \in Key, edge \in Edge : Deliver(k, edge)
  \/ \E m \in Simulated, edge \in Edge : Simulate(m, edge)
  \/ SendNext
  \/ TakeInput
  \/ FirstHandshake
  \/ Resume
  \/ Conclude
  \/ EndSession
  \/ \E s \in Switch : Escape(s)

Spec == Init /\ [][Next]_vars

\* The callback and the broker's task go on when they can, and the ticker is not
\* starved.  Users, clients and the other ends of a session may do nothing.
FairSpec ==
  /\ Spec
  /\ WF_vars(SendNext)
  /\ WF_vars(TakeInput)
  /\ WF_vars(Conclude)
  /\ \A s \in Switch : WF_vars(Escape(s))

-----------------------------------------------------------------------------
(* Properties *)

\* The types, and the capacity of the command channel.
TypeOK ==
  /\ down \subseteq Key
  /\ os \subseteq Key
  /\ since \in [Key -> 0..era]
  /\ edges \in 0..MaxEdges
  /\ hook \in [edge : Edge, left : SUBSET Mapping]
  /\ channel \in Seq([mapping : Mapping, edge : Edge])
  /\ Len(channel) <= ChannelCapacity
  /\ stage \in {"idle", "accepting"}
  /\ active \subseteq Mapping
  /\ tracker \subseteq Switch
  /\ session \in BOOLEAN
  /\ paused \in BOOLEAN
  /\ enabled \in BOOLEAN
  /\ era \in Nat
  /\ handshakes \in 0..MaxHandshakes

\* Nothing is under way.
Quiet == hook = Idle /\ channel = <<>>

\* Once the commands under way are handled, the broker and the keyboard agree on
\* every key that went down in the current era, for every mapping of the key.  What
\* went down earlier may be wrong: its edges crossed a change of routing.
BrokerAgrees ==
  Quiet /\ Listening =>
    \A k \in Key, m \in Mapping :
      KeyOf[m] = k /\ since[k] = era => (m \in active <=> k \in down)

\* While capture is released the OS has the right idea of every key that went down
\* since, and no edge of it is suppressed.
OsAgrees ==
  ~enabled => \A k \in Key : since[k] = era => (k \in os <=> k \in down)

\* A mapping that an edge from an earlier era left pressed, with its key up, is not
\* stuck for good: the escape hatch has seen the press and ends the session.
Stuck(m) == KeyOf[m] # NoKey /\ m \in active /\ KeyOf[m] \notin down

StuckEnds == \A m \in Mapping : Stuck(m) ~> ~Stuck(m)

-----------------------------------------------------------------------------
(* What the broker promises about routing, for the one client there is here *)

Mode == IF session THEN "managed" ELSE IF paused THEN "paused" ELSE "legacy"

R == INSTANCE Routing WITH
       Client <- {TRUE}, Nobody <- FALSE,
       mode <- Mode, holder <- session, held <- Held(active)

\* Whatever is under way in the hook and in the channel when routing changes, also
\* between resuming capture and starting the session, every step is one of Routing or
\* does not concern it: no edge moves a switch while nobody is to be told of it.
ImplementsRouting == R!Spec
=============================================================================
