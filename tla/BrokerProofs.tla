---------------------------- MODULE BrokerProofs ----------------------------
(***************************************************************************)
(* The safety properties of Broker, for every value of its constants.      *)
(*                                                                         *)
(* Inv is inductive: each of its parts needs the others.  A client is told *)
(* the truth (LegacyInSync) only because nothing is held when the broker   *)
(* pauses (CaptureFollowsRouting); a new session starts with every clock   *)
(* stopped (EscapeArmed) only because it starts with every switch released.*)
(***************************************************************************)
EXTENDS Broker, SwitchProofs, FiniteSetTheorems, TLAPS

-----------------------------------------------------------------------------
(* Lemmas about the helpers *)

\* The number of switches to release is a number, within the queue's bound.
LEMMA SwitchCount ==
  ASSUME NEW S \in SUBSET Switch
  PROVE  /\ Cardinality(S) \in Nat
         /\ Cardinality(S) + 1 <= QueueCapacity
<1>1. /\ IsFiniteSet(S)
      /\ Cardinality(S) <= Cardinality(Switch)
  BY SwitchFinite, FS_Subset
<1>2. Cardinality(S) \in Nat /\ Cardinality(Switch) \in Nat
  BY <1>1, SwitchFinite, FS_CardinalityType
<1> QED
  BY <1>1, <1>2, QueueAssumption

LEMMA NoneLeft == Held(NoneActive) = {} /\ Cardinality({}) = 0
BY NothingHeld, FS_EmptySet

-----------------------------------------------------------------------------
(* Type correctness *)

LEMMA FilledType ==
  ASSUME TypeOK, NEW c \in Client, NEW n \in Nat
  PROVE  Filled(c, n) \in 0..QueueCapacity
BY QueueAssumption DEF Filled, Fits, TypeOK

LEMMA QueuesAfterType ==
  ASSUME TypeOK, NEW n \in Nat
  PROVE  QueuesAfter(n) \in [Client -> 0..QueueCapacity]
BY FilledType DEF QueuesAfter, TypeOK

LEMMA RememberedType ==
  ASSUME NEW kept, NEW view \in [Client -> View]
  PROVE  Remembered(view, kept) \in [Client -> View]
BY DEF Remembered, View, Blank

LEMMA SeenType ==
  ASSUME NEW view \in View, NEW s \in Switch, NEW edge \in Edge
  PROVE  Seen(view, s, edge) \in View
BY DEF Seen, View

LEMMA SeenReleasedType ==
  ASSUME NEW view \in View, NEW S \in SUBSET Switch
  PROVE  SeenReleased(view, S) \in View
BY SwitchCount DEF SeenReleased, View

LEMMA TrackerType ==
  /\ TrackerCleared \in [Switch -> {Untracked} \cup 0..EscapeHold]
  /\ [s \in Switch |-> Untracked] \in [Switch -> {Untracked} \cup 0..EscapeHold]
  /\ TypeOK => \A s \in Switch, edge \in Edge :
       TrackerAfter(s, edge) \in [Switch -> {Untracked} \cup 0..EscapeHold]
BY TimeAssumption DEF TrackerCleared, TrackerAfter, TypeOK

\* What EndSession needs of its arguments, and the types it leaves.
LEMMA EndSessionType ==
  ASSUME TypeOK, NEW h \in Client, NEW kept \in SUBSET clients,
         NEW pressed \in SUBSET Switch, NEW seq \in Nat,
         EndSession(h, kept, pressed, seq),
         UNCHANGED nextClient,
         conn' \in [Client -> ConnState],
         \A c \in Client : conn'[c] = "none" <=> c >= nextClient
  PROVE  TypeOK'
<1> DEFINE n == Cardinality(pressed) + 1
           left == KeptAfter(kept, h, n)
<1>1. Cardinality(pressed) \in Nat /\ n \in Nat
  BY SwitchCount
<1>2. left \subseteq clients
  BY DEF KeptAfter
<1>3. pending' \in [Client -> 0..QueueCapacity]
  <2>1. Filled(h, n) \in 0..QueueCapacity
    BY <1>1, FilledType
  <2> QED
    BY <2>1 DEF EndSession, TypeOK
<1>4. told' \in [Client -> View]
  <2>1. told[h] \in View
    BY DEF TypeOK
  <2>2. SeenReleased(told[h], pressed) \in View
    BY <2>1, SeenReleasedType
  <2>3. SeenRevoked(SeenReleased(told[h], pressed)) \in View
    BY <2>2 DEF View, SeenRevoked
  <2>4. [told EXCEPT ![h] = SeenRevoked(SeenReleased(@, pressed))]
          \in [Client -> View]
    BY <2>3 DEF TypeOK
  <2> QED
    BY <2>4, RememberedType DEF EndSession, TypeOK
<1>5. sequence' \in Nat
  BY <1>1 DEF EndSession
<1> QED
  BY <1>2, <1>3, <1>4, <1>5, TrackerType
  DEF EndSession, TypeOK, Pause, NoneActive

LEMMA RevokeType ==
  ASSUME TypeOK, Managed, Revoke, UNCHANGED <<nextClient, conn>>
  PROVE  TypeOK'
<1>1. session.client \in Client /\ Held(active) \in SUBSET Switch
  BY HeldType DEF TypeOK, Managed
<1> QED
  BY <1>1, EndSessionType DEF Revoke, TypeOK

LEMMA BroadcastType ==
  ASSUME TypeOK, NEW n \in Nat, NEW view \in [Client -> View]
  PROVE  /\ Kept(n) \subseteq clients
         /\ QueuesAfter(n) \in [Client -> 0..QueueCapacity]
         /\ Reached(n, view) \in [Client -> View]
         /\ \A kept : Remembered(Reached(n, view), kept) \in [Client -> View]
<1>1. Reached(n, view) \in [Client -> View]
  BY DEF Reached, TypeOK
<1> QED
  BY <1>1, QueuesAfterType, RememberedType DEF Kept

LEMMA ReleasedType ==
  ASSUME TypeOK
  PROVE  /\ Boundary \in SUBSET Switch
         /\ Cardinality(Boundary) \in Nat
         /\ Released \in [Client -> View]
<1>1. Boundary \in SUBSET Switch
  BY HeldType DEF Boundary, TypeOK
<1> QED
  BY <1>1, SwitchCount, SeenReleasedType DEF Released, TypeOK

LEMMA InputType ==
  ASSUME TypeOK, NEW m \in Mapping, NEW edge \in Edge, Input(m, edge)
  PROVE  TypeOK'
<1> DEFINE s == SwitchOf[m]
<1>1. /\ s \in Switch
      /\ Applied(active, m, edge) \in SUBSET Mapping
      /\ Held(Applied(active, m, edge)) \in SUBSET Switch
      /\ TrackerAfter(s, edge) \in [Switch -> {Untracked} \cup 0..EscapeHold]
  BY AppliedType, HeldType, TrackerType, MappingAssumption DEF TypeOK
<1>2. \A c \in Client : Seen(told[c], s, edge) \in View
  BY <1>1, SeenType DEF TypeOK
<1>3. CASE InputInner(m, edge)
  BY <1>1, <1>3 DEF InputInner, TrackerAfterInner, TypeOK, clientVars
<1>4. CASE InputBroadcast(m, edge)
  <2>1. [c \in Client |-> Seen(told[c], s, edge)] \in [Client -> View]
    BY <1>2
  <2>2. /\ clients' \subseteq clients
        /\ pending' \in [Client -> 0..QueueCapacity]
        /\ told' \in [Client -> View]
    BY <1>4, <2>1, BroadcastType DEF InputBroadcast, Broadcast
  <2>3. sequence' \in Nat
    BY <1>4 DEF InputBroadcast, TypeOK
  <2> QED
    BY <1>1, <1>4, <2>2, <2>3 DEF InputBroadcast, TypeOK
<1>5. CASE InputRouted(m, edge)
  <2>1. session.client \in Client
    BY <1>5 DEF InputRouted, Routed, Managed, TypeOK
  <2>2. /\ Filled(session.client, 1) \in 0..QueueCapacity
        /\ Seen(told[session.client], s, edge) \in View
    BY <1>2, <2>1, FilledType
  <2>3. pending' \in [Client -> 0..QueueCapacity] /\ told' \in [Client -> View]
    BY <1>5, <2>2 DEF InputRouted, TypeOK
  <2> QED
    BY <1>1, <1>5, <2>3 DEF InputRouted, TypeOK
<1>6. CASE InputOverflow(m, edge)
  <2>1. session.client \in Client
    BY <1>6 DEF InputOverflow, Routed, Managed, TypeOK
  <2>2. sequence + 1 \in Nat
    BY DEF TypeOK
  <2>3. EndSession(session.client, clients \ {session.client},
                   Held(Applied(active, m, edge)), sequence + 1)
        /\ UNCHANGED <<nextClient, conn>>
    BY <1>6 DEF InputOverflow
  <2> QED
    BY <1>1, <2>1, <2>2, <2>3, EndSessionType DEF TypeOK
<1> QED
  BY <1>3, <1>4, <1>5, <1>6 DEF Input

LEMMA RegisterType ==
  ASSUME TypeOK, Register
  PROVE  TypeOK'
<1>1. nextClient \in Client
  BY DEF Register, TypeOK, Client
<1>2. [held |-> Held(active), count |-> sequence, id |-> 0] \in View
  BY HeldType DEF TypeOK, View
<1>3. told' \in [Client -> View]
  BY <1>2 DEF Register, TypeOK
<1>4. 1 <= QueueCapacity
  BY SwitchFinite, FS_CardinalityType, QueueAssumption
<1>5. pending' \in [Client -> 0..QueueCapacity]
  <2>1. 1 \in 0..QueueCapacity
    BY <1>4, QueueAssumption
  <2> QED
    BY <2>1 DEF Register, TypeOK
<1>6. /\ conn' \in [Client -> ConnState]
      /\ \A c \in Client : conn'[c] = "none" <=> c >= nextClient'
  BY <1>1 DEF Register, TypeOK, ConnState, Client
<1>7. clients' \subseteq 1..nextClient' - 1 /\ nextClient' \in 1..MaxClients + 1
  BY <1>1, ClientAssumption DEF Register, TypeOK, Client
<1> QED
  BY <1>3, <1>5, <1>6, <1>7 DEF Register, TypeOK, brokerVars

LEMMA UnregisterType ==
  ASSUME TypeOK, NEW c \in Client, Unregister(c)
  PROVE  TypeOK'
<1> USE DEF Holds
<1>1. /\ conn' \in [Client -> ConnState]
      /\ \A d \in Client : conn'[d] = "none" <=> d >= nextClient
  BY DEF Unregister, TypeOK, ConnState
<1>2. CASE session.client = c
  <2>1. EndSession(c, clients \ {c}, Held(active), sequence) /\ UNCHANGED nextClient
    BY <1>2 DEF Unregister
  <2>2. Held(active) \in SUBSET Switch /\ sequence \in Nat
    BY HeldType DEF TypeOK
  <2> QED
    BY <1>1, <2>1, <2>2, EndSessionType
<1>3. CASE session.client # c
  <2>1. told' \in [Client -> View]
    BY <1>3, RememberedType DEF Unregister, TypeOK
  <2> QED
    BY <1>1, <1>3, <2>1 DEF Unregister, TypeOK, brokerVars
<1> QED
  BY <1>2, <1>3

LEMMA RejectType ==
  ASSUME TypeOK, NEW c \in Client, Reject(c)
  PROVE  TypeOK'
<1>1. pending' \in [Client -> 0..QueueCapacity]
  <2>1. Filled(c, 1) \in 0..QueueCapacity
    BY FilledType
  <2> QED
    BY <2>1 DEF Reject, TypeOK
<1>2. told' \in [Client -> View]
  BY RememberedType DEF Reject, TypeOK
<1> QED
  BY <1>1, <1>2 DEF Reject, KeptAfter, TypeOK, brokerVars

\* What a handshake states is a process id or none.
LEMMA ClaimsType ==
  ASSUME NEW c \in Client, NEW p \in Claims[c]
  PROVE  p \in Pid \cup {NoPid}
BY PidAssumption

LEMMA HandshakeType ==
  ASSUME TypeOK, NEW c \in Client, Handshake(c)
  PROVE  TypeOK'
<1> DEFINE n == Cardinality(Boundary)
<1>1. /\ n \in Nat
      /\ n + 1 \in Nat
      /\ sequence + n \in Nat
      /\ Released \in [Client -> View]
  BY ReleasedType DEF TypeOK
<1>2. /\ Kept(n) \subseteq clients
      /\ QueuesAfter(n) \in [Client -> 0..QueueCapacity]
      /\ Reached(n, Released) \in [Client -> View]
  BY <1>1, BroadcastType
<1>3. CASE HandshakeInvalid(c) \/ HandshakeBusy(c) \/ HandshakeUnavailable(c)
  BY <1>3, RejectType DEF HandshakeInvalid, HandshakeBusy, HandshakeUnavailable
<1>4. CASE HandshakeGone(c)
  <2>1. told' \in [Client -> View]
    BY <1>2, <1>4, RememberedType DEF HandshakeGone, Broadcast
  <2> QED
    BY <1>1, <1>2, <1>4, <2>1
    DEF HandshakeGone, Broadcast, Pause, NoneActive, TypeOK
<1>5. ASSUME NEW p \in Pid \cup {NoPid}, HandshakeAccepted(c, p)
      PROVE  TypeOK'
  <2>1. issued + 1 \in SessionId /\ issued + 1 \in Nat
    BY <1>5, BoundAssumption DEF HandshakeAccepted, TypeOK, SessionId
  <2>2. SeenAccepted(Reached(n, Released)[c], issued + 1) \in View
    BY <1>2, <2>1 DEF SeenAccepted, View
  <2>3. told' \in [Client -> View]
    BY <1>2, <1>5, <2>2, RememberedType DEF HandshakeAccepted
  <2>4. pending' \in [Client -> 0..QueueCapacity]
    BY <1>1, <1>2, <1>5, FilledType DEF HandshakeAccepted
  <2>5. session' \in [client : Client, id : SessionId,
                      pid : Pid \cup {NoPid}, age : 0..HeartbeatLimit]
    BY <1>5, <2>1, TimeAssumption DEF HandshakeAccepted
  <2>6. issued' \in 0..MaxSessions
    BY <1>5, BoundAssumption DEF HandshakeAccepted, TypeOK
  <2>7. active' \in SUBSET Mapping /\ paused' \in BOOLEAN /\ enabled' \in BOOLEAN
    BY <1>5 DEF HandshakeAccepted, NoneActive, TypeOK
  <2> QED
    BY <1>1, <1>2, <1>5, <2>3, <2>4, <2>5, <2>6, <2>7, TrackerType
    DEF HandshakeAccepted, TypeOK
<1>6. CASE HandshakeUndelivered(c)
  <2>1. told' \in [Client -> View]
    BY <1>2, <1>6, RememberedType DEF HandshakeUndelivered
  <2>2. issued' \in 0..MaxSessions
    BY <1>6, BoundAssumption DEF HandshakeUndelivered, TypeOK
  <2> QED
    BY <1>1, <1>2, <1>6, <2>1, <2>2, TrackerType
    DEF HandshakeUndelivered, Pause, NoneActive, TypeOK
<1> QED
  BY <1>3, <1>4, <1>5, <1>6, ClaimsType DEF Handshake

LEMMA HeartbeatType ==
  ASSUME TypeOK, NEW c \in Client, NEW i \in SessionId, Heartbeat(c, i)
  PROVE  TypeOK'
<1>1. session' \in [client : Client, id : SessionId,
                    pid : Pid \cup {NoPid}, age : 0..HeartbeatLimit]
  BY TimeAssumption
  DEF Heartbeat, NamesSession, TypeOK, NoSession, Client, SessionId
<1> QED
  BY <1>1 DEF Heartbeat, TypeOK, clientVars

LEMMA AdvanceType ==
  ASSUME TypeOK, Advance
  PROVE  TypeOK'
<1>1. session' \in {NoSession} \cup
        [client : Client, id : SessionId, pid : Pid \cup {NoPid}, age : 0..HeartbeatLimit]
  BY TimeAssumption DEF Advance, Older, TypeOK, Managed
<1>2. tracker' \in [Switch -> {Untracked} \cup 0..EscapeHold]
  BY TimeAssumption DEF Advance, Older, TypeOK, Untracked
<1> QED
  BY <1>1, <1>2 DEF Advance, TypeOK, clientVars

LEMMA ConnectionType ==
  ASSUME TypeOK, NEW c \in Client, Connection(c)
  PROVE  TypeOK'
<1>1. pending' \in [Client -> 0..QueueCapacity]
  BY QueueAssumption
  DEF Connection, Receive, Stall, Unstall, HangUp, CutOff, LeaveLoop,
      SendUnregister, TypeOK
<1>2. /\ conn' \in [Client -> ConnState]
      /\ \A d \in Client : conn'[d] = "none" <=> d >= nextClient
  BY DEF Connection, Receive, Stall, Unstall, HangUp, CutOff, LeaveLoop,
         SendUnregister, TypeOK, ConnState
<1>3. UNCHANGED <<nextClient, clients, told, brokerVars>>
  BY DEF Connection, Receive, Stall, Unstall, HangUp, CutOff, LeaveLoop,
         SendUnregister
<1> QED
  BY <1>1, <1>2, <1>3 DEF TypeOK, brokerVars

LEMMA TypeStep == TypeOK /\ [Next]_vars => TypeOK'
<1> SUFFICES ASSUME TypeOK, [Next]_vars PROVE TypeOK'
  OBVIOUS
<1>1. CASE Register
  BY <1>1, RegisterType
<1>2. ASSUME NEW m \in Mapping, NEW edge \in Edge, Input(m, edge) PROVE TypeOK'
  BY <1>2, InputType
<1>3. ASSUME NEW c \in Client, Unregister(c) PROVE TypeOK'
  BY <1>3, UnregisterType
<1>4. ASSUME NEW c \in Client, Handshake(c) PROVE TypeOK'
  BY <1>4, HandshakeType
<1>5. ASSUME NEW c \in Client, NEW i \in SessionId, Heartbeat(c, i) PROVE TypeOK'
  BY <1>5, HeartbeatType
<1>6. CASE RevokeSession
  BY <1>6, RevokeType DEF RevokeSession
<1>7. ASSUME NEW p \in Pid \cup {NoPid}, FocusChanged(p) PROVE TypeOK'
  BY <1>7, RevokeType DEF FocusChanged
<1>8. CASE Tick
  BY <1>8, RevokeType DEF Tick, TickHeartbeat, TickEscape, Expired
<1>9. CASE Advance
  BY <1>9, AdvanceType
<1>10. ASSUME NEW c \in Client, Connection(c) PROVE TypeOK'
  BY <1>10, ConnectionType
<1>11. CASE UNCHANGED vars
  BY <1>11 DEF TypeOK, vars, brokerVars, clientVars
<1> QED
  BY <1>1, <1>2, <1>3, <1>4, <1>5, <1>6, <1>7, <1>8, <1>9, <1>10, <1>11
  DEF Next, Command

LEMMA TypeInit == Init => TypeOK
<1> SUFFICES ASSUME Init PROVE TypeOK
  OBVIOUS
<1>1. /\ nextClient \in 1..MaxClients + 1
      /\ clients \subseteq 1..nextClient - 1
      /\ issued \in 0..MaxSessions
      /\ pending \in [Client -> 0..QueueCapacity]
  BY ClientAssumption, BoundAssumption, QueueAssumption DEF Init
<1>2. /\ told \in [Client -> View]
      /\ conn \in [Client -> ConnState]
      /\ tracker \in [Switch -> {Untracked} \cup 0..EscapeHold]
  BY DEF Init, View, Blank, ConnState
<1>3. \A c \in Client : conn[c] = "none" <=> c >= nextClient
  BY DEF Init, Client
<1> QED
  BY <1>1, <1>2, <1>3 DEF Init, TypeOK, NoneActive

\* The broker's state, and what is kept of the connections, always have their
\* types; no queue ever holds more than its capacity.
THEOREM TypeCorrect == Spec => []TypeOK
<1> QED
  BY TypeInit, TypeStep, PTL DEF Spec

-----------------------------------------------------------------------------
(* The inductive invariant *)

Inv ==
  /\ TypeOK
  /\ EscapeArmed
  /\ CaptureFollowsRouting
  /\ SessionHasConnection
  /\ NoSplitBrain
  /\ LegacyInSync

LEMMA ClientsAreClients == TypeOK => clients \subseteq Client
BY ClientAssumption DEF TypeOK, Client

\* No client but the holder of the session believes that it has one.
LEMMA OthersUnaware ==
  ASSUME TypeOK, NoSplitBrain, NEW c \in clients, c # session.client
  PROVE  c \in Client /\ told[c].id = 0
BY ClientsAreClients DEF NoSplitBrain

\* The end of the session of h, the one client that may believe it has one.
LEMMA EndSessionInv ==
  ASSUME TypeOK, NEW h \in Client, NEW kept \in SUBSET clients,
         NEW pressed, NEW seq,
         EndSession(h, kept, pressed, seq),
         \A c \in clients : c # h => told[c].id = 0
  PROVE  /\ EscapeArmed'
         /\ CaptureFollowsRouting'
         /\ SessionHasConnection'
         /\ NoSplitBrain'
         /\ LegacyInSync'
<1> DEFINE n == Cardinality(pressed) + 1
           left == KeptAfter(kept, h, n)
<1>1. /\ session' = NoSession
      /\ paused' = TRUE
      /\ enabled' = FALSE
      /\ active' = NoneActive
      /\ clients' = left
  BY DEF EndSession, Pause
<1>2. left \subseteq clients /\ clients \subseteq Client
  BY ClientsAreClients DEF KeptAfter
<1>3. \A c \in left : told'[c].id = 0
  <2> TAKE c \in left
  <2>1. c \in Client
    BY <1>2
  <2>2. CASE Fits(h, n)
    <3>1. told' = Remembered([told EXCEPT ![h] = SeenRevoked(SeenReleased(@, pressed))], left)
      BY <2>2 DEF EndSession
    <3>2. told'[c] = [told EXCEPT ![h] = SeenRevoked(SeenReleased(@, pressed))][c]
      BY <2>1, <3>1 DEF Remembered
    <3>3. CASE c = h
      <4>1. told'[c] = SeenRevoked(SeenReleased(told[h], pressed))
        BY <3>2, <3>3 DEF TypeOK
      <4> QED
        BY <4>1 DEF SeenRevoked, SeenReleased
    <3>4. CASE c # h
      BY <1>2, <2>1, <3>2, <3>4 DEF TypeOK
    <3> QED
      BY <3>3, <3>4
  <2>3. CASE ~Fits(h, n)
    <3>1. c # h
      BY <2>3 DEF KeptAfter
    <3>2. told' = Remembered(told, left)
      BY <2>3 DEF EndSession
    <3> QED
      BY <1>2, <2>1, <3>1, <3>2 DEF Remembered
  <2> QED
    BY <2>2, <2>3
<1>4. session'.client = 0
  BY <1>1 DEF NoSession
<1>5. NoSplitBrain'
  BY <1>1, <1>2, <1>3, <1>4 DEF NoSplitBrain, Client
<1> QED
  BY <1>1, <1>5
  DEF EscapeArmed, CaptureFollowsRouting, SessionHasConnection, LegacyInSync,
      Legacy, Managed

LEMMA RevokeInv ==
  ASSUME Inv, Managed, Revoke, UNCHANGED <<nextClient, conn>>
  PROVE  Inv'
<1>1. session.client \in Client /\ clients \in SUBSET clients
  BY DEF Inv, TypeOK, Managed
<1>2. \A c \in clients : c # session.client => told[c].id = 0
  BY OthersUnaware DEF Inv
<1>3. TypeOK'
  BY RevokeType DEF Inv
<1> QED
  BY <1>1, <1>2, <1>3, EndSessionInv DEF Inv, Revoke

\* A logical edge keeps the clocks in step with what is held.
LEMMA LogicalEdgeArmed ==
  ASSUME TypeOK, EscapeArmed, NEW m \in Mapping, NEW edge \in Edge,
         LogicalEdge(m, edge),
         active' = Applied(active, m, edge),
         tracker' = TrackerAfter(SwitchOf[m], edge)
  PROVE  /\ EscapeArmed'
         /\ SwitchOf[m] \in Switch
         /\ Held(active') = IF edge = Press THEN Held(active) \cup {SwitchOf[m]}
                            ELSE Held(active) \ {SwitchOf[m]}
<1> DEFINE s == SwitchOf[m]
<1>1. /\ ~paused
      /\ IsValid(active, m, edge)
      /\ Emits(active, m, edge)
      /\ active \in SUBSET Mapping
  BY DEF LogicalEdge, Accepts, Listening, TypeOK
<1>2. CASE edge = Press
  <2>1. s \in Switch /\ Held(active') = Held(active) \cup {s}
    BY <1>1, <1>2, EmittedPress
  <2>2. tracker' = [tracker EXCEPT ![s] = 0]
    BY <1>2 DEF TrackerAfter
  <2> QED
    BY <1>1, <1>2, <2>1, <2>2 DEF EscapeArmed, TypeOK, Untracked
<1>3. CASE edge # Press
  <2>1. edge = Release
    BY <1>3 DEF Edge
  <2>2. s \in Switch /\ Held(active') = Held(active) \ {s}
    BY <1>1, <2>1, EmittedRelease
  <2>3. tracker' = [tracker EXCEPT ![s] = Untracked]
    BY <1>3 DEF TrackerAfter
  <2> QED
    BY <1>1, <1>3, <2>2, <2>3 DEF EscapeArmed, TypeOK
<1> QED
  BY <1>2, <1>3

LEMMA InputInv ==
  ASSUME Inv, NEW m \in Mapping, NEW edge \in Edge, Input(m, edge)
  PROVE  Inv'
<1> DEFINE s == SwitchOf[m]
<1>1. TypeOK /\ TypeOK'
  BY InputType DEF Inv
<1>2. CASE InputInner(m, edge)
  <2>1. Held(active') = Held(active)
    BY <1>1, <1>2, InnerEdge DEF InputInner, Accepts, TypeOK
  <2>2. EscapeArmed'
    BY <1>2, <2>1 DEF Inv, EscapeArmed, InputInner, TrackerAfterInner
  <2>3. CaptureFollowsRouting'
    BY <1>2 DEF Inv, CaptureFollowsRouting, InputInner, Accepts, Listening, Managed
  <2>4. SessionHasConnection' /\ NoSplitBrain' /\ LegacyInSync'
    BY <1>2, <2>1
    DEF Inv, SessionHasConnection, MaySpeak, NoSplitBrain, LegacyInSync, Legacy,
        Managed, InputInner, clientVars
  <2> QED
    BY <1>1, <2>2, <2>3, <2>4 DEF Inv
<1>3. CASE InputBroadcast(m, edge)
  <2>1. /\ EscapeArmed'
        /\ Held(active') = IF edge = Press THEN Held(active) \cup {s}
                           ELSE Held(active) \ {s}
    BY <1>1, <1>3, LogicalEdgeArmed DEF Inv, InputBroadcast
  <2>2. CaptureFollowsRouting'
    BY <1>3 DEF Inv, CaptureFollowsRouting, InputBroadcast, LogicalEdge, Accepts,
                Listening, Managed
  <2>3. /\ ~Managed /\ ~paused
        /\ UNCHANGED session
        /\ sequence' = sequence + 1
    BY <1>3 DEF InputBroadcast, Routed, LogicalEdge, Accepts, Listening
  <2>4. \A c \in clients' : c \in clients /\ told'[c] = Seen(told[c], s, edge)
    <3> TAKE c \in clients'
    <3>1. c \in Kept(1) /\ c \in clients /\ c \in Client /\ Fits(c, 1)
      BY <1>1, <1>3, ClientsAreClients DEF InputBroadcast, Broadcast, Kept
    <3> QED
      BY <1>3, <3>1 DEF InputBroadcast, Broadcast, Remembered, Reached
  <2>5. NoSplitBrain'
    <3>1. \A c \in clients' : c \in clients /\ told'[c].id = told[c].id
      <4> TAKE c \in clients'
      <4>1. c \in clients /\ told'[c] = Seen(told[c], s, edge)
        BY <2>4
      <4> QED
        BY <4>1 DEF Seen
    <3> QED
      BY <2>3, <3>1 DEF Inv, NoSplitBrain
  <2>6. LegacyInSync'
    <3>1. \A c \in clients : told[c].held = Held(active) /\ told[c].count = sequence
      BY <2>3 DEF Inv, LegacyInSync, Legacy
    <3>2. \A c \in clients' : told'[c].held = Held(active') /\ told'[c].count = sequence'
      <4> TAKE c \in clients'
      <4>1. c \in clients /\ told'[c] = Seen(told[c], s, edge)
        BY <2>4
      <4>2. /\ told'[c].held = IF edge = Press THEN told[c].held \cup {s}
                              ELSE told[c].held \ {s}
            /\ told'[c].count = told[c].count + 1
        BY <4>1 DEF Seen
      <4> QED
        BY <2>1, <2>3, <3>1, <4>1, <4>2
    <3> QED
      BY <3>2 DEF LegacyInSync
  <2>7. SessionHasConnection'
    BY <2>3 DEF SessionHasConnection, Managed
  <2> QED
    BY <1>1, <2>1, <2>2, <2>5, <2>6, <2>7 DEF Inv
<1>4. CASE InputRouted(m, edge)
  <2>1. EscapeArmed'
    BY <1>1, <1>4, LogicalEdgeArmed DEF Inv, InputRouted
  <2>2. CaptureFollowsRouting'
    BY <1>4 DEF Inv, CaptureFollowsRouting, InputRouted, LogicalEdge, Accepts,
                Listening, Managed
  <2>3. \A c \in clients : told'[c].id = told[c].id
    BY <1>1, <1>4, ClientsAreClients DEF InputRouted, Seen, TypeOK
  <2>4. NoSplitBrain'
    BY <1>4, <2>3 DEF Inv, NoSplitBrain, InputRouted
  <2>5. LegacyInSync'
    BY <1>4 DEF LegacyInSync, Legacy, InputRouted, Routed, Managed
  <2>6. SessionHasConnection'
    BY <1>4 DEF Inv, SessionHasConnection, MaySpeak, Managed, InputRouted
  <2> QED
    BY <1>1, <2>1, <2>2, <2>4, <2>5, <2>6 DEF Inv
<1>5. CASE InputOverflow(m, edge)
  <2>1. /\ session.client \in Client
        /\ \A c \in clients : c # session.client => told[c].id = 0
    BY <1>1, <1>5, OthersUnaware DEF Inv, InputOverflow, Routed, Managed, TypeOK
  <2>2. EndSession(session.client, clients \ {session.client},
                   Held(Applied(active, m, edge)), sequence + 1)
    BY <1>5 DEF InputOverflow
  <2> QED
    BY <1>1, <2>1, <2>2, EndSessionInv DEF Inv
<1> QED
  BY <1>2, <1>3, <1>4, <1>5 DEF Input

LEMMA RegisterInv ==
  ASSUME Inv, Register
  PROVE  Inv'
<1>1. TypeOK /\ TypeOK' /\ nextClient \in Client
  BY RegisterType DEF Inv, Register, TypeOK, Client
<1>2. UNCHANGED brokerVars
  BY DEF Register
<1>3. EscapeArmed' /\ CaptureFollowsRouting'
  BY <1>2 DEF Inv, EscapeArmed, CaptureFollowsRouting, Managed, brokerVars
<1>4. /\ nextClient \notin clients
      /\ clients' = clients \cup {nextClient}
      /\ told'[nextClient] = [held |-> Held(active), count |-> sequence, id |-> 0]
      /\ \A c \in clients : told'[c] = told[c]
  BY <1>1, ClientsAreClients DEF Register, TypeOK
<1>5. SessionHasConnection'
  BY <1>1, <1>2 DEF Inv, SessionHasConnection, MaySpeak, Managed, Register, TypeOK,
                    brokerVars
<1>6. NoSplitBrain'
  <2>1. session.client # nextClient
    <3>1. CASE Managed
      BY <1>1, <3>1 DEF Inv, SessionHasConnection, MaySpeak, TypeOK, Client
    <3>2. CASE ~Managed
      BY <1>1, <3>2 DEF Managed, NoSession, Client
    <3> QED
      BY <3>1, <3>2
  <2> QED
    BY <1>2, <1>4, <2>1 DEF Inv, NoSplitBrain, brokerVars
<1>7. LegacyInSync'
  BY <1>2, <1>4 DEF Inv, LegacyInSync, Legacy, Managed, brokerVars
<1> QED
  BY <1>1, <1>3, <1>5, <1>6, <1>7 DEF Inv

LEMMA UnregisterInv ==
  ASSUME Inv, NEW c \in Client, Unregister(c)
  PROVE  Inv'
<1>1. TypeOK /\ TypeOK'
  BY UnregisterType DEF Inv
<1>2. CASE Holds(c)
  <2>1. EndSession(c, clients \ {c}, Held(active), sequence)
    BY <1>2 DEF Unregister
  <2>2. \A d \in clients : d # c => told[d].id = 0
    BY <1>1, <1>2, OthersUnaware DEF Inv, Holds
  <2> QED
    BY <1>1, <2>1, <2>2, EndSessionInv DEF Inv
<1>3. CASE ~Holds(c)
  <2>1. /\ UNCHANGED brokerVars
        /\ clients' = clients \ {c}
        /\ \A d \in clients' : told'[d] = told[d]
    BY <1>1, <1>3, ClientsAreClients DEF Unregister, Remembered
  <2>2. EscapeArmed' /\ CaptureFollowsRouting'
    BY <2>1 DEF Inv, EscapeArmed, CaptureFollowsRouting, Managed, brokerVars
  <2>3. NoSplitBrain' /\ LegacyInSync'
    BY <2>1 DEF Inv, NoSplitBrain, LegacyInSync, Legacy, Managed, brokerVars
  <2>4. SessionHasConnection'
    BY <1>1, <1>3, <2>1 DEF Inv, SessionHasConnection, MaySpeak, Managed,
                            Unregister, Holds, TypeOK, brokerVars
  <2> QED
    BY <1>1, <2>2, <2>3, <2>4 DEF Inv
<1> QED
  BY <1>2, <1>3

LEMMA RejectInv ==
  ASSUME Inv, NEW c \in Client, Reject(c)
  PROVE  Inv'
<1>1. TypeOK /\ TypeOK'
  BY RejectType DEF Inv
<1>2. /\ UNCHANGED <<brokerVars, conn>>
      /\ clients' \subseteq clients
      /\ \A d \in clients' : told'[d] = told[d]
  BY <1>1, ClientsAreClients DEF Reject, KeptAfter, Remembered
<1>3. EscapeArmed' /\ CaptureFollowsRouting' /\ SessionHasConnection'
  BY <1>2 DEF Inv, EscapeArmed, CaptureFollowsRouting, SessionHasConnection,
              MaySpeak, Managed, brokerVars
<1>4. NoSplitBrain' /\ LegacyInSync'
  BY <1>2 DEF Inv, NoSplitBrain, LegacyInSync, Legacy, Managed, brokerVars
<1> QED
  BY <1>1, <1>3, <1>4 DEF Inv

\* The clients a release broadcast reaches know what has been released.
LEMMA ReachedByRelease ==
  ASSUME TypeOK, NEW c \in Kept(Cardinality(Boundary))
  PROVE  /\ c \in clients /\ c \in Client
         /\ Reached(Cardinality(Boundary), Released)[c].id = told[c].id
<1> DEFINE n == Cardinality(Boundary)
<1>1. c \in clients /\ c \in Client
  BY ClientsAreClients DEF Kept
<1>2. CASE Fits(c, n)
  <2>1. Reached(n, Released)[c] = SeenReleased(told[c], Boundary)
    BY <1>1, <1>2 DEF Reached, Released
  <2> QED
    BY <1>1, <2>1 DEF SeenReleased
<1>3. CASE ~Fits(c, n)
  <2>1. Reached(n, Released)[c] = told[c]
    BY <1>1, <1>3 DEF Reached
  <2> QED
    BY <1>1, <2>1
<1> QED
  BY <1>2, <1>3

LEMMA NobodyAware ==
  ASSUME TypeOK, NoSplitBrain, ~Busy
  PROVE  \A c \in clients : told[c].id = 0
<1>1. session.client = 0
  BY DEF Busy, Managed, NoSession
<1>2. \A c \in clients : c # 0
  BY ClientsAreClients DEF Client
<1> QED
  BY <1>1, <1>2 DEF NoSplitBrain

LEMMA HandshakeGoneInv ==
  ASSUME Inv, NEW c \in Client, HandshakeGone(c)
  PROVE  Inv'
<1> DEFINE n == Cardinality(Boundary)
<1>1. TypeOK /\ TypeOK'
  BY HandshakeType DEF Inv, Handshake
<1>2. /\ session = NoSession /\ session' = NoSession
      /\ paused' = TRUE /\ enabled' = FALSE /\ active' = NoneActive
      /\ ~Busy
  BY DEF HandshakeGone, Pause, Busy, Managed
<1>3. EscapeArmed' /\ CaptureFollowsRouting' /\ SessionHasConnection' /\ LegacyInSync'
  BY <1>2 DEF EscapeArmed, CaptureFollowsRouting, SessionHasConnection,
              LegacyInSync, Legacy, Managed
<1>4. \A d \in clients' : d \in Client /\ told'[d].id = 0
  <2> TAKE d \in clients'
  <2>1. d \in Kept(n)
    BY DEF HandshakeGone, Broadcast
  <2>2. d \in clients /\ d \in Client /\ Reached(n, Released)[d].id = told[d].id
    BY <1>1, <2>1, ReachedByRelease
  <2>3. told'[d] = Reached(n, Released)[d]
    BY <2>1, <2>2 DEF HandshakeGone, Broadcast, Remembered
  <2> QED
    BY <1>1, <1>2, <2>2, <2>3, NobodyAware DEF Inv
<1>5. NoSplitBrain'
  <2>1. session'.client = 0
    BY <1>2 DEF NoSession
  <2>2. \A d \in clients' : d # 0
    BY <1>4 DEF Client
  <2> QED
    BY <1>4, <2>1, <2>2 DEF NoSplitBrain
<1> QED
  BY <1>1, <1>3, <1>5 DEF Inv

LEMMA HandshakeUndeliveredInv ==
  ASSUME Inv, NEW c \in Client, HandshakeUndelivered(c)
  PROVE  Inv'
<1> DEFINE n == Cardinality(Boundary)
<1>1. TypeOK /\ TypeOK'
  BY HandshakeType DEF Inv, Handshake
<1>2. /\ session' = NoSession
      /\ paused' = TRUE /\ enabled' = FALSE /\ active' = NoneActive
      /\ ~Busy
  BY DEF HandshakeUndelivered, Pause
<1>3. EscapeArmed' /\ CaptureFollowsRouting' /\ SessionHasConnection' /\ LegacyInSync'
  BY <1>2 DEF EscapeArmed, CaptureFollowsRouting, SessionHasConnection,
              LegacyInSync, Legacy, Managed
<1>4. \A d \in clients' : d \in Client /\ told'[d].id = 0
  <2> TAKE d \in clients'
  <2>1. d \in Kept(n) /\ d \in Kept(n) \ {c}
    BY DEF HandshakeUndelivered
  <2>2. d \in clients /\ d \in Client /\ Reached(n, Released)[d].id = told[d].id
    BY <1>1, <2>1, ReachedByRelease
  <2>3. told'[d] = Reached(n, Released)[d]
    BY <2>1, <2>2 DEF HandshakeUndelivered, Remembered
  <2> QED
    BY <1>1, <1>2, <2>2, <2>3, NobodyAware DEF Inv
<1>5. NoSplitBrain'
  <2>1. session'.client = 0
    BY <1>2 DEF NoSession
  <2>2. \A d \in clients' : d # 0
    BY <1>4 DEF Client
  <2> QED
    BY <1>4, <2>1, <2>2 DEF NoSplitBrain
<1> QED
  BY <1>1, <1>3, <1>5 DEF Inv

LEMMA HandshakeAcceptedInv ==
  ASSUME Inv, NEW c \in Client, NEW p \in Claims[c], HandshakeAccepted(c, p)
  PROVE  Inv'
<1> DEFINE n == Cardinality(Boundary)
           view == [Reached(n, Released) EXCEPT ![c] = SeenAccepted(@, issued + 1)]
<1>1. TypeOK /\ TypeOK'
  BY HandshakeType DEF Inv, Handshake
<1>2. /\ session' = [client |-> c, id |-> issued + 1, pid |-> p, age |-> 0]
      /\ session'.client = c /\ session'.id = issued + 1
      /\ paused' = FALSE
      /\ ~Busy
  BY DEF HandshakeAccepted
<1>3. enabled' = TRUE
  <2>1. CASE paused
    BY <2>1 DEF HandshakeAccepted
  <2>2. CASE ~paused
    BY <2>2 DEF HandshakeAccepted, Inv, CaptureFollowsRouting
  <2> QED
    BY <2>1, <2>2
<1>4. issued + 1 # 0
  BY <1>1, BoundAssumption DEF TypeOK
<1>5. active' = NoneActive /\ Held(active') = {}
  BY NoneLeft DEF HandshakeAccepted, Inv, CaptureFollowsRouting
<1>6. session' # NoSession
  BY <1>2 DEF NoSession, Client
<1>7. EscapeArmed'
  BY <1>5 DEF HandshakeAccepted, EscapeArmed, TrackerCleared
<1>8. CaptureFollowsRouting' /\ SessionHasConnection' /\ LegacyInSync'
  BY <1>2, <1>6, <1>3
  DEF CaptureFollowsRouting, SessionHasConnection, LegacyInSync, Legacy, Managed,
      MaySpeak, HandshakeAccepted
<1>9. ASSUME NEW d \in clients'
      PROVE  told'[d].id = IF d = c THEN issued + 1 ELSE 0
  <2>1. d \in Kept(n)
    BY <1>9 DEF HandshakeAccepted
  <2>2. d \in clients /\ d \in Client /\ Reached(n, Released)[d].id = told[d].id
    BY <1>1, <2>1, ReachedByRelease
  <2>3. told'[d] = view[d]
    BY <2>1, <2>2 DEF HandshakeAccepted, Remembered
  <2>4. CASE d = c
    <3>1. view[d] = SeenAccepted(Reached(n, Released)[c], issued + 1)
      BY <2>2, <2>4 DEF Reached
    <3>2. Reached(n, Released)[c] \in View
      BY <1>1, ReleasedType, BroadcastType
    <3> QED
      BY <2>3, <2>4, <3>1, <3>2 DEF SeenAccepted, View
  <2>5. CASE d # c
    <3>1. view[d] = Reached(n, Released)[d]
      BY <2>2, <2>5 DEF Reached
    <3> QED
      BY <1>1, <1>2, <2>2, <2>3, <2>5, <3>1, NobodyAware DEF Inv
  <2> QED
    BY <2>4, <2>5
<1>10. NoSplitBrain'
  BY <1>2, <1>9, <1>4 DEF NoSplitBrain
<1> QED
  BY <1>1, <1>7, <1>8, <1>10 DEF Inv

LEMMA HandshakeInv ==
  ASSUME Inv, NEW c \in Client, Handshake(c)
  PROVE  Inv'
BY RejectInv, HandshakeGoneInv, HandshakeAcceptedInv, HandshakeUndeliveredInv
DEF Handshake, HandshakeInvalid, HandshakeBusy, HandshakeUnavailable

\* Steps that only touch the age of the session, or the clocks that are running.
LEMMA AgesInv ==
  ASSUME Inv, TypeOK',
         session'.client = session.client, session'.id = session.id,
         Managed' <=> Managed,
         \A s \in Switch : tracker'[s] = Untracked <=> tracker[s] = Untracked,
         UNCHANGED <<active, sequence, issued, paused, enabled, clientVars>>
  PROVE  Inv'
<1>1. EscapeArmed' /\ CaptureFollowsRouting' /\ SessionHasConnection'
  BY DEF Inv, EscapeArmed, CaptureFollowsRouting, SessionHasConnection, MaySpeak,
         clientVars
<1>2. NoSplitBrain' /\ LegacyInSync'
  BY DEF Inv, NoSplitBrain, LegacyInSync, Legacy, clientVars
<1> QED
  BY <1>1, <1>2 DEF Inv

LEMMA HeartbeatInv ==
  ASSUME Inv, NEW c \in Client, NEW i \in SessionId, Heartbeat(c, i)
  PROVE  Inv'
<1>1. TypeOK /\ TypeOK'
  BY HeartbeatType DEF Inv
<1>2. session \in [client : Client, id : SessionId,
                   pid : Pid \cup {NoPid}, age : 0..HeartbeatLimit]
  BY <1>1 DEF Heartbeat, NamesSession, TypeOK, NoSession, Client
<1>3. session' = [session EXCEPT !.age = 0]
  BY DEF Heartbeat
<1>4. session'.client = session.client /\ session'.id = session.id
  BY <1>2, <1>3
<1>5. Managed /\ Managed'
  BY <1>2, <1>4 DEF Managed, NoSession, Client
<1> QED
  BY <1>1, <1>4, <1>5, AgesInv DEF Heartbeat

LEMMA AdvanceInv ==
  ASSUME Inv, Advance
  PROVE  Inv'
<1>1. TypeOK /\ TypeOK'
  BY AdvanceType DEF Inv
<1>2. /\ session'.client = session.client
      /\ session'.id = session.id
      /\ Managed' <=> Managed
  <2>1. CASE Managed
    <3>1. session \in [client : Client, id : SessionId,
                       pid : Pid \cup {NoPid}, age : 0..HeartbeatLimit]
      BY <1>1, <2>1 DEF Managed, TypeOK
    <3>2. session' = [session EXCEPT !.age = Older(@, HeartbeatLimit)]
      BY <2>1 DEF Advance
    <3>3. session'.client = session.client /\ session'.id = session.id
      BY <3>1, <3>2
    <3> QED
      BY <2>1, <3>1, <3>3 DEF Managed, NoSession, Client
  <2>2. CASE ~Managed
    BY <2>2 DEF Advance, Managed
  <2> QED
    BY <2>1, <2>2
<1>3. \A s \in Switch : tracker'[s] = Untracked <=> tracker[s] = Untracked
  BY <1>1, TimeAssumption DEF Advance, Older, TypeOK, Untracked
<1> QED
  BY <1>1, <1>2, <1>3, AgesInv DEF Advance

LEMMA ConnectionInv ==
  ASSUME Inv, NEW c \in Client, Connection(c)
  PROVE  Inv'
<1>1. TypeOK /\ TypeOK'
  BY ConnectionType DEF Inv
<1>2. UNCHANGED <<clients, told, brokerVars>>
  BY DEF Connection, Receive, Stall, Unstall, HangUp, CutOff, LeaveLoop,
         SendUnregister
<1>3. \A d \in Client : MaySpeak(d) => MaySpeak(d)'
  BY <1>1 DEF Connection, Receive, Stall, Unstall, HangUp, CutOff, LeaveLoop,
         SendUnregister, MaySpeak, TypeOK
<1>4. EscapeArmed' /\ CaptureFollowsRouting'
  BY <1>2 DEF Inv, EscapeArmed, CaptureFollowsRouting, Managed, brokerVars
<1>5. NoSplitBrain' /\ LegacyInSync'
  BY <1>2 DEF Inv, NoSplitBrain, LegacyInSync, Legacy, Managed, brokerVars
<1>6. SessionHasConnection'
  <2>1. Managed => session.client \in Client
    BY <1>1 DEF TypeOK, Managed
  <2> QED
    BY <1>2, <1>3, <2>1 DEF Inv, SessionHasConnection, Managed, MaySpeak, brokerVars
<1> QED
  BY <1>1, <1>4, <1>5, <1>6 DEF Inv

LEMMA InvStep == Inv /\ [Next]_vars => Inv'
<1> SUFFICES ASSUME Inv, [Next]_vars PROVE Inv'
  OBVIOUS
<1>1. CASE Register
  BY <1>1, RegisterInv
<1>2. ASSUME NEW m \in Mapping, NEW edge \in Edge, Input(m, edge) PROVE Inv'
  BY <1>2, InputInv
<1>3. ASSUME NEW c \in Client, Unregister(c) PROVE Inv'
  BY <1>3, UnregisterInv
<1>4. ASSUME NEW c \in Client, Handshake(c) PROVE Inv'
  BY <1>4, HandshakeInv
<1>5. ASSUME NEW c \in Client, NEW i \in SessionId, Heartbeat(c, i) PROVE Inv'
  BY <1>5, HeartbeatInv
<1>6. CASE RevokeSession
  BY <1>6, RevokeInv DEF RevokeSession
<1>7. ASSUME NEW p \in Pid \cup {NoPid}, FocusChanged(p) PROVE Inv'
  BY <1>7, RevokeInv DEF FocusChanged
<1>8. CASE Tick
  BY <1>8, RevokeInv DEF Tick, TickHeartbeat, TickEscape, Expired
<1>9. CASE Advance
  BY <1>9, AdvanceInv
<1>10. ASSUME NEW c \in Client, Connection(c) PROVE Inv'
  BY <1>10, ConnectionInv
<1>11. CASE UNCHANGED vars
  BY <1>11 DEF Inv, TypeOK, EscapeArmed, CaptureFollowsRouting, SessionHasConnection,
               MaySpeak, NoSplitBrain, LegacyInSync, Legacy, Managed,
               vars, brokerVars, clientVars
<1> QED
  BY <1>1, <1>2, <1>3, <1>4, <1>5, <1>6, <1>7, <1>8, <1>9, <1>10, <1>11
  DEF Next, Command

LEMMA InvInit == Init => Inv
<1> SUFFICES ASSUME Init PROVE Inv
  OBVIOUS
<1>1. TypeOK
  BY TypeInit
<1> QED
  BY <1>1, NoneLeft
  DEF Init, Inv, EscapeArmed, CaptureFollowsRouting, SessionHasConnection,
      NoSplitBrain, LegacyInSync, Managed

LEMMA Invariance == Spec => []Inv
BY InvInit, InvStep, PTL DEF Spec

\* Whenever events flow, the escape hatch watches exactly what is held.
THEOREM EscapeAlwaysArmed == Spec => []EscapeArmed
<1>1. Inv => EscapeArmed
  BY DEF Inv
<1> QED
  BY <1>1, Invariance, PTL

\* Capture is on exactly when the broker routes events, and never with something
\* held over a pause.
THEOREM CaptureAlwaysFollows == Spec => []CaptureFollowsRouting
<1>1. Inv => CaptureFollowsRouting
  BY DEF Inv
<1> QED
  BY <1>1, Invariance, PTL

\* No session outlives its connection.
THEOREM SessionAlwaysConnected == Spec => []SessionHasConnection
<1>1. Inv => SessionHasConnection
  BY DEF Inv
<1> QED
  BY <1>1, Invariance, PTL

\* The clients in the map and the broker agree on who has which session: the holder has
\* been told its id, and nobody else believes in one.
THEOREM NeverSplitBrain == Spec => []NoSplitBrain
<1>1. Inv => NoSplitBrain
  BY DEF Inv
<1> QED
  BY <1>1, Invariance, PTL

\* In legacy routing, every client in the map knows what is held.
THEOREM LegacyAlwaysInSync == Spec => []LegacyInSync
<1>1. Inv => LegacyInSync
  BY DEF Inv
<1> QED
  BY <1>1, Invariance, PTL

-----------------------------------------------------------------------------
(* Who is told of an event *)

LEMMA RegisteredClients ==
  ASSUME NEW n \in 1..MaxClients + 1, NEW S \in SUBSET (1..n - 1)
  PROVE  S \subseteq Client /\ 0 \notin S
BY ClientAssumption DEF Client

LEMMA ClientsNext == TypeOK' => clients' \subseteq Client /\ 0 \notin clients'
<1> SUFFICES ASSUME TypeOK' PROVE clients' \subseteq Client /\ 0 \notin clients'
  OBVIOUS
<1>1. nextClient' \in 1..MaxClients + 1 /\ clients' \in SUBSET (1..nextClient' - 1)
  BY DEF TypeOK
<1> QED
  BY <1>1, RegisteredClients

\* A step that leaves the switches, the numbering and what the clients that stay
\* were told alone keeps both promises.
LEMMA QuietStep ==
  ASSUME Inv, Inv', sequence' = sequence, Held(active') = Held(active),
         \A c \in clients' : c # session.client /\ c \in clients => told'[c] = told[c],
         session.client \in clients' => told'[session.client] = told[session.client]
  PROVE  HolderTold /\ OthersUntold
<1>1. HolderTold
  <2> SUFFICES ASSUME NEW h \in clients', session.client = h
               PROVE  /\ told'[h].count - told[h].count = sequence' - sequence
                      /\ \A s \in Switch : /\ ~Changed(s)
                                            /\ told'[h].held = told[h].held
    BY DEF HolderTold
  <2>1. told'[h] = told[h]
    OBVIOUS
  <2>2. told \in [Client -> View] /\ sequence \in Nat
    BY DEF Inv, TypeOK
  <2>3. told[h].count \in Nat
    <3>1. h \in Client
      BY ClientsNext DEF Inv
    <3> QED
      BY <2>2, <3>1 DEF View
  <2> QED
    BY <2>1, <2>2, <2>3 DEF Changed
<1>2. OthersUntold
  BY DEF OthersUntold
<1> QED
  BY <1>1, <1>2

\* The end of the session of h tells h alone, and h everything, if it stays.
LEMMA EndSessionTold ==
  ASSUME Inv, Managed, NEW kept \in SUBSET clients,
         NEW pressed \in SUBSET Switch, NEW seq,
         EndSession(session.client, kept, pressed, seq),
         session.client \in kept => pressed = Held(active) /\ seq = sequence
  PROVE  HolderTold /\ OthersUntold
<1> DEFINE h == session.client
           n == Cardinality(pressed) + 1
           left == KeptAfter(kept, h, n)
<1>1. /\ clients' = left
      /\ left \subseteq kept
      /\ active' = NoneActive
      /\ sequence' = seq + Cardinality(pressed)
  BY DEF EndSession, KeptAfter
<1>2. clients \subseteq Client /\ h \in Client /\ told \in [Client -> View]
  BY ClientsAreClients DEF Inv, TypeOK, Managed
<1>3. \A c \in left : c # h => told'[c] = told[c]
  <2> TAKE c \in left
  <2>1. c \in Client
    BY <1>1, <1>2
  <2> QED
    BY <1>2, <2>1 DEF EndSession, Remembered
<1>4. OthersUntold
  BY <1>1, <1>3 DEF OthersUntold
<1>5. ASSUME h \in clients'
      PROVE  /\ told'[h].count - told[h].count = sequence' - sequence
             /\ \A s \in Switch :
                  IF Changed(s)
                  THEN s \in told'[h].held <=> s \in Held(active')
                  ELSE s \in told'[h].held <=> s \in told[h].held
  <2>1. Fits(h, n) /\ h \in left /\ pressed = Held(active) /\ seq = sequence
    BY <1>1, <1>5 DEF KeptAfter
  <2>2. told'[h] = SeenRevoked(SeenReleased(told[h], pressed))
    BY <1>2, <2>1 DEF EndSession, Remembered
  <2>3. /\ told[h].count \in Nat
        /\ Cardinality(pressed) \in Nat
        /\ sequence \in Nat
    BY <1>2, SwitchCount DEF View, Inv, TypeOK
  <2>4. /\ told'[h].count = told[h].count + Cardinality(pressed)
        /\ told'[h].held = told[h].held \ pressed
    BY <2>2 DEF SeenRevoked, SeenReleased
  <2>5. Held(active') = {}
    BY <1>1, NoneLeft
  <2>6. told'[h].count - told[h].count = sequence' - sequence
    BY <1>1, <2>1, <2>3, <2>4
  <2>7. ASSUME NEW s \in Switch
        PROVE  IF Changed(s)
               THEN s \in told'[h].held <=> s \in Held(active')
               ELSE s \in told'[h].held <=> s \in told[h].held
    BY <2>1, <2>4, <2>5 DEF Changed
  <2> QED
    BY <2>6, <2>7
<1>6. HolderTold
  BY <1>5 DEF HolderTold
<1> QED
  BY <1>4, <1>6

LEMMA RevokeTold ==
  ASSUME Inv, Managed, Revoke
  PROVE  HolderTold /\ OthersUntold
<1>1. Held(active) \in SUBSET Switch
  BY HeldType DEF Inv, TypeOK
<1> QED
  BY <1>1, EndSessionTold DEF Revoke

LEMMA InputTold ==
  ASSUME Inv, Inv', Managed, NEW m \in Mapping, NEW edge \in Edge, Input(m, edge)
  PROVE  HolderTold /\ OthersUntold
<1> DEFINE h == session.client
           s == SwitchOf[m]
<1>1. /\ clients \subseteq Client /\ h \in Client
      /\ told \in [Client -> View]
      /\ sequence \in Nat
      /\ active \in SUBSET Mapping
  BY ClientsAreClients DEF Inv, TypeOK, Managed
<1>2. CASE InputInner(m, edge)
  <2>1. Held(active') = Held(active)
    BY <1>1, <1>2, InnerEdge DEF InputInner, Accepts
  <2> QED
    BY <1>2, <2>1, QuietStep DEF InputInner, clientVars
<1>3. CASE InputRouted(m, edge)
  <2>1. /\ told' = [told EXCEPT ![h] = Seen(@, s, edge)]
        /\ clients' = clients
        /\ sequence' = sequence + 1
    BY <1>3 DEF InputRouted
  <2>2. OthersUntold
    BY <1>1, <2>1 DEF OthersUntold
  <2>3. /\ s \in Switch
        /\ Held(active') = IF edge = Press THEN Held(active) \cup {s}
                           ELSE Held(active) \ {s}
    BY <1>3, LogicalEdgeArmed DEF Inv, InputRouted
  <2>4. /\ told'[h].held = IF edge = Press THEN told[h].held \cup {s}
                           ELSE told[h].held \ {s}
        /\ told'[h].count = told[h].count + 1
        /\ told[h].count \in Nat
    BY <1>1, <2>1 DEF Seen, View
  <2>5. s \in Held(active) <=> edge # Press
    <3>1. IsValid(active, m, edge) /\ Emits(active, m, edge)
      BY <1>3 DEF InputRouted, LogicalEdge, Accepts
    <3> QED
      BY <1>1, <3>1, EmittedPress, EmittedRelease DEF Edge, Press, Release
  <2>6. told'[h].count - told[h].count = sequence' - sequence
    BY <1>1, <2>1, <2>4
  <2>7. ASSUME NEW r \in Switch
        PROVE  IF Changed(r)
               THEN r \in told'[h].held <=> r \in Held(active')
               ELSE r \in told'[h].held <=> r \in told[h].held
    BY <2>3, <2>4, <2>5 DEF Changed
  <2> QED
    BY <2>2, <2>6, <2>7 DEF HolderTold
<1>4. CASE InputOverflow(m, edge)
  <2>1. Held(Applied(active, m, edge)) \in SUBSET Switch
    BY <1>1, AppliedType, HeldType
  <2> QED
    BY <1>4, <2>1, EndSessionTold DEF InputOverflow
<1> QED
  BY <1>2, <1>3, <1>4 DEF Input, InputBroadcast, Routed

LEMMA StepTold == Inv /\ Inv' /\ [Next]_vars => HolderTold /\ OthersUntold
<1> SUFFICES ASSUME Inv, Inv', [Next]_vars PROVE HolderTold /\ OthersUntold
  OBVIOUS
<1>1. CASE ~Managed
  <2>1. session.client = 0
    BY <1>1 DEF Managed, NoSession
  <2>2. session.client \notin clients'
    BY <2>1, ClientsNext DEF Inv
  <2> QED
    BY <1>1, <2>2 DEF HolderTold, OthersUntold
<1>2. CASE Managed
  <2>1. CASE Register
    <3>1. session.client # nextClient
      BY <1>2 DEF Inv, TypeOK, SessionHasConnection, MaySpeak, Managed, Client
    <3>2. \A c \in clients : c # nextClient
      BY DEF Inv, TypeOK
    <3>3. \A c \in Client : c # nextClient => told'[c] = told[c]
      BY <2>1 DEF Register, Inv, TypeOK
    <3>4. session.client \in Client /\ clients \subseteq Client
      BY <1>2, ClientsAreClients DEF Inv, TypeOK, Managed
    <3> QED
      BY <2>1, <3>1, <3>2, <3>3, <3>4, QuietStep DEF Register, brokerVars
  <2>2. ASSUME NEW m \in Mapping, NEW edge \in Edge, Input(m, edge)
        PROVE  HolderTold /\ OthersUntold
    BY <1>2, <2>2, InputTold
  <2>3. ASSUME NEW c \in Client, Unregister(c)
        PROVE  HolderTold /\ OthersUntold
    <3>1. CASE Holds(c)
      <4>1. Held(active) \in SUBSET Switch
        BY HeldType DEF Inv, TypeOK
      <4> QED
        BY <1>2, <2>3, <3>1, <4>1, EndSessionTold DEF Unregister, Holds
    <3>2. CASE ~Holds(c)
      <4>1. /\ clients' = clients \ {c}
            /\ told' = Remembered(told, clients \ {c})
            /\ UNCHANGED <<sequence, active>>
        BY <2>3, <3>2 DEF Unregister, brokerVars
      <4>2. \A d \in clients' : told'[d] = told[d]
        BY <4>1, ClientsAreClients DEF Inv, Remembered
      <4> QED
        BY <4>1, <4>2, QuietStep
    <3> QED
      BY <3>1, <3>2
  <2>4. ASSUME NEW c \in Client, Handshake(c)
        PROVE  HolderTold /\ OthersUntold
    <3>1. Reject(c)
      BY <1>2, <2>4
      DEF Handshake, HandshakeInvalid, HandshakeBusy, HandshakeUnavailable,
          HandshakeGone, HandshakeAccepted, HandshakeUndelivered, Busy
    <3>2. /\ clients' \subseteq clients
          /\ told' = Remembered(told, clients')
          /\ UNCHANGED <<sequence, active>>
      BY <3>1 DEF Reject, KeptAfter, brokerVars
    <3>3. \A d \in clients' : told'[d] = told[d]
      BY <3>2, ClientsAreClients DEF Inv, Remembered
    <3> QED
      BY <3>2, <3>3, QuietStep
  <2>5. CASE RevokeSession \/ Tick \/ \E p \in Pid \cup {NoPid} : FocusChanged(p)
    BY <1>2, <2>5, RevokeTold
    DEF RevokeSession, Tick, TickHeartbeat, TickEscape, FocusChanged
  <2>6. CASE \/ \E c \in Client, i \in SessionId : Heartbeat(c, i)
             \/ Advance
             \/ \E c \in Client : Connection(c)
             \/ UNCHANGED vars
    <3>1. UNCHANGED <<sequence, active, told>>
      BY <2>6
      DEF Heartbeat, Advance, Connection, Receive, Stall, Unstall, HangUp, CutOff,
          LeaveLoop, SendUnregister, vars, brokerVars, clientVars
    <3> QED
      BY <3>1, QuietStep
  <2> QED
    BY <2>1, <2>2, <2>3, <2>4, <2>5, <2>6 DEF Next, Command
<1> QED
  BY <1>1, <1>2

\* In every step of a session and in the one that ends it, the client that holds
\* it is told each change of each switch, or it is cut.
THEOREM HolderAlwaysTold == Spec => HolderTracksState
<1>1. Inv /\ Inv' /\ [Next]_vars => [HolderTold]_vars
  BY StepTold
<1> QED
  BY <1>1, Invariance, PTL DEF Spec, HolderTracksState

\* Nobody else is told of any switch while a session lasts.
THEOREM RoutingAlwaysExclusive == Spec => ExclusiveRouting
<1>1. Inv /\ Inv' /\ [Next]_vars => [OthersUntold]_vars
  BY StepTold
<1> QED
  BY <1>1, Invariance, PTL DEF Spec, ExclusiveRouting

-----------------------------------------------------------------------------
(* The clocks of the escape hatch *)

LEMMA InputClocks ==
  ASSUME Inv, NEW m \in Mapping, NEW edge \in Edge, Input(m, edge)
  PROVE  ClocksRun
<1> DEFINE r == SwitchOf[m]
<1>1. /\ active \in SUBSET Mapping
      /\ tracker \in [Switch -> {Untracked} \cup 0..EscapeHold]
      /\ \A s \in Switch : tracker[s] \in Int
      /\ Held(active) \in SUBSET Switch
  BY HeldType, TimeAssumption DEF TypeOK, Inv, Untracked
<1>2. CASE InputInner(m, edge)
  <2>1. Held(active') = Held(active) /\ tracker' = tracker
    BY <1>1, <1>2, InnerEdge DEF InputInner, Accepts, TrackerAfterInner
  <2> QED
    BY <1>1, <2>1 DEF ClocksRun
<1>3. CASE LogicalEdge(m, edge) /\ active' = Applied(active, m, edge)
             /\ tracker' = TrackerAfter(r, edge)
  <2>1. IsValid(active, m, edge) /\ Emits(active, m, edge)
    BY <1>3 DEF LogicalEdge, Accepts
  <2>2. CASE edge = Press
    <3>1. r \notin Held(active) /\ Held(active') = Held(active) \cup {r} /\ r \in Switch
      BY <1>1, <1>3, <2>1, <2>2, EmittedPress
    <3>2. tracker' = [tracker EXCEPT ![r] = 0]
      BY <1>3, <2>2 DEF TrackerAfter
    <3> QED
      BY <1>1, <3>1, <3>2 DEF ClocksRun
  <2>3. CASE edge = Release
    <3>1. Held(active') = Held(active) \ {r}
      BY <1>1, <1>3, <2>1, <2>3, EmittedRelease
    <3>2. tracker' = [tracker EXCEPT ![r] = Untracked]
      BY <1>3, <2>3, EdgesDiffer DEF TrackerAfter
    <3> QED
      BY <1>1, <3>1, <3>2 DEF ClocksRun
  <2> QED
    BY <2>2, <2>3 DEF Edge
<1>4. CASE InputOverflow(m, edge)
  BY <1>4, NothingHeld DEF InputOverflow, EndSession, ClocksRun
<1> QED
  BY <1>2, <1>3, <1>4 DEF Input, InputBroadcast, InputRouted

LEMMA StepClocks == Inv /\ [Next]_vars => ClocksRun
<1> SUFFICES ASSUME Inv, [Next]_vars PROVE ClocksRun
  OBVIOUS
<1>1. /\ tracker \in [Switch -> {Untracked} \cup 0..EscapeHold]
      /\ \A s \in Switch : tracker[s] \in Int
      /\ Held(active) \in SUBSET Switch
  BY HeldType, TimeAssumption DEF TypeOK, Inv, Untracked
<1>2. CASE UNCHANGED <<active, tracker>>
  BY <1>1, <1>2 DEF ClocksRun
<1>3. CASE active' = NoneActive
  BY <1>3, NothingHeld DEF ClocksRun
<1>4. CASE Advance
  <2>1. active' = active
        /\ tracker' = [s \in Switch |->
              IF tracker[s] = Untracked THEN Untracked ELSE Older(tracker[s], EscapeHold)]
    BY <1>4 DEF Advance
  <2>2. \A s \in Switch : tracker'[s] >= tracker[s]
    BY <1>1, <2>1 DEF Older
  <2> QED
    BY <1>1, <2>1, <2>2 DEF ClocksRun
<1>5. ASSUME NEW m \in Mapping, NEW edge \in Edge, Input(m, edge)
      PROVE  ClocksRun
  BY <1>5, InputClocks
<1>6. ASSUME NEW c \in Client, Unregister(c)
      PROVE  ClocksRun
  BY <1>2, <1>3, <1>6 DEF Unregister, EndSession, brokerVars
<1>7. ASSUME NEW c \in Client, Handshake(c)
      PROVE  ClocksRun
  <2>1. paused => active = NoneActive
    BY DEF Inv, CaptureFollowsRouting
  <2> QED
    BY <1>2, <1>3, <1>7, <2>1
    DEF Handshake, HandshakeInvalid, HandshakeBusy, HandshakeUnavailable, Reject,
        HandshakeGone, HandshakeAccepted, HandshakeUndelivered, brokerVars
<1>8. CASE RevokeSession \/ Tick \/ \E p \in Pid \cup {NoPid} : FocusChanged(p)
  BY <1>3, <1>8
  DEF RevokeSession, Tick, TickHeartbeat, TickEscape, FocusChanged, Revoke, EndSession
<1>9. CASE \/ Register
           \/ \E c \in Client, i \in SessionId : Heartbeat(c, i)
           \/ \E c \in Client : Connection(c)
           \/ UNCHANGED vars
  BY <1>2, <1>9
  DEF Register, Heartbeat, Connection, Receive, Stall, Unstall, HangUp, CutOff,
      LeaveLoop, SendUnregister, vars, brokerVars
<1> QED
  BY <1>4, <1>5, <1>6, <1>7, <1>8, <1>9 DEF Next, Command

\* Nothing but its release, or the end of the routing it is held in, sets back the
\* clock of a held switch.
THEOREM HeldClocksAlwaysRun == Spec => HeldClocksRun
<1>1. Inv /\ [Next]_vars => [ClocksRun]_vars
  BY StepClocks
<1> QED
  BY <1>1, Invariance, PTL DEF Spec, HeldClocksRun

-----------------------------------------------------------------------------
(* The broker implements Routing *)

\* The steps of Routing, seen from the broker's state.
LEMMA IsToggle ==
  ASSUME ~paused \/ Managed, UNCHANGED <<session, paused>>,
         NEW s \in Switch,
         Held(active') = (IF s \in Held(active) THEN Held(active) \ {s}
                          ELSE Held(active) \cup {s})
  PROVE  R!Next
<1>1. R!Toggle(s)
  BY DEF R!Toggle, Mode, Managed
<1> QED
  BY <1>1 DEF R!Next

LEMMA IsWithdraw ==
  ASSUME ~paused \/ Managed, session' = NoSession, paused' = TRUE,
         active' = NoneActive
  PROVE  R!Next
<1>1. R!Withdraw
  BY NoneLeft DEF R!Withdraw, Mode, Managed, NoSession
<1> QED
  BY <1>1 DEF R!Next

LEMMA IsGrant ==
  ASSUME ~Managed, NEW c \in Client, session' # NoSession, session'.client = c,
         Held(active') = {}
  PROVE  R!Next
<1>1. R!Grant(c)
  BY DEF R!Grant, Mode, Managed
<1> QED
  BY <1>1 DEF R!Next

LEMMA IsStutter ==
  ASSUME session'.client = session.client, Managed' <=> Managed,
         paused' = paused, Held(active') = Held(active)
  PROVE  UNCHANGED R!vars
BY DEF R!vars, Mode

LEMMA InputRefines ==
  ASSUME Inv, NEW m \in Mapping, NEW edge \in Edge, Input(m, edge)
  PROVE  [R!Next]_(R!vars)
<1> DEFINE s == SwitchOf[m]
<1>1. TypeOK /\ active \in SUBSET Mapping
  BY DEF Inv, TypeOK
<1>2. CASE InputInner(m, edge)
  <2>1. Held(active') = Held(active)
    BY <1>1, <1>2, InnerEdge DEF InputInner, Accepts
  <2> QED
    BY <1>2, <2>1, IsStutter DEF InputInner, Managed
<1>3. CASE InputBroadcast(m, edge) \/ InputRouted(m, edge)
  <2>1. /\ LogicalEdge(m, edge)
        /\ UNCHANGED <<session, paused>>
        /\ active' = Applied(active, m, edge)
    BY <1>3 DEF InputBroadcast, InputRouted
  <2>2. ~paused /\ IsValid(active, m, edge) /\ Emits(active, m, edge)
    BY <2>1 DEF LogicalEdge, Accepts, Listening
  <2>3. CASE edge = Press
    BY <1>1, <2>1, <2>2, <2>3, EmittedPress, IsToggle
  <2>4. CASE edge = Release
    BY <1>1, <2>1, <2>2, <2>4, EmittedRelease, IsToggle
  <2> QED
    BY <2>3, <2>4 DEF Edge
<1>4. CASE InputOverflow(m, edge)
  BY <1>4, IsWithdraw DEF InputOverflow, Routed, EndSession, Pause
<1> QED
  BY <1>2, <1>3, <1>4 DEF Input

LEMMA HandshakeRefines ==
  ASSUME Inv, NEW c \in Client, Handshake(c)
  PROVE  [R!Next]_(R!vars)
<1>1. CASE HandshakeInvalid(c) \/ HandshakeBusy(c) \/ HandshakeUnavailable(c)
  <2>1. UNCHANGED <<session, paused, active>>
    BY <1>1 DEF HandshakeInvalid, HandshakeBusy, HandshakeUnavailable, Reject,
                brokerVars
  <2> QED
    BY <2>1, IsStutter DEF Managed
<1>2. CASE HandshakeGone(c)
  BY <1>2, IsWithdraw DEF HandshakeGone, Busy, Managed, Pause
<1>3. ASSUME NEW p \in Pid \cup {NoPid}, HandshakeAccepted(c, p)
      PROVE  R!Next
  <2>1. /\ ~Managed
        /\ session'.client = c
        /\ session' # NoSession
    BY <1>3 DEF HandshakeAccepted, Busy, NoSession, Client
  <2>2. active' = NoneActive
    BY <1>3 DEF HandshakeAccepted, Inv, CaptureFollowsRouting
  <2> QED
    BY <2>1, <2>2, NoneLeft, IsGrant
<1>4. CASE HandshakeUndelivered(c)
  <2>1. /\ ~Managed
        /\ session' = NoSession
        /\ paused' = TRUE
        /\ active' = NoneActive
    BY <1>4 DEF HandshakeUndelivered, Busy, Pause
  <2>2. CASE paused
    <3>1. session' = session /\ active' = active /\ paused' = paused
      BY <2>1, <2>2 DEF Inv, CaptureFollowsRouting, Managed, TypeOK
    <3> QED
      BY <3>1, IsStutter DEF Managed
  <2>3. CASE ~paused
    BY <2>1, <2>3, IsWithdraw
  <2> QED
    BY <2>2, <2>3
<1> QED
  BY <1>1, <1>2, <1>3, <1>4, ClaimsType DEF Handshake

LEMMA EndRefines ==
  ASSUME Managed, NEW h, NEW kept, NEW pressed, NEW seq,
         EndSession(h, kept, pressed, seq)
  PROVE  R!Next
BY IsWithdraw DEF EndSession, Pause

LEMMA StepRefines == Inv /\ [Next]_vars => [R!Next]_(R!vars)
<1> SUFFICES ASSUME Inv, [Next]_vars PROVE [R!Next]_(R!vars)
  OBVIOUS
<1>1. ASSUME NEW m \in Mapping, NEW edge \in Edge, Input(m, edge)
      PROVE  [R!Next]_(R!vars)
  BY <1>1, InputRefines
<1>2. ASSUME NEW c \in Client, Handshake(c) PROVE [R!Next]_(R!vars)
  BY <1>2, HandshakeRefines
<1>3. ASSUME NEW c \in Client, Unregister(c) PROVE [R!Next]_(R!vars)
  <2>1. CASE Holds(c)
    <3>1. Managed
      BY <2>1 DEF Holds, Managed, NoSession, Client
    <3> QED
      BY <1>3, <2>1, <3>1, EndRefines DEF Unregister
  <2>2. CASE ~Holds(c)
    <3>1. UNCHANGED <<session, paused, active>>
      BY <1>3, <2>2 DEF Unregister, brokerVars
    <3> QED
      BY <3>1, IsStutter DEF Managed
  <2> QED
    BY <2>1, <2>2
<1>4. CASE RevokeSession \/ Tick \/ \E p \in Pid \cup {NoPid} : FocusChanged(p)
  BY <1>4, EndRefines
  DEF RevokeSession, Tick, TickHeartbeat, TickEscape, Expired, FocusChanged, Revoke
<1>5. ASSUME NEW c \in Client, NEW i \in SessionId, Heartbeat(c, i)
      PROVE  UNCHANGED R!vars
  <2>1. session \in [client : Client, id : SessionId,
                     pid : Pid \cup {NoPid}, age : 0..HeartbeatLimit]
    BY <1>5 DEF Inv, Heartbeat, NamesSession, TypeOK, NoSession, Client
  <2>2. session' = [session EXCEPT !.age = 0] /\ UNCHANGED <<active, paused>>
    BY <1>5 DEF Heartbeat
  <2>3. session'.client = session.client
    BY <2>1, <2>2
  <2>4. Managed /\ Managed'
    BY <2>1, <2>3 DEF Managed, NoSession, Client
  <2> QED
    BY <2>2, <2>3, <2>4, IsStutter
<1>6. CASE Advance
  <2>1. UNCHANGED <<active, paused>>
    BY <1>6 DEF Advance
  <2>2. CASE Managed
    <3>1. session \in [client : Client, id : SessionId,
                       pid : Pid \cup {NoPid}, age : 0..HeartbeatLimit]
      BY <2>2 DEF Inv, Managed, TypeOK
    <3>2. session' = [session EXCEPT !.age = Older(@, HeartbeatLimit)]
      BY <1>6, <2>2 DEF Advance
    <3>3. session'.client = session.client
      BY <3>1, <3>2
    <3>4. Managed'
      BY <3>1, <3>3 DEF Managed, NoSession, Client
    <3> QED
      BY <2>1, <2>2, <3>3, <3>4, IsStutter
  <2>3. CASE ~Managed
    BY <1>6, <2>1, <2>3, IsStutter DEF Advance, Managed
  <2> QED
    BY <2>2, <2>3
<1>7. CASE Register \/ UNCHANGED vars \/ \E c \in Client : Connection(c)
  <2>1. UNCHANGED <<session, paused, active>>
    BY <1>7 DEF Register, Connection, Receive, Stall, Unstall, HangUp, CutOff,
                LeaveLoop, SendUnregister, vars, brokerVars
  <2> QED
    BY <2>1, IsStutter DEF Managed
<1> QED
  BY <1>1, <1>2, <1>3, <1>4, <1>5, <1>6, <1>7 DEF Next, Command

\* Every behaviour of the broker is one that Routing allows: legacy routing does
\* not come back, and no session follows another without a pause between them.
THEOREM BrokerImplementsRouting == Spec => ImplementsRouting
<1>1. Init => R!Init
  BY NoneLeft DEF Init, R!Init, Mode, Managed, NoSession
<1> QED
  BY <1>1, StepRefines, Invariance, PTL DEF Spec, ImplementsRouting, R!Spec
=============================================================================
