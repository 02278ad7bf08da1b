------------------------------- MODULE Broker -------------------------------
(***************************************************************************)
(* The broker task of the daemon (crates/usahp-daemon/src/broker.rs) with  *)
(* the connection tasks that feed and drain it (server.rs).                *)
(*                                                                         *)
(* Every client is a connection task with a bounded queue of outgoing      *)
(* messages.  At first the broker is in legacy routing: switch events are  *)
(* broadcast to every client.  The first accepted handshake starts a       *)
(* managed session, in which one client receives every event; when the     *)
(* session ends the broker is paused and stays so until the next session.  *)
(*                                                                         *)
(* One action per broker command and per outcome of its handler, and one   *)
(* per step of a connection task.  Handlers are atomic: the broker owns    *)
(* its state, the only awaits inside a handler are on the capture backends *)
(* (module Capture), and a connection task can but drain its queue         *)
(* meanwhile, which commutes with the sends of the handler as long as one  *)
(* handler's messages fit an empty queue (QueueAssumption).  Commands may  *)
(* arrive in any order.                                                    *)
(*                                                                         *)
(* A message is not kept: told[c] is what the messages put in c's queue    *)
(* since its hello add up to, that is, what the client knows once it has   *)
(* read its queue, and pending[c] is how many it has yet to read.          *)
(***************************************************************************)
EXTENDS SwitchStateMachine

CONSTANTS
  MaxClients,       \* bound: connections over the life of the daemon
  QueueCapacity,    \* client_queue_capacity
  Pid, NoPid,       \* process ids, and None
  Claims,           \* the process ids a client's handshake may state
  HeartbeatLimit,   \* HEARTBEAT_INTERVAL_MS * MISSED_HEARTBEAT_LIMIT
  EscapeHold,       \* ESCAPE_HOLD_MS
  MaxSessions,      \* bound: sessions over the life of the daemon
  MaxSequence,      \* bound: switch events over the life of the daemon
  Frozen            \* clients that never send a heartbeat for their session

Client == 1..MaxClients
SessionId == 1..MaxSessions

ASSUME ClientAssumption == MaxClients \in Nat /\ Frozen \subseteq Client

\* A handler sends one client at most a release per switch and one response.
ASSUME QueueAssumption ==
  QueueCapacity \in Nat /\ Cardinality(Switch) + 1 <= QueueCapacity

ASSUME PidAssumption ==
  /\ NoPid \notin Pid
  /\ Claims \in [Client -> SUBSET (Pid \cup {NoPid})]

\* The heartbeat limit is the shorter one, as in the code (1500 ms, 4000 ms).
ASSUME TimeAssumption ==
  /\ HeartbeatLimit \in Nat \ {0}
  /\ EscapeHold \in Nat
  /\ HeartbeatLimit < EscapeHold

ASSUME BoundAssumption == MaxSessions \in Nat /\ MaxSequence \in Nat

VARIABLES
  \* The broker's Runtime.
  active,       \* state: the mappings that are pressed
  tracker,      \* escape_tracker: the age of each press, or Untracked
  sequence,     \* number of the last switch event
  nextClient,   \* next_client
  clients,      \* the clients that have an entry in the map
  session,      \* the managed session, or NoSession
  issued,       \* how many sessions were created; ids are never reused
  paused,
  enabled,      \* the flag of CaptureControl
  \* The connection tasks.
  conn,         \* where the task of each client is
  pending,      \* how many messages its queue holds
  told          \* what those already sent add up to

brokerVars == <<active, tracker, sequence, session, issued, paused, enabled>>
clientVars == <<nextClient, clients, conn, pending, told>>
vars == <<brokerVars, clientVars>>

Untracked == -1
NoSession == [client |-> 0, id |-> 0, pid |-> NoPid, age |-> 0]
Blank == [held |-> {}, count |-> 0, id |-> 0]

\* The task of a client: not connected yet; in its loop; in its loop but stuck
\* in a send to the socket; out of its loop, with the queue still there; with
\* the queue dropped and Unregister on its way to the broker; unregistered.
ConnState == {"none", "open", "stalled", "closing", "left", "done"}

Managed == session # NoSession

-----------------------------------------------------------------------------
(* Queues and what the clients are told *)

\* The receiving half of the queue exists.
HasQueue(c) == conn[c] \in {"open", "stalled", "closing"}

\* n messages can be sent to c one after the other with try_send.
Fits(c, n) == HasQueue(c) /\ pending[c] + n <= QueueCapacity

\* Faulty variant: a queue without a bound.
FilledUnbounded(c, n) == pending[c] + n

\* c's queue when n messages were sent to it, the last ones perhaps in vain.
Filled(c, n) ==
  IF ~HasQueue(c) THEN pending[c]
  ELSE IF Fits(c, n) THEN pending[c] + n
  ELSE QueueCapacity

\* Faulty variant: a client that misses a message stays in the map.
KeptAll(n) == clients

\* broadcast: the clients left when n messages were broadcast.
Kept(n) == {c \in clients : n = 0 \/ Fits(c, n)}

\* told when the clients outside kept were removed from the map.
Remembered(view, kept) == [c \in Client |-> IF c \in kept THEN view[c] ELSE Blank]

\* What a client knows after an edge of switch s, after the release of switches,
\* and after the notices that its session i has started and that it has ended.
Seen(view, s, edge) ==
  [held |-> IF edge = Press THEN view.held \cup {s} ELSE view.held \ {s},
   count |-> view.count + 1,
   id |-> view.id]

SeenReleased(view, switches) ==
  [held |-> view.held \ switches,
   count |-> view.count + Cardinality(switches),
   id |-> view.id]

\* Faulty variant: the response is lost, and the client and the session stay.
SeenNoResponse(view, i) == view

SeenAccepted(view, i) == [view EXCEPT !.id = i]

SeenRevoked(view) == [view EXCEPT !.id = 0]

-----------------------------------------------------------------------------
(* Parts of the handlers *)

\* Faulty variant: the broker's own flag is forgotten.
PauseFlagOnly == enabled' = FALSE /\ UNCHANGED paused

\* CaptureControl::pause and the flag of the broker.  What the backends make of it
\* is in module Capture; that they may fail is only logged.
Pause == enabled' = FALSE /\ paused' = TRUE

\* The clients left when n messages were sent to client h of kept.
KeptAfter(kept, h, n) == IF Fits(h, n) THEN kept ELSE kept \ {h}

\* revoke, with the session of h taken, for a broker whose clients are kept,
\* whose switches in pressed are down and whose last event was number seq: the
\* releases and the notice go to h, if it is still a client.
EndSession(h, kept, pressed, seq) ==
  LET n == Cardinality(pressed) + 1
      left == KeptAfter(kept, h, n)
  IN  /\ session' = NoSession
      /\ tracker' = [s \in Switch |-> Untracked]
      /\ active' = NoneActive
      /\ sequence' = seq + Cardinality(pressed)
      /\ Pause
      /\ clients' = left
      /\ pending' = IF h \in kept
                    THEN [pending EXCEPT ![h] = Filled(h, n)]
                    ELSE pending
      /\ told' = Remembered(
           IF Fits(h, n)
           THEN [told EXCEPT ![h] = SeenRevoked(SeenReleased(@, pressed))]
           ELSE told, left)
      /\ UNCHANGED issued

Revoke == EndSession(session.client, clients, Held(active), sequence)

\* The queues, and what is told, when n messages were broadcast after which
\* those reached know what view tells.
QueuesAfter(n) ==
  [c \in Client |-> IF c \in clients THEN Filled(c, n) ELSE pending[c]]

Reached(n, view) == [c \in Client |-> IF Fits(c, n) THEN view[c] ELSE told[c]]

Broadcast(n, view) ==
  /\ clients' = Kept(n)
  /\ pending' = QueuesAfter(n)
  /\ told' = Remembered(Reached(n, view), Kept(n))

-----------------------------------------------------------------------------
(* Input: an edge of a physical mapping *)

\* input: edges are dropped while the broker is paused or capture disabled.
Listening == ~paused /\ enabled

Accepts(m, edge) == Listening /\ IsValid(active, m, edge)

TrackerAfter(s, edge) ==
  [tracker EXCEPT ![s] = IF edge = Press THEN 0 ELSE Untracked]

\* The bound on events leaves room for the release of what is held.
MayNumber(edge) ==
  edge = Press => sequence + Cardinality(Held(active)) + 2 <= MaxSequence

LogicalEdge(m, edge) ==
  /\ Accepts(m, edge)
  /\ Emits(active, m, edge)
  /\ MayNumber(edge)

\* Faulty variant: any press of a switch restarts its clock.
TrackerRestarted(m, edge) ==
  IF edge = Press THEN [tracker EXCEPT ![SwitchOf[m]] = 0] ELSE tracker

TrackerAfterInner(m, edge) == tracker

\* An edge of a mapping of a switch that others hold: no event.
InputInner(m, edge) ==
  /\ Accepts(m, edge)
  /\ ~Emits(active, m, edge)
  /\ active' = Applied(active, m, edge)
  /\ tracker' = TrackerAfterInner(m, edge)
  /\ UNCHANGED <<sequence, session, issued, paused, enabled, clientVars>>

\* Faulty variant: events are broadcast in a session too.
NeverRouted == FALSE

\* The event goes to the holder of the session alone.
Routed == Managed

InputBroadcast(m, edge) ==
  /\ LogicalEdge(m, edge)
  /\ ~Routed
  /\ active' = Applied(active, m, edge)
  /\ tracker' = TrackerAfter(SwitchOf[m], edge)
  /\ sequence' = sequence + 1
  /\ Broadcast(1, [c \in Client |-> Seen(told[c], SwitchOf[m], edge)])
  /\ UNCHANGED <<nextClient, conn, session, issued, paused, enabled>>

InputRouted(m, edge) ==
  LET h == session.client
  IN  /\ LogicalEdge(m, edge)
      /\ Routed
      /\ h \in clients
      /\ Fits(h, 1)
      /\ active' = Applied(active, m, edge)
      /\ tracker' = TrackerAfter(SwitchOf[m], edge)
      /\ sequence' = sequence + 1
      /\ pending' = [pending EXCEPT ![h] = Filled(h, 1)]
      /\ told' = [told EXCEPT ![h] = Seen(@, SwitchOf[m], edge)]
      /\ UNCHANGED <<nextClient, clients, conn, session, issued, paused, enabled>>

\* The holder has no entry or no room: it is removed and the session revoked.
InputOverflow(m, edge) ==
  LET h == session.client
  IN  /\ LogicalEdge(m, edge)
      /\ Routed
      /\ ~(h \in clients /\ Fits(h, 1))
      /\ EndSession(h, clients \ {h}, Held(Applied(active, m, edge)), sequence + 1)
      /\ UNCHANGED <<nextClient, conn>>

-----------------------------------------------------------------------------
(* Register and Unregister *)

\* register: the new client gets the hello, with the switches that are held.
Register ==
  /\ nextClient <= MaxClients
  /\ conn' = [conn EXCEPT ![nextClient] = "open"]
  /\ pending' = [pending EXCEPT ![nextClient] = 1]
  /\ told' = [told EXCEPT ![nextClient] =
                [held |-> Held(active), count |-> sequence, id |-> 0]]
  /\ clients' = clients \cup {nextClient}
  /\ nextClient' = nextClient + 1
  /\ UNCHANGED brokerVars

\* Faulty variant: a client that has no entry in the map is not looked for.
HoldsIfPresent(c) == session.client = c /\ c \in clients

Holds(c) == session.client = c

Unregister(c) ==
  /\ conn[c] = "left"
  /\ conn' = [conn EXCEPT ![c] = "done"]
  /\ IF Holds(c)
     THEN EndSession(c, clients \ {c}, Held(active), sequence)
     ELSE /\ clients' = clients \ {c}
          /\ told' = Remembered(told, clients \ {c})
          /\ UNCHANGED <<pending, brokerVars>>
  /\ UNCHANGED nextClient

-----------------------------------------------------------------------------
(* Handshakes *)

\* A command of c may be in the broker's channel: it was sent from the loop of
\* c's task and is handled before c's Unregister, whatever became of c since.
MaySpeak(c) == conn[c] \in {"open", "stalled", "closing", "left"}

\* send_response with a rejection: the client is removed if it has no room.
Reject(c) ==
  LET left == KeptAfter(clients, c, 1)
  IN  /\ clients' = left
      /\ pending' = IF c \in clients
                    THEN [pending EXCEPT ![c] = Filled(c, 1)]
                    ELSE pending
      /\ told' = Remembered(told, left)
      /\ UNCHANGED <<nextClient, conn, brokerVars>>

\* Another protocol version, an invalid app id or an unsupported mode.
HandshakeInvalid(c) == MaySpeak(c) /\ Reject(c)

\* Faulty variant: a session may be taken over.
NeverBusy == FALSE

Busy == Managed

HandshakeBusy(c) == MaySpeak(c) /\ Busy /\ Reject(c)

\* The capture cannot be resumed; the broker stays paused.
HandshakeUnavailable(c) == MaySpeak(c) /\ ~Busy /\ paused /\ Reject(c)

\* What is released for every client before the first session, and what the
\* clients know after it.
Boundary == IF paused THEN {} ELSE Held(active)

Released == [c \in Client |-> SeenReleased(told[c], Boundary)]

\* The handshake of a client that has no entry in the map, possibly since the
\* release broadcast: the broker pauses with no session.  A resume that was
\* undone at once, when it was paused before, changes nothing.
HandshakeGone(c) ==
  LET n == Cardinality(Boundary)
  IN  /\ MaySpeak(c)
      /\ ~Busy
      /\ ~paused
      /\ c \notin Kept(n)
      /\ active' = NoneActive
      /\ sequence' = sequence + n
      /\ Broadcast(n, Released)
      /\ Pause
      /\ UNCHANGED <<tracker, session, issued, nextClient, conn>>

\* Faulty variant: the clocks started in legacy routing run on.
TrackerKept == tracker

TrackerCleared == [s \in Switch |-> Untracked]

\* The session of c is created; c is sent the response after the releases.
HandshakeAccepted(c, p) ==
  LET n == Cardinality(Boundary)
  IN  /\ MaySpeak(c)
      /\ ~Busy
      /\ c \in Kept(n)
      /\ Fits(c, n + 1)
      /\ issued < MaxSessions
      /\ issued' = issued + 1
      /\ session' = [client |-> c, id |-> issued + 1, pid |-> p, age |-> 0]
      /\ active' = IF paused THEN active ELSE NoneActive
      /\ sequence' = sequence + n
      /\ tracker' = TrackerCleared
      /\ paused' = FALSE
      /\ enabled' = (paused \/ enabled)
      /\ clients' = Kept(n)
      /\ pending' = [QueuesAfter(n) EXCEPT ![c] = Filled(c, n + 1)]
      /\ told' = Remembered(
           [Reached(n, Released) EXCEPT ![c] = SeenAccepted(@, issued + 1)], Kept(n))
      /\ UNCHANGED <<nextClient, conn>>

\* The response does not fit after the releases: the session is revoked at once.
HandshakeUndelivered(c) ==
  LET n == Cardinality(Boundary)
  IN  /\ MaySpeak(c)
      /\ ~Busy
      /\ c \in Kept(n)
      /\ ~Fits(c, n + 1)
      /\ issued < MaxSessions
      /\ issued' = issued + 1
      /\ session' = NoSession
      /\ active' = NoneActive
      /\ sequence' = sequence + n
      /\ tracker' = TrackerCleared
      /\ Pause
      /\ clients' = Kept(n) \ {c}
      /\ pending' = QueuesAfter(n)
      /\ told' = Remembered(Reached(n, Released), Kept(n) \ {c})
      /\ UNCHANGED <<nextClient, conn>>

-----------------------------------------------------------------------------
(* Heartbeats, focus and the ticker *)

\* Faulty variant: a heartbeat for any session of the client counts.
NamesAnySession(c, i) == session.client = c

NamesSession(c, i) == session.client = c /\ session.id = i

\* A heartbeat of c for session i.  One that is still in the channel when c's
\* task stops reading commutes with that step.
Heartbeat(c, i) ==
  /\ conn[c] = "open"
  /\ i <= issued
  /\ c \in Frozen => ~(session.client = c /\ session.id = i)
  /\ NamesSession(c, i)
  /\ session' = [session EXCEPT !.age = 0]
  /\ UNCHANGED <<active, tracker, sequence, issued, paused, enabled, clientVars>>

\* RevokeSession, for whatever reason.
RevokeSession ==
  /\ Managed
  /\ Revoke
  /\ UNCHANGED <<nextClient, conn>>

\* FocusChanged: the frontmost application is p, or unknown.
FocusChanged(p) ==
  /\ Managed
  /\ session.pid # NoPid
  /\ session.pid # p
  /\ Revoke
  /\ UNCHANGED <<nextClient, conn>>

\* Faulty variant: a session whose client is gone is not looked at.
ExpiredIfPresent ==
  Managed /\ session.client \in clients /\ session.age >= HeartbeatLimit

Expired == Managed /\ session.age >= HeartbeatLimit

\* The ticker: an expired session is revoked for that, else one with a switch
\* held for too long by the escape hatch.
TickHeartbeat ==
  /\ Expired
  /\ Revoke
  /\ UNCHANGED <<nextClient, conn>>

TickEscape ==
  /\ Managed
  /\ ~Expired
  /\ \E s \in Switch : tracker[s] >= EscapeHold
  /\ Revoke
  /\ UNCHANGED <<nextClient, conn>>

Tick == TickHeartbeat \/ TickEscape

\* A unit of time passes.  Ages stop at the limit they are compared with.
Older(age, limit) == IF age < limit THEN age + 1 ELSE age

Advance ==
  /\ session' = IF Managed
                THEN [session EXCEPT !.age = Older(@, HeartbeatLimit)]
                ELSE session
  /\ tracker' = [s \in Switch |->
       IF tracker[s] = Untracked THEN Untracked ELSE Older(tracker[s], EscapeHold)]
  /\ UNCHANGED <<active, sequence, issued, paused, enabled, clientVars>>

-----------------------------------------------------------------------------
(* The connection tasks (server.rs, handle_client) *)

\* A message is taken from the queue and written to the socket ...
Receive(c) ==
  /\ conn[c] = "open"
  /\ pending[c] > 0
  /\ pending' = [pending EXCEPT ![c] = @ - 1]
  /\ UNCHANGED <<conn, nextClient, clients, told, brokerVars>>

\* ... or the write blocks: nothing is read from the client meanwhile.
Stall(c) ==
  /\ conn[c] = "open"
  /\ pending[c] > 0
  /\ pending' = [pending EXCEPT ![c] = @ - 1]
  /\ conn' = [conn EXCEPT ![c] = "stalled"]
  /\ UNCHANGED <<nextClient, clients, told, brokerVars>>

Unstall(c) ==
  /\ conn[c] = "stalled"
  /\ conn' = [conn EXCEPT ![c] = "open"]
  /\ UNCHANGED <<nextClient, clients, pending, told, brokerVars>>

LeaveLoop(c) ==
  /\ conn' = [conn EXCEPT ![c] = "closing"]
  /\ UNCHANGED <<nextClient, clients, pending, told, brokerVars>>

\* The socket is closed or broken, found out by a read or by a write.
HangUp(c) == conn[c] \in {"open", "stalled"} /\ LeaveLoop(c)

\* The broker has dropped the sender and the queue is drained.
CutOff(c) ==
  /\ conn[c] = "open"
  /\ c \notin clients
  /\ pending[c] = 0
  /\ LeaveLoop(c)

\* Unregister is sent and the task ends, its queue with it.
SendUnregister(c) ==
  /\ conn[c] = "closing"
  /\ conn' = [conn EXCEPT ![c] = "left"]
  /\ pending' = [pending EXCEPT ![c] = 0]
  /\ UNCHANGED <<nextClient, clients, told, brokerVars>>

-----------------------------------------------------------------------------
Init ==
  /\ active = NoneActive
  /\ tracker = [s \in Switch |-> Untracked]
  /\ sequence = 0
  /\ nextClient = 1
  /\ clients = {}
  /\ session = NoSession
  /\ issued = 0
  /\ paused = FALSE
  /\ enabled = TRUE
  /\ conn = [c \in Client |-> "none"]
  /\ pending = [c \in Client |-> 0]
  /\ told = [c \in Client |-> Blank]

Input(m, edge) ==
  \/ InputInner(m, edge)
  \/ InputBroadcast(m, edge)
  \/ InputRouted(m, edge)
  \/ InputOverflow(m, edge)

Handshake(c) ==
  \/ HandshakeInvalid(c)
  \/ HandshakeBusy(c)
  \/ HandshakeUnavailable(c)
  \/ HandshakeGone(c)
  \/ \E p \in Claims[c] : HandshakeAccepted(c, p)
  \/ HandshakeUndelivered(c)

\* The commands of the connections, of the devices and of the watchers.
Command ==
  \/ Register
  \/ \E m \in Mapping, edge \in Edge : Input(m, edge)
  \/ \E c \in Client : Unregister(c) \/ Handshake(c)
  \/ \E c \in Client, i \in SessionId : Heartbeat(c, i)
  \/ RevokeSession
  \/ \E p \in Pid \cup {NoPid} : FocusChanged(p)

Connection(c) ==
  \/ Receive(c)
  \/ Stall(c)
  \/ Unstall(c)
  \/ HangUp(c)
  \/ CutOff(c)
  \/ SendUnregister(c)

Next ==
  \/ Command
  \/ Tick
  \/ Advance
  \/ \E c \in Client : Connection(c)

Spec == Init /\ [][Next]_vars

\* Time passes, the ticker of the broker is not starved (select! picks among the
\* ready branches at random), and a connection task that can take a message, end
\* or have its Unregister handled does so.  A write may block for ever, and no
\* client, device or watcher ever has to send anything.
Fairness ==
  /\ WF_vars(Advance)
  /\ WF_vars(Tick)
  /\ \A c \in Client :
       /\ WF_vars(Receive(c) \/ Stall(c))
       /\ WF_vars(CutOff(c))
       /\ WF_vars(SendUnregister(c))
       /\ WF_vars(Unregister(c))

FairSpec == Spec /\ Fairness

-----------------------------------------------------------------------------
(* Safety *)

View == [held : SUBSET Switch, count : Nat, id : Nat]

TypeOK ==
  /\ active \subseteq Mapping
  /\ tracker \in [Switch -> {Untracked} \cup 0..EscapeHold]
  /\ sequence \in Nat
  /\ nextClient \in 1..MaxClients + 1
  /\ clients \subseteq 1..nextClient - 1
  /\ session \in {NoSession} \cup
       [client : Client, id : SessionId, pid : Pid \cup {NoPid}, age : 0..HeartbeatLimit]
  /\ issued \in 0..MaxSessions
  /\ paused \in BOOLEAN
  /\ enabled \in BOOLEAN
  /\ conn \in [Client -> ConnState]
  /\ pending \in [Client -> 0..QueueCapacity]
  /\ told \in [Client -> View]
  /\ \A c \in Client : conn[c] = "none" <=> c >= nextClient

\* The escape hatch watches exactly the switches that are held, whenever events
\* flow: every held switch has a running clock, and no clock of an earlier epoch
\* or of a released switch can end a session.
EscapeArmed ==
  ~paused => \A s \in Switch : tracker[s] # Untracked <=> s \in Held(active)

\* Capture is enabled exactly when the broker is not paused, a session exists
\* only then, and nothing is held down while it is paused.
CaptureFollowsRouting ==
  /\ enabled = ~paused
  /\ Managed => ~paused
  /\ paused => active = NoneActive

\* A session never outlives its connection: the task of its client still runs, or
\* its Unregister is on its way, so that somebody can end the session.
SessionHasConnection == Managed => MaySpeak(session.client)

\* What a client the broker still talks to believes is what the broker has: the holder
\* of the session has been told its id, even when the queue was almost full, and nobody
\* else believes in any session, so that an ended one has been announced.
NoSplitBrain ==
  \A c \in clients : told[c].id = IF session.client = c THEN session.id ELSE 0

Legacy == ~Managed /\ ~paused

\* In legacy routing no client has missed an event, and what its hello and the
\* events since then add up to is what is held.
LegacyInSync ==
  Legacy => \A c \in clients :
    told[c].held = Held(active) /\ told[c].count = sequence

Changed(s) == (s \in Held(active)) # (s \in Held(active)')

HolderTold ==
  \A h \in clients' :
    session.client = h =>
      /\ told'[h].count - told[h].count = sequence' - sequence
      /\ \A s \in Switch :
           IF Changed(s)
           THEN s \in told'[h].held <=> s \in Held(active')
           ELSE s \in told'[h].held <=> s \in told[h].held

\* While a session lasts, and in the step that ends it, its client is told every
\* change of every switch, each in an event of its own and without a gap in the
\* sequence, or it is cut.
HolderTracksState == [][HolderTold]_vars

OthersUntold ==
  Managed => \A c \in clients \cap clients' :
    c # session.client =>
      told'[c].held = told[c].held /\ told'[c].count = told[c].count

\* While a session lasts, and in the step that ends it, no other client is told
\* of any switch.
ExclusiveRouting == [][OthersUntold]_vars

ClocksRun ==
  \A s \in Held(active') :
    IF s \in Held(active) THEN tracker'[s] >= tracker[s] ELSE tracker'[s] = 0

\* A switch that goes down starts a new clock, and nothing but its release, or the end
\* of the routing it is held in, sets that back: no edge of another mapping of the
\* switch, no start of a session and no step of another client.
HeldClocksRun == [][ClocksRun]_vars

-----------------------------------------------------------------------------
(* Liveness *)

\* A client that stops sending heartbeats for its session loses it, however many
\* stale heartbeats it and others send.
FrozenSessionEnds ==
  \A c \in Frozen : session.client = c ~> session.client # c

\* The escape hatch: no switch can be held for ever in a session.
HeldSwitchEndsSession ==
  \A s \in Switch : (Managed /\ s \in Held(active)) ~> ~(Managed /\ s \in Held(active))

\* A session whose client was removed from the map ends, though nobody can tell
\* the client and its socket may be stuck.
OrphanedSessionEnds ==
  \A c \in Client :
    (session.client = c /\ c \notin clients) ~> session.client # c

-----------------------------------------------------------------------------
(* What the broker promises about routing *)

Mode == IF Managed THEN "managed" ELSE IF paused THEN "paused" ELSE "legacy"

R == INSTANCE Routing WITH
       Nobody <- 0, mode <- Mode, holder <- session.client, held <- Held(active)

\* Every step of the broker is a step of Routing or does not concern it: legacy
\* routing never comes back, sessions are never handed over directly, and each
\* starts with every switch released.
ImplementsRouting == R!Spec

-----------------------------------------------------------------------------
(* What the documentation says and the code does not keep *)

\* docs/protocol-v0.md:9: a passive client "continues to receive legacy
\* broadcasts until a managed session is accepted".
LegacyUntilAccepted == issued = 0 => ~paused

\* docs/clients.md:3: a client should "treat the first hello as the complete
\* current state", so that it and the events since then are the state of the
\* switches in the client's own session.
HolderInSync ==
  session.client \in clients => told[session.client].held = Held(active)
=============================================================================
