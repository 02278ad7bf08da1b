------------------------------- MODULE Capture -------------------------------
(***************************************************************************)
(* How capture is taken and given back: CaptureControl and the threads of  *)
(* the input backends (crates/usahp-daemon/src/input.rs), the channel in   *)
(* which they and the connections queue commands for the broker, and the   *)
(* part of the broker that pauses and resumes them (broker.rs, run, revoke *)
(* and handshake).                                                         *)
(*                                                                         *)
(* Module Broker has handlers that are atomic.  Here they are not: a pause *)
(* or a resume is an order to every evdev thread, and the broker handles   *)
(* nothing until each has answered or is gone.  A thread answers between   *)
(* two batches of events, and inside a batch it may wait for room in the   *)
(* channel that only the broker empties.                                   *)
(*                                                                         *)
(* An edge is known by the epoch in which the user made it, and by whether *)
(* other programs got it too.  The epoch is even while events are routed,  *)
(* odd from the start of a pause to the next session; sessions, clients    *)
(* and switches are those of module Broker.                                *)
(***************************************************************************)
EXTENDS Integers, Sequences

CONSTANTS
  Device,           \* the evdev devices, each with a thread of its own
  ChannelCapacity,  \* capacity of the broker's command channel (1024)
  MaxEdges,         \* bound: edges of each source
  MaxPosts,         \* bound: commands the connections send
  MaxEpoch          \* bound: changes between routing and pause

ASSUME CaptureAssumption ==
  /\ ChannelCapacity \in Nat \ {0}
  /\ MaxEdges \in Nat
  /\ MaxPosts \in Nat
  /\ MaxEpoch \in Nat

VARIABLES
  \* The broker.
  stage,      \* what it is waiting for
  session,    \* whether there is a managed session
  paused,
  enabled,    \* the flag of CaptureControl
  epoch,
  channel,    \* the commands that it has yet to handle
  posts,      \* how many of them the connections have sent
  \* The threads of the devices.
  thread,     \* where each is
  ask,        \* the broker's order to it, or the answer
  grabbed,    \* whether it has the device exclusively
  present,    \* whether the device is still there
  buffer,     \* the edges it can read from the device
  batch,      \* those it has read and not yet passed on
  edges,      \* how many were made
  \* The keyboard hook.
  hook,       \* the edge it is about to send, or NoEdge
  keys        \* how many were made

brokerVars == <<stage, session, paused, enabled, epoch, posts>>
threadVars == <<thread, grabbed, present, buffer, batch, edges>>
deviceVars == <<ask, threadVars>>
hookVars == <<hook, keys>>
vars == <<brokerVars, channel, deviceVars, hookVars>>

Epoch == 0..MaxEpoch

\* Waiting for a command, for the answers to Pause, to Resume, to the Pause that
\* takes back a Resume, and with a resumed capture that nobody wants any more.
Stage == {"idle", "pausing", "resuming", "undoing", "abandoning"}

\* Opening the device, with the device open, looking for orders, between the two
\* halves of a resume, reading, with a batch in hand, sending an edge, ended.
ThreadState == {"opening", "opened", "orders", "resuming", "reading", "batch",
                "sending", "dead"}

Order == {"pause", "resume"}
Answer == {"ok", "failed"}

Edge == [kind : {"edge"}, made : Epoch, shared : BOOLEAN]
EdgeNow(shared) == [kind |-> "edge", made |-> epoch, shared |-> shared]
Handshake == [kind |-> "handshake"]
\* Unregister, FocusChanged or RevokeSession; without a session it changes nothing
\* here, as Register and Heartbeat never do.
End == [kind |-> "end"]
Request == {Handshake, End}
NoEdge == [kind |-> "none"]

\* Faulty variant: off by one.
HasRoomForLast == Len(channel) <= ChannelCapacity

HasRoom == Len(channel) < ChannelCapacity

-----------------------------------------------------------------------------
(* CaptureControl *)

\* Faulty variant: an order to a thread that has ended waits for an answer.
CommandUnchecked(order) == ask' = [d \in Device |-> order]

\* command_backends: the order goes to every thread; one that has ended cannot
\* be given it.
Command(order) ==
  ask' = [d \in Device |-> IF thread[d] = "dead" THEN "failed" ELSE order]

\* Faulty variant: the first answer is enough.
AnyAnswered == Device # {} => \E d \in Device : ask[d] \in Answer

\* All answers are there.
Answered == \A d \in Device : ask[d] \in Answer

\* Faulty variant: one backend that does as it is told is enough.
AnyAnsweredOk == Device # {} => \E d \in Device : ask[d] = "ok"

AllAnsweredOk == \A d \in Device : ask[d] = "ok"

Settled == ask' = [d \in Device |-> "none"]

\* The flag is cleared before any backend is asked.
StartPause ==
  /\ epoch < MaxEpoch
  /\ enabled' = FALSE
  /\ epoch' = epoch + 1
  /\ Command("pause")
  /\ stage' = "pausing"

-----------------------------------------------------------------------------
(* The broker *)

\* Revocations come from a command, from the ticker, or from a message to the
\* holder that does not fit its queue; the last are taken together with the ticker's.
Revoke ==
  /\ session
  /\ session' = FALSE
  /\ StartPause

Listening == ~paused /\ enabled

Idle == stage = "idle" /\ channel # <<>>

\* Edges are dropped or applied; what they do to the switches is in Broker.
TakeEdge ==
  /\ Idle
  /\ Head(channel).kind = "edge"
  /\ channel' = Tail(channel)
  /\ UNCHANGED <<brokerVars, deviceVars, hookVars>>

\* A command that changes nothing: for another session, or while there is one.
TakeOther ==
  /\ Idle
  /\ \/ Head(channel) = End /\ ~session
     \/ Head(channel) = Handshake /\ session
  /\ channel' = Tail(channel)
  /\ UNCHANGED <<brokerVars, deviceVars, hookVars>>

\* Unregister, FocusChanged or RevokeSession, for the session that there is.
TakeEnd ==
  /\ Idle
  /\ Head(channel) = End
  /\ channel' = Tail(channel)
  /\ Revoke
  /\ UNCHANGED <<paused, posts, threadVars, hookVars>>

\* The ticker ends the session: heartbeat timeout or escape hatch.  So does, at any
\* time, a full queue.
Tick ==
  /\ stage = "idle"
  /\ Revoke
  /\ UNCHANGED <<paused, posts, channel, threadVars, hookVars>>

\* A handshake in legacy routing needs nothing from the backends.
TakeFirstHandshake ==
  /\ Idle
  /\ Head(channel) = Handshake
  /\ ~session
  /\ ~paused
  /\ channel' = Tail(channel)
  /\ session' = TRUE
  /\ UNCHANGED <<stage, paused, enabled, epoch, posts, deviceVars, hookVars>>

\* When its client has gone, capture is paused and nothing else is done.
TakeHandshakeForNobody ==
  /\ Idle
  /\ Head(channel) = Handshake
  /\ ~session
  /\ ~paused
  /\ channel' = Tail(channel)
  /\ StartPause
  /\ UNCHANGED <<session, paused, posts, threadVars, hookVars>>

\* A later one resumes them first.
TakeHandshake ==
  /\ Idle
  /\ Head(channel) = Handshake
  /\ ~session
  /\ paused
  /\ epoch + 1 < MaxEpoch
  /\ channel' = Tail(channel)
  /\ Command("resume")
  /\ stage' = "resuming"
  /\ UNCHANGED <<session, paused, enabled, epoch, posts, threadVars, hookVars>>

\* pause returns, whatever the answers were: a failure is only logged.
Paused ==
  /\ stage = "pausing"
  /\ Answered
  /\ Settled
  /\ paused' = TRUE
  /\ stage' = "idle"
  /\ UNCHANGED <<session, enabled, epoch, posts, channel, threadVars, hookVars>>

\* resume returns with every backend reacquired.  The session starts ...
Resumed ==
  /\ stage = "resuming"
  /\ Answered
  /\ AllAnsweredOk
  /\ Settled
  /\ enabled' = TRUE
  /\ epoch' = epoch + 1
  /\ paused' = FALSE
  /\ session' = TRUE
  /\ stage' = "idle"
  /\ UNCHANGED <<posts, channel, threadVars, hookVars>>

\* ... unless the client has gone, and then capture is paused again.
ResumedForNobody ==
  /\ stage = "resuming"
  /\ Answered
  /\ AllAnsweredOk
  /\ Settled
  /\ enabled' = TRUE
  /\ epoch' = epoch + 1
  /\ stage' = "abandoning"
  /\ UNCHANGED <<session, paused, posts, channel, threadVars, hookVars>>

Abandon ==
  /\ stage = "abandoning"
  /\ StartPause
  /\ UNCHANGED <<session, paused, posts, channel, threadVars, hookVars>>

\* Faulty variant: the backends that were resumed stay so.
KeepResumed == stage' = "idle" /\ ask' = [d \in Device |-> "none"]

Rollback == stage' = "undoing" /\ Command("pause")

\* resume fails: the backends that were resumed are paused again first.
ResumeFailed ==
  /\ stage = "resuming"
  /\ Answered
  /\ ~AllAnsweredOk
  /\ Rollback
  /\ UNCHANGED <<session, paused, enabled, epoch, posts, channel, threadVars, hookVars>>

Undone ==
  /\ stage = "undoing"
  /\ Answered
  /\ Settled
  /\ stage' = "idle"
  /\ UNCHANGED <<session, paused, enabled, epoch, posts, channel, threadVars, hookVars>>

\* A connection sends a command when there is room for it.
Post(r) ==
  /\ posts < MaxPosts
  /\ HasRoom
  /\ posts' = posts + 1
  /\ channel' = Append(channel, r)
  /\ UNCHANGED <<stage, session, paused, enabled, epoch, deviceVars, hookVars>>

-----------------------------------------------------------------------------
(* The thread of an evdev device *)

Alive(d) == thread[d] \notin {"opening", "opened", "dead"}

Goto(d, s) == thread' = [thread EXCEPT ![d] = s]

Reply(d, answer) == ask' = [ask EXCEPT ![d] = answer]

\* The thread returns: the device is closed, which lets go of it, and an order
\* that it has not answered is lost.
Die(d) ==
  /\ Goto(d, "dead")
  /\ Reply(d, IF ask[d] \in Order THEN "failed" ELSE ask[d])
  /\ grabbed' = [grabbed EXCEPT ![d] = FALSE]
  /\ buffer' = [buffer EXCEPT ![d] = <<>>]
  /\ batch' = [batch EXCEPT ![d] = <<>>]
  /\ UNCHANGED <<channel, present, edges>>

\* From here on the device's edges can be read.
Open(d) ==
  /\ thread[d] = "opening"
  /\ present[d]
  /\ Goto(d, "opened")
  /\ UNCHANGED <<channel, ask, grabbed, present, buffer, batch, edges>>

Grab(d) ==
  /\ thread[d] = "opened"
  /\ present[d]
  /\ Goto(d, "orders")
  /\ grabbed' = [grabbed EXCEPT ![d] = TRUE]
  /\ UNCHANGED <<channel, ask, present, buffer, batch, edges>>

\* The device is missing, not permitted, or another program has it.  That is
\* logged and nobody is told.
StartFailed(d) == thread[d] \in {"opening", "opened"} /\ Die(d)

\* Giving the device up fails when it is no longer there.
HandlePause(d) ==
  /\ thread[d] = "orders"
  /\ ask[d] = "pause"
  /\ \/ ~grabbed[d] /\ Reply(d, "ok") /\ UNCHANGED grabbed
     \/ /\ grabbed[d]
        /\ present[d]
        /\ Reply(d, "ok")
        /\ grabbed' = [grabbed EXCEPT ![d] = FALSE]
     \/ grabbed[d] /\ ~present[d] /\ Reply(d, "failed") /\ UNCHANGED grabbed
  /\ UNCHANGED <<channel, thread, present, buffer, batch, edges>>

\* Faulty variant: only the device is taken.
DiscardNothing(d) == UNCHANGED buffer

\* Everything that can be read is.
Discard(d) == buffer' = [buffer EXCEPT ![d] = <<>>]

\* A resume first discards what can be read ...
Drain(d) ==
  /\ thread[d] = "orders"
  /\ ask[d] = "resume"
  /\ IF present[d]
       THEN Goto(d, "resuming") /\ Discard(d) /\ UNCHANGED ask
       ELSE Reply(d, "failed") /\ UNCHANGED <<thread, buffer>>
  /\ UNCHANGED <<channel, grabbed, present, batch, edges>>

\* ... and then takes the device, unless it has it or cannot have it.
Regrab(d) ==
  /\ thread[d] = "resuming"
  /\ Goto(d, "orders")
  /\ \/ grabbed[d] /\ Reply(d, "ok") /\ UNCHANGED grabbed
     \/ /\ ~grabbed[d]
        /\ present[d]
        /\ Reply(d, "ok")
        /\ grabbed' = [grabbed EXCEPT ![d] = TRUE]
     \/ ~grabbed[d] /\ Reply(d, "failed") /\ UNCHANGED grabbed
  /\ UNCHANGED <<channel, present, buffer, batch, edges>>

NoOrder(d) ==
  /\ thread[d] = "orders"
  /\ ask[d] \notin Order
  /\ Goto(d, "reading")
  /\ UNCHANGED <<channel, ask, grabbed, present, buffer, batch, edges>>

Read(d) ==
  /\ thread[d] = "reading"
  /\ present[d]
  /\ Goto(d, "batch")
  /\ batch' = [batch EXCEPT ![d] = buffer[d]]
  /\ buffer' = [buffer EXCEPT ![d] = <<>>]
  /\ UNCHANGED <<channel, ask, grabbed, present, edges>>

ReadFailed(d) == thread[d] = "reading" /\ ~present[d] /\ Die(d)

BatchDone(d) ==
  /\ thread[d] = "batch"
  /\ batch[d] = <<>>
  /\ Goto(d, "orders")
  /\ UNCHANGED <<channel, ask, grabbed, present, buffer, batch, edges>>

\* The flag is looked at once for each edge.
Ignore(d) ==
  /\ thread[d] = "batch"
  /\ batch[d] # <<>>
  /\ ~enabled
  /\ batch' = [batch EXCEPT ![d] = Tail(@)]
  /\ UNCHANGED <<channel, thread, ask, grabbed, present, buffer, edges>>

PassOn(d) ==
  /\ thread[d] = "batch"
  /\ batch[d] # <<>>
  /\ enabled
  /\ Goto(d, "sending")
  /\ UNCHANGED <<channel, ask, grabbed, present, buffer, batch, edges>>

\* blocking_send: wait until there is room.
Send(d) ==
  /\ thread[d] = "sending"
  /\ HasRoom
  /\ channel' = Append(channel, Head(batch[d]))
  /\ batch' = [batch EXCEPT ![d] = Tail(@)]
  /\ Goto(d, "batch")
  /\ UNCHANGED <<ask, grabbed, present, buffer, edges>>

Step(d) ==
  /\ \/ Open(d)
     \/ Grab(d)
     \/ StartFailed(d)
     \/ HandlePause(d)
     \/ Drain(d)
     \/ Regrab(d)
     \/ NoOrder(d)
     \/ Read(d)
     \/ ReadFailed(d)
     \/ BatchDone(d)
     \/ Ignore(d)
     \/ PassOn(d)
     \/ Send(d)
  /\ UNCHANGED <<brokerVars, hookVars>>

\* The user works a switch.  The edge can be read by whoever has the device open;
\* nobody else gets it while it is grabbed.
Make(d) ==
  /\ present[d]
  /\ thread[d] \notin {"opening", "dead"}
  /\ edges[d] < MaxEdges
  /\ edges' = [edges EXCEPT ![d] = @ + 1]
  /\ buffer' = [buffer EXCEPT ![d] = Append(@, EdgeNow(~grabbed[d]))]
  /\ UNCHANGED <<brokerVars, channel, thread, ask, grabbed, present, batch, hookVars>>

Lose(d) ==
  /\ present[d]
  /\ present' = [present EXCEPT ![d] = FALSE]
  /\ UNCHANGED <<brokerVars, channel, thread, ask, grabbed, buffer, batch, edges,
                 hookVars>>

-----------------------------------------------------------------------------
(* The keyboard hook: one callback at a time, run for each key *)

\* While capture is paused the callback hands the key to the OS and does nothing.
Key ==
  /\ hook = NoEdge
  /\ enabled
  /\ keys < MaxEdges
  /\ keys' = keys + 1
  /\ hook' = EdgeNow(FALSE)
  /\ UNCHANGED <<brokerVars, channel, deviceVars>>

SendKey ==
  /\ hook # NoEdge
  /\ HasRoom
  /\ channel' = Append(channel, hook)
  /\ hook' = NoEdge
  /\ UNCHANGED <<brokerVars, deviceVars, keys>>

-----------------------------------------------------------------------------
(* Specification *)

Init ==
  /\ stage = "idle"
  /\ session = FALSE
  /\ paused = FALSE
  /\ enabled = TRUE
  /\ epoch = 0
  /\ channel = <<>>
  /\ posts = 0
  /\ thread = [d \in Device |-> "opening"]
  /\ ask = [d \in Device |-> "none"]
  /\ grabbed = [d \in Device |-> FALSE]
  /\ present \in [Device -> BOOLEAN]
  /\ buffer = [d \in Device |-> <<>>]
  /\ batch = [d \in Device |-> <<>>]
  /\ edges = [d \in Device |-> 0]
  /\ hook = NoEdge
  /\ keys = 0

Take ==
  \/ TakeEdge
  \/ TakeOther
  \/ TakeEnd
  \/ TakeFirstHandshake
  \/ TakeHandshakeForNobody
  \/ TakeHandshake

Proceed ==
  \/ Paused
  \/ Resumed
  \/ ResumedForNobody
  \/ Abandon
  \/ ResumeFailed
  \/ Undone

Next ==
  \/ Take
  \/ Tick
  \/ Proceed
  \/ \E r \in Request : Post(r)
  \/ \E d \in Device : Step(d) \/ Make(d) \/ Lose(d)
  \/ Key
  \/ SendKey

Spec == Init /\ [][Next]_vars

\* The scheduler runs the broker's task and every thread that can go on.  What the
\* user, the connections and the clock do is up to them.
Fairness ==
  /\ WF_vars(Take)
  /\ WF_vars(Proceed)
  /\ WF_vars(SendKey)
  /\ \A d \in Device : WF_vars(Step(d))

FairSpec == Spec /\ Fairness

-----------------------------------------------------------------------------
(* Properties *)

\* The types, the capacity of the command channel, and that the epoch counts the
\* changes of the flag.
TypeOK ==
  /\ stage \in Stage
  /\ session \in BOOLEAN
  /\ paused \in BOOLEAN
  /\ enabled \in BOOLEAN
  /\ epoch \in Epoch
  /\ enabled <=> epoch % 2 = 0
  /\ channel \in Seq(Edge \cup Request)
  /\ Len(channel) <= ChannelCapacity
  /\ posts \in 0..MaxPosts
  /\ thread \in [Device -> ThreadState]
  /\ ask \in [Device -> {"none"} \cup Order \cup Answer]
  /\ grabbed \in [Device -> BOOLEAN]
  /\ present \in [Device -> BOOLEAN]
  /\ buffer \in [Device -> Seq(Edge)]
  /\ batch \in [Device -> Seq(Edge)]
  /\ edges \in [Device -> 0..MaxEdges]
  /\ hook \in Edge \cup {NoEdge}
  /\ keys \in 0..MaxEdges

\* While nobody holds a session after one has ended, other programs have every
\* device that is there, also when a resume was tried and some device refused
\* (resume takes back the others).
PausedIsReleased ==
  stage = "idle" /\ paused => \A d \in Device : Alive(d) /\ present[d] => ~grabbed[d]

\* No thread still has an edge to send when revoke goes on: it waits for threads
\* that passed the flag before it was cleared.
PausedIsQuiet ==
  stage = "idle" /\ paused => \A d \in Device : thread[d] # "sending"

\* A session that resumed capture never shares a device with other programs:
\* one backend that cannot be reacquired is enough to refuse it.
SessionHasDevices ==
  session /\ epoch > 0 => \A d \in Device : Alive(d) => grabbed[d]

\* While capture is on, no thread has an edge in hand that is older than the pause
\* before: what a device had for it was discarded when capture was resumed.
NothingOldInHand ==
  enabled => \A d \in Device : \A i \in DOMAIN batch[d] : batch[d][i].made + 1 >= epoch

\* No order waits for a thread that has ended, however late it ended.
EveryOrderIsHeard == \A d \in Device : ask[d] \in Order => thread[d] # "dead"

\* pause and resume return: an order is answered, or its thread is known to be gone.
BrokerReturns == stage # "idle" ~> stage = "idle"

-----------------------------------------------------------------------------
(* What capture promises about the devices *)

Mode ==
  IF stage \in {"pausing", "undoing"} THEN "releasing"
  ELSE IF stage = "resuming" THEN "taking"
  ELSE IF ~enabled THEN "off"
  ELSE IF epoch = 0 THEN "start"
  ELSE "on"

There == {d \in Device : Alive(d) /\ present[d]}

Held == {d \in There : grabbed[d]}

C == INSTANCE Custody WITH mode <- Mode, there <- There, held <- Held

\* Every step of the broker and of the threads is a step of Custody or does not
\* concern it: capture is never on with a device left to others, nor off with one
\* kept from them, and nothing changes hands but while the broker waits.
ImplementsCustody == C!Spec

-----------------------------------------------------------------------------
(* What the documentation says and the code does not keep *)

\* The two claims below are made of this code and do not hold of it.

\* A sustained hold revokes the session and "control returns to the OS.  The user is
\* never trapped" (broker.rs): revoking a session is something that ends.
RevocationEnds == [](session => [](~session => <>(stage = "idle")))

\* The edge that the broker takes next is applied.
Applies == Idle /\ Head(channel).kind = "edge" /\ Listening

\* While paused hardware input produces no events (docs/protocol-v0.md): an edge
\* that went to other programs during a pause is not applied afterwards.
PausedNeverApplies ==
  Applies => ~(Head(channel).shared /\ Head(channel).made % 2 = 1)
=============================================================================
