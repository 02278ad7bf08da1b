---------------------------- MODULE CaptureProofs ----------------------------
(***************************************************************************)
(* That pause gives every device back, that resume takes every device and  *)
(* discards what is old, and that the broker and its threads implement     *)
(* Custody, for any number of devices, any capacity of the command channel *)
(* and any number of edges, commands and sessions.                         *)
(***************************************************************************)
EXTENDS Capture, TLAPS

\* What the broker knows of itself: a session has the flag, a pause clears it, and
\* no session goes before the first one without a pause in between.
BrokerInv ==
  /\ session => enabled /\ ~paused /\ stage = "idle"
  /\ stage = "idle" => (paused <=> ~enabled)
  /\ stage = "pausing" => ~enabled
  /\ stage \in {"resuming", "undoing"} => paused /\ ~enabled
  /\ stage = "abandoning" => paused /\ enabled
  /\ stage = "idle" /\ ~paused /\ ~session => epoch = 0
  /\ ~enabled => epoch > 0
  /\ stage = "resuming" => epoch + 1 < MaxEpoch

\* What it may have asked of a thread, and where the thread then is.
OrderInv(d) ==
  /\ stage \in {"idle", "abandoning"} => ask[d] = "none"
  /\ stage \in {"pausing", "undoing"} => ask[d] \in {"pause"} \cup Answer
  /\ stage = "resuming" => ask[d] \in {"resume"} \cup Answer
  /\ thread[d] = "dead" => ~grabbed[d] /\ ask[d] \notin Order
  /\ thread[d] \in {"opening", "opened"} => ~grabbed[d] /\ ask[d] \notin Answer
  /\ thread[d] = "resuming" => ask[d] = "resume"
  /\ epoch > 0 /\ stage # "pausing" => thread[d] \notin {"opening", "opened"}

\* Paused, or about to be and this thread has answered.
Quieted(d) ==
  \/ stage = "idle" /\ paused
  \/ stage \in {"pausing", "undoing"} /\ ask[d] \in Answer

\* With a session that resumed capture, or about to have one and this thread obeyed.
Resuming(d) ==
  \/ session /\ epoch > 0
  \/ stage = "resuming" /\ ask[d] = "ok"

DeviceInv(d) ==
  /\ Quieted(d) => (Alive(d) /\ present[d] => ~grabbed[d])
  /\ Quieted(d) \/ stage \in {"resuming", "undoing"} => thread[d] # "sending"
  /\ Resuming(d) => (Alive(d) => grabbed[d])
  /\ thread[d] = "sending" => batch[d] # <<>>

Inv ==
  /\ TypeOK
  /\ BrokerInv
  /\ \A d \in Device : OrderInv(d) /\ DeviceInv(d)

-----------------------------------------------------------------------------
(* Types *)

Command0 == Edge \cup Request

LEMMA Parity ==
  ASSUME NEW n \in Nat
  PROVE  (n + 1) % 2 = 0 <=> ~(n % 2 = 0)
OBVIOUS

LEMMA EdgeType ==
  ASSUME TypeOK, NEW b \in BOOLEAN
  PROVE  EdgeNow(b) \in Edge
BY DEF TypeOK, EdgeNow, Edge

LEMMA Sending ==
  ASSUME TypeOK, HasRoom, NEW c \in Edge \cup Request, channel' = Append(channel, c)
  PROVE  channel' \in Seq(Edge \cup Request) /\ Len(channel') <= ChannelCapacity
<1>1. channel \in Seq(Command0) /\ Len(channel) < ChannelCapacity /\ c \in Command0
  BY DEF TypeOK, HasRoom, Command0
<1> QED
  BY <1>1, CaptureAssumption DEF Command0

LEMMA Taking ==
  ASSUME TypeOK, channel # <<>>, channel' = Tail(channel)
  PROVE  channel' \in Seq(Edge \cup Request) /\ Len(channel') <= ChannelCapacity
<1>1. channel \in Seq(Command0) /\ Len(channel) <= ChannelCapacity
  BY DEF TypeOK, Command0
<1> QED
  BY <1>1, CaptureAssumption DEF Command0

\* The steps of the broker, by what they leave alone.
BrokerStep == Take \/ Tick \/ Proceed

LEMMA BrokerFrame ==
  ASSUME BrokerStep
  PROVE  UNCHANGED <<threadVars, hookVars, posts>>
BY DEF BrokerStep, Take, Tick, Proceed, TakeEdge, TakeOther, TakeEnd,
       TakeFirstHandshake, TakeHandshakeForNobody, TakeHandshake, Paused, Resumed,
       ResumedForNobody, Abandon, ResumeFailed, Undone, brokerVars, deviceVars

LEMMA BrokerChannel ==
  ASSUME TypeOK, BrokerStep
  PROVE  channel' \in Seq(Edge \cup Request) /\ Len(channel') <= ChannelCapacity
<1>1. CASE Take
  <2>1. channel # <<>> /\ channel' = Tail(channel)
    BY <1>1 DEF Take, TakeEdge, TakeOther, TakeEnd, TakeFirstHandshake,
                TakeHandshakeForNobody, TakeHandshake, Idle
  <2> QED
    BY <2>1, Taking
<1>2. CASE Tick \/ Proceed
  <2>1. channel' = channel
    BY <1>2 DEF Tick, Proceed, Paused, Resumed, ResumedForNobody, Abandon,
                ResumeFailed, Undone
  <2> QED
    BY <2>1 DEF TypeOK
<1> QED
  BY <1>1, <1>2 DEF BrokerStep

LEMMA BrokerAsk ==
  ASSUME TypeOK, BrokerStep
  PROVE  ask' \in [Device -> {"none"} \cup Order \cup Answer]
<1>1. \/ ask' = ask
      \/ Command("pause")
      \/ Command("resume")
      \/ Settled
  BY DEF BrokerStep, Take, Tick, Proceed, TakeEdge, TakeOther, TakeEnd,
         TakeFirstHandshake, TakeHandshakeForNobody, TakeHandshake, Paused, Resumed,
         ResumedForNobody, Abandon, ResumeFailed, Undone, brokerVars, deviceVars,
         Revoke, StartPause, Rollback
<1> QED
  BY <1>1 DEF TypeOK, Command, Settled, Order, Answer

LEMMA BrokerTypes ==
  ASSUME Inv, BrokerStep
  PROVE  /\ stage' \in Stage
         /\ session' \in BOOLEAN
         /\ paused' \in BOOLEAN
         /\ enabled' \in BOOLEAN
         /\ epoch' \in Epoch
         /\ enabled' <=> epoch' % 2 = 0
<1> USE DEF Inv, TypeOK, BrokerInv, Epoch
<1>1. CASE UNCHANGED <<enabled, epoch>>
  BY <1>1 DEF BrokerStep, Take, Tick, Proceed, TakeEdge, TakeOther, TakeEnd,
    TakeFirstHandshake, TakeHandshakeForNobody, TakeHandshake, Paused, Resumed,
    ResumedForNobody, Abandon, ResumeFailed, Undone, brokerVars, Stage, Revoke,
    StartPause, Rollback
<1>2. CASE TakeEnd \/ Tick \/ TakeHandshakeForNobody \/ Abandon
  <2>1. enabled /\ epoch < MaxEpoch /\ enabled' = FALSE /\ epoch' = epoch + 1
    BY <1>2 DEF TakeEnd, Tick, TakeHandshakeForNobody, Abandon, Revoke, StartPause,
                Idle
  <2>2. epoch' \in Epoch /\ (enabled' <=> epoch' % 2 = 0)
    BY <2>1, Parity, CaptureAssumption
  <2>3. stage' \in Stage /\ session' \in BOOLEAN /\ paused' \in BOOLEAN
    BY <1>2 DEF TakeEnd, Tick, TakeHandshakeForNobody, Abandon, Revoke, StartPause,
                Stage
  <2> QED
    BY <2>1, <2>2, <2>3
<1>3. CASE Resumed \/ ResumedForNobody
  <2>1. ~enabled /\ epoch + 1 < MaxEpoch /\ enabled' = TRUE /\ epoch' = epoch + 1
    BY <1>3 DEF Resumed, ResumedForNobody
  <2>2. epoch' \in Epoch /\ (enabled' <=> epoch' % 2 = 0)
    BY <2>1, Parity, CaptureAssumption
  <2>3. stage' \in Stage /\ session' \in BOOLEAN /\ paused' \in BOOLEAN
    BY <1>3 DEF Resumed, ResumedForNobody, Stage
  <2> QED
    BY <2>1, <2>2, <2>3
<1>4. \/ UNCHANGED <<enabled, epoch>>
      \/ TakeEnd \/ Tick \/ TakeHandshakeForNobody \/ Abandon
      \/ Resumed \/ ResumedForNobody
  BY DEF BrokerStep, Take, Proceed, TakeEdge, TakeOther, TakeFirstHandshake,
         TakeHandshake, Paused, ResumeFailed, Undone, brokerVars
<1> QED
  BY <1>1, <1>2, <1>3, <1>4

LEMMA BrokerTypeOK ==
  ASSUME Inv, BrokerStep
  PROVE  TypeOK'
<1>1. UNCHANGED <<threadVars, hookVars, posts>>
  BY BrokerFrame
<1>2. TypeOK
  BY DEF Inv
<1> QED
  BY <1>1, <1>2, BrokerTypes, BrokerChannel, BrokerAsk DEF TypeOK, threadVars, hookVars

\* The steps of a thread, by what they do to the thread of another device and to the
\* broker.
LEMMA StepFrame ==
  ASSUME TypeOK, NEW d \in Device, Step(d)
  PROVE  /\ UNCHANGED <<brokerVars, hookVars, present, edges>>
         /\ \A e \in Device \ {d} :
              /\ thread'[e] = thread[e]
              /\ ask'[e] = ask[e]
              /\ grabbed'[e] = grabbed[e]
              /\ batch'[e] = batch[e]
              /\ buffer'[e] = buffer[e]
<1>1. UNCHANGED <<brokerVars, hookVars, present, edges>>
  BY DEF Step, Open, Grab, StartFailed, Die, HandlePause, Drain, Regrab, NoOrder, Read,
         ReadFailed, BatchDone, Ignore, PassOn, Send, Goto, Reply
<1>2. ASSUME NEW e \in Device, e # d
      PROVE  /\ thread'[e] = thread[e] /\ ask'[e] = ask[e]
             /\ grabbed'[e] = grabbed[e] /\ batch'[e] = batch[e]
             /\ buffer'[e] = buffer[e]
  BY <1>2
  DEF TypeOK, Step, Open, Grab, StartFailed, Die, HandlePause, Drain, Regrab, NoOrder,
      Read, ReadFailed, BatchDone, Ignore, PassOn, Send, Goto, Reply, Discard
<1> QED
  BY <1>1, <1>2

LEMMA StepTypeOK ==
  ASSUME Inv, NEW d \in Device, Step(d)
  PROVE  TypeOK'
<1>0. TypeOK
  BY DEF Inv
<1>1. UNCHANGED <<brokerVars, hookVars, present, edges>>
  BY <1>0, StepFrame
<1>2. channel' \in Seq(Edge \cup Request) /\ Len(channel') <= ChannelCapacity
  <2>1. CASE Send(d)
    <3>1. batch[d] \in Seq(Edge) /\ batch[d] # <<>>
      BY <2>1 DEF Inv, TypeOK, DeviceInv, Send
    <3>2. Head(batch[d]) \in Edge
      BY <3>1
    <3> QED
      BY <1>0, <2>1, <3>2, Sending DEF Send
  <2>2. CASE ~Send(d)
    BY <1>0, <2>2
    DEF Step, Open, Grab, StartFailed, Die, HandlePause, Drain, Regrab, NoOrder, Read,
        ReadFailed, BatchDone, Ignore, PassOn, TypeOK
  <2> QED
    BY <2>1, <2>2
<1>3. batch' \in [Device -> Seq(Edge)] /\ buffer' \in [Device -> Seq(Edge)]
  <2>1. batch[d] \in Seq(Edge) /\ buffer[d] \in Seq(Edge) /\ <<>> \in Seq(Edge)
    BY <1>0 DEF TypeOK
  <2>2. batch[d] # <<>> => Tail(batch[d]) \in Seq(Edge)
    BY <2>1
  <2>3. Send(d) \/ Ignore(d) => batch[d] # <<>>
    BY DEF Inv, DeviceInv, Send, Ignore
  <2> QED
    BY <1>0, <2>1, <2>2, <2>3
    DEF Step, Open, Grab, StartFailed, Die, HandlePause, Drain, Regrab, NoOrder, Read,
        ReadFailed, BatchDone, Ignore, PassOn, Send, TypeOK, Discard
<1>4. thread' \in [Device -> ThreadState]
  BY <1>0
  DEF Step, Open, Grab, StartFailed, Die, HandlePause, Drain, Regrab, NoOrder, Read,
      ReadFailed, BatchDone, Ignore, PassOn, Send, TypeOK, Goto, ThreadState
<1>5. ask' \in [Device -> {"none"} \cup Order \cup Answer]
  BY <1>0
  DEF Step, Open, Grab, StartFailed, Die, HandlePause, Drain, Regrab, NoOrder, Read,
      ReadFailed, BatchDone, Ignore, PassOn, Send, TypeOK, Reply, Order, Answer
<1>6. grabbed' \in [Device -> BOOLEAN]
  BY <1>0
  DEF Step, Open, Grab, StartFailed, Die, HandlePause, Drain, Regrab, NoOrder, Read,
      ReadFailed, BatchDone, Ignore, PassOn, Send, TypeOK
<1> QED
  BY <1>0, <1>1, <1>2, <1>3, <1>4, <1>5, <1>6 DEF TypeOK, brokerVars, hookVars

\* Steps of users, connections and the hook.
OtherStep ==
  \/ \E r \in Request : Post(r)
  \/ \E d \in Device : Make(d) \/ Lose(d)
  \/ Key
  \/ SendKey

LEMMA OtherFrame ==
  ASSUME TypeOK, OtherStep
  PROVE  /\ UNCHANGED <<stage, session, paused, enabled, epoch, ask, thread, grabbed, batch>>
         /\ \A d \in Device : present'[d] => present[d]
BY DEF OtherStep, Post, Make, Lose, Key, SendKey, brokerVars, deviceVars, threadVars,
       TypeOK

LEMMA OtherTypeOK ==
  ASSUME TypeOK, OtherStep
  PROVE  TypeOK'
<1>1. UNCHANGED <<stage, session, paused, enabled, epoch, ask, thread, grabbed, batch>>
  BY OtherFrame
<1>2. channel' \in Seq(Edge \cup Request) /\ Len(channel') <= ChannelCapacity
  <2>1. ASSUME NEW r \in Request, Post(r)
        PROVE  channel' \in Seq(Edge \cup Request) /\ Len(channel') <= ChannelCapacity
    BY <2>1, Sending DEF Post
  <2>2. CASE SendKey
    <3>1. hook \in Edge
      BY <2>2 DEF SendKey, TypeOK
    <3> QED
      BY <2>2, <3>1, Sending DEF SendKey
  <2>3. CASE channel' = channel
    BY <2>3 DEF TypeOK
  <2>4. Key \/ (\E d \in Device : Make(d) \/ Lose(d)) => channel' = channel
    BY DEF Key, Make, Lose
  <2> QED
    BY <2>1, <2>2, <2>3, <2>4 DEF OtherStep
<1>3. posts' \in 0..MaxPosts /\ keys' \in 0..MaxEdges
  <2>1. \/ posts' = posts
        \/ posts < MaxPosts /\ posts' = posts + 1
    BY DEF OtherStep, Post, Make, Lose, Key, SendKey, brokerVars
  <2>2. \/ keys' = keys
        \/ keys < MaxEdges /\ keys' = keys + 1
    BY DEF OtherStep, Post, Make, Lose, Key, SendKey, hookVars
  <2>3. posts \in 0..MaxPosts /\ keys \in 0..MaxEdges
    BY DEF TypeOK
  <2> QED
    BY <2>1, <2>2, <2>3, CaptureAssumption
<1>4. hook' \in Edge \cup {NoEdge}
  BY EdgeType DEF OtherStep, Post, Make, Lose, Key, SendKey, TypeOK, hookVars
<1>5. /\ present' \in [Device -> BOOLEAN]
      /\ edges' \in [Device -> 0..MaxEdges]
      /\ buffer' \in [Device -> Seq(Edge)]
  <2>1. ASSUME NEW d \in Device, Make(d)
        PROVE  edges' \in [Device -> 0..MaxEdges] /\ buffer' \in [Device -> Seq(Edge)]
    <3>1. edges[d] + 1 \in 0..MaxEdges
      BY <2>1, CaptureAssumption DEF Make, TypeOK
    <3>2. buffer[d] \in Seq(Edge) /\ EdgeNow(~grabbed[d]) \in Edge
      BY EdgeType DEF TypeOK
    <3>3. Append(buffer[d], EdgeNow(~grabbed[d])) \in Seq(Edge)
      BY <3>2
    <3> QED
      BY <2>1, <3>1, <3>3 DEF Make, TypeOK
  <2> QED
    BY <2>1
    DEF OtherStep, Post, Make, Lose, Key, SendKey, TypeOK, deviceVars, threadVars
<1> QED
  BY <1>1, <1>2, <1>3, <1>4, <1>5 DEF TypeOK

-----------------------------------------------------------------------------
(* The invariant *)

LEMMA InvInit ==
  ASSUME Init
  PROVE  Inv
<1>1. channel \in Seq(Edge \cup Request) /\ Len(channel) <= ChannelCapacity
  BY CaptureAssumption DEF Init
<1>2. epoch \in Epoch /\ (enabled <=> epoch % 2 = 0)
  BY CaptureAssumption DEF Init, Epoch
<1>3. posts \in 0..MaxPosts /\ keys \in 0..MaxEdges /\ edges \in [Device -> 0..MaxEdges]
  BY CaptureAssumption DEF Init
<1>4. buffer \in [Device -> Seq(Edge)] /\ batch \in [Device -> Seq(Edge)]
  <2>1. <<>> \in Seq(Edge)
    OBVIOUS
  <2> QED
    BY <2>1 DEF Init
<1>5. /\ stage \in Stage /\ session \in BOOLEAN /\ paused \in BOOLEAN
      /\ enabled \in BOOLEAN /\ thread \in [Device -> ThreadState]
      /\ ask \in [Device -> {"none"} \cup Order \cup Answer]
      /\ grabbed \in [Device -> BOOLEAN] /\ present \in [Device -> BOOLEAN]
      /\ hook \in Edge \cup {NoEdge}
  BY DEF Init, Stage, ThreadState
<1>6. TypeOK
  BY <1>1, <1>2, <1>3, <1>4, <1>5 DEF TypeOK
<1>7. BrokerInv
  BY DEF Init, BrokerInv
<1>8. ASSUME NEW d \in Device
      PROVE  OrderInv(d) /\ DeviceInv(d)
  <2>1. /\ stage = "idle" /\ ~paused /\ ~session /\ ~(epoch > 0)
        /\ thread[d] = "opening" /\ ask[d] = "none" /\ ~grabbed[d]
    BY DEF Init
  <2> QED
    BY <2>1 DEF OrderInv, DeviceInv, Quieted, Resuming, Order, Answer
<1> QED
  BY <1>6, <1>7, <1>8 DEF Inv

\* What the user, the connections and the hook do disturbs nothing.
LEMMA OtherInv ==
  ASSUME Inv, OtherStep
  PROVE  BrokerInv' /\ \A d \in Device : OrderInv(d)' /\ DeviceInv(d)'
<1>1. /\ UNCHANGED <<stage, session, paused, enabled, epoch, ask, thread, grabbed, batch>>
      /\ \A d \in Device : present'[d] => present[d]
  BY OtherFrame DEF Inv
<1> QED
  BY <1>1 DEF Inv, BrokerInv, OrderInv, DeviceInv, Quieted, Resuming, Alive

\* Nor does a thread what the broker knows of itself, or of another thread.
LEMMA StepElsewhere ==
  ASSUME Inv, NEW d \in Device, Step(d)
  PROVE  BrokerInv' /\ \A e \in Device \ {d} : OrderInv(e)' /\ DeviceInv(e)'
BY StepFrame DEF Inv, BrokerInv, OrderInv, DeviceInv, Quieted, Resuming, Alive, brokerVars

\* A thread does as it was asked.
LEMMA StepHere ==
  ASSUME Inv, NEW d \in Device, Step(d)
  PROVE  OrderInv(d)' /\ DeviceInv(d)'
<1>1. TypeOK /\ BrokerInv /\ OrderInv(d) /\ DeviceInv(d)
  BY DEF Inv
<1>2. UNCHANGED <<stage, session, paused, enabled, epoch, present>>
  BY <1>1, StepFrame DEF brokerVars
<1> USE DEF Order, Answer, ThreadState, Quieted, Resuming, Alive, Goto, Reply
<1>3. CASE Open(d)
  BY <1>1, <1>2, <1>3 DEF Open, TypeOK, OrderInv, DeviceInv
<1>4. CASE Grab(d)
  <2>1. stage = "idle" => ~paused
    BY <1>1, <1>4 DEF Grab, OrderInv, BrokerInv
  <2>2. stage \notin {"resuming", "undoing"}
    BY <1>1, <1>4 DEF Grab, OrderInv, BrokerInv
  <2>3. /\ thread[d] = "opened" /\ thread'[d] = "orders" /\ grabbed'[d] = TRUE
        /\ ask' = ask
    BY <1>1, <1>4 DEF Grab, TypeOK
  <2> QED
    BY <1>1, <1>2, <2>1, <2>2, <2>3 DEF OrderInv, DeviceInv
<1>5. CASE StartFailed(d) \/ ReadFailed(d)
  BY <1>1, <1>2, <1>5 DEF StartFailed, ReadFailed, Die, TypeOK, OrderInv, DeviceInv
<1>6. CASE HandlePause(d)
  <2>1. thread[d] = "orders" /\ thread'[d] = "orders" /\ ask[d] = "pause"
    BY <1>6 DEF HandlePause
  <2>2. /\ ask'[d] \in Answer
        /\ present[d] => ~grabbed'[d]
    BY <1>1, <1>6 DEF HandlePause, TypeOK
  <2>3. stage \in {"pausing", "undoing"}
    BY <1>1, <2>1 DEF OrderInv, TypeOK, Stage
  <2>4. ~session
    BY <1>1, <2>3 DEF BrokerInv
  <2> QED
    BY <1>1, <1>2, <2>1, <2>2, <2>3, <2>4 DEF OrderInv, DeviceInv
<1>7. CASE Drain(d)
  BY <1>1, <1>2, <1>7 DEF Drain, TypeOK, OrderInv, DeviceInv
<1>8. CASE Regrab(d)
  BY <1>1, <1>2, <1>8 DEF Regrab, TypeOK, OrderInv, DeviceInv
<1>9. CASE NoOrder(d) \/ Read(d) \/ BatchDone(d) \/ Ignore(d)
  BY <1>1, <1>2, <1>9
  DEF NoOrder, Read, BatchDone, Ignore, TypeOK, OrderInv, DeviceInv
<1>10. CASE PassOn(d)
  BY <1>1, <1>2, <1>10 DEF PassOn, TypeOK, OrderInv, DeviceInv, BrokerInv
<1>11. CASE Send(d)
  BY <1>1, <1>2, <1>11 DEF Send, TypeOK, OrderInv, DeviceInv
<1> QED
  BY <1>3, <1>4, <1>5, <1>6, <1>7, <1>8, <1>9, <1>10, <1>11 DEF Step

\* The broker asks, and goes on when it has all the answers.
LEMMA BrokerKeeps ==
  ASSUME Inv, BrokerStep
  PROVE  BrokerInv' /\ \A d \in Device : OrderInv(d)' /\ DeviceInv(d)'
<1>1. TypeOK /\ BrokerInv /\ \A d \in Device : OrderInv(d) /\ DeviceInv(d)
  BY DEF Inv
<1>2. UNCHANGED <<thread, grabbed, present, batch>>
  BY BrokerFrame DEF threadVars
<1>3. epoch \in Nat
  BY <1>1 DEF TypeOK, Epoch
<1> USE DEF Order, Answer, Quieted, Resuming, Alive, BrokerInv
<1>4. CASE TakeEdge \/ TakeOther
  BY <1>1, <1>2, <1>4
  DEF TakeEdge, TakeOther, brokerVars, deviceVars, OrderInv, DeviceInv
<1>5. CASE TakeEnd \/ Tick \/ TakeHandshakeForNobody \/ Abandon
  <2>1. /\ stage \in {"idle", "abandoning"} /\ stage' = "pausing"
        /\ session' = FALSE /\ enabled' = FALSE /\ paused' = paused
        /\ epoch' = epoch + 1 /\ Command("pause")
    BY <1>1, <1>5
    DEF TakeEnd, Tick, TakeHandshakeForNobody, Abandon, Revoke, StartPause, Idle, TypeOK
  <2>2. BrokerInv'
    BY <1>3, <2>1
  <2>3. ASSUME NEW d \in Device
        PROVE  OrderInv(d)' /\ DeviceInv(d)'
    <3>1. ask'[d] = IF thread[d] = "dead" THEN "failed" ELSE "pause"
      BY <2>1 DEF Command
    <3>2. OrderInv(d)'
      BY <1>1, <1>2, <2>1, <3>1 DEF OrderInv
    <3>3. DeviceInv(d)'
      BY <1>1, <1>2, <2>1, <3>1 DEF DeviceInv
    <3> QED
      BY <3>2, <3>3
  <2> QED
    BY <2>2, <2>3
<1>6. CASE TakeFirstHandshake
  <2>1. /\ stage = "idle" /\ ~paused /\ ~session /\ session' = TRUE
        /\ UNCHANGED <<stage, paused, enabled, epoch, ask>>
    BY <1>6 DEF TakeFirstHandshake, Idle, deviceVars
  <2> QED
    BY <1>1, <1>2, <2>1 DEF OrderInv, DeviceInv
<1>7. CASE TakeHandshake
  <2>1. /\ stage = "idle" /\ paused /\ ~session /\ stage' = "resuming"
        /\ epoch + 1 < MaxEpoch
        /\ UNCHANGED <<session, paused, enabled, epoch>> /\ Command("resume")
    BY <1>7 DEF TakeHandshake, Idle
  <2>2. BrokerInv'
    BY <1>1, <2>1
  <2>3. ASSUME NEW d \in Device
        PROVE  OrderInv(d)' /\ DeviceInv(d)'
    <3>1. ask'[d] = IF thread[d] = "dead" THEN "failed" ELSE "resume"
      BY <2>1 DEF Command
    <3> QED
      BY <1>1, <1>2, <2>1, <3>1 DEF OrderInv, DeviceInv
  <2> QED
    BY <2>2, <2>3
<1>8. CASE Paused
  <2>1. /\ stage = "pausing" /\ stage' = "idle" /\ paused' = TRUE /\ Answered /\ Settled
        /\ UNCHANGED <<session, enabled, epoch>>
    BY <1>8 DEF Paused
  <2>2. BrokerInv'
    BY <1>1, <2>1
  <2>3. ASSUME NEW d \in Device
        PROVE  OrderInv(d)' /\ DeviceInv(d)'
    <3>1. ask[d] \in Answer /\ ask'[d] = "none"
      BY <2>1 DEF Answered, Settled
    <3> QED
      BY <1>1, <1>2, <2>1, <3>1 DEF OrderInv, DeviceInv
  <2> QED
    BY <2>2, <2>3
<1>9. CASE Resumed \/ ResumedForNobody
  <2>1. /\ stage = "resuming" /\ AllAnsweredOk /\ Settled
        /\ enabled' = TRUE /\ epoch' = epoch + 1
        /\ \/ stage' = "idle" /\ paused' = FALSE /\ session' = TRUE
           \/ stage' = "abandoning" /\ UNCHANGED <<session, paused>>
    BY <1>9 DEF Resumed, ResumedForNobody
  <2>2. BrokerInv'
    <3>1. epoch' > 0
      BY <1>3, <2>1
    <3>2. CASE stage' = "idle" /\ paused' = FALSE /\ session' = TRUE
      BY <2>1, <3>1, <3>2
    <3>3. CASE stage' = "abandoning" /\ UNCHANGED <<session, paused>>
      BY <1>1, <2>1, <3>1, <3>3
    <3> QED
      BY <2>1, <3>2, <3>3
  <2>3. ASSUME NEW d \in Device
        PROVE  OrderInv(d)' /\ DeviceInv(d)'
    <3>1. ask[d] = "ok" /\ ask'[d] = "none"
      BY <2>1 DEF AllAnsweredOk, Settled
    <3> QED
      BY <1>1, <1>2, <1>3, <2>1, <3>1 DEF OrderInv, DeviceInv
  <2> QED
    BY <2>2, <2>3
<1>10. CASE ResumeFailed
  <2>1. /\ stage = "resuming" /\ stage' = "undoing" /\ Answered /\ Command("pause")
        /\ UNCHANGED <<session, paused, enabled, epoch>>
    BY <1>10 DEF ResumeFailed, Rollback
  <2>2. BrokerInv'
    BY <1>1, <2>1
  <2>3. ASSUME NEW d \in Device
        PROVE  OrderInv(d)' /\ DeviceInv(d)'
    <3>1. /\ ask[d] \in Answer
          /\ ask'[d] = IF thread[d] = "dead" THEN "failed" ELSE "pause"
      BY <2>1 DEF Answered, Command
    <3> QED
      BY <1>1, <1>2, <2>1, <3>1 DEF OrderInv, DeviceInv
  <2> QED
    BY <2>2, <2>3
<1>11. CASE Undone
  <2>1. /\ stage = "undoing" /\ stage' = "idle" /\ Answered /\ Settled
        /\ UNCHANGED <<session, paused, enabled, epoch>>
    BY <1>11 DEF Undone
  <2>2. BrokerInv'
    BY <1>1, <2>1
  <2>3. ASSUME NEW d \in Device
        PROVE  OrderInv(d)' /\ DeviceInv(d)'
    <3>1. ask[d] \in Answer /\ ask'[d] = "none"
      BY <2>1 DEF Answered, Settled
    <3> QED
      BY <1>1, <1>2, <2>1, <3>1 DEF OrderInv, DeviceInv
  <2> QED
    BY <2>2, <2>3
<1> QED
  BY <1>4, <1>5, <1>6, <1>7, <1>8, <1>9, <1>10, <1>11 DEF BrokerStep, Take, Proceed

LEMMA InvStep ==
  ASSUME Inv, [Next]_vars
  PROVE  Inv'
<1>1. CASE BrokerStep
  BY <1>1, BrokerTypeOK, BrokerKeeps DEF Inv
<1>2. ASSUME NEW d \in Device, Step(d)
      PROVE  Inv'
  BY <1>2, StepTypeOK, StepElsewhere, StepHere DEF Inv
<1>3. CASE OtherStep
  BY <1>3, OtherTypeOK, OtherInv DEF Inv
<1>4. CASE UNCHANGED vars
  BY <1>4
  DEF vars, brokerVars, deviceVars, threadVars, hookVars, Inv, TypeOK, BrokerInv, OrderInv,
      DeviceInv, Quieted, Resuming, Alive
<1> QED
  BY <1>1, <1>2, <1>3, <1>4 DEF Next, BrokerStep, OtherStep

LEMMA Invariance == Spec => []Inv
BY InvInit, InvStep, PTL DEF Spec

-----------------------------------------------------------------------------

\* Every reachable state is well typed, the command channel keeps to its capacity,
\* and the flag changes with every change of the routing.
THEOREM TypeCorrect == Spec => []TypeOK
<1>1. Inv => TypeOK
  BY DEF Inv
<1> QED
  BY <1>1, Invariance, PTL

\* After every pause, and after every resume that some device refused, no backend
\* that runs keeps a device from other programs.
THEOREM PausedAlwaysReleased == Spec => []PausedIsReleased
<1>1. Inv => PausedIsReleased
  BY DEF Inv, DeviceInv, Quieted, PausedIsReleased
<1> QED
  BY <1>1, Invariance, PTL

\* No pause returns while a thread that passed the flag has still an edge to send.
THEOREM PausedAlwaysQuiet == Spec => []PausedIsQuiet
<1>1. Inv => PausedIsQuiet
  BY DEF Inv, DeviceInv, Quieted, PausedIsQuiet
<1> QED
  BY <1>1, Invariance, PTL

\* The broker never waits for a thread that has ended, before or after it was asked.
THEOREM OrdersAlwaysHeard == Spec => []EveryOrderIsHeard
<1>1. Inv => EveryOrderIsHeard
  BY DEF Inv, OrderInv, EveryOrderIsHeard
<1> QED
  BY <1>1, Invariance, PTL

\* A session that resumed capture has every device whose backend runs.
THEOREM SessionsAlwaysHaveDevices == Spec => []SessionHasDevices
<1>1. Inv => SessionHasDevices
  BY DEF Inv, DeviceInv, Resuming, SessionHasDevices
<1> QED
  BY <1>1, Invariance, PTL

-----------------------------------------------------------------------------
(* What a thread has in hand *)

\* The edges of s were made in epoch e or later.
Since(s, e) == \A i \in DOMAIN s : s[i].made >= e

\* A thread that is done with resuming has nothing from before the pause, and a batch
\* only while it handles one.
FreshInv(d) ==
  /\ enabled => Since(buffer[d], epoch - 1) /\ Since(batch[d], epoch - 1)
  /\ thread[d] = "resuming" \/ (stage = "resuming" /\ ask[d] = "ok") =>
       Since(buffer[d], epoch) /\ Since(batch[d], epoch)
  /\ thread[d] \notin {"batch", "sending"} => batch[d] = <<>>
  /\ thread[d] \in {"opening", "dead"} => buffer[d] = <<>>

LEMMA SinceNothing == \A e : Since(<<>>, e)
BY DEF Since

LEMMA SinceTail ==
  ASSUME NEW s \in Seq(Edge), s # <<>>, NEW e, Since(s, e)
  PROVE  Since(Tail(s), e)
BY DEF Since

LEMMA SinceAppend ==
  ASSUME NEW s \in Seq(Edge), NEW e, Since(s, e), NEW x, x.made >= e
  PROVE  Since(Append(s, x), e)
BY DEF Since

LEMMA MadeInNat ==
  ASSUME NEW s \in Seq(Edge), NEW i \in DOMAIN s
  PROVE  s[i].made \in Nat
<1>1. s[i] \in Edge
  OBVIOUS
<1>2. s[i].made \in Epoch
  BY <1>1 DEF Edge
<1> QED
  BY <1>2, CaptureAssumption DEF Epoch

LEMMA SinceEarlier ==
  ASSUME NEW s \in Seq(Edge), NEW e \in Nat, Since(s, e)
  PROVE  Since(s, (e + 1) - 1) /\ Since(s, e - 1)
<1>1. \A i \in DOMAIN s : s[i].made \in Nat
  BY MadeInNat
<1> QED
  BY <1>1 DEF Since

LEMMA FreshInit ==
  ASSUME Init, NEW d \in Device
  PROVE  FreshInv(d)
BY SinceNothing DEF Init, FreshInv

\* The broker changes the epoch only when every thread has discarded what it had.
LEMMA FreshBroker ==
  ASSUME Inv, NEW d \in Device, FreshInv(d), BrokerStep
  PROVE  FreshInv(d)'
<1>1. UNCHANGED <<thread, buffer, batch>>
  BY BrokerFrame DEF threadVars
<1>2. TypeOK /\ BrokerInv /\ OrderInv(d)
  BY DEF Inv
<1>3. thread[d] = "resuming" => stage = "resuming" /\ ask[d] = "resume"
  BY <1>2 DEF OrderInv, TypeOK, Stage, Order, Answer
<1>4. CASE Resumed \/ ResumedForNobody
  <2>1. /\ stage = "resuming" /\ ask[d] = "ok"
        /\ epoch' = epoch + 1 /\ stage' \in {"idle", "abandoning"}
    BY <1>4 DEF Resumed, ResumedForNobody, AllAnsweredOk
  <2>2. Since(buffer[d], epoch' - 1) /\ Since(batch[d], epoch' - 1)
    <3>1. epoch \in Nat /\ buffer[d] \in Seq(Edge) /\ batch[d] \in Seq(Edge)
      BY <1>2, CaptureAssumption DEF TypeOK, Epoch
    <3>2. Since(buffer[d], epoch) /\ Since(batch[d], epoch)
      BY <2>1 DEF FreshInv
    <3> QED
      BY <2>1, <3>1, <3>2, SinceEarlier
  <2>3. thread[d] # "resuming"
    BY <1>3, <2>1
  <2> QED
    BY <1>1, <2>1, <2>2, <2>3 DEF FreshInv
<1>5. CASE ~(Resumed \/ ResumedForNobody)
  <2>1. enabled' => enabled /\ epoch' = epoch
    BY <1>5
    DEF BrokerStep, Take, Tick, Proceed, TakeEdge, TakeOther, TakeEnd, TakeFirstHandshake,
        TakeHandshakeForNobody, TakeHandshake, Paused, Abandon, ResumeFailed, Undone,
        brokerVars, Revoke, StartPause
  <2>2. ~(stage' = "resuming" /\ ask'[d] = "ok")
    BY <1>5
    DEF BrokerStep, Take, Tick, Proceed, TakeEdge, TakeOther, TakeEnd, TakeFirstHandshake,
        TakeHandshakeForNobody, TakeHandshake, Paused, Abandon, ResumeFailed, Undone,
        brokerVars, Revoke, StartPause, Idle, Command, Rollback
  <2>3. thread[d] # "resuming"
    BY <1>3, <1>5
    DEF BrokerStep, Take, Tick, Proceed, TakeEdge, TakeOther, TakeEnd, TakeFirstHandshake,
        TakeHandshakeForNobody, TakeHandshake, Paused, Abandon, ResumeFailed, Undone, Idle,
        Revoke, Answered, Answer
  <2> QED
    BY <1>1, <2>1, <2>2, <2>3 DEF FreshInv
<1> QED
  BY <1>4, <1>5

\* A thread reads what it has, and discards it when it is told to resume.
LEMMA FreshHere ==
  ASSUME Inv, NEW d \in Device, FreshInv(d), Step(d)
  PROVE  FreshInv(d)'
<1>1. TypeOK /\ OrderInv(d) /\ DeviceInv(d)
  BY DEF Inv
<1>2. UNCHANGED <<stage, enabled, epoch>>
  BY <1>1, StepFrame DEF brokerVars
<1>3. batch[d] \in Seq(Edge) /\ buffer[d] \in Seq(Edge)
  BY <1>1 DEF TypeOK
<1> USE DEF Goto, Reply
<1>4. CASE Open(d) \/ Grab(d) \/ NoOrder(d) \/ BatchDone(d) \/ PassOn(d)
  <2>1. UNCHANGED <<ask, buffer, batch>>
    BY <1>4 DEF Open, Grab, NoOrder, BatchDone, PassOn
  <2>2. /\ thread'[d] \in {"opened", "orders", "reading", "sending"}
        /\ thread'[d] # "sending" => batch[d] = <<>>
    BY <1>1, <1>4 DEF Open, Grab, NoOrder, BatchDone, PassOn, TypeOK, FreshInv
  <2> QED
    BY <1>2, <2>1, <2>2 DEF FreshInv
<1>5. CASE StartFailed(d) \/ ReadFailed(d)
  <2>1. buffer'[d] = <<>> /\ batch'[d] = <<>>
    BY <1>1, <1>5 DEF StartFailed, ReadFailed, Die, TypeOK
  <2> QED
    BY <2>1, SinceNothing DEF FreshInv
<1>6. CASE HandlePause(d)
  <2>1. /\ UNCHANGED <<thread, buffer, batch>>
        /\ thread[d] = "orders" /\ ask[d] = "pause"
    BY <1>6 DEF HandlePause
  <2>2. stage # "resuming"
    BY <1>1, <2>1 DEF OrderInv, Answer
  <2> QED
    BY <1>2, <2>1, <2>2 DEF FreshInv
<1>7. CASE Drain(d)
  <2>1. thread[d] = "orders" /\ batch' = batch /\ batch[d] = <<>>
    BY <1>7 DEF Drain, FreshInv
  <2>2. CASE present[d]
    <3>1. buffer'[d] = <<>> /\ thread'[d] = "resuming"
      BY <1>1, <1>7, <2>2 DEF Drain, Discard, TypeOK
    <3> QED
      BY <2>1, <3>1, SinceNothing DEF FreshInv
  <2>3. CASE ~present[d]
    <3>1. ask'[d] = "failed" /\ UNCHANGED <<thread, buffer>>
      BY <1>1, <1>7, <2>3 DEF Drain, TypeOK
    <3> QED
      BY <1>2, <2>1, <3>1 DEF FreshInv
  <2> QED
    BY <2>2, <2>3
<1>8. CASE Regrab(d)
  <2>1. /\ thread[d] = "resuming" /\ thread'[d] = "orders"
        /\ UNCHANGED <<buffer, batch>>
    BY <1>1, <1>8 DEF Regrab, TypeOK
  <2> QED
    BY <1>2, <2>1 DEF FreshInv
<1>9. CASE Read(d)
  <2>1. /\ thread[d] = "reading" /\ thread'[d] = "batch" /\ ask' = ask
        /\ batch'[d] = buffer[d] /\ buffer'[d] = <<>>
    BY <1>1, <1>9 DEF Read, TypeOK
  <2> QED
    BY <1>2, <2>1, SinceNothing DEF FreshInv
<1>10. CASE Ignore(d) \/ Send(d)
  <2>1. /\ batch[d] # <<>> /\ batch'[d] = Tail(batch[d])
        /\ UNCHANGED <<ask, buffer>>
        /\ thread[d] \in {"batch", "sending"} /\ thread'[d] = "batch"
    BY <1>1, <1>10 DEF Ignore, Send, TypeOK, DeviceInv
  <2>2. \A e : Since(batch[d], e) => Since(batch'[d], e)
    BY <1>3, <2>1, SinceTail
  <2> QED
    BY <1>2, <2>1, <2>2 DEF FreshInv
<1> QED
  BY <1>4, <1>5, <1>6, <1>7, <1>8, <1>9, <1>10 DEF Step

\* What the user makes now is not old.
LEMMA FreshOther ==
  ASSUME Inv, NEW d \in Device, FreshInv(d), OtherStep
  PROVE  FreshInv(d)'
<1>1. TypeOK
  BY DEF Inv
<1>2. UNCHANGED <<stage, enabled, epoch, ask, thread, batch>>
  BY <1>1, OtherFrame
<1>3. CASE buffer'[d] = buffer[d]
  BY <1>2, <1>3 DEF FreshInv
<1>4. CASE Make(d)
  <2>1. /\ thread[d] \notin {"opening", "dead"}
        /\ buffer'[d] = Append(buffer[d], EdgeNow(~grabbed[d]))
    BY <1>1, <1>4 DEF Make, TypeOK
  <2>2. buffer[d] \in Seq(Edge) /\ epoch \in Nat
    BY <1>1, CaptureAssumption DEF TypeOK, Epoch
  <2>3. EdgeNow(~grabbed[d]).made >= epoch /\ EdgeNow(~grabbed[d]).made >= epoch - 1
    BY <2>2 DEF EdgeNow
  <2>4. /\ Since(buffer[d], epoch) => Since(buffer'[d], epoch)
        /\ Since(buffer[d], epoch - 1) => Since(buffer'[d], epoch - 1)
    BY <2>1, <2>2, <2>3, SinceAppend
  <2> QED
    BY <1>2, <2>1, <2>4 DEF FreshInv
<1>5. Make(d) \/ buffer'[d] = buffer[d]
  <2>1. ASSUME NEW e \in Device, e # d, Make(e)
        PROVE  buffer'[d] = buffer[d]
    BY <1>1, <2>1 DEF Make, TypeOK
  <2>2. Key \/ SendKey \/ (\E r \in Request : Post(r)) \/ (\E e \in Device : Lose(e))
          => buffer' = buffer
    BY DEF Key, SendKey, Post, Lose, deviceVars, threadVars
  <2> QED
    BY <2>1, <2>2 DEF OtherStep
<1> QED
  BY <1>3, <1>4, <1>5

LEMMA FreshStep ==
  ASSUME Inv, \A d \in Device : FreshInv(d), [Next]_vars
  PROVE  \A d \in Device : FreshInv(d)'
<1> SUFFICES ASSUME NEW d \in Device PROVE FreshInv(d)'
  OBVIOUS
<1>1. FreshInv(d)
  OBVIOUS
<1>2. CASE BrokerStep
  BY <1>1, <1>2, FreshBroker
<1>3. ASSUME NEW e \in Device, Step(e), e # d
      PROVE  FreshInv(d)'
  <2>1. /\ UNCHANGED <<stage, enabled, epoch>>
        /\ thread'[d] = thread[d] /\ ask'[d] = ask[d]
        /\ batch'[d] = batch[d] /\ buffer'[d] = buffer[d]
    BY <1>3, StepFrame DEF brokerVars, Inv
  <2> QED
    BY <1>1, <2>1 DEF FreshInv
<1>4. CASE Step(d)
  BY <1>1, <1>4, FreshHere
<1>5. CASE OtherStep
  BY <1>1, <1>5, FreshOther
<1>6. CASE UNCHANGED vars
  BY <1>1, <1>6 DEF vars, brokerVars, deviceVars, threadVars, FreshInv
<1> QED
  BY <1>2, <1>3, <1>4, <1>5, <1>6 DEF Next, BrokerStep, OtherStep

\* While capture is on, no thread has an edge in hand from before the last pause, for
\* any number of devices and edges.
THEOREM NeverOldInHand == Spec => []NothingOldInHand
<1> DEFINE Fresh == Inv /\ \A d \in Device : FreshInv(d)
<1>1. Init => Fresh
  BY InvInit, FreshInit
<1>2. Fresh /\ [Next]_vars => Fresh'
  BY InvStep, FreshStep
<1>3. Fresh => NothingOldInHand
  <2> SUFFICES ASSUME Fresh, enabled, NEW d \in Device, NEW i \in DOMAIN batch[d]
               PROVE  batch[d][i].made + 1 >= epoch
    BY DEF NothingOldInHand
  <2>1. batch[d][i].made >= epoch - 1
    BY DEF FreshInv, Since
  <2>2. batch[d] \in Seq(Edge) /\ epoch \in Nat
    BY CaptureAssumption DEF Inv, TypeOK, Epoch
  <2>3. batch[d][i].made \in Nat
    BY <2>2, MadeInNat
  <2> QED
    BY <2>1, <2>2, <2>3
<1> HIDE DEF Fresh
<1> QED
  BY <1>1, <1>2, <1>3, PTL DEF Spec

-----------------------------------------------------------------------------
(* The refinement *)

IsStutter == UNCHANGED <<Mode, There, Held>>

LEMMA DevicesStay ==
  ASSUME \A d \in Device : /\ Alive(d)' = Alive(d)
                           /\ present'[d] = present[d]
                           /\ grabbed'[d] = grabbed[d]
  PROVE  There' = There /\ Held' = Held
BY DEF There, Held

\* A step of the broker changes no device, and the mode as Custody has it.
LEMMA BrokerRefines ==
  ASSUME Inv, BrokerStep
  PROVE  C!Next \/ IsStutter
<1>1. TypeOK /\ BrokerInv /\ \A d \in Device : OrderInv(d) /\ DeviceInv(d)
  BY DEF Inv
<1>2. There' = There /\ Held' = Held
  BY BrokerFrame, DevicesStay DEF threadVars, Alive
<1>3. epoch \in Nat
  BY <1>1, CaptureAssumption DEF TypeOK, Epoch
<1>4. CASE TakeEdge \/ TakeOther \/ TakeFirstHandshake
  BY <1>2, <1>4 DEF TakeEdge, TakeOther, TakeFirstHandshake, brokerVars, Mode, IsStutter
<1>5. CASE TakeEnd \/ Tick \/ TakeHandshakeForNobody \/ Abandon
  <2>1. /\ stage \in {"idle", "abandoning"} /\ enabled /\ stage' = "pausing"
    BY <1>1, <1>5
    DEF TakeEnd, Tick, TakeHandshakeForNobody, Abandon, Revoke, StartPause, Idle, BrokerInv
  <2>2. Mode \in {"start", "on"} /\ Mode' = "releasing"
    BY <2>1 DEF Mode
  <2> QED
    BY <1>2, <2>2 DEF C!Next, C!Release
<1>6. CASE TakeHandshake
  <2>1. Mode = "off" /\ Mode' = "taking"
    BY <1>1, <1>6 DEF TakeHandshake, Idle, BrokerInv, Mode
  <2> QED
    BY <1>2, <2>1 DEF C!Next, C!Acquire
<1>7. CASE Paused \/ Undone
  <2>1. /\ stage \in {"pausing", "undoing"} /\ stage' = "idle" /\ Answered /\ ~enabled'
    BY <1>1, <1>7 DEF Paused, Undone, BrokerInv
  <2>2. Mode = "releasing" /\ Mode' = "off"
    BY <2>1 DEF Mode
  <2>3. Held = {}
    BY <1>1, <2>1 DEF Held, There, DeviceInv, Quieted, Answered
  <2> QED
    BY <1>2, <2>2, <2>3 DEF C!Next, C!Released
<1>8. CASE Resumed \/ ResumedForNobody
  <2>1. /\ stage = "resuming" /\ stage' \in {"idle", "abandoning"} /\ AllAnsweredOk
        /\ enabled' /\ epoch' = epoch + 1
    BY <1>8 DEF Resumed, ResumedForNobody
  <2>2. Mode = "taking" /\ Mode' = "on"
    BY <1>3, <2>1 DEF Mode
  <2>3. Held = There
    BY <1>1, <2>1 DEF Held, There, DeviceInv, Resuming, AllAnsweredOk
  <2> QED
    BY <1>2, <2>2, <2>3 DEF C!Next, C!Acquired
<1>9. CASE ResumeFailed
  <2>1. Mode = "taking" /\ Mode' = "releasing"
    BY <1>9 DEF ResumeFailed, Rollback, Mode
  <2> QED
    BY <1>2, <2>1 DEF C!Next, C!Release
<1> QED
  BY <1>4, <1>5, <1>6, <1>7, <1>8, <1>9 DEF BrokerStep, Take, Proceed

\* A step of a thread is about its own device.
LEMMA StepRefines ==
  ASSUME Inv, NEW d \in Device, Step(d)
  PROVE  C!Next \/ IsStutter
<1>1. TypeOK /\ BrokerInv /\ OrderInv(d) /\ DeviceInv(d)
  BY DEF Inv
<1>2. UNCHANGED <<stage, enabled, epoch, present>>
  BY <1>1, StepFrame DEF brokerVars
<1>3. Mode' = Mode
  BY <1>2 DEF Mode
<1>4. \A e \in Device \ {d} : Alive(e)' = Alive(e) /\ grabbed'[e] = grabbed[e]
  BY <1>1, StepFrame DEF Alive
<1> USE DEF Goto, Reply
<1>5. CASE Open(d) \/ NoOrder(d) \/ Read(d) \/ BatchDone(d) \/ Ignore(d) \/ PassOn(d)
           \/ Send(d) \/ Drain(d)
  <2>1. Alive(d)' = Alive(d) /\ grabbed' = grabbed
    BY <1>1, <1>5
    DEF Open, NoOrder, Read, BatchDone, Ignore, PassOn, Send, Drain, Alive, TypeOK,
        DeviceInv
  <2> QED
    BY <1>2, <1>3, <1>4, <2>1, DevicesStay DEF IsStutter
<1>6. CASE Grab(d)
  <2>1. /\ present[d] /\ ~Alive(d) /\ Alive(d)' /\ grabbed'[d]
    BY <1>1, <1>6 DEF Grab, Alive, TypeOK
  <2>2. /\ d \notin There
        /\ There' = There \cup {d}
        /\ Held' = Held \cup {d}
    BY <1>2, <1>4, <2>1 DEF There, Held
  <2>3. Mode \in {"start", "releasing"}
    BY <1>1, <1>6 DEF Grab, OrderInv, BrokerInv, Mode, TypeOK, Stage, Epoch
  <2> QED
    BY <1>3, <2>2, <2>3 DEF C!Next, C!Join
<1>7. CASE StartFailed(d) \/ ReadFailed(d)
  <2>1. d \notin There /\ ~Alive(d)' /\ d \notin Held
    BY <1>1, <1>7 DEF StartFailed, ReadFailed, Die, Alive, TypeOK, There, Held
  <2>2. There' = There /\ Held' = Held
    BY <1>2, <1>4, <2>1 DEF There, Held
  <2> QED
    BY <1>3, <2>2 DEF IsStutter
<1>8. CASE HandlePause(d)
  <2>1. ask[d] = "pause" /\ Alive(d)' = Alive(d) /\ (grabbed'[d] => grabbed[d])
    BY <1>1, <1>8 DEF HandlePause, Alive, TypeOK
  <2>2. Mode = "releasing"
    BY <1>1, <2>1 DEF OrderInv, TypeOK, Stage, Answer, Mode
  <2>3. CASE grabbed'[d] = grabbed[d]
    BY <1>2, <1>3, <1>4, <2>1, <2>3, DevicesStay DEF IsStutter
  <2>4. CASE grabbed'[d] # grabbed[d]
    <3>1. ~grabbed'[d]
      BY <1>1, <1>8, <2>4 DEF HandlePause, TypeOK
    <3>2. There' = There /\ Held' = Held \ {d}
      BY <1>2, <1>4, <2>1, <3>1 DEF There, Held
    <3> QED
      BY <1>3, <2>2, <3>2 DEF C!Next, C!LetGo
  <2> QED
    BY <2>3, <2>4
<1>9. CASE Regrab(d)
  <2>1. thread[d] = "resuming" /\ Alive(d) /\ Alive(d)' = Alive(d)
    BY <1>1, <1>9 DEF Regrab, Alive, TypeOK
  <2>2. Mode = "taking"
    BY <1>1, <2>1 DEF OrderInv, TypeOK, Stage, Answer, Mode
  <2>3. CASE grabbed'[d] = grabbed[d]
    BY <1>2, <1>3, <1>4, <2>1, <2>3, DevicesStay DEF IsStutter
  <2>4. CASE grabbed'[d] # grabbed[d]
    <3>1. present[d] /\ grabbed'[d]
      BY <1>1, <1>9, <2>4 DEF Regrab, TypeOK
    <3>2. d \in There /\ There' = There /\ Held' = Held \cup {d}
      BY <1>2, <1>4, <2>1, <3>1 DEF There, Held
    <3> QED
      BY <1>3, <2>2, <3>2 DEF C!Next, C!Take
  <2> QED
    BY <2>3, <2>4
<1> QED
  BY <1>5, <1>6, <1>7, <1>8, <1>9 DEF Step

\* Nobody else does anything to a device but take it away.
LEMMA OtherRefines ==
  ASSUME Inv, OtherStep
  PROVE  C!Next \/ IsStutter
<1>1. TypeOK
  BY DEF Inv
<1>2. UNCHANGED <<stage, enabled, epoch, thread, grabbed>>
  BY <1>1, OtherFrame
<1>3. Mode' = Mode /\ \A d \in Device : Alive(d)' = Alive(d)
  BY <1>2 DEF Mode, Alive
<1>4. CASE present' = present
  BY <1>2, <1>3, <1>4, DevicesStay DEF IsStutter
<1>5. ASSUME NEW d \in Device, Lose(d)
      PROVE  C!Next \/ IsStutter
  <2>1. ~present'[d] /\ \A e \in Device \ {d} : present'[e] = present[e]
    BY <1>1, <1>5 DEF Lose, TypeOK
  <2>2. There' = There \ {d} /\ Held' = Held \ {d}
    BY <1>2, <1>3, <2>1 DEF There, Held
  <2>3. CASE d \in There
    BY <1>3, <2>2, <2>3 DEF C!Next, C!Lose
  <2>4. CASE d \notin There
    <3>1. d \notin Held
      BY <2>4 DEF Held
    <3> QED
      BY <1>3, <2>2, <2>4, <3>1 DEF IsStutter
  <2> QED
    BY <2>3, <2>4
<1>6. (\E d \in Device : Lose(d)) \/ present' = present
  BY DEF OtherStep, Post, Make, Key, SendKey, deviceVars, threadVars
<1> QED
  BY <1>4, <1>5, <1>6

\* Every behaviour of the broker and of the threads is one that Custody allows, for any
\* number of devices: capture that is on has them all, and capture that is off none.
THEOREM CaptureImplementsCustody == Spec => ImplementsCustody
<1>1. Init => C!Init
  BY DEF Init, C!Init, Mode, There, Held, Alive
<1>2. Inv /\ [Next]_vars => [C!Next]_C!vars
  <2> SUFFICES ASSUME Inv, [Next]_vars PROVE C!Next \/ IsStutter
    BY DEF IsStutter, C!vars
  <2>1. CASE BrokerStep
    BY <2>1, BrokerRefines
  <2>2. ASSUME NEW d \in Device, Step(d) PROVE C!Next \/ IsStutter
    BY <2>2, StepRefines
  <2>3. CASE OtherStep
    BY <2>3, OtherRefines
  <2>4. CASE UNCHANGED vars
    BY <2>4
    DEF vars, brokerVars, deviceVars, threadVars, IsStutter, Mode, There, Held, Alive
  <2> QED
    BY <2>1, <2>2, <2>3, <2>4 DEF Next, BrokerStep, OtherStep
<1> QED
  BY <1>1, <1>2, Invariance, PTL DEF Spec, ImplementsCustody, C!Spec
=============================================================================
