--------------------------- MODULE KeyboardProofs ---------------------------
(***************************************************************************)
(* That keyboard, OS and broker agree on every key that went down since    *)
(* the routing last changed, and that what reaches the switches follows    *)
(* Routing, for any number of keys, mappings, edges and sessions, and any  *)
(* capacity of the channel.                                                *)
(***************************************************************************)
EXTENDS Keyboard, SwitchProofs, TLAPS

Input == [mapping : Mapping, edge : Edge]

-----------------------------------------------------------------------------
(* Types *)

LEMMA TypeInit ==
  ASSUME Init
  PROVE  TypeOK
<1>1. channel \in Seq(Input) /\ Len(channel) <= ChannelCapacity
  BY KeyAssumption DEF Init
<1>2. since \in [Key -> 0..era] /\ hook \in [edge : Edge, left : SUBSET Mapping]
  BY EdgesDiffer DEF Init, Idle
<1>3. edges \in 0..MaxEdges /\ handshakes \in 0..MaxHandshakes /\ era \in Nat
  BY KeyAssumption DEF Init
<1>4. active = {} /\ tracker = {} /\ down = {} /\ os = {}
  BY DEF Init, NoneActive
<1>5. /\ stage \in {"idle", "accepting"}
      /\ session \in BOOLEAN /\ paused \in BOOLEAN /\ enabled \in BOOLEAN
  BY DEF Init
<1> QED
  BY <1>1, <1>2, <1>3, <1>4, <1>5 DEF TypeOK, Input

LEMMA TypeDeliver ==
  ASSUME TypeOK, NEW k \in Key, NEW edge \in Edge, Deliver(k, edge)
  PROVE  TypeOK'
<1>1. edges' \in 0..MaxEdges
  BY KeyAssumption DEF Deliver, TypeOK
<1>2. down' \subseteq Key /\ os' \subseteq Key
  BY DEF Deliver, TypeOK, Applied
<1>3. since' \in [Key -> 0..era]
  BY DEF Deliver, TypeOK
<1>4. hook' \in [edge : Edge, left : SUBSET Mapping]
  BY DEF Deliver, TypeOK, Targets, Mapped
<1> QED
  BY <1>1, <1>2, <1>3, <1>4 DEF Deliver, TypeOK, brokerVars

LEMMA TypeSendNext ==
  ASSUME TypeOK, SendNext
  PROVE  TypeOK'
<1>1. PICK m \in hook.left :
        /\ channel' = Append(channel, [mapping |-> m, edge |-> hook.edge])
        /\ hook' = IF hook.left = {m} THEN Idle ELSE [hook EXCEPT !.left = @ \ {m}]
  BY DEF SendNext
<1>2. [mapping |-> m, edge |-> hook.edge] \in Input
  BY DEF TypeOK, Input
<1>3. channel \in Seq(Input) /\ Len(channel) < ChannelCapacity
  BY DEF SendNext, HasRoom, TypeOK, Input
<1>4. channel' \in Seq(Input) /\ Len(channel') <= ChannelCapacity
  BY <1>1, <1>2, <1>3, KeyAssumption
<1>5. hook' \in [edge : Edge, left : SUBSET Mapping]
  BY <1>1, EdgesDiffer DEF TypeOK, Idle
<1> QED
  BY <1>4, <1>5 DEF SendNext, TypeOK, keyVars, brokerVars, Input

LEMMA TypeSimulate ==
  ASSUME TypeOK, NEW m \in Simulated, NEW edge \in Edge, Simulate(m, edge)
  PROVE  TypeOK'
<1>1. [mapping |-> m, edge |-> edge] \in Input
  BY DEF Simulated, Mapped, Input
<1>2. channel \in Seq(Input) /\ Len(channel) < ChannelCapacity
  BY DEF Simulate, HasRoom, TypeOK, Input
<1>3. channel' \in Seq(Input) /\ Len(channel') <= ChannelCapacity
  BY <1>1, <1>2, KeyAssumption DEF Simulate
<1>4. edges' \in 0..MaxEdges
  BY KeyAssumption DEF Simulate, TypeOK
<1> QED
  BY <1>3, <1>4 DEF Simulate, TypeOK, brokerVars, Input

LEMMA TypeTakeInput ==
  ASSUME TypeOK, TakeInput
  PROVE  TypeOK'
<1>1. channel \in Seq(Input) /\ channel # <<>> /\ channel' = Tail(channel)
  BY DEF TakeInput, DropInput, ApplyInput, Ready, TypeOK, Input
<1>2. /\ channel' \in Seq(Input)
      /\ Len(channel) <= ChannelCapacity => Len(channel') <= ChannelCapacity
  BY <1>1, KeyAssumption
<1>3. Head(channel) \in Input
  BY <1>1
<1>4. active' \subseteq Mapping
  BY <1>3 DEF TakeInput, DropInput, ApplyInput, TypeOK, Applied, brokerVars, Input
<1>5. tracker' \subseteq Switch
  BY <1>3, MappingAssumption
  DEF TakeInput, DropInput, ApplyInput, TypeOK, TrackerAfter, brokerVars, Input
<1>6. /\ UNCHANGED <<keyVars, hook, stage, session, paused, enabled, era, handshakes>>
  BY DEF TakeInput, DropInput, ApplyInput, brokerVars
<1> QED
  BY <1>2, <1>4, <1>5, <1>6 DEF TypeOK, keyVars, Input

\* A step of the broker that takes no input: the era is the same or the next one.
LEMMA TypeOther ==
  ASSUME TypeOK,
         \/ FirstHandshake \/ Resume \/ Conclude \/ EndSession
         \/ \E s \in Switch : Escape(s)
  PROVE  TypeOK'
<1>1. UNCHANGED <<keyVars, hook, channel>>
  BY DEF FirstHandshake, Resume, Conclude, Accept, Gone, EndSession, Escape, Revoke,
         Handshake
<1>2. era' \in Nat /\ since' \in [Key -> 0..era']
  <2>1. era' = era \/ era' = era + 1
    BY DEF FirstHandshake, Resume, Conclude, Accept, Gone, EndSession, Escape, Revoke,
           Handshake
  <2>2. era \in Nat /\ since' \in [Key -> 0..era]
    BY <1>1 DEF TypeOK, keyVars
  <2> QED
    BY <2>1, <2>2
<1>3. handshakes' \in 0..MaxHandshakes
  BY KeyAssumption
  DEF FirstHandshake, Resume, Conclude, Accept, Gone, EndSession, Escape, Revoke,
      Handshake, TypeOK
<1>4. /\ stage' \in {"idle", "accepting"}
      /\ active' \subseteq Mapping
      /\ tracker' \subseteq Switch
      /\ session' \in BOOLEAN
      /\ paused' \in BOOLEAN
      /\ enabled' \in BOOLEAN
  BY DEF FirstHandshake, Resume, Conclude, Accept, Gone, EndSession, Escape, Revoke,
         Handshake, TypeOK, NoneActive, ReleaseAll
<1> QED
  BY <1>1, <1>2, <1>3, <1>4 DEF TypeOK, keyVars

LEMMA TypeStep ==
  ASSUME TypeOK, [Next]_vars
  PROVE  TypeOK'
<1>1. CASE UNCHANGED vars
  BY <1>1 DEF vars, keyVars, brokerVars, TypeOK
<1> QED
  BY <1>1, TypeDeliver, TypeSendNext, TypeSimulate, TypeTakeInput, TypeOther DEF Next

\* Every reachable state is well typed, and the channel keeps to its capacity.
THEOREM TypeCorrect == Spec => []TypeOK
BY TypeInit, TypeStep, PTL DEF Spec

-----------------------------------------------------------------------------
(* The OS *)

\* A step that changes the era leaves no key that went down in it.
LEMMA NewEra ==
  ASSUME TypeOK, era' = era + 1, since' = since, NEW k \in Key
  PROVE  since'[k] # era'
BY DEF TypeOK

\* The steps of the broker that change the routing, or all but.
LEMMA RoutingSteps ==
  ASSUME TypeOK,
         \/ FirstHandshake \/ Resume \/ Conclude \/ EndSession
         \/ \E s \in Switch : Escape(s)
  PROVE  /\ UNCHANGED <<keyVars, hook, channel>>
         /\ \/ era' = era + 1
            \/ Accept /\ UNCHANGED <<enabled, active, era>>
BY DEF FirstHandshake, Resume, Conclude, Accept, Gone, EndSession, Escape, Revoke,
       Handshake

LEMMA OsInit ==
  ASSUME Init
  PROVE  OsAgrees
BY DEF Init, OsAgrees

LEMMA OsStep ==
  ASSUME TypeOK, OsAgrees, [Next]_vars
  PROVE  OsAgrees'
<1>1. ASSUME NEW k \in Key, NEW edge \in Edge, Deliver(k, edge)
      PROVE  OsAgrees'
  <2> SUFFICES ASSUME ~enabled, NEW j \in Key, since'[j] = era
               PROVE  j \in os' <=> j \in down'
    BY <1>1 DEF Deliver, OsAgrees, brokerVars
  <2>1. os' = Applied(os, k, edge) /\ down' = Applied(down, k, edge)
    BY <1>1 DEF Deliver, Passes
  <2>2. CASE j = k
    BY <2>1, <2>2 DEF Applied
  <2>3. CASE j # k
    <3>1. since[j] = era
      BY <1>1, <2>3 DEF Deliver, TypeOK
    <3> QED
      BY <2>1, <2>3, <3>1 DEF OsAgrees, Applied
  <2> QED
    BY <2>2, <2>3
<1>2. CASE \/ FirstHandshake \/ Resume \/ Conclude \/ EndSession
           \/ \E s \in Switch : Escape(s)
  <2>1. CASE era' = era + 1
    BY <1>2, <2>1, RoutingSteps, NewEra DEF OsAgrees, keyVars
  <2>2. CASE UNCHANGED <<enabled, active, era>>
    BY <1>2, <2>2, RoutingSteps DEF OsAgrees, keyVars
  <2> QED
    BY <1>2, <2>1, <2>2, RoutingSteps
<1>3. CASE UNCHANGED <<keyVars, enabled, era>>
  BY <1>3 DEF OsAgrees, keyVars
<1>4. ASSUME NEW m \in Simulated, NEW edge \in Edge, Simulate(m, edge)
      PROVE  OsAgrees'
  BY <1>4 DEF Simulate, OsAgrees, brokerVars
<1>5. SendNext \/ TakeInput \/ UNCHANGED vars => UNCHANGED <<keyVars, enabled, era>>
  BY DEF SendNext, TakeInput, DropInput, ApplyInput, vars, brokerVars
<1> QED
  BY <1>1, <1>2, <1>3, <1>4, <1>5 DEF Next

\* While capture is released, the OS has the right idea of every key that went
\* down since, for any number of keys and whatever the broker does.
THEOREM OsAlwaysAgrees == Spec => []OsAgrees
BY TypeInit, TypeStep, OsInit, OsStep, PTL DEF Spec

-----------------------------------------------------------------------------
(* The broker *)

\* The command at place l of the channel is the last one there for m.
LastFor(m, l) ==
  /\ l \in 1..Len(channel)
  /\ channel[l].mapping = m
  /\ \A j \in l + 1..Len(channel) : channel[j].mapping # m

NoneFor(m) == \A l \in 1..Len(channel) : channel[l].mapping # m

LEMMA SendingLast ==
  ASSUME channel \in Seq(Input), NEW c, channel' = Append(channel, c), NEW m, NEW l
  PROVE  /\ c.mapping = m => ~NoneFor(m)'
         /\ c.mapping = m /\ LastFor(m, l)' => channel'[l] = c
         /\ c.mapping # m /\ NoneFor(m)' => NoneFor(m)
         /\ c.mapping # m /\ LastFor(m, l)' => LastFor(m, l) /\ channel'[l] = channel[l]
<1> DEFINE n == Len(channel)
<1>1. n \in Nat /\ Len(channel') = n + 1 /\ channel'[n + 1] = c
  OBVIOUS
<1>2. \A i \in 1..n : channel'[i] = channel[i]
  OBVIOUS
<1>3. ASSUME LastFor(m, l)', c.mapping = m
      PROVE  channel'[l] = c
  <2>1. l = n + 1 \/ (n + 1 \in l + 1..n + 1)
    BY <1>1, <1>3 DEF LastFor
  <2> QED
    BY <1>1, <1>3, <2>1 DEF LastFor
<1>4. ASSUME LastFor(m, l)', c.mapping # m
      PROVE  LastFor(m, l) /\ channel'[l] = channel[l]
  <2>1. l \in 1..n
    BY <1>1, <1>4 DEF LastFor
  <2>2. \A j \in l + 1..n : channel[j].mapping # m
    BY <1>1, <1>2, <1>4, <2>1 DEF LastFor
  <2> QED
    BY <1>2, <1>4, <2>1, <2>2 DEF LastFor
<1>5. c.mapping = m => ~NoneFor(m)'
  BY <1>1 DEF NoneFor
<1>6. c.mapping # m /\ NoneFor(m)' => NoneFor(m)
  BY <1>1, <1>2 DEF NoneFor
<1> QED
  BY <1>3, <1>4, <1>5, <1>6

LEMMA TakingLast ==
  ASSUME channel \in Seq(Input), channel # <<>>, channel' = Tail(channel), NEW m, NEW l
  PROVE  /\ LastFor(m, l)' => LastFor(m, l + 1) /\ channel'[l] = channel[l + 1]
         /\ NoneFor(m)' /\ Head(channel).mapping = m => LastFor(m, 1)
         /\ NoneFor(m)' /\ Head(channel).mapping # m => NoneFor(m)
<1> DEFINE n == Len(channel)
<1>1. n \in Nat \ {0} /\ Len(channel') = n - 1 /\ Head(channel) = channel[1]
  OBVIOUS
<1>2. \A i \in 1..n - 1 : channel'[i] = channel[i + 1]
  OBVIOUS
<1>3. ASSUME LastFor(m, l)'
      PROVE  LastFor(m, l + 1) /\ channel'[l] = channel[l + 1]
  <2>1. l \in 1..n - 1 /\ l + 1 \in 1..n /\ channel'[l] = channel[l + 1]
    BY <1>1, <1>2, <1>3 DEF LastFor
  <2>2. ASSUME NEW j \in (l + 1) + 1..n
        PROVE  channel[j].mapping # m
    <3>1. j - 1 \in l + 1..n - 1 /\ channel'[j - 1] = channel[(j - 1) + 1]
      BY <1>1, <1>2, <2>1
    <3> QED
      BY <1>1, <1>3, <2>1, <3>1 DEF LastFor
  <2> QED
    BY <1>3, <2>1, <2>2 DEF LastFor
<1>4. ASSUME NoneFor(m)'
      PROVE  \A j \in 2..n : channel[j].mapping # m
  <2> TAKE j \in 2..n
  <2>1. j - 1 \in 1..n - 1 /\ channel'[j - 1] = channel[(j - 1) + 1]
    BY <1>1, <1>2
  <2> QED
    BY <1>1, <1>4, <2>1 DEF NoneFor
<1>5. NoneFor(m)' /\ Head(channel).mapping = m => LastFor(m, 1)
  BY <1>1, <1>4 DEF LastFor
<1>6. NoneFor(m)' /\ Head(channel).mapping # m => NoneFor(m)
  <2> SUFFICES ASSUME NoneFor(m)', Head(channel).mapping # m, NEW j \in 1..n
               PROVE  channel[j].mapping # m
    BY DEF NoneFor
  <2>1. j = 1 \/ j \in 2..n
    BY <1>1
  <2> QED
    BY <1>1, <1>4, <2>1
<1> QED
  BY <1>3, <1>5, <1>6

\* What is under way for m, or else what the broker believes, is what k is.
Told(m, k) ==
  /\ \A l \in 1..Len(channel) :
       LastFor(m, l) => (channel[l].edge = Press <=> k \in down)
  /\ NoneFor(m) => stage = "idle" /\ (m \in active <=> k \in down)

\* The edge in hand is the last one of its key.
HookFresh ==
  \A m \in hook.left :
    KeyOf[m] # NoKey /\ (hook.edge = Press <=> KeyOf[m] \in down)

\* While it does not accept a handshake, the broker listens when the hook captures.
CaptureHeard == enabled /\ stage = "idle" => ~paused

\* A key that went down since the routing changed is known.
FreshKnown ==
  enabled =>
    \A k \in Key, m \in Mapping :
      KeyOf[m] = k /\ since[k] = era /\ m \notin hook.left => Told(m, k)

Inv == TypeOK /\ HookFresh /\ CaptureHeard /\ FreshKnown

LEMMA InvInit ==
  ASSUME Init
  PROVE  Inv
<1>1. HookFresh /\ CaptureHeard
  BY DEF Init, HookFresh, CaptureHeard, Idle
<1>2. FreshKnown
  BY DEF Init, FreshKnown, Told, NoneActive, Idle
<1> QED
  BY <1>1, <1>2, TypeInit DEF Inv

LEMMA InvDeliver ==
  ASSUME Inv, NEW k \in Key, NEW edge \in Edge, Deliver(k, edge)
  PROVE  HookFresh' /\ CaptureHeard' /\ FreshKnown'
<1>1. /\ hook = Idle /\ hook.left = {}
      /\ down' = Applied(down, k, edge)
      /\ UNCHANGED <<channel, stage, active, paused, enabled, era>>
  BY DEF Deliver, Idle, brokerVars
<1>2. CaptureHeard'
  BY <1>1 DEF Inv, CaptureHeard
<1>3. HookFresh'
  <2>1. CASE enabled
    <3>1. hook'.edge = edge /\ hook'.left = Mapped(k)
      BY <2>1 DEF Deliver, Passes, Targets
    <3> QED
      BY <1>1, <3>1, KeyAssumption, EdgesDiffer DEF HookFresh, Mapped, Applied
  <2>2. CASE ~enabled
    BY <1>1, <2>2 DEF Deliver, Passes, HookFresh
  <2> QED
    BY <2>1, <2>2
<1>4. FreshKnown'
  <2> SUFFICES ASSUME enabled, NEW j \in Key, NEW m \in Mapping,
                      KeyOf[m] = j, since'[j] = era, m \notin hook'.left
               PROVE  Told(m, j)'
    BY <1>1 DEF FreshKnown
  <2>1. j # k
    BY DEF Deliver, Passes, Targets, Mapped
  <2>2. since[j] = era /\ (j \in down' <=> j \in down)
    BY <1>1, <2>1 DEF Deliver, Inv, TypeOK, Applied
  <2>3. Told(m, j)
    BY <1>1, <2>2 DEF Inv, FreshKnown
  <2> QED
    BY <1>1, <2>2, <2>3 DEF Told, LastFor, NoneFor
<1> QED
  BY <1>2, <1>3, <1>4

LEMMA InvSendNext ==
  ASSUME Inv, SendNext
  PROVE  HookFresh' /\ CaptureHeard' /\ FreshKnown'
<1>1. PICK n \in hook.left :
        /\ channel' = Append(channel, [mapping |-> n, edge |-> hook.edge])
        /\ hook' = IF hook.left = {n} THEN Idle ELSE [hook EXCEPT !.left = @ \ {n}]
  BY DEF SendNext
<1>2. hook'.left = hook.left \ {n} /\ (hook'.left # {} => hook'.edge = hook.edge)
  BY <1>1 DEF Idle, Inv, TypeOK
<1>3. UNCHANGED <<down, since, stage, active, paused, enabled, era>>
  BY DEF SendNext, keyVars, brokerVars
<1>4. HookFresh' /\ CaptureHeard'
  BY <1>2, <1>3 DEF Inv, HookFresh, CaptureHeard
<1>5. FreshKnown'
  <2> DEFINE c == [mapping |-> n, edge |-> hook.edge]
  <2>0. channel \in Seq(Input) /\ channel' = Append(channel, c)
    BY <1>1 DEF Inv, TypeOK, Input
  <2> SUFFICES ASSUME enabled, NEW k \in Key, NEW m \in Mapping,
                      KeyOf[m] = k, since[k] = era, m \notin hook'.left
               PROVE  Told(m, k)'
    BY <1>3 DEF FreshKnown
  <2>1. CASE m = n
    <3>1. hook.edge = Press <=> k \in down
      BY <2>1 DEF Inv, HookFresh
    <3>2. c.mapping = m /\ c.edge = hook.edge
      BY <2>1
    <3> HIDE DEF c
    <3>3. ~NoneFor(m)' /\ \A l : LastFor(m, l)' => channel'[l] = c
      BY <2>0, <3>2, SendingLast
    <3> QED
      BY <1>3, <3>1, <3>2, <3>3 DEF Told
  <2>2. CASE m # n
    <3>1. Told(m, k)
      BY <1>2, <2>2 DEF Inv, FreshKnown
    <3>2. c.mapping # m
      BY <2>2
    <3> HIDE DEF c
    <3>3. /\ NoneFor(m)' => NoneFor(m)
          /\ \A l : LastFor(m, l)' => LastFor(m, l) /\ channel'[l] = channel[l]
      BY <2>0, <3>2, SendingLast
    <3>4. \A l : LastFor(m, l) => l \in 1..Len(channel)
      BY DEF LastFor
    <3> QED
      BY <1>3, <3>1, <3>3, <3>4 DEF Told
  <2> QED
    BY <2>1, <2>2
<1> QED
  BY <1>4, <1>5

LEMMA InvSimulate ==
  ASSUME Inv, NEW n \in Simulated, NEW edge \in Edge, Simulate(n, edge)
  PROVE  HookFresh' /\ CaptureHeard' /\ FreshKnown'
<1> DEFINE c == [mapping |-> n, edge |-> edge]
<1>1. UNCHANGED <<down, since, hook, stage, active, paused, enabled, era>>
  BY DEF Simulate, brokerVars
<1>2. HookFresh' /\ CaptureHeard'
  BY <1>1 DEF Inv, HookFresh, CaptureHeard
<1>3. channel \in Seq(Input) /\ channel' = Append(channel, c) /\ KeyOf[c.mapping] = NoKey
  BY DEF Inv, TypeOK, Input, Simulate, Simulated, Mapped
<1> HIDE DEF c
<1>4. FreshKnown'
  <2> SUFFICES ASSUME enabled, NEW k \in Key, NEW m \in Mapping,
                      KeyOf[m] = k, since[k] = era, m \notin hook.left
               PROVE  Told(m, k)'
    BY <1>1 DEF FreshKnown
  <2>1. Told(m, k)
    BY DEF Inv, FreshKnown
  <2>2. c.mapping # m
    BY <1>3, KeyAssumption
  <2>3. /\ NoneFor(m)' => NoneFor(m)
        /\ \A l : LastFor(m, l)' => LastFor(m, l) /\ channel'[l] = channel[l]
    BY <1>3, <2>2, SendingLast
  <2>4. \A l : LastFor(m, l) => l \in 1..Len(channel)
    BY DEF LastFor
  <2> QED
    BY <1>1, <2>1, <2>3, <2>4 DEF Told
<1> QED
  BY <1>2, <1>4

\* A command that is taken leaves its mapping as the command says, if the broker
\* listens: an edge that is refused says what is known.
LEMMA Taken ==
  ASSUME TypeOK, TakeInput, Listening, NEW m \in Mapping
  PROVE  IF m = Head(channel).mapping
         THEN m \in active' <=> Head(channel).edge = Press
         ELSE m \in active' <=> m \in active
<1>0. channel \in Seq(Input) /\ channel # <<>>
  BY DEF TakeInput, DropInput, ApplyInput, Ready, TypeOK, Input
<1>1. Head(channel) \in Input
  BY <1>0
<1>2. CASE DropInput
  BY <1>1, <1>2 DEF DropInput, Accepted, IsValid, brokerVars
<1>3. CASE ApplyInput
  BY <1>1, <1>3, EdgesDiffer DEF ApplyInput, Accepted, IsValid, Applied, Input
<1> QED
  BY <1>2, <1>3 DEF TakeInput

LEMMA InvTakeInput ==
  ASSUME Inv, TakeInput
  PROVE  HookFresh' /\ CaptureHeard' /\ FreshKnown'
<1>1. /\ UNCHANGED <<down, since, hook, stage, paused, enabled, era>>
      /\ channel \in Seq(Input) /\ channel # <<>> /\ channel' = Tail(channel)
      /\ stage = "idle"
  BY DEF TakeInput, DropInput, ApplyInput, Ready, brokerVars, keyVars, Inv, TypeOK, Input
<1>2. HookFresh' /\ CaptureHeard'
  BY <1>1 DEF Inv, HookFresh, CaptureHeard
<1>3. FreshKnown'
  <2> SUFFICES ASSUME enabled, NEW k \in Key, NEW m \in Mapping,
                      KeyOf[m] = k, since[k] = era, m \notin hook.left
               PROVE  Told(m, k)'
    BY <1>1 DEF FreshKnown
  <2>1. Told(m, k)
    BY DEF Inv, FreshKnown
  <2>2. Listening
    BY <1>1 DEF Inv, CaptureHeard, Listening
  <2>3. \A l \in 1..Len(channel') :
          LastFor(m, l)' => (channel'[l].edge = Press <=> k \in down')
    <3>1. \A l : LastFor(m, l)' => LastFor(m, l + 1) /\ channel'[l] = channel[l + 1]
      BY <1>1, TakingLast
    <3>2. \A l : LastFor(m, l) => l \in 1..Len(channel)
      BY DEF LastFor
    <3> QED
      BY <1>1, <2>1, <3>1, <3>2 DEF Told
  <2>4. ASSUME NoneFor(m)'
        PROVE  m \in active' <=> k \in down'
    <3>1. CASE Head(channel).mapping = m
      <4>1. LastFor(m, 1) /\ Head(channel) = channel[1] /\ 1 \in 1..Len(channel)
        BY <1>1, <2>4, <3>1, TakingLast
      <4>2. channel[1].edge = Press <=> k \in down
        BY <2>1, <4>1 DEF Told
      <4> QED
        BY <1>1, <2>2, <3>1, <4>1, <4>2, Taken DEF Inv
    <3>2. CASE Head(channel).mapping # m
      <4>1. NoneFor(m)
        BY <1>1, <2>4, <3>2, TakingLast
      <4> QED
        BY <1>1, <2>1, <2>2, <3>2, <4>1, Taken DEF Told, Inv
    <3> QED
      BY <3>1, <3>2
  <2> QED
    BY <1>1, <2>3, <2>4 DEF Told
<1> QED
  BY <1>2, <1>3

LEMMA InvOther ==
  ASSUME Inv,
         \/ FirstHandshake \/ Resume \/ Conclude \/ EndSession
         \/ \E s \in Switch : Escape(s)
  PROVE  HookFresh' /\ CaptureHeard' /\ FreshKnown'
<1>1. /\ UNCHANGED <<keyVars, hook, channel>>
      /\ \/ era' = era + 1
         \/ Accept /\ UNCHANGED <<enabled, active, era>>
  BY RoutingSteps DEF Inv
<1>2. HookFresh'
  BY <1>1 DEF Inv, HookFresh, keyVars
<1>3. CaptureHeard'
  BY DEF FirstHandshake, Resume, Conclude, Accept, Gone, EndSession, Escape, Revoke,
         Handshake, Inv, CaptureHeard
<1>4. FreshKnown'
  <2>1. CASE era' = era + 1
    BY <1>1, <2>1, NewEra DEF FreshKnown, Inv, keyVars
  <2>2. CASE Accept /\ UNCHANGED <<enabled, active, era>>
    <3> SUFFICES ASSUME enabled, NEW k \in Key, NEW m \in Mapping,
                        KeyOf[m] = k, since[k] = era, m \notin hook.left
                 PROVE  Told(m, k)'
      BY <1>1, <2>2 DEF FreshKnown, keyVars
    <3>1. Told(m, k)
      BY DEF Inv, FreshKnown
    <3> QED
      BY <1>1, <2>2, <3>1 DEF Told, LastFor, NoneFor, Accept, keyVars
  <2> QED
    BY <1>1, <2>1, <2>2
<1> QED
  BY <1>2, <1>3, <1>4

LEMMA InvStep ==
  ASSUME Inv, [Next]_vars
  PROVE  Inv'
<1>1. TypeOK'
  BY TypeStep DEF Inv
<1>2. CASE UNCHANGED vars
  <2>1. HookFresh' /\ CaptureHeard'
    BY <1>2 DEF Inv, HookFresh, CaptureHeard, vars, keyVars, brokerVars
  <2>2. FreshKnown'
    BY <1>2
    DEF Inv, FreshKnown, Told, LastFor, NoneFor, vars, keyVars, brokerVars
  <2> QED
    BY <1>1, <2>1, <2>2 DEF Inv
<1> QED
  BY <1>1, <1>2, InvDeliver, InvSendNext, InvSimulate, InvTakeInput, InvOther
  DEF Next, Inv

LEMMA InvAgrees ==
  ASSUME Inv
  PROVE  BrokerAgrees
<1> SUFFICES ASSUME Quiet, Listening, NEW k \in Key, NEW m \in Mapping,
                    KeyOf[m] = k, since[k] = era
             PROVE  m \in active <=> k \in down
  BY DEF BrokerAgrees
<1>1. Told(m, k)
  BY DEF Quiet, Idle, Listening, Inv, FreshKnown
<1>2. NoneFor(m)
  BY DEF Quiet, NoneFor
<1> QED
  BY <1>1, <1>2 DEF Told

\* Once the commands under way are handled, the broker and the keyboard agree on
\* every key that went down since the routing changed, for every mapping of the
\* key, whatever the simulator sends and wherever the hook was stopped.
THEOREM BrokerAlwaysAgrees == Spec => []BrokerAgrees
BY InvInit, InvStep, InvAgrees, PTL DEF Spec

-----------------------------------------------------------------------------
(* The refinement *)

\* Nothing is held while routing is paused, and only then is a session prepared.
RoutingInv ==
  /\ TypeOK
  /\ session => ~paused
  /\ stage = "accepting" => paused /\ ~session
  /\ paused => active = {}

\* An edge moves its switch, or none.
LEMMA EdgeMoves ==
  ASSUME NEW A \in SUBSET Mapping, NEW m \in Mapping, NEW edge \in Edge,
         IsValid(A, m, edge)
  PROVE  \/ Held(Applied(A, m, edge)) = Held(A)
         \/ /\ SwitchOf[m] \in Switch
            /\ Held(Applied(A, m, edge)) =
                 IF SwitchOf[m] \in Held(A) THEN Held(A) \ {SwitchOf[m]}
                 ELSE Held(A) \cup {SwitchOf[m]}
BY TransitionsExact

LEMMA RoutingInit == Init => RoutingInv /\ R!Init
BY TypeInit, NothingHeld DEF Init, RoutingInv, NoneActive, R!Init, Mode

\* An input that is taken.
LEMMA TakeRefines ==
  ASSUME RoutingInv, TakeInput
  PROVE  /\ UNCHANGED <<stage, session, paused>>
         /\ paused => active' = active
         /\ R!Next \/ UNCHANGED R!vars
<1>1. UNCHANGED <<stage, session, paused>>
  BY DEF TakeInput, DropInput, ApplyInput, brokerVars
<1>2. CASE DropInput
  BY <1>1, <1>2 DEF DropInput, brokerVars, R!vars, Mode
<1>3. CASE ApplyInput
  <2> DEFINE m == Head(channel).mapping
             edge == Head(channel).edge
  <2>1. channel # <<>> /\ ~paused /\ IsValid(active, m, edge)
        /\ active' = Applied(active, m, edge)
    BY <1>3 DEF ApplyInput, Ready, Accepted, Listening
  <2>2. active \in SUBSET Mapping /\ m \in Mapping /\ edge \in Edge
    <3>1. channel \in Seq(Input)
      BY DEF RoutingInv, TypeOK, Input
    <3>2. Head(channel) \in Input
      BY <2>1, <3>1
    <3> QED
      BY <3>2 DEF RoutingInv, TypeOK, Input
  <2> HIDE DEF m, edge
  <2>3. \/ Held(active') = Held(active)
        \/ /\ SwitchOf[m] \in Switch
           /\ Held(active') =
                IF SwitchOf[m] \in Held(active) THEN Held(active) \ {SwitchOf[m]}
                ELSE Held(active) \cup {SwitchOf[m]}
    BY <2>1, <2>2, EdgeMoves
  <2>4. Mode' = Mode /\ Mode # "paused"
    BY <1>1, <2>1 DEF Mode
  <2>5. CASE Held(active') = Held(active)
    BY <1>1, <2>1, <2>4, <2>5 DEF R!vars
  <2>6. CASE Held(active') # Held(active)
    <3>1. SwitchOf[m] \in Switch /\ R!Toggle(SwitchOf[m])
      BY <1>1, <2>3, <2>4, <2>6 DEF R!Toggle
    <3> QED
      BY <1>1, <2>1, <3>1 DEF R!Next
  <2> QED
    BY <2>5, <2>6
<1> QED
  BY <1>2, <1>3 DEF TakeInput

\* A session that starts, ends, or comes to nothing.
LEMMA SessionRefines ==
  ASSUME RoutingInv,
         \/ FirstHandshake \/ Resume \/ Conclude \/ EndSession
         \/ \E s \in Switch : Escape(s)
  PROVE  /\ session' => ~paused'
         /\ stage' = "accepting" => paused' /\ ~session'
         /\ paused' => active' = {}
         /\ R!Next \/ UNCHANGED R!vars
<1>0. session \in BOOLEAN
  BY DEF RoutingInv, TypeOK
<1>1. CASE FirstHandshake
  <2>1. /\ stage = "idle" /\ stage' = stage /\ ~session /\ ~paused /\ active' = {}
        /\ \/ session' = TRUE /\ paused' = paused
           \/ session' = session /\ paused' = TRUE
    BY <1>1 DEF FirstHandshake, Handshake, ReleaseAll, NoneActive
  <2>2. Held(active') = {}
    BY <2>1, NothingHeld
  <2>3. R!Grant(TRUE) \/ R!Withdraw
    BY <1>0, <2>1, <2>2 DEF R!Grant, R!Withdraw, Mode
  <2>4. R!Next
    BY <2>3 DEF R!Next
  <2>5. session' => ~paused'
    BY <1>0, <2>1
  <2>6. stage' # "accepting"
    BY <2>1
  <2> QED
    BY <2>1, <2>4, <2>5, <2>6
<1>2. CASE Resume \/ Gone
  <2>1. /\ UNCHANGED <<active, session, paused>> /\ paused
        /\ Resume => ~session
    BY <1>2 DEF Resume, Handshake, Gone, RoutingInv
  <2>2. /\ Gone => stage' = "idle"
        /\ ~session
    BY <1>2, <2>1 DEF Gone, RoutingInv
  <2>3. R!Next \/ UNCHANGED R!vars
    BY <2>1 DEF R!vars, Mode
  <2>4. active = {} /\ active' = {} /\ ~session' /\ paused'
    BY <2>1, <2>2 DEF RoutingInv
  <2> QED
    BY <2>3, <2>4
<1>3. CASE Accept
  <2>1. /\ paused /\ ~session /\ active = {} /\ active' = {}
        /\ ~paused' /\ session' = TRUE /\ stage' = "idle"
    BY <1>3 DEF Accept, RoutingInv
  <2>2. Held(active') = {}
    BY <2>1, NothingHeld
  <2>3. R!Grant(TRUE)
    BY <2>1, <2>2 DEF R!Grant, Mode
  <2> QED
    BY <2>1, <2>3 DEF R!Next
<1>4. CASE Revoke
  <2>1. /\ session /\ ~paused /\ session' = FALSE /\ paused' = TRUE /\ active' = {}
        /\ stage' = stage
    BY <1>4 DEF Revoke, ReleaseAll, NoneActive, RoutingInv
  <2>2. Held(active') = {}
    BY <2>1, NothingHeld
  <2>3. R!Withdraw
    BY <2>1, <2>2 DEF R!Withdraw, Mode
  <2> QED
    BY <2>1, <2>3 DEF R!Next
<1> QED
  BY <1>1, <1>2, <1>3, <1>4 DEF Conclude, EndSession, Escape

LEMMA RoutingStep == RoutingInv /\ [Next]_vars => RoutingInv' /\ [R!Next]_R!vars
<1> SUFFICES ASSUME RoutingInv, [Next]_vars
             PROVE  RoutingInv' /\ (R!Next \/ UNCHANGED R!vars)
  OBVIOUS
<1>1. TypeOK'
  BY TypeStep DEF RoutingInv
<1>2. CASE TakeInput
  BY <1>1, <1>2, TakeRefines DEF RoutingInv
<1>3. CASE \/ FirstHandshake \/ Resume \/ Conclude \/ EndSession
           \/ \E s \in Switch : Escape(s)
  BY <1>1, <1>3, SessionRefines DEF RoutingInv
<1>4. CASE UNCHANGED brokerVars
  BY <1>1, <1>4 DEF brokerVars, RoutingInv, R!vars, Mode
<1> QED
  BY <1>2, <1>3, <1>4 DEF Next, Deliver, Simulate, SendNext, vars

\* Whatever the hook, the simulator and the channel hold when routing changes, the
\* switches move as Routing allows.
THEOREM KeyboardImplementsRouting == Spec => ImplementsRouting
BY RoutingInit, RoutingStep, PTL DEF Spec, ImplementsRouting, R!Spec
=============================================================================
