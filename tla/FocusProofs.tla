----------------------------- MODULE FocusProofs -----------------------------
(***************************************************************************)
(* Which sessions the focus watcher can end of those whose application has *)
(* kept the focus, for any number of applications, handshakes and changes  *)
(* of focus, and any capacity of the channel.                              *)
(***************************************************************************)
EXTENDS Focus, TLAPS

\* The commands there may be while n handshakes were sent.
Commands(n) == {Focus(p) : p \in App} \cup {Shake(i) : i \in 1..n}

LEMMA CommandsGrow ==
  ASSUME NEW n \in Nat, NEW s \in Seq(Commands(n))
  PROVE  s \in Seq(Commands(n + 1))
<1>1. Commands(n) \subseteq Commands(n + 1)
  BY DEF Commands
<1> QED
  BY <1>1

LEMMA CommandKinds ==
  ASSUME NEW n \in Nat, NEW c \in Commands(n)
  PROVE  /\ c.kind \in {"focus", "handshake"}
         /\ c.kind = "focus" => c.pid \in App
         /\ c.kind = "handshake" => c.ask \in 1..n
BY DEF Commands, Focus, Shake

LEMMA TypeInit ==
  ASSUME Init
  PROVE  TypeOK
BY FocusAssumption DEF Init, TypeOK, App

LEMMA TypeStep ==
  ASSUME TypeOK, [Next]_vars
  PROVE  TypeOK'
<1> DEFINE n == Len(asked)
<1>1. n \in Nat /\ channel \in Seq(Commands(n))
  BY DEF TypeOK, Commands
<1>2. ASSUME NEW p \in App, Switch(p)
      PROVE  TypeOK'
  <2>1. /\ front' = p /\ steady' \subseteq steady /\ last' = last /\ report' = report
        /\ channel' = channel /\ asked' = asked /\ waiting' = waiting
        /\ focused' = focused /\ session' = session /\ overtaken' = overtaken
    BY <1>2 DEF Switch, watcherVars, askVars
  <2>2. switches' \in 0..MaxSwitches
    BY <1>2, FocusAssumption DEF Switch, TypeOK
  <2> QED
    BY <2>1, <2>2 DEF TypeOK
<1>3. ASSUME NEW p \in App, SendAsk(p)
      PROVE  TypeOK'
  <2>1. /\ asked' \in Seq(App) /\ Len(asked') = n + 1
        /\ overtaken' \in Seq(SUBSET App) /\ Len(overtaken') = n + 1
    BY <1>3 DEF SendAsk, TypeOK
  <2>2. n + 1 <= MaxAsks
    BY <1>3, <1>1, FocusAssumption DEF SendAsk, Ask
  <2>3. channel' \in Seq(Commands(n + 1))
    BY <1>1, <1>3, CommandsGrow DEF SendAsk
  <2>4. /\ waiting' \subseteq 1..n + 1
        /\ focused' \subseteq 1..n + 1
        /\ steady' \subseteq 1..n + 1
        /\ session' \in 0..n + 1
    <3>1. /\ waiting \subseteq 1..n /\ focused \subseteq 1..n
          /\ steady \subseteq 1..n /\ session \in 0..n
      BY DEF TypeOK
    <3>2. /\ waiting' = waiting \cup {n + 1}
          /\ focused' \subseteq focused \cup {n + 1}
          /\ steady' \subseteq steady \cup {n + 1}
          /\ session' = session
      BY <1>3 DEF SendAsk
    <3> HIDE DEF n
    <3> QED
      BY <1>1, <3>1, <3>2
  <2> QED
    BY <1>3, <2>1, <2>2, <2>3, <2>4 DEF SendAsk, TypeOK, watcherVars, Commands
<1>4. ASSUME NEW i \in Ask, Post(i)
      PROVE  TypeOK'
  <2>1. Shake(i) \in Commands(n)
    BY <1>4 DEF Post, TypeOK, Commands
  <2>2. channel' \in Seq(Commands(n)) /\ Len(channel') <= ChannelCapacity
    BY <1>1, <1>4, <2>1, FocusAssumption DEF Post, Queued, HasRoom
  <2> QED
    BY <1>4, <2>2 DEF Post, TypeOK, watcherVars, Commands
<1>5. CASE Poll
  BY <1>5 DEF Poll, TypeOK, askVars
<1>6. CASE SendReport
  <2>1. PICK p \in report : Sent(p)
    BY <1>6 DEF SendReport
  <2>2. Focus(p) \in Commands(n)
    BY <2>1 DEF TypeOK, Commands
  <2>3. channel' \in Seq(Commands(n)) /\ Len(channel') <= ChannelCapacity
    BY <1>1, <2>1, <2>2, FocusAssumption DEF Sent, HasRoom
  <2> QED
    BY <1>6, <2>3 DEF SendReport, TypeOK, askVars, Commands
<1>7. CASE Take
  <2>1. channel # <<>> /\ channel' = Tail(channel)
    BY <1>7 DEF Take, TakeHandshake, TakeFocus
  <2>2. channel' \in Seq(Commands(n)) /\ Len(channel') <= ChannelCapacity
    BY <1>1, <2>1, FocusAssumption DEF TypeOK
  <2>3. Head(channel) \in Commands(n)
    BY <1>1, <2>1
  <2>4. session' \in 0..n
    BY <1>1, <1>7, <2>3, CommandKinds DEF Take, TakeHandshake, TakeFocus, TypeOK
  <2> QED
    BY <1>7, <2>2, <2>4
    DEF Take, TakeHandshake, TakeFocus, TypeOK, watcherVars, askVars, Commands
<1>8. CASE EndSession
  BY <1>8 DEF EndSession, TypeOK, watcherVars, askVars
<1>9. CASE UNCHANGED vars
  BY <1>9 DEF vars, TypeOK, watcherVars, askVars
<1> QED
  BY <1>2, <1>3, <1>4, <1>5, <1>6, <1>7, <1>8, <1>9 DEF Next

\* Every reachable state is well typed, and the channel keeps to its capacity.
THEOREM TypeCorrect == Spec => []TypeOK
BY TypeInit, TypeStep, PTL DEF Spec

-----------------------------------------------------------------------------
(* The application of a steady handshake has the focus, and what the        *)
(* watcher is about to say, or said behind it in the channel, is that or    *)
(* what it was about to say when the handshake was sent.                    *)

\* The report at place l will be handled in the session of handshake i, if it
\* gets one and keeps it.
Concerns(i, l) ==
  /\ channel[l].kind = "focus"
  /\ \/ session = i
     \/ \E j \in 1..l - 1 : channel[j].kind = "handshake" /\ channel[j].ask = i

Expected(i) == {asked[i]} \cup overtaken[i]

Supported(i) ==
  /\ front = asked[i]
  /\ report \subseteq Expected(i)
  /\ \A l \in 1..Len(channel) : Concerns(i, l) => channel[l].pid \in Expected(i)

SteadyInv == \A i \in steady : asked[i] = NoPid \/ Supported(i)

\* A step that takes no command and sends none.
LEMMA SameChannel ==
  ASSUME TypeOK, NEW i \in steady, Supported(i),
         channel' = channel, asked'[i] = asked[i], overtaken'[i] = overtaken[i],
         front' = asked[i], report' \subseteq Expected(i), session' = i => session = i
  PROVE  Supported(i)'
BY DEF Supported, Concerns, Expected

\* A step that sends the command c.
LEMMA Sending ==
  ASSUME TypeOK, NEW i \in steady, Supported(i), NEW c,
         channel' = Append(channel, c), c.kind = "focus" => c.pid \in Expected(i),
         Expected(i)' = Expected(i), asked' = asked, front' = front,
         report' \subseteq report,
         session' = session
  PROVE  Supported(i)'
<1> USE DEF Supported
<1>1. Len(channel) \in Nat /\ Len(channel') = Len(channel) + 1
  BY DEF TypeOK
<1>2. \A l \in 1..Len(channel) : channel'[l] = channel[l]
  BY DEF TypeOK
<1>3. channel'[Len(channel) + 1] = c
  BY DEF TypeOK
<1>4. ASSUME NEW l \in 1..Len(channel'), Concerns(i, l)'
      PROVE  channel'[l].pid \in Expected(i)
  <2>1. CASE l = Len(channel) + 1
    BY <1>3, <1>4, <2>1 DEF Concerns
  <2>2. CASE l # Len(channel) + 1
    <3>1. l \in 1..Len(channel)
      BY <1>1, <2>2
    <3>2. \A j \in 1..l - 1 : channel'[j] = channel[j]
      BY <1>1, <1>2, <3>1
    <3>3. Concerns(i, l)
      BY <1>2, <1>4, <3>1, <3>2 DEF Concerns
    <3> QED
      BY <1>2, <3>1, <3>3
  <2> QED
    BY <2>1, <2>2
<1> QED
  BY <1>4

\* A step that takes a command, which is the handshake i if i is given the session.
LEMMA Taking ==
  ASSUME TypeOK, NEW i \in steady, Supported(i),
         channel # <<>>, channel' = Tail(channel),
         session' = i => \/ session = i
                         \/ channel[1].kind = "handshake" /\ channel[1].ask = i,
         Expected(i)' = Expected(i), asked' = asked, front' = front, report' = report
  PROVE  Supported(i)'
<1> USE DEF Supported
<1>1. Len(channel) \in Nat \ {0} /\ Len(channel') = Len(channel) - 1
  BY DEF TypeOK
<1>2. \A l \in 1..Len(channel') : channel'[l] = channel[l + 1]
  BY DEF TypeOK
<1>3. ASSUME NEW l \in 1..Len(channel'), Concerns(i, l)'
      PROVE  channel'[l].pid \in Expected(i)
  <2>1. l + 1 \in 1..Len(channel) /\ channel'[l] = channel[l + 1]
    BY <1>1, <1>2
  <2>2. Concerns(i, l + 1)
    <3>1. CASE session' = i
      BY <1>1, <1>3, <2>1, <3>1 DEF Concerns
    <3>2. CASE session' # i
      <4>1. PICK j \in 1..l - 1 : channel'[j].kind = "handshake" /\ channel'[j].ask = i
        BY <1>3, <3>2 DEF Concerns
      <4>2. j + 1 \in 1..(l + 1) - 1 /\ channel'[j] = channel[j + 1]
        BY <1>1, <1>2
      <4> QED
        BY <1>3, <2>1, <4>1, <4>2 DEF Concerns
    <3> QED
      BY <3>1, <3>2
  <2> QED
    BY <2>1, <2>2
<1> QED
  BY <1>3

LEMMA SteadyInit ==
  ASSUME Init
  PROVE  SteadyInv
BY DEF Init, SteadyInv

LEMMA SteadyStep ==
  ASSUME TypeOK, SteadyInv, [Next]_vars
  PROVE  SteadyInv'
<1>1. ASSUME NEW p \in App, Switch(p)
      PROVE  SteadyInv'
  <2>1. \A i \in steady' : i \in steady /\ asked[i] \in {NoPid, p}
    BY <1>1 DEF Switch
  <2>2. \A i \in steady' : asked[i] = NoPid
    BY <1>1, <2>1 DEF Switch, SteadyInv, Supported
  <2> QED
    BY <1>1, <2>2 DEF Switch, SteadyInv, askVars
<1>2. ASSUME NEW p \in App, SendAsk(p)
      PROVE  SteadyInv'
  <2>0. PICK n \in Nat : n = Len(asked)
    BY DEF TypeOK
  <2>1. n \in Nat /\ channel \in Seq(Commands(n))
    BY <2>0 DEF TypeOK, Commands
  <2>2. /\ asked'[n + 1] = p /\ \A i \in 1..n : asked'[i] = asked[i]
        /\ overtaken'[n + 1] = report /\ \A i \in 1..n : overtaken'[i] = overtaken[i]
    BY <1>2, <2>0 DEF SendAsk, TypeOK
  <2>3. ASSUME NEW i \in steady', i \in 1..n
        PROVE  asked'[i] = NoPid \/ Supported(i)'
    <3>1. i \in steady
      BY <1>2, <2>0, <2>1, <2>3 DEF SendAsk
    <3>2. asked[i] = NoPid \/ Supported(i)
      BY <3>1 DEF SteadyInv
    <3>3. /\ asked'[i] = asked[i] /\ overtaken'[i] = overtaken[i]
          /\ channel' = channel /\ front' = front /\ report' = report
          /\ session' = session
      BY <1>2, <2>2, <2>3 DEF SendAsk, watcherVars
    <3> QED
      BY <3>1, <3>2, <3>3, SameChannel DEF Supported
  <2>4. ASSUME n + 1 \in steady', p # NoPid
        PROVE  Supported(n + 1)'
    <3>1. front = p
      BY <1>2, <2>0, <2>1, <2>4 DEF SendAsk, TypeOK
    <3>2. session # n + 1
      BY <2>0, <2>1 DEF TypeOK
    <3>3. \A j \in 1..Len(channel) :
            ~(channel[j].kind = "handshake" /\ channel[j].ask = n + 1)
      <4> TAKE j \in 1..Len(channel)
      <4>1. channel[j] \in Commands(n)
        BY <2>1
      <4>2. channel[j].kind = "handshake" => channel[j].ask \in 1..n
        BY <2>1, <4>1, CommandKinds
      <4>3. n + 1 \notin 1..n
        BY <2>1
      <4> QED
        BY <4>2, <4>3
    <3>4. \A l \in 1..Len(channel) : ~Concerns(n + 1, l)
      BY <2>1, <3>2, <3>3 DEF Concerns
    <3> QED
      BY <1>2, <2>2, <3>1, <3>4 DEF SendAsk, Supported, Expected, Concerns, watcherVars
  <2>5. \A i \in steady' : i \in 1..n \/ i = n + 1
    <3>1. steady \subseteq 1..n
      BY <2>0 DEF TypeOK
    <3>2. steady' \subseteq steady \cup {n + 1}
      BY <1>2, <2>0 DEF SendAsk
    <3> QED
      BY <3>1, <3>2
  <2>6. ASSUME NEW i \in steady'
        PROVE  asked'[i] = NoPid \/ Supported(i)'
    <3>1. CASE i \in 1..n
      BY <2>3, <3>1
    <3>2. CASE i = n + 1
      BY <2>2, <2>4, <2>6, <3>2
    <3> QED
      BY <2>5, <2>6, <3>1, <3>2
  <2> QED
    BY <2>6 DEF SteadyInv
<1>3. ASSUME NEW k \in Ask, Post(k)
      PROVE  SteadyInv'
  <2>1. /\ steady' = steady /\ asked' = asked /\ front' = front /\ report' = report
        /\ session' = session /\ channel' = Append(channel, Shake(k))
        /\ Shake(k).kind # "focus" /\ \A i : Expected(i)' = Expected(i)
    BY <1>3 DEF Post, Queued, Shake, Expected, watcherVars
  <2> QED
    BY <2>1, Sending DEF SteadyInv
<1>4. CASE Poll
  <2>1. /\ steady' = steady /\ asked' = asked /\ front' = front /\ report' = {front}
        /\ session' = session /\ channel' = channel /\ overtaken' = overtaken
    BY <1>4 DEF Poll, askVars
  <2> QED
    BY <2>1, SameChannel DEF SteadyInv, Supported, Expected
<1>5. CASE SendReport
  <2>1. PICK p \in report : Sent(p)
    BY <1>5 DEF SendReport
  <2>2. /\ steady' = steady /\ asked' = asked /\ front' = front /\ report' \subseteq report
        /\ session' = session /\ channel' = Append(channel, Focus(p))
        /\ Focus(p).pid = p /\ \A i : Expected(i)' = Expected(i)
    BY <1>5, <2>1 DEF SendReport, Sent, Focus, Expected, askVars
  <2>3. \A i \in steady : Supported(i) => p \in Expected(i)
    BY <2>1 DEF Supported
  <2> QED
    BY <2>2, <2>3, Sending DEF SteadyInv
<1>6. CASE Take
  <2>1. /\ steady' = steady /\ asked' = asked /\ front' = front /\ report' = report
        /\ channel # <<>> /\ channel' = Tail(channel)
        /\ Head(channel) = channel[1] /\ \A i : Expected(i)' = Expected(i)
    BY <1>6 DEF Take, TakeHandshake, TakeFocus, Expected, watcherVars, askVars, TypeOK
  <2>2. \A i \in steady : i # 0
    BY DEF TypeOK
  <2>3. \A i \in steady : session' = i =>
          (session = i \/ (channel[1].kind = "handshake" /\ channel[1].ask = i))
    BY <1>6, <2>1, <2>2 DEF Take, TakeHandshake, TakeFocus
  <2> QED
    BY <2>1, <2>3, Taking DEF SteadyInv
<1>7. CASE EndSession
  <2>1. /\ steady' = steady /\ asked' = asked /\ front' = front /\ report' = report
        /\ session' = 0 /\ channel' = channel /\ overtaken' = overtaken
    BY <1>7 DEF EndSession, watcherVars, askVars
  <2>2. \A i \in steady : i # 0
    BY DEF TypeOK
  <2> QED
    BY <2>1, <2>2, SameChannel DEF SteadyInv, Supported
<1>8. CASE UNCHANGED vars
  BY <1>8, SameChannel
  DEF vars, SteadyInv, Supported, Expected, Concerns, watcherVars, askVars
<1> QED
  BY <1>1, <1>2, <1>3, <1>4, <1>5, <1>6, <1>7, <1>8 DEF Next

LEMMA FocusKept ==
  ASSUME TypeOK, SteadyInv, TakeFocus, session \in steady, session' # session
  PROVE  asked[session] # NoPid /\ Head(channel).pid \in overtaken[session]
<1>1. channel # <<>> /\ Head(channel) = channel[1] /\ 1 \in 1..Len(channel)
  BY DEF TakeFocus, TypeOK
<1>2. CASE asked[session] = NoPid
  BY <1>2 DEF TakeFocus, Loses
<1>3. CASE Supported(session)
  BY <1>1, <1>3 DEF TakeFocus, Loses, Supported, Expected, Concerns
<1> QED
  BY <1>2, <1>3 DEF SteadyInv

\* No report ends the session of an application that has been frontmost since it asked,
\* but the one the watcher was already about to send then; and none ends a session that
\* stated no process id.
THEOREM SteadySessionsKept == Spec => KeepsSteadySession
<1>1. TypeOK /\ SteadyInv /\ [Next]_vars
        => (TakeFocus /\ session \in steady /\ session' # session =>
              asked[session] # NoPid /\ Head(channel).pid \in overtaken[session])
  BY FocusKept
<1> QED
  BY <1>1, TypeInit, TypeStep, SteadyInit, SteadyStep, PTL DEF Spec, KeepsSteadySession
=============================================================================
