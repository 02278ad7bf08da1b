-------------------------------- MODULE Focus --------------------------------
(***************************************************************************)
(* The focus watcher of macOS (crates/usahp-daemon/src/focus_watcher.rs)   *)
(* and the sessions it ends: a handshake may state a process id, and the   *)
(* broker revokes the session when another application is reported to be   *)
(* the frontmost one.                                                      *)
(*                                                                         *)
(* The watcher is a thread that polls.  It reports changes only, the       *)
(* reports and the handshakes share the broker's channel, and the broker   *)
(* never asks which application is frontmost.  So a report may be late,    *)
(* and a session may start after the report that would have ended it.      *)
(***************************************************************************)
EXTENDS Integers, Sequences

CONSTANTS
  Pid, NoPid,       \* process ids, and None
  ChannelCapacity,  \* capacity of the broker's command channel (1024)
  MaxSwitches,      \* bound: changes of the frontmost application
  MaxAsks           \* bound: handshakes

ASSUME FocusAssumption ==
  /\ NoPid \notin Pid
  /\ ChannelCapacity \in Nat \ {0}
  /\ MaxSwitches \in Nat
  /\ MaxAsks \in Nat

VARIABLES
  front,      \* the frontmost application, or NoPid when that is unknown
  switches,   \* how often it changed
  last,       \* last_pid of the watcher
  report,     \* what it is about to send: nothing or one process id
  channel,    \* the commands the broker has yet to handle
  asked,      \* the process id stated by each handshake, in the order of asking
  waiting,    \* the handshakes on their way to the channel
  session,    \* the handshake the session comes from, or 0
  focused,    \* the handshakes whose application was frontmost when it asked
  overtaken,  \* what the watcher was about to send when each of them asked
  steady      \* those whose application has kept the focus since, or who named none

watcherVars == <<last, report>>
askVars == <<asked, waiting, focused, overtaken>>
vars == <<front, switches, watcherVars, channel, askVars, session, steady>>

App == Pid \cup {NoPid}
Ask == 1..MaxAsks

Focus(p) == [kind |-> "focus", pid |-> p]
Shake(i) == [kind |-> "handshake", ask |-> i]

\* Faulty variant: off by one.
HasRoomForLast == Len(channel) <= ChannelCapacity

HasRoom == Len(channel) < ChannelCapacity

-----------------------------------------------------------------------------
(* Applications and their clients *)

\* The user brings another application to the front.
Switch(p) ==
  /\ switches < MaxSwitches
  /\ p # front
  /\ front' = p
  /\ switches' = switches + 1
  /\ steady' = {i \in steady : asked[i] \in {NoPid, p}}
  /\ UNCHANGED <<watcherVars, channel, askVars, session>>

\* A client sends a handshake that states p.  A report the watcher is about to send,
\* perhaps waiting for room, may get into the channel ahead of it or behind it.
SendAsk(p) ==
  LET i == Len(asked) + 1
  IN  /\ i \in Ask
      /\ asked' = Append(asked, p)
      /\ waiting' = waiting \cup {i}
      /\ focused' = IF p = front THEN focused \cup {i} ELSE focused
      /\ overtaken' = Append(overtaken, report)
      /\ steady' = IF p \in {NoPid, front} THEN steady \cup {i} ELSE steady
      /\ UNCHANGED <<front, switches, watcherVars, channel, session>>

\* Faulty variant: handshakes have a channel of their own, which goes first.
HandledFirst(i) == channel' = <<Shake(i)>> \o channel

Queued(i) == channel' = Append(channel, Shake(i))

\* The client's connection reads it and puts it in the channel.
Post(i) ==
  /\ i \in waiting
  /\ HasRoom
  /\ waiting' = waiting \ {i}
  /\ Queued(i)
  /\ UNCHANGED <<front, switches, watcherVars, asked, focused, overtaken, session,
                 steady>>

-----------------------------------------------------------------------------
(* The watcher *)

\* Every 500 ms: a change since the last poll is to be reported.
Poll ==
  /\ report = {}
  /\ front # last
  /\ last' = front
  /\ report' = {front}
  /\ UNCHANGED <<front, switches, channel, askVars, session, steady>>

\* Faulty variant: try_send, and what does not fit is lost.
SentOrLost(p) ==
  channel' = IF HasRoom THEN Append(channel, Focus(p)) ELSE channel

\* blocking_send
Sent(p) == HasRoom /\ channel' = Append(channel, Focus(p))

SendReport ==
  /\ \E p \in report : Sent(p)
  /\ report' = {}
  /\ UNCHANGED <<front, switches, last, askVars, session, steady>>

-----------------------------------------------------------------------------
(* The broker *)

\* Another handshake is refused while there is a session; and any may be, when its
\* client has gone or capture cannot be resumed.
TakeHandshake ==
  /\ channel # <<>>
  /\ Head(channel).kind = "handshake"
  /\ channel' = Tail(channel)
  /\ \/ session = 0 /\ session' = Head(channel).ask
     \/ UNCHANGED session
  /\ UNCHANGED <<front, switches, watcherVars, askVars, steady>>

\* needs_revoke
Loses(p) == session # 0 /\ asked[session] # NoPid /\ asked[session] # p

TakeFocus ==
  /\ channel # <<>>
  /\ Head(channel).kind = "focus"
  /\ channel' = Tail(channel)
  /\ session' = IF Loses(Head(channel).pid) THEN 0 ELSE session
  /\ UNCHANGED <<front, switches, watcherVars, askVars, steady>>

\* The session ends for another reason.
EndSession ==
  /\ session # 0
  /\ session' = 0
  /\ UNCHANGED <<front, switches, watcherVars, channel, askVars, steady>>

-----------------------------------------------------------------------------
Init ==
  /\ front \in App
  /\ switches = 0
  /\ last = front
  /\ report = {}
  /\ channel = <<>>
  /\ asked = <<>>
  /\ waiting = {}
  /\ session = 0
  /\ focused = {}
  /\ overtaken = <<>>
  /\ steady = {}

Take == TakeHandshake \/ TakeFocus

Next ==
  \/ \E p \in App : Switch(p) \/ SendAsk(p)
  \/ \E i \in Ask : Post(i)
  \/ Poll
  \/ SendReport
  \/ Take
  \/ EndSession

Spec == Init /\ [][Next]_vars

\* The watcher's thread and the broker's task go on when they can.
FairSpec == Spec /\ WF_vars(Poll) /\ WF_vars(SendReport) /\ WF_vars(Take)

-----------------------------------------------------------------------------
(* Properties *)

\* The types, the capacity of the channel, and that the session is one asked for.
TypeOK ==
  /\ front \in App
  /\ switches \in 0..MaxSwitches
  /\ last \in App
  /\ report \subseteq App
  /\ channel \in Seq({Focus(p) : p \in App} \cup {Shake(i) : i \in 1..Len(asked)})
  /\ Len(channel) <= ChannelCapacity
  /\ asked \in Seq(App)
  /\ Len(asked) <= MaxAsks
  /\ waiting \subseteq 1..Len(asked)
  /\ session \in 0..Len(asked)
  /\ focused \subseteq 1..Len(asked)
  /\ overtaken \in Seq(SUBSET App)
  /\ Len(overtaken) = Len(asked)
  /\ steady \subseteq 1..Len(asked)

\* A report ends the session of an application that has been frontmost since it asked
\* in one case only: it is the one that the watcher had already polled when that
\* application asked, and that went into the channel behind the handshake.  What was
\* queued ahead of the handshake does not count, nor does anything polled later; and no
\* report ends a session that stated no process id.
KeepsSteadySession ==
  [][TakeFocus /\ session \in steady /\ session' # session =>
       asked[session] # NoPid /\ Head(channel).pid \in overtaken[session]]_vars

\* A session whose application the watcher takes for the frontmost one ends when
\* that is over, unless the application comes back.
LossEnds ==
  \A i \in Ask, p \in Pid :
    (session = i /\ asked[i] = p /\ last = p /\ front # p) ~> (session # i \/ front = p)

\* focus_watcher.rs:4: "when the session's app loses focus, the broker revokes the
\* session".  Not so when the loss is reported before the handshake is handled, nor
\* when the application came and went between two polls.
LossRevokes ==
  \A i \in Ask, p \in Pid :
    (session = i /\ asked[i] = p /\ i \in focused /\ front # p)
      ~> (session # i \/ front = p)
=============================================================================
