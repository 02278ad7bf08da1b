# USAHP core: specifications, model checking and proofs

TLA+ models of the USAHP daemon (`crates/usahp-daemon`) and of the part of
`crates/usahp-core` it is built on, checked with TLC, and for the broker, the
capture devices, the keyboard hook, the focus watcher and start-up proved with
TLAPS. Source paths below are relative to `src/`, line numbers refer to the
same commit. The code implements protocol version 0.3.0 (escape hatch,
focus-driven revocation); several documents still describe 0.2 and call both
future work (`docs/plain-english.md:33`, `docs/protocol-v0.md:102`). The models
follow the code.

## The system

| Component | Source | State | Operations |
|---|---|---|---|
| Switch state machine | `usahp-core/src/state.rs` | pressed mappings by switch | `apply`, `snapshots`, `release_all` |
| Broker | `usahp-daemon/src/broker.rs` | switches, escape clocks, sequence, client map, session, `paused` | `Register`, `Unregister`, `Input`, `Handshake`, `Heartbeat`, `RevokeSession`, `FocusChanged`, the 100 ms ticker |
| Connection task, one per client | `usahp-daemon/src/server.rs` | bounded queue to the client, where its loop is | forward a message, read a handshake or heartbeat, leave, unregister |
| Capture control, evdev threads | `usahp-daemon/src/input.rs` | `enabled` flag; per thread the device, `grabbed`, the batch in hand | pause, resume, roll back; open, grab, obey an order, drain, read, send |
| Keyboard hook | `input.rs`, `macos_keyboard.rs` | the callback in progress | look at the flag, pass through or send |
| Focus watcher (macOS) | `focus_watcher.rs` | last process id | poll, send `FocusChanged` |
| Simulator | `simulator.rs` | table of the switches it offers | a line becomes an `Input` |
| Configuration, start-up | `config.rs`, `main.rs`, tables of `input.rs`, `macos_keyboard.rs`, `simulator.rs` | how far `main` is, the tables | load, validate, start everything in order |
| Protocol types | `usahp-core/src/protocol.rs` | none | JSON, validation |
| Reference listener | `usahp-listen` | none | print |

Interaction: connections, device threads, hook, watcher and simulator put
commands in one bounded channel (1024) that the broker task empties. The broker
answers by `try_send` into the clients' queues and never waits for a client. It
does wait for the evdev threads, in `pause` and `resume`, through a second set
of channels. The `enabled` flag is shared memory, written by the broker and read
by device threads and hook.

What is hard: a client is removed from the map in one step and loses its session
in another; queues fill in the middle of a handler; a client's belief depends on
which messages reached it; the hello is a snapshot taken in whatever mode the
broker is; heartbeats, timeouts, disconnects and the escape hatch all end one
session; sockets may block for ever; pause and resume are conversations with
threads that may be busy, gone or refused by the kernel, one by one; edges are
under way (in the kernel, in a batch, in a callback, in the channel) while the
routing they belong to ends. `PROJECT.json` lists each hazard at its line.

What makes each part correct:

- *state machine*: one logical press for the first physical one, one release for
  the last, whatever the order (`HolderTracksState`, `EscapeArmed` rest on it);
- *broker*: at most one owner and the clients' beliefs agree with it; no client
  goes on with a gap; capture, flag and session agree; every way for a client to
  fail ends its session; the escape hatch watches what is held;
- *connection*: a session cannot outlive the task that would unregister it;
- *capture*: paused means given back, resumed means held, partial failure is
  rolled back, the broker gets its answers;
- *hook and simulator*: what the OS and the broker take a key for is right, for
  everything pressed since the routing last changed, and what an older press left
  behind does not stay;
- *focus*: a session whose application kept the focus is ended by no report, but
  for the one the watcher had in hand when the application asked; a loss that the
  watcher can see ends the right session;
- *configuration*: bad files are refused, and the tables that come out of a good
  one agree with each other: each input drives its switch, each simulator command
  too, and nothing configured is silently dead.

## The modules

| Module | What it is |
|---|---|
| `SwitchStateMachine` | the pure operators of `state.rs` on the set of pressed mappings |
| `Broker` | `broker.rs` and the connection tasks of `server.rs`, handlers atomic |
| `Routing` | abstract specification: who gets the events |
| `Custody` | abstract specification: who has the devices |
| `Capture` | `input.rs`, the command channel, and the broker while it waits for devices |
| `Keyboard` | the hook of `input.rs` and `macos_keyboard.rs`, the simulator's edges, the OS's idea of a key |
| `Focus` | `focus_watcher.rs`, and the handshakes it shares the channel with |
| `Startup` | `config.rs`, `main.rs`, and the tables every other part goes by |
| `SwitchProofs` | the facts about the operators of `state.rs`, and that one set is as good as its table of sets |
| `BrokerProofs`, `CaptureProofs`, `KeyboardProofs`, `FocusProofs`, `StartupProofs` | the theorems about these |
| `MCBroker`, `MCCapture`, `MCKeyboard`, `MCFocus`, `MCStartup` | instances for TLC |

`SwitchStateMachine` is extended by `Broker` and `Keyboard`. `Broker` is the whole
broker with its clients and takes capture for one flag; `Capture`, `Keyboard` and
`Focus` each look at one source of commands in detail, with the real FIFO channel,
and keep of the broker what that source can tell apart. `Startup` ends where they
begin: it establishes what `MappingAssumption` and `KeyAssumption` ask of the
tables.

A definition whose comment starts with *Faulty variant* is not part of a model:
it is a plausible mistake in the definition below it, used to see that the
properties notice.

### Broker

One action for each outcome of each handler. The session, the client map,
`paused`, `sequence`, `nextClient` are the fields of `Runtime`; `active` is
`state`; `tracker` holds the age of each press instead of its time; `enabled` is
the flag of `CaptureControl`. `conn` says where a connection task is, including
the window in which the task has left its loop and `Unregister` is still on its
way, and the state in which it is stuck in a write.

Messages are not kept. `pending[c]` counts the messages in a queue, which
decides every `try_send`; `told[c]` is what the messages sent to `c` add up to:
the switches it believes held, the events it has counted (starting from the
broker's number at its hello) and the session it believes it has. This is what
the client knows once it has read its queue, and queues are FIFO, so nothing is
lost by folding early. When the broker drops a client its view is forgotten.

Decisions a reader should know:

- *Atomic handlers.* The broker owns its state. Inside a handler it awaits only
  capture backends; meanwhile a connection task may take messages out of its
  queue, which only makes room. `QueueAssumption` (a queue holds a release for
  each switch and one more message) makes "drained during the handler" the same
  as "drained before it". The default capacity is 256; `config.rs:95` asks only
  for one, so the assumption is stronger than the code's check.
- *Order of commands.* Any command may come at any time from a connection whose
  `Unregister` has not been handled. The real channel is FIFO, so this is a
  superset; the stale-edge question, where order matters, is in `Capture`.
- *Heartbeats* are handled only while the task is in its loop. One that is still
  queued when the task leaves could as well have been handled before.
- *Revocation.* `RevokeSession` is part of the library's interface and has no
  sender in the daemon; it is enabled whenever there is a session.
- *Time.* `Advance` ages the session and the clocks by a unit; ages stop at the
  limit they are compared with, since only the comparison is used.
- *Capture* can fail to resume at any handshake (`HandshakeUnavailable`).

### Routing

Three modes: legacy, managed, paused. `Broker` implements it with
`Mode`, `session.client` and `Held(active)`: legacy never comes back, there is
no hand-over without a pause, a session starts with every switch released, and
nothing is held while paused. `Keyboard` implements it too, with a single client:
there an edge has waited in a callback and in the channel, perhaps since before
the routing last changed.

### Custody

What capture promises of the devices, whatever goes on inside: with capture on, the
daemon has every device that it can have and keeps it; with capture off it has
none; devices change hands one by one in between, and a device refused means that
all are let go again. A device may be lost at any time and does not come back; one
is opened, and held from then on, before the first pause is through. `Capture`
implements it: `there` are the devices whose threads run and which have not
vanished, `mode` is what the broker waits for, or else `enabled`.

### Capture

Here a pause is not atomic. `Command` gives an order to each thread, `stage`
says what the broker waits for, and `Paused`, `Resumed`, `ResumeFailed`,
`Undone` are the returns of `pause`, `resume` and its rollback. A thread goes
through `opening`, `opened`, `orders`, `reading`, `batch`, `sending`, with
`resuming` between the two halves of a resume (drain, grab). A device may be
missing at start, refuse to be opened or grabbed, refuse a later grab, or
vanish. The hook's callback looks at the flag in one step and sends in another.

An edge carries the epoch it was made in and whether other programs got it as
well (`shared`). The broker's switches, clients and queues are left out: an edge
that is taken is either dropped or applied. An edge stands for one command; a
code or key that drives several mappings sends several, each with the same wait.

### Keyboard

The callback looks at the flag once for each edge. Released, the edge goes to the
OS; captured, it is suppressed and sent with a blocking send for every mapping of
the key, one after the other (`SendNext`, in the unknown order of the table). The
routing may change between any two of these steps, and before the commands are
taken. `era` counts the changes of the flag and the start of the first session,
`since` remembers in which era a key went down, `down` is the keyboard and `os`
what the OS believes.

A handshake in a paused broker is two steps, `Resume` and then `Accept` or `Gone`:
the flag is set before the broker knows whether it gets a session
(`broker.rs:268-298`), and the hook captures in between. The simulator sends at any
time, whatever the flag says. Other commands of the channel are handled between
two `Input`s, at any time, which covers every place they can have in the queue.

An edge that crosses a change of routing may leave the OS or the broker with a
wrong idea of that key: pressed while captured and released while not, the OS gets
a release without a press, and the reverse. The properties say that this is the
only way to be wrong, and that the broker's share of it ends by itself
(`StuckEnds`): the stuck switch has a clock, and the escape hatch ends the session.

### Focus

The watcher compares the frontmost process id with the last one it saw, every
500 ms, and reports a change with a blocking send. The thread may be between its
poll and its send for any time. `front` is the truth, `last` and `report` the
watcher's, `channel` holds reports and handshakes in their order. Three history
variables: `focused` are the handshakes whose application was frontmost when it
asked, `steady` those whose application has kept the focus since or that stated
none, and `overtaken` is what the watcher had in hand when each of them asked.

What was in the channel before a handshake may speak against it and must not
count, because it is handled first. What the watcher has polled and not yet sent
(`focus_watcher.rs:64-69`, a blocking send) may get in behind the handshake, and
then it does count: the session of an application that has the focus ends by a
report from before it asked. `KeepsSteadySession` says that this is the only way,
and that a session without a process id is never ended by a report.

### Startup

`main` in its order, each step with its way to fail, up to serving and stopping;
`Config::validate` with its checks in their order, `input::validate` with its
differences between platforms, and the tables: `mapping_to_switch` of the broker
(later entries win), the table of each backend, and what each line typed to the
simulator stands for. A file is any sequence of candidate mappings. Words are kept
apart because the simulator splits a line at white space and ids of switches may
contain it: such a switch has a mapping that no command can name, and
`CommandDrivesItsSwitch` says that the command goes to the switch that it does
name. An id that is configured to read like one of the simulator's
(`sim:<switch>`) is the one case in which an input may drive another switch than
its mapping says, and `InputDrivesItsSwitch` says that it is the only one.

`ParsedKey` and `KeyCode` are the tables of `parse_key` (`input.rs:235-274`) and
of macOS (`macos_keyboard.rs:30-75`), row by row: all forty names, of which some
mean one key. The second is written by hand to mirror the first. A name that it
lacks would be accepted and never heard (`EveryMappingHeard`); a keycode there
twice, or a different one for the second name of a key, would join or part
mappings (`HeardByKey`). That a keycode is the one of the key it stands for is
Apple's to say, and a wrong one that no other name has is not noticed.

A file whose loading fails to read or parse, the command line and TOML are left
out; a mapping of a gamepad is known by its device and code, and what a number of
a code means is the kernel's. Checks that run in an order are ordered `IF`s: a
`CASE` with arms that overlap would leave the choice open, whatever TLC takes.

## Runs

| Run | Expect | Instance | Question |
|---|---|---|---|
| `broker_safety` | pass | 2 clients, one of which may state a process id, 3 mappings on 2 switches, 2 sessions, 4 events, queue of 3, symmetry in the mappings of one switch | state and beliefs stay consistent, and the broker implements `Routing` |
| `broker_liveness` | pass | 2 clients (one never sends heartbeats), 2 mappings on 1 switch, queue of 2 | sessions of the silent, the stuck and the removed end |
| `broker_legacy`, `broker_hello` | violation | as above | two statements of the documents |
| `capture_safety` | pass | 2 devices and the hook, channel of 2, 4 epochs, symmetry | devices are as the broker believes, what is in hand after a resume is from the last pause at the earliest, and `Custody` is implemented |
| `capture_liveness` | pass | 1 device and the hook, channel with room for everything | every order is answered |
| `capture_trapped`, `capture_shared` | violation | 1 device | two statements of comments and documents |
| `keyboard` | pass | 1 key on 2 switches, the simulator on one of them, channel of 2, 6 edges, 2 handshakes | OS and broker are right about a key, or get right, and `Routing` is implemented |
| `focus` | pass | 2 applications, 3 changes of focus, 2 handshakes, channel of 2 | which reports end which sessions |
| `focus_lost` | violation | 2 applications, 2 changes of focus, 1 handshake | a statement of a comment |
| `startup` | pass | files of up to 3 of 11 mappings, files of any 2 of the 40 names of keys and an unknown one, 3 platforms, with and without simulator, 5 lines | good files start, bad ones do not, tables agree, those of key names as well |

Why the bounds are enough: two clients are an owner and another, and the second
client comes before, during and after the first one's session; three
mappings give a shared switch and a separate one; queues are at their smallest
(`QueueAssumption`), so every send can fail; two sessions give a stale
heartbeat, a legacy and a paused start; `MaxSequence` leaves room for the
releases of what is held, so that it never blocks a revocation. In `Capture` two
devices are one that obeys and one that does not, four epochs are two pauses
with a resume between, and a channel of two is full as soon as one source is
ahead of the broker. In `Keyboard` a key with two mappings is the case in which
one edge is several commands, and a channel of two is full after them; two
handshakes give a session from legacy routing and one from a pause, or a
pause without a session and a session; six edges are a press and a release in each
of three eras. In `Focus` three changes of focus are a visit to an application and
one more, two handshakes are an old session and a new one, and a channel of two
holds a report in front of a handshake. The mappings of `startup` are good ones,
equal ids next to each other and apart, two names of a key, ids like the
simulator's, a switch of two words, and one mistake of each kind; three are enough
for a mistake after another and for an id that comes back after a different one.
Whether the tables of names agree is a matter of two names at most, and the files of
two names have every pair of them.

Deadlock checking is off in `Capture`'s runs (with every thread ended and nobody
posting there is nothing to do; that the *broker* does not stop is
`BrokerReturns`), in those of `Keyboard` and `Focus` (with the bounded users done
and the channel empty the daemon waits for the next input), and in `startup` (the
process has ended). The broker's runs check deadlock.

### Fairness

*Broker.* Time passes; the ticker is polled (tokio's `select!` picks a ready
branch at random, and the ticker is ready every 100 ms); a connection task that
has a message takes it, though the write may then block for ever (`Unstall` is
not fair); a task whose sender was dropped leaves, sends `Unregister`, and the
broker handles it. No heartbeat, handshake, edge, or hang-up has to come. The
parameter `Frozen` is the set of clients that never send a valid heartbeat;
without it a client may heartbeat for ever.

*Capture.* The broker's task, each device thread and the callback go on when
they can. Users, connections and clocks may do nothing.

*Keyboard.* The callback sends when there is room, the broker takes commands and
concludes a handshake, and the ticker's escape check comes when a switch stays
held (for each switch, since clocks are not counted here: `tracker` is the set of
running ones). Users and clients may do nothing.

*Focus.* The watcher polls (a thread that sleeps 500 ms between polls) and sends
when there is room, and the broker takes commands. A focus that leaves and comes
back between two polls need not be seen, which is why `LossEnds` allows for it.
Users, clients and connections may do nothing.

## What the violations show

1. `broker_legacy`: a handshake of a client that has no entry in the map any
   more makes the broker pause (`broker.rs:290`), with no session accepted;
   passive clients lose the legacy broadcasts `docs/protocol-v0.md:9` promises.
2. `broker_hello`: a client that connects during another's session can start its
   own with a switch that it believes held; the release went to the former
   holder only (`docs/clients.md:3`).
3. `capture_trapped`: with the command channel full, a thread inside its batch
   and the broker inside `pause` wait for each other (`broker.rs:19-21`).
4. `capture_shared`: an edge between drain and grab is both the OS's and the
   next session's (`docs/protocol-v0.md:98`).
5. `focus_lost`: a session outlives its application's focus when the loss was
   reported before the handshake was handled, or fell between two polls
   (`focus_watcher.rs:4-6`).

Seen while modelling, without a run of its own:

- A response that does not fit removes the session's client without ending the
  session (`broker.rs:395`; `docs/protocol-v0.md:87` says overflow ends it). The
  heartbeat timeout does: `OrphanedSessionEnds`.
- A report that the watcher holds while a client asks may end its session although
  its application has had the focus all the time (`focus_watcher.rs:64-69`,
  `broker.rs:122`): the handshake gets into the channel first. `broker.rs` has no
  way to tell such a report from a new one. `KeepsSteadySession` names this exception.
- Draining a device on resume does not drain the channel or the callback
  (`docs/platforms.md:36`): an edge of an earlier session may be applied in a
  later one. `Keyboard`'s properties say how far this goes.
- A device that cannot be grabbed at start is only logged (`input.rs:345`), so
  that legacy routing and a first session go on while other programs have it
  alone. Its thread has ended, so every resume after that is refused.
- The OS keeps a wrong idea of a key whose edges crossed a change of routing
  until the key is moved again; nothing in the daemon repairs that.

`docs/clients.md:25` says that a passive listener receives broadcasts while no
managed session is active. `Routing` states what the code does, and
`docs/architecture.md:44` agrees: after the first session there is no legacy
routing, and nobody gets anything until the next one.

The liveness run `capture_liveness` is the other side of 3: the channel has room
for every command of the instance, and then pause and resume always return.

## Proofs

Six modules prove, for every value of the constants that satisfies the
assumptions in `SwitchStateMachine`, `Broker`, `Capture`, `Keyboard`, `Focus` and
`Startup`:

| Theorem | Says |
|---|---|
| *`SwitchProofs`* | |
| `TransitionsExact` | a valid edge emits if and only if its switch, and no other, changes |
| `TableExact`, `TableReports` | the set of pressed mappings says what `active_by_switch` says |
| *`BrokerProofs`* | |
| `TypeCorrect` | `Spec => []TypeOK` |
| `CaptureAlwaysFollows` | `Spec => []CaptureFollowsRouting` |
| `EscapeAlwaysArmed` | `Spec => []EscapeArmed` |
| `SessionAlwaysConnected` | `Spec => []SessionHasConnection` |
| `NeverSplitBrain` | `Spec => []NoSplitBrain` |
| `LegacyAlwaysInSync` | `Spec => []LegacyInSync` |
| `HolderAlwaysTold` | `Spec => HolderTracksState` |
| `RoutingAlwaysExclusive` | `Spec => ExclusiveRouting` |
| `HeldClocksAlwaysRun` | `Spec => HeldClocksRun` |
| `BrokerImplementsRouting` | `Spec => R!Spec` |
| *`CaptureProofs`* | |
| `TypeCorrect` | `Spec => []TypeOK` |
| `PausedAlwaysReleased` | `Spec => []PausedIsReleased` |
| `PausedAlwaysQuiet` | `Spec => []PausedIsQuiet` |
| `SessionsAlwaysHaveDevices` | `Spec => []SessionHasDevices` |
| `OrdersAlwaysHeard` | `Spec => []EveryOrderIsHeard` |
| `NeverOldInHand` | `Spec => []NothingOldInHand` |
| `CaptureImplementsCustody` | `Spec => C!Spec` |
| *`KeyboardProofs`* | |
| `TypeCorrect` | `Spec => []TypeOK` |
| `OsAlwaysAgrees` | `Spec => []OsAgrees` |
| `BrokerAlwaysAgrees` | `Spec => []BrokerAgrees` |
| `KeyboardImplementsRouting` | `Spec => R!Spec` |
| *`FocusProofs`* | |
| `TypeCorrect` | `Spec => []TypeOK` |
| `SteadySessionsKept` | `Spec => KeepsSteadySession` |
| *`StartupProofs`* | |
| `FileErrorExact` | `ConfigError = "none" <=> WellFormed` |
| `LoadsWellFormedAlways` | `Spec => []LoadsWellFormed` |
| `EveryMappingHeardAlways` | `Spec => []EveryMappingHeard` |
| `InputDrivesItsSwitchAlways` | `Spec => []InputDrivesItsSwitch` |
| `CommandDrivesItsSwitchAlways` | `Spec => []CommandDrivesItsSwitch` |

*Switches.* `SwitchProofs` has the facts that the other proofs cite about edges
and what they change. It also settles a decision of the model: the code keeps a
set of pressed mappings for each switch, the model one set for all. `BySwitch`
splits it, and the theorems say that `apply`, `snapshots` and `release_all` on the
table find, leave and return what the operators say.

*Broker.* `Inv`, the conjunction of these invariants, is inductive;
most of them are not by themselves. `NoSplitBrain` needs `TypeOK` for the fact that ids of
sessions are at most `issued`, so that a new session cannot be mistaken for an
old one a client still remembers, and `SessionHasConnection`, so that a client that
has just registered does not hold the session it was told nothing of;
`SessionHasConnection` needs that clients are numbered below `nextClient`; the refinement needs `CaptureFollowsRouting` for
the mode to be well defined and the switches to be released at a grant.
`InvInit` proves `Inv` initially, `InvStep` has a step for each action that
rests on a lemma about the part of the handler it shares with others (ending a
session, broadcasting, rejecting), `Invariance` joins them, and `StepRefines`
maps each action to a step of `Routing` or a stutter.

`HolderTracksState` and `ExclusiveRouting` follow from `Inv` in both states (`StepTold`): a quiet
step changes neither the switches nor what a client was told (`QuietStep`), the
end of a session tells its holder everything or removes it (`EndSessionTold`),
and an edge is told to the holder alone (`InputTold`). `HeldClocksRun` is the part
of "the user is never trapped" that is a matter of safety: the liveness of the
escape hatch is checked on an instance, but that nothing sets its clocks back
holds for all.

*Capture.* The first invariants say nothing of the states in which the broker
waits. `Inv` adds what the broker knows of itself at each stage (`BrokerInv`),
what each thread can have been asked and where it then is (`OrderInv`), and that
the promises already hold of each thread that has answered (`DeviceInv`): a
pause is complete when the last answer makes them hold of all. A thread that has
not opened its device yet is why `OrderInv` says that the first pause waits for
it.

`NeverOldInHand` needs more, because while capture is off the buffer of a device
does hold old edges. `FreshInv` says that a thread which has drained its device in a
resume, or has answered it, holds nothing from before the pause, and keeps this
once capture is on. The refinement of `Custody` is one lemma for the steps of the
broker (`BrokerRefines`), one for those of a thread (`StepRefines`) and one for the
rest. Its hard step is the end of a resume: every answer was `ok`, so `DeviceInv`
puts every device that can be had in the daemon's hands.

*Keyboard.* `BrokerAgrees` speaks of an empty channel. `FreshKnown` says, for a
channel with anything in it, that the last command for a mapping is what its key
is, and if there is none, that the broker has it right (`Told`); `HookFresh`
says the same of the edge in hand, and `CaptureHeard` that commands of the
current era are not dropped. A command of an earlier era may be accepted or
refused, and either way the ones behind it set it right. The refinement of
`Routing` rests on a small invariant, `RoutingInv`: no switch is held while
routing is paused, and a handshake that resumes capture does so in a pause.
`EdgeMoves` shows that an accepted edge moves its own switch and no other, or
none when another mapping holds it.

*Focus.* `SteadyInv` says that every report which comes before the end of a steady
session, in the channel or in the watcher's hand, names its application or is what
the watcher had in hand when it asked (`Expected`): those behind its handshake in
the channel, or all of them once it is the session.

*Start-up.* Files are sequences of any length, so what the loop of
`Config::validate` finds is a matter of induction. The induction theorems of the
library cannot be instantiated by the provers, and the proof goes by the least
counterexample instead: the set of prefixes on which the loop is wrong has a
shortest one (`LeastMember`), and the loop was right on the one before. `Outcome`
is the closed form: the ids so far, and the error of the first mistake.
`OutcomeStep` shows that one more mapping changes it as the body of the loop does.
`GreatestMember` does the same for "the later entry wins" in the broker's table.
`FileErrorExact` is what follows for the whole file; `TableOfFile` and
`TableOfSimulator` say what the table has for an id of either kind. With these
`Inv` is short: how far `main` has come says what it has checked and built.
`TablesMirror` is the one fact the proof takes from the rows of the two tables, that
every name of `parse_key` has a keycode.

Only model-checked: liveness (`FrozenSessionEnds`, `HeldSwitchEndsSession`,
`OrphanedSessionEnds`, `BrokerReturns`, `StuckEnds`, `LossEnds`), which is out of
reach of the prover, as is `ENABLED`; and the violations, which are
counterexamples; and `HeardByKey`, which is about two tables without a parameter and
two names at a time, so that the run has every case of it. Every other safety
invariant and action property that a passing run checks is a theorem.

## Not modelled

JSON, TOML and the command line; the WebSocket handshake and the accept loop;
confidence values and time stamps, which nothing depends on; which handshakes
are invalid (any may be); the reference listener, which keeps no state; shutdown
(the process just ends, and the kernel drops what it held); queues shorter than
the messages of one handler, which `config.rs:95` allows and `QueueAssumption`
excludes: there a revocation cannot be announced as one, and whether it gets
through depends on how fast the connection task is inside the handler. What the
models assume of the libraries: bounded FIFO channels, `try_send` that fails when
full or closed, a hook whose callback runs once at a time, and an exclusive grab
that the kernel drops with the descriptor.

## Plan

1. *(done)* `SwitchStateMachine`, `Broker`, `Routing`; runs; `BrokerProofs` with
   the invariants, the action properties and the refinement.
2. *(done)* `Capture`, its runs, and `CaptureProofs`.
3. *(done)* `Focus`, its runs, and `FocusProofs`.
4. *(done)* `Startup` and `StartupProofs`.
5. *(done)* `Keyboard` and `KeyboardProofs`, with the refinement of `Routing`.
6. *(done)* `Custody`, and that `Capture` implements it.
7. *(open)* `Daemon`: `Broker`'s handlers behind the FIFO channel, with
   connections that block on it, to see which of `Broker`'s interleavings the order
   excludes. `Capture`, `Keyboard` and `Focus` have the channel for their part.
