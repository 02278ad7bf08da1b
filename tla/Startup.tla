------------------------------- MODULE Startup -------------------------------
(***************************************************************************)
(* From a configuration file to a daemon that serves: usahp-core config.rs *)
(* and, in usahp-daemon, main.rs, input.rs (validate, spawn and the tables *)
(* of the backends), macos_keyboard.rs (its tables) and simulator.rs.      *)
(* What comes out are the tables all the rest goes by: which mapping an    *)
(* input stands for, which switch a mapping drives, and which mapping a    *)
(* simulator command stands for.                                           *)
(*                                                                         *)
(* A switch id is the sequence of its words, so that <<>> is a blank one   *)
(* (space around an id is not modelled: no simulator command names it).    *)
(* A mapping id has a kind: a name, or one like those the simulator makes. *)
(* Codes that differ only in case are one, as both tables of keys have it, *)
(* and "" is a blank one.                                                  *)
(***************************************************************************)
EXTENDS Integers, SequencesExt

CONSTANTS
  Candidate,    \* the mappings a file may contain
  File,         \* the files, as sequences of mappings
  Line          \* the lines of standard input, as sequences of words

ASSUME StartupAssumption ==
  /\ File \subseteq Seq(Candidate)
  /\ \A m \in Candidate : m.input \in {"keyboard", "gamepad"}

VARIABLES
  platform,
  config,   \* the file
  stage,    \* how far main has come, or how it ended
  error,    \* what it failed with
  table,    \* mapping_to_switch of the broker
  heard,    \* by_key and by_device: the inputs and the ids they stand for
  driven    \* the last simulator command sent, and the switch it stood for

fixed == <<platform, config>>
tables == <<table, heard, driven>>
vars == <<fixed, stage, error, tables>>

Platform == {"linux", "macos", "windows"}

Stage == {"start", "loaded", "validated", "broker", "inputs", "serving", "failed",
          "stopped"}

Mappings == ToSet(config.mappings)

Switches == {m.switch : m \in Mappings}

-----------------------------------------------------------------------------
(* Checking the file *)

\* Faulty variant: an id is compared with the one before only.
LastId(found, m) == {m.id}

\* The ids a later mapping must not have.
TakenIds(found, m) == found.ids \cup {m.id}

\* Config::validate: a mapping after others, none of which was refused.
Checked(found, m) ==
  [ids |-> TakenIds(found, m),
   error |-> IF found.error # "none" THEN found.error
             ELSE IF m.id \in found.ids THEN "duplicate id"
             ELSE IF m.switch = <<>> THEN "empty switch"
             ELSE IF m.code = "" THEN "empty code"
             ELSE "none"]

ConfigError ==
  IF config.mappings = <<>> THEN "no mappings"
  ELSE IF config.capacity = 0 THEN "no capacity"
  ELSE FoldLeft(Checked, [ids |-> {}, error |-> "none"], config.mappings).error

\* parse_key: the keys by their names, of which some have two.
ParsedKey == [
  space |-> "Space", return |-> "Return", enter |-> "Return", escape |-> "Escape",
  esc |-> "Escape", tab |-> "Tab", up |-> "UpArrow", uparrow |-> "UpArrow",
  down |-> "DownArrow", downarrow |-> "DownArrow", left |-> "LeftArrow",
  leftarrow |-> "LeftArrow", right |-> "RightArrow", rightarrow |-> "RightArrow",
  a |-> "KeyA", b |-> "KeyB", c |-> "KeyC", d |-> "KeyD", e |-> "KeyE", f |-> "KeyF",
  g |-> "KeyG", h |-> "KeyH", i |-> "KeyI", j |-> "KeyJ", k |-> "KeyK", l |-> "KeyL",
  m |-> "KeyM", n |-> "KeyN", o |-> "KeyO", p |-> "KeyP", q |-> "KeyQ", r |-> "KeyR",
  s |-> "KeyS", t |-> "KeyT", u |-> "KeyU", v |-> "KeyV", w |-> "KeyW", x |-> "KeyX",
  y |-> "KeyY", z |-> "KeyZ"]

\* name_to_keycode, which is to mirror parse_key on macOS.
KeyCode == [
  space |-> 49, return |-> 36, enter |-> 36, escape |-> 53, esc |-> 53, tab |-> 48,
  up |-> 126, uparrow |-> 126, down |-> 125, downarrow |-> 125, left |-> 123,
  leftarrow |-> 123, right |-> 124, rightarrow |-> 124,
  a |-> 0, b |-> 11, c |-> 8, d |-> 2, e |-> 14, f |-> 3, g |-> 5, h |-> 4, i |-> 34,
  j |-> 38, k |-> 40, l |-> 37, m |-> 46, n |-> 45, o |-> 31, p |-> 35, q |-> 12,
  r |-> 15, s |-> 1, t |-> 17, u |-> 32, v |-> 9, w |-> 13, x |-> 7, y |-> 16, z |-> 6]

\* Numbers of evdev keys.
Number == {"304", "305"}

\* validate_gamepad, of which there is one for Linux and one for the others.
GamepadValid(m) ==
  platform = "linux" /\ m.device \notin {"none", ""} /\ m.code \in Number

\* input::validate
InputValid(m) ==
  IF m.input = "keyboard"
  THEN m.code \in DOMAIN ParsedKey /\ m.device = "none"
  ELSE GamepadValid(m)

-----------------------------------------------------------------------------
(* The tables *)

SimulatedId(switch) == [kind |-> "sim", words |-> switch]

\* mappings_for: one for each switch, in some order.
SimulatorMappings ==
  SetToSeq({[id |-> SimulatedId(s), switch |-> s] : s \in Switches})

\* Faulty variant: the simulator's come first.
SimulatorFirst ==
  IF config.stdin THEN SimulatorMappings \o config.mappings ELSE config.mappings

BrokerMappings ==
  IF config.stdin THEN config.mappings \o SimulatorMappings ELSE config.mappings

\* SwitchStateMachine::new: of two mappings with one id the later one counts.
TableOf(mappings) ==
  [id \in {m.id : m \in ToSet(mappings)} |->
     mappings[SelectLastInSeq(mappings, LAMBDA m : m.id = id)].switch]

\* Faulty variant: of the names of an arrow the table has the short one only.
ShortNames == DOMAIN KeyCode \ {"uparrow", "downarrow", "leftarrow", "rightarrow"}

\* The names that the backend of macOS knows; it passes over the others in silence.
KnownNames == DOMAIN KeyCode

\* Whether a backend of this platform has the mapping in its table.
Captured(m) ==
  IF m.input = "gamepad" THEN platform = "linux"
  ELSE platform = "macos" => m.code \in KnownNames

\* Faulty variant: the table of the backend goes by the names.
SourceByName(m) == [device |-> m.device, code |-> m.code]

\* The physical input of a mapping: a device's code or a key, by its code on macOS.
Source(m) ==
  IF m.input = "gamepad" THEN [device |-> m.device, code |-> m.code]
  ELSE IF platform = "macos" THEN [keycode |-> KeyCode[m.code]]
  ELSE [key |-> ParsedKey[m.code]]

Heard == {[source |-> Source(m), id |-> m.id] : m \in {n \in Mappings : Captured(n)}}

-----------------------------------------------------------------------------
(* main *)

Goto(from, to) == stage = from /\ stage' = to

Proceed(from, to) == Goto(from, to) /\ UNCHANGED <<fixed, error>>

Fail(from, what) ==
  /\ Goto(from, "failed")
  /\ error' = what
  /\ UNCHANGED <<fixed, tables>>

Load == ConfigError = "none" /\ Proceed("start", "loaded") /\ UNCHANGED tables

LoadFails == ConfigError # "none" /\ Fail("start", ConfigError)

Validate ==
  /\ \A m \in Mappings : InputValid(m)
  /\ Proceed("loaded", "validated")
  /\ UNCHANGED tables

ValidateFails == (\E m \in Mappings : ~InputValid(m)) /\ Fail("loaded", "bad input")

SpawnBroker ==
  /\ Proceed("validated", "broker")
  /\ table' = TableOf(BrokerMappings)
  /\ UNCHANGED <<heard, driven>>

SpawnInput ==
  /\ Proceed("broker", "inputs")
  /\ heard' = Heard
  /\ UNCHANGED <<table, driven>>

\* A thread cannot be started: on macOS that is only logged.
SpawnInputFails == platform # "macos" /\ Fail("broker", "no thread")

Bind == Proceed("inputs", "serving") /\ UNCHANGED tables

\* By then the backends capture; it is the end of the process that stops them.
BindFails == Fail("inputs", "no address")

\* Ctrl-C
Stop == Proceed("serving", "stopped") /\ UNCHANGED tables

\* The simulator reads a line: only the first two words count.
Type(line) ==
  /\ config.stdin
  /\ stage \in {"inputs", "serving"}
  /\ Len(line) >= 2
  /\ line[1] \in {"press", "release"}
  /\ <<line[2]>> \in Switches
  /\ driven' = [line |-> line, switch |-> table[SimulatedId(<<line[2]>>)]]
  /\ UNCHANGED <<fixed, stage, error, table, heard>>

NoCommand == [line |-> <<>>, switch |-> <<>>]

Init ==
  /\ platform \in Platform
  /\ config \in [mappings : File, capacity : {0, 1}, stdin : BOOLEAN]
  /\ stage = "start"
  /\ error = "none"
  /\ table = <<>>
  /\ heard = {}
  /\ driven = NoCommand

Next ==
  \/ Load
  \/ LoadFails
  \/ Validate
  \/ ValidateFails
  \/ SpawnBroker
  \/ SpawnInput
  \/ SpawnInputFails
  \/ Bind
  \/ BindFails
  \/ Stop
  \/ \E line \in Line : Type(line)

Spec == Init /\ [][Next]_vars

-----------------------------------------------------------------------------
(* Properties *)

\* docs/configuration.md: the ids are unique, at least one mapping is there, and
\* neither a switch id nor a code is blank.
WellFormed ==
  /\ config.capacity > 0
  /\ config.mappings # <<>>
  /\ \A i, j \in DOMAIN config.mappings :
       config.mappings[i].id = config.mappings[j].id => i = j
  /\ \A m \in Mappings : m.switch # <<>> /\ m.code # ""

\* The loop over the mappings, which stops at the first mistake, refuses exactly
\* the files that are not well formed.
LoadsWellFormed ==
  /\ stage \notin {"start", "failed"} => WellFormed
  /\ error # "none" /\ WellFormed => error \in {"bad input", "no thread", "no address"}

Capturing == stage \in {"inputs", "serving"}

\* Every mapping that start-up let through is in the table of a backend of this
\* platform, and the broker knows every id that a backend may send.  On macOS that takes
\* the table of keycodes to have every name that parse_key accepts.
EveryMappingHeard ==
  Capturing =>
    /\ {h.id : h \in heard} = {m.id : m \in Mappings}
    /\ \A h \in heard : h.id \in DOMAIN table

Keyboard == {m \in Mappings : m.input = "keyboard"}

HeardTogether(m, n) ==
  \E g, h \in heard : g.id = m.id /\ h.id = n.id /\ g.source = h.source

\* One press stands for two mappings just when the check took them for one key: the two
\* names of a key have one keycode on macOS, and no keycode is there twice by mistake.
HeardByKey ==
  Capturing =>
    \A m, n \in Keyboard :
      HeardTogether(m, n) <=> ParsedKey[m.code] = ParsedKey[n.code]

\* An input drives the switch its mapping names; only an id that reads like one of
\* the simulator's own can be taken over, and only while the simulator is on.
InputDrivesItsSwitch ==
  Capturing =>
    \A m \in Mappings :
      \/ table[m.id] = m.switch
      \/ config.stdin /\ \E s \in Switches : m.id = SimulatedId(s)

\* A simulator command drives the switch that its second word names, whatever the
\* ids of the configured mappings are.
CommandDrivesItsSwitch ==
  driven # NoCommand => driven.switch = <<driven.line[2]>>
=============================================================================
