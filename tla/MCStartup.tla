------------------------------ MODULE MCStartup ------------------------------
(* Small files for Startup: what TLC is to combine. *)
EXTENDS Startup

Named(name) == [kind |-> "name", words |-> <<name>>]

Keyed(id, switch, code) ==
  [id |-> id, switch |-> switch, input |-> "keyboard", code |-> code, device |-> "none"]

\* To be combined: good mappings, two names of a key, an id like the simulator's for the same and
\* for another switch, a switch of two words, and one mistake of each kind.
Mixed == {
  Keyed(Named("m"), <<"a">>, "enter"),
  Keyed(Named("n"), <<"a">>, "return"),
  Keyed(Named("n"), <<"a", "b">>, "space"),
  Keyed(SimulatedId(<<"a">>), <<"b">>, "space"),
  Keyed(Named("m"), <<>>, "space"),
  Keyed(Named("n"), <<"b">>, ""),
  Keyed(Named("o"), <<"b">>, "f13"),
  [Keyed(Named("o"), <<"b">>, "space") EXCEPT !.device = "d"],
  [id |-> Named("o"), switch |-> <<"b">>, input |-> "gamepad", code |-> "304",
   device |-> "d"],
  [id |-> Named("n"), switch |-> <<"b">>, input |-> "gamepad", code |-> "space",
   device |-> "d"],
  [id |-> Named("o"), switch |-> <<"b">>, input |-> "gamepad", code |-> "304",
   device |-> ""]}

\* Every name in either table of keys, and one that is in none.
KeyName == DOMAIN ParsedKey \cup DOMAIN KeyCode \cup {"f13"}

KeyMappings == {Keyed(Named(id), <<"a">>, name) : id \in {"m", "n"}, name \in KeyName}

Candidates == Mixed \cup KeyMappings

\* Up to three of those mappings in any order; and any two names of keys.
Files ==
  BoundedSeq(Mixed, 3) \cup
  {<<Keyed(Named("m"), <<"a">>, x), Keyed(Named("n"), <<"a">>, y)>> : x, y \in KeyName}

Lines == {<<"press", "a">>, <<"release", "a", "b">>, <<"press", "b">>, <<"press">>,
          <<"help", "a">>}
=============================================================================
