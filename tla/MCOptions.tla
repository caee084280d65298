----------------------------- MODULE MCOptions -----------------------------
(***************************************************************************)
(* Command lines and files for TLC: up to four switches -a, -z and -d with *)
(* valid and invalid values, after the switches a daemon needs and some it *)
(* may have, and files with up to two areas.                               *)
(***************************************************************************)
EXTENDS Options

Pair(c, ns) == <<Switch(c), Value(ns)>>

Pieces ==
  {Pair("a", <<1>>), Pair("a", <<2>>), Pair("a", <<3>>),
   Pair("z", <<1>>), Pair("z", <<1, 2>>), Pair("z", <<2, 5>>),
   Pair("d", <<0>>), <<Switch("d")>>, <<Switch("z")>>, <<Switch("a")>>}

Needed == Pair("d", <<0>>) \o Pair("m", <<0>>)

Beginnings ==
  {Needed, Pair("d", <<0>>), Needed \o <<Switch("D")>>,
   Needed \o <<Switch("h"), Value(<<7>>)>>, <<Switch("version"), Switch("h")>>,
   Needed \o Pair("S", <<60>>) \o Pair("p", <<0>>),
   Needed \o Pair("S", <<59>>)}

SomeLines ==
  {p \o FlattenSeq(s) : p \in Beginnings, s \in UNION {[1..n -> Pieces] : n \in 0..3}}
    \cup {Needed \o FlattenSeq(s) : s \in [1..4 -> Pieces]}

YamlAreas == [num: {1, 2, 3}, zones: {<< >>, <<1>>, <<2>>, <<1, 2>>, <<5>>}]

\* Files with every list of areas, and files with every choice of settings.
SomeConfigs ==
  [given: {{"d", "m"}, {"d", "m", "u"}, {"d", "m", "D"}, Settings},
   port: {1883}, status_period: {60},
   areas: UNION {[1..n -> YamlAreas] : n \in 0..2}]
  \cup
  [given: {s \cup {"d"} : s \in SUBSET Settings},
   port: {0, 1883}, status_period: {30, 60},
   areas: {<<[num |-> 1, zones |-> <<2>>]>>, <<[num |-> 1, zones |-> << >>]>>}]

=============================================================================
