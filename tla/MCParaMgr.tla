----------------------------- MODULE MCParaMgr ------------------------------
(***************************************************************************)
(* Instances of ParaMgr for TLC: the configured areas and zones, and the   *)
(* lines the panel may send.                                               *)
(***************************************************************************)
EXTENDS ParaMgr

\* One area and one zone.
OneZone == [z \in {1} |-> 1]

\* A zone in each of two areas, numbered against the areas.
TwoZones == [z \in {1, 2} |-> 3 - z]

Event(g, n, a) == [kind |-> "G", group |-> g, num |-> n, area |-> a]

RA(a, s, al, me, tr) ==
  [kind |-> "RA", num |-> a, status |-> s, alarm |-> al, memory |-> me,
   trouble |-> tr, misc |-> "x"]

RZ(z, s, al, fi) ==
  [kind |-> "RZ", num |-> z, status |-> s, alarm |-> al, fire |-> fi,
   misc |-> "x"]

\* One event of every group that is handled differently, for area a and,
\* where the event names one, zone z.
EventsOf(a, z) ==
  {Event(g, z, a) : g \in {0, 1, 9, 13, 23, 24, 25, 26, 27}}
    \cup {Event(12, 4, a)}
    \cup {Event(64, n, a) : n \in {0, 2, 6}}
    \cup {Event(65, n, a) : n \in {1, 3, 4, 5}}

\* Events the two early returns drop: G000N000A000 and areas out of range.
Malformed ==
  {Event(0, 0, 0), Event(24, 0, 1), Event(9, 1, 0), Event(9, 1, MaxAreas + 1)}

StatusResponsesOf(a, z) ==
  {RA(a, s, al, me, tr) : s \in {"D", "A", "S", "E"}, al \in {"O", "A"},
                          me \in {"O"}, tr \in {"O"}}
    \cup {RA(a, "A", "A", "M", "T")}
    \cup {RZ(z, s, al, "O") : s \in {"C", "O"}, al \in {"O", "A"}}
    \cup {RZ(z, "C", "O", "F")}

RestOf(a) ==
  {[kind |-> "AL", num |-> a], [kind |-> "AD", num |-> a, ok |-> TRUE],
   [kind |-> "AD", num |-> a, ok |-> FALSE], [kind |-> "other"]}

Label(z) == [kind |-> "ZL", num |-> z]

OneAreaInputs ==
  EventsOf(1, 1) \cup StatusResponsesOf(1, 1) \cup RestOf(1) \cup {Label(1)}

\* Events of an area and a zone the daemon was not given, and of a zone above
\* MaxZones.
Foreign ==
  {Event(9, 1, MaxAreas), Event(1, MaxZones, 1), Event(1, MaxZones + 1, 1)}

\* Everything of area 2 and its zone 1; of area 1 that it is disarmed, which
\* takes its alarm byte out of Unset, and of its zone 2 the label.
TwoAreaInputs ==
  EventsOf(2, 1) \cup Malformed \cup StatusResponsesOf(2, 1) \cup RestOf(2)
    \cup {RA(1, "D", "O", "O", "O"), Label(2)} \cup Foreign

=============================================================================
