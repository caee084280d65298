------------------------------ MODULE Options ------------------------------
(***************************************************************************)
(* The command line: main() of main.c up to the start of the daemon, with  *)
(* para_mgr_set_area and para_mgr_set_zone of para_mgr.c, and the command  *)
(* line start_daemon.py makes of paraevo.yaml.                             *)
(*                                                                         *)
(* The command line is a sequence of words; one pass of the loop around    *)
(* getopt_long, which takes a switch and the word after it, is one action. *)
(* Of a word the switch it may be is kept, and the numbers strtok() and    *)
(* strtol() read in it.  malloc() gives what it is asked for.              *)
(***************************************************************************)
EXTENDS Integers, SequencesExt

CONSTANTS
  MaxAreas, MaxZones,  \* MAX_AREAS, MAX_ZONES
  CommandLines,        \* what users type
  Configs              \* what users write in paraevo.yaml

ASSUME SizesAssumption == MaxAreas \in Nat /\ MaxZones \in Nat

(***************************************************************************)
(* Words.  In a switch that is taken for a value strtol() reads a 0.       *)
(***************************************************************************)
Switch(c)   == [switch |-> c, nums |-> <<0>>]
Value(nums) == [switch |-> "none", nums |-> nums]

WithValue == {"a", "z", "d", "m", "S", "p", "u", "t", "l", "w"}
Flags     == {"h", "D", "v", "r", "version"}
Words     == [switch: WithValue \cup Flags \cup {"none"}, nums: Seq(Int)]

(***************************************************************************)
(* Files: the switches of the settings that are given (of a Boolean        *)
(* setting, if it is true), the two numbers that main() looks at, and the  *)
(* areas.  Texts are single words and not empty.  A file without a device, *)
(* an mqtt section, or an area's num or zones is not among them: the       *)
(* script ends with it, and no command line is made.                       *)
(***************************************************************************)
FileAreas == [num: Int, zones: Seq(Int)]
Settings  == {"v", "D", "d", "m", "p", "l", "w", "r", "u", "S"}
Files     == [given: SUBSET Settings, port: Int, status_period: Int,
              areas: Seq(FileAreas)]

ASSUME LinesAssumption == CommandLines \subseteq Seq(Words)
ASSUME ConfigsAssumption ==
  Configs \subseteq Files /\ \A c \in Configs : "d" \in c.given

VARIABLES
  args,      \* the words getopt_long has still to look at
  areanum,   \* the area the next -z belongs to, or 0
  areas,     \* areas[]: the entries that are not NULL
  zoneArea,  \* zones[]: the area of every entry that is not NULL
  seen,      \* the other switches that were given
  main,      \* "parsing", "ended", "started", or "forked": the daemon goes on
             \* in a child
  return_main,
  line,      \* history: the command line
  config     \* history: the file it was made of, or << >>

options == <<areanum, areas, zoneArea, seen>>
vars == <<args, options, main, return_main, line, config>>

areaset  == areas # {}
zonesset == DOMAIN zoneArea # {}

-----------------------------------------------------------------------------
(***************************************************************************)
(* start_daemon.py: settings, then every area with its zones, then more    *)
(* settings.  An empty list of zones leaves -z without a value: it takes   *)
(* the switch that follows for one.                                        *)
(***************************************************************************)
SettingWords(c, s) ==
  IF s \notin c.given THEN << >>
  ELSE IF s \in Flags THEN <<Switch(s)>>
  ELSE <<Switch(s), Value(<<CASE s = "p" -> c.port
                              [] s = "S" -> c.status_period
                              [] OTHER   -> 0>>)>>

SettingsWords(c, order) ==
  FlattenSeq([i \in 1..Len(order) |-> SettingWords(c, order[i])])

SettingsBefore == <<"v", "D", "d", "m", "p", "l", "w", "r">>
SettingsAfter  == <<"u", "S">>

AreaWords(a) ==
  <<Switch("a"), Value(<<a.num>>), Switch("z")>>
    \o IF a.zones = << >> THEN << >> ELSE <<Value(a.zones)>>

\* Mutant: the zones are written before their area.
ZonesFirst_Script(c) ==
  SettingsWords(c, SettingsBefore)
    \o FlattenSeq([i \in 1..Len(c.areas) |->
         <<Switch("z"), Value(c.areas[i].zones), Switch("a"),
           Value(<<c.areas[i].num>>)>>])
    \o SettingsWords(c, SettingsAfter)

Script(c) ==
  SettingsWords(c, SettingsBefore)
    \o FlattenSeq([i \in 1..Len(c.areas) |-> AreaWords(c.areas[i])])
    \o SettingsWords(c, SettingsAfter)

-----------------------------------------------------------------------------
(***************************************************************************)
(* The loop around getopt_long.                                            *)
(***************************************************************************)
Given(c) == main = "parsing" /\ args # << >> /\ Head(args).switch = c

\* The switch and its value are taken.
Takes(c) ==
  /\ Given(c) /\ Len(args) > 1
  /\ args' = SubSeq(args, 3, Len(args))
  /\ UNCHANGED <<line, config>>

nums == args[2].nums

\* strtol() reads the first number, and a 0 where there is none.
Number(w) == IF w.nums = << >> THEN 0 ELSE w.nums[1]
number    == Number(args[2])

Goes    == UNCHANGED <<main, return_main>>
Ends(c) == main' = "ended" /\ return_main' = c

\* Mutant: the number of an area is not compared with MAX_AREAS.
Unbounded_Area ==
  /\ Takes("a")
  /\ areanum' = number
  /\ IF number > 0
       THEN areas' = areas \cup {number} /\ Goes
       ELSE Ends(-2) /\ UNCHANGED areas
  /\ UNCHANGED <<zoneArea, seen>>

Area ==
  /\ Takes("a")
  /\ areanum' = number
  /\ IF number \in 1..MaxAreas
       THEN areas' = areas \cup {number} /\ Goes
       ELSE Ends(-2) /\ UNCHANGED areas
  /\ UNCHANGED <<zoneArea, seen>>

\* The zones of a list before the first that is not valid.
GoodZones ==
  {nums[i] : i \in {j \in 1..Len(nums) : \A k \in 1..j : nums[k] \in 1..MaxZones}}

Assigned(zs) ==
  [z \in DOMAIN zoneArea \cup zs |-> IF z \in zs THEN areanum ELSE zoneArea[z]]

ZonesWithoutArea ==
  /\ Takes("z")
  /\ areanum = 0
  /\ Ends(-3)
  /\ UNCHANGED options

\* Mutant: another -z may follow for the same area.
Unreset_ZonesOfArea ==
  /\ Takes("z")
  /\ areanum # 0
  /\ zoneArea' = Assigned(GoodZones)
  /\ IF \A i \in 1..Len(nums) : nums[i] \in GoodZones THEN Goes ELSE Ends(-4)
  /\ UNCHANGED <<areanum, areas, seen>>

ZonesOfArea ==
  /\ Takes("z")
  /\ areanum # 0
  /\ zoneArea' = Assigned(GoodZones)
  /\ IF \A i \in 1..Len(nums) : nums[i] \in GoodZones
       THEN areanum' = 0 /\ Goes
       ELSE Ends(-4) /\ UNCHANGED areanum
  /\ UNCHANGED <<areas, seen>>

Period ==
  /\ Takes("S")
  /\ seen' = seen \cup {"S"}
  /\ IF number >= 60 THEN Goes ELSE Ends(-9)
  /\ UNCHANGED <<areanum, areas, zoneArea>>

Ports == 1..65535

Port ==
  /\ Takes("p")
  /\ seen' = seen \cup {"p"}
  /\ IF number \in Ports THEN Goes ELSE Ends(-1)
  /\ UNCHANGED <<areanum, areas, zoneArea>>

Text ==
  /\ \E c \in {"d", "m", "u", "t", "l", "w"} : Takes(c) /\ seen' = seen \cup {c}
  /\ Goes
  /\ UNCHANGED <<areanum, areas, zoneArea>>

Flag ==
  /\ \E c \in Flags : Given(c) /\ seen' = seen \cup {c}
  /\ args' = Tail(args)
  /\ Goes
  /\ UNCHANGED <<areanum, areas, zoneArea, line, config>>

\* getopt_long says that the value is missing; the loop goes on.  A word that
\* belongs to no switch is left over.
Skipped ==
  /\ Given("none") \/ \E c \in WithValue : Given(c) /\ Len(args) = 1
  /\ args' = Tail(args)
  /\ Goes
  /\ UNCHANGED <<options, line, config>>

GetOpt ==
  Area \/ ZonesWithoutArea \/ ZonesOfArea \/ Period \/ Port \/ Text \/ Flag \/ Skipped

-----------------------------------------------------------------------------
\* What is asked for or missing, in the order it is looked at.
Refusals ==
  <<<<"version" \in seen, 0>>, <<"h" \in seen, 0>>, <<~areaset, -5>>, <<~zonesset, -6>>,
    <<"d" \notin seen, -7>>, <<"m" \notin seen, -8>>>>

Refused == {i \in 1..Len(Refusals) : Refusals[i][1]}

Refuse ==
  /\ main = "parsing" /\ args = << >>
  /\ \E i \in Refused : (\A j \in Refused : i <= j) /\ Ends(Refusals[i][2])
  /\ UNCHANGED <<args, options, line, config>>

\* The daemon starts, with -D in a child: the parent returns -3, and -1 if it
\* cannot fork.
Start ==
  /\ main = "parsing" /\ args = << >> /\ Refused = {}
  /\ \/ main' = "started" /\ UNCHANGED return_main
     \/ "D" \in seen /\ main' = "forked" /\ return_main' \in {-3, -1}
  /\ UNCHANGED <<args, options, line, config>>

Init ==
  /\ \/ line \in CommandLines /\ config = << >>
     \/ \E c \in Configs : line = Script(c) /\ config = <<c>>
  /\ args = line
  /\ areanum = 0 /\ areas = {} /\ zoneArea = << >> /\ seen = {}
  /\ main = "parsing" /\ return_main = 0

Next == GetOpt \/ Refuse \/ Start

Spec == Init /\ [][Next]_vars

-----------------------------------------------------------------------------
\* The types of the variables: nothing outside areas[] and zones[] is ever
\* written, whatever the command line.
TypeOK ==
  /\ args \in Seq(Words)
  /\ areanum \in Int
  /\ areas \subseteq 1..MaxAreas
  /\ DOMAIN zoneArea \subseteq 1..MaxZones
  /\ seen \subseteq WithValue \cup Flags
  /\ main \in {"parsing", "ended", "started", "forked"} /\ return_main \in -9..0

\* What getopt_long takes the words of a command line for: the word after a
\* switch with a value is that value, even if it looks like a switch.
Roles(l) ==
  LET role[i \in 1..Len(l)] ==
        IF i > 1 /\ l[i - 1].switch \in WithValue /\ role[i - 1] = "switch" THEN "value"
        ELSE IF l[i].switch # "none" THEN "switch" ELSE "word"
  IN role

\* The reading the documentation gives (README.md:73, main.c:377-380): the
\* word at j lists zones for the area at i if no other -z lies between.
Values(l, c) ==
  {i \in 2..Len(l) : l[i - 1].switch = c /\ Roles(l)[i - 1] = "switch"}

Follows(l, i, j) ==
  /\ i \in Values(l, "a") /\ j \in Values(l, "z") /\ i < j
  /\ \A k \in Values(l, "z") \cup Values(l, "a") : ~(i < k /\ k < j)

Lists(l, j, z) == j \in Values(l, "z") /\ z \in ToSet(l[j].nums)

\* A daemon that starts has at least one area and one zone, and every zone is
\* in a configured area: the area of the -a before the last -z that lists it.
\* para_mgr_set_zone counts on it: "Assume the area is already initialized.
\* Otherwise crash-boom-bang." (para_mgr.c:121).
ZonesFollowArea ==
  main = "started" =>
    /\ areas # {} /\ DOMAIN zoneArea # {}
    /\ \A z \in DOMAIN zoneArea :
         /\ zoneArea[z] \in areas
         /\ \E i, j \in 1..Len(line) :
              /\ Follows(line, i, j) /\ Lists(line, j, z)
              /\ zoneArea[z] = Number(line[i])
              /\ \A k \in 1..Len(line) : Lists(line, k, z) => k <= j

\* What main() accepts of a file: a server, a port and a period within their
\* bounds, areas and zones that there can be, and zones for every area.
Valid(c) ==
  /\ "m" \in c.given
  /\ "p" \in c.given => c.port \in Ports
  /\ "S" \in c.given => c.status_period >= 60
  /\ c.areas # << >>
  /\ \A i \in 1..Len(c.areas) :
       /\ c.areas[i].num \in 1..MaxAreas
       /\ c.areas[i].zones # << >>
       /\ ToSet(c.areas[i].zones) \subseteq 1..MaxZones

ZonesOf(c, i) == ToSet(c.areas[i].zones)

\* main() refuses no valid file, and leaves the daemon to a child only if the
\* file says so; a daemon started from a file, in a child or not, has every
\* setting of the file, its areas, and each of its zones in the last area that
\* lists it: "Python script parses that YAML and generates appropriate
\* command" (README.md:84).
ScriptFaithful ==
  \A c \in ToSet(config) :
    /\ main = "ended" => ~Valid(c)
    /\ main = "forked" => "D" \in c.given
    /\ main \in {"started", "forked"} =>
         /\ seen = c.given
         /\ areas = {c.areas[i].num : i \in 1..Len(c.areas)}
         /\ DOMAIN zoneArea = UNION {ZonesOf(c, i) : i \in 1..Len(c.areas)}
         /\ \A z \in DOMAIN zoneArea :
              \E i \in 1..Len(c.areas) :
                /\ z \in ZonesOf(c, i) /\ zoneArea[z] = c.areas[i].num
                /\ \A j \in i + 1..Len(c.areas) : z \notin ZonesOf(c, j)

=============================================================================
