------------------------------ MODULE Requests ------------------------------
(***************************************************************************)
(* The requests and the commands on their way to the panel, and what comes *)
(* back: the panel manager's loop (para_mgr.c), the two kinds of threads it *)
(* starts to ask for labels and states, the writing side of the serial     *)
(* thread (para_serial.c), and the panel behind its PRT3 module.           *)
(*                                                                         *)
(* Of an area's record only the byte status is kept, of a zone's only that *)
(* a status response of it was taken; the bytes a line is made of are the  *)
(* subject of Serial, the handlers of lines that of ParaMgr.  Of the       *)
(* events only those of arming and disarming are sent, alarms and delays   *)
(* are not.  The queues are as long as they need to be: their high water   *)
(* mark of 1000 messages at each end is several times what these threads   *)
(* can leave in them.                                                      *)
(***************************************************************************)
EXTENDS Integers, SequencesExt

CONSTANTS
  MaxAreas, MaxZones,  \* MAX_AREAS, MAX_ZONES
  Areas, Zones,        \* those whose entry in areas[], zones[] is not NULL
  MaxUtilityKey,       \* MAX_UTILITY_KEY
  UserCode,            \* whether config.user_code was given
  Commands,            \* what the MQTT thread may push
  MaxActs,             \* bound: commands given and changes made at keypads
  MaxWaiting,          \* bound: requests in the queue when a series goes on
  MaxFaults            \* bound: writes cut short and lines lost

AreaControls == {"ARM_AWAY", "ARM_HOME", "DISARM"}
UTILITY_KEY  == "UTILITY_KEY"
AnyCommand   == [command: AreaControls \cup {UTILITY_KEY}, num: Nat]

ASSUME ConfigAssumption ==
  /\ MaxAreas \in Nat /\ MaxZones \in Nat /\ MaxUtilityKey \in Nat
  /\ Areas \subseteq 1..MaxAreas /\ Zones \subseteq 1..MaxZones
  /\ UserCode \in BOOLEAN
ASSUME CommandsAssumption == Commands \subseteq AnyCommand
ASSUME BoundsAssumption ==
  MaxActs \in Nat /\ MaxWaiting \in Nat /\ MaxFaults \in Nat

Unset == "nul"
Statuses == {"D", "A", "S"}

VARIABLES
  initial,    \* what para_mgr_initial_request_thread has still to send
  periodic,   \* what para_mgr_area_status_thread has still to send
  commands,   \* the queue behind EPT_MQTT_AREA_COMMAND
  write,      \* the queue behind EPT_SERIAL_WRITE
  residue,    \* the last write was cut: its bytes wait for those of the next
  device,     \* lines the serial thread has not read
  serialread, \* the queue behind EPT_SERIAL_READ
  known,      \* areas[]: the byte status
  learnt,     \* zones[]: those a status response was taken for
  panel,      \* the true status of each area
  shown,      \* the status the panel gives when it is asked
  acts,       \* history: how many commands and changes at keypads there were
  faults,     \* history: how many writes were cut short and lines lost
  reached,    \* history: the commands the panel was told
  lost        \* history: how many commands a cut write spoiled

pmgr    == <<known, learnt>>
threads == <<initial, periodic>>
prt3    == <<device, panel, shown>>
history == <<acts, faults, reached, lost>>
vars == <<threads, commands, write, residue, serialread, pmgr, prt3, history>>

-----------------------------------------------------------------------------
(***************************************************************************)
(* Requests, and the series of them the threads send.                      *)
(***************************************************************************)
Request(kind, n)  == [kind |-> kind, num |-> n, arm |-> Unset]
Arm(kind, n, arm) == [kind |-> kind, num |-> n, arm |-> arm]

Each(max, configured, kinds(_)) ==
  FlattenSeq([i \in 1..max |-> IF i \in configured THEN kinds(i) ELSE << >>])

\* Mutant: the loop over zones[] ends at the first entry that is NULL.
Break_InitialRequests ==
  LET Ask(i) == <<Request("AL", i), Request("RA", i)>>
      AskZone(i) == <<Request("ZL", i), Request("RZ", i)>>
  IN Each(MaxAreas, Areas, Ask)
       \o Each(MaxZones, {z \in Zones : 1..z \subseteq Zones}, AskZone)

\* para_mgr_initial_request_thread
InitialRequests ==
  LET Ask(i) == <<Request("AL", i), Request("RA", i)>>
      AskZone(i) == <<Request("ZL", i), Request("RZ", i)>>
  IN Each(MaxAreas, Areas, Ask) \o Each(MaxZones, Zones, AskZone)

\* Mutant: the loop over areas[] ends at the first entry that is NULL.
Break_PeriodicRequests ==
  LET Ask(i) == <<Request("RA", i)>>
  IN Each(MaxAreas, {a \in Areas : 1..a \subseteq Areas}, Ask)

\* para_mgr_area_status_thread
PeriodicRequests ==
  LET Ask(i) == <<Request("RA", i)>> IN Each(MaxAreas, Areas, Ask)

\* Mutant: the area of a command is not looked for in areas[].
Unchecked_para_process_command(c) ==
  CASE c.command = "ARM_AWAY" ->
         <<Arm(IF UserCode THEN "AA" ELSE "AQ", c.num, "A")>>
    [] c.command = "ARM_HOME" -> <<Arm("AQ", c.num, "S")>>
    [] c.command = "DISARM"   ->
         IF UserCode THEN <<Request("AD", c.num)>> ELSE << >>
    [] OTHER -> <<Request("UK", c.num)>>

\* Mutant: a stay arm, too, is sent with the user code where there is one.
Coded_para_process_command(c) ==
  IF c.command = UTILITY_KEY
    THEN IF c.num \in 1..MaxUtilityKey THEN <<Request("UK", c.num)>> ELSE << >>
  ELSE IF c.num \notin Areas THEN << >>
  ELSE IF c.command = "DISARM"
    THEN IF UserCode THEN <<Request("AD", c.num)>> ELSE << >>
    ELSE <<Arm(IF UserCode THEN "AA" ELSE "AQ", c.num,
               IF c.command = "ARM_AWAY" THEN "A" ELSE "S")>>

\* What a command makes the panel manager send: nothing for an area it does
\* not know, a key there is not, or a disarm without a user code.
para_process_command(c) ==
  IF c.command = UTILITY_KEY
    THEN IF c.num \in 1..MaxUtilityKey THEN <<Request("UK", c.num)>> ELSE << >>
  ELSE IF c.num \notin Areas THEN << >>
  ELSE CASE c.command = "ARM_AWAY" ->
              <<Arm(IF UserCode THEN "AA" ELSE "AQ", c.num, "A")>>
         [] c.command = "ARM_HOME" -> <<Arm("AQ", c.num, "S")>>
         [] c.command = "DISARM" ->
              IF UserCode THEN <<Request("AD", c.num)>> ELSE << >>

-----------------------------------------------------------------------------
(***************************************************************************)
(* The threads that send series of requests, 20 ms apart.                  *)
(***************************************************************************)
SendInitial ==
  /\ initial # << >> /\ Len(write) < MaxWaiting
  /\ write' = Append(write, Head(initial))
  /\ initial' = Tail(initial)
  /\ UNCHANGED <<periodic, commands, residue, serialread, pmgr, prt3, history>>

SendPeriodic ==
  /\ periodic # << >> /\ Len(write) < MaxWaiting
  /\ write' = Append(write, Head(periodic))
  /\ periodic' = Tail(periodic)
  /\ UNCHANGED <<initial, commands, residue, serialread, pmgr, prt3, history>>

-----------------------------------------------------------------------------
(***************************************************************************)
(* The panel manager: lines come before commands, and both before the      *)
(* timeout.  The strict comparisons leave out the last area and zone.      *)
(***************************************************************************)
StatusAfter(l) ==
  IF l.kind = "G"
    THEN IF l.status = "D" \/ known[l.num] = "D" THEN l.status ELSE known[l.num]
  ELSE IF l.num >= MaxAreas THEN known[l.num]
  ELSE CASE l.kind = "RA" -> l.status
         [] l.kind = "AD" -> "D"
         [] l.kind = "AL" -> Unset   \* set_label ends the name in the status

ReceiveLine ==
  /\ serialread # << >>
  /\ serialread' = Tail(serialread)
  /\ LET l == Head(serialread)
     IN IF l.kind \in {"RZ", "ZL"}
          THEN /\ learnt' = IF l.kind = "RZ" /\ l.num < MaxZones
                              THEN learnt \cup {l.num} ELSE learnt
               /\ UNCHANGED known
          ELSE /\ known' = [known EXCEPT ![l.num] = StatusAfter(l)]
               /\ UNCHANGED learnt
  /\ UNCHANGED <<threads, commands, write, residue, prt3, history>>

TakeCommand ==
  /\ serialread = << >> /\ commands # << >>
  /\ commands' = Tail(commands)
  /\ write' = write \o para_process_command(Head(commands))
  /\ UNCHANGED <<threads, residue, serialread, pmgr, prt3, history>>

\* The poll waits for config.area_status_period, 60 s at least: by then the
\* series before this one was written and answered.
Quiet ==
  /\ serialread = << >> /\ commands = << >>
  /\ initial = << >> /\ periodic = << >> /\ write = << >>
  /\ device = << >>

PollTimeout ==
  /\ Quiet
  /\ periodic' = PeriodicRequests
  /\ UNCHANGED <<initial, commands, write, residue, serialread, pmgr, prt3, history>>

PanelManager == ReceiveLine \/ TakeCommand \/ PollTimeout

-----------------------------------------------------------------------------
(***************************************************************************)
(* The panel and the PRT3.  Every change of an area is told by an event;   *)
(* the answer to a status request may for a while still give the status    *)
(* before it (main.c:24-27).                                               *)
(***************************************************************************)
Line(kind, n, s) == [kind |-> kind, num |-> n, status |-> s]
Event(n, s) == Line("G", n, s)

\* An area is armed when it is disarmed, and disarmed when it is not.
CanBecome(a, s) == (panel[a] = "D") # (s = "D")

Keypad ==
  /\ acts < MaxActs
  /\ \E a \in Areas, s \in Statuses :
       /\ CanBecome(a, s)
       /\ panel' = [panel EXCEPT ![a] = s]
       /\ device' = Append(device, Event(a, s))
  /\ acts' = acts + 1
  /\ UNCHANGED <<threads, commands, write, residue, serialread, pmgr, shown,
                 faults, reached, lost>>

Settle ==
  /\ \E a \in Areas :
       /\ shown[a] # panel[a]
       /\ shown' = [shown EXCEPT ![a] = panel[a]]
  /\ UNCHANGED <<threads, commands, write, residue, serialread, pmgr, device,
                 panel, history>>

\* What a command tells the panel.
Meaning(r) ==
  CASE r.kind \in {"AA", "AQ"} -> <<r.num, r.arm>>
    [] r.kind = "AD" -> <<r.num, "D">>
    [] r.kind = "UK" -> <<r.num, UTILITY_KEY>>

IsCommand(r) == r.kind \in {"AA", "AQ", "AD", "UK"}
Spoiled(r)   == IF IsCommand(r) THEN 1 ELSE 0

\* A stay arm is not done when it comes with a user code (para_mgr.c:753).
Understood(r) == ~(r.kind = "AA" /\ r.arm = "S")

\* What the PRT3 does with a request it has read whole.  The echo of an arm
\* command or of a key, which is only logged, is left out.
PRT3(r) ==
  IF ~IsCommand(r)
    THEN /\ device' = Append(device,
              Line(r.kind, r.num, IF r.kind = "RA" THEN shown[r.num] ELSE Unset))
         /\ UNCHANGED <<panel, reached>>
    ELSE LET s == Meaning(r)[2]
             done == Understood(r) /\ r.kind # "UK" /\ CanBecome(r.num, s)
             answer == IF r.kind = "AD" THEN <<Line("AD", r.num, Unset)>> ELSE << >>
         IN /\ reached' = IF Understood(r) THEN Append(reached, Meaning(r)) ELSE reached
            /\ panel' = IF done THEN [panel EXCEPT ![r.num] = s] ELSE panel
            /\ device' = device \o answer
                           \o (IF done THEN <<Event(r.num, s)>> ELSE << >>)

-----------------------------------------------------------------------------
(***************************************************************************)
(* The serial thread: what there is to read comes before what there is to  *)
(* write.                                                                  *)
(***************************************************************************)
Read ==
  /\ device # << >>
  /\ serialread' = Append(serialread, Head(device))
  /\ device' = Tail(device)
  /\ UNCHANGED <<threads, commands, write, residue, pmgr, panel, shown, history>>

\* Mutant: a request that ran into what was left of another is tried again.
Retrying_WriteRequest ==
  /\ device = << >> /\ write # << >>
  /\ IF residue
       THEN UNCHANGED <<write, device, panel, reached>>
       ELSE /\ write' = Tail(write)
            /\ PRT3(Head(write))
  /\ UNCHANGED <<threads, commands, residue, serialread, pmgr, shown, acts,
                 faults, lost>>

\* The request and its end of line are written whole.  What was left of one
\* that was not runs into it, and the PRT3 understands neither.
WriteRequest ==
  /\ device = << >> /\ write # << >>
  /\ write' = Tail(write)
  /\ residue' = FALSE
  /\ IF residue
       THEN /\ lost' = lost + Spoiled(Head(write))
            /\ UNCHANGED <<device, panel, reached>>
       ELSE PRT3(Head(write)) /\ UNCHANGED lost
  /\ UNCHANGED <<threads, commands, serialread, pmgr, shown, acts, faults>>

\* write() takes fewer bytes than it was given, some or none; that is logged.
ShortWrite ==
  /\ device = << >> /\ write # << >> /\ faults < MaxFaults
  /\ write' = Tail(write)
  /\ residue' \in {residue, TRUE}
  /\ lost' = lost + Spoiled(Head(write))
  /\ faults' = faults + 1
  /\ UNCHANGED <<threads, commands, serialread, pmgr, prt3, acts, reached>>

SerialThread == Read \/ WriteRequest \/ ShortWrite

\* A line is dropped with the chunk it is in.
LoseLine ==
  /\ device # << >> /\ faults < MaxFaults
  /\ device' = Tail(device)
  /\ faults' = faults + 1
  /\ UNCHANGED <<threads, commands, write, residue, serialread, pmgr, panel,
                 shown, acts, reached, lost>>

\* The MQTT thread pushes a command.
Give ==
  /\ acts < MaxActs
  /\ \E c \in Commands : commands' = Append(commands, c)
  /\ acts' = acts + 1
  /\ UNCHANGED <<threads, write, residue, serialread, pmgr, prt3, faults,
                 reached, lost>>

-----------------------------------------------------------------------------
Init ==
  /\ initial = InitialRequests /\ periodic = << >>
  /\ commands = << >> /\ write = << >> /\ residue = FALSE
  /\ device = << >> /\ serialread = << >>
  /\ known = [a \in Areas |-> Unset] /\ learnt = {}
  /\ panel \in [Areas -> {"D", "A"}] /\ shown = panel
  /\ acts = 0 /\ faults = 0 /\ reached = << >> /\ lost = 0

Next ==
  \/ SendInitial \/ SendPeriodic \/ PanelManager \/ SerialThread \/ LoseLine
  \/ Keypad \/ Settle \/ Give

Spec == Init /\ [][Next]_vars

\* Every thread runs, and the PRT3 answers what it has read.  Nothing is
\* assumed of users; faults stop because they are bounded.
FairSpec ==
  /\ Spec
  /\ WF_vars(SendInitial) /\ WF_vars(SendPeriodic)
  /\ WF_vars(PanelManager) /\ WF_vars(SerialThread)
  /\ WF_vars(Settle)

-----------------------------------------------------------------------------
AreaRequests == [kind: {"AL", "RA", "AD"}, num: Areas, arm: {Unset}]
                  \cup [kind: {"AA", "AQ"}, num: Areas, arm: {"A", "S"}]
AllRequests  == AreaRequests
                  \cup [kind: {"ZL", "RZ"}, num: Zones, arm: {Unset}]
                  \cup [kind: {"UK"}, num: 1..MaxUtilityKey, arm: {Unset}]
AllLines == [kind: {"G"}, num: Areas, status: Statuses]
              \cup [kind: {"AL", "AD"}, num: Areas, status: {Unset}]
              \cup [kind: {"RA"}, num: Areas, status: Statuses]
              \cup [kind: {"ZL", "RZ"}, num: Zones, status: {Unset}]

\* The types of the variables: nothing but well formed requests for areas and
\* zones the daemon was given, and for keys there are, reaches the device.
TypeOK ==
  /\ initial \in Seq(AllRequests) /\ periodic \in Seq(AllRequests)
  /\ commands \in Seq(Commands)
  /\ write \in Seq(AllRequests)
  /\ residue \in BOOLEAN
  /\ device \in Seq(AllLines) /\ serialread \in Seq(AllLines)
  /\ known \in [Areas -> Statuses \cup {Unset}] /\ learnt \subseteq Zones
  /\ panel \in [Areas -> Statuses] /\ shown \in [Areas -> Statuses]
  /\ acts \in 0..MaxActs
  /\ faults \in 0..MaxFaults /\ lost \in Nat

\* What a user means by a command, if the daemon can do it at all.
Order(c) ==
  IF c.command = UTILITY_KEY
    THEN IF c.num \in 1..MaxUtilityKey THEN <<<<c.num, UTILITY_KEY>>>> ELSE << >>
  ELSE IF c.num \notin Areas THEN << >>
  ELSE IF c.command = "DISARM"
    THEN IF UserCode THEN <<<<c.num, "D">>>> ELSE << >>
    ELSE <<<<c.num, IF c.command = "ARM_AWAY" THEN "A" ELSE "S">>>>

OnTheWay(rs) ==
  FlattenSeq([i \in 1..Len(rs) |->
                IF IsCommand(rs[i]) THEN <<Meaning(rs[i])>> ELSE << >>])

PendingCommands ==
  OnTheWay(write)
    \o FlattenSeq([i \in 1..Len(commands) |-> Order(commands[i])])

\* Between the requests of the other threads and in spite of lost lines, the
\* commands reach the panel as CommandStream says; one is lost only when its
\* own write, or the one before it, was cut short.
Stream == INSTANCE CommandStream WITH
            Orders  <- (Areas \X Statuses) \cup ((1..MaxUtilityKey) \X {UTILITY_KEY}),
            pending <- PendingCommands

CommandsKept == Stream!Spec

\* Every command reaches the panel or is lost to a cut write: none waits for
\* ever behind lines, requests or a write that was cut.
CommandsArrive == PendingCommands # << >> ~> PendingCommands = << >>

\* Once the panel is left alone, the daemon comes to know the true status of
\* every area but the last, for good: events missed while the status was not
\* known, answers that were out of date, lines lost and requests spoiled are
\* all made up for by the periodic requests.
AreasConverge ==
  <>[](\A a \in Areas : a < MaxAreas => known[a] = panel[a])

\* While nothing is lost, the status of every zone but the last is learnt from
\* the one request that is made for it.
ZonesLearnt ==
  <>(faults > 0 \/ \A z \in Zones : z < MaxZones => z \in learnt)

-----------------------------------------------------------------------------
(***************************************************************************)
(* What the repository says of the daemon and the code does not do.        *)
(***************************************************************************)

\* The status of each area the daemon was given is learnt.  The responses of
\* the last area, MAX_AREAS, are not taken.
AreasReported == <>(\A a \in Areas : known[a] # Unset)

=============================================================================
