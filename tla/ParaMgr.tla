------------------------------- MODULE ParaMgr -------------------------------
(***************************************************************************)
(* The panel manager thread of para_mgr.c ("PMGR"): the records it keeps   *)
(* of every configured area and zone, how each event and each response of  *)
(* the PRT3 module changes them, and the reports it pushes to the MQTT     *)
(* thread.                                                                 *)
(*                                                                         *)
(* The records are written by this thread only, so one handler, with every *)
(* setter it calls and every report it sends, is one action.  A byte that  *)
(* memset() left at zero is Unset.  The bytes ready, programming and       *)
(* strobe of an area, and supervision and battery of a zone, are only      *)
(* copied from status responses into reports: one field, misc, stands for  *)
(* all of them.                                                            *)
(***************************************************************************)
EXTENDS Integers, Sequences

CONSTANTS
  MaxAreas,    \* MAX_AREAS: areas[] has MaxAreas entries
  MaxZones,    \* MAX_ZONES: zones[] has MaxZones entries
  Areas,       \* the areas given with -a: those whose entry is not NULL
  ZoneArea,    \* for each zone given with -z, the area it was assigned to
  Misc,        \* values of the bytes that are only copied
  Inputs,      \* the lines the serial thread may deliver
  MaxReports   \* bound: reports in flight to the MQTT thread

Zones == DOMAIN ZoneArea

Unset == "nul"
AreaStatus  == {"D", "A", "F", "S", "I", "E"}
ZoneStatus  == {"C", "O", "T", "F"}
PanelStates == {"disarmed", "armed_home", "armed_away", "triggered", "arming"}

(***************************************************************************)
(* What a line from the PRT3 says.  "G" is an event, "RA" and "RZ" the     *)
(* status responses, "AL" and "ZL" the label responses, "AD" the answer to *)
(* a disarm command; "other" is a line of any other type.                  *)
(***************************************************************************)
Events == [kind: {"G"}, group: Nat, num: Nat, area: Nat]
AreaStatusResponses ==
  [kind: {"RA"}, num: Nat, status: AreaStatus, alarm: {"O", "A"},
   memory: {"O", "M"}, trouble: {"O", "T"}, misc: Misc]
ZoneStatusResponses ==
  [kind: {"RZ"}, num: Nat, status: ZoneStatus, alarm: {"O", "A"},
   fire: {"O", "F"}, misc: Misc]
LabelResponses  == [kind: {"AL", "ZL"}, num: Nat]
DisarmResponses == [kind: {"AD"}, num: Nat, ok: BOOLEAN]
OtherLines      == [kind: {"other"}]

Messages ==
  Events \cup AreaStatusResponses \cup ZoneStatusResponses
    \cup LabelResponses \cup DisarmResponses \cup OtherLines

ASSUME SizesAssumption  == MaxAreas \in Nat /\ MaxZones \in Nat
ASSUME ConfigAssumption ==
  /\ Areas \subseteq 1..MaxAreas
  /\ Zones \subseteq 1..MaxZones
  /\ ZoneArea \in [Zones -> Areas]
ASSUME InputsAssumption == Inputs \subseteq Messages /\ Unset \notin Misc
ASSUME BoundAssumption  == MaxReports \in Nat

(***************************************************************************)
(* para_area_t and para_zone_t.                                            *)
(***************************************************************************)
AreaRecord ==
  [num: Areas, named: BOOLEAN, status: AreaStatus \cup {Unset},
   mqtt_state: PanelStates, memory: {"O", "M", Unset},
   trouble: {"O", "T", Unset}, alarm: {"O", "A", Unset},
   misc: Misc \cup {Unset}, firstreport: BOOLEAN, updated: BOOLEAN]

ZoneRecord ==
  [num: Zones, area: Areas, named: BOOLEAN, mqtt_state: {"off", "on"},
   status: ZoneStatus \cup {Unset}, alarm: {"O", "A", Unset},
   fire: {"O", "F", Unset}, misc: Misc \cup {Unset}, updated: BOOLEAN]

\* What para_mgr_set_area leaves: zeroes, which read as MQP_DISARMED.
para_mgr_set_area(a) ==
  [num |-> a, named |-> FALSE, status |-> Unset, mqtt_state |-> "disarmed",
   memory |-> Unset, trouble |-> Unset, alarm |-> Unset, misc |-> Unset,
   firstreport |-> TRUE, updated |-> FALSE]

\* What para_mgr_set_zone leaves: zeroes, which read as MQZ_OFF.
para_mgr_set_zone(z) ==
  [num |-> z, area |-> ZoneArea[z], named |-> FALSE, mqtt_state |-> "off",
   status |-> Unset, alarm |-> Unset, fire |-> Unset, misc |-> Unset,
   updated |-> FALSE]

VARIABLES
  areas,        \* areas[], for the configured areas
  zones,        \* zones[], for the configured zones
  areaReports,  \* the queue behind EPT_MQTT_AREA_REPORT
  zoneReports,  \* the queue behind EPT_MQTT_ZONE_REPORT
  lastArea,     \* history: the last report sent of each area
  lastZone,     \* history: the last report sent of each zone
  pmgr          \* "running", "exited" after a KILL, or "crashed"

vars == <<areas, zones, areaReports, zoneReports, lastArea, lastZone, pmgr>>

-----------------------------------------------------------------------------
(***************************************************************************)
(* The setters: every one writes its byte only if it differs, and then     *)
(* flags the record.  Applying several in a row flags the record exactly   *)
(* when any byte changed.                                                  *)
(***************************************************************************)
Flagged(old, new) == IF new = old THEN old ELSE [new EXCEPT !.updated = TRUE]

\* Mutant: a change of the memory byte does not flag the record.
Silent_area_set_memory(r, s) == [r EXCEPT !.memory = s]

area_set_status(r, s) == Flagged(r, [r EXCEPT !.status = s])
area_set_alarm(r, s)  == Flagged(r, [r EXCEPT !.alarm = s])
area_set_memory(r, s) == Flagged(r, [r EXCEPT !.memory = s])
area_set_trouble(r, s) == Flagged(r, [r EXCEPT !.trouble = s])

StateOf(status) ==
  CASE status = "D" -> "disarmed"
    [] status = "S" -> "armed_home"
    [] status = "E" -> "arming"
    [] status \in {"A", "F", "I"} -> "armed_away"

\* A status byte that is none of the switch leaves mqtt_state as it was.
area_update_mqtt_state(r) ==
  IF r.alarm = "A" THEN [r EXCEPT !.mqtt_state = "triggered"]
  ELSE IF r.status \in AreaStatus
         THEN [r EXCEPT !.mqtt_state = StateOf(r.status)]
         ELSE r

\* Mutant: a change of the fire byte does not flag the record.
Silent_zone_set_fire(r, s) == [r EXCEPT !.fire = s]

zone_set_status(r, s) == Flagged(r, [r EXCEPT !.status = s])
zone_set_alarm(r, s)  == Flagged(r, [r EXCEPT !.alarm = s])
zone_set_fire(r, s)   == Flagged(r, [r EXCEPT !.fire = s])

zone_update_mqtt_state(r) ==
  [r EXCEPT !.mqtt_state =
     IF r.status = "C" /\ r.alarm = "O" /\ r.fire = "O" THEN "off" ELSE "on"]

\* Mutant: the state is derived before the bytes are stored.
Early_update_area_record(r, m) ==
  Flagged(r, [area_update_mqtt_state(r)
                EXCEPT !.status = m.status, !.alarm = m.alarm,
                       !.memory = m.memory, !.trouble = m.trouble,
                       !.misc = m.misc])

\* Mutant: the bytes memory and trouble are read from each other's place.
Swapped_update_area_record(r, m) ==
  area_update_mqtt_state(
    Flagged(r, [r EXCEPT !.status = m.status, !.alarm = m.alarm,
                         !.memory = m.trouble, !.trouble = m.memory,
                         !.misc = m.misc]))

update_area_record(r, m) ==
  area_update_mqtt_state(
    Flagged(r, [r EXCEPT !.status = m.status, !.alarm = m.alarm,
                         !.memory = m.memory, !.trouble = m.trouble,
                         !.misc = m.misc]))

\* Mutant: the state is derived before the bytes are stored.
Early_update_zone_record(r, m) ==
  Flagged(r, [zone_update_mqtt_state(r)
                EXCEPT !.status = m.status, !.alarm = m.alarm,
                       !.fire = m.fire, !.misc = m.misc])

update_zone_record(r, m) ==
  zone_update_mqtt_state(
    Flagged(r, [r EXCEPT !.status = m.status, !.alarm = m.alarm,
                         !.fire = m.fire, !.misc = m.misc]))

\* The area of a zone in alarm: its alarm byte is set, its mqtt_state is not.
zone_update_area_alarm(r, zone) ==
  IF zone.alarm = "A" /\ r.alarm = "O"
    THEN [r EXCEPT !.alarm = "A", !.updated = TRUE]
    ELSE r

\* set_label writes LABEL_LENGTH + 1 bytes: in para_area_t the last of them
\* is the byte status.
SetAreaLabel(r) == [r EXCEPT !.named = TRUE, !.status = Unset]
\* In para_zone_t it is padding.
SetZoneLabel(r) == [r EXCEPT !.named = TRUE]

(***************************************************************************)
(* send_area_report and send_zone_report: a flagged record is copied into  *)
(* a message and its flags are cleared; a clear one is left alone.         *)
(***************************************************************************)
Message(r) == IF r.updated THEN <<r>> ELSE << >>

AreaSent(r) ==
  IF r.updated THEN [r EXCEPT !.updated = FALSE, !.firstreport = FALSE] ELSE r

ZoneSent(r) == [r EXCEPT !.updated = FALSE]

send_area_report(r) ==
  /\ areas' = [areas EXCEPT ![r.num] = AreaSent(r)]
  /\ areaReports' = areaReports \o Message(r)
  /\ lastArea' = IF r.updated THEN [lastArea EXCEPT ![r.num] = r] ELSE lastArea

send_zone_report(r) ==
  /\ zones' = [zones EXCEPT ![r.num] = ZoneSent(r)]
  /\ zoneReports' = zoneReports \o Message(r)
  /\ lastZone' = IF r.updated THEN [lastZone EXCEPT ![r.num] = r] ELSE lastZone

AreasUnchanged == UNCHANGED <<areas, areaReports, lastArea>>
ZonesUnchanged == UNCHANGED <<zones, zoneReports, lastZone>>

-----------------------------------------------------------------------------
(***************************************************************************)
(* para_process_prt3_event.                                                *)
(***************************************************************************)
ZoneStatusGroups   == 0..3
ArmingGroups       == 9..12
DisarmGroups       == 13..22
ZoneAlarmGroups    == {24, 25}
ZoneRestoreGroups  == {26, 27}
STATUS_1           == 64
STATUS_2           == 65

\* The two early returns: a zone event without a zone, and an area that
\* areas[] has no entry for.
Accepted(m) ==
  /\ ~(m.group \in (0..3) \cup (23..27) /\ m.num < 1)
  /\ m.area \in 1..MaxAreas

\* The events whose handling reads or writes *zones[event_num - 1].
TouchesZone(m) ==
  m.group \in ZoneStatusGroups \cup ZoneAlarmGroups \cup ZoneRestoreGroups

\* The events whose handling reads or writes *areas[area_num - 1].
TouchesArea(m) ==
  \/ m.group \in ArmingGroups \cup DisarmGroups \cup ZoneAlarmGroups
  \/ m.group = STATUS_1 /\ m.num \in 0..7
  \/ m.group = STATUS_2 /\ m.num \in {1, 3, 4}

\* An entry that was never configured is NULL, a zone above MaxZones lies past
\* the end of zones[]; neither is tested for.
NullEntry(m) ==
  \/ TouchesZone(m) /\ m.num \notin Zones
  \/ TouchesArea(m) /\ m.area \notin Areas

Usable(m) == m.kind = "G" /\ Accepted(m) /\ ~NullEntry(m)

ZoneByEvent(r, m) ==
  zone_update_mqtt_state(
    CASE m.group \in ZoneStatusGroups ->
           zone_set_status(r, <<"C", "O", "T", "F">>[m.group + 1])
      [] m.group = 24 -> zone_set_alarm(r, "A")
      [] m.group = 25 -> zone_set_fire(r, "F")
      [] m.group = 26 -> zone_set_alarm(r, "O")
      [] OTHER        -> zone_set_fire(r, "O"))

\* G_ZONE_OK .. G_ZONE_FIRE_LOOP, G_ZONE_ALARM_RESTORE, G_ZONE_FIRE_RESTORE
ZoneEvent(m) ==
  /\ Usable(m)
  /\ m.group \in ZoneStatusGroups \cup ZoneRestoreGroups
  /\ send_zone_report(ZoneByEvent(zones[m.num], m))
  /\ AreasUnchanged
  /\ UNCHANGED pmgr

\* G_ZONE_IN_ALARM, G_ZONE_FIRE_ALARM
ZoneAlarmEvent(m) ==
  /\ Usable(m)
  /\ m.group \in ZoneAlarmGroups
  /\ send_zone_report(ZoneByEvent(zones[m.num], m))
  /\ send_area_report(area_update_mqtt_state(area_set_alarm(areas[m.area], "A")))
  /\ UNCHANGED pmgr

\* Mutant: a stay-armed area is armed over by the arming event that follows.
AnyStatus_ArmingEvent(m) ==
  /\ Usable(m)
  /\ m.group \in ArmingGroups
  /\ send_area_report(area_update_mqtt_state(
       area_set_status(areas[m.area],
         IF m.group = 12 /\ m.num = 4 THEN "S" ELSE "A")))
  /\ ZonesUnchanged
  /\ UNCHANGED pmgr

\* G_ARMING_WITH_MASTER .. G_SPECIAL_ARMING, of an area not yet armed
ArmingEvent(m) ==
  /\ Usable(m)
  /\ m.group \in ArmingGroups
  /\ areas[m.area].status \in {"D", "E"}
  /\ send_area_report(area_update_mqtt_state(
       area_set_status(areas[m.area],
         IF m.group = 12 /\ m.num = 4 THEN "S" ELSE "A")))
  /\ ZonesUnchanged
  /\ UNCHANGED pmgr

\* Mutant: a disarm event also takes the area out of alarm.
Clearing_DisarmEvent(m) ==
  /\ Usable(m)
  /\ m.group \in DisarmGroups
  /\ send_area_report(area_update_mqtt_state(
       area_set_alarm(area_set_status(areas[m.area], "D"), "O")))
  /\ ZonesUnchanged
  /\ UNCHANGED pmgr

\* G_DISARM_WITH_MASTER .. G_SPECIAL_DISARM
DisarmEvent(m) ==
  /\ Usable(m)
  /\ m.group \in DisarmGroups
  /\ send_area_report(area_update_mqtt_state(
       area_set_status(areas[m.area], "D")))
  /\ ZonesUnchanged
  /\ UNCHANGED pmgr

\* G_STATUS_1
Status1Event(m) ==
  /\ Usable(m)
  /\ m.group = STATUS_1 /\ m.num \in 0..7
  /\ send_area_report(area_update_mqtt_state(
       IF m.num = 2 THEN area_set_status(areas[m.area], "S")
       ELSE IF m.num < 4 THEN area_set_status(areas[m.area], "A")
       ELSE area_set_alarm(areas[m.area], "A")))
  /\ ZonesUnchanged
  /\ UNCHANGED pmgr

\* G_STATUS_2, event 1: the exit delay of a disarmed area is reported, and
\* the case falls through into that of event 3, which reports a trouble.
ExitDelayEvent(m) ==
  /\ Usable(m)
  /\ m.group = STATUS_2 /\ m.num = 1
  /\ LET r == areas[m.area]
         first == IF r.status = "D"
                    THEN area_update_mqtt_state(area_set_status(r, "E"))
                    ELSE r
         second == area_update_mqtt_state(area_set_trouble(AreaSent(first), "T"))
     IN /\ areas' = [areas EXCEPT ![m.area] = AreaSent(second)]
        /\ areaReports' = areaReports \o Message(first) \o Message(second)
        /\ lastArea' = IF second.updated
                         THEN [lastArea EXCEPT ![m.area] = second]
                         ELSE IF first.updated
                           THEN [lastArea EXCEPT ![m.area] = first]
                           ELSE lastArea
  /\ ZonesUnchanged
  /\ UNCHANGED pmgr

\* G_STATUS_2, events 3 (system in trouble) and 4 (alarm in memory)
Status2Event(m) ==
  /\ Usable(m)
  /\ m.group = STATUS_2 /\ m.num \in {3, 4}
  /\ send_area_report(area_update_mqtt_state(
       IF m.num = 3 THEN area_set_trouble(areas[m.area], "T")
                    ELSE area_set_memory(areas[m.area], "M")))
  /\ ZonesUnchanged
  /\ UNCHANGED pmgr

\* The dereference of an entry that is not there.  Nothing is claimed of the
\* process once it has happened: for a NULL entry the process is killed.
NullEntryEvent(m) ==
  /\ m.kind = "G" /\ Accepted(m) /\ NullEntry(m)
  /\ pmgr' = "crashed"
  /\ AreasUnchanged
  /\ ZonesUnchanged

-----------------------------------------------------------------------------
(***************************************************************************)
(* para_process_prt3_response.  The bound checks are strict: the last area *)
(* and the last zone of the arrays are never found.                        *)
(***************************************************************************)
KnownArea(n) == n > 0 /\ n < MaxAreas /\ n \in Areas
KnownZone(n) == n > 0 /\ n < MaxZones /\ n \in Zones

AreaStatusResponse(m) ==
  /\ m.kind = "RA" /\ KnownArea(m.num)
  /\ send_area_report(update_area_record(areas[m.num], m))
  /\ ZonesUnchanged
  /\ UNCHANGED pmgr

\* Mutant: the report of the zone's area is forgotten.
ZoneOnly_ZoneStatusResponse(m) ==
  /\ m.kind = "RZ" /\ KnownZone(m.num)
  /\ LET zone == update_zone_record(zones[m.num], m)
     IN /\ send_zone_report(zone)
        /\ areas' = [areas EXCEPT ![zone.area] = zone_update_area_alarm(@, zone)]
  /\ UNCHANGED <<areaReports, lastArea, pmgr>>

\* Mutant: the area whose number is the zone's is put into alarm.
ByNumber_ZoneStatusResponse(m) ==
  /\ m.kind = "RZ" /\ KnownZone(m.num)
  /\ LET zone == update_zone_record(zones[m.num], m)
     IN /\ send_zone_report(zone)
        /\ send_area_report(zone_update_area_alarm(areas[m.num], zone))
  /\ UNCHANGED pmgr

ZoneStatusResponse(m) ==
  /\ m.kind = "RZ" /\ KnownZone(m.num)
  /\ LET zone == update_zone_record(zones[m.num], m)
     IN /\ send_zone_report(zone)
        /\ send_area_report(zone_update_area_alarm(areas[zone.area], zone))
  /\ UNCHANGED pmgr

AreaLabelResponse(m) ==
  /\ m.kind = "AL" /\ KnownArea(m.num)
  /\ areas' = [areas EXCEPT ![m.num] = SetAreaLabel(@)]
  /\ UNCHANGED <<areaReports, lastArea>>
  /\ ZonesUnchanged
  /\ UNCHANGED pmgr

ZoneLabelResponse(m) ==
  /\ m.kind = "ZL" /\ KnownZone(m.num)
  /\ zones' = [zones EXCEPT ![m.num] = SetZoneLabel(@)]
  /\ UNCHANGED <<zoneReports, lastZone>>
  /\ AreasUnchanged
  /\ UNCHANGED pmgr

DisarmResponse(m) ==
  /\ m.kind = "AD" /\ KnownArea(m.num) /\ m.ok
  /\ send_area_report(area_update_mqtt_state(
       area_set_status(areas[m.num], "D")))
  /\ ZonesUnchanged
  /\ UNCHANGED pmgr

-----------------------------------------------------------------------------
\* The lines that are logged and dropped.
Ignored(m) ==
  /\ CASE m.kind = "G" ->
            \/ ~Accepted(m)
            \/ ~TouchesZone(m) /\ ~TouchesArea(m)
            \/ /\ Usable(m)
               /\ m.group \in ArmingGroups
               /\ areas[m.area].status \notin {"D", "E"}
       [] m.kind \in {"RA", "AL"} -> ~KnownArea(m.num)
       [] m.kind \in {"RZ", "ZL"} -> ~KnownZone(m.num)
       [] m.kind = "AD" -> ~KnownArea(m.num) \/ ~m.ok
       [] OTHER -> TRUE
  /\ UNCHANGED vars

\* One line taken from the serial thread.
Handle(m) ==
  /\ pmgr = "running"
  /\ \/ ZoneEvent(m)
     \/ ZoneAlarmEvent(m)
     \/ ArmingEvent(m)
     \/ DisarmEvent(m)
     \/ Status1Event(m)
     \/ ExitDelayEvent(m)
     \/ Status2Event(m)
     \/ NullEntryEvent(m)
     \/ AreaStatusResponse(m)
     \/ ZoneStatusResponse(m)
     \/ AreaLabelResponse(m)
     \/ ZoneLabelResponse(m)
     \/ DisarmResponse(m)
     \/ Ignored(m)

\* The bound MaxReports: a handler starts only when what it may send fits,
\* two reports at most.
Room == Len(areaReports) + 2 <= MaxReports /\ Len(zoneReports) + 2 <= MaxReports

Kill ==
  /\ pmgr = "running"
  /\ pmgr' = "exited"
  /\ AreasUnchanged
  /\ ZonesUnchanged

\* The MQTT thread takes the oldest report of either queue.
TakeAreaReport ==
  /\ areaReports # << >>
  /\ areaReports' = Tail(areaReports)
  /\ UNCHANGED <<areas, zones, zoneReports, lastArea, lastZone, pmgr>>

TakeZoneReport ==
  /\ zoneReports # << >>
  /\ zoneReports' = Tail(zoneReports)
  /\ UNCHANGED <<areas, zones, areaReports, lastArea, lastZone, pmgr>>

Init ==
  /\ areas = [a \in Areas |-> para_mgr_set_area(a)]
  /\ zones = [z \in Zones |-> para_mgr_set_zone(z)]
  /\ areaReports = << >>
  /\ zoneReports = << >>
  /\ lastArea = [a \in Areas |-> para_mgr_set_area(a)]
  /\ lastZone = [z \in Zones |-> para_mgr_set_zone(z)]
  /\ pmgr = "running"

Next ==
  \/ Room /\ \E m \in Inputs : Handle(m)
  \/ Kill
  \/ TakeAreaReport
  \/ TakeZoneReport

Spec == Init /\ [][Next]_vars

-----------------------------------------------------------------------------
(***************************************************************************)
(* What holds of the thread.                                               *)
(***************************************************************************)

\* Every variable keeps to its type: records hold only the bytes the PRT3
\* sends, and reports in flight are copies of records.
TypeOK ==
  /\ areas \in [Areas -> AreaRecord]
  /\ zones \in [Zones -> ZoneRecord]
  /\ areaReports \in Seq(AreaRecord)
  /\ zoneReports \in Seq(ZoneRecord)
  /\ lastArea \in [Areas -> AreaRecord]
  /\ lastZone \in [Zones -> ZoneRecord]
  /\ pmgr \in {"running", "exited", "crashed"}

\* No change is left waiting for a later line: between two lines no record is
\* flagged, whichever handler flagged it and whichever area it touched.
NothingPending ==
  /\ \A a \in Areas : ~areas[a].updated
  /\ \A z \in Zones : ~zones[z].updated

\* "triggered" comes with the alarm byte, and without it an area whose status
\* byte is known has the state that byte stands for.
AreaSound(r) ==
  /\ r.mqtt_state = "triggered" => r.alarm = "A"
  /\ r.alarm # "A" /\ r.status # Unset => r.mqtt_state = StateOf(r.status)

\* No report in flight shows a phantom alarm, or an armed or disarmed state
\* its own status byte contradicts (area_update_mqtt_state runs last).
AreaReportsSound ==
  \A i \in 1..Len(areaReports) : AreaSound(areaReports[i])

\* "It is set to `on` if zone: is open, is tampered, is on fire loop trouble"
\* (README.md:127-130): of a zone whose record is in one of these states the
\* last report said "on", whichever line told of it.
ZonesOpenShown ==
  \A z \in Zones :
    zones[z].status \in {"O", "T", "F"} => lastZone[z].mqtt_state = "on"

\* The last report sent of an area carries the bytes its record now has:
\* nothing the PRT3 said is kept back.  Two gaps of the code are left out:
\* a label erases the status byte, and an alarm learnt from a zone does not
\* change mqtt_state at once.
LastAreaReportCurrent ==
  \A a \in Areas :
    LET r == areas[a]
        l == lastArea[a]
    IN /\ <<l.alarm, l.memory, l.trouble, l.misc>>
            = <<r.alarm, r.memory, r.trouble, r.misc>>
       /\ r.status # Unset => l.status = r.status
       /\ r.alarm # "A" => l.mqtt_state = r.mqtt_state

\* The last report sent of a zone carries everything its record now has.
LastZoneReportCurrent ==
  \A z \in Zones :
    LET r == zones[z]
        l == lastZone[z]
    IN <<l.status, l.alarm, l.fire, l.misc, l.mqtt_state>>
         = <<r.status, r.alarm, r.fire, r.misc, r.mqtt_state>>

\* An area is put into alarm by an alarm of its own or of a zone that -z
\* assigned to it, never by one of another area.
AlarmStep ==
  \A a \in Areas :
    areas[a].alarm # "A" /\ areas'[a].alarm = "A"
      => \A m \in Inputs : Handle(m) =>
           \/ /\ m.kind = "G" /\ m.area = a
              /\ \/ m.group \in ZoneAlarmGroups
                 \/ m.group = STATUS_1 /\ m.num \in 4..7
           \/ m.kind = "RA" /\ m.num = a /\ m.alarm = "A"
           \/ /\ m.kind = "RZ" /\ m.alarm = "A"
              /\ m.num \in Zones /\ ZoneArea[m.num] = a
AlarmHasCause == [][AlarmStep]_vars

\* Only a status response of the area itself, which shows it out of alarm,
\* takes it out of "triggered": no event, no answer to a disarm command, no
\* response of a zone or of another area dismisses an alarm.
DismissalStep ==
  \A a \in Areas :
    areas[a].mqtt_state = "triggered" /\ areas'[a].mqtt_state # "triggered"
      => \A m \in Inputs : Handle(m) => m.kind = "RA" /\ m.num = a /\ m.alarm = "O"
AlarmEndsByStatusResponse == [][DismissalStep]_vars

\* The arming event the panel sends after it reported a stay arm does not
\* turn "armed_home" into "armed_away", nor does the exit delay turn it into
\* "arming": only the panel's own status does.
StayArmStep ==
  \A a \in Areas :
    /\ areas[a].mqtt_state = "armed_home"
    /\ areas'[a].mqtt_state \in {"armed_away", "arming"}
    => \A m \in Inputs : Handle(m) =>
         m.kind = "RA" \/ (m.kind = "G" /\ m.group = STATUS_1)
StayArmKept == [][StayArmStep]_vars

-----------------------------------------------------------------------------
(***************************************************************************)
(* What the repository says of the thread and the code does not do.        *)
(***************************************************************************)

\* An area whose report shows the alarm byte is reported "triggered".
AlarmReportedTriggered ==
  \A i \in 1..Len(areaReports) :
    areaReports[i].alarm = "A" => areaReports[i].mqtt_state = "triggered"

\* A zone is reported "on" only if it is open, tampered or on fire loop
\* trouble (README.md:127-130); its alarm has a topic of its own (134).
ZonesOnAsDocumented ==
  \A i \in 1..Len(zoneReports) :
    zoneReports[i].mqtt_state = "on" => zoneReports[i].status \in {"O", "T", "F"}

=============================================================================
