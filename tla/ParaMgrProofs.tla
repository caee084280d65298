---------------------------- MODULE ParaMgrProofs ----------------------------
(***************************************************************************)
(* Theorems about ParaMgr, for every choice of areas, zones and lines.     *)
(*                                                                         *)
(* An area record is only ever changed by storing bytes, deriving          *)
(* mqtt_state and sending the report; AreaStep says what one such change   *)
(* does, AreaInv what it keeps, and the lemma AreaSend that it keeps it.   *)
(* The zones follow the same plan.                                         *)
(***************************************************************************)
EXTENDS ParaMgr, TLAPS

\* What is known of a record of an area whose number is a.
AreaKept(r, a) == r \in AreaRecord /\ r.num = a /\ AreaSound(r)

\* The last report l of an area shows what its record r holds.
AreaTold(r, l) ==
  /\ l \in AreaRecord
  /\ l.alarm = r.alarm /\ l.memory = r.memory
  /\ l.trouble = r.trouble /\ l.misc = r.misc
  /\ r.status # Unset => l.status = r.status
  /\ r.alarm # "A" => l.mqtt_state = r.mqtt_state

\* The invariant of the areas A, the reports Q in flight, the last reports L.
AreaInv(A, Q, L) ==
  /\ A \in [Areas -> AreaRecord] /\ L \in [Areas -> AreaRecord]
  /\ \A a \in Areas : AreaKept(A[a], a) /\ ~A[a].updated /\ AreaTold(A[a], L[a])
  /\ Q \in Seq(AreaRecord)
  /\ \A i \in 1..Len(Q) : AreaSound(Q[i])

\* A handler turns the record r of area a into s, and flags every change but
\* one: the mqtt_state of an area whose alarm was learnt from a zone.
AreaStep(r, s, a) ==
  /\ AreaKept(s, a)
  /\ ~s.updated =>
       s = r \/ (r.alarm = "A" /\ s = [r EXCEPT !.mqtt_state = "triggered"])

\* The state derived from the bytes of a zone.
ZoneSound(r) ==
  r.mqtt_state = "off" <=> r.status = "C" /\ r.alarm = "O" /\ r.fire = "O"

\* Before the first byte is stored, a zone's mqtt_state is not derived.
ZoneKept(r, z) ==
  /\ r \in ZoneRecord /\ r.num = z /\ r.area = ZoneArea[z]
  /\ \/ ZoneSound(r)
     \/ r.status = Unset /\ r.alarm = Unset /\ r.fire = Unset

ZoneTold(r, l) ==
  /\ l \in ZoneRecord
  /\ l.status = r.status /\ l.alarm = r.alarm /\ l.fire = r.fire
  /\ l.misc = r.misc /\ l.mqtt_state = r.mqtt_state

ZoneInv(Z, Q, L) ==
  /\ Z \in [Zones -> ZoneRecord] /\ L \in [Zones -> ZoneRecord]
  /\ \A z \in Zones : ZoneKept(Z[z], z) /\ ~Z[z].updated /\ ZoneTold(Z[z], L[z])
  /\ Q \in Seq(ZoneRecord)

ZoneStep(r, s, z) ==
  /\ s \in ZoneRecord /\ s.num = z /\ s.area = ZoneArea[z]
  /\ ZoneSound(s)
  /\ ~s.updated => s = r

IInv ==
  /\ AreaInv(areas, areaReports, lastArea)
  /\ ZoneInv(zones, zoneReports, lastZone)
  /\ pmgr \in {"running", "exited", "crashed"}

-----------------------------------------------------------------------------
\* One more sound report at the end of a queue.
LEMMA AreaAppend ==
  ASSUME NEW Q \in Seq(AreaRecord), \A i \in 1..Len(Q) : AreaSound(Q[i]),
         NEW r \in AreaRecord, AreaSound(r)
  PROVE  /\ Q \o Message(r) \in Seq(AreaRecord)
         /\ \A i \in 1..Len(Q \o Message(r)) : AreaSound((Q \o Message(r))[i])
<1>1. CASE ~r.updated
  <2>1. Q \o Message(r) = Q
    BY <1>1 DEF Message
  <2>. QED BY <2>1
<1>2. CASE r.updated
  <2>1. Message(r) = <<r>>
    BY <1>2 DEF Message
  <2>2. <<r>> \in Seq(AreaRecord)
    OBVIOUS
  <2>3. \A i \in 1..Len(Q \o <<r>>) :
          (Q \o <<r>>)[i] = IF i <= Len(Q) THEN Q[i] ELSE r
    OBVIOUS
  <2>4. Q \o <<r>> \in Seq(AreaRecord)
    BY <2>2
  <2>5. Len(Q \o <<r>>) = Len(Q) + 1
    OBVIOUS
  <2>6. \A i \in 1..Len(Q \o <<r>>) : AreaSound((Q \o <<r>>)[i])
    BY <2>3, <2>5
  <2>. QED BY <2>1, <2>4, <2>6
<1>. QED BY <1>1, <1>2

\* Sending the report of a record that a handler changed keeps AreaInv.
LEMMA AreaSend ==
  ASSUME NEW A, NEW Q, NEW L, AreaInv(A, Q, L),
         NEW a \in Areas, NEW s, AreaStep(A[a], s, a)
  PROVE  AreaInv([A EXCEPT ![a] = AreaSent(s)], Q \o Message(s),
                 IF s.updated THEN [L EXCEPT ![a] = s] ELSE L)
<1>. DEFINE A2 == [A EXCEPT ![a] = AreaSent(s)]
            L2 == IF s.updated THEN [L EXCEPT ![a] = s] ELSE L
<1>1. s \in AreaRecord /\ s.num = a /\ AreaSound(s)
  BY DEF AreaStep, AreaKept
<1>2. /\ AreaSent(s) \in AreaRecord /\ AreaSent(s).num = a
      /\ AreaSound(AreaSent(s)) /\ ~AreaSent(s).updated
  BY <1>1 DEF AreaSent, AreaRecord, AreaSound
<1>3. A2 \in [Areas -> AreaRecord] /\ L2 \in [Areas -> AreaRecord]
  BY <1>1, <1>2 DEF AreaInv
<1>4. \A b \in Areas : AreaKept(A2[b], b) /\ ~A2[b].updated /\ AreaTold(A2[b], L2[b])
  <2>. SUFFICES ASSUME NEW b \in Areas
                PROVE  AreaKept(A2[b], b) /\ ~A2[b].updated /\ AreaTold(A2[b], L2[b])
    OBVIOUS
  <2>1. CASE b # a
    BY <2>1 DEF AreaInv
  <2>2. CASE b = a /\ s.updated
    <3>1. A2[b] = AreaSent(s) /\ L2[b] = s
      BY <2>2 DEF AreaInv
    <3>2. AreaTold(AreaSent(s), s)
      BY <1>1, <2>2 DEF AreaTold, AreaSent, AreaRecord
    <3>. QED BY <2>2, <3>1, <3>2, <1>2 DEF AreaKept
  <2>3. CASE b = a /\ ~s.updated
    <3>1. A2[b] = s /\ L2[b] = L[a]
      BY <2>3 DEF AreaInv, AreaSent
    <3>2. AreaTold(A[a], L[a]) /\ A[a] \in AreaRecord
      BY DEF AreaInv
    <3>3. AreaTold(s, L[a])
      BY <2>3, <3>2 DEF AreaStep, AreaTold, AreaRecord
    <3>. QED BY <2>3, <3>1, <3>3, <1>1 DEF AreaKept
  <2>. QED BY <2>1, <2>2, <2>3
<1>5. /\ Q \o Message(s) \in Seq(AreaRecord)
      /\ \A i \in 1..Len(Q \o Message(s)) : AreaSound((Q \o Message(s))[i])
  BY <1>1, AreaAppend DEF AreaInv
<1>. QED BY <1>3, <1>4, <1>5 DEF AreaInv

\* What update_area_record and the area setters have in common: bytes are
\* stored, the record is flagged if they differ, mqtt_state is derived.
AreaStored(r, n, a) ==
  /\ n \in AreaRecord /\ n.num = a
  /\ n.mqtt_state = r.mqtt_state /\ ~n.updated
  /\ n.status # Unset \/ n.status = r.status
  /\ r.alarm = "A" /\ n.alarm # "A" => n.status # Unset

\* The state derived from the bytes fits them.
LEMMA AreaDerive ==
  ASSUME NEW a \in Areas, NEW r, AreaKept(r, a), ~r.updated,
         NEW n, AreaStored(r, n, a)
  PROVE  AreaStep(r, area_update_mqtt_state(Flagged(r, n)), a)
<1>. DEFINE f == Flagged(r, n)
            s == area_update_mqtt_state(f)
<1>1. r \in AreaRecord /\ n \in AreaRecord /\ n.num = a /\ r.num = a
  BY DEF AreaKept, AreaStored
<1>2. f \in AreaRecord /\ f.num = a /\ f.mqtt_state = r.mqtt_state
        /\ f.alarm = n.alarm /\ f.status = n.status /\ (~f.updated => f = r)
  BY <1>1 DEF Flagged, AreaRecord, AreaStored
<1>3. /\ \A x \in AreaStatus : StateOf(x) \in PanelStates \ {"triggered"}
      /\ f.status \in AreaStatus <=> f.status # Unset
      /\ r.status \in AreaStatus <=> r.status # Unset
  <2>1. \A x \in AreaStatus : StateOf(x) \in PanelStates \ {"triggered"}
    BY DEF StateOf, PanelStates, AreaStatus
  <2>2. \A x \in AreaRecord : x.status \in AreaStatus <=> x.status # Unset
    BY DEF AreaRecord, AreaStatus, Unset
  <2> QED
    BY <1>1, <1>2, <2>1, <2>2
<1>4. s \in AreaRecord
  BY <1>2, <1>3 DEF area_update_mqtt_state, AreaRecord, PanelStates
<1>5. s.num = a /\ s.alarm = f.alarm /\ s.status = f.status /\ s.updated = f.updated
  BY <1>2 DEF area_update_mqtt_state, AreaRecord
<1>6. AreaSound(s)
  <2>1. CASE f.alarm = "A"
    BY <2>1, <1>5 DEF AreaSound
  <2>2. CASE f.alarm # "A" /\ f.status # Unset
    <3>1. s.mqtt_state = StateOf(f.status)
      BY <2>2, <1>2, <1>3 DEF area_update_mqtt_state, AreaRecord
    <3>. QED BY <2>2, <3>1, <1>3, <1>5 DEF AreaSound
  <2>3. CASE f.alarm # "A" /\ f.status = Unset
    <3>1. s.mqtt_state = r.mqtt_state
      BY <2>3, <1>2, <1>3 DEF area_update_mqtt_state
    <3>2. r.mqtt_state # "triggered"
      BY <2>3, <1>2 DEF AreaStored, AreaKept, AreaSound
    <3>. QED BY <2>3, <3>1, <3>2, <1>5 DEF AreaSound
  <2>. QED BY <2>1, <2>2, <2>3
<1>7. ~s.updated =>
        s = r \/ (r.alarm = "A" /\ s = [r EXCEPT !.mqtt_state = "triggered"])
  <2>. SUFFICES ASSUME ~s.updated
                PROVE  s = r \/ (r.alarm = "A" /\ s = [r EXCEPT !.mqtt_state = "triggered"])
    OBVIOUS
  <2>1. f = r
    BY <1>2, <1>5
  <2>2. CASE r.alarm = "A"
    BY <2>1, <2>2 DEF area_update_mqtt_state
  <2>3. CASE r.alarm # "A" /\ r.status = Unset
    BY <2>1, <2>3, <1>3 DEF area_update_mqtt_state
  <2>4. CASE r.alarm # "A" /\ r.status # Unset
    <3>1. r.mqtt_state = StateOf(r.status)
      BY <2>4 DEF AreaKept, AreaSound
    <3>2. s = [r EXCEPT !.mqtt_state = r.mqtt_state]
      BY <2>1, <2>4, <3>1, <1>3 DEF area_update_mqtt_state
    <3>. QED BY <3>2, <1>1 DEF AreaRecord
  <2>. QED BY <2>2, <2>3, <2>4
<1>. QED BY <1>4, <1>5, <1>6, <1>7, <1>2 DEF AreaStep, AreaKept

-----------------------------------------------------------------------------
\* Sending the result of a step of a zone keeps ZoneInv.
LEMMA ZoneSend ==
  ASSUME NEW Z, NEW Q, NEW L, ZoneInv(Z, Q, L),
         NEW z \in Zones, NEW s, ZoneStep(Z[z], s, z)
  PROVE  ZoneInv([Z EXCEPT ![z] = ZoneSent(s)], Q \o Message(s),
                 IF s.updated THEN [L EXCEPT ![z] = s] ELSE L)
<1>. DEFINE Z2 == [Z EXCEPT ![z] = ZoneSent(s)]
            L2 == IF s.updated THEN [L EXCEPT ![z] = s] ELSE L
<1>1. s \in ZoneRecord /\ s.num = z /\ s.area = ZoneArea[z] /\ ZoneSound(s)
  BY DEF ZoneStep
<1>2. /\ ZoneSent(s) \in ZoneRecord /\ ZoneSent(s).num = z
      /\ ZoneSent(s).area = ZoneArea[z]
      /\ ZoneSound(ZoneSent(s)) /\ ~ZoneSent(s).updated
  BY <1>1 DEF ZoneSent, ZoneRecord, ZoneSound
<1>3. Z2 \in [Zones -> ZoneRecord] /\ L2 \in [Zones -> ZoneRecord]
  BY <1>1, <1>2 DEF ZoneInv
<1>4. \A y \in Zones : ZoneKept(Z2[y], y) /\ ~Z2[y].updated /\ ZoneTold(Z2[y], L2[y])
  <2>. SUFFICES ASSUME NEW y \in Zones
                PROVE  ZoneKept(Z2[y], y) /\ ~Z2[y].updated /\ ZoneTold(Z2[y], L2[y])
    OBVIOUS
  <2>1. CASE y # z
    BY <2>1 DEF ZoneInv
  <2>2. CASE y = z /\ s.updated
    <3>1. Z2[y] = ZoneSent(s) /\ L2[y] = s
      BY <2>2 DEF ZoneInv
    <3>2. ZoneTold(ZoneSent(s), s)
      BY <1>1 DEF ZoneTold, ZoneSent, ZoneRecord
    <3>. QED BY <2>2, <3>1, <3>2, <1>2 DEF ZoneKept
  <2>3. CASE y = z /\ ~s.updated
    <3>1. s = Z[z]
      BY <2>3 DEF ZoneStep
    <3>2. ZoneSent(s) = s
      BY <1>1, <2>3 DEF ZoneSent, ZoneRecord
    <3>3. Z2[y] = Z[z] /\ L2[y] = L[z]
      BY <2>3, <3>1, <3>2 DEF ZoneInv
    <3>. QED BY <2>3, <3>3 DEF ZoneInv
  <2>. QED BY <2>1, <2>2, <2>3
<1>5. Q \o Message(s) \in Seq(ZoneRecord)
  BY <1>1 DEF ZoneInv, Message
<1>. QED BY <1>3, <1>4, <1>5 DEF ZoneInv

\* What update_zone_record and the zone setters have in common: at least one
\* byte is stored that is not zero, or none that mqtt_state depends on.
ZoneStored(r, n, z) ==
  /\ n \in ZoneRecord /\ n.num = z /\ n.area = ZoneArea[z]
  /\ n.mqtt_state = r.mqtt_state /\ ~n.updated
  /\ n.status # Unset \/ n.alarm # Unset \/ n.fire # Unset

\* The state derived from the bytes of a zone fits them.
LEMMA ZoneDerive ==
  ASSUME NEW z \in Zones, NEW r, ZoneKept(r, z), ~r.updated,
         NEW n, ZoneStored(r, n, z)
  PROVE  ZoneStep(r, zone_update_mqtt_state(Flagged(r, n)), z)
<1>. DEFINE f == Flagged(r, n)
            s == zone_update_mqtt_state(f)
<1>1. r \in ZoneRecord /\ n \in ZoneRecord
  BY DEF ZoneKept, ZoneStored
<1>2. /\ f \in ZoneRecord /\ f.num = z /\ f.area = ZoneArea[z]
      /\ ~f.updated => f = r /\ r = n
  BY <1>1 DEF Flagged, ZoneRecord, ZoneStored, ZoneKept
<1>3. /\ s \in ZoneRecord /\ s.num = z /\ s.area = ZoneArea[z]
      /\ s.updated = f.updated /\ ZoneSound(s)
  BY <1>2 DEF zone_update_mqtt_state, ZoneRecord, ZoneSound
<1>4. ~s.updated => s = r
  <2>. SUFFICES ASSUME ~s.updated PROVE s = r
    OBVIOUS
  <2>1. f = r /\ r = n
    BY <1>2, <1>3
  <2>2. ZoneSound(r)
    BY <2>1 DEF ZoneKept, ZoneStored
  <2>3. s = [r EXCEPT !.mqtt_state = r.mqtt_state]
    BY <2>1, <2>2, <1>1 DEF zone_update_mqtt_state, ZoneSound, ZoneRecord
  <2>. QED BY <2>3, <1>1 DEF ZoneRecord
<1>. QED BY <1>3, <1>4 DEF ZoneStep

-----------------------------------------------------------------------------
(***************************************************************************)
(* The handlers.                                                           *)
(***************************************************************************)
AreasInv == AreaInv(areas, areaReports, lastArea)
ZonesInv == ZoneInv(zones, zoneReports, lastZone)

\* So a report of an area keeps AreasInv ...
LEMMA AreaReport ==
  ASSUME AreasInv, NEW a \in Areas, NEW s, AreaStep(areas[a], s, a),
         send_area_report(s)
  PROVE  AreasInv'
<1>1. s.num = a
  BY DEF AreaStep, AreaKept
<1>. QED BY <1>1, AreaSend DEF AreasInv, send_area_report

\* ... and one of a zone ZonesInv.
LEMMA ZoneReport ==
  ASSUME ZonesInv, NEW z \in Zones, NEW s, ZoneStep(zones[z], s, z),
         send_zone_report(s)
  PROVE  ZonesInv'
<1>1. s.num = z
  BY DEF ZoneStep
<1>. QED BY <1>1, ZoneSend DEF ZonesInv, send_zone_report

\* A byte stored in an area by an event: its status, its alarm byte set, its
\* trouble byte or its memory byte.
LEMMA AreaByte ==
  ASSUME AreasInv, NEW a \in Areas, NEW n,
         \/ \E v \in AreaStatus : n = [areas[a] EXCEPT !.status = v]
         \/ n = [areas[a] EXCEPT !.alarm = "A"]
         \/ n = [areas[a] EXCEPT !.trouble = "T"]
         \/ n = [areas[a] EXCEPT !.memory = "M"],
         send_area_report(area_update_mqtt_state(Flagged(areas[a], n)))
  PROVE  AreasInv'
<1>1. areas[a] \in AreaRecord /\ AreaKept(areas[a], a) /\ ~areas[a].updated
  BY DEF AreasInv, AreaInv, AreaKept
<1>2. Unset \notin AreaStatus
  BY DEF Unset, AreaStatus
<1>3. AreaStored(areas[a], n, a)
  <2>1. CASE \E v \in AreaStatus : n = [areas[a] EXCEPT !.status = v]
    BY <2>1, <1>1, <1>2 DEF AreaStored, AreaRecord, AreaKept
  <2>2. CASE n = [areas[a] EXCEPT !.alarm = "A"]
    BY <2>2, <1>1 DEF AreaStored, AreaRecord, AreaKept
  <2>3. CASE n = [areas[a] EXCEPT !.trouble = "T"]
    BY <2>3, <1>1 DEF AreaStored, AreaRecord, AreaKept
  <2>4. CASE n = [areas[a] EXCEPT !.memory = "M"]
    BY <2>4, <1>1 DEF AreaStored, AreaRecord, AreaKept
  <2>. QED BY <2>1, <2>2, <2>3, <2>4
<1>4. AreaStep(areas[a], area_update_mqtt_state(Flagged(areas[a], n)), a)
  BY <1>1, <1>3, AreaDerive
<1>. QED BY <1>4, AreaReport

\* A byte stored in a zone by an event.
LEMMA ZoneByte ==
  ASSUME ZonesInv, NEW m, m.num \in Zones,
         send_zone_report(ZoneByEvent(zones[m.num], m)),
         m.group \in ZoneStatusGroups \cup ZoneRestoreGroups \cup ZoneAlarmGroups
  PROVE  ZonesInv'
<1>. DEFINE r == zones[m.num]
<1>1. r \in ZoneRecord /\ ZoneKept(r, m.num) /\ ~r.updated
  BY DEF ZonesInv, ZoneInv, ZoneKept
<1>2. PICK n : /\ ZoneByEvent(r, m) = zone_update_mqtt_state(Flagged(r, n))
               /\ \/ \E v \in ZoneStatus : n = [r EXCEPT !.status = v]
                  \/ \E v \in {"O", "A"} : n = [r EXCEPT !.alarm = v]
                  \/ \E v \in {"O", "F"} : n = [r EXCEPT !.fire = v]
  <2>1. CASE m.group \in ZoneStatusGroups
    <3>1. m.group \in {0, 1, 2, 3}
      BY <2>1 DEF ZoneStatusGroups
    <3>2. <<"C", "O", "T", "F">>[m.group + 1] \in ZoneStatus
      BY <3>1 DEF ZoneStatus
    <3>. DEFINE v == <<"C", "O", "T", "F">>[m.group + 1]
    <3>3. ZoneByEvent(r, m) = zone_update_mqtt_state(zone_set_status(r, v))
      BY <2>1, <3>1 DEF ZoneByEvent
    <3>4. zone_set_status(r, v) = Flagged(r, [r EXCEPT !.status = v])
      BY DEF zone_set_status
    <3>. QED BY <3>2, <3>3, <3>4
  <2>2. CASE m.group = 24
    BY <2>2 DEF ZoneByEvent, ZoneStatusGroups, zone_set_alarm
  <2>3. CASE m.group = 25
    BY <2>3 DEF ZoneByEvent, ZoneStatusGroups, zone_set_fire
  <2>4. CASE m.group = 26
    BY <2>4 DEF ZoneByEvent, ZoneStatusGroups, zone_set_alarm
  <2>5. CASE m.group = 27
    BY <2>5 DEF ZoneByEvent, ZoneStatusGroups, zone_set_fire
  <2>. QED BY <2>1, <2>2, <2>3, <2>4, <2>5 DEF ZoneRestoreGroups, ZoneAlarmGroups
<1>3. ZoneStored(r, n, m.num)
  <2>1. CASE \E v \in ZoneStatus : n = [r EXCEPT !.status = v]
    BY <2>1, <1>1 DEF ZoneStored, ZoneRecord, ZoneKept, ZoneStatus, Unset
  <2>2. CASE \E v \in {"O", "A"} : n = [r EXCEPT !.alarm = v]
    BY <2>2, <1>1 DEF ZoneStored, ZoneRecord, ZoneKept, Unset
  <2>3. CASE \E v \in {"O", "F"} : n = [r EXCEPT !.fire = v]
    BY <2>3, <1>1 DEF ZoneStored, ZoneRecord, ZoneKept, Unset
  <2>. QED BY <1>2, <2>1, <2>2, <2>3
<1>4. ZoneStep(r, ZoneByEvent(r, m), m.num)
  BY <1>1, <1>2, <1>3, ZoneDerive
<1>. QED BY <1>4, ZoneReport

\* A line that is accepted and names no missing entry names a configured zone
\* where the handler touches one, and a configured area likewise.
LEMMA UsableEntries ==
  ASSUME NEW m, Usable(m)
  PROVE  /\ TouchesZone(m) => m.num \in Zones
         /\ TouchesArea(m) => m.area \in Areas
BY DEF Usable, NullEntry

\* Every event keeps IInv: zone open and closed, ...
LEMMA ZoneEventInv ==
  ASSUME IInv, NEW m, ZoneEvent(m)
  PROVE  IInv'
<1>1. m.num \in Zones
  BY UsableEntries DEF ZoneEvent, TouchesZone
<1>2. ZonesInv'
  BY <1>1, ZoneByte DEF IInv, ZonesInv, ZoneEvent
<1>. QED BY <1>2 DEF IInv, ZonesInv, ZoneEvent, AreasUnchanged

\* ... alarms of a zone, which change its area too, ...
LEMMA ZoneAlarmEventInv ==
  ASSUME IInv, NEW m, ZoneAlarmEvent(m)
  PROVE  IInv'
<1>1. m.num \in Zones /\ m.area \in Areas
  BY UsableEntries DEF ZoneAlarmEvent, TouchesZone, TouchesArea
<1>2. ZonesInv'
  BY <1>1, ZoneByte DEF IInv, ZonesInv, ZoneAlarmEvent
<1>3. AreasInv'
  BY <1>1, AreaByte DEF IInv, AreasInv, ZoneAlarmEvent, area_set_alarm
<1>. QED BY <1>2, <1>3 DEF IInv, ZonesInv, AreasInv, ZoneAlarmEvent

\* A handler that only stores a status byte in an area: the arming and disarm
\* events and the answer to a disarm command.
LEMMA AreaStatusInv ==
  ASSUME IInv, NEW a \in Areas, NEW v \in AreaStatus,
         send_area_report(area_update_mqtt_state(area_set_status(areas[a], v))),
         ZonesUnchanged, UNCHANGED pmgr
  PROVE  IInv'
<1>1. AreasInv'
  BY AreaByte DEF IInv, AreasInv, area_set_status
<1>. QED BY <1>1 DEF IInv, AreasInv, ZonesUnchanged

\* ... arming, ...
LEMMA ArmingEventInv ==
  ASSUME IInv, NEW m, ArmingEvent(m)
  PROVE  IInv'
<1>1. m.area \in Areas
  BY UsableEntries DEF ArmingEvent, TouchesArea
<1>2. (IF m.group = 12 /\ m.num = 4 THEN "S" ELSE "A") \in AreaStatus
  BY DEF AreaStatus
<1>. QED BY <1>1, <1>2, AreaStatusInv DEF ArmingEvent

\* ... disarming, by a key or ...
LEMMA DisarmEventInv ==
  ASSUME IInv, NEW m, DisarmEvent(m)
  PROVE  IInv'
<1>1. m.area \in Areas /\ "D" \in AreaStatus
  BY UsableEntries DEF DisarmEvent, TouchesArea, AreaStatus
<1>. QED BY <1>1, AreaStatusInv DEF DisarmEvent

\* ... in answer to a command, ...
LEMMA DisarmResponseInv ==
  ASSUME IInv, NEW m, DisarmResponse(m)
  PROVE  IInv'
<1>1. m.num \in Areas /\ "D" \in AreaStatus
  BY DEF DisarmResponse, KnownArea, AreaStatus
<1>. QED BY <1>1, AreaStatusInv DEF DisarmResponse

\* ... the first group of status events, ...
LEMMA Status1EventInv ==
  ASSUME IInv, NEW m, Status1Event(m)
  PROVE  IInv'
<1>1. m.area \in Areas
  BY UsableEntries DEF Status1Event, TouchesArea
<1>2. CASE m.num < 4
  <2>1. /\ (IF m.num = 2 THEN "S" ELSE "A") \in AreaStatus
        /\ send_area_report(area_update_mqtt_state(area_set_status(
             areas[m.area], IF m.num = 2 THEN "S" ELSE "A")))
    BY <1>2 DEF Status1Event, AreaStatus
  <2>. QED BY <1>1, <2>1, AreaStatusInv DEF Status1Event
<1>3. CASE ~(m.num < 4)
  <2>1. send_area_report(area_update_mqtt_state(
          Flagged(areas[m.area], [areas[m.area] EXCEPT !.alarm = "A"])))
    BY <1>3 DEF Status1Event, area_set_alarm
  <2>2. AreasInv'
    BY <1>1, <2>1, AreaByte DEF IInv, AreasInv
  <2>. QED BY <2>2 DEF IInv, AreasInv, Status1Event, ZonesUnchanged
<1>. QED BY <1>2, <1>3

\* ... and the second.
LEMMA Status2EventInv ==
  ASSUME IInv, NEW m, Status2Event(m)
  PROVE  IInv'
<1>1. m.area \in Areas
  BY UsableEntries DEF Status2Event, TouchesArea
<1>2. CASE m.num = 3
  <2>1. send_area_report(area_update_mqtt_state(
          Flagged(areas[m.area], [areas[m.area] EXCEPT !.trouble = "T"])))
    BY <1>2 DEF Status2Event, area_set_trouble
  <2>2. AreasInv'
    BY <1>1, <2>1, AreaByte DEF IInv, AreasInv
  <2>. QED BY <2>2 DEF IInv, AreasInv, Status2Event, ZonesUnchanged
<1>3. CASE m.num # 3
  <2>1. send_area_report(area_update_mqtt_state(
          Flagged(areas[m.area], [areas[m.area] EXCEPT !.memory = "M"])))
    BY <1>3 DEF Status2Event, area_set_memory
  <2>2. AreasInv'
    BY <1>1, <2>1, AreaByte DEF IInv, AreasInv
  <2>. QED BY <2>2 DEF IInv, AreasInv, Status2Event, ZonesUnchanged
<1>. QED BY <1>2, <1>3

\* The exit delay event sends two reports: AreaSend is used twice.
LEMMA ExitDelayEventInv ==
  ASSUME IInv, NEW m, ExitDelayEvent(m)
  PROVE  IInv'
<1>. DEFINE a == m.area
            r == areas[a]
            first == IF r.status = "D"
                       THEN area_update_mqtt_state(area_set_status(r, "E"))
                       ELSE r
            A1 == [areas EXCEPT ![a] = AreaSent(first)]
            Q1 == areaReports \o Message(first)
            L1 == IF first.updated THEN [lastArea EXCEPT ![a] = first] ELSE lastArea
            r1 == AreaSent(first)
            second == area_update_mqtt_state(area_set_trouble(r1, "T"))
            A2 == [A1 EXCEPT ![a] = AreaSent(second)]
            Q2 == Q1 \o Message(second)
            L2 == IF second.updated THEN [L1 EXCEPT ![a] = second] ELSE L1
<1>1. a \in Areas
  BY UsableEntries DEF ExitDelayEvent, TouchesArea
<1>2. AreaInv(areas, areaReports, lastArea)
  BY DEF IInv
<1>3. r \in AreaRecord /\ AreaKept(r, a) /\ ~r.updated
  BY <1>1, <1>2 DEF AreaInv, AreaKept
<1>4. AreaStep(r, first, a)
  <2>1. CASE r.status = "D"
    <3>1. AreaStored(r, [r EXCEPT !.status = "E"], a)
      BY <1>3 DEF AreaStored, AreaRecord, AreaKept, AreaStatus, Unset
    <3>2. first = area_update_mqtt_state(Flagged(r, [r EXCEPT !.status = "E"]))
      BY <2>1 DEF area_set_status
    <3>. QED BY <1>1, <1>3, <3>1, <3>2, AreaDerive
  <2>2. CASE r.status # "D"
    BY <2>2, <1>3 DEF AreaStep
  <2>. QED BY <2>1, <2>2
<1>5. AreaInv(A1, Q1, L1)
  <2>. HIDE DEF first
  <2>. QED BY <1>1, <1>2, <1>4, AreaSend
<1>6. A1[a] = r1
  <2>. HIDE DEF first
  <2>. QED BY <1>1, <1>2 DEF AreaInv
<1>7. AreaKept(r1, a) /\ ~r1.updated /\ r1 \in AreaRecord
  <2>. HIDE DEF A1, Q1, L1, r1
  <2>. QED BY <1>1, <1>5, <1>6 DEF AreaInv, AreaKept
<1>8. AreaStep(r1, second, a)
  <2>. HIDE DEF r1
  <2>1. AreaStored(r1, [r1 EXCEPT !.trouble = "T"], a)
    BY <1>7 DEF AreaStored, AreaRecord, AreaKept
  <2>. QED BY <1>1, <1>7, <2>1, AreaDerive DEF area_set_trouble
<1>9. AreaInv(A2, Q2, L2)
  <2>. HIDE DEF A1, Q1, L1, r1, second
  <2>. QED BY <1>1, <1>5, <1>6, <1>8, AreaSend
<1>10. areas' = A2 /\ areaReports' = Q2 /\ lastArea' = L2
  <2>1. /\ areas' = [areas EXCEPT ![a] = AreaSent(second)]
        /\ areaReports' = areaReports \o Message(first) \o Message(second)
        /\ lastArea' = IF second.updated THEN [lastArea EXCEPT ![a] = second]
                       ELSE IF first.updated THEN [lastArea EXCEPT ![a] = first]
                       ELSE lastArea
    BY DEF ExitDelayEvent
  <2>. HIDE DEF first, second, r1
  <2>. QED BY <2>1, <1>1, <1>2 DEF AreaInv
<1>11. AreaInv(areas', areaReports', lastArea')
  <2>. HIDE DEF A2, Q2, L2
  <2>. QED BY <1>9, <1>10
<1>. QED BY <1>11 DEF IInv, ExitDelayEvent, ZonesUnchanged

\* So does every response: the status of an area ...
LEMMA AreaStatusResponseInv ==
  ASSUME IInv, NEW m \in Inputs, AreaStatusResponse(m)
  PROVE  IInv'
<1>. DEFINE r == areas[m.num]
            n == [r EXCEPT !.status = m.status, !.alarm = m.alarm,
                           !.memory = m.memory, !.trouble = m.trouble,
                           !.misc = m.misc]
<1>1. m.num \in Areas /\ m \in AreaStatusResponses
  BY InputsAssumption DEF AreaStatusResponse, KnownArea, Messages, Events,
     AreaStatusResponses, ZoneStatusResponses, LabelResponses, DisarmResponses,
     OtherLines
<1>2. r \in AreaRecord /\ AreaKept(r, m.num) /\ ~r.updated
  BY <1>1 DEF IInv, AreaInv, AreaKept
<1>3. AreaStored(r, n, m.num)
  <2>1. m.status \in AreaStatus /\ m.alarm \in {"O", "A"} /\ m.memory \in {"O", "M"}
          /\ m.trouble \in {"O", "T"} /\ m.misc \in Misc
    BY <1>1 DEF AreaStatusResponses
  <2>2. n \in AreaRecord /\ n.num = m.num /\ n.mqtt_state = r.mqtt_state
          /\ n.updated = r.updated /\ n.status = m.status
    BY <1>2, <2>1 DEF AreaRecord, AreaKept
  <2>3. m.status # Unset
    BY <2>1 DEF AreaStatus, Unset
  <2>. QED BY <1>2, <2>2, <2>3 DEF AreaStored
<1>4. send_area_report(area_update_mqtt_state(Flagged(r, n)))
  BY DEF AreaStatusResponse, update_area_record
<1>5. AreaStep(r, area_update_mqtt_state(Flagged(r, n)), m.num)
  BY <1>1, <1>2, <1>3, AreaDerive
<1>6. AreasInv'
  BY <1>1, <1>4, <1>5, AreaReport DEF IInv, AreasInv
<1>. QED BY <1>6 DEF IInv, AreasInv, AreaStatusResponse, ZonesUnchanged

\* ... and of a zone, ...
LEMMA ZoneStatusResponseInv ==
  ASSUME IInv, NEW m \in Inputs, ZoneStatusResponse(m)
  PROVE  IInv'
<1>. DEFINE r == zones[m.num]
            n == [r EXCEPT !.status = m.status, !.alarm = m.alarm,
                           !.fire = m.fire, !.misc = m.misc]
            zone == update_zone_record(r, m)
            a == zone.area
            s == zone_update_area_alarm(areas[a], zone)
<1>1. m.num \in Zones /\ m \in ZoneStatusResponses
  BY InputsAssumption DEF ZoneStatusResponse, KnownZone, Messages, Events,
     AreaStatusResponses, ZoneStatusResponses, LabelResponses, DisarmResponses,
     OtherLines
<1>2. r \in ZoneRecord /\ ZoneKept(r, m.num) /\ ~r.updated
  BY <1>1 DEF IInv, ZoneInv, ZoneKept
<1>3. ZoneStored(r, n, m.num)
  <2>1. m.status \in ZoneStatus /\ m.alarm \in {"O", "A"} /\ m.fire \in {"O", "F"}
          /\ m.misc \in Misc
    BY <1>1 DEF ZoneStatusResponses
  <2>2. n \in ZoneRecord /\ n.num = r.num /\ n.mqtt_state = r.mqtt_state
          /\ n.updated = r.updated /\ n.status = m.status /\ n.area = r.area
    BY <1>2, <2>1 DEF ZoneRecord
  <2>3. m.status # Unset
    BY <2>1 DEF ZoneStatus, Unset
  <2>. QED BY <1>2, <2>2, <2>3 DEF ZoneStored, ZoneKept
<1>4. zone = zone_update_mqtt_state(Flagged(r, n))
  BY DEF update_zone_record
<1>5. ZoneStep(r, zone, m.num)
  BY <1>1, <1>2, <1>3, <1>4, ZoneDerive
<1>6. ZonesInv'
  BY <1>1, <1>5, ZoneReport DEF IInv, ZonesInv, ZoneStatusResponse
<1>7. a \in Areas
  BY <1>1, <1>5, ConfigAssumption DEF ZoneStep
<1>8. areas[a] \in AreaRecord /\ AreaKept(areas[a], a) /\ ~areas[a].updated
  <2>. HIDE DEF a
  <2>. QED BY <1>7 DEF IInv, AreaInv, AreaKept
<1>9. AreaStep(areas[a], s, a)
  <2>. HIDE DEF a, zone
  <2>. QED BY <1>8 DEF AreaStep, zone_update_area_alarm, AreaKept, AreaRecord, AreaSound
<1>10. AreasInv'
  <2>1. send_area_report(s)
    BY DEF ZoneStatusResponse
  <2>. HIDE DEF a, s
  <2>. QED BY <1>7, <1>9, <2>1, AreaReport DEF IInv, AreasInv
<1>. QED BY <1>6, <1>10 DEF IInv, AreasInv, ZonesInv, ZoneStatusResponse

\* ... and the label of an area ...
LEMMA AreaLabelResponseInv ==
  ASSUME IInv, NEW m, AreaLabelResponse(m)
  PROVE  IInv'
<1>. DEFINE r == areas[m.num]
            s == SetAreaLabel(r)
<1>1. m.num \in Areas
  BY DEF AreaLabelResponse, KnownArea
<1>2. r \in AreaRecord /\ AreaKept(r, m.num) /\ ~r.updated /\ AreaTold(r, lastArea[m.num])
  BY <1>1 DEF IInv, AreaInv, AreaKept
<1>3. s \in AreaRecord /\ AreaKept(s, m.num) /\ ~s.updated /\ AreaTold(s, lastArea[m.num])
  BY <1>2 DEF SetAreaLabel, AreaRecord, AreaKept, AreaSound, AreaTold
<1>4. areas' = [areas EXCEPT ![m.num] = s] /\ areaReports' = areaReports
        /\ lastArea' = lastArea
  BY DEF AreaLabelResponse
<1>5. AreaInv(areas', areaReports', lastArea')
  <2>. HIDE DEF s
  <2>. QED BY <1>1, <1>3, <1>4 DEF IInv, AreaInv
<1>. QED BY <1>5 DEF IInv, AreaLabelResponse, ZonesUnchanged

\* ... and of a zone.
LEMMA ZoneLabelResponseInv ==
  ASSUME IInv, NEW m, ZoneLabelResponse(m)
  PROVE  IInv'
<1>. DEFINE r == zones[m.num]
            s == SetZoneLabel(r)
<1>1. m.num \in Zones
  BY DEF ZoneLabelResponse, KnownZone
<1>2. r \in ZoneRecord /\ ZoneKept(r, m.num) /\ ~r.updated /\ ZoneTold(r, lastZone[m.num])
  BY <1>1 DEF IInv, ZoneInv, ZoneKept
<1>3. s \in ZoneRecord /\ ZoneKept(s, m.num) /\ ~s.updated /\ ZoneTold(s, lastZone[m.num])
  BY <1>2 DEF SetZoneLabel, ZoneRecord, ZoneKept, ZoneSound, ZoneTold
<1>4. zones' = [zones EXCEPT ![m.num] = s] /\ zoneReports' = zoneReports
        /\ lastZone' = lastZone
  BY DEF ZoneLabelResponse
<1>5. ZoneInv(zones', zoneReports', lastZone')
  <2>. HIDE DEF s
  <2>. QED BY <1>1, <1>3, <1>4 DEF IInv, ZoneInv
<1>. QED BY <1>5 DEF IInv, ZoneLabelResponse, AreasUnchanged

\* So does the handling of any line.
LEMMA HandleInv ==
  ASSUME IInv, NEW m \in Inputs, Handle(m)
  PROVE  IInv'
<1>1. CASE ZoneEvent(m)
  BY <1>1, ZoneEventInv
<1>2. CASE ZoneAlarmEvent(m)
  BY <1>2, ZoneAlarmEventInv
<1>3. CASE ArmingEvent(m)
  BY <1>3, ArmingEventInv
<1>4. CASE DisarmEvent(m)
  BY <1>4, DisarmEventInv
<1>5. CASE Status1Event(m)
  BY <1>5, Status1EventInv
<1>6. CASE ExitDelayEvent(m)
  BY <1>6, ExitDelayEventInv
<1>7. CASE Status2Event(m)
  BY <1>7, Status2EventInv
<1>8. CASE NullEntryEvent(m)
  BY <1>8 DEF NullEntryEvent, IInv, AreasUnchanged, ZonesUnchanged
<1>9. CASE AreaStatusResponse(m)
  BY <1>9, AreaStatusResponseInv
<1>10. CASE ZoneStatusResponse(m)
  BY <1>10, ZoneStatusResponseInv
<1>11. CASE AreaLabelResponse(m)
  BY <1>11, AreaLabelResponseInv
<1>12. CASE ZoneLabelResponse(m)
  BY <1>12, ZoneLabelResponseInv
<1>13. CASE DisarmResponse(m)
  BY <1>13, DisarmResponseInv
<1>14. CASE Ignored(m)
  BY <1>14 DEF Ignored, vars, IInv
<1>. QED
  BY <1>1, <1>2, <1>3, <1>4, <1>5, <1>6, <1>7, <1>8, <1>9, <1>10, <1>11,
     <1>12, <1>13, <1>14 DEF Handle

-----------------------------------------------------------------------------
\* The zeroed records of the start are sound ...
LEMMA InitInv == Init => IInv
<1>. SUFFICES ASSUME Init PROVE IInv
  OBVIOUS
<1>1. ASSUME NEW a \in Areas
      PROVE  LET r == para_mgr_set_area(a)
             IN AreaKept(r, a) /\ ~r.updated /\ AreaTold(r, r)
  BY DEF para_mgr_set_area, AreaKept, AreaTold, AreaRecord, AreaSound,
         PanelStates, Unset
<1>2. AreaInv(areas, areaReports, lastArea)
  BY <1>1 DEF Init, AreaInv, AreaKept
<1>3. ASSUME NEW z \in Zones
      PROVE  LET r == para_mgr_set_zone(z)
             IN ZoneKept(r, z) /\ ~r.updated /\ ZoneTold(r, r)
  BY ConfigAssumption DEF para_mgr_set_zone, ZoneKept, ZoneTold, ZoneRecord, Unset
<1>4. ZoneInv(zones, zoneReports, lastZone)
  BY <1>3 DEF Init, ZoneInv, ZoneKept
<1>. QED BY <1>2, <1>4 DEF Init, IInv

\* ... and every step keeps IInv.
LEMMA NextInv == IInv /\ [Next]_vars => IInv'
<1>. SUFFICES ASSUME IInv, [Next]_vars PROVE IInv'
  OBVIOUS
<1>1. ASSUME NEW m \in Inputs, Handle(m) PROVE IInv'
  BY <1>1, HandleInv
<1>2. CASE Kill
  BY <1>2 DEF Kill, IInv, AreasUnchanged, ZonesUnchanged
<1>3. CASE TakeAreaReport
  <2>1. /\ Tail(areaReports) \in Seq(AreaRecord)
        /\ \A i \in 1..Len(Tail(areaReports)) : AreaSound(Tail(areaReports)[i])
    BY <1>3 DEF TakeAreaReport, IInv, AreaInv
  <2>. QED BY <1>3, <2>1 DEF TakeAreaReport, IInv, AreaInv
<1>4. CASE TakeZoneReport
  <2>1. Tail(zoneReports) \in Seq(ZoneRecord)
    BY <1>4 DEF TakeZoneReport, IInv, ZoneInv
  <2>. QED BY <1>4, <2>1 DEF TakeZoneReport, IInv, ZoneInv
<1>5. CASE UNCHANGED vars
  BY <1>5 DEF vars, IInv
<1>. QED BY <1>1, <1>2, <1>3, <1>4, <1>5 DEF Next

\* IInv is an inductive invariant of the thread.
THEOREM Inductive == Spec => []IInv
BY InitInv, NextInv, PTL DEF Spec

\* TypeOK: every record and every report holds only bytes the PRT3 sends, for
\* any number of areas and zones and any lines.
THEOREM TypeCorrect == Spec => []TypeOK
<1>1. IInv => TypeOK
  BY DEF IInv, TypeOK, AreaInv, ZoneInv
<1>. QED BY <1>1, Inductive, PTL

\* NothingPending: every handler sends what it flagged before it returns.
THEOREM NothingIsPending == Spec => []NothingPending
<1>1. IInv => NothingPending
  BY DEF IInv, NothingPending, AreaInv, ZoneInv
<1>. QED BY <1>1, Inductive, PTL

\* AreaReportsSound: the state a report of an area gives agrees with the bytes
\* it carries.
THEOREM AreaReportsAreSound == Spec => []AreaReportsSound
<1>1. IInv => AreaReportsSound
  BY DEF IInv, AreaReportsSound, AreaInv
<1>. QED BY <1>1, Inductive, PTL

\* ZonesOpenShown: of a zone that is open, tampered or on fire loop trouble
\* the last report said "on".
THEOREM OpenZonesAreShown == Spec => []ZonesOpenShown
<1>1. IInv => ZonesOpenShown
  <2> SUFFICES ASSUME IInv, NEW z \in Zones, zones[z].status \in {"O", "T", "F"}
               PROVE  lastZone[z].mqtt_state = "on"
    BY DEF ZonesOpenShown
  <2>1. /\ zones[z] \in ZoneRecord /\ zones[z].mqtt_state # "off"
        /\ lastZone[z].mqtt_state = zones[z].mqtt_state
    BY DEF IInv, ZoneInv, ZoneKept, ZoneSound, ZoneTold, Unset
  <2> QED
    BY <2>1 DEF ZoneRecord
<1>. QED BY <1>1, Inductive, PTL

\* LastAreaReportCurrent: nothing the PRT3 said of an area is kept back.
THEOREM AreaReportsCurrent == Spec => []LastAreaReportCurrent
<1>1. IInv => LastAreaReportCurrent
  BY DEF IInv, LastAreaReportCurrent, AreaInv, AreaTold
<1>. QED BY <1>1, Inductive, PTL

\* LastZoneReportCurrent: nothing the PRT3 said of a zone is kept back.
THEOREM ZoneReportsCurrent == Spec => []LastZoneReportCurrent
<1>1. IInv => LastZoneReportCurrent
  BY DEF IInv, LastZoneReportCurrent, ZoneInv, ZoneTold
<1>. QED BY <1>1, Inductive, PTL

=============================================================================
