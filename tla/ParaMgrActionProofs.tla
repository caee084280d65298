------------------------- MODULE ParaMgrActionProofs -------------------------
(***************************************************************************)
(* The action properties of ParaMgr, for every choice of areas, zones and  *)
(* lines: what puts an area into alarm, what takes it out of "triggered",  *)
(* and what turns "armed_home" into another armed state.                   *)
(*                                                                         *)
(* All three follow from one lemma, HandledArea: whatever the line, an     *)
(* area comes out of its handler in one of the five ways of Outcome.       *)
(***************************************************************************)
EXTENDS ParaMgrProofs

\* The state that area_update_mqtt_state derives from the bytes of a record.
Derived(r) ==
  IF r.alarm = "A" THEN "triggered"
  ELSE IF r.status \in AreaStatus THEN StateOf(r.status)
                                  ELSE r.mqtt_state

\* No handler but a status response changes what this says of the area.
Untouched(r, s) == s.alarm = r.alarm /\ s.mqtt_state = r.mqtt_state

\* An event of the area stores its status, memory or trouble byte.
ByteStored(m, r, s) ==
  /\ s.alarm = r.alarm
  /\ s.mqtt_state = IF r.alarm = "A" THEN "triggered"
                    ELSE IF s.status \in AreaStatus THEN StateOf(s.status)
                                                    ELSE r.mqtt_state
  /\ \/ s.status = r.status \/ s.status = "D"
     \/ r.status \in {"D", "E"}
     \/ m.kind = "G" /\ m.group = STATUS_1

\* An event of the area reports an alarm.
AlarmReported(m, a, s) ==
  /\ s.alarm = "A" /\ s.mqtt_state = "triggered"
  /\ m.kind = "G" /\ m.area = a
  /\ m.group \in ZoneAlarmGroups \/ (m.group = STATUS_1 /\ m.num \in 4..7)

\* A status response of one of its zones shows an alarm the area does not.
AlarmLearnt(m, a, r, s) ==
  /\ r.alarm = "O" /\ s.alarm = "A" /\ s.mqtt_state = r.mqtt_state
  /\ m.kind = "RZ" /\ m.alarm = "A" /\ m.num \in Zones /\ ZoneArea[m.num] = a

\* Its own status response stores all of its bytes.
StatusStored(m, a, s) ==
  /\ m.kind = "RA" /\ m.num = a /\ s.alarm = m.alarm /\ m.alarm \in {"O", "A"}
  /\ m.alarm = "A" => s.mqtt_state = "triggered"

\* How the record of area a gets from r to s when line m is handled.
Outcome(m, a, r, s) ==
  \/ Untouched(r, s) \/ ByteStored(m, r, s) \/ AlarmReported(m, a, s)
  \/ AlarmLearnt(m, a, r, s) \/ StatusStored(m, a, s)

-----------------------------------------------------------------------------
(***************************************************************************)
(* What storing bytes, deriving the state and sending the report do.       *)
(***************************************************************************)
LEMMA DerivedFields ==
  ASSUME NEW r \in AreaRecord, NEW n \in AreaRecord
  PROVE  LET s == area_update_mqtt_state(Flagged(r, n))
         IN /\ s \in AreaRecord
            /\ s.num = n.num /\ s.status = n.status /\ s.alarm = n.alarm
            /\ s.mqtt_state = Derived(n)
<1> DEFINE f == Flagged(r, n)
<1>1. /\ f \in AreaRecord /\ f.num = n.num /\ f.status = n.status
      /\ f.alarm = n.alarm /\ f.mqtt_state = n.mqtt_state
  BY DEF Flagged, AreaRecord
<1>2. \A x \in AreaStatus : StateOf(x) \in PanelStates
  BY DEF StateOf, PanelStates, AreaStatus
<1> HIDE DEF f
<1> DEFINE s == area_update_mqtt_state(f)
<1>3. /\ s.num = f.num /\ s.status = f.status /\ s.alarm = f.alarm
      /\ s.mqtt_state = Derived(n)
  BY <1>1 DEF area_update_mqtt_state, Derived
<1>4. s \in AreaRecord
  BY <1>1, <1>2 DEF area_update_mqtt_state, AreaRecord, PanelStates
<1> QED
  BY <1>1, <1>3, <1>4 DEF f

\* Sending a report leaves the bytes of the record, and the other areas, alone.
LEMMA SentFields ==
  ASSUME areas \in [Areas -> AreaRecord], NEW b \in Areas,
         NEW s \in AreaRecord, s.num = b,
         areas' = [areas EXCEPT ![b] = AreaSent(s)], NEW a \in Areas
  PROVE  /\ a # b => areas'[a] = areas[a]
         /\ a = b => /\ areas'[a].status = s.status
                     /\ areas'[a].alarm = s.alarm
                     /\ areas'[a].mqtt_state = s.mqtt_state
BY DEF AreaSent

\* A handler that stores bytes in the record of area b: the others keep theirs.
LEMMA StoredFields ==
  ASSUME areas \in [Areas -> AreaRecord], NEW b \in Areas,
         NEW n \in AreaRecord, n.num = b,
         send_area_report(area_update_mqtt_state(Flagged(areas[b], n))),
         NEW a \in Areas
  PROVE  /\ a # b => areas'[a] = areas[a]
         /\ a = b => /\ areas'[a].status = n.status
                     /\ areas'[a].alarm = n.alarm
                     /\ areas'[a].mqtt_state = Derived(n)
<1> DEFINE s == area_update_mqtt_state(Flagged(areas[b], n))
<1>2. /\ s \in AreaRecord /\ s.num = b /\ s.status = n.status /\ s.alarm = n.alarm
      /\ s.mqtt_state = Derived(n)
  BY DerivedFields
<1>3. areas' = [areas EXCEPT ![b] = AreaSent(s)]
  BY <1>2 DEF send_area_report
<1> HIDE DEF s
<1> QED
  BY <1>2, <1>3, SentFields

\* A handler that stores one byte of the record of area b.
LEMMA OneByte ==
  ASSUME areas \in [Areas -> AreaRecord], NEW b \in Areas, areas[b].num = b,
         NEW n,
         \/ \E v \in AreaStatus : n = [areas[b] EXCEPT !.status = v]
         \/ n = [areas[b] EXCEPT !.alarm = "A"]
         \/ n = [areas[b] EXCEPT !.trouble = "T"]
         \/ n = [areas[b] EXCEPT !.memory = "M"],
         send_area_report(area_update_mqtt_state(Flagged(areas[b], n))),
         NEW a \in Areas
  PROVE  /\ a # b => areas'[a] = areas[a]
         /\ a = b => /\ areas'[a].status = n.status
                     /\ areas'[a].alarm = n.alarm
                     /\ areas'[a].mqtt_state = Derived(n)
<1>2. n \in AreaRecord /\ n.num = b
  BY DEF AreaRecord
<1> QED
  BY <1>2, StoredFields

-----------------------------------------------------------------------------
(***************************************************************************)
(* The handlers.                                                           *)
(***************************************************************************)
LEMMA ZoneAlarmOutcome ==
  ASSUME IInv, NEW m, ZoneAlarmEvent(m), NEW a \in Areas
  PROVE  Outcome(m, a, areas[a], areas'[a])
<1>1. m.area \in Areas
  BY UsableEntries DEF ZoneAlarmEvent, TouchesArea
<1>2. areas \in [Areas -> AreaRecord] /\ areas[m.area] \in AreaRecord
      /\ areas[m.area].num = m.area
  BY <1>1 DEF IInv, AreaInv, AreaKept
<1> DEFINE n == [areas[m.area] EXCEPT !.alarm = "A"]
<1>3. send_area_report(area_update_mqtt_state(Flagged(areas[m.area], n)))
  BY DEF ZoneAlarmEvent, area_set_alarm
<1>4. n.alarm = "A" /\ Derived(n) = "triggered"
  BY DEF Derived
<1>5. CASE a # m.area
  BY <1>1, <1>2, <1>3, <1>5, OneByte DEF Outcome, Untouched
<1>6. CASE a = m.area
  <2>1. areas'[a].alarm = "A" /\ areas'[a].mqtt_state = "triggered"
    BY <1>1, <1>2, <1>3, <1>4, <1>6, OneByte
  <2> QED
    BY <1>6, <2>1 DEF ZoneAlarmEvent, Usable, Outcome, AlarmReported
<1> QED
  BY <1>5, <1>6

\* A handler that stores a byte of area b other than the alarm byte.
LEMMA ByteOutcome ==
  ASSUME IInv, NEW m, NEW b \in Areas, NEW n,
         \/ \E v \in AreaStatus :
              /\ n = [areas[b] EXCEPT !.status = v]
              /\ \/ v = "D" \/ areas[b].status \in {"D", "E"}
                 \/ m.kind = "G" /\ m.group = STATUS_1
         \/ n = [areas[b] EXCEPT !.trouble = "T"]
         \/ n = [areas[b] EXCEPT !.memory = "M"],
         send_area_report(area_update_mqtt_state(Flagged(areas[b], n))),
         NEW a \in Areas
  PROVE  Outcome(m, a, areas[a], areas'[a])
<1>1. areas \in [Areas -> AreaRecord] /\ areas[b] \in AreaRecord /\ areas[b].num = b
  BY DEF IInv, AreaInv, AreaKept
<1>2. /\ n.alarm = areas[b].alarm /\ n.mqtt_state = areas[b].mqtt_state
      /\ \/ n.status = areas[b].status \/ n.status = "D"
         \/ areas[b].status \in {"D", "E"}
         \/ m.kind = "G" /\ m.group = STATUS_1
  BY <1>1 DEF AreaRecord
<1>3. /\ a # b => areas'[a] = areas[a]
      /\ a = b => /\ areas'[a].status = n.status
                  /\ areas'[a].alarm = n.alarm
                  /\ areas'[a].mqtt_state = Derived(n)
  BY <1>1, OneByte
<1>4. CASE a # b
  BY <1>3, <1>4 DEF Outcome, Untouched
<1>5. CASE a = b
  BY <1>2, <1>3, <1>5 DEF Outcome, ByteStored, Derived
<1> QED
  BY <1>4, <1>5

\* Arming events.
LEMMA ArmingOutcome ==
  ASSUME IInv, NEW m, ArmingEvent(m), NEW a \in Areas
  PROVE  Outcome(m, a, areas[a], areas'[a])
<1> DEFINE v == IF m.group = 12 /\ m.num = 4 THEN "S" ELSE "A"
<1>1. m.area \in Areas /\ areas[m.area].status \in {"D", "E"}
  BY UsableEntries DEF ArmingEvent, TouchesArea
<1>2. v \in AreaStatus
  BY DEF AreaStatus
<1>3. send_area_report(area_update_mqtt_state(
        Flagged(areas[m.area], [areas[m.area] EXCEPT !.status = v])))
  BY DEF ArmingEvent, area_set_status
<1> HIDE DEF v
<1> QED
  BY <1>1, <1>2, <1>3, ByteOutcome

\* Disarm events.
LEMMA DisarmOutcome ==
  ASSUME IInv, NEW m, DisarmEvent(m) \/ DisarmResponse(m), NEW a \in Areas
  PROVE  Outcome(m, a, areas[a], areas'[a])
<1>1. PICK b \in Areas :
        send_area_report(area_update_mqtt_state(
          Flagged(areas[b], [areas[b] EXCEPT !.status = "D"])))
  <2>1. CASE DisarmEvent(m)
    BY <2>1, UsableEntries DEF DisarmEvent, TouchesArea, area_set_status
  <2>2. CASE DisarmResponse(m)
    BY <2>2 DEF DisarmResponse, KnownArea, area_set_status
  <2> QED
    BY <2>1, <2>2
<1>2. "D" \in AreaStatus
  BY DEF AreaStatus
<1> QED
  BY <1>1, <1>2, ByteOutcome

\* Status events of the first group: how an area is armed, and its alarms.
LEMMA Status1Outcome ==
  ASSUME IInv, NEW m \in Inputs, Status1Event(m), NEW a \in Areas
  PROVE  Outcome(m, a, areas[a], areas'[a])
<1> DEFINE r == areas[m.area]
<1>1. m.area \in Areas /\ m.kind = "G" /\ m.group = STATUS_1 /\ m.num \in 0..7
  BY UsableEntries DEF Status1Event, Usable, TouchesArea
<1>2. CASE m.num < 4
  <2> DEFINE v == IF m.num = 2 THEN "S" ELSE "A"
  <2>1. send_area_report(area_update_mqtt_state(Flagged(r, [r EXCEPT !.status = v])))
    BY <1>2 DEF Status1Event, area_set_status
  <2>2. v \in AreaStatus
    BY DEF AreaStatus
  <2> HIDE DEF v
  <2> QED
    BY <1>1, <2>1, <2>2, ByteOutcome
<1>3. CASE ~(m.num < 4)
  <2> DEFINE n == [r EXCEPT !.alarm = "A"]
  <2>1. send_area_report(area_update_mqtt_state(Flagged(r, n))) /\ m.num \in 4..7
    BY <1>3 DEF Status1Event, area_set_alarm
  <2>2. areas \in [Areas -> AreaRecord] /\ r \in AreaRecord /\ r.num = m.area
    BY <1>1 DEF IInv, AreaInv, AreaKept
  <2>3. n.alarm = "A" /\ Derived(n) = "triggered"
    BY DEF Derived
  <2>4. CASE a # m.area
    BY <1>1, <2>1, <2>2, <2>4, OneByte DEF Outcome, Untouched
  <2>5. CASE a = m.area
    <3>1. areas'[a].alarm = "A" /\ areas'[a].mqtt_state = "triggered"
      BY <1>1, <2>1, <2>2, <2>3, <2>5, OneByte
    <3> QED
      BY <1>1, <2>1, <2>5, <3>1 DEF Outcome, AlarmReported
  <2> QED
    BY <2>4, <2>5
<1> QED
  BY <1>2, <1>3

\* Status events of the second group: trouble and memory.
LEMMA Status2Outcome ==
  ASSUME IInv, NEW m, Status2Event(m), NEW a \in Areas
  PROVE  Outcome(m, a, areas[a], areas'[a])
<1> DEFINE r == areas[m.area]
<1>1. m.area \in Areas
  BY UsableEntries DEF Status2Event, TouchesArea
<1>2. \/ send_area_report(area_update_mqtt_state(Flagged(r, [r EXCEPT !.trouble = "T"])))
      \/ send_area_report(area_update_mqtt_state(Flagged(r, [r EXCEPT !.memory = "M"])))
  BY DEF Status2Event, area_set_trouble, area_set_memory
<1> QED
  BY <1>1, <1>2, ByteOutcome

\* The exit delay stores two bytes of the area: what the second report shows
\* is derived from both.
LEMMA ExitDelayOutcome ==
  ASSUME IInv, NEW m, ExitDelayEvent(m), NEW a \in Areas
  PROVE  Outcome(m, a, areas[a], areas'[a])
<1> DEFINE b == m.area
           r == areas[b]
           first == IF r.status = "D"
                      THEN area_update_mqtt_state(area_set_status(r, "E"))
                      ELSE r
           r1 == AreaSent(first)
           n1 == [r1 EXCEPT !.trouble = "T"]
           second == area_update_mqtt_state(area_set_trouble(r1, "T"))
<1>1. b \in Areas
  BY UsableEntries DEF ExitDelayEvent, TouchesArea
<1>2. areas \in [Areas -> AreaRecord] /\ r \in AreaRecord /\ r.num = b
  BY <1>1 DEF IInv, AreaInv, AreaKept
<1>3. areas' = [areas EXCEPT ![b] = AreaSent(second)]
  BY DEF ExitDelayEvent
<1>4. /\ first \in AreaRecord /\ first.num = b /\ first.alarm = r.alarm
      /\ \/ first = r
         \/ /\ r.status = "D" /\ first.status = "E"
            /\ first.mqtt_state = IF r.alarm = "A" THEN "triggered" ELSE StateOf("E")
  <2>1. CASE r.status = "D"
    <3> DEFINE n == [r EXCEPT !.status = "E"]
    <3>1. n \in AreaRecord /\ n.num = b /\ n.status = "E" /\ n.alarm = r.alarm
      BY <1>2 DEF AreaRecord, AreaStatus
    <3>2. first = area_update_mqtt_state(Flagged(r, n))
      BY <2>1 DEF area_set_status
    <3>3. "E" \in AreaStatus
      BY DEF AreaStatus
    <3> HIDE DEF n, first
    <3>4. /\ first \in AreaRecord /\ first.num = n.num /\ first.status = n.status
          /\ first.alarm = n.alarm /\ first.mqtt_state = Derived(n)
      BY <1>2, <3>1, <3>2, DerivedFields
    <3>5. Derived(n) = IF r.alarm = "A" THEN "triggered" ELSE StateOf("E")
      BY <3>1, <3>3 DEF Derived
    <3> QED
      BY <2>1, <3>1, <3>4, <3>5
  <2>2. CASE r.status # "D"
    BY <1>2, <2>2
  <2> QED
    BY <2>1, <2>2
<1>5. /\ r1 \in AreaRecord /\ r1.num = b /\ r1.status = first.status
      /\ r1.alarm = first.alarm /\ r1.mqtt_state = first.mqtt_state
  <2> HIDE DEF first
  <2> QED
    BY <1>4 DEF AreaSent, AreaRecord
<1>6. /\ n1 \in AreaRecord /\ n1.num = b /\ n1.status = r1.status
      /\ n1.alarm = r1.alarm /\ n1.mqtt_state = r1.mqtt_state
  <2> HIDE DEF r1
  <2> QED
    BY <1>5 DEF AreaRecord
<1>7. /\ second \in AreaRecord /\ second.num = b /\ second.status = n1.status
      /\ second.alarm = n1.alarm /\ second.mqtt_state = Derived(n1)
  <2>1. second = area_update_mqtt_state(Flagged(r1, n1))
    BY DEF area_set_trouble
  <2> HIDE DEF r1, n1, second
  <2> QED
    BY <1>5, <1>6, <2>1, DerivedFields
<1> HIDE DEF first, r1, n1, second
<1>8. CASE a # b
  BY <1>3, <1>8 DEF Outcome, Untouched
<1>9. CASE a = b
  <2>1. /\ areas'[a].status = second.status /\ areas'[a].alarm = second.alarm
        /\ areas'[a].mqtt_state = second.mqtt_state
    BY <1>1, <1>2, <1>3, <1>7, <1>9, SentFields
  <2>2. "E" \in AreaStatus /\ "D" # "E"
    BY DEF AreaStatus
  <2>3. ByteStored(m, r, areas'[a])
    <3>1. CASE first = r
      BY <1>5, <1>6, <1>7, <2>1, <3>1 DEF ByteStored, Derived
    <3>2. CASE r.status = "D" /\ first.status = "E"
      BY <1>4, <1>5, <1>6, <1>7, <2>1, <2>2, <3>2 DEF ByteStored, Derived
    <3> QED
      BY <1>4, <3>1, <3>2
  <2> QED
    BY <1>9, <2>3 DEF Outcome
<1> QED
  BY <1>8, <1>9

\* Status responses of an area, the only lines that end an alarm.
LEMMA AreaStatusOutcome ==
  ASSUME IInv, NEW m \in Inputs, AreaStatusResponse(m), NEW a \in Areas
  PROVE  Outcome(m, a, areas[a], areas'[a])
<1> DEFINE r == areas[m.num]
           n == [r EXCEPT !.status = m.status, !.alarm = m.alarm,
                          !.memory = m.memory, !.trouble = m.trouble,
                          !.misc = m.misc]
<1>1. m.num \in Areas /\ m \in AreaStatusResponses
  BY InputsAssumption
     DEF AreaStatusResponse, KnownArea, Messages, Events, ZoneStatusResponses,
     LabelResponses, DisarmResponses, OtherLines
<1>2. areas \in [Areas -> AreaRecord] /\ r \in AreaRecord /\ r.num = m.num
  BY <1>1 DEF IInv, AreaInv, AreaKept
<1>3. n \in AreaRecord /\ n.num = m.num /\ n.alarm = m.alarm
  BY <1>1, <1>2 DEF AreaRecord, AreaStatusResponses
<1>4. send_area_report(area_update_mqtt_state(Flagged(r, n)))
  BY DEF AreaStatusResponse, update_area_record
<1> HIDE DEF n
<1>5. /\ a # m.num => areas'[a] = areas[a]
      /\ a = m.num => areas'[a].alarm = m.alarm /\ areas'[a].mqtt_state = Derived(n)
  BY <1>1, <1>2, <1>3, <1>4, StoredFields
<1>6. m.alarm = "A" => Derived(n) = "triggered"
  BY <1>3 DEF Derived
<1>7. m.alarm \in {"O", "A"}
  BY <1>1 DEF AreaStatusResponses
<1> QED
  BY <1>5, <1>6, <1>7 DEF AreaStatusResponse, Outcome, Untouched, StatusStored

\* Status responses of a zone, which may bring an alarm to its area.
LEMMA ZoneStatusOutcome ==
  ASSUME IInv, NEW m \in Inputs, ZoneStatusResponse(m), NEW a \in Areas
  PROVE  Outcome(m, a, areas[a], areas'[a])
<1> DEFINE r == zones[m.num]
           zone == update_zone_record(r, m)
           b == zone.area
           s == zone_update_area_alarm(areas[b], zone)
<1>1. m.num \in Zones /\ m \in ZoneStatusResponses
  BY InputsAssumption
     DEF ZoneStatusResponse, KnownZone, Messages, Events, AreaStatusResponses,
     LabelResponses, DisarmResponses, OtherLines
<1>2. r \in ZoneRecord /\ r.area = ZoneArea[m.num]
  BY <1>1 DEF IInv, ZoneInv, ZoneKept
<1>3. zone.area = ZoneArea[m.num] /\ zone.alarm = m.alarm
  <2> QED
    BY <1>2
       DEF update_zone_record, zone_update_mqtt_state, Flagged, ZoneRecord
<1>4. b \in Areas /\ areas \in [Areas -> AreaRecord] /\ areas[b] \in AreaRecord
      /\ areas[b].num = b
  <2> HIDE DEF zone
  <2>1. b \in Areas
    BY <1>1, <1>3, ConfigAssumption
  <2> QED
    BY <2>1 DEF IInv, AreaInv, AreaKept
<1>5. send_area_report(s)
  BY DEF ZoneStatusResponse
<1> HIDE DEF zone
<1>6. /\ s \in AreaRecord /\ s.num = b /\ s.mqtt_state = areas[b].mqtt_state
      /\ \/ s.alarm = areas[b].alarm
         \/ zone.alarm = "A" /\ areas[b].alarm = "O" /\ s.alarm = "A"
  BY <1>4 DEF zone_update_area_alarm, AreaRecord
<1>7. areas' = [areas EXCEPT ![b] = AreaSent(s)]
  BY <1>5, <1>6 DEF send_area_report
<1> HIDE DEF s
<1>8. CASE a # b
  BY <1>7, <1>8 DEF Outcome, Untouched
<1>9. CASE a = b
  <2>1. areas'[a].alarm = s.alarm /\ areas'[a].mqtt_state = s.mqtt_state
    BY <1>4, <1>6, <1>7, <1>9, SentFields
  <2> QED
    BY <1>1, <1>3, <1>6, <1>9, <2>1
       DEF ZoneStatusResponse, Outcome, Untouched, AlarmLearnt
<1> QED
  BY <1>8, <1>9

\* Labels of an area, which erase its status byte.
LEMMA AreaLabelOutcome ==
  ASSUME IInv, NEW m, AreaLabelResponse(m), NEW a \in Areas
  PROVE  Outcome(m, a, areas[a], areas'[a])
<1>2. areas' = [areas EXCEPT ![m.num] = SetAreaLabel(areas[m.num])]
  BY DEF AreaLabelResponse
<1>3. Untouched(areas[m.num], SetAreaLabel(areas[m.num]))
  BY DEF Untouched, SetAreaLabel
<1> QED
  BY <1>2, <1>3 DEF Outcome, Untouched

\* Whatever the line, its handler leaves an area in one of the five ways.
LEMMA HandledArea ==
  ASSUME IInv, NEW m \in Inputs, Handle(m), NEW a \in Areas
  PROVE  Outcome(m, a, areas[a], areas'[a])
<1>1. CASE \/ ZoneEvent(m) \/ NullEntryEvent(m) \/ ZoneLabelResponse(m) \/ Ignored(m)
  <2>1. areas' = areas
    BY <1>1 DEF ZoneEvent, NullEntryEvent, ZoneLabelResponse, Ignored,
                AreasUnchanged, vars
  <2> QED
    BY <2>1 DEF Outcome, Untouched
<1> QED
  BY <1>1, ZoneAlarmOutcome, ArmingOutcome, DisarmOutcome, Status1Outcome,
     Status2Outcome, ExitDelayOutcome, AreaStatusOutcome, ZoneStatusOutcome,
     AreaLabelOutcome DEF Handle

-----------------------------------------------------------------------------
(***************************************************************************)
(* The theorems.                                                           *)
(***************************************************************************)

\* An area is put into alarm only by an alarm event of its own, a response to
\* its own status request, or that of a zone that was assigned to it.
THEOREM AlarmsHaveCauses == Spec => AlarmHasCause
<1>1. ASSUME IInv, NEW a \in Areas, areas[a].alarm # "A", areas'[a].alarm = "A",
             NEW m \in Inputs, Handle(m)
      PROVE  \/ /\ m.kind = "G" /\ m.area = a
                /\ \/ m.group \in ZoneAlarmGroups
                   \/ m.group = STATUS_1 /\ m.num \in 4..7
             \/ m.kind = "RA" /\ m.num = a /\ m.alarm = "A"
             \/ /\ m.kind = "RZ" /\ m.alarm = "A"
                /\ m.num \in Zones /\ ZoneArea[m.num] = a
  BY <1>1, HandledArea
     DEF Outcome, Untouched, ByteStored, AlarmReported, AlarmLearnt, StatusStored
<1>2. IInv => [AlarmStep]_vars
  BY <1>1 DEF AlarmStep
<1> QED
  BY <1>2, Inductive, PTL DEF AlarmHasCause

\* An area that is "triggered" stays so under every line but a response to a
\* status request of its own that shows it out of alarm: the disarm event that
\* follows an alarm does not dismiss it.
THEOREM AlarmsEndByStatusResponse == Spec => AlarmEndsByStatusResponse
<1>1. ASSUME IInv, NEW a \in Areas, areas[a].mqtt_state = "triggered",
             areas'[a].mqtt_state # "triggered", NEW m \in Inputs, Handle(m)
      PROVE  m.kind = "RA" /\ m.num = a /\ m.alarm = "O"
  <2>1. areas[a].alarm = "A"
    BY <1>1 DEF IInv, AreaInv, AreaKept, AreaSound
  <2> QED
    BY <1>1, <2>1, HandledArea
       DEF Outcome, Untouched, ByteStored, AlarmReported, AlarmLearnt, StatusStored
<1>2. IInv => [DismissalStep]_vars
  BY <1>1 DEF DismissalStep
<1> QED
  BY <1>2, Inductive, PTL DEF AlarmEndsByStatusResponse

\* An area that is "armed_home" becomes "armed_away" or "arming" only when the
\* panel says so itself, in a status response or a status event.
THEOREM StayArmIsKept == Spec => StayArmKept
<1>1. ASSUME IInv, NEW a \in Areas, areas[a].mqtt_state = "armed_home",
             areas'[a].mqtt_state \in {"armed_away", "arming"},
             NEW m \in Inputs, Handle(m)
      PROVE  m.kind = "RA" \/ (m.kind = "G" /\ m.group = STATUS_1)
  <2>1. areas[a].alarm = "A" \/ areas[a].status \in {"S", Unset}
    <3>1. areas[a] \in AreaRecord /\ AreaSound(areas[a])
      BY <1>1 DEF IInv, AreaInv, AreaKept
    <3>2. areas[a].status \in AreaStatus \cup {Unset}
      BY <3>1 DEF AreaRecord
    <3> QED
      BY <1>1, <3>1, <3>2 DEF AreaSound, StateOf, AreaStatus
  <2>2. /\ {"D", "S"} \subseteq AreaStatus /\ Unset \notin AreaStatus
        /\ StateOf("D") = "disarmed" /\ StateOf("S") = "armed_home"
    BY DEF StateOf, AreaStatus, Unset
  <2>3. Outcome(m, a, areas[a], areas'[a])
    BY <1>1, HandledArea
  <2>4. CASE Untouched(areas[a], areas'[a])
    BY <1>1, <2>4 DEF Untouched
  <2>5. CASE ByteStored(m, areas[a], areas'[a])
    BY <1>1, <2>1, <2>2, <2>5 DEF ByteStored, Unset
  <2> QED
    BY <1>1, <2>3, <2>4, <2>5 DEF Outcome, AlarmReported, AlarmLearnt, StatusStored
<1>2. IInv => [StayArmStep]_vars
  BY <1>1 DEF StayArmStep
<1> QED
  BY <1>2, Inductive, PTL DEF StayArmKept

=============================================================================
