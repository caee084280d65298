--------------------------- MODULE MqttMgrProofs ---------------------------
(***************************************************************************)
(* Theorems about MqttMgr, for any areas and zones, any payloads and any   *)
(* number of reports, losses and messages: the types, the socket that the  *)
(* callbacks push to, and that the topics mirror the reports.              *)
(***************************************************************************)
EXTENDS MqttMgr, SequenceTheorems, TLAPS

-----------------------------------------------------------------------------
(***************************************************************************)
(* Facts about queues.                                                     *)
(***************************************************************************)

\* What is left of a queue when its first element was taken.
LEMMA Taken ==
  ASSUME NEW S, NEW s \in Seq(S), s # << >>
  PROVE  /\ Head(s) \in S /\ Head(s) = s[1] /\ 1 \in 1..Len(s)
         /\ Tail(s) \in Seq(S)
         /\ \A i \in 1..Len(Tail(s)) :
              i \in Nat /\ i + 1 \in 1..Len(s) /\ Tail(s)[i] = s[i + 1]
OBVIOUS

\* What a queue holds when one element was added.
LEMMA Added ==
  ASSUME NEW S, NEW s \in Seq(S), NEW e \in S
  PROVE  /\ Append(s, e) = s \o <<e>>
         /\ Append(s, e) \in Seq(S)
         /\ \A i \in 1..Len(Append(s, e)) :
              \/ i \in 1..Len(s) /\ Append(s, e)[i] = s[i]
              \/ i = Len(s) + 1 /\ Append(s, e)[i] = e
OBVIOUS

\* One before two are three.
LEMMA OneAndTwo ==
  ASSUME NEW c, NEW p, NEW q
  PROVE  <<c>> \o <<p, q>> = <<c, p, q>> /\ << >> \o <<p, q>> = <<p, q>>
<1> DEFINE S == {c, p, q}
           u == <<c>> \o <<p, q>>
<1>2. u \in Seq(S) /\ Len(u) = 3 /\ u[1] = c /\ u[2] = p /\ u[3] = q
  OBVIOUS
<1> HIDE DEF S, u
<1>4. u = <<c, p, q>>
  BY <1>2
<1> QED
  BY <1>4 DEF u

-----------------------------------------------------------------------------
(***************************************************************************)
(* The types.                                                              *)
(***************************************************************************)

\* The library takes what it is given, or refuses it and keeps what it has.
LEMMA Accepted ==
  ASSUME outbox \in Seq(Sendings), NEW ms \in Seq(Sendings)
  PROVE  Accept(ms) \in Seq(Sendings)
BY DEF Accept

\* The calls for the daemon itself are calls, ...
LEMMA SendingsOfDaemon ==
  /\ UtilityTopic \in ControlTopics
  /\ <<Online>> \in Seq(Sendings) /\ <<Subscribe(UtilityTopic)>> \in Seq(Sendings)
<1>1. UtilityTopic \in ControlTopics
  BY DEF UtilityTopic, ControlTopics
<1>2. Online \in Sendings /\ Subscribe(UtilityTopic) \in Sendings
  BY <1>1 DEF Sendings, Subscribe
<1> QED
  BY <1>1, <1>2

\* What is sent of a report has only topics of its area, or of its zone.
LEMMA SendingsOfArea ==
  ASSUME NEW r \in Reports(Areas)
  PROVE  mqtt_area_report(r) \in Seq(Sendings)
<1>1. r.of \in Areas /\ r.n \in Nat
  BY DEF Reports
<1>2. <<r.of, "status">> \in Topics /\ <<r.of, "state">> \in Topics
      /\ <<r.of, "set">> \in ControlTopics
  BY <1>1 DEF Topics, ControlTopics
<1>3. /\ Publish(<<r.of, "status">>, r.n) \in Sendings
      /\ Publish(<<r.of, "state">>, r.n) \in Sendings
      /\ Subscribe(<<r.of, "set">>) \in Sendings
  BY <1>1, <1>2 DEF Sendings, Publish, Subscribe
<1>4. <<Publish(<<r.of, "status">>, r.n), Publish(<<r.of, "state">>, r.n)>>
        \in Seq(Sendings)
      /\ <<Subscribe(<<r.of, "set">>)>> \in Seq(Sendings)
      /\ << >> \in Seq(Sendings)
  BY <1>3
<1> QED
  BY <1>4 DEF mqtt_area_report

\* ... and so are those of a report of a zone.
LEMMA SendingsOfZone ==
  ASSUME NEW r \in Reports(Zones)
  PROVE  mqtt_zone_report(r) \in Seq(Sendings)
<1>1. r.of \in Zones /\ r.n \in Nat
  BY DEF Reports
<1>2. /\ <<r.of, "status">> \in Topics /\ <<r.of, "alarm">> \in Topics
      /\ <<r.of, "state">> \in Topics
  BY <1>1 DEF Topics
<1>3. /\ Publish(<<r.of, "status">>, r.n) \in Sendings
      /\ Publish(<<r.of, "alarm">>, r.n) \in Sendings
      /\ Publish(<<r.of, "state">>, r.n) \in Sendings
  BY <1>1, <1>2 DEF Sendings, Publish
<1> QED
  BY <1>3 DEF mqtt_zone_report

\* A report carries the next number of its area or zone.
LEMMA NextReport ==
  ASSUME reported \in [Topics -> Nat], NEW things, NEW x \in things,
         <<x, "status">> \in Topics
  PROVE  /\ ReportOf(x) \in Reports(things)
         /\ ReportOf(x).of = x /\ ReportOf(x).n = reported[<<x, "status">>] + 1
BY DEF ReportOf, Reports

\* A message that is understood becomes a command for an area, or a key.
LEMMA UnderstoodIsCommand ==
  ASSUME NEW m \in [topic: ControlTopics, payload: Payloads],
         NEW cs \in Understood(m)
  PROVE  cs \in Seq(Commands)
<1>1. CASE m.topic = UtilityTopic
  <2>1. [type |-> "CMD_UTILITY_KEY", num |-> "key", command |-> m.payload] \in Commands
    BY DEF Commands
  <2>2. cs = <<[type |-> "CMD_UTILITY_KEY", num |-> "key", command |-> m.payload]>>
    BY <1>1 DEF Understood
  <2> QED
    BY <2>1, <2>2
<1>2. CASE m.topic # UtilityTopic /\ m.payload \in {"ARM_AWAY", "ARM_HOME", "DISARM"}
  <2>1. m.topic \in Areas \X {"set"}
    BY <1>2 DEF ControlTopics, UtilityTopic
  <2>2. m.topic[1] \in Areas
    BY <2>1
  <2>3. [type |-> "CMD_AREA_CONTROL", num |-> m.topic[1], command |-> m.payload]
          \in Commands
    BY <1>2, <2>2 DEF Commands
  <2>4. \/ cs = << >>
        \/ cs = <<[type |-> "CMD_AREA_CONTROL", num |-> m.topic[1],
                   command |-> m.payload]>>
    BY <1>2 DEF Understood
  <2>5. << >> \in Seq(Commands) /\ \A c \in Commands : <<c>> \in Seq(Commands)
    OBVIOUS
  <2> QED
    BY <2>3, <2>4, <2>5, Zenon
<1>3. CASE m.topic # UtilityTopic /\ m.payload \notin {"ARM_AWAY", "ARM_HOME", "DISARM"}
  BY <1>3 DEF Understood
<1> QED
  BY <1>1, <1>2, <1>3

\* TypeOK in four parts.
PlaceTypes ==
  /\ thread \in {"starting", "bound", "polling", "stopping", "closing", "exited"}
  /\ socket \in {"none", "open", "closed"}
  /\ client \in {"connecting", "connected", "lost", "disconnecting",
                 "disconnected", "destroyed"}
  /\ due \subseteq {"onConnect", "onDisconnect", "onDisconnectFailure"}
  /\ subs \subseteq ControlTopics
  /\ lwt \in {"none", "online", "offline"}
  /\ losses \in 0..MaxLosses

FlagTypes == mqtt_disconnected \in BOOLEAN /\ session \in BOOLEAN

QueueTypes ==
  /\ areaReports \in Seq(Reports(Areas)) /\ zoneReports \in Seq(Reports(Zones))
  /\ todo \in Seq(Sendings) /\ outbox \in Seq(Sendings)
  /\ commands \in Seq(Commands) /\ callback \in Seq(Commands)
  /\ inbox \in Seq([topic: ControlTopics, payload: Payloads])

TopicTypes == shown \in [Topics -> Nat] /\ reported \in [Topics -> Nat]

\* TypeOK in parts, so that a step has to touch only some of them.
LEMMA PartsOfTypeOK == TypeOK <=> PlaceTypes /\ FlagTypes /\ QueueTypes /\ TopicTypes
BY DEF TypeOK, PlaceTypes, FlagTypes, QueueTypes, TopicTypes

\* The types hold at first ...
LEMMA InitTypes == Init => TypeOK
<1> SUFFICES ASSUME Init PROVE TypeOK
  OBVIOUS
<1>1. PlaceTypes
  BY BoundsAssumption DEF Init, PlaceTypes
<1>2. FlagTypes
  BY DEF Init, FlagTypes
<1>3. QueueTypes
  BY DEF Init, QueueTypes
<1>4. TopicTypes
  BY DEF Init, TopicTypes
<1> QED
  BY <1>1, <1>2, <1>3, <1>4, PartsOfTypeOK

\* ... and every step of the thread, the library and the broker keeps them.
LEMMA StepTypes == TypeOK /\ [Next]_vars => TypeOK'
<1> SUFFICES ASSUME TypeOK, [Next]_vars
             PROVE  (PlaceTypes /\ FlagTypes /\ QueueTypes /\ TopicTypes)'
  BY DEF TypeOK, PlaceTypes, FlagTypes, QueueTypes, TopicTypes
<1>0. PlaceTypes /\ FlagTypes /\ QueueTypes /\ TopicTypes
  BY PartsOfTypeOK
<1>1. CASE OpenSockets
  <2>1. PlaceTypes'
    BY <1>0, <1>1 DEF OpenSockets, library, broker, PlaceTypes
  <2>2. FlagTypes'
    BY <1>0, <1>1 DEF OpenSockets, broker, FlagTypes
  <2>3. QueueTypes'
    BY <1>0, <1>1 DEF OpenSockets, library, QueueTypes
  <2>4. TopicTypes'
    BY <1>0, <1>1 DEF OpenSockets, broker, TopicTypes
  <2> QED
    BY <2>1, <2>2, <2>3, <2>4
<1>2. CASE StartFails
  <2>1. PlaceTypes'
    BY <1>0, <1>2 DEF StartFails, mqtt_stop, broker, PlaceTypes
  <2>2. FlagTypes'
    BY <1>0, <1>2 DEF StartFails, broker, FlagTypes
  <2>3. QueueTypes'
    BY <1>0, <1>2 DEF StartFails, QueueTypes
  <2>4. TopicTypes'
    BY <1>0, <1>2 DEF StartFails, broker, TopicTypes
  <2> QED
    BY <2>1, <2>2, <2>3, <2>4
<1>3. CASE mqtt_subscribe
  <2>1. PlaceTypes'
    BY <1>0, <1>3 DEF mqtt_subscribe, broker, PlaceTypes
  <2>2. FlagTypes'
    BY <1>0, <1>3 DEF mqtt_subscribe, broker, FlagTypes
  <2>3. QueueTypes'
    BY <1>0, <1>3, Accepted, SendingsOfDaemon DEF mqtt_subscribe, QueueTypes
  <2>4. TopicTypes'
    BY <1>0, <1>3 DEF mqtt_subscribe, broker, TopicTypes
  <2> QED
    BY <2>1, <2>2, <2>3, <2>4
<1>4. CASE ReceiveKill
  <2>1. PlaceTypes'
    BY <1>0, <1>4 DEF ReceiveKill, mqtt_stop, broker, PlaceTypes
  <2>2. FlagTypes'
    BY <1>0, <1>4 DEF ReceiveKill, broker, FlagTypes
  <2>3. QueueTypes'
    BY <1>0, <1>4 DEF ReceiveKill, QueueTypes
  <2>4. TopicTypes'
    BY <1>0, <1>4 DEF ReceiveKill, broker, TopicTypes
  <2> QED
    BY <2>1, <2>2, <2>3, <2>4
<1>5. CASE TakeAreaReport
  <2>1. PlaceTypes'
    BY <1>0, <1>5 DEF TakeAreaReport, library, broker, PlaceTypes
  <2>2. FlagTypes'
    BY <1>0, <1>5 DEF TakeAreaReport, broker, FlagTypes
  <2>3. QueueTypes'
    BY <1>0, <1>5, SendingsOfArea DEF TakeAreaReport, library, QueueTypes
  <2>4. TopicTypes'
    BY <1>0, <1>5 DEF TakeAreaReport, broker, TopicTypes
  <2> QED
    BY <2>1, <2>2, <2>3, <2>4
<1>6. CASE TakeZoneReport
  <2>1. PlaceTypes'
    BY <1>0, <1>6 DEF TakeZoneReport, library, broker, PlaceTypes
  <2>2. FlagTypes'
    BY <1>0, <1>6 DEF TakeZoneReport, broker, FlagTypes
  <2>3. QueueTypes'
    BY <1>0, <1>6, SendingsOfZone DEF TakeZoneReport, library, QueueTypes
  <2>4. TopicTypes'
    BY <1>0, <1>6 DEF TakeZoneReport, broker, TopicTypes
  <2> QED
    BY <2>1, <2>2, <2>3, <2>4
<1>7. CASE Send
  <2>1. PlaceTypes'
    BY <1>0, <1>7 DEF Send, PlaceTypes, broker
  <2>2. FlagTypes'
    BY <1>0, <1>7 DEF Send, FlagTypes, broker
  <2>3. QueueTypes'
    <3>1. <<Head(todo)>> \in Seq(Sendings) /\ Tail(todo) \in Seq(Sendings)
      BY <1>0, <1>7 DEF Send, QueueTypes
    <3> QED
      BY <1>0, <1>7, <3>1, Accepted DEF Send, QueueTypes
  <2>4. TopicTypes'
    BY <1>0, <1>7 DEF Send, TopicTypes, broker
  <2> QED
    BY <2>1, <2>2, <2>3, <2>4
<1>8. CASE PollTimeout
  <2>1. PlaceTypes'
    BY <1>0, <1>8 DEF PollTimeout, own, broker, PlaceTypes
  <2>2. FlagTypes'
    BY <1>0, <1>8 DEF PollTimeout, own, broker, FlagTypes
  <2>3. QueueTypes'
    BY <1>0, <1>8, Accepted, SendingsOfDaemon
       DEF PollTimeout, mqtt_send_lwt, own, QueueTypes
  <2>4. TopicTypes'
    BY <1>0, <1>8 DEF PollTimeout, broker, TopicTypes
  <2> QED
    BY <2>1, <2>2, <2>3, <2>4
<1>9. CASE Destroy
  <2>1. PlaceTypes'
    BY <1>0, <1>9 DEF Destroy, broker, PlaceTypes
  <2>2. FlagTypes'
    BY <1>0, <1>9 DEF Destroy, broker, FlagTypes
  <2>3. QueueTypes'
    BY <1>0, <1>9 DEF Destroy, QueueTypes
  <2>4. TopicTypes'
    BY <1>0, <1>9 DEF Destroy, broker, TopicTypes
  <2> QED
    BY <2>1, <2>2, <2>3, <2>4
<1>10. CASE CloseSockets
  <2>1. PlaceTypes'
    BY <1>0, <1>10 DEF CloseSockets, library, broker, PlaceTypes
  <2>2. FlagTypes'
    BY <1>0, <1>10 DEF CloseSockets, broker, FlagTypes
  <2>3. QueueTypes'
    BY <1>0, <1>10 DEF CloseSockets, library, QueueTypes
  <2>4. TopicTypes'
    BY <1>0, <1>10 DEF CloseSockets, broker, TopicTypes
  <2> QED
    BY <2>1, <2>2, <2>3, <2>4
<1>11. CASE OnConnect
  <2>1. PlaceTypes'
    BY <1>0, <1>11 DEF OnConnect, own, broker, PlaceTypes
  <2>2. FlagTypes'
    BY <1>0, <1>11 DEF OnConnect, own, broker, FlagTypes
  <2>3. QueueTypes'
    BY <1>0, <1>11, Accepted, SendingsOfDaemon
       DEF OnConnect, mqtt_send_lwt, own, QueueTypes
  <2>4. TopicTypes'
    BY <1>0, <1>11 DEF OnConnect, broker, TopicTypes
  <2> QED
    BY <2>1, <2>2, <2>3, <2>4
<1>12. CASE OnDisconnect
  <2>1. PlaceTypes'
    BY <1>0, <1>12 DEF OnDisconnect, broker, PlaceTypes
  <2>2. FlagTypes'
    BY <1>0, <1>12 DEF OnDisconnect, broker, FlagTypes
  <2>3. QueueTypes'
    BY <1>0, <1>12 DEF OnDisconnect, QueueTypes
  <2>4. TopicTypes'
    BY <1>0, <1>12 DEF OnDisconnect, broker, TopicTypes
  <2> QED
    BY <2>1, <2>2, <2>3, <2>4
<1>13. CASE mqtt_area_control
  <2>1. PlaceTypes'
    BY <1>0, <1>13 DEF mqtt_area_control, PlaceTypes, own, broker
  <2>2. FlagTypes'
    BY <1>0, <1>13 DEF mqtt_area_control, FlagTypes, own, broker
  <2>3. QueueTypes'
    <3>1. /\ Head(inbox) \in [topic: ControlTopics, payload: Payloads]
          /\ Tail(inbox) \in Seq([topic: ControlTopics, payload: Payloads])
      BY <1>0, <1>13, Taken DEF mqtt_area_control, QueueTypes
    <3>2. callback' \in Seq(Commands)
      BY <1>13, <3>1, UnderstoodIsCommand DEF mqtt_area_control
    <3> QED
      BY <1>0, <1>13, <3>1, <3>2 DEF mqtt_area_control, QueueTypes, own
  <2>4. TopicTypes'
    BY <1>0, <1>13 DEF mqtt_area_control, TopicTypes, broker
  <2> QED
    BY <2>1, <2>2, <2>3, <2>4
<1>14. CASE Connects
  <2>1. PlaceTypes'
    BY <1>0, <1>14 DEF Connects, NewSession, own, PlaceTypes
  <2>2. FlagTypes'
    BY <1>0, <1>14 DEF Connects, NewSession, own, FlagTypes
  <2>3. QueueTypes'
    BY <1>0, <1>14 DEF Connects, own, QueueTypes
  <2>4. TopicTypes'
    BY <1>0, <1>14 DEF Connects, NewSession, TopicTypes
  <2> QED
    BY <2>1, <2>2, <2>3, <2>4
<1>15. CASE ConnectFails
  <2>1. PlaceTypes'
    BY <1>0, <1>15 DEF ConnectFails, own, broker, PlaceTypes
  <2>2. FlagTypes'
    BY <1>0, <1>15 DEF ConnectFails, own, broker, FlagTypes
  <2>3. QueueTypes'
    BY <1>0, <1>15 DEF ConnectFails, own, QueueTypes
  <2>4. TopicTypes'
    BY <1>0, <1>15 DEF ConnectFails, broker, TopicTypes
  <2> QED
    BY <2>1, <2>2, <2>3, <2>4
<1>16. CASE ConnectionLost
  <2>1. PlaceTypes'
    BY <1>0, <1>16, BoundsAssumption DEF ConnectionLost, PlaceTypes, own, broker
  <2>2. FlagTypes'
    BY <1>0, <1>16 DEF ConnectionLost, FlagTypes, own, broker
  <2>3. QueueTypes'
    BY <1>0, <1>16 DEF ConnectionLost, QueueTypes, own
  <2>4. TopicTypes'
    BY <1>0, <1>16 DEF ConnectionLost, TopicTypes, broker
  <2> QED
    BY <2>1, <2>2, <2>3, <2>4
<1>17. CASE Reconnects
  <2>1. PlaceTypes'
    BY <1>0, <1>17 DEF Reconnects, NewSession, own, PlaceTypes
  <2>2. FlagTypes'
    BY <1>0, <1>17 DEF Reconnects, NewSession, own, FlagTypes
  <2>3. QueueTypes'
    BY <1>0, <1>17 DEF Reconnects, own, QueueTypes
  <2>4. TopicTypes'
    BY <1>0, <1>17 DEF Reconnects, NewSession, TopicTypes
  <2> QED
    BY <2>1, <2>2, <2>3, <2>4
<1>18. CASE SessionEnds
  <2>1. PlaceTypes'
    BY <1>0, <1>18 DEF SessionEnds, own, library, PlaceTypes
  <2>2. FlagTypes'
    BY <1>0, <1>18 DEF SessionEnds, own, FlagTypes
  <2>3. QueueTypes'
    BY <1>0, <1>18 DEF SessionEnds, own, library, QueueTypes
  <2>4. TopicTypes'
    BY <1>0, <1>18 DEF SessionEnds, TopicTypes
  <2> QED
    BY <2>1, <2>2, <2>3, <2>4
<1>19. CASE Deliver
  <2>1. Head(outbox) \in Sendings
    BY <1>0, <1>19 DEF Deliver, QueueTypes
  <2>2. PlaceTypes'
    BY <1>0, <1>19, <2>1 DEF Deliver, PlaceTypes, Sendings, Online, own
  <2>3. FlagTypes'
    BY <1>0, <1>19 DEF Deliver, FlagTypes, own
  <2>4. QueueTypes'
    BY <1>0, <1>19 DEF Deliver, QueueTypes, own
  <2>5. TopicTypes'
    <3>1. Head(outbox).kind = "publish" => Head(outbox).n \in Nat
      BY <2>1 DEF Sendings, Online
    <3>2. shown' \in [Topics -> Nat]
      BY <1>0, <1>19, <3>1 DEF Deliver, TopicTypes
    <3> QED
      BY <1>0, <1>19, <3>2 DEF Deliver, TopicTypes
  <2> QED
    BY <2>2, <2>3, <2>4, <2>5
<1>20. CASE MessageArrives
  <2>1. PlaceTypes'
    BY <1>0, <1>20 DEF MessageArrives, PlaceTypes, own, broker
  <2>2. FlagTypes'
    BY <1>0, <1>20 DEF MessageArrives, FlagTypes, own, broker
  <2>3. QueueTypes'
    <3>1. PICK t \in subs, p \in Payloads :
            inbox' = Append(inbox, [topic |-> t, payload |-> p])
      BY <1>20 DEF MessageArrives
    <3>2. [topic |-> t, payload |-> p] \in [topic: ControlTopics, payload: Payloads]
      BY <1>0 DEF PlaceTypes
    <3>3. inbox' \in Seq([topic: ControlTopics, payload: Payloads])
      BY <1>0, <3>1, <3>2 DEF QueueTypes
    <3> QED
      BY <1>0, <1>20, <3>3 DEF MessageArrives, QueueTypes, own
  <2>4. TopicTypes'
    BY <1>0, <1>20 DEF MessageArrives, TopicTypes, broker
  <2> QED
    BY <2>1, <2>2, <2>3, <2>4
<1>21. CASE Disconnected
  <2>1. PlaceTypes'
    BY <1>0, <1>21 DEF Disconnected, own, PlaceTypes
  <2>2. FlagTypes'
    BY <1>0, <1>21 DEF Disconnected, own, FlagTypes
  <2>3. QueueTypes'
    BY <1>0, <1>21 DEF Disconnected, own, QueueTypes
  <2>4. TopicTypes'
    BY <1>0, <1>21 DEF Disconnected, TopicTypes
  <2> QED
    BY <2>1, <2>2, <2>3, <2>4
<1>22. CASE DisconnectFails
  <2>1. PlaceTypes'
    BY <1>0, <1>22 DEF DisconnectFails, own, broker, PlaceTypes
  <2>2. FlagTypes'
    BY <1>0, <1>22 DEF DisconnectFails, own, broker, FlagTypes
  <2>3. QueueTypes'
    BY <1>0, <1>22 DEF DisconnectFails, own, QueueTypes
  <2>4. TopicTypes'
    BY <1>0, <1>22 DEF DisconnectFails, broker, TopicTypes
  <2> QED
    BY <2>1, <2>2, <2>3, <2>4
<1>23. CASE AreaReported
  <2>0. PICK a \in Areas :
          areaReports' = Append(areaReports, ReportOf(a)) /\ Counted(a)
    BY <1>23 DEF AreaReported
  <2>1. PlaceTypes'
    BY <1>0, <1>23 DEF AreaReported, PlaceTypes, library, broker
  <2>2. FlagTypes'
    BY <1>0, <1>23 DEF AreaReported, FlagTypes, broker
  <2>3. QueueTypes'
    <3>1. <<a, "status">> \in Topics
      BY DEF Topics
    <3>2. ReportOf(a) \in Reports(Areas)
      BY <1>0, <3>1, NextReport DEF TopicTypes
    <3>3. areaReports' \in Seq(Reports(Areas))
      BY <1>0, <2>0, <3>2 DEF QueueTypes
    <3> QED
      BY <1>0, <1>23, <3>3 DEF AreaReported, QueueTypes, library
  <2>4. TopicTypes'
    BY <1>0, <1>23 DEF AreaReported, Counted, TopicTypes, broker
  <2> QED
    BY <2>1, <2>2, <2>3, <2>4
<1>24. CASE ZoneReported
  <2>0. PICK z \in Zones :
          zoneReports' = Append(zoneReports, ReportOf(z)) /\ Counted(z)
    BY <1>24 DEF ZoneReported
  <2>1. PlaceTypes'
    BY <1>0, <1>24 DEF ZoneReported, PlaceTypes, library, broker
  <2>2. FlagTypes'
    BY <1>0, <1>24 DEF ZoneReported, FlagTypes, broker
  <2>3. QueueTypes'
    <3>1. <<z, "status">> \in Topics
      BY DEF Topics
    <3>2. ReportOf(z) \in Reports(Zones)
      BY <1>0, <3>1, NextReport DEF TopicTypes
    <3>3. zoneReports' \in Seq(Reports(Zones))
      BY <1>0, <2>0, <3>2 DEF QueueTypes
    <3> QED
      BY <1>0, <1>24, <3>3 DEF ZoneReported, QueueTypes, library
  <2>4. TopicTypes'
    BY <1>0, <1>24 DEF ZoneReported, Counted, TopicTypes, broker
  <2> QED
    BY <2>1, <2>2, <2>3, <2>4
<1>25. CASE TakeCommand
  <2>1. PlaceTypes'
    BY <1>0, <1>25 DEF TakeCommand, own, library, broker, PlaceTypes
  <2>2. FlagTypes'
    BY <1>0, <1>25 DEF TakeCommand, own, broker, FlagTypes
  <2>3. QueueTypes'
    BY <1>0, <1>25 DEF TakeCommand, own, library, QueueTypes
  <2>4. TopicTypes'
    BY <1>0, <1>25 DEF TakeCommand, broker, TopicTypes
  <2> QED
    BY <2>1, <2>2, <2>3, <2>4
<1>26. CASE PushCommand
  <2>1. PlaceTypes'
    BY <1>0, <1>26 DEF PushCommand, own, broker, PlaceTypes
  <2>2. FlagTypes'
    BY <1>0, <1>26 DEF PushCommand, own, broker, FlagTypes
  <2>3. QueueTypes'
    <3>1. commands' \in Seq(Commands) /\ callback' \in Seq(Commands)
      BY <1>0, <1>26 DEF PushCommand, QueueTypes
    <3> QED
      BY <1>0, <1>26, <3>1 DEF PushCommand, own, QueueTypes
  <2>4. TopicTypes'
    BY <1>0, <1>26 DEF PushCommand, broker, TopicTypes
  <2> QED
    BY <2>1, <2>2, <2>3, <2>4
<1>27. CASE UNCHANGED vars
  BY <1>0, <1>27 DEF PlaceTypes, FlagTypes, QueueTypes, TopicTypes, vars, own,
     library, broker
<1> QED
  BY <1>1, <1>2, <1>3, <1>4, <1>5, <1>6, <1>7, <1>8, <1>9, <1>10, <1>11, <1>12,
     <1>13, <1>14, <1>15, <1>16, <1>17, <1>18, <1>19, <1>20, <1>21, <1>22,
     <1>23, <1>24, <1>25, <1>26, <1>27 DEF Next, Thread

\* The variables have their types, whatever the sizes of the instance.
THEOREM TypeCorrect == Spec => []TypeOK
<1> QED
  BY InitTypes, StepTypes, PTL DEF Spec

-----------------------------------------------------------------------------
(***************************************************************************)
(* The socket that the callbacks push to.                                  *)
(***************************************************************************)

\* Before the thread has opened the socket it has subscribed to nothing, so
\* that no message can arrive; when it closes it, the client is destroyed and
\* no callback is running.
SocketInv ==
  /\ thread \in {"bound", "polling"} => socket = "open"
  /\ socket = "none" =>
       /\ inbox = << >> /\ callback = << >> /\ subs = {} /\ todo = << >>
       /\ \A i \in 1..Len(outbox) : outbox[i].kind # "subscribe"
  /\ thread \in {"closing", "exited"} => client = "destroyed" /\ callback = << >>
  /\ socket = "closed" => thread = "exited"

\* A client that is not told to subscribe does not.
LEMMA AcceptedOnline ==
  ASSUME outbox \in Seq(Sendings),
         \A i \in 1..Len(outbox) : outbox[i].kind # "subscribe",
         outbox' = Accept(<<Online>>)
  PROVE  \A i \in 1..Len(outbox') : outbox'[i].kind # "subscribe"
<1>1. Online \in Sendings /\ Online.kind # "subscribe"
  BY DEF Online, Sendings
<1>2. CASE client = "connected"
  <2>1. outbox' = Append(outbox, Online)
    BY <1>2 DEF Accept
  <2> QED
    BY <1>1, <2>1, Added
<1> QED
  BY <1>2 DEF Accept

\* No step leaves a callback with a closed socket to push to.
LEMMA StepSocket == TypeOK /\ SocketInv /\ [Next]_vars => SocketInv'
<1> SUFFICES ASSUME TypeOK, SocketInv, [Next]_vars
             PROVE  SocketInv'
  OBVIOUS
<1>0. /\ outbox \in Seq(Sendings)
      /\ socket \in {"none", "open", "closed"}
      /\ thread \in {"starting", "bound", "polling", "stopping", "closing", "exited"}
  BY DEF TypeOK
<1>1. CASE OpenSockets
  BY <1>1 DEF OpenSockets, SocketInv
<1>2. CASE StartFails
  BY <1>2 DEF StartFails, mqtt_stop, SocketInv, broker
<1>3. CASE mqtt_subscribe
  BY <1>3 DEF mqtt_subscribe, SocketInv
<1>4. CASE ReceiveKill
  BY <1>4 DEF ReceiveKill, mqtt_stop, Polling, SocketInv
<1>5. CASE TakeAreaReport
  BY <1>5 DEF TakeAreaReport, Polling, SocketInv
<1>6. CASE TakeZoneReport
  BY <1>6 DEF TakeZoneReport, Polling, SocketInv
<1>7. CASE Send
  BY <1>7 DEF Send, SocketInv
<1>8. CASE Destroy
  BY <1>8 DEF Destroy, SocketInv, broker
<1>9. CASE CloseSockets
  BY <1>9 DEF CloseSockets, SocketInv, library, broker
<1>10. CASE OnDisconnect
  BY <1>10 DEF OnDisconnect, SocketInv, broker
<1>11. CASE mqtt_area_control
  BY <1>11 DEF mqtt_area_control, SocketInv, own
<1>12. CASE Connects
  BY <1>12 DEF Connects, NewSession, SocketInv, own
<1>13. CASE ConnectFails
  BY <1>13 DEF ConnectFails, SocketInv, own, broker
<1>14. CASE ConnectionLost
  BY <1>14 DEF ConnectionLost, SocketInv, own, broker
<1>15. CASE Reconnects
  BY <1>15 DEF Reconnects, NewSession, SocketInv, own
<1>16. CASE SessionEnds
  BY <1>16 DEF SessionEnds, SocketInv, own, library
<1>17. CASE MessageArrives
  BY <1>17 DEF MessageArrives, SocketInv, own
<1>18. CASE Disconnected
  BY <1>18 DEF Disconnected, SocketInv, own
<1>19. CASE DisconnectFails
  BY <1>19 DEF DisconnectFails, SocketInv, own, broker
<1>20. CASE AreaReported
  BY <1>20 DEF AreaReported, SocketInv, library, broker
<1>21. CASE ZoneReported
  BY <1>21 DEF ZoneReported, SocketInv, library, broker
<1>22. CASE TakeCommand
  BY <1>22 DEF TakeCommand, SocketInv, own, library, broker
<1>23. CASE PollTimeout
  <2>1. socket = "none" => \A i \in 1..Len(outbox') : outbox'[i].kind # "subscribe"
    BY <1>23, AcceptedOnline DEF PollTimeout, mqtt_send_lwt
  <2> QED
    BY <1>23, <2>1 DEF PollTimeout, SocketInv, own, broker
<1>24. CASE OnConnect
  <2>1. socket = "none" => \A i \in 1..Len(outbox') : outbox'[i].kind # "subscribe"
    BY <1>0, <1>24, AcceptedOnline DEF OnConnect, mqtt_send_lwt, SocketInv
  <2> QED
    BY <1>24, <2>1 DEF OnConnect, SocketInv, own, broker
<1>25. CASE Deliver
  <2> QED
    BY <1>25 DEF Deliver, SocketInv, own
<1>26. CASE PushCommand
  BY <1>26 DEF PushCommand, SocketInv, own, broker
<1>27. CASE UNCHANGED vars
  BY <1>27 DEF SocketInv, vars, own, library, broker
<1> QED
  BY <1>1, <1>2, <1>3, <1>4, <1>5, <1>6, <1>7, <1>8, <1>9, <1>10, <1>11, <1>12,
     <1>13, <1>14, <1>15, <1>16, <1>17, <1>18, <1>19, <1>20, <1>21, <1>22,
     <1>23, <1>24, <1>25, <1>26, <1>27 DEF Next, Thread

\* mqtt_area_control, which the library calls, pushes to a socket that is open
\* from its start to its end: the thread subscribes after opening it and destroys
\* the client, which waits for a callback that runs, before closing it.
THEOREM CallbacksPushToOpenSocket == Spec => []CommandSocketOpen
<1>1. Init => SocketInv
  BY DEF Init, SocketInv
<1>2. TypeOK /\ SocketInv => CommandSocketOpen
  BY DEF TypeOK, SocketInv, CommandSocketOpen
<1> QED
  BY <1>1, <1>2, TypeCorrect, StepSocket, PTL DEF Spec

-----------------------------------------------------------------------------
(***************************************************************************)
(* The mirror.  What is on its way to a topic (in the library, in the      *)
(* hands of the thread, in a queue of reports) carries rising numbers, all *)
(* above the one shown and none above the reports made.                    *)
(***************************************************************************)
For(m, t) == m.kind = "publish" /\ m.topic = t
Of(r, t) == r.of = t[1]

\* Sendings for a topic: their numbers are in range, and rise.
Within(s, t, lo, hi) ==
  \A i \in 1..Len(s) : For(s[i], t) => lo < s[i].n /\ s[i].n <= hi

Rising(s, t) ==
  \A i, j \in 1..Len(s) : i < j /\ For(s[i], t) /\ For(s[j], t) => s[i].n < s[j].n

\* The same of reports.
WithinReports(rs, t, lo, hi) ==
  \A i \in 1..Len(rs) : Of(rs[i], t) => lo < rs[i].n /\ rs[i].n <= hi

RisingReports(rs, t) ==
  \A i, j \in 1..Len(rs) : i < j /\ Of(rs[i], t) /\ Of(rs[j], t) => rs[i].n < rs[j].n

\* What is sent first is older than what is sent, or was reported, later.
Ahead(s, u, t) ==
  \A i \in 1..Len(s), j \in 1..Len(u) :
    For(s[i], t) /\ For(u[j], t) => s[i].n < u[j].n

AheadOfReports(s, rs, t) ==
  \A i \in 1..Len(s), j \in 1..Len(rs) :
    For(s[i], t) /\ Of(rs[j], t) => s[i].n < rs[j].n

SendingsOrder(t) ==
  /\ Within(outbox, t, shown[t], reported[t]) /\ Rising(outbox, t)
  /\ Within(todo, t, shown[t], reported[t]) /\ Rising(todo, t)
  /\ Ahead(outbox, todo, t)

ReportsOrder(rs, t) ==
  /\ WithinReports(rs, t, shown[t], reported[t]) /\ RisingReports(rs, t)
  /\ AheadOfReports(outbox, rs, t) /\ AheadOfReports(todo, rs, t)

\* A report is one for all the topics of its area or zone.
CountsFit(t) ==
  /\ shown[t] <= reported[t]
  /\ reported[t] = reported[<<t[1], "status">>]

OrderInv ==
  \A t \in Topics :
    /\ SendingsOrder(t)
    /\ ReportsOrder(areaReports, t) /\ ReportsOrder(zoneReports, t)
    /\ CountsFit(t)

\* Nothing is disturbed when the first of the sendings is taken away,
LEMMA FirstSendingGone ==
  ASSUME NEW s \in Seq(Sendings), s # << >>, NEW t
  PROVE  /\ \A lo, hi : Within(s, t, lo, hi) => Within(Tail(s), t, lo, hi)
         /\ Rising(s, t) => Rising(Tail(s), t)
         /\ \A u : Ahead(s, u, t) => Ahead(Tail(s), u, t)
         /\ \A u : Ahead(u, s, t) => Ahead(u, Tail(s), t)
         /\ \A rs : AheadOfReports(s, rs, t) => AheadOfReports(Tail(s), rs, t)
<1>2. \A lo, hi : Within(s, t, lo, hi) => Within(Tail(s), t, lo, hi)
  BY DEF Within
<1>3. Rising(s, t) => Rising(Tail(s), t)
  <2> SUFFICES ASSUME Rising(s, t),
                      NEW i \in 1..Len(Tail(s)), NEW j \in 1..Len(Tail(s)),
                      i < j, For(Tail(s)[i], t), For(Tail(s)[j], t)
               PROVE  Tail(s)[i].n < Tail(s)[j].n
    BY DEF Rising
  <2> QED
    BY DEF Rising
<1>4. \A u : Ahead(s, u, t) => Ahead(Tail(s), u, t)
  BY DEF Ahead
<1>5. \A u : Ahead(u, s, t) => Ahead(u, Tail(s), t)
  BY DEF Ahead
<1>6. \A rs : AheadOfReports(s, rs, t) => AheadOfReports(Tail(s), rs, t)
  BY DEF AheadOfReports
<1> QED
  BY <1>2, <1>3, <1>4, <1>5, <1>6

\* or the first of the reports.
LEMMA FirstReportGone ==
  ASSUME NEW things, NEW rs \in Seq(Reports(things)), rs # << >>, NEW t
  PROVE  /\ \A lo, hi : WithinReports(rs, t, lo, hi) => WithinReports(Tail(rs), t, lo, hi)
         /\ RisingReports(rs, t) => RisingReports(Tail(rs), t)
         /\ \A s : AheadOfReports(s, rs, t) => AheadOfReports(s, Tail(rs), t)
<1>2. \A lo, hi : WithinReports(rs, t, lo, hi) => WithinReports(Tail(rs), t, lo, hi)
  BY DEF WithinReports
<1>3. RisingReports(rs, t) => RisingReports(Tail(rs), t)
  <2> SUFFICES ASSUME RisingReports(rs, t),
                      NEW i \in 1..Len(Tail(rs)), NEW j \in 1..Len(Tail(rs)),
                      i < j, Of(Tail(rs)[i], t), Of(Tail(rs)[j], t)
               PROVE  Tail(rs)[i].n < Tail(rs)[j].n
    BY DEF RisingReports
  <2> QED
    BY DEF RisingReports
<1>4. \A s : AheadOfReports(s, rs, t) => AheadOfReports(s, Tail(rs), t)
  BY DEF AheadOfReports
<1> QED
  BY <1>2, <1>3, <1>4

\* A sending that joins the ones before it, and is not older than they are.
LEMMA SendingJoins ==
  ASSUME NEW s \in Seq(Sendings), NEW m \in Sendings, NEW t,
         For(m, t) => \A i \in 1..Len(s) : For(s[i], t) => s[i].n < m.n
  PROVE  /\ \A lo, hi : /\ Within(s, t, lo, hi)
                        /\ For(m, t) => lo < m.n /\ m.n <= hi
                        => Within(Append(s, m), t, lo, hi)
         /\ Rising(s, t) => Rising(Append(s, m), t)
         /\ \A u : /\ Ahead(s, u, t)
                   /\ For(m, t) => \A j \in 1..Len(u) : For(u[j], t) => m.n < u[j].n
                   => Ahead(Append(s, m), u, t)
         /\ \A rs : /\ AheadOfReports(s, rs, t)
                    /\ For(m, t) => \A j \in 1..Len(rs) : Of(rs[j], t) => m.n < rs[j].n
                    => AheadOfReports(Append(s, m), rs, t)
<1>2. \A lo, hi : /\ Within(s, t, lo, hi)
                  /\ For(m, t) => lo < m.n /\ m.n <= hi
                  => Within(Append(s, m), t, lo, hi)
  BY DEF Within
<1>3. Rising(s, t) => Rising(Append(s, m), t)
  <2> SUFFICES ASSUME Rising(s, t),
                      NEW i \in 1..Len(Append(s, m)), NEW j \in 1..Len(Append(s, m)),
                      i < j, For(Append(s, m)[i], t), For(Append(s, m)[j], t)
               PROVE  Append(s, m)[i].n < Append(s, m)[j].n
    BY DEF Rising
  <2> QED
    BY DEF Rising
<1>4. \A u : /\ Ahead(s, u, t)
             /\ For(m, t) => \A j \in 1..Len(u) : For(u[j], t) => m.n < u[j].n
             => Ahead(Append(s, m), u, t)
  BY DEF Ahead
<1>5. \A rs : /\ AheadOfReports(s, rs, t)
              /\ For(m, t) => \A j \in 1..Len(rs) : Of(rs[j], t) => m.n < rs[j].n
              => AheadOfReports(Append(s, m), rs, t)
  BY DEF AheadOfReports
<1> QED
  BY <1>2, <1>3, <1>4, <1>5

\* A report that joins the ones before it, and is newer than they are.
LEMMA ReportJoins ==
  ASSUME NEW things, NEW rs \in Seq(Reports(things)), NEW r \in Reports(things), NEW t,
         Of(r, t) => \A i \in 1..Len(rs) : Of(rs[i], t) => rs[i].n < r.n
  PROVE  /\ \A lo, hi : /\ WithinReports(rs, t, lo, hi)
                        /\ Of(r, t) => lo < r.n /\ r.n <= hi
                        => WithinReports(Append(rs, r), t, lo, hi)
         /\ RisingReports(rs, t) => RisingReports(Append(rs, r), t)
         /\ \A s : /\ AheadOfReports(s, rs, t)
                   /\ Of(r, t) => \A i \in 1..Len(s) : For(s[i], t) => s[i].n < r.n
                   => AheadOfReports(s, Append(rs, r), t)
<1>2. \A lo, hi : /\ WithinReports(rs, t, lo, hi)
                  /\ Of(r, t) => lo < r.n /\ r.n <= hi
                  => WithinReports(Append(rs, r), t, lo, hi)
  BY DEF WithinReports
<1>3. RisingReports(rs, t) => RisingReports(Append(rs, r), t)
  <2> SUFFICES ASSUME RisingReports(rs, t),
                      NEW i \in 1..Len(Append(rs, r)), NEW j \in 1..Len(Append(rs, r)),
                      i < j, Of(Append(rs, r)[i], t), Of(Append(rs, r)[j], t)
               PROVE  Append(rs, r)[i].n < Append(rs, r)[j].n
    BY DEF RisingReports
  <2> QED
    BY DEF RisingReports
<1>4. \A s : /\ AheadOfReports(s, rs, t)
             /\ Of(r, t) => \A i \in 1..Len(s) : For(s[i], t) => s[i].n < r.n
             => AheadOfReports(s, Append(rs, r), t)
  BY DEF AheadOfReports
<1> QED
  BY <1>2, <1>3, <1>4

\* What is sent of a report is for topics of its area or zone, has its number,
\* and is one message for each.
LEMMA SentOfArea ==
  ASSUME NEW r \in Reports(Areas), NEW t
  PROVE  /\ \A i \in 1..Len(mqtt_area_report(r)) :
              For(mqtt_area_report(r)[i], t) => Of(r, t) /\ mqtt_area_report(r)[i].n = r.n
         /\ Rising(mqtt_area_report(r), t)
<1> DEFINE c == Subscribe(<<r.of, "set">>)
           p == Publish(<<r.of, "status">>, r.n)
           q == Publish(<<r.of, "state">>, r.n)
<1>1. /\ ~For(c, t)
      /\ For(p, t) => Of(r, t) /\ p.n = r.n
      /\ For(q, t) => Of(r, t) /\ q.n = r.n
      /\ ~(For(p, t) /\ For(q, t))
  BY DEF For, Of, Publish, Subscribe
<1>2. mqtt_area_report(r) = (IF r.firstreport THEN <<c>> ELSE << >>) \o <<p, q>>
  BY DEF mqtt_area_report
<1> HIDE DEF c, p, q
<1>3. CASE mqtt_area_report(r) = <<c, p, q>>
  BY <1>1, <1>3 DEF Rising
<1>4. CASE mqtt_area_report(r) = <<p, q>>
  BY <1>1, <1>4 DEF Rising
<1>5. <<c>> \o <<p, q>> = <<c, p, q>> /\ << >> \o <<p, q>> = <<p, q>>
  BY OneAndTwo
<1> QED
  BY <1>2, <1>3, <1>4, <1>5

\* The calls of a report of a zone carry its number, at most one for a topic.
LEMMA SentOfZone ==
  ASSUME NEW r \in Reports(Zones), NEW t
  PROVE  /\ \A i \in 1..Len(mqtt_zone_report(r)) :
              For(mqtt_zone_report(r)[i], t) => Of(r, t) /\ mqtt_zone_report(r)[i].n = r.n
         /\ Rising(mqtt_zone_report(r), t)
<1> DEFINE p == Publish(<<r.of, "status">>, r.n)
           q == Publish(<<r.of, "alarm">>, r.n)
           v == Publish(<<r.of, "state">>, r.n)
<1>1. /\ For(p, t) => Of(r, t) /\ p.n = r.n
      /\ For(q, t) => Of(r, t) /\ q.n = r.n
      /\ For(v, t) => Of(r, t) /\ v.n = r.n
      /\ ~(For(p, t) /\ For(q, t)) /\ ~(For(p, t) /\ For(v, t))
      /\ ~(For(q, t) /\ For(v, t))
  BY DEF For, Of, Publish
<1>2. mqtt_zone_report(r) = <<p, q, v>>
  BY DEF mqtt_zone_report
<1> HIDE DEF p, q, v
<1> QED
  BY <1>1, <1>2 DEF Rising

\* An area is not a zone: their topics are different ones.
LEMMA TopicHasOneThing ==
  ASSUME NEW r \in Reports(Areas), NEW z \in Reports(Zones), NEW t
  PROVE  ~(Of(r, t) /\ Of(z, t))
BY NamesAssumption DEF Of, Reports

\* Every topic is of an area or a zone, which has one for its status.
LEMMA StatusTopic ==
  ASSUME NEW t \in Topics
  PROVE  <<t[1], "status">> \in Topics /\ t[1] \in Areas \cup Zones
BY DEF Topics

\* What is for the topic of a report carries a number.
LEMMA Numbers ==
  ASSUME NEW m \in Sendings, NEW t, For(m, t)
  PROVE  m.n \in Nat /\ m.topic = t
BY DEF Sendings, For, Online

\* Every report carries a number.
LEMMA ReportNumbers ==
  ASSUME NEW things, NEW rs \in Seq(Reports(things))
  PROVE  \A i \in 1..Len(rs) : rs[i].n \in Nat
<1>1. \A i \in 1..Len(rs) : rs[i] \in Reports(things)
  OBVIOUS
<1> QED
  BY <1>1 DEF Reports

\* The reports made before a report are older than it.
LEMMA MoreReported ==
  ASSUME NEW rs, \A i \in 1..Len(rs) : rs[i].n \in Nat, NEW t, NEW lo, NEW hi \in Nat,
         WithinReports(rs, t, lo, hi)
  PROVE  /\ WithinReports(rs, t, lo, hi + 1)
         /\ \A i \in 1..Len(rs) : Of(rs[i], t) => rs[i].n < hi + 1
BY DEF WithinReports

\* The variables that the order is about.
carried == <<areaReports, zoneReports, todo, outbox, shown, reported>>

\* Every step keeps the reports on their way in their order.
LEMMA StepOrder == TypeOK /\ OrderInv /\ [Next]_vars => OrderInv'
<1> SUFFICES ASSUME TypeOK, OrderInv, [Next]_vars,
                    NEW t \in Topics
             PROVE  /\ SendingsOrder(t)'
                    /\ ReportsOrder(areaReports, t)' /\ ReportsOrder(zoneReports, t)'
                    /\ CountsFit(t)'
  BY DEF OrderInv
<1>0. /\ SendingsOrder(t)
      /\ ReportsOrder(areaReports, t) /\ ReportsOrder(zoneReports, t)
      /\ CountsFit(t)
  BY DEF OrderInv
<1>T. /\ areaReports \in Seq(Reports(Areas)) /\ zoneReports \in Seq(Reports(Zones))
      /\ todo \in Seq(Sendings) /\ outbox \in Seq(Sendings)
      /\ shown \in [Topics -> Nat] /\ reported \in [Topics -> Nat]
  BY DEF TypeOK
<1>1. CASE UNCHANGED carried
  BY <1>0, <1>1 DEF carried, SendingsOrder, ReportsOrder, CountsFit
<1>2. ASSUME outbox' = << >>, UNCHANGED <<areaReports, zoneReports, todo, shown, reported>>
      PROVE  /\ SendingsOrder(t)'
             /\ ReportsOrder(areaReports, t)' /\ ReportsOrder(zoneReports, t)'
             /\ CountsFit(t)'
  <2>1. /\ Within(outbox', t, shown'[t], reported'[t]) /\ Rising(outbox', t)
        /\ Ahead(outbox', todo', t)
        /\ AheadOfReports(outbox', areaReports', t)
        /\ AheadOfReports(outbox', zoneReports', t)
    BY <1>2 DEF Within, Rising, Ahead, AheadOfReports
  <2> QED
    BY <1>0, <1>2, <2>1 DEF SendingsOrder, ReportsOrder, CountsFit
<1>3. ASSUME NEW m \in Sendings, m.kind # "publish", outbox' = Accept(<<m>>),
             UNCHANGED <<areaReports, zoneReports, todo, shown, reported>>
      PROVE  /\ SendingsOrder(t)'
             /\ ReportsOrder(areaReports, t)' /\ ReportsOrder(zoneReports, t)'
             /\ CountsFit(t)'
  <2>1. CASE client = "connected"
    <3>1. outbox' = Append(outbox, m) /\ ~For(m, t)
      BY <1>3, <2>1 DEF Accept, For
    <3>2. /\ Within(outbox', t, shown[t], reported[t]) /\ Rising(outbox', t)
          /\ Ahead(outbox', todo, t)
          /\ AheadOfReports(outbox', areaReports, t)
          /\ AheadOfReports(outbox', zoneReports, t)
      BY <1>0, <1>T, <3>1, SendingJoins DEF SendingsOrder, ReportsOrder
    <3> QED
      BY <1>0, <1>3, <3>2 DEF SendingsOrder, ReportsOrder, CountsFit
  <2>2. CASE client # "connected"
    BY <1>1, <1>3, <2>2 DEF Accept, carried
  <2> QED
    BY <2>1, <2>2
<1>4. CASE Send
  <2>1. /\ Head(todo) \in Sendings /\ Head(todo) = todo[1] /\ 1 \in 1..Len(todo)
        /\ Tail(todo) \in Seq(Sendings)
        /\ \A i \in 1..Len(Tail(todo)) :
             i \in Nat /\ i + 1 \in 1..Len(todo) /\ Tail(todo)[i] = todo[i + 1]
    BY <1>T, <1>4 DEF Send
  <2>2. todo' = Tail(todo) /\ UNCHANGED <<areaReports, zoneReports, shown, reported>>
    BY <1>4 DEF Send, broker
  <2>3. /\ Within(todo', t, shown[t], reported[t]) /\ Rising(todo', t)
        /\ Ahead(outbox, todo', t)
        /\ AheadOfReports(todo', areaReports, t) /\ AheadOfReports(todo', zoneReports, t)
    BY <1>0, <1>4, <1>T, FirstSendingGone
       DEF Send, SendingsOrder, ReportsOrder
  <2>4. CASE client = "connected"
    <3> DEFINE m == Head(todo)
    <3>1. outbox' = Append(outbox, m)
      BY <1>4, <2>4 DEF Send, Accept
    <3>2. For(m, t) =>
            /\ \A i \in 1..Len(outbox) : For(outbox[i], t) => outbox[i].n < m.n
            /\ \A j \in 1..Len(todo') : For(todo'[j], t) => m.n < todo'[j].n
            /\ shown[t] < m.n /\ m.n <= reported[t]
            /\ \A j \in 1..Len(areaReports) : Of(areaReports[j], t) => m.n < areaReports[j].n
            /\ \A j \in 1..Len(zoneReports) : Of(zoneReports[j], t) => m.n < zoneReports[j].n
      <4> SUFFICES ASSUME For(m, t)
                   PROVE  /\ \A i \in 1..Len(outbox) : For(outbox[i], t) => outbox[i].n < m.n
                          /\ \A j \in 1..Len(todo') : For(todo'[j], t) => m.n < todo'[j].n
                          /\ shown[t] < m.n /\ m.n <= reported[t]
                          /\ \A j \in 1..Len(areaReports) :
                               Of(areaReports[j], t) => m.n < areaReports[j].n
                          /\ \A j \in 1..Len(zoneReports) :
                               Of(zoneReports[j], t) => m.n < zoneReports[j].n
        OBVIOUS
      <4>1. \A i \in 1..Len(outbox) : For(outbox[i], t) => outbox[i].n < m.n
        BY <1>0, <2>1 DEF SendingsOrder, Ahead
      <4>2. \A j \in 1..Len(todo') : For(todo'[j], t) => m.n < todo'[j].n
        <5>1. \A j \in 1..Len(Tail(todo)) : 1 < j + 1
          OBVIOUS
        <5> QED
          BY <1>0, <2>1, <2>2, <5>1 DEF SendingsOrder, Rising
      <4>3. shown[t] < m.n /\ m.n <= reported[t]
        BY <1>0, <2>1 DEF SendingsOrder, Within
      <4>4. /\ \A j \in 1..Len(areaReports) : Of(areaReports[j], t) => m.n < areaReports[j].n
            /\ \A j \in 1..Len(zoneReports) : Of(zoneReports[j], t) => m.n < zoneReports[j].n
        BY <1>0, <2>1 DEF ReportsOrder, AheadOfReports
      <4> QED
        BY <4>1, <4>2, <4>3, <4>4
    <3>3. /\ Within(outbox', t, shown[t], reported[t]) /\ Rising(outbox', t)
          /\ Ahead(outbox', todo', t)
          /\ AheadOfReports(outbox', areaReports, t)
          /\ AheadOfReports(outbox', zoneReports, t)
      BY <1>0, <1>T, <2>1, <2>3, <3>1, <3>2, SendingJoins DEF SendingsOrder,
         ReportsOrder
    <3> QED
      BY <1>0, <2>2, <2>3, <3>3 DEF SendingsOrder, ReportsOrder, CountsFit
  <2>5. CASE client # "connected"
    <3>1. outbox' = outbox
      BY <1>4, <2>5 DEF Send, Accept
    <3> QED
      BY <1>0, <2>2, <2>3, <3>1 DEF SendingsOrder, ReportsOrder, CountsFit
  <2> QED
    BY <2>4, <2>5
<1>5. CASE TakeAreaReport
  <2> DEFINE r == Head(areaReports)
  <2>1. /\ r \in Reports(Areas) /\ r = areaReports[1] /\ 1 \in 1..Len(areaReports)
        /\ \A i \in 1..Len(Tail(areaReports)) :
             i \in Nat /\ i + 1 \in 1..Len(areaReports) /\ Tail(areaReports)[i] = areaReports[i + 1]
    BY <1>5, <1>T DEF TakeAreaReport
  <2>2. /\ todo' = mqtt_area_report(r) /\ areaReports' = Tail(areaReports)
        /\ UNCHANGED <<outbox, zoneReports, shown, reported>>
    BY <1>5 DEF TakeAreaReport, library, broker
  <2>3. /\ \A i \in 1..Len(todo') : For(todo'[i], t) => Of(r, t) /\ todo'[i].n = r.n
        /\ Rising(todo', t)
    BY <2>1, <2>2, SentOfArea
  <2>4. Of(r, t) => /\ shown[t] < r.n /\ r.n <= reported[t]
                    /\ \A i \in 1..Len(outbox) : For(outbox[i], t) => outbox[i].n < r.n
                    /\ \A j \in 1..Len(areaReports') : Of(areaReports'[j], t) => r.n < areaReports'[j].n
    <3>1. Of(r, t) => /\ shown[t] < r.n /\ r.n <= reported[t]
                      /\ \A i \in 1..Len(outbox) : For(outbox[i], t) => outbox[i].n < r.n
      BY <1>0, <2>1 DEF ReportsOrder, WithinReports, AheadOfReports
    <3>3. Of(r, t) => \A j \in 1..Len(areaReports') : Of(areaReports'[j], t) => r.n < areaReports'[j].n
      BY <1>0, <2>2 DEF ReportsOrder, RisingReports
    <3> QED
      BY <3>1, <3>3
  <2>5. Within(todo', t, shown[t], reported[t]) /\ Ahead(outbox, todo', t)
    BY <2>3, <2>4 DEF Within, Ahead
  <2>6. /\ WithinReports(areaReports', t, shown[t], reported[t])
        /\ RisingReports(areaReports', t) /\ AheadOfReports(outbox, areaReports', t)
    BY <1>0, <1>5, <1>T, FirstReportGone DEF TakeAreaReport, ReportsOrder
  <2>7. AheadOfReports(todo', areaReports', t)
    BY <2>3, <2>4 DEF AheadOfReports
  <2>8. AheadOfReports(todo', zoneReports, t)
    <3>1. \A j \in 1..Len(zoneReports) : ~(Of(r, t) /\ Of(zoneReports[j], t))
      BY <1>T, <2>1, TopicHasOneThing
    <3> QED
      BY <2>3, <3>1 DEF AheadOfReports
  <2> QED
    BY <1>0, <2>2, <2>3, <2>5, <2>6, <2>7, <2>8
       DEF SendingsOrder, ReportsOrder, CountsFit
<1>6. CASE TakeZoneReport
  <2> DEFINE r == Head(zoneReports)
  <2>1. /\ r \in Reports(Zones) /\ r = zoneReports[1] /\ 1 \in 1..Len(zoneReports)
        /\ \A i \in 1..Len(Tail(zoneReports)) :
             i \in Nat /\ i + 1 \in 1..Len(zoneReports) /\ Tail(zoneReports)[i] = zoneReports[i + 1]
    BY <1>6, <1>T DEF TakeZoneReport
  <2>2. /\ todo' = mqtt_zone_report(r) /\ zoneReports' = Tail(zoneReports)
        /\ UNCHANGED <<outbox, areaReports, shown, reported>>
    BY <1>6 DEF TakeZoneReport, library, broker
  <2>3. /\ \A i \in 1..Len(todo') : For(todo'[i], t) => Of(r, t) /\ todo'[i].n = r.n
        /\ Rising(todo', t)
    BY <2>1, <2>2, SentOfZone
  <2>4. Of(r, t) => /\ shown[t] < r.n /\ r.n <= reported[t]
                    /\ \A i \in 1..Len(outbox) : For(outbox[i], t) => outbox[i].n < r.n
                    /\ \A j \in 1..Len(zoneReports') : Of(zoneReports'[j], t) => r.n < zoneReports'[j].n
    <3>1. Of(r, t) => /\ shown[t] < r.n /\ r.n <= reported[t]
                      /\ \A i \in 1..Len(outbox) : For(outbox[i], t) => outbox[i].n < r.n
      BY <1>0, <2>1 DEF ReportsOrder, WithinReports, AheadOfReports
    <3>3. Of(r, t) => \A j \in 1..Len(zoneReports') : Of(zoneReports'[j], t) => r.n < zoneReports'[j].n
      BY <1>0, <2>2 DEF ReportsOrder, RisingReports
    <3> QED
      BY <3>1, <3>3
  <2>5. Within(todo', t, shown[t], reported[t]) /\ Ahead(outbox, todo', t)
    BY <2>3, <2>4 DEF Within, Ahead
  <2>6. /\ WithinReports(zoneReports', t, shown[t], reported[t])
        /\ RisingReports(zoneReports', t) /\ AheadOfReports(outbox, zoneReports', t)
    BY <1>0, <1>6, <1>T, FirstReportGone DEF TakeZoneReport, ReportsOrder
  <2>7. AheadOfReports(todo', zoneReports', t)
    BY <2>3, <2>4 DEF AheadOfReports
  <2>8. AheadOfReports(todo', areaReports, t)
    <3>1. \A j \in 1..Len(areaReports) : ~(Of(r, t) /\ Of(areaReports[j], t))
      BY <1>T, <2>1, TopicHasOneThing
    <3> QED
      BY <2>3, <3>1 DEF AheadOfReports
  <2> QED
    BY <1>0, <2>2, <2>3, <2>5, <2>6, <2>7, <2>8
       DEF SendingsOrder, ReportsOrder, CountsFit
<1>7. CASE Deliver
  <2> DEFINE m == Head(outbox)
  <2>1. /\ m \in Sendings /\ m = outbox[1] /\ 1 \in 1..Len(outbox)
        /\ \A i \in 1..Len(Tail(outbox)) :
             i \in Nat /\ i + 1 \in 1..Len(outbox) /\ Tail(outbox)[i] = outbox[i + 1]
    BY <1>7, <1>T DEF Deliver
  <2>2. /\ outbox' = Tail(outbox)
        /\ UNCHANGED <<areaReports, zoneReports, todo, reported>>
        /\ shown' = IF m.kind = "publish" THEN [shown EXCEPT ![m.topic] = m.n] ELSE shown
    BY <1>7 DEF Deliver, own
  <2>3. /\ Rising(outbox', t) /\ Ahead(outbox', todo, t)
        /\ AheadOfReports(outbox', areaReports, t)
        /\ AheadOfReports(outbox', zoneReports, t)
    BY <1>0, <1>7, <1>T, FirstSendingGone
       DEF Deliver, SendingsOrder, ReportsOrder
  <2>4. CASE For(m, t)
    <3>1. shown'[t] = m.n
      BY <1>T, <2>2, <2>4 DEF For
    <3>2. Within(outbox', t, m.n, reported[t])
      <4> QED
        BY <1>0, <2>2, <2>4 DEF SendingsOrder, Within, Rising
    <3>3. Within(todo, t, m.n, reported[t])
      BY <1>0, <2>1, <2>4 DEF SendingsOrder, Within, Ahead
    <3>4. /\ WithinReports(areaReports, t, m.n, reported[t])
          /\ WithinReports(zoneReports, t, m.n, reported[t])
      BY <1>0, <2>1, <2>4 DEF ReportsOrder, WithinReports, AheadOfReports
    <3>5. m.n <= reported[t]
      BY <1>0, <2>1, <2>4 DEF SendingsOrder, Within
    <3> QED
      BY <1>0, <2>2, <2>3, <3>1, <3>2, <3>3, <3>4, <3>5
         DEF SendingsOrder, ReportsOrder, CountsFit
  <2>5. CASE ~For(m, t)
    <3>1. shown'[t] = shown[t]
      BY <2>2, <2>5 DEF For
    <3>2. Within(outbox', t, shown[t], reported[t])
      BY <1>0, <1>7, <1>T, FirstSendingGone DEF Deliver, SendingsOrder
    <3> QED
      BY <1>0, <2>2, <2>3, <3>1, <3>2 DEF SendingsOrder, ReportsOrder, CountsFit
  <2> QED
    BY <2>4, <2>5
<1>8. CASE AreaReported
  <2>1. PICK a \in Areas : areaReports' = Append(areaReports, ReportOf(a)) /\ Counted(a)
    BY <1>8 DEF AreaReported
  <2>2. UNCHANGED <<outbox, todo, zoneReports, shown>>
    BY <1>8 DEF AreaReported, library, broker
  <2>3. /\ <<a, "status">> \in Topics /\ <<t[1], "status">> \in Topics
        /\ t[1] = a \/ t[1] # a
    BY DEF Topics
  <2> DEFINE r == ReportOf(a)
  <2>4. r \in Reports(Areas) /\ r.of = a /\ r.n = reported[<<a, "status">>] + 1
    BY <1>T, <2>3, NextReport
  <2>5. CASE t[1] = a
    <3>1. reported'[t] = reported[t] + 1 /\ r.n = reported[t] + 1 /\ reported[t] \in Nat
      BY <1>0, <1>T, <2>1, <2>4, <2>5 DEF Counted, CountsFit
    <3>2. CountsFit(t)'
      <4>1. reported'[<<t[1], "status">>] = reported[<<t[1], "status">>] + 1
        BY <2>1, <2>3, <2>5 DEF Counted
      <4> QED
        BY <1>0, <1>T, <2>2, <3>1, <4>1 DEF CountsFit
    <3>3. SendingsOrder(t)'
      <4>1. \A s \in Seq(Sendings) :
              Within(s, t, shown[t], reported[t]) => Within(s, t, shown[t], reported'[t])
        BY <3>1, Numbers DEF Within
      <4> QED
        BY <1>0, <1>T, <2>2, <4>1 DEF SendingsOrder
    <3>4. /\ WithinReports(areaReports, t, shown[t], reported'[t])
          /\ WithinReports(zoneReports, t, shown[t], reported'[t])
      <4>1. /\ \A i \in 1..Len(areaReports) : areaReports[i].n \in Nat
            /\ \A i \in 1..Len(zoneReports) : zoneReports[i].n \in Nat
        BY <1>T, ReportNumbers
      <4> QED
        BY <1>0, <3>1, <4>1, MoreReported DEF ReportsOrder
    <3>5. /\ \A i \in 1..Len(areaReports) : Of(areaReports[i], t) => areaReports[i].n < r.n
          /\ \A i \in 1..Len(outbox) : For(outbox[i], t) => outbox[i].n < r.n
          /\ \A i \in 1..Len(todo) : For(todo[i], t) => todo[i].n < r.n
      <4>1. \A i \in 1..Len(areaReports) : Of(areaReports[i], t) => areaReports[i].n < r.n
        <5>1. \A i \in 1..Len(areaReports) : areaReports[i].n \in Nat
          BY <1>T, ReportNumbers
        <5> QED
          BY <1>0, <3>1, <5>1, MoreReported DEF ReportsOrder
      <4>2. \A s \in Seq(Sendings) : Within(s, t, shown[t], reported[t]) =>
              \A i \in 1..Len(s) : For(s[i], t) => s[i].n < r.n
        BY <3>1, Numbers DEF Within
      <4> QED
        BY <1>0, <1>T, <4>1, <4>2 DEF SendingsOrder
    <3>6. shown[t] < r.n /\ r.n <= reported'[t]
      BY <1>0, <1>T, <3>1 DEF CountsFit
    <3>7. ReportsOrder(areaReports, t)'
      BY <1>0, <1>T, <2>1, <2>2, <2>4, <3>4, <3>5, <3>6, ReportJoins DEF ReportsOrder
    <3>8. ReportsOrder(zoneReports, t)'
      BY <1>0, <2>2, <3>4 DEF ReportsOrder
    <3> QED
      BY <3>2, <3>3, <3>7, <3>8
  <2>6. CASE t[1] # a
    <3>1. reported'[t] = reported[t] /\ ~Of(r, t)
      BY <2>1, <2>4, <2>6 DEF Counted, Of
    <3>2. CountsFit(t)'
      <4>1. reported'[<<t[1], "status">>] = reported[<<t[1], "status">>]
        BY <2>1, <2>3, <2>6 DEF Counted
      <4> QED
        BY <1>0, <2>2, <3>1, <4>1 DEF CountsFit
    <3>3. ReportsOrder(areaReports, t)'
      BY <1>0, <1>T, <2>1, <2>2, <2>4, <3>1, ReportJoins DEF ReportsOrder
    <3> QED
      BY <1>0, <2>2, <3>1, <3>2, <3>3 DEF SendingsOrder, ReportsOrder
  <2> QED
    BY <2>5, <2>6
<1>9. CASE ZoneReported
  <2>1. PICK z \in Zones : zoneReports' = Append(zoneReports, ReportOf(z)) /\ Counted(z)
    BY <1>9 DEF ZoneReported
  <2>2. UNCHANGED <<outbox, todo, areaReports, shown>>
    BY <1>9 DEF ZoneReported, library, broker
  <2>3. /\ <<z, "status">> \in Topics /\ <<t[1], "status">> \in Topics
        /\ t[1] = z \/ t[1] # z
    BY DEF Topics
  <2> DEFINE r == ReportOf(z)
  <2>4. r \in Reports(Zones) /\ r.of = z /\ r.n = reported[<<z, "status">>] + 1
    BY <1>T, <2>3, NextReport
  <2>5. CASE t[1] = z
    <3>1. reported'[t] = reported[t] + 1 /\ r.n = reported[t] + 1 /\ reported[t] \in Nat
      BY <1>0, <1>T, <2>1, <2>4, <2>5 DEF Counted, CountsFit
    <3>2. CountsFit(t)'
      <4>1. reported'[<<t[1], "status">>] = reported[<<t[1], "status">>] + 1
        BY <2>1, <2>3, <2>5 DEF Counted
      <4> QED
        BY <1>0, <1>T, <2>2, <3>1, <4>1 DEF CountsFit
    <3>3. SendingsOrder(t)'
      <4>1. \A s \in Seq(Sendings) :
              Within(s, t, shown[t], reported[t]) => Within(s, t, shown[t], reported'[t])
        BY <3>1, Numbers DEF Within
      <4> QED
        BY <1>0, <1>T, <2>2, <4>1 DEF SendingsOrder
    <3>4. /\ WithinReports(zoneReports, t, shown[t], reported'[t])
          /\ WithinReports(areaReports, t, shown[t], reported'[t])
      <4>1. /\ \A i \in 1..Len(zoneReports) : zoneReports[i].n \in Nat
            /\ \A i \in 1..Len(areaReports) : areaReports[i].n \in Nat
        BY <1>T, ReportNumbers
      <4> QED
        BY <1>0, <3>1, <4>1, MoreReported DEF ReportsOrder
    <3>5. /\ \A i \in 1..Len(zoneReports) : Of(zoneReports[i], t) => zoneReports[i].n < r.n
          /\ \A i \in 1..Len(outbox) : For(outbox[i], t) => outbox[i].n < r.n
          /\ \A i \in 1..Len(todo) : For(todo[i], t) => todo[i].n < r.n
      <4>1. \A i \in 1..Len(zoneReports) : Of(zoneReports[i], t) => zoneReports[i].n < r.n
        <5>1. \A i \in 1..Len(zoneReports) : zoneReports[i].n \in Nat
          BY <1>T, ReportNumbers
        <5> QED
          BY <1>0, <3>1, <5>1, MoreReported DEF ReportsOrder
      <4>2. \A s \in Seq(Sendings) : Within(s, t, shown[t], reported[t]) =>
              \A i \in 1..Len(s) : For(s[i], t) => s[i].n < r.n
        BY <3>1, Numbers DEF Within
      <4> QED
        BY <1>0, <1>T, <4>1, <4>2 DEF SendingsOrder
    <3>6. shown[t] < r.n /\ r.n <= reported'[t]
      BY <1>0, <1>T, <3>1 DEF CountsFit
    <3>7. ReportsOrder(zoneReports, t)'
      BY <1>0, <1>T, <2>1, <2>2, <2>4, <3>4, <3>5, <3>6, ReportJoins DEF ReportsOrder
    <3>8. ReportsOrder(areaReports, t)'
      BY <1>0, <2>2, <3>4 DEF ReportsOrder
    <3> QED
      BY <3>2, <3>3, <3>7, <3>8
  <2>6. CASE t[1] # z
    <3>1. reported'[t] = reported[t] /\ ~Of(r, t)
      BY <2>1, <2>4, <2>6 DEF Counted, Of
    <3>2. CountsFit(t)'
      <4>1. reported'[<<t[1], "status">>] = reported[<<t[1], "status">>]
        BY <2>1, <2>3, <2>6 DEF Counted
      <4> QED
        BY <1>0, <2>2, <3>1, <4>1 DEF CountsFit
    <3>3. ReportsOrder(zoneReports, t)'
      BY <1>0, <1>T, <2>1, <2>2, <2>4, <3>1, ReportJoins DEF ReportsOrder
    <3> QED
      BY <1>0, <2>2, <3>1, <3>2, <3>3 DEF SendingsOrder, ReportsOrder
  <2> QED
    BY <2>5, <2>6
<1>10. ASSUME \/ OpenSockets \/ StartFails \/ ReceiveKill \/ CloseSockets
              \/ OnDisconnect \/ mqtt_area_control \/ PushCommand \/ Connects
              \/ ConnectFails \/ Reconnects \/ SessionEnds \/ MessageArrives
              \/ TakeCommand \/ UNCHANGED vars
       PROVE  UNCHANGED carried
  BY <1>10 DEF OpenSockets, StartFails, ReceiveKill, CloseSockets, OnDisconnect,
               mqtt_area_control, PushCommand, Connects, ConnectFails, Reconnects,
               SessionEnds, MessageArrives, TakeCommand, NewSession, vars, own, library, broker, carried
<1>11. ASSUME Destroy \/ ConnectionLost \/ Disconnected \/ DisconnectFails
       PROVE  /\ outbox' = << >>
              /\ UNCHANGED <<areaReports, zoneReports, todo, shown, reported>>
  BY <1>11 DEF Destroy, ConnectionLost, Disconnected, DisconnectFails, own, broker
<1>12. ASSUME mqtt_subscribe \/ PollTimeout \/ OnConnect
       PROVE  \E m \in Sendings :
                /\ m.kind # "publish" /\ outbox' = Accept(<<m>>)
                /\ UNCHANGED <<areaReports, zoneReports, todo, shown, reported>>
  <2>1. /\ Online \in Sendings /\ Online.kind # "publish"
        /\ Subscribe(UtilityTopic) \in Sendings /\ Subscribe(UtilityTopic).kind # "publish"
    BY DEF Online, Subscribe, Sendings, UtilityTopic, ControlTopics
  <2> QED
    BY <1>12, <2>1 DEF mqtt_subscribe, PollTimeout, OnConnect, mqtt_send_lwt,
       own, broker
<1> QED
  BY <1>1, <1>2, <1>3, <1>4, <1>5, <1>6, <1>7, <1>8, <1>9, <1>10, <1>11, <1>12
     DEF Next, Thread

\* At first nothing is on its way.
LEMMA InitOrder == Init => OrderInv
<1> SUFFICES ASSUME Init, NEW t \in Topics
             PROVE  /\ SendingsOrder(t)
                    /\ ReportsOrder(areaReports, t) /\ ReportsOrder(zoneReports, t)
                    /\ CountsFit(t)
  BY DEF OrderInv
<1>1. /\ outbox = << >> /\ todo = << >> /\ areaReports = << >> /\ zoneReports = << >>
      /\ shown[t] = 0 /\ reported[t] = 0 /\ reported[<<t[1], "status">>] = 0
  BY StatusTopic DEF Init
<1> QED
  BY <1>1 DEF SendingsOrder, ReportsOrder, CountsFit, Within, Rising, Ahead,
              WithinReports, RisingReports, AheadOfReports

\* A report of an area or zone is one of Mirror, for the topics it has.
LEMMA ReportIsMirrored ==
  ASSUME NEW x, <<x, "status">> \in Topics, Counted(x), shown' = shown
  PROVE  Mirrored!Report
<1> DEFINE T == {t \in Topics : t[1] = x}
<1>1. T \in (SUBSET Topics) \ {{}}
  <2> QED
    OBVIOUS
<1>2. reported' = [t \in Topics |-> IF t \in T THEN reported[t] + 1 ELSE reported[t]]
  BY DEF Counted
<1> HIDE DEF T
<1> QED
  BY <1>1, <1>2 DEF Mirrored!Report

\* What the broker gets is newer than what its topic shows, and was reported.
LEMMA DeliveryIsMirrored ==
  ASSUME TypeOK, OrderInv, Deliver, Head(outbox).kind = "publish"
  PROVE  Mirrored!Show
<1> DEFINE m == Head(outbox)
<1>1. outbox \in Seq(Sendings) /\ shown \in [Topics -> Nat] /\ reported \in [Topics -> Nat]
  BY DEF TypeOK
<1>2. m \in Sendings /\ m = outbox[1] /\ 1 \in 1..Len(outbox)
  BY <1>1 DEF Deliver
<1>3. m.topic \in Topics /\ m.n \in Nat
  BY <1>2 DEF Sendings, Online
<1>4. shown[m.topic] < m.n /\ m.n <= reported[m.topic]
  BY <1>2, <1>3 DEF OrderInv, SendingsOrder, Within, For
<1>5. m.n \in shown[m.topic] + 1..reported[m.topic]
  BY <1>1, <1>3, <1>4
<1>6. shown' = [shown EXCEPT ![m.topic] = m.n] /\ reported' = reported
  BY DEF Deliver
<1> HIDE DEF m
<1> QED
  BY <1>3, <1>5, <1>6 DEF Mirrored!Show

\* The thread, with the library and the broker, implements Mirror: a topic
\* never goes back to an older report of its area or zone, whatever connections
\* are lost and whatever waits on the way, and shows none that was not made.
THEOREM ReportsAreMirrored == Spec => Mirrors
<1>1. Init => Mirrored!Init
  BY DEF Init, Mirrored!Init
<1>2. TypeOK /\ OrderInv /\ [Next]_vars => [Mirrored!Next]_(Mirrored!vars)
  <2> SUFFICES ASSUME TypeOK, OrderInv, [Next]_vars
               PROVE  Mirrored!Next \/ UNCHANGED <<reported, shown>>
    BY DEF Mirrored!vars
  <2>1. CASE Deliver
    BY <2>1, DeliveryIsMirrored DEF Deliver, Mirrored!Next
  <2>2. CASE AreaReported
    <3>1. PICK a \in Areas : Counted(a)
      BY <2>2 DEF AreaReported
    <3>2. <<a, "status">> \in Topics /\ shown' = shown
      BY <2>2 DEF Topics, AreaReported, broker
    <3> QED
      BY <3>1, <3>2, ReportIsMirrored DEF Mirrored!Next
  <2>3. CASE ZoneReported
    <3>1. PICK z \in Zones : Counted(z)
      BY <2>3 DEF ZoneReported
    <3>2. <<z, "status">> \in Topics /\ shown' = shown
      BY <2>3 DEF Topics, ZoneReported, broker
    <3> QED
      BY <3>1, <3>2, ReportIsMirrored DEF Mirrored!Next
  <2>4. ASSUME ~Deliver, ~AreaReported, ~ZoneReported
        PROVE  UNCHANGED <<reported, shown>>
    BY <2>4 DEF Next, Thread, OpenSockets, StartFails, mqtt_subscribe, ReceiveKill,
         TakeAreaReport, TakeZoneReport, Send, PollTimeout, Destroy, CloseSockets,
         OnConnect, OnDisconnect, mqtt_area_control, PushCommand, Connects, ConnectFails,
         ConnectionLost, Reconnects, SessionEnds, MessageArrives, Disconnected,
         DisconnectFails, TakeCommand, NewSession, vars, broker
  <2> QED
    BY <2>1, <2>2, <2>3, <2>4
<1> QED
  BY <1>1, <1>2, InitOrder, StepOrder, TypeCorrect, PTL
     DEF Spec, Mirrors, Mirrored!Spec

=============================================================================
