------------------------------ MODULE MqttMgr ------------------------------
(***************************************************************************)
(* The MQTT thread of mqtt_mgr.c ("MMGR"): it takes the reports of the     *)
(* panel manager, turns each into messages for the topics of its area or   *)
(* zone, and subscribes to the topics commands arrive on.                  *)
(*                                                                         *)
(* It runs beside the threads of the Paho client library, which call it    *)
(* back, keep the connection and reconnect on their own.  The library and  *)
(* the broker are external: they are modelled as far as the thread uses    *)
(* them (MQTTAsync_connect with cleansession and automaticReconnect, no    *)
(* buffering while disconnected, QoS 1 and a will).                        *)
(*                                                                         *)
(* A report carries, instead of its bytes, its number in the reports of    *)
(* its area or zone; a topic shows the number of the last one it got.      *)
(***************************************************************************)
EXTENDS Integers, Sequences, FiniteSetsExt

CONSTANTS
  Areas, Zones,   \* what is reported of; the two have no name in common
  Payloads,       \* what users send to the control topics
  MaxReports,     \* bound: reports made in all
  MaxLosses,      \* bound: times the connection is lost
  MaxMessages     \* bound: messages and commands waiting

ASSUME NamesAssumption == Areas \cap Zones = {}
ASSUME BoundsAssumption ==
  MaxReports \in Nat /\ MaxLosses \in Nat /\ MaxMessages \in Nat

Topics == Areas \X {"status", "state"} \cup Zones \X {"status", "alarm", "state"}
ControlTopics == Areas \X {"set"} \cup {<<"utilitykey", "press">>}
UtilityTopic == <<"utilitykey", "press">>

VARIABLES
  thread,        \* "starting", "bound", "polling", "stopping", "closing", "exited"
  areaReports,   \* the queue behind EPT_MQTT_AREA_REPORT
  zoneReports,   \* the queue behind EPT_MQTT_ZONE_REPORT
  todo,          \* what is still to be sent of the report in hand
  socket,        \* mqtt_area_command: "none", "open" or "closed"
  commands,      \* the queue behind EPT_MQTT_AREA_COMMAND
  mqtt_disconnected,
  client,        \* the library: "connecting", "connected", "lost",
                 \* "disconnecting", "disconnected" or "destroyed"
  due,           \* the callbacks the library has yet to run
  outbox,        \* what the library accepted and the broker has not got
  inbox,         \* messages for mqtt_area_control
  callback,      \* the command mqtt_area_control is about to push, if any
  session,       \* the broker holds a session of the client, with its will
  subs,          \* the topics the session is subscribed to
  lwt,           \* what the topic "daemon" shows: "none", "online", "offline"
  shown,         \* what every other topic shows
  reported,      \* history: the reports made for every topic
  losses         \* history: how often the connection was lost

own == <<thread, areaReports, zoneReports, todo, socket, mqtt_disconnected>>
library == <<client, due, outbox, inbox, callback, losses>>
broker == <<session, subs, lwt, shown>>
vars == <<own, library, broker, commands, reported>>

-----------------------------------------------------------------------------
(***************************************************************************)
(* What is sent of a report.  The first of an area subscribes to its       *)
(* control topic.                                                          *)
(***************************************************************************)
Publish(t, n) == [kind |-> "publish", topic |-> t, n |-> n]
Subscribe(t)  == [kind |-> "subscribe", topic |-> t, n |-> 0]
Online        == [kind |-> "online", topic |-> UtilityTopic, n |-> 0]

\* Mutant: the JSON of an area goes to a topic that only zones have.
Alarm_mqtt_area_report(r) ==
  (IF r.firstreport THEN <<Subscribe(<<r.of, "set">>)>> ELSE << >>)
    \o <<Publish(<<r.of, "status">>, r.n), Publish(<<r.of, "alarm">>, r.n)>>

mqtt_area_report(r) ==
  (IF r.firstreport THEN <<Subscribe(<<r.of, "set">>)>> ELSE << >>)
    \o <<Publish(<<r.of, "status">>, r.n), Publish(<<r.of, "state">>, r.n)>>

\* Mutant: the alarm topic of the zone is forgotten.
NoAlarm_mqtt_zone_report(r) ==
  <<Publish(<<r.of, "status">>, r.n), Publish(<<r.of, "state">>, r.n)>>

mqtt_zone_report(r) ==
  <<Publish(<<r.of, "status">>, r.n), Publish(<<r.of, "alarm">>, r.n),
    Publish(<<r.of, "state">>, r.n)>>

\* The library refuses what it is given while it is not connected; the code
\* that MQTTAsync_sendMessage returns is not looked at, the one that
\* MQTTAsync_subscribe returns is only logged.
Accept(ms) == IF client = "connected" THEN outbox \o ms ELSE outbox

mqtt_send_lwt == outbox' = Accept(<<Online>>)

-----------------------------------------------------------------------------
(***************************************************************************)
(* mqtt_mgr_thread.                                                        *)
(***************************************************************************)

\* Mutant: the thread goes on to close its sockets, the client still runs.
Unstopped_mqtt_stop ==
  /\ thread' = "closing"
  /\ UNCHANGED client

\* MQTTAsync_disconnect, which the library accepts only while it is connected;
\* the thread waits for mqtt_disconnected either way.
mqtt_stop ==
  /\ thread' = "stopping"
  /\ client' = IF client = "connected" THEN "disconnecting" ELSE client

\* The sockets; mqtt_start was called before, its client is connecting.
OpenSockets ==
  /\ thread = "starting"
  /\ thread' = "bound"
  /\ socket' = "open"
  /\ UNCHANGED <<areaReports, zoneReports, todo, mqtt_disconnected,
                 library, broker, commands, reported>>

\* A socket cannot be bound or connected.
StartFails ==
  /\ thread = "starting"
  /\ mqtt_stop
  /\ UNCHANGED <<areaReports, zoneReports, todo, socket, mqtt_disconnected,
                 due, outbox, inbox, callback, losses, broker, commands, reported>>

mqtt_subscribe ==
  /\ thread = "bound"
  /\ thread' = "polling"
  /\ outbox' = Accept(<<Subscribe(UtilityTopic)>>)
  /\ UNCHANGED <<areaReports, zoneReports, todo, socket, mqtt_disconnected,
                 client, due, inbox, callback, losses, broker, commands, reported>>

\* The thread is at zmq_poll; a KILL is looked for before a report of an area,
\* and that before one of a zone.
Polling == thread = "polling" /\ todo = << >>

ReceiveKill ==
  /\ Polling
  /\ mqtt_stop
  /\ UNCHANGED <<areaReports, zoneReports, todo, socket, mqtt_disconnected,
                 due, outbox, inbox, callback, losses, broker, commands, reported>>

\* Mutant: a report that cannot be sent now is put back, behind those that wait.
Requeueing_TakeAreaReport ==
  /\ Polling /\ areaReports # << >>
  /\ todo' = IF client = "connected" THEN mqtt_area_report(Head(areaReports)) ELSE << >>
  /\ areaReports' = IF client = "connected" THEN Tail(areaReports)
                    ELSE Append(Tail(areaReports), Head(areaReports))
  /\ UNCHANGED <<thread, zoneReports, socket, mqtt_disconnected,
                 library, broker, commands, reported>>

TakeAreaReport ==
  /\ Polling /\ areaReports # << >>
  /\ todo' = mqtt_area_report(Head(areaReports))
  /\ areaReports' = Tail(areaReports)
  /\ UNCHANGED <<thread, zoneReports, socket, mqtt_disconnected,
                 library, broker, commands, reported>>

TakeZoneReport ==
  /\ Polling /\ areaReports = << >> /\ zoneReports # << >>
  /\ todo' = mqtt_zone_report(Head(zoneReports))
  /\ zoneReports' = Tail(zoneReports)
  /\ UNCHANGED <<thread, areaReports, socket, mqtt_disconnected,
                 library, broker, commands, reported>>

\* One call to the library; the connection may change between two of them.
Send ==
  /\ todo # << >>
  /\ outbox' = Accept(<<Head(todo)>>)
  /\ todo' = Tail(todo)
  /\ UNCHANGED <<thread, areaReports, zoneReports, socket, mqtt_disconnected,
                 client, due, inbox, callback, losses, broker, commands, reported>>

\* Mutant: the poll timeout is only logged.
Silent_PollTimeout ==
  /\ Polling /\ areaReports = << >> /\ zoneReports = << >>
  /\ UNCHANGED vars

\* Nothing for 60 s.  Bound: not while something waits to be delivered.
PollTimeout ==
  /\ Polling /\ areaReports = << >> /\ zoneReports = << >>
  /\ outbox = << >>
  /\ mqtt_send_lwt
  /\ UNCHANGED <<own, client, due, inbox, callback, losses, broker, commands, reported>>

\* The end of mqtt_stop: MQTTAsync_destroy ends the thread of the callbacks, and
\* waits for one that is running.
Destroy ==
  /\ thread = "stopping" /\ mqtt_disconnected /\ callback = << >>
  /\ thread' = "closing"
  /\ client' = "destroyed" /\ due' = {} /\ outbox' = << >> /\ inbox' = << >>
  /\ UNCHANGED <<areaReports, zoneReports, todo, socket, mqtt_disconnected,
                 callback, losses, broker, commands, reported>>

CloseSockets ==
  /\ thread = "closing"
  /\ thread' = "exited"
  /\ socket' = IF socket = "open" THEN "closed" ELSE socket
  /\ UNCHANGED <<areaReports, zoneReports, todo, mqtt_disconnected,
                 library, broker, commands, reported>>

Thread ==
  \/ OpenSockets \/ mqtt_subscribe
  \/ TakeAreaReport \/ TakeZoneReport \/ Send \/ PollTimeout
  \/ Destroy \/ CloseSockets

-----------------------------------------------------------------------------
(***************************************************************************)
(* The callbacks, which the threads of the library run.                    *)
(***************************************************************************)
OnConnect ==
  /\ "onConnect" \in due
  /\ due' = due \ {"onConnect"}
  /\ mqtt_send_lwt
  /\ UNCHANGED <<own, client, inbox, callback, losses, broker, commands, reported>>

\* Mutant: a disconnect that failed is only logged.
LogOnly_OnDisconnect ==
  /\ \E c \in {"onDisconnect", "onDisconnectFailure"} \cap due :
       /\ due' = due \ {c}
       /\ mqtt_disconnected' = (mqtt_disconnected \/ c = "onDisconnect")
  /\ UNCHANGED <<thread, areaReports, zoneReports, todo, socket,
                 client, outbox, inbox, callback, losses, broker, commands, reported>>

OnDisconnect ==
  /\ \E c \in {"onDisconnect", "onDisconnectFailure"} \cap due :
       due' = due \ {c}
  /\ mqtt_disconnected' = TRUE
  /\ UNCHANGED <<thread, areaReports, zoneReports, todo, socket,
                 client, outbox, inbox, callback, losses, broker, commands, reported>>

\* The command in a message: none, if it is not one of those known.  strcmp
\* reads on past the payload, which nothing ends: it may miss one it knows.
Understood(m) ==
  IF m.topic = UtilityTopic
    THEN {<<[type |-> "CMD_UTILITY_KEY", num |-> "key", command |-> m.payload]>>}
    ELSE IF m.payload \in {"ARM_AWAY", "ARM_HOME", "DISARM"}
      THEN {<<[type |-> "CMD_AREA_CONTROL", num |-> m.topic[1],
               command |-> m.payload]>>, << >>}
      ELSE {<< >>}

\* One message at a time; the callback reads it ...
mqtt_area_control ==
  /\ inbox # << >> /\ callback = << >>
  /\ client \in {"connected", "lost", "disconnecting"}
  /\ callback' \in Understood(Head(inbox))
  /\ inbox' = Tail(inbox)
  /\ UNCHANGED <<own, client, due, outbox, losses, broker, commands, reported>>

\* ... and pushes the command, which waits while the queue is full.  Meanwhile
\* the thread and the connection go on.
PushCommand ==
  /\ callback # << >> /\ Len(commands) < MaxMessages
  /\ commands' = commands \o callback
  /\ callback' = << >>
  /\ UNCHANGED <<own, client, due, outbox, inbox, losses, broker, reported>>

-----------------------------------------------------------------------------
(***************************************************************************)
(* The library and the broker.                                             *)
(***************************************************************************)

\* The broker opens a new, clean session.  If it still holds the last one, it
\* closes that first, and publishes its will.
NewSession ==
  /\ session' = TRUE /\ subs' = {}
  /\ lwt' = IF session THEN "offline" ELSE lwt
  /\ UNCHANGED shown

Connects ==
  /\ client = "connecting"
  /\ client' = "connected"
  /\ due' = due \cup {"onConnect"}
  /\ NewSession
  /\ UNCHANGED <<own, outbox, inbox, callback, losses, commands, reported>>

\* onConnectFailure only logs.
ConnectFails ==
  /\ client = "connecting"
  /\ client' = "lost"
  /\ UNCHANGED <<own, due, outbox, inbox, callback, losses, broker, commands, reported>>

\* What the broker has not got is gone, as the session was a clean one.
ConnectionLost ==
  /\ client = "connected" /\ losses < MaxLosses
  /\ client' = "lost"
  /\ outbox' = << >>
  /\ losses' = losses + 1
  /\ UNCHANGED <<own, due, inbox, callback, broker, commands, reported>>

\* onSuccess of MQTTAsync_connect is not called for a reconnect.
Reconnects ==
  /\ client = "lost"
  /\ client' = "connected"
  /\ NewSession
  /\ UNCHANGED <<own, due, outbox, inbox, callback, losses, commands, reported>>

\* The broker finds the connection gone, and publishes the will.
SessionEnds ==
  /\ session /\ client \notin {"connected", "disconnecting"}
  /\ session' = FALSE /\ subs' = {} /\ lwt' = "offline"
  /\ UNCHANGED <<own, library, shown, commands, reported>>

\* The broker gets the oldest of what the library accepted.
Deliver ==
  /\ client \in {"connected", "disconnecting"} /\ outbox # << >>
  /\ LET m == Head(outbox)
     IN /\ shown' = IF m.kind = "publish"
                      THEN [shown EXCEPT ![m.topic] = m.n] ELSE shown
        /\ subs' = IF m.kind = "subscribe" THEN subs \cup {m.topic} ELSE subs
        /\ lwt' = IF m.kind = "online" THEN "online" ELSE lwt
  /\ outbox' = Tail(outbox)
  /\ UNCHANGED <<own, client, due, inbox, callback, losses, session, commands, reported>>

\* A user publishes to a control topic that is subscribed to.  Bound: messages
\* the library holds, with the one in the callback.
MessageArrives ==
  /\ client \in {"connected", "disconnecting"}
  /\ Len(inbox) + Len(callback) < MaxMessages
  /\ \E t \in subs, p \in Payloads :
       inbox' = Append(inbox, [topic |-> t, payload |-> p])
  /\ UNCHANGED <<own, client, due, outbox, callback, losses, broker, commands, reported>>

\* The disconnect is done: the will is discarded.
Disconnected ==
  /\ client = "disconnecting"
  /\ client' = "disconnected"
  /\ due' = due \cup {"onDisconnect"}
  /\ outbox' = << >>
  /\ session' = FALSE /\ subs' = {}
  /\ UNCHANGED <<own, inbox, callback, losses, lwt, shown, commands, reported>>

\* The connection is lost before the broker is told.
DisconnectFails ==
  /\ client = "disconnecting"
  /\ client' = "disconnected"
  /\ due' = due \cup {"onDisconnectFailure"}
  /\ outbox' = << >>
  /\ UNCHANGED <<own, inbox, callback, losses, broker, commands, reported>>

-----------------------------------------------------------------------------
(***************************************************************************)
(* The panel manager.                                                      *)
(***************************************************************************)
ReportOf(x) ==
  LET n == reported[<<x, "status">>] + 1
  IN [of |-> x, n |-> n, firstreport |-> n = 1]

Counted(x) ==
  reported' = [t \in Topics |-> IF t[1] = x THEN reported[t] + 1 ELSE reported[t]]

ReportsMade == MapThenSumSet(LAMBDA x : reported[<<x, "status">>], Areas \cup Zones)

AreaReported ==
  /\ ReportsMade < MaxReports
  /\ \E a \in Areas :
       /\ areaReports' = Append(areaReports, ReportOf(a))
       /\ Counted(a)
  /\ UNCHANGED <<thread, zoneReports, todo, socket, mqtt_disconnected,
                 library, broker, commands>>

ZoneReported ==
  /\ ReportsMade < MaxReports
  /\ \E z \in Zones :
       /\ zoneReports' = Append(zoneReports, ReportOf(z))
       /\ Counted(z)
  /\ UNCHANGED <<thread, areaReports, todo, socket, mqtt_disconnected,
                 library, broker, commands>>

TakeCommand ==
  /\ commands # << >>
  /\ commands' = Tail(commands)
  /\ UNCHANGED <<own, library, broker, reported>>

-----------------------------------------------------------------------------
Init ==
  /\ thread = "starting" /\ areaReports = << >> /\ zoneReports = << >>
  /\ todo = << >> /\ socket = "none" /\ mqtt_disconnected = FALSE
  /\ commands = << >>
  /\ client = "connecting" /\ due = {} /\ outbox = << >> /\ inbox = << >>
  /\ callback = << >> /\ session = FALSE /\ subs = {} /\ lwt = "none"
  /\ shown = [t \in Topics |-> 0]
  /\ reported = [t \in Topics |-> 0]
  /\ losses = 0

Next ==
  \/ Thread \/ StartFails \/ ReceiveKill
  \/ OnConnect \/ OnDisconnect \/ mqtt_area_control \/ PushCommand
  \/ Connects \/ ConnectFails \/ ConnectionLost \/ Reconnects \/ SessionEnds
  \/ Deliver \/ MessageArrives \/ Disconnected \/ DisconnectFails
  \/ AreaReported \/ ZoneReported \/ TakeCommand

Spec == Init /\ [][Next]_vars

\* The thread runs, with its poll timeout; the library runs callbacks that are
\* due, delivers what it accepted while connected and completes a disconnect
\* it accepted.  Nothing is assumed of connections, reports and users.
FairSpec ==
  /\ Spec
  /\ WF_vars(Thread)
  /\ WF_vars(OnConnect \/ OnDisconnect)
  /\ WF_vars(PushCommand)
  /\ WF_vars(Deliver)
  /\ WF_vars(Disconnected \/ DisconnectFails)
  /\ WF_vars(SessionEnds)

-----------------------------------------------------------------------------
(***************************************************************************)
(* What holds of the thread.                                               *)
(***************************************************************************)
Reports(things) == [of: things, n: Nat, firstreport: BOOLEAN]

Sendings ==
  [kind: {"publish"}, topic: Topics, n: Nat]
    \cup [kind: {"subscribe"}, topic: ControlTopics, n: {0}]
    \cup {Online}

Commands ==
  [type: {"CMD_AREA_CONTROL"}, num: Areas,
   command: {"ARM_AWAY", "ARM_HOME", "DISARM"}]
    \cup [type: {"CMD_UTILITY_KEY"}, num: {"key"}, command: Payloads]

\* The types of the variables; in particular only topics of the area or zone
\* itself are published to.
TypeOK ==
  /\ thread \in {"starting", "bound", "polling", "stopping", "closing", "exited"}
  /\ areaReports \in Seq(Reports(Areas)) /\ zoneReports \in Seq(Reports(Zones))
  /\ todo \in Seq(Sendings) /\ outbox \in Seq(Sendings)
  /\ socket \in {"none", "open", "closed"} /\ mqtt_disconnected \in BOOLEAN
  /\ commands \in Seq(Commands) /\ callback \in Seq(Commands)
  /\ client \in {"connecting", "connected", "lost", "disconnecting",
                 "disconnected", "destroyed"}
  /\ due \subseteq {"onConnect", "onDisconnect", "onDisconnectFailure"}
  /\ inbox \in Seq([topic: ControlTopics, payload: Payloads])
  /\ session \in BOOLEAN /\ subs \subseteq ControlTopics
  /\ lwt \in {"none", "online", "offline"}
  /\ shown \in [Topics -> Nat] /\ reported \in [Topics -> Nat]
  /\ losses \in 0..MaxLosses

\* A callback finds the socket it pushes to open, from before it starts until it
\* has pushed: the thread subscribes after it has opened the socket, and closes it
\* only when the client is stopped and destroyed, which a callback still running
\* holds up.
CommandSocketOpen ==
  /\ callback # << >> => socket = "open"
  /\ inbox # << >> /\ client \in {"connected", "lost", "disconnecting"}
       => socket = "open"

\* The topics mirror the reports: whatever is lost with a connection, no topic
\* goes back to an older report, and none shows one that was not made.
Mirrored == INSTANCE Mirror
Mirrors == Mirrored!Spec

Up == client = "connected" /\ thread = "polling"

\* When a report waits while the client is connected, and stays connected from
\* then on, every topic of its area or zone comes to show the last one made.
Delivered ==
  \A t \in Topics :
    /\ \E rs \in {areaReports, zoneReports} : \E i \in 1..Len(rs) : rs[i].of = t[1]
    /\ []Up
    ~> shown[t] = reported[t]

\* Once the connection stays up, the daemon topic comes to show "online" for
\* good, although nothing tells the thread of a reconnect.  (The reports are
\* bounded: the thread comes to rest for 60 s.)
OnlineAgain == <>[]Up => <>[](lwt = "online")

PushWaits == callback # << >> /\ Len(commands) = MaxMessages

\* A thread whose disconnect was accepted ends, done or failed, unless a callback
\* waits for ever to push its command.
StopsIfAccepted ==
  thread = "stopping" /\ client = "disconnecting"
    ~> thread = "exited" \/ []PushWaits

-----------------------------------------------------------------------------
(***************************************************************************)
(* What the repository says of the thread and the code does not do.        *)
(***************************************************************************)

\* The control topic of an area that was reported of is listened to, whenever
\* the connection has come to stay up.
CommandsHeard ==
  <>[]Up => []<>(\A a \in Areas :
                   reported[<<a, "status">>] > 0 => <<a, "set">> \in subs)

\* A thread that was told to stop disconnects and ends.
StopsProperly == thread = "stopping" ~> thread = "exited"

=============================================================================
