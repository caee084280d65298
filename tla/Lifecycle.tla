----------------------------- MODULE Lifecycle -----------------------------
(***************************************************************************)
(* The daemon's start and end: main() of main.c from the creation of the   *)
(* context on, the signal handler, and of each of the three threads        *)
(* ("SERIAL", "PMGR", "MMGR") the opening and closing of its sockets,      *)
(* which may fail, its poll, and its pushes, which wait while nobody holds *)
(* the other end.  The panel manager also starts threads that send         *)
(* requests and that nobody waits for.                                     *)
(*                                                                         *)
(* What is pushed and why is left to the other modules: a thread at its    *)
(* poll may find something to push at any time.  Queues are not full.      *)
(***************************************************************************)
EXTENDS Integers, Sequences

CONSTANTS
  MaxSignals,     \* bound: SIGINT and SIGTERM received
  MaxPushes,      \* bound: pushes of a thread between two polls
  MaxRequesters   \* bound: detached threads that send requests at one time

ASSUME BoundAssumption ==
  MaxSignals \in Nat /\ MaxPushes \in Nat /\ MaxRequesters \in Nat

Threads == {"SERIAL", "PMGR", "MMGR"}

\* The sockets a thread opens before and after its sleep(1), in the order of
\* its code.
Bound == [SERIAL |-> <<"command_receiver">>,
          PMGR   |-> <<"serial_receiver", "mqtt_area_command">>,
          MMGR   |-> <<"area_report_reader", "zone_report_reader">>]

Connected == [SERIAL |-> <<"serial_publisher", "kill_subscriber">>,
              PMGR   |-> <<"kill_subscriber", "serial_sender",
                           "mqtt_area_report", "mqtt_zone_report">>,
              MMGR   |-> <<"kill_subscriber", "mqtt_area_command">>]

First(n, order) == {order[i] : i \in 1..n}
All(order) == First(Len(order), order)

\* What a thread pushes to, and whose socket that is.  PAHO, the thread of the
\* MQTT library that runs the callbacks, pushes commands on one of MMGR's.
Targets == [SERIAL |-> {"serial_receiver"},
            PMGR   |-> {"command_receiver", "area_report_reader", "zone_report_reader"},
            PAHO   |-> {"mqtt_area_command"}]

Reader == [serial_receiver |-> "PMGR", mqtt_area_command |-> "PMGR",
           command_receiver |-> "SERIAL",
           area_report_reader |-> "MMGR", zone_report_reader |-> "MMGR"]

VARIABLES
  main,           \* "starting", the thread main waits for, "cleaning",
                  \* "closing", "destroying", "done" or "crashed"
  device,         \* whether open() of the serial device succeeded
  killpublisher,  \* whether that socket is open
  freed,          \* whether areas[] and zones[] were freed
  pc,             \* of each thread: "none", "starting", "bound", "polling",
                  \* "stopping", "closing" or "ended"
  sockets,        \* of each thread: those that are open
  kill,           \* the threads a KILL waits for
  pushing,        \* what SERIAL, PMGR and PAHO push to before they poll again
  requesters,     \* how many detached threads are sending requests
  online,         \* whether the MQTT client is connected
  accepted,       \* whether it was when MMGR asked it to disconnect
  signals,        \* history: how many signals there were
  heard           \* history: the threads a signal reached

vars == <<main, device, killpublisher, freed, pc, sockets, kill, pushing,
          requesters, online, accepted, signals, heard>>
daemon == <<device, killpublisher, freed>>
past   == <<signals, heard>>
mqtt   == <<online, accepted>>
pushes == <<pushing, requesters>>

\* With main the whole process ends, and so do the threads still running.
Alive == main \notin {"done", "crashed"}

-----------------------------------------------------------------------------
(***************************************************************************)
(* main().                                                                 *)
(***************************************************************************)

\* The publisher of the KILL cannot be bound; signals are not caught yet.
BindFails ==
  /\ main = "starting" /\ signals = 0
  /\ main' = "cleaning"
  /\ UNCHANGED <<daemon, pc, sockets, kill, pushes, mqtt, past>>

\* The threads are created; without the device, the other two run all the
\* same, and main goes straight to its end.
StartThreads ==
  /\ main = "starting"
  /\ device' \in BOOLEAN
  /\ pc' = [t \in Threads |-> IF t = "SERIAL" /\ ~device' THEN "none" ELSE "starting"]
  /\ main' = IF device' THEN "SERIAL" ELSE "cleaning"
  /\ UNCHANGED <<killpublisher, freed, sockets, kill, pushes, mqtt, past>>

\* Mutant: the panel manager is not waited for.
NoPmgr_Next == [SERIAL |-> "MMGR", PMGR |-> "MMGR", MMGR |-> "cleaning"]

JoinedNext == [SERIAL |-> "PMGR", PMGR |-> "MMGR", MMGR |-> "cleaning"]

Join ==
  /\ main \in Threads
  /\ pc[main] = "ended"
  /\ main' = JoinedNext[main]
  /\ UNCHANGED <<daemon, pc, sockets, kill, pushes, mqtt, past>>

para_mgr_clean ==
  /\ main = "cleaning"
  /\ main' = "closing"
  /\ freed' = TRUE
  /\ UNCHANGED <<device, killpublisher, pc, sockets, kill, pushes, mqtt, past>>

ClosePublisher ==
  /\ main = "closing"
  /\ main' = "destroying"
  /\ killpublisher' = FALSE
  /\ UNCHANGED <<device, freed, pc, sockets, kill, pushes, mqtt, past>>

\* zmq_ctx_destroy waits until every socket is closed.
Destroyed ==
  /\ main = "destroying"
  /\ \A t \in Threads : sockets[t] = {}
  /\ main' = "done"
  /\ UNCHANGED <<daemon, pc, sockets, kill, pushes, mqtt, past>>

Main == BindFails \/ StartThreads \/ Join \/ para_mgr_clean \/ ClosePublisher \/ Destroyed

Subscribed == {t \in Threads : pc[t] = "polling"}

\* Mutant: a KILL waits for those who have yet to subscribe.
Early_s_signal_handler ==
  /\ Alive /\ signals < MaxSignals
  /\ signals' = signals + 1
  /\ kill' = IF killpublisher THEN kill \cup {t \in Threads : pc[t] # "none"} ELSE kill
  /\ heard' = IF killpublisher THEN heard \cup Subscribed ELSE heard
  /\ UNCHANGED <<main, daemon, pc, sockets, pushes, mqtt>>

\* What is published reaches those who have subscribed, and nobody else.
s_signal_handler ==
  /\ Alive /\ signals < MaxSignals
  /\ signals' = signals + 1
  /\ kill' = IF killpublisher THEN kill \cup Subscribed ELSE kill
  /\ heard' = IF killpublisher THEN heard \cup Subscribed ELSE heard
  /\ UNCHANGED <<main, daemon, pc, sockets, pushes, mqtt>>

-----------------------------------------------------------------------------
(***************************************************************************)
(* The threads.                                                            *)
(***************************************************************************)

\* On its way out MMGR first asks its client to disconnect.
Leave(t) ==
  /\ pc' = [pc EXCEPT ![t] = IF t = "MMGR" THEN "stopping" ELSE "closing"]
  /\ accepted' = IF t = "MMGR" THEN online ELSE accepted
  /\ UNCHANGED <<main, daemon, pushing, online, past>>

\* Mutant: the panel manager starts its first requests before its sockets.
Hasty_OpenFails(t) ==
  /\ pc[t] = "starting" \/ (pc[t] = "bound" /\ main \notin {"cleaning", "closing"})
  /\ LET order == IF pc[t] = "starting" THEN Bound[t] ELSE Connected[t]
     IN \E n \in 0..Len(order) - 1, rest \in {{}, {"failed"}} :
          /\ main = "destroying" => n = 0 /\ rest = {}
          /\ sockets' = [sockets EXCEPT ![t] = @ \cup First(n, order) \cup rest]
  /\ requesters' = IF t = "PMGR" /\ pc[t] = "bound" THEN requesters + 1 ELSE requesters
  /\ Leave(t)
  /\ UNCHANGED kill

\* A socket cannot be created, or not be bound or connected, and is closed with
\* those before it.  None can be created in a context that is being destroyed.
OpenFails(t) ==
  /\ pc[t] = "starting" \/ (pc[t] = "bound" /\ main \notin {"cleaning", "closing"})
  /\ LET order == IF pc[t] = "starting" THEN Bound[t] ELSE Connected[t]
     IN \E n \in 0..Len(order) - 1, rest \in {{}, {"failed"}} :
          /\ main = "destroying" => n = 0 /\ rest = {}
          /\ sockets' = [sockets EXCEPT ![t] = @ \cup First(n, order) \cup rest]
  /\ Leave(t)
  /\ UNCHANGED <<kill, requesters>>

OpenFirst(t) ==
  /\ main # "destroying" /\ pc[t] = "starting"
  /\ pc' = [pc EXCEPT ![t] = "bound"]
  /\ sockets' = [sockets EXCEPT ![t] = All(Bound[t])]
  /\ UNCHANGED <<main, daemon, kill, pushes, mqtt, past>>

\* After sleep(1), which is longer than main takes to clean up.  The panel
\* manager starts a thread that asks for the state of everything.
OpenRest(t) ==
  /\ main \in Threads /\ pc[t] = "bound"
  /\ pc' = [pc EXCEPT ![t] = "polling"]
  /\ sockets' = [sockets EXCEPT ![t] = @ \cup All(Connected[t])]
  /\ requesters' = IF t = "PMGR" THEN 1 ELSE requesters
  /\ UNCHANGED <<main, daemon, kill, pushing, mqtt, past>>

\* The thread is at zmq_poll.
Polling(t) == pc[t] = "polling" /\ (t # "MMGR" => pushing[t] = << >>)

ReceiveKill(t) ==
  /\ Polling(t) /\ t \in kill
  /\ kill' = kill \ {t}
  /\ Leave(t)
  /\ UNCHANGED <<sockets, requesters>>

\* What a chunk of bytes, a line or a command makes a thread push, one after
\* the other; a KILL is looked for before and after, not in between.
BeginPush(t) ==
  /\ Alive /\ t # "MMGR" /\ Polling(t) /\ t \notin kill
  /\ \E n \in 1..MaxPushes : \E es \in [1..n -> Targets[t]] :
       pushing' = [pushing EXCEPT ![t] = es]
  /\ UNCHANGED <<main, daemon, pc, sockets, kill, requesters, mqtt, past>>

\* A message for a control topic, once MMGR has subscribed and until its
\* client has disconnected.
BeginCallback ==
  /\ Alive /\ online /\ pushing["PAHO"] = << >>
  /\ "mqtt_area_command" \in sockets["MMGR"]
  /\ \E e \in Targets["PAHO"] : pushing' = [pushing EXCEPT !["PAHO"] = <<e>>]
  /\ UNCHANGED <<main, daemon, pc, sockets, kill, requesters, mqtt, past>>

HasReader(e) == e \in sockets[Reader[e]]

\* zmq_msg_send waits while there is no socket to push to.
EndPush(t) ==
  /\ Alive /\ pushing[t] # << >>
  /\ HasReader(Head(pushing[t]))
  /\ pushing' = [pushing EXCEPT ![t] = Tail(@)]
  /\ UNCHANGED <<main, daemon, pc, sockets, kill, requesters, mqtt, past>>

\* Nothing came for a period: a thread asks for the state of the areas.
PollTimeout ==
  /\ Alive /\ Polling("PMGR") /\ "PMGR" \notin kill
  /\ requesters < MaxRequesters
  /\ requesters' = requesters + 1
  /\ UNCHANGED <<main, daemon, pc, sockets, kill, pushing, mqtt, past>>

\* What the detached threads use, the records and the sender of the panel
\* manager, is no more: there is no telling what they do.
Stale == freed \/ "serial_sender" \notin sockets["PMGR"]

RequesterEnds ==
  /\ Alive /\ requesters > 0
  /\ Stale \/ HasReader("command_receiver")
  /\ requesters' = requesters - 1
  /\ UNCHANGED <<main, daemon, pc, sockets, kill, pushing, mqtt, past>>

RequesterCrashes ==
  /\ Alive /\ requesters > 0 /\ Stale
  /\ main' = "crashed"
  /\ UNCHANGED <<daemon, pc, sockets, kill, pushes, mqtt, past>>

Requester == PollTimeout \/ RequesterEnds \/ RequesterCrashes

\* The library has run the callbacks that were due, then the one MMGR waits
\* for; a disconnect it did not accept has none.
Disconnected ==
  /\ Alive /\ pc["MMGR"] = "stopping" /\ accepted
  /\ pushing["PAHO"] = << >>
  /\ pc' = [pc EXCEPT !["MMGR"] = "closing"]
  /\ online' = FALSE
  /\ UNCHANGED <<main, daemon, sockets, kill, pushes, accepted, past>>

\* Mutant: the subscriber of the panel manager is forgotten.
Forgetful_CloseSockets(t) ==
  /\ pc[t] = "closing"
  /\ pc' = [pc EXCEPT ![t] = "ended"]
  /\ sockets' = [sockets EXCEPT ![t] = IF t = "PMGR" THEN @ \cap {"kill_subscriber"} ELSE {}]
  /\ kill' = kill \ {t}
  /\ UNCHANGED <<main, daemon, pushes, mqtt, past>>

CloseSockets(t) ==
  /\ pc[t] = "closing"
  /\ pc' = [pc EXCEPT ![t] = "ended"]
  /\ sockets' = [sockets EXCEPT ![t] = {}]
  /\ kill' = kill \ {t}
  /\ UNCHANGED <<main, daemon, pushes, mqtt, past>>

Thread(t) ==
  /\ Alive
  /\ OpenFails(t) \/ OpenFirst(t) \/ OpenRest(t) \/ ReceiveKill(t) \/ CloseSockets(t)

\* The client connects, and loses its connection.
ConnectionChanges ==
  /\ Alive /\ pc["MMGR"] \in {"starting", "bound", "polling"}
  /\ online' = ~online
  /\ UNCHANGED <<main, daemon, pc, sockets, kill, pushes, accepted, past>>

-----------------------------------------------------------------------------
Init ==
  /\ main = "starting" /\ device = FALSE /\ killpublisher = TRUE /\ freed = FALSE
  /\ pc = [t \in Threads |-> "none"] /\ sockets = [t \in Threads |-> {}]
  /\ kill = {} /\ pushing = [t \in DOMAIN Targets |-> << >>] /\ requesters = 0
  /\ online = FALSE /\ accepted = FALSE
  /\ signals = 0 /\ heard = {}

Next ==
  \/ Main \/ s_signal_handler \/ ConnectionChanges \/ Disconnected \/ BeginCallback
  \/ Requester
  \/ \E t \in Threads : Thread(t) \/ BeginPush(t)
  \/ \E t \in DOMAIN pushing : EndPush(t)

Spec == Init /\ [][Next]_vars

\* Every thread runs, and so does the library.  Nothing is assumed of signals,
\* of what there is to push, of the connection, and of the detached threads.
FairSpec ==
  /\ Spec
  /\ WF_vars(Main) /\ WF_vars(Disconnected)
  /\ \A t \in Threads : WF_vars(Thread(t))
  /\ \A t \in DOMAIN Targets : WF_vars(EndPush(t))

-----------------------------------------------------------------------------
\* The types of the variables; a KILL waits only for a thread that subscribed
\* and has not closed its socket.
TypeOK ==
  /\ main \in Threads \cup {"starting", "cleaning", "closing", "destroying",
                            "done", "crashed"}
  /\ device \in BOOLEAN /\ killpublisher \in BOOLEAN /\ freed \in BOOLEAN
  /\ pc \in [Threads -> {"none", "starting", "bound", "polling", "stopping",
                         "closing", "ended"}]
  /\ \A t \in Threads :
       sockets[t] \subseteq All(Bound[t]) \cup All(Connected[t]) \cup {"failed"}
  /\ kill \subseteq {t \in Threads : "kill_subscriber" \in sockets[t]}
  /\ \A t \in DOMAIN Targets : pushing[t] \in Seq(Targets[t])
  /\ requesters \in Nat
  /\ online \in BOOLEAN /\ accepted \in BOOLEAN
  /\ signals \in 0..MaxSignals /\ heard \subseteq Threads

\* When main frees the records none of its three threads uses them any more:
\* none is at its poll or in a handler, and, if the device was opened, they have
\* all ended.  The detached threads are not waited for, see below.
FreedAfterThreads ==
  freed =>
    \A t \in Threads :
      /\ pc[t] # "polling"
      /\ t # "MMGR" => pushing[t] = << >>
      /\ device => pc[t] = "ended" /\ sockets[t] = {}

\* A detached thread outlives what it uses, but only after a signal told the
\* panel manager to end: no failure to open a socket, no other thread that ends
\* and no device that cannot be opened takes it away.
StaleOnlyWhenTold ==
  requesters > 0 /\ Stale => "PMGR" \in heard

\* A push that nobody will ever take: its reader has closed its sockets.
Stranded(t) == pushing[t] # << >> /\ pc[Reader[Head(pushing[t])]] = "ended"

\* The client was not connected when MMGR asked it to disconnect.
Refused == pc["MMGR"] = "stopping" /\ ~accepted

\* Every thread was reached by a signal, or found a socket it could not open.
AllTold ==
  main \in Threads /\
    \A t \in Threads : t \in heard \/ pc[t] \in {"stopping", "closing", "ended"}

\* When every thread was told to end or gave up, the daemon ends, as it does when
\* the device cannot be opened, whatever else goes on, but for the two ways to
\* wait for ever: a push to a thread that ended first, and a disconnect that was
\* refused.
Ends ==
  AllTold \/ main = "cleaning"
    ~> ~Alive \/ Refused \/ \E t \in DOMAIN pushing : Stranded(t)

=============================================================================
