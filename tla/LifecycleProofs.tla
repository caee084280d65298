-------------------------- MODULE LifecycleProofs --------------------------
(***************************************************************************)
(* Proofs about Lifecycle: that the types are right, that none of main's   *)
(* three threads uses the records when main frees them, and that only a    *)
(* signal takes from the detached threads what they use; for every number  *)
(* of signals, of pushes between two polls and of detached threads.        *)
(***************************************************************************)
EXTENDS Lifecycle, TLAPS

-----------------------------------------------------------------------------
(***************************************************************************)
(* The inductive invariant.                                                *)
(***************************************************************************)

AtEnd == {"cleaning", "closing", "destroying", "done"}
States == {"none", "starting", "bound", "polling", "stopping", "closing", "ended"}
Opened(t) == All(Bound[t]) \cup All(Connected[t])
OpenedByAny == UNION {Opened(t) : t \in Threads}
Names == OpenedByAny \cup {"failed"}
Pushers == {"SERIAL", "PMGR", "PAHO"}
Endpoints == UNION {Targets[t] : t \in Pushers}

Types ==
  /\ main \in Threads \cup {"starting", "crashed"} \cup AtEnd
  /\ pc \in [Threads -> States]
  /\ sockets \in [Threads -> SUBSET Names]
  /\ pushing \in [Pushers -> Seq(Endpoints)]
  /\ requesters \in Nat
  /\ signals \in 0..MaxSignals /\ heard \subseteq Threads

Flags ==
  /\ device \in BOOLEAN /\ killpublisher \in BOOLEAN /\ freed \in BOOLEAN
  /\ online \in BOOLEAN /\ accepted \in BOOLEAN

\* What a thread has open at each place of its code.
SocketsFit(t) ==
  /\ sockets[t] \subseteq Opened(t) \cup {"failed"}
  /\ pc[t] \in {"none", "starting", "ended"} => sockets[t] = {}
  /\ pc[t] = "bound" => sockets[t] = All(Bound[t])
  /\ pc[t] = "polling" => sockets[t] = Opened(t)

\* A KILL waits for a thread that has its subscriber, and that it reached.
KillsFit ==
  /\ kill \subseteq {t \in Threads : "kill_subscriber" \in sockets[t]}
  /\ kill \subseteq heard

\* A thread of the daemon that pushes is at its poll: it leaves the loop, and
\* ends, only when it has nothing left to push.
PushersPoll == \A t \in {"SERIAL", "PMGR"} : pushing[t] # << >> => pc[t] = "polling"

PushesFit == \A t \in Pushers : pushing[t] \in Seq(Targets[t])

\* The threads main has joined when it stands at a place of its code.
Joined(m) ==
  CASE m = "PMGR" -> {"SERIAL"}
    [] m = "MMGR" -> {"SERIAL", "PMGR"}
    [] m \in AtEnd -> Threads
    [] OTHER -> {}

\* Where main stands, and what that says of the threads.
MainInOrder ==
  /\ main = "starting" => ~device /\ pc = [t \in Threads |-> "none"]
  /\ main \in Threads => device
  /\ device => \A t \in Joined(main) : pc[t] = "ended"
  /\ ~device => \A t \in Threads : pc[t] # "polling"

\* The same once the records are freed, where a crash may follow.
FreedInOrder ==
  freed =>
    /\ main \in {"closing", "destroying", "done", "crashed"}
    /\ device => \A t \in Threads : pc[t] = "ended"

\* Detached threads are started at the poll of the panel manager, and while they
\* run it leaves the poll only when a KILL has reached it.
RequestersFit ==
  requesters > 0 =>
    /\ pc["PMGR"] \in {"polling", "closing", "ended"}
    /\ pc["PMGR"] # "polling" => "PMGR" \in heard

IInv ==
  /\ Types
  /\ Flags
  /\ \A t \in Threads : SocketsFit(t)
  /\ KillsFit
  /\ PushersPoll
  /\ PushesFit
  /\ MainInOrder
  /\ FreedInOrder
  /\ RequestersFit

-----------------------------------------------------------------------------
(***************************************************************************)
(* The tables of the model, read field by field.                           *)
(***************************************************************************)

\* What each thread opens.
LEMMA Tables ==
  /\ All(Bound["SERIAL"]) = {"command_receiver"}
  /\ All(Bound["PMGR"]) = {"serial_receiver", "mqtt_area_command"}
  /\ All(Bound["MMGR"]) = {"area_report_reader", "zone_report_reader"}
  /\ All(Connected["SERIAL"]) = {"serial_publisher", "kill_subscriber"}
  /\ All(Connected["PMGR"]) = {"kill_subscriber", "serial_sender",
                               "mqtt_area_report", "mqtt_zone_report"}
  /\ All(Connected["MMGR"]) = {"kill_subscriber", "mqtt_area_command"}
<1>1. \A a : First(1, <<a>>) = {a}
  BY DEF First
<1>2. \A a, b : First(2, <<a, b>>) = {a, b}
  BY DEF First
<1>3. \A a, b, c, d : First(4, <<a, b, c, d>>) = {a, b, c, d}
  BY DEF First
<1> QED
  BY <1>1, <1>2, <1>3 DEF All, Bound, Connected

\* A thread connects to the one that tells it to end in its second half only.
LEMMA SocketsOfThread ==
  ASSUME NEW t \in Threads
  PROVE  /\ Opened(t) \cup {"failed"} \subseteq Names
         /\ "kill_subscriber" \notin All(Bound[t])
         /\ "kill_subscriber" \in All(Connected[t])
<1>1. "kill_subscriber" \notin All(Bound[t]) /\ "kill_subscriber" \in All(Connected[t])
  BY Tables DEF Threads
<1>2. Opened(t) \subseteq OpenedByAny
  <2>1. Opened(t) \in {Opened(u) : u \in Threads}
    OBVIOUS
  <2> QED
    BY <2>1 DEF OpenedByAny
<1>3. Opened(t) \cup {"failed"} \subseteq Names
  BY <1>2 DEF Names
<1> QED
  BY <1>1, <1>3

\* What is opened of a half before one fails belongs to that half.
LEMMA FirstOfAll ==
  ASSUME NEW t \in Threads, NEW order \in {Bound[t], Connected[t]},
         NEW n \in 0..Len(order) - 1
  PROVE  First(n, order) \subseteq Opened(t)
<1>1. Len(order) \in Nat
  BY DEF Bound, Connected, Threads
<1>2. 1..n \subseteq 1..Len(order)
  BY <1>1
<1> QED
  BY <1>2, Zenon DEF First, All, Opened

\* Who pushes where.
LEMMA TablesOfPushers ==
  /\ DOMAIN Targets = Pushers
  /\ \A t \in Pushers : Targets[t] \subseteq Endpoints
BY DEF Targets, Pushers, Endpoints

\* main waits for the threads one by one, and the next one is not joined yet.
LEMMA TableOfJoins ==
  /\ JoinedNext["SERIAL"] = "PMGR" /\ JoinedNext["PMGR"] = "MMGR"
  /\ JoinedNext["MMGR"] = "cleaning"
BY DEF JoinedNext

\* Behind each join comes that of another thread, or the end.
LEMMA JoinOrder ==
  ASSUME NEW m \in Threads
  PROVE  /\ JoinedNext[m] \in Threads \cup AtEnd
         /\ JoinedNext[m] \notin {"starting", "SERIAL", "closing", "destroying",
                                 "done", "crashed"}
         /\ Joined(JoinedNext[m]) = Joined(m) \cup {m}
BY TableOfJoins DEF Threads, AtEnd, Joined

-----------------------------------------------------------------------------
(***************************************************************************)
(* The invariant is inductive.                                             *)
(***************************************************************************)

\* IInv holds before the first thread starts ...
LEMMA InitIInv == Init => IInv
<1> SUFFICES ASSUME Init PROVE IInv
  OBVIOUS
<1>1. Types
  <2>1. pushing = [t \in Pushers |-> << >>]
    BY TablesOfPushers DEF Init
  <2>2. pushing \in [Pushers -> Seq(Endpoints)]
    BY <2>1
  <2>3. pc \in [Threads -> States] /\ sockets \in [Threads -> SUBSET Names]
    BY DEF Init, States
  <2>4. main \in Threads \cup {"starting"} \cup AtEnd /\ heard \subseteq Threads
    BY DEF Init
  <2>5. signals \in 0..MaxSignals /\ requesters \in Nat
    BY BoundAssumption DEF Init
  <2> QED
    BY <2>2, <2>3, <2>4, <2>5 DEF Types
<1>2. \A t \in Threads : SocketsFit(t)
  BY DEF Init, SocketsFit
<1>3. KillsFit /\ PushersPoll /\ PushesFit
  <2>1. pushing = [t \in Pushers |-> << >>]
    BY TablesOfPushers DEF Init
  <2> QED
    BY <2>1 DEF Init, KillsFit, PushersPoll, PushesFit, Pushers
<1>4. MainInOrder /\ FreedInOrder /\ RequestersFit
  BY DEF Init, MainInOrder, FreedInOrder, RequestersFit, Threads, Joined, AtEnd
<1>5. Flags
  BY DEF Init, Flags
<1> QED
  BY <1>1, <1>2, <1>3, <1>4, <1>5 DEF IInv

\* ... and every step of main, a thread, a callback or a signal keeps it.
LEMMA StepIInv == IInv /\ [Next]_vars => IInv'
<1> SUFFICES ASSUME IInv, [Next]_vars
             PROVE  IInv'
  OBVIOUS
<1> USE DEF IInv
<1>1. CASE BindFails
  <2>1. Types'
    BY <1>1 DEF BindFails, pushes, past, Types, AtEnd
  <2>2. Flags'
    BY <1>1 DEF BindFails, daemon, mqtt, Flags
  <2>3. \A u \in Threads : SocketsFit(u)'
    BY <1>1 DEF BindFails, SocketsFit
  <2>4. KillsFit'
    BY <1>1 DEF BindFails, past, KillsFit
  <2>5. PushersPoll'
    BY <1>1 DEF BindFails, pushes, PushersPoll
  <2>6. PushesFit'
    BY <1>1 DEF BindFails, pushes, PushesFit
  <2>7. MainInOrder'
    BY <1>1 DEF BindFails, daemon, MainInOrder, Threads, AtEnd
  <2>8. FreedInOrder'
    BY <1>1 DEF BindFails, daemon, FreedInOrder
  <2>9. RequestersFit'
    BY <1>1 DEF BindFails, pushes, past, RequestersFit
  <2> QED
    BY <2>1, <2>2, <2>3, <2>4, <2>5, <2>6, <2>7, <2>8, <2>9
<1>2. CASE StartThreads
  <2>1. Types'
    BY <1>2 DEF StartThreads, pushes, past, Types, States, Threads, AtEnd
  <2>2. Flags'
    BY <1>2 DEF StartThreads, mqtt, Flags
  <2>3. \A u \in Threads : SocketsFit(u)'
    BY <1>2 DEF StartThreads, SocketsFit, MainInOrder
  <2>4. KillsFit'
    BY <1>2 DEF StartThreads, past, KillsFit
  <2>5. PushersPoll'
    BY <1>2 DEF StartThreads, pushes, PushersPoll, MainInOrder, Threads
  <2>6. PushesFit'
    BY <1>2 DEF StartThreads, pushes, PushesFit
  <2>7. MainInOrder'
    BY <1>2 DEF StartThreads, MainInOrder, Joined, Threads, AtEnd
  <2>8. FreedInOrder'
    BY <1>2 DEF StartThreads, FreedInOrder, MainInOrder
  <2>9. RequestersFit'
    BY <1>2
       DEF StartThreads, pushes, past, RequestersFit, MainInOrder, Threads
  <2> QED
    BY <2>1, <2>2, <2>3, <2>4, <2>5, <2>6, <2>7, <2>8, <2>9
<1>3. CASE Join
  <2>1. Types'
    BY <1>3, JoinOrder DEF Join, pushes, past, Types
  <2>2. Flags'
    BY <1>3 DEF Join, daemon, mqtt, Flags
  <2>3. \A u \in Threads : SocketsFit(u)'
    BY <1>3 DEF Join, SocketsFit
  <2>4. KillsFit'
    BY <1>3 DEF Join, past, KillsFit
  <2>5. PushersPoll'
    BY <1>3 DEF Join, pushes, PushersPoll
  <2>6. PushesFit'
    BY <1>3 DEF Join, pushes, PushesFit
  <2>7. MainInOrder'
    BY <1>3, JoinOrder DEF Join, daemon, MainInOrder, Threads
  <2>8. FreedInOrder'
    BY <1>3 DEF Join, daemon, FreedInOrder, Threads
  <2>9. RequestersFit'
    BY <1>3 DEF Join, pushes, past, RequestersFit
  <2> QED
    BY <2>1, <2>2, <2>3, <2>4, <2>5, <2>6, <2>7, <2>8, <2>9
<1>4. CASE para_mgr_clean
  <2>1. Types'
    BY <1>4 DEF para_mgr_clean, pushes, past, Types, AtEnd
  <2>2. Flags'
    BY <1>4 DEF para_mgr_clean, mqtt, Flags
  <2>3. \A u \in Threads : SocketsFit(u)'
    BY <1>4 DEF para_mgr_clean, SocketsFit
  <2>4. KillsFit'
    BY <1>4 DEF para_mgr_clean, past, KillsFit
  <2>5. PushersPoll'
    BY <1>4 DEF para_mgr_clean, pushes, PushersPoll
  <2>6. PushesFit'
    BY <1>4 DEF para_mgr_clean, pushes, PushesFit
  <2>7. MainInOrder'
    BY <1>4 DEF para_mgr_clean, MainInOrder, Joined, Threads, AtEnd
  <2>8. FreedInOrder'
    BY <1>4 DEF para_mgr_clean, FreedInOrder, MainInOrder, Joined, AtEnd
  <2>9. RequestersFit'
    BY <1>4 DEF para_mgr_clean, pushes, past, RequestersFit
  <2> QED
    BY <2>1, <2>2, <2>3, <2>4, <2>5, <2>6, <2>7, <2>8, <2>9
<1>5. CASE ClosePublisher
  <2>1. Types'
    BY <1>5 DEF ClosePublisher, pushes, past, Types, AtEnd
  <2>2. Flags'
    BY <1>5 DEF ClosePublisher, mqtt, Flags
  <2>3. \A u \in Threads : SocketsFit(u)'
    BY <1>5 DEF ClosePublisher, SocketsFit
  <2>4. KillsFit'
    BY <1>5 DEF ClosePublisher, past, KillsFit
  <2>5. PushersPoll'
    BY <1>5 DEF ClosePublisher, pushes, PushersPoll
  <2>6. PushesFit'
    BY <1>5 DEF ClosePublisher, pushes, PushesFit
  <2>7. MainInOrder'
    BY <1>5 DEF ClosePublisher, MainInOrder, Joined, Threads, AtEnd
  <2>8. FreedInOrder'
    BY <1>5 DEF ClosePublisher, FreedInOrder
  <2>9. RequestersFit'
    BY <1>5 DEF ClosePublisher, pushes, past, RequestersFit
  <2> QED
    BY <2>1, <2>2, <2>3, <2>4, <2>5, <2>6, <2>7, <2>8, <2>9
<1>6. CASE Destroyed
  <2>1. Types'
    BY <1>6 DEF Destroyed, pushes, past, Types, AtEnd
  <2>2. Flags'
    BY <1>6 DEF Destroyed, daemon, mqtt, Flags
  <2>3. \A u \in Threads : SocketsFit(u)'
    BY <1>6 DEF Destroyed, SocketsFit
  <2>4. KillsFit'
    BY <1>6 DEF Destroyed, past, KillsFit
  <2>5. PushersPoll'
    BY <1>6 DEF Destroyed, pushes, PushersPoll
  <2>6. PushesFit'
    BY <1>6 DEF Destroyed, pushes, PushesFit
  <2>7. MainInOrder'
    BY <1>6 DEF Destroyed, daemon, MainInOrder, Joined, Threads, AtEnd
  <2>8. FreedInOrder'
    BY <1>6 DEF Destroyed, daemon, FreedInOrder
  <2>9. RequestersFit'
    BY <1>6 DEF Destroyed, pushes, past, RequestersFit
  <2> QED
    BY <2>1, <2>2, <2>3, <2>4, <2>5, <2>6, <2>7, <2>8, <2>9
<1>7. CASE s_signal_handler
  <2>1. Types'
    BY <1>7, BoundAssumption DEF s_signal_handler, Subscribed, pushes, Types
  <2>2. Flags'
    BY <1>7 DEF s_signal_handler, Subscribed, daemon, mqtt, Flags
  <2>3. \A u \in Threads : SocketsFit(u)'
    BY <1>7 DEF s_signal_handler, Subscribed, SocketsFit
  <2>4. KillsFit'
    BY <1>7, SocketsOfThread
       DEF s_signal_handler, Subscribed, KillsFit, SocketsFit, Opened, Types
  <2>5. PushersPoll'
    BY <1>7 DEF s_signal_handler, Subscribed, pushes, PushersPoll
  <2>6. PushesFit'
    BY <1>7 DEF s_signal_handler, Subscribed, pushes, PushesFit
  <2>7. MainInOrder'
    BY <1>7 DEF s_signal_handler, Subscribed, daemon, MainInOrder
  <2>8. FreedInOrder'
    BY <1>7 DEF s_signal_handler, Subscribed, daemon, FreedInOrder
  <2>9. RequestersFit'
    BY <1>7 DEF s_signal_handler, Subscribed, pushes, RequestersFit
  <2> QED
    BY <2>1, <2>2, <2>3, <2>4, <2>5, <2>6, <2>7, <2>8, <2>9
<1>8. CASE ConnectionChanges
  <2>1. Types'
    BY <1>8 DEF ConnectionChanges, pushes, past, Types
  <2>2. Flags'
    BY <1>8 DEF ConnectionChanges, daemon, Flags
  <2>3. \A u \in Threads : SocketsFit(u)'
    BY <1>8 DEF ConnectionChanges, SocketsFit
  <2>4. KillsFit'
    BY <1>8 DEF ConnectionChanges, past, KillsFit
  <2>5. PushersPoll'
    BY <1>8 DEF ConnectionChanges, pushes, PushersPoll
  <2>6. PushesFit'
    BY <1>8 DEF ConnectionChanges, pushes, PushesFit
  <2>7. MainInOrder'
    BY <1>8 DEF ConnectionChanges, daemon, MainInOrder
  <2>8. FreedInOrder'
    BY <1>8 DEF ConnectionChanges, daemon, FreedInOrder
  <2>9. RequestersFit'
    BY <1>8 DEF ConnectionChanges, pushes, past, RequestersFit
  <2> QED
    BY <2>1, <2>2, <2>3, <2>4, <2>5, <2>6, <2>7, <2>8, <2>9
<1>9. CASE Disconnected
  <2>1. Types'
    BY <1>9 DEF Disconnected, pushes, past, Types, States
  <2>2. Flags'
    BY <1>9 DEF Disconnected, daemon, Flags
  <2>3. \A u \in Threads : SocketsFit(u)'
    BY <1>9 DEF Disconnected, SocketsFit
  <2>4. KillsFit'
    BY <1>9 DEF Disconnected, past, KillsFit
  <2>5. PushersPoll'
    BY <1>9 DEF Disconnected, pushes, PushersPoll
  <2>6. PushesFit'
    BY <1>9 DEF Disconnected, pushes, PushesFit
  <2>7. MainInOrder'
    BY <1>9 DEF Disconnected, daemon, MainInOrder, Threads
  <2>8. FreedInOrder'
    BY <1>9 DEF Disconnected, daemon, FreedInOrder, Threads
  <2>9. RequestersFit'
    BY <1>9 DEF Disconnected, pushes, past, RequestersFit
  <2> QED
    BY <2>1, <2>2, <2>3, <2>4, <2>5, <2>6, <2>7, <2>8, <2>9
<1>10. CASE BeginCallback
  <2>0. PICK e \in Targets["PAHO"] : pushing' = [pushing EXCEPT !["PAHO"] = <<e>>]
    BY <1>10 DEF BeginCallback
  <2>00. <<e>> \in Seq(Targets["PAHO"]) /\ "PAHO" \in Pushers
    <3>1. \A S : e \in S => <<e>> \in Seq(S)
      OBVIOUS
    <3> QED
      BY <3>1, Zenon DEF Pushers
  <2>1. Types'
    BY <1>10, <2>0, <2>00, TablesOfPushers DEF BeginCallback, past, Types
  <2>2. Flags'
    BY <1>10 DEF BeginCallback, daemon, mqtt, Flags
  <2>3. \A u \in Threads : SocketsFit(u)'
    BY <1>10 DEF BeginCallback, SocketsFit
  <2>4. KillsFit'
    BY <1>10 DEF BeginCallback, past, KillsFit
  <2>5. PushersPoll'
    BY <1>10, <2>0, <2>00 DEF BeginCallback, PushersPoll, Types
  <2>6. PushesFit'
    BY <1>10, <2>0, <2>00 DEF BeginCallback, PushesFit, Types
  <2>7. MainInOrder'
    BY <1>10 DEF BeginCallback, daemon, MainInOrder
  <2>8. FreedInOrder'
    BY <1>10 DEF BeginCallback, daemon, FreedInOrder
  <2>9. RequestersFit'
    BY <1>10 DEF BeginCallback, past, RequestersFit
  <2> QED
    BY <2>1, <2>2, <2>3, <2>4, <2>5, <2>6, <2>7, <2>8, <2>9
<1>11. CASE PollTimeout
  <2>1. Types'
    BY <1>11 DEF PollTimeout, Polling, past, Types
  <2>2. Flags'
    BY <1>11 DEF PollTimeout, Polling, daemon, mqtt, Flags
  <2>3. \A u \in Threads : SocketsFit(u)'
    BY <1>11 DEF PollTimeout, Polling, SocketsFit
  <2>4. KillsFit'
    BY <1>11 DEF PollTimeout, Polling, past, KillsFit
  <2>5. PushersPoll'
    BY <1>11 DEF PollTimeout, Polling, PushersPoll
  <2>6. PushesFit'
    BY <1>11 DEF PollTimeout, Polling, PushesFit
  <2>7. MainInOrder'
    BY <1>11 DEF PollTimeout, Polling, daemon, MainInOrder
  <2>8. FreedInOrder'
    BY <1>11 DEF PollTimeout, Polling, daemon, FreedInOrder
  <2>9. RequestersFit'
    BY <1>11 DEF PollTimeout, Polling, past, RequestersFit
  <2> QED
    BY <2>1, <2>2, <2>3, <2>4, <2>5, <2>6, <2>7, <2>8, <2>9
<1>12. CASE RequesterEnds
  <2>1. Types'
    BY <1>12 DEF RequesterEnds, past, Types
  <2>2. Flags'
    BY <1>12 DEF RequesterEnds, daemon, mqtt, Flags
  <2>3. \A u \in Threads : SocketsFit(u)'
    BY <1>12 DEF RequesterEnds, SocketsFit
  <2>4. KillsFit'
    BY <1>12 DEF RequesterEnds, past, KillsFit
  <2>5. PushersPoll'
    BY <1>12 DEF RequesterEnds, PushersPoll
  <2>6. PushesFit'
    BY <1>12 DEF RequesterEnds, PushesFit
  <2>7. MainInOrder'
    BY <1>12 DEF RequesterEnds, daemon, MainInOrder
  <2>8. FreedInOrder'
    BY <1>12 DEF RequesterEnds, daemon, FreedInOrder
  <2>9. RequestersFit'
    BY <1>12 DEF RequesterEnds, past, RequestersFit, Types
  <2> QED
    BY <2>1, <2>2, <2>3, <2>4, <2>5, <2>6, <2>7, <2>8, <2>9
<1>13. CASE RequesterCrashes
  <2>1. Types'
    BY <1>13 DEF RequesterCrashes, pushes, past, Types
  <2>2. Flags'
    BY <1>13 DEF RequesterCrashes, daemon, mqtt, Flags
  <2>3. \A u \in Threads : SocketsFit(u)'
    BY <1>13 DEF RequesterCrashes, SocketsFit
  <2>4. KillsFit'
    BY <1>13 DEF RequesterCrashes, past, KillsFit
  <2>5. PushersPoll'
    BY <1>13 DEF RequesterCrashes, pushes, PushersPoll
  <2>6. PushesFit'
    BY <1>13 DEF RequesterCrashes, pushes, PushesFit
  <2>7. MainInOrder'
    BY <1>13 DEF RequesterCrashes, daemon, MainInOrder, Joined, Threads, AtEnd
  <2>8. FreedInOrder'
    BY <1>13 DEF RequesterCrashes, daemon, FreedInOrder
  <2>9. RequestersFit'
    BY <1>13 DEF RequesterCrashes, pushes, past, RequestersFit
  <2> QED
    BY <2>1, <2>2, <2>3, <2>4, <2>5, <2>6, <2>7, <2>8, <2>9
<1>14. ASSUME NEW t \in Threads, OpenFails(t)
      PROVE  IInv'
  <2>1. Types'
    BY <1>14, FirstOfAll, SocketsOfThread
       DEF OpenFails, Leave, past, Types, States
  <2>2. Flags'
    BY <1>14 DEF OpenFails, Leave, daemon, Flags
  <2>3. \A u \in Threads : SocketsFit(u)'
    BY <1>14, FirstOfAll DEF OpenFails, Leave, SocketsFit, Types
  <2>4. KillsFit'
    BY <1>14 DEF OpenFails, Leave, past, KillsFit
  <2>5. PushersPoll'
    BY <1>14 DEF OpenFails, Leave, PushersPoll
  <2>6. PushesFit'
    BY <1>14 DEF OpenFails, Leave, PushesFit
  <2>7. MainInOrder'
    BY <1>14 DEF OpenFails, Leave, daemon, MainInOrder
  <2>8. FreedInOrder'
    BY <1>14 DEF OpenFails, Leave, daemon, FreedInOrder
  <2>9. RequestersFit'
    BY <1>14 DEF OpenFails, Leave, past, RequestersFit, Types
  <2> QED
    BY <2>1, <2>2, <2>3, <2>4, <2>5, <2>6, <2>7, <2>8, <2>9
<1>15. ASSUME NEW t \in Threads, OpenFirst(t)
      PROVE  IInv'
  <2>1. Types'
    BY <1>15, SocketsOfThread
       DEF OpenFirst, pushes, past, Types, States, Opened
  <2>2. Flags'
    BY <1>15 DEF OpenFirst, daemon, mqtt, Flags
  <2>3. \A u \in Threads : SocketsFit(u)'
    BY <1>15 DEF OpenFirst, SocketsFit, Types, Opened
  <2>4. KillsFit'
    BY <1>15 DEF OpenFirst, past, KillsFit, SocketsFit
  <2>5. PushersPoll'
    BY <1>15 DEF OpenFirst, pushes, PushersPoll
  <2>6. PushesFit'
    BY <1>15 DEF OpenFirst, pushes, PushesFit
  <2>7. MainInOrder'
    BY <1>15 DEF OpenFirst, daemon, MainInOrder
  <2>8. FreedInOrder'
    BY <1>15 DEF OpenFirst, daemon, FreedInOrder
  <2>9. RequestersFit'
    BY <1>15 DEF OpenFirst, pushes, past, RequestersFit
  <2> QED
    BY <2>1, <2>2, <2>3, <2>4, <2>5, <2>6, <2>7, <2>8, <2>9
<1>16. ASSUME NEW t \in Threads, OpenRest(t)
      PROVE  IInv'
  <2>1. Types'
    BY <1>16, SocketsOfThread DEF OpenRest, past, Types, States, Opened
  <2>2. Flags'
    BY <1>16 DEF OpenRest, daemon, mqtt, Flags
  <2>3. \A u \in Threads : SocketsFit(u)'
    BY <1>16 DEF OpenRest, SocketsFit, Types, Opened
  <2>4. KillsFit'
    BY <1>16 DEF OpenRest, past, KillsFit
  <2>5. PushersPoll'
    BY <1>16 DEF OpenRest, PushersPoll
  <2>6. PushesFit'
    BY <1>16 DEF OpenRest, PushesFit
  <2>7. MainInOrder'
    BY <1>16 DEF OpenRest, daemon, MainInOrder
  <2>8. FreedInOrder'
    BY <1>16 DEF OpenRest, daemon, FreedInOrder, Threads
  <2>9. RequestersFit'
    BY <1>16 DEF OpenRest, past, RequestersFit, Types
  <2> QED
    BY <2>1, <2>2, <2>3, <2>4, <2>5, <2>6, <2>7, <2>8, <2>9
<1>17. ASSUME NEW t \in Threads, ReceiveKill(t)
      PROVE  IInv'
  <2>1. Types'
    BY <1>17 DEF ReceiveKill, Leave, Polling, past, Types, States
  <2>2. Flags'
    BY <1>17 DEF ReceiveKill, Leave, Polling, daemon, Flags
  <2>3. \A u \in Threads : SocketsFit(u)'
    BY <1>17 DEF ReceiveKill, Leave, Polling, SocketsFit
  <2>4. KillsFit'
    BY <1>17 DEF ReceiveKill, Leave, Polling, past, KillsFit
  <2>5. PushersPoll'
    BY <1>17 DEF ReceiveKill, Leave, Polling, PushersPoll
  <2>6. PushesFit'
    BY <1>17 DEF ReceiveKill, Leave, Polling, PushesFit
  <2>7. MainInOrder'
    BY <1>17 DEF ReceiveKill, Leave, Polling, daemon, MainInOrder
  <2>8. FreedInOrder'
    BY <1>17 DEF ReceiveKill, Leave, Polling, daemon, FreedInOrder
  <2>9. RequestersFit'
    BY <1>17
       DEF ReceiveKill, Leave, Polling, past, RequestersFit, KillsFit, Types, Threads
  <2> QED
    BY <2>1, <2>2, <2>3, <2>4, <2>5, <2>6, <2>7, <2>8, <2>9
<1>18. ASSUME NEW t \in Threads, CloseSockets(t)
      PROVE  IInv'
  <2>1. Types'
    BY <1>18 DEF CloseSockets, pushes, past, Types, States
  <2>2. Flags'
    BY <1>18 DEF CloseSockets, daemon, mqtt, Flags
  <2>3. \A u \in Threads : SocketsFit(u)'
    BY <1>18 DEF CloseSockets, SocketsFit, Types
  <2>4. KillsFit'
    BY <1>18 DEF CloseSockets, past, KillsFit
  <2>5. PushersPoll'
    BY <1>18 DEF CloseSockets, pushes, PushersPoll
  <2>6. PushesFit'
    BY <1>18 DEF CloseSockets, pushes, PushesFit
  <2>7. MainInOrder'
    BY <1>18 DEF CloseSockets, daemon, MainInOrder
  <2>8. FreedInOrder'
    BY <1>18 DEF CloseSockets, daemon, FreedInOrder
  <2>9. RequestersFit'
    BY <1>18 DEF CloseSockets, pushes, past, RequestersFit
  <2> QED
    BY <2>1, <2>2, <2>3, <2>4, <2>5, <2>6, <2>7, <2>8, <2>9
<1>19. ASSUME NEW t \in Threads, BeginPush(t)
      PROVE  IInv'
  <2>0. PICK m \in 1..MaxPushes :
              \E es \in [1..m -> Targets[t]] : pushing' = [pushing EXCEPT ![t] = es]
    BY <1>19 DEF BeginPush
  <2>01. PICK es \in [1..m -> Targets[t]] : pushing' = [pushing EXCEPT ![t] = es]
    BY <2>0
  <2>00. es \in Seq(Targets[t]) /\ t \in {"SERIAL", "PMGR"} /\ t \in Pushers
    BY <1>19, BoundAssumption DEF BeginPush, Threads, Pushers
  <2>1. Types'
    BY <1>19, <2>01, <2>00, TablesOfPushers
       DEF BeginPush, Polling, past, Types
  <2>2. Flags'
    BY <1>19 DEF BeginPush, Polling, daemon, mqtt, Flags
  <2>3. \A u \in Threads : SocketsFit(u)'
    BY <1>19 DEF BeginPush, Polling, SocketsFit
  <2>4. KillsFit'
    BY <1>19 DEF BeginPush, Polling, past, KillsFit
  <2>5. PushersPoll'
    BY <1>19, <2>01, <2>00 DEF BeginPush, Polling, PushersPoll, Types
  <2>6. PushesFit'
    BY <1>19, <2>01, <2>00 DEF BeginPush, Polling, PushesFit, Types
  <2>7. MainInOrder'
    BY <1>19 DEF BeginPush, Polling, daemon, MainInOrder
  <2>8. FreedInOrder'
    BY <1>19 DEF BeginPush, Polling, daemon, FreedInOrder
  <2>9. RequestersFit'
    BY <1>19 DEF BeginPush, Polling, past, RequestersFit
  <2> QED
    BY <2>1, <2>2, <2>3, <2>4, <2>5, <2>6, <2>7, <2>8, <2>9
<1>20. ASSUME NEW t \in Pushers, EndPush(t)
      PROVE  IInv'
  <2>0. \A S : pushing[t] \in Seq(S) => Tail(pushing[t]) \in Seq(S)
    BY <1>20 DEF EndPush
  <2>1. Types'
    BY <1>20, <2>0 DEF EndPush, past, Types
  <2>2. Flags'
    BY <1>20 DEF EndPush, daemon, mqtt, Flags
  <2>3. \A u \in Threads : SocketsFit(u)'
    BY <1>20 DEF EndPush, SocketsFit
  <2>4. KillsFit'
    BY <1>20 DEF EndPush, past, KillsFit
  <2>5. PushersPoll'
    BY <1>20 DEF EndPush, PushersPoll, Types
  <2>6. PushesFit'
    BY <1>20, <2>0 DEF EndPush, PushesFit, Types
  <2>7. MainInOrder'
    BY <1>20 DEF EndPush, daemon, MainInOrder
  <2>8. FreedInOrder'
    BY <1>20 DEF EndPush, daemon, FreedInOrder
  <2>9. RequestersFit'
    BY <1>20 DEF EndPush, past, RequestersFit
  <2> QED
    BY <2>1, <2>2, <2>3, <2>4, <2>5, <2>6, <2>7, <2>8, <2>9
<1>21. CASE UNCHANGED vars
  BY <1>21
     DEF vars, Types, Flags, SocketsFit, KillsFit, PushersPoll, PushesFit,
         MainInOrder, FreedInOrder, RequestersFit
<1> QED
  <2>1. DOMAIN pushing = Pushers
    BY DEF Types
  <2> QED
    BY <2>1, <1>1, <1>2, <1>3, <1>4, <1>5, <1>6, <1>7, <1>8, <1>9, <1>10, <1>11,
       <1>12, <1>13, <1>14, <1>15, <1>16, <1>17, <1>18, <1>19, <1>20, <1>21
       DEF Next, Main, Requester, Thread

\* So it always holds.
LEMMA Inductive == Spec => []IInv
<1> QED
  BY InitIInv, StepIInv, PTL DEF Spec

-----------------------------------------------------------------------------
(***************************************************************************)
(* The theorems.                                                           *)
(***************************************************************************)

\* The variables of main and of the threads have their types, a thread has open
\* only sockets it opens in its code, and the KILL of the signal handler waits
\* only for threads that have their subscriber.
THEOREM TypeCorrect == Spec => []TypeOK
<1>1. IInv => TypeOK
  BY TablesOfPushers
     DEF IInv, Types, Flags, SocketsFit, KillsFit, PushesFit, TypeOK, States, AtEnd,
         Opened
<1> QED
  BY <1>1, Inductive, PTL

\* para_mgr_clean runs in main after the three joins, or when the device could
\* not be opened: when it frees areas[] and zones[], none of the three threads
\* is at its poll, and with the device all have ended and closed their sockets.
THEOREM RecordsOutliveThreads == Spec => []FreedAfterThreads
<1>1. IInv => FreedAfterThreads
  <2> SUFFICES ASSUME IInv, freed, NEW t \in Threads
               PROVE  /\ pc[t] # "polling"
                      /\ t # "MMGR" => pushing[t] = << >>
                      /\ device => pc[t] = "ended" /\ sockets[t] = {}
    BY DEF FreedAfterThreads
  <2>1. pc[t] # "polling"
    BY DEF IInv, Flags, MainInOrder, FreedInOrder
  <2>2. device => pc[t] = "ended" /\ sockets[t] = {}
    BY DEF IInv, FreedInOrder, SocketsFit
  <2> QED
    BY <2>1, <2>2 DEF IInv, PushersPoll, Threads
<1> QED
  BY <1>1, Inductive, PTL

\* While no signal has reached the panel manager, it keeps the socket that its
\* detached threads send on, and main keeps the records they read.
THEOREM NothingIsStaleBefore == Spec => []StaleOnlyWhenTold
<1>1. IInv => StaleOnlyWhenTold
  <2> SUFFICES ASSUME IInv, requesters > 0, pc["PMGR"] = "polling"
               PROVE  ~Stale
    BY DEF StaleOnlyWhenTold, IInv, RequestersFit
  <2>1. ~freed
    BY DEF IInv, Flags, MainInOrder, FreedInOrder, Threads
  <2>2. "serial_sender" \in sockets["PMGR"]
    BY Tables DEF IInv, SocketsFit, Opened, Threads
  <2> QED
    BY <2>1, <2>2 DEF Stale
<1> QED
  BY <1>1, Inductive, PTL

=============================================================================
