--------------------------- MODULE RequestsProofs ---------------------------
(***************************************************************************)
(* Theorems about Requests, for any areas, zones, commands and bounds: the *)
(* types, and that commands reach the panel as CommandStream says.         *)
(***************************************************************************)
EXTENDS Requests, FlattenProofs

\* What the threads ask for, none of it a command, and what may be sent: a
\* stay arm is never sent with a user code.
Questions == {r \in AllRequests : ~IsCommand(r)}
Sendable  == {r \in AllRequests : Understood(r)}

\* TypeOK does not tell a question from a command, nor a request the PRT3
\* understands from one it does not.
SendInv ==
  /\ initial \in Seq(Questions) /\ periodic \in Seq(Questions)
  /\ write \in Seq(Sendable)

-----------------------------------------------------------------------------
(***************************************************************************)
(* What is sent.                                                           *)
(***************************************************************************)

\* A function whose domain is 1..n is a sequence.
LEMMA FunctionIsSeq ==
  ASSUME NEW n \in Nat, NEW R, NEW f \in [1..n -> R]
  PROVE  f \in Seq(R)
<1>1. Seq(R) = UNION {[1..k -> R] : k \in Nat}
  OBVIOUS
<1> QED
  BY <1>1, Zenon

\* A question is a request.
LEMMA QuestionsAreSendable == Questions \subseteq Sendable
BY DEF Questions, Sendable, IsCommand, Understood

\* The questions there are about an area ...
LEMMA OfArea ==
  ASSUME NEW a \in Areas
  PROVE  Request("AL", a) \in Questions /\ Request("RA", a) \in Questions
BY DEF Request, Questions, AllRequests, AreaRequests, IsCommand

\* ... and about a zone.
LEMMA OfZone ==
  ASSUME NEW z \in Zones
  PROVE  Request("ZL", z) \in Questions /\ Request("RZ", z) \in Questions
BY DEF Request, Questions, AllRequests, IsCommand

\* The loops over areas[] and zones[] send questions only.
LEMMA SeriesType ==
  /\ InitialRequests \in Seq(Questions)
  /\ PeriodicRequests \in Seq(Questions)
<1> DEFINE two == [i \in 1..MaxAreas |->
        IF i \in Areas THEN <<Request("AL", i), Request("RA", i)>> ELSE << >>]
<1> DEFINE zone == [i \in 1..MaxZones |->
        IF i \in Zones THEN <<Request("ZL", i), Request("RZ", i)>> ELSE << >>]
<1> DEFINE one == [i \in 1..MaxAreas |->
        IF i \in Areas THEN <<Request("RA", i)>> ELSE << >>]
<1>1. two \in [1..MaxAreas -> Seq(Questions)]
  <2>1. \A i \in Areas : <<Request("AL", i), Request("RA", i)>> \in Seq(Questions)
    BY OfArea
  <2> QED
    BY <2>1
<1>2. zone \in [1..MaxZones -> Seq(Questions)]
  <2>1. \A i \in Zones : <<Request("ZL", i), Request("RZ", i)>> \in Seq(Questions)
    BY OfZone
  <2> QED
    BY <2>1
<1>3. one \in [1..MaxAreas -> Seq(Questions)]
  <2>1. \A i \in Areas : <<Request("RA", i)>> \in Seq(Questions)
    BY OfArea
  <2> QED
    BY <2>1
<1>4. /\ InitialRequests = FlattenSeq(two) \o FlattenSeq(zone)
      /\ PeriodicRequests = FlattenSeq(one)
  BY DEF InitialRequests, PeriodicRequests, Each
<1> HIDE DEF two, zone, one
<1>5. /\ two \in Seq(Seq(Questions)) /\ zone \in Seq(Seq(Questions))
      /\ one \in Seq(Seq(Questions))
  BY <1>1, <1>2, <1>3, ConfigAssumption
<1>6. /\ FlattenSeq(two) \in Seq(Questions) /\ FlattenSeq(zone) \in Seq(Questions)
      /\ FlattenSeq(one) \in Seq(Questions)
  BY <1>5, FlattenType
<1> QED
  BY <1>4, <1>6

\* What a command makes the panel manager send: one request the PRT3
\* understands, or none.
LEMMA ProcessedCommand ==
  ASSUME NEW c \in Commands
  PROVE  \/ para_process_command(c) = << >> /\ Order(c) = << >>
         \/ \E r \in Sendable :
              /\ para_process_command(c) = <<r>>
              /\ IsCommand(r) /\ Order(c) = <<Meaning(r)>>
<1>1. /\ c.command \in {"ARM_AWAY", "ARM_HOME", "DISARM", "UTILITY_KEY"}
      /\ c.num \in Nat
  BY CommandsAssumption DEF AnyCommand, AreaControls, UTILITY_KEY
<1> USE DEF para_process_command, Order, UTILITY_KEY, IsCommand, Meaning, Arm, Request
<1>2. CASE c.command = "UTILITY_KEY"
  <2>1. CASE c.num \in 1..MaxUtilityKey
    <3> DEFINE r == Request("UK", c.num)
    <3>1. r \in Sendable
      BY <2>1 DEF Sendable, AllRequests, Understood
    <3> QED
      BY <1>2, <3>1
  <2> QED
    BY <1>2, <2>1
<1>3. CASE c.command # "UTILITY_KEY" /\ c.num \notin Areas
  BY <1>3
<1>4. CASE c.command = "ARM_AWAY" /\ c.num \in Areas
  <2> DEFINE r == Arm(IF UserCode THEN "AA" ELSE "AQ", c.num, "A")
  <2>1. r \in Sendable
    BY <1>4 DEF Sendable, AllRequests, AreaRequests, Understood
  <2> QED
    BY <1>4, <2>1
<1>5. CASE c.command = "ARM_HOME" /\ c.num \in Areas
  <2> DEFINE r == Arm("AQ", c.num, "S")
  <2>1. r \in Sendable
    BY <1>5 DEF Sendable, AllRequests, AreaRequests, Understood
  <2> QED
    BY <1>5, <2>1
<1>6. CASE c.command = "DISARM" /\ c.num \in Areas
  <2>1. CASE UserCode
    <3> DEFINE r == Request("AD", c.num)
    <3>1. r \in Sendable
      BY <1>6 DEF Sendable, AllRequests, AreaRequests, Understood
    <3> QED
      BY <1>6, <3>1
  <2> QED
    BY <1>6, <2>1
<1> QED
  BY <1>1, <1>2, <1>4, <1>5, <1>6

-----------------------------------------------------------------------------
(***************************************************************************)
(* The types.                                                              *)
(***************************************************************************)
LEMMA SendingTypes ==
  Seq(Questions) \subseteq Seq(AllRequests) /\ Seq(Sendable) \subseteq Seq(AllRequests)
<1>1. Questions \subseteq AllRequests /\ Sendable \subseteq AllRequests
  BY DEF Questions, Sendable
<1> QED
  BY <1>1

\* Both hold at first.
LEMMA InitInv == Init => TypeOK /\ SendInv
<1> SUFFICES ASSUME Init PROVE TypeOK /\ SendInv
  OBVIOUS
<1>1. SendInv
  BY SeriesType DEF Init, SendInv
<1>2. TypeOK
  <2>1. /\ commands \in Seq(Commands) /\ device \in Seq(AllLines)
        /\ serialread \in Seq(AllLines)
    BY DEF Init
  <2>2. /\ known \in [Areas -> Statuses \cup {Unset}] /\ learnt \subseteq Zones
        /\ panel \in [Areas -> Statuses] /\ shown \in [Areas -> Statuses]
    BY DEF Init, Statuses
  <2>3. residue \in BOOLEAN /\ lost \in Nat
    BY DEF Init
  <2>4. acts \in 0..MaxActs /\ faults \in 0..MaxFaults
    BY BoundsAssumption DEF Init
  <2> QED
    BY <1>1, <2>1, <2>2, <2>3, <2>4, SendingTypes DEF TypeOK, SendInv
<1> QED
  BY <1>1, <1>2

\* The PRT3 answers with lines, and changes areas it has.
LEMMA PRT3Type ==
  ASSUME TypeOK, NEW r \in Sendable, PRT3(r)
  PROVE  device' \in Seq(AllLines) /\ panel' \in [Areas -> Statuses]
<1>0. device \in Seq(AllLines) /\ panel \in [Areas -> Statuses]
      /\ shown \in [Areas -> Statuses]
  BY DEF TypeOK
<1>1. CASE ~IsCommand(r)
  <2> DEFINE l == Line(r.kind, r.num, IF r.kind = "RA" THEN shown[r.num] ELSE Unset)
  <2>1. l \in AllLines
    BY <1>0, <1>1
       DEF Sendable, AllRequests, AreaRequests, IsCommand, Line, AllLines
  <2>2. device' = Append(device, l) /\ panel' = panel
    BY <1>1 DEF PRT3
  <2> HIDE DEF l
  <2> QED
    BY <1>0, <2>1, <2>2
<1>2. CASE IsCommand(r)
  <2> DEFINE s == Meaning(r)[2]
  <2> DEFINE done == Understood(r) /\ r.kind # "UK" /\ CanBecome(r.num, s)
  <2> DEFINE answer == IF r.kind = "AD" THEN <<Line("AD", r.num, Unset)>> ELSE << >>
  <2> DEFINE event == IF done THEN <<Event(r.num, s)>> ELSE << >>
  <2>1. /\ panel' = IF done THEN [panel EXCEPT ![r.num] = s] ELSE panel
        /\ device' = device \o answer \o event
    BY <1>2 DEF PRT3
  <2>2. r.kind # "UK" => r.num \in Areas /\ s \in Statuses
    BY <1>2 DEF Sendable, AllRequests, AreaRequests, IsCommand, Meaning, Statuses
  <2>3. answer \in Seq(AllLines)
    <3>1. r.kind = "AD" => Line("AD", r.num, Unset) \in AllLines
      BY <2>2 DEF Line, AllLines
    <3> QED
      BY <3>1
  <2>4. event \in Seq(AllLines)
    <3>1. done => Event(r.num, s) \in AllLines
      BY <2>2 DEF Event, Line, AllLines
    <3> HIDE DEF s
    <3> QED
      BY <3>1
  <2>5. panel' \in [Areas -> Statuses]
    <3> HIDE DEF s
    <3> QED
      BY <1>0, <2>1, <2>2
  <2> HIDE DEF answer, event
  <2>6. device' \in Seq(AllLines)
    BY <1>0, <2>1, <2>3, <2>4
  <2> QED
    BY <2>5, <2>6
<1> QED
  BY <1>1, <1>2

\* A line that is taken leaves a status of areas[] a status.
LEMMA StatusType ==
  ASSUME TypeOK, NEW l \in AllLines, l.kind \notin {"RZ", "ZL"}
  PROVE  l.num \in Areas /\ StatusAfter(l) \in Statuses \cup {Unset}
<1>1. l.num \in Areas
  BY DEF AllLines
<1>2. known[l.num] \in Statuses \cup {Unset}
  BY <1>1 DEF TypeOK
<1>3. CASE l.kind = "G"
  <2>1. l.status \in Statuses
    BY <1>3 DEF AllLines
  <2> QED
    BY <1>1, <1>2, <1>3, <2>1 DEF StatusAfter
<1>4. CASE l.kind = "RA"
  <2>1. l.status \in Statuses
    BY <1>4 DEF AllLines
  <2> QED
    BY <1>1, <1>2, <1>4, <2>1 DEF StatusAfter
<1>5. CASE l.kind \in {"AD", "AL"}
  BY <1>1, <1>2, <1>5 DEF StatusAfter, Statuses
<1>6. l.kind \in {"G", "RA", "AD", "AL"}
  BY DEF AllLines
<1> QED
  BY <1>3, <1>4, <1>5, <1>6

\* Every step keeps TypeOK and SendInv.
LEMMA StepInv == TypeOK /\ SendInv /\ [Next]_vars => TypeOK' /\ SendInv'
<1> SUFFICES ASSUME TypeOK, SendInv, [Next]_vars PROVE TypeOK' /\ SendInv'
  OBVIOUS
<1>0. /\ initial \in Seq(Questions) /\ periodic \in Seq(Questions)
      /\ write \in Seq(Sendable)
      /\ commands \in Seq(Commands)
      /\ device \in Seq(AllLines) /\ serialread \in Seq(AllLines)
      /\ known \in [Areas -> Statuses \cup {Unset}] /\ learnt \subseteq Zones
      /\ panel \in [Areas -> Statuses] /\ shown \in [Areas -> Statuses]
      /\ residue \in BOOLEAN /\ lost \in Nat
      /\ acts \in 0..MaxActs /\ faults \in 0..MaxFaults
  BY DEF TypeOK, SendInv
<1> DEFINE Sent == /\ initial \in Seq(Questions) /\ periodic \in Seq(Questions)
                   /\ write \in Seq(Sendable)
<1> DEFINE Queued == /\ commands \in Seq(Commands)
                     /\ device \in Seq(AllLines) /\ serialread \in Seq(AllLines)
<1> DEFINE States == /\ known \in [Areas -> Statuses \cup {Unset}]
                     /\ learnt \subseteq Zones
                     /\ panel \in [Areas -> Statuses] /\ shown \in [Areas -> Statuses]
<1> DEFINE Counts == /\ residue \in BOOLEAN /\ lost \in Nat
                     /\ acts \in 0..MaxActs /\ faults \in 0..MaxFaults
<1> SUFFICES Sent' /\ Queued' /\ States' /\ Counts'
  <2> HIDE DEF Queued, States, Counts
  <2> SUFFICES ASSUME Sent', Queued', States', Counts' PROVE TypeOK' /\ SendInv'
    OBVIOUS
  <2> QED
    BY SendingTypes DEF TypeOK, SendInv, Queued, States, Counts
<1> USE DEF history, threads, prt3, pmgr
<1>1. CASE SendInitial
  <2>1. Head(initial) \in Questions /\ Tail(initial) \in Seq(Questions)
    BY <1>0, <1>1 DEF SendInitial
  <2>2. Append(write, Head(initial)) \in Seq(Sendable)
    BY <1>0, <2>1, QuestionsAreSendable
  <2> QED
    BY <1>0, <1>1, <2>2 DEF SendInitial
<1>2. CASE SendPeriodic
  <2>1. Head(periodic) \in Questions /\ Tail(periodic) \in Seq(Questions)
    BY <1>0, <1>2 DEF SendPeriodic
  <2>2. Append(write, Head(periodic)) \in Seq(Sendable)
    BY <1>0, <2>1, QuestionsAreSendable
  <2> QED
    BY <1>0, <1>2, <2>2 DEF SendPeriodic
<1>3. CASE ReceiveLine
  <2> PICK l \in AllLines : l = Head(serialread)
    BY <1>0, <1>3 DEF ReceiveLine
  <2>2. /\ learnt' \subseteq Zones
        /\ known' \in [Areas -> Statuses \cup {Unset}]
    <3>1. CASE l.kind \in {"RZ", "ZL"}
      <4>1. l.num \in Zones
        BY <3>1 DEF AllLines
      <4> QED
        BY <1>0, <1>3, <3>1, <4>1 DEF ReceiveLine
    <3>2. CASE l.kind \notin {"RZ", "ZL"}
      <4>1. l.num \in Areas /\ StatusAfter(l) \in Statuses \cup {Unset}
        BY <3>2, StatusType
      <4>2. known' = [known EXCEPT ![l.num] = StatusAfter(l)] /\ learnt' = learnt
        BY <1>3, <3>2 DEF ReceiveLine
      <4> QED
        BY <1>0, <4>1, <4>2
    <3> QED
      BY <3>1, <3>2
  <2> QED
    BY <1>0, <1>3, <2>2 DEF ReceiveLine
<1>4. CASE TakeCommand
  <2> PICK c \in Commands : c = Head(commands)
    BY <1>0, <1>4 DEF TakeCommand
  <2>2. para_process_command(c) \in Seq(Sendable)
    <3>1. CASE para_process_command(c) = << >>
      BY <3>1, EmptySeq
    <3>2. CASE \E r \in Sendable : para_process_command(c) = <<r>>
      <4>1. \A r \in Sendable : <<r>> \in Seq(Sendable)
        OBVIOUS
      <4> QED
        BY <3>2, <4>1, Zenon
    <3> QED
      BY <3>1, ProcessedCommand
  <2>3. write' \in Seq(Sendable)
    BY <1>0, <1>4, <2>2 DEF TakeCommand
  <2> QED
    BY <1>0, <1>4, <2>3 DEF TakeCommand
<1>5. CASE PollTimeout
  BY <1>0, <1>5, SeriesType DEF PollTimeout
<1>6. CASE Read
  <2> QED
    BY <1>0, <1>6 DEF Read
<1>7. CASE WriteRequest
  <2> PICK r \in Sendable : r = Head(write)
    BY <1>0, <1>7 DEF WriteRequest
  <2>1. write' \in Seq(Sendable)
    BY <1>0, <1>7 DEF WriteRequest
  <2>2. device' \in Seq(AllLines) /\ panel' \in [Areas -> Statuses]
    <3>1. CASE residue
      BY <1>0, <1>7, <3>1 DEF WriteRequest
    <3>2. CASE ~residue
      <4>1. PRT3(r)
        BY <1>7, <3>2 DEF WriteRequest
      <4> QED
        BY <4>1, PRT3Type
    <3> QED
      BY <3>1, <3>2
  <2>3. lost' \in Nat
    BY <1>0, <1>7 DEF WriteRequest, Spoiled
  <2> QED
    BY <1>0, <1>7, <2>1, <2>2, <2>3 DEF WriteRequest
<1>8. CASE ShortWrite
  <2>2. residue' \in BOOLEAN /\ lost' \in Nat
    <3>1. residue' \in {residue, TRUE} /\ lost' = lost + Spoiled(Head(write))
      BY <1>8 DEF ShortWrite
    <3>2. lost' \in Nat
      BY <1>0, <3>1 DEF Spoiled
    <3>3. residue' = residue \/ residue' = TRUE
      BY <3>1, Zenon
    <3> QED
      BY <1>0, <3>2, <3>3, Zenon
  <2>3. faults' \in 0..MaxFaults
    BY <1>0, <1>8, BoundsAssumption DEF ShortWrite
  <2> QED
    BY <1>0, <1>8, <2>2, <2>3 DEF ShortWrite
<1>9. CASE LoseLine
  <2>2. faults' \in 0..MaxFaults
    BY <1>0, <1>9, BoundsAssumption DEF LoseLine
  <2> QED
    BY <1>0, <1>9, <2>2 DEF LoseLine
<1>10. CASE Keypad
  <2>1. PICK a \in Areas, s \in Statuses :
          /\ panel' = [panel EXCEPT ![a] = s]
          /\ device' = Append(device, Event(a, s))
    BY <1>10 DEF Keypad
  <2>2. Event(a, s) \in AllLines
    BY DEF Event, Line, AllLines
  <2>3. device' \in Seq(AllLines)
    BY <1>0, <2>1, <2>2
  <2>4. acts' \in 0..MaxActs
    BY <1>0, <1>10, BoundsAssumption DEF Keypad
  <2> QED
    BY <1>0, <1>10, <2>3, <2>4 DEF Keypad
<1>11. CASE Settle
  BY <1>0, <1>11 DEF Settle
<1>12. CASE Give
  <2>2. acts' \in 0..MaxActs
    BY <1>0, <1>12, BoundsAssumption DEF Give
  <2> QED
    BY <1>0, <1>12, <2>2 DEF Give
<1>13. CASE UNCHANGED vars
  BY <1>0, <1>13 DEF vars
<1> QED
  BY <1>1, <1>2, <1>3, <1>4, <1>5, <1>6, <1>7, <1>8, <1>9, <1>10, <1>11, <1>12,
     <1>13 DEF Next, PanelManager, SerialThread

\* Nothing but well formed requests for areas and zones the daemon was given,
\* and for utility keys there are, reaches the device, and every line that
\* comes back is taken for an entry that is there.
THEOREM TypeCorrect == Spec => []TypeOK
<1>1. Spec => [](TypeOK /\ SendInv)
  BY InitInv, StepInv, PTL DEF Spec
<1> QED
  BY <1>1, PTL

-----------------------------------------------------------------------------
(***************************************************************************)
(* The commands on their way, as CommandStream sees them: what the         *)
(* requests in the queue mean, then what the commands in the queue order.  *)
(***************************************************************************)
PanelOrders == (Areas \X Statuses) \cup ((1..MaxUtilityKey) \X {UTILITY_KEY})

MeaningOf == [r \in AllRequests |-> IF IsCommand(r) THEN <<Meaning(r)>> ELSE << >>]
OrderOf   == [c \in Commands |-> Order(c)]

Pending(w, cs) == FlatMap(MeaningOf, w) \o FlatMap(OrderOf, cs)

\* A request that is a command tells the panel one order, any other none.
LEMMA MeaningType ==
  ASSUME NEW r \in AllRequests
  PROVE  /\ IsCommand(r) => Meaning(r) \in PanelOrders /\ MeaningOf[r] = <<Meaning(r)>>
         /\ ~IsCommand(r) => MeaningOf[r] = << >>
<1>1. IsCommand(r) => Meaning(r) \in PanelOrders
  BY DEF AllRequests, AreaRequests, IsCommand, Meaning, PanelOrders, Statuses
<1> QED
  BY <1>1 DEF MeaningOf

\* Meanings are orders to the panel, ...
LEMMA MeaningMaps == Maps(MeaningOf, AllRequests, PanelOrders)
<1>1. ASSUME NEW r \in AllRequests PROVE MeaningOf[r] \in Seq(PanelOrders)
  <2>1. CASE IsCommand(r)
    <3>1. \A o \in PanelOrders : <<o>> \in Seq(PanelOrders)
      OBVIOUS
    <3> QED
      BY <2>1, <3>1, MeaningType, Zenon
  <2>2. CASE ~IsCommand(r)
    <3>1. << >> \in Seq(PanelOrders)
      OBVIOUS
    <3> QED
      BY <2>2, <3>1, MeaningType, Zenon
  <2> QED
    BY <2>1, <2>2
<1>2. MeaningOf = [r \in AllRequests |-> MeaningOf[r]]
  BY DEF MeaningOf
<1> QED
  BY <1>1, <1>2 DEF Maps

\* A command orders what the request it is turned into means.
LEMMA OrderType ==
  ASSUME NEW c \in Commands
  PROVE  /\ \/ Order(c) = << >>
            \/ \E o \in PanelOrders : Order(c) = <<o>>
         /\ para_process_command(c) \in Seq(AllRequests)
         /\ FlatMap(MeaningOf, para_process_command(c)) = Order(c)
<1>1. CASE para_process_command(c) = << >> /\ Order(c) = << >>
  <2>1. FlatMap(MeaningOf, << >>) = << >>
    BY MeaningMaps, FlatMapEmpty
  <2>2. << >> \in Seq(AllRequests)
    OBVIOUS
  <2> QED
    BY <1>1, <2>1, <2>2, Zenon
<1>2. ASSUME NEW r \in Sendable, para_process_command(c) = <<r>>,
             IsCommand(r), Order(c) = <<Meaning(r)>>
      PROVE  /\ \E o \in PanelOrders : Order(c) = <<o>>
             /\ para_process_command(c) \in Seq(AllRequests)
             /\ FlatMap(MeaningOf, para_process_command(c)) = Order(c)
  <2>1. r \in AllRequests
    BY DEF Sendable
  <2>2. Meaning(r) \in PanelOrders /\ MeaningOf[r] = <<Meaning(r)>>
    BY <1>2, <2>1, MeaningType
  <2>3. FlatMap(MeaningOf, <<r>>) = MeaningOf[r]
    BY <2>1, MeaningMaps, FlatMapOne
  <2>4. <<r>> \in Seq(AllRequests)
    BY <2>1
  <2> QED
    BY <1>2, <2>2, <2>3, <2>4, Zenon
<1> QED
  BY <1>1, <1>2, ProcessedCommand, Zenon

\* ... and so is what becomes of commands.
LEMMA OrderMaps == Maps(OrderOf, Commands, PanelOrders)
<1>1. ASSUME NEW c \in Commands PROVE Order(c) \in Seq(PanelOrders)
  <2>1. \A o \in PanelOrders : <<o>> \in Seq(PanelOrders)
    OBVIOUS
  <2>2. << >> \in Seq(PanelOrders)
    OBVIOUS
  <2> QED
    BY <2>1, <2>2, OrderType, Zenon
<1> QED
  BY <1>1 DEF OrderOf, Maps

\* The pending commands of the refinement are these two, one behind the other.
LEMMA PendingIs ==
  ASSUME NEW w \in Seq(AllRequests), NEW cs \in Seq(Commands)
  PROVE  OnTheWay(w) \o FlattenSeq([i \in 1..Len(cs) |-> Order(cs[i])])
           = Pending(w, cs)
<1>1. [i \in 1..Len(w) |-> IF IsCommand(w[i]) THEN <<Meaning(w[i])>> ELSE << >>]
        = Images(MeaningOf, w)
  <2>1. \A i \in 1..Len(w) :
          (IF IsCommand(w[i]) THEN <<Meaning(w[i])>> ELSE << >>) = MeaningOf[w[i]]
    <3>1. \A r \in AllRequests :
            (IF IsCommand(r) THEN <<Meaning(r)>> ELSE << >>) = MeaningOf[r]
      BY Zenon DEF MeaningOf
    <3>2. \A i \in 1..Len(w) : w[i] \in AllRequests
      OBVIOUS
    <3> QED
      BY <3>1, <3>2, Zenon
  <2> QED
    BY <2>1, Zenon DEF Images
<1>2. [i \in 1..Len(cs) |-> Order(cs[i])] = Images(OrderOf, cs)
  <2>1. \A i \in 1..Len(cs) : Order(cs[i]) = OrderOf[cs[i]]
    <3>1. \A i \in 1..Len(cs) : cs[i] \in Commands
      OBVIOUS
    <3> QED
      BY <3>1, Zenon DEF OrderOf
  <2> QED
    BY <2>1, Zenon DEF Images
<1> QED
  BY <1>1, <1>2, Zenon DEF OnTheWay, Pending, FlatMap

\* What was first is gone: it can be seen as reached, or as lost.
LEMMA FirstGone ==
  ASSUME NEW S, NEW o \in S, NEW rest \in Seq(S), NEW p, p = <<o>> \o rest
  PROVE  /\ p # << >> /\ Head(p) = o /\ Tail(p) = rest
         /\ 1 \in 1..Len(p)
         /\ SubSeq(p, 1, 1 - 1) \o SubSeq(p, 1 + 1, Len(p)) = rest
<1> QED
  OBVIOUS

\* What two pieces of a queue mean, one behind the other.
LEMMA MeaningsJoin ==
  \A v, w \in Seq(AllRequests) :
    FlatMap(MeaningOf, v \o w) = FlatMap(MeaningOf, v) \o FlatMap(MeaningOf, w)
BY MeaningMaps, FlatMapConcat

\* Orders can be joined from either end.
LEMMA OrdersJoin ==
  \A a, b, c \in Seq(PanelOrders) : (a \o b) \o c = a \o (b \o c)
OBVIOUS

\* A command that is given comes last among those on their way.
LEMMA PendingGiven ==
  ASSUME NEW w \in Seq(AllRequests), NEW cs \in Seq(Commands), NEW c \in Commands
  PROVE  Pending(w, Append(cs, c)) = Pending(w, cs) \o Order(c)
<1>1. FlatMap(OrderOf, Append(cs, c)) = FlatMap(OrderOf, cs) \o OrderOf[c]
  BY OrderMaps, FlatMapAppend
<1>2. OrderOf[c] = Order(c)
  BY DEF OrderOf
<1>3. /\ FlatMap(MeaningOf, w) \in Seq(PanelOrders)
      /\ FlatMap(OrderOf, cs) \in Seq(PanelOrders)
      /\ OrderOf[c] \in Seq(PanelOrders)
  BY MeaningMaps, OrderMaps, FlatMapType DEF Maps
<1>4. (FlatMap(MeaningOf, w) \o FlatMap(OrderOf, cs)) \o OrderOf[c]
        = FlatMap(MeaningOf, w) \o (FlatMap(OrderOf, cs) \o OrderOf[c])
  BY <1>3, OrdersJoin, Zenon
<1> QED
  BY <1>1, <1>2, <1>4, Zenon DEF Pending

\* A request that is no command changes nothing of it.
LEMMA PendingAsked ==
  ASSUME NEW w \in Seq(AllRequests), NEW cs \in Seq(Commands), NEW r \in Questions
  PROVE  Pending(Append(w, r), cs) = Pending(w, cs)
<1>1. r \in AllRequests
  BY DEF Questions
<1>2. FlatMap(MeaningOf, Append(w, r)) = FlatMap(MeaningOf, w) \o MeaningOf[r]
  BY <1>1, MeaningMaps, FlatMapAppend
<1>6. MeaningOf[r] = << >>
  BY <1>1, MeaningType DEF Questions
<1>3. FlatMap(MeaningOf, w) \in Seq(PanelOrders)
  BY MeaningMaps, FlatMapType
<1>4. \A s \in Seq(PanelOrders) : s \o << >> = s
  OBVIOUS
<1>5. FlatMap(MeaningOf, Append(w, r)) = FlatMap(MeaningOf, w)
  BY <1>2, <1>3, <1>4, <1>6, Zenon
<1> QED
  BY <1>5, Zenon DEF Pending

\* The panel manager turns a command into a request where it stands.
LEMMA PendingTaken ==
  ASSUME NEW w \in Seq(AllRequests), NEW cs \in Seq(Commands), cs # << >>
  PROVE  Pending(w \o para_process_command(Head(cs)), Tail(cs)) = Pending(w, cs)
<1> PICK c \in Commands : c = Head(cs)
  OBVIOUS
<1> PICK rest \in Seq(Commands) : rest = Tail(cs)
  BY HeadTailProperties
<1>1. FlatMap(OrderOf, cs) = OrderOf[c] \o FlatMap(OrderOf, rest)
  BY OrderMaps, FlatMapTail
<1>2. OrderOf[c] = Order(c) /\ OrderOf[c] \in Seq(PanelOrders)
  BY OrderMaps DEF OrderOf, Maps
<1>3. FlatMap(MeaningOf, w \o para_process_command(c))
        = FlatMap(MeaningOf, w) \o Order(c)
  <2> PICK rs \in Seq(AllRequests) : rs = para_process_command(c)
    BY OrderType
  <2>1. FlatMap(MeaningOf, rs) = Order(c)
    BY OrderType
  <2>2. FlatMap(MeaningOf, w \o rs) = FlatMap(MeaningOf, w) \o FlatMap(MeaningOf, rs)
    BY MeaningsJoin, Zenon
  <2> QED
    BY <2>1, <2>2, Zenon
<1>4. /\ FlatMap(MeaningOf, w) \in Seq(PanelOrders)
      /\ FlatMap(OrderOf, rest) \in Seq(PanelOrders)
  BY MeaningMaps, OrderMaps, FlatMapType
<1>5. (FlatMap(MeaningOf, w) \o Order(c)) \o FlatMap(OrderOf, rest)
        = FlatMap(MeaningOf, w) \o (Order(c) \o FlatMap(OrderOf, rest))
  <2>1. Order(c) \in Seq(PanelOrders)
    BY <1>2
  <2> QED
    BY <1>4, <2>1, OrdersJoin, Zenon
<1> QED
  BY <1>1, <1>2, <1>3, <1>5 DEF Pending

\* The first request in the queue is gone, and what it meant with it.
LEMMA PendingWritten ==
  ASSUME NEW w \in Seq(AllRequests), NEW cs \in Seq(Commands), w # << >>
  PROVE  /\ Head(w) \in AllRequests
         /\ Pending(Tail(w), cs) \in Seq(PanelOrders)
         /\ IsCommand(Head(w)) =>
              /\ Meaning(Head(w)) \in PanelOrders
              /\ Pending(w, cs) = <<Meaning(Head(w))>> \o Pending(Tail(w), cs)
         /\ ~IsCommand(Head(w)) => Pending(w, cs) = Pending(Tail(w), cs)
<1> PICK r \in AllRequests : r = Head(w)
  OBVIOUS
<1> PICK rest \in Seq(AllRequests) : rest = Tail(w)
  BY HeadTailProperties
<1>1. FlatMap(MeaningOf, w) = MeaningOf[r] \o FlatMap(MeaningOf, rest)
  BY MeaningMaps, FlatMapTail
<1>2. /\ FlatMap(MeaningOf, rest) \in Seq(PanelOrders)
      /\ FlatMap(OrderOf, cs) \in Seq(PanelOrders)
      /\ MeaningOf[r] \in Seq(PanelOrders)
  BY MeaningMaps, OrderMaps, FlatMapType DEF Maps
<1>3. Pending(w, cs) = MeaningOf[r] \o Pending(rest, cs)
  <2>1. (MeaningOf[r] \o FlatMap(MeaningOf, rest)) \o FlatMap(OrderOf, cs)
          = MeaningOf[r] \o (FlatMap(MeaningOf, rest) \o FlatMap(OrderOf, cs))
    BY <1>2, OrdersJoin, Zenon
  <2> QED
    BY <1>1, <2>1 DEF Pending
<1>4. Pending(rest, cs) \in Seq(PanelOrders)
  BY <1>2 DEF Pending
<1>5. << >> \o Pending(rest, cs) = Pending(rest, cs)
  OBVIOUS
<1> QED
  BY <1>3, <1>4, <1>5, MeaningType, Zenon

-----------------------------------------------------------------------------
(***************************************************************************)
(* CommandStream.                                                          *)
(***************************************************************************)

\* The queues are empty at first.
LEMMA InitStream == Init => Stream!Init
<1> SUFFICES ASSUME Init PROVE Stream!Init
  OBVIOUS
<1>1. << >> \in Seq(AllRequests) /\ << >> \in Seq(Commands)
  OBVIOUS
<1>2. PendingCommands = Pending(<< >>, << >>)
  BY <1>1, PendingIs, Zenon DEF PendingCommands, Init
<1>3. Pending(<< >>, << >>) = << >>
  <2>1. FlatMap(MeaningOf, << >>) = << >> /\ FlatMap(OrderOf, << >>) = << >>
    BY MeaningMaps, OrderMaps, FlatMapEmpty
  <2> QED
    BY <2>1 DEF Pending
<1> QED
  BY <1>2, <1>3 DEF Stream!Init, Init

\* Every step gives, tells the panel or loses one command, or changes nothing
\* of the commands on their way.
LEMMA StepStream ==
  TypeOK /\ SendInv /\ [Next]_vars => [Stream!Next]_(Stream!vars)
<1> SUFFICES ASSUME TypeOK, SendInv, [Next]_vars
             PROVE  \/ Stream!Give \/ Stream!Reach \/ Stream!Lose
                    \/ UNCHANGED <<PendingCommands, reached, lost>>
  BY DEF Stream!Next, Stream!vars
<1>0. /\ initial \in Seq(Questions) /\ periodic \in Seq(Questions)
      /\ write \in Seq(AllRequests) /\ commands \in Seq(Commands) /\ lost \in Nat
  BY DEF TypeOK, SendInv
<1>a. /\ PendingCommands = Pending(write, commands)
      /\ PendingCommands' = Pending(write', commands')
  <2>1. PendingCommands = Pending(write, commands)
    BY <1>0, PendingIs DEF PendingCommands
  <2>2. write' \in Seq(AllRequests) /\ commands' \in Seq(Commands)
    BY StepInv DEF TypeOK
  <2>3. PendingCommands' = Pending(write', commands')
    BY <2>2, PendingIs DEF PendingCommands
  <2> QED
    BY <2>1, <2>3
<1>b. write # << >> /\ write' = Tail(write) /\ commands' = commands
        => /\ Head(write) \in AllRequests
           /\ PendingCommands' \in Seq(PanelOrders)
           /\ IsCommand(Head(write)) =>
                /\ Meaning(Head(write)) \in PanelOrders
                /\ PendingCommands = <<Meaning(Head(write))>> \o PendingCommands'
           /\ ~IsCommand(Head(write)) => PendingCommands = PendingCommands'
  <2> SUFFICES ASSUME write # << >>, write' = Tail(write), commands' = commands
               PROVE  /\ Head(write) \in AllRequests
                      /\ PendingCommands' \in Seq(PanelOrders)
                      /\ IsCommand(Head(write)) =>
                           /\ Meaning(Head(write)) \in PanelOrders
                           /\ PendingCommands
                                = <<Meaning(Head(write))>> \o PendingCommands'
                      /\ ~IsCommand(Head(write)) => PendingCommands = PendingCommands'
    OBVIOUS
  <2> QED
    BY <1>0, <1>a, PendingWritten, Zenon
<1> USE DEF history, threads, prt3, pmgr
\* A request that is spoiled is a command that is lost, or no command.
<1>c. ASSUME write # << >>, write' = Tail(write), commands' = commands,
             lost' = lost + Spoiled(Head(write)), reached' = reached
      PROVE  Stream!Lose \/ UNCHANGED <<PendingCommands, reached, lost>>
  <2>1. CASE IsCommand(Head(write))
    <3> PICK o \in PanelOrders : o = Meaning(Head(write))
      BY <1>b, <1>c, <2>1
    <3> PICK rest \in Seq(PanelOrders) : rest = PendingCommands'
      BY <1>b, <1>c
    <3>1. PendingCommands = <<o>> \o rest
      BY <1>b, <1>c, <2>1
    <3>2. /\ 1 \in 1..Len(PendingCommands)
          /\ PendingCommands' = SubSeq(PendingCommands, 1, 1 - 1)
               \o SubSeq(PendingCommands, 1 + 1, Len(PendingCommands))
      BY <3>1
    <3>3. lost' = lost + 1
      BY <1>c, <2>1 DEF Spoiled
    <3> QED
      BY <1>c, <3>2, <3>3 DEF Stream!Lose
  <2>2. CASE ~IsCommand(Head(write))
    BY <1>0, <1>b, <1>c, <2>2 DEF Spoiled
  <2> QED
    BY <2>1, <2>2
<1>1. CASE SendInitial
  <2>1. Head(initial) \in Questions
    BY <1>0, <1>1 DEF SendInitial
  <2>2. Pending(Append(write, Head(initial)), commands) = Pending(write, commands)
    BY <1>0, <2>1, PendingAsked
  <2> QED
    BY <1>a, <1>1, <2>2 DEF SendInitial
<1>2. CASE SendPeriodic
  <2>1. Head(periodic) \in Questions
    BY <1>0, <1>2 DEF SendPeriodic
  <2>2. Pending(Append(write, Head(periodic)), commands) = Pending(write, commands)
    BY <1>0, <2>1, PendingAsked
  <2> QED
    BY <1>a, <1>2, <2>2 DEF SendPeriodic
<1>3. CASE TakeCommand
  <2>1. Pending(write \o para_process_command(Head(commands)), Tail(commands))
          = Pending(write, commands)
    BY <1>0, <1>3, PendingTaken DEF TakeCommand
  <2> QED
    BY <1>a, <1>3, <2>1 DEF TakeCommand
<1>4. CASE Give
  <2> PICK c \in Commands : commands' = Append(commands, c)
    BY <1>4 DEF Give
  <2>1. write' = write /\ UNCHANGED <<reached, lost>>
    BY <1>4 DEF Give
  <2>2. PendingCommands' = PendingCommands \o Order(c)
    BY <1>0, <1>a, <2>1, PendingGiven
  <2>4. CASE Order(c) = << >>
    BY <2>1, <2>2, <2>4
  <2>5. ASSUME NEW o \in PanelOrders, Order(c) = <<o>> PROVE Stream!Give
    <3>1. PendingCommands' = Append(PendingCommands, o)
      BY <2>2, <2>5
    <3> QED
      BY <2>1, <3>1 DEF Stream!Give, PanelOrders
  <2> QED
    BY <2>4, <2>5, OrderType
<1>5. CASE WriteRequest
  <2>0. write # << >> /\ write' = Tail(write) /\ commands' = commands
    BY <1>5 DEF WriteRequest
  <2>1. CASE residue
    BY <1>c, <1>5, <2>1 DEF WriteRequest
  <2>2. CASE ~residue /\ ~IsCommand(Head(write))
    BY <1>b, <1>5, <2>2 DEF WriteRequest, PRT3
  <2>3. CASE ~residue /\ IsCommand(Head(write))
    <3>1. Understood(Head(write))
      BY <2>0 DEF SendInv, Sendable
    <3>2. reached' = Append(reached, Meaning(Head(write))) /\ lost' = lost
      BY <1>5, <2>3, <3>1 DEF WriteRequest, PRT3
    <3> PICK o \in PanelOrders : o = Meaning(Head(write))
      BY <1>b, <2>0, <2>3
    <3> PICK rest \in Seq(PanelOrders) : rest = PendingCommands'
      BY <1>b, <2>0
    <3>3. PendingCommands = <<o>> \o rest
      BY <1>b, <2>0, <2>3
    <3>4. /\ PendingCommands # << >> /\ Head(PendingCommands) = o
          /\ PendingCommands' = Tail(PendingCommands)
      BY <3>3
    <3> QED
      BY <3>2, <3>4 DEF Stream!Reach
  <2> QED
    BY <2>1, <2>2, <2>3
<1>6. CASE ShortWrite
  BY <1>c, <1>6 DEF ShortWrite
<1>7. CASE \/ ReceiveLine \/ PollTimeout \/ Read \/ LoseLine \/ Keypad \/ Settle
           \/ UNCHANGED vars
  <2>1. UNCHANGED <<write, commands, reached, lost>>
    BY <1>7
       DEF ReceiveLine, PollTimeout, Read, LoseLine, Keypad, Settle, vars
  <2> QED
    BY <1>a, <2>1
<1> QED
  BY <1>1, <1>2, <1>3, <1>4, <1>5, <1>6, <1>7
     DEF Next, PanelManager, SerialThread

\* Whatever else the threads ask, whatever lines are lost and writes cut
\* short: the commands the daemon can do reach the panel in the order they
\* were given, each at most once, and one is missing only when a cut write
\* spoiled it.
THEOREM CommandsReachThePanel == Spec => CommandsKept
<1>1. Spec => [](TypeOK /\ SendInv)
  BY InitInv, StepInv, PTL DEF Spec
<1>2. Spec => Stream!Spec
  BY <1>1, InitStream, StepStream, PTL DEF Spec, Stream!Spec
<1> QED
  BY <1>2 DEF CommandsKept

=============================================================================
