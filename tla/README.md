# A formal model of ParadoxEvoMQTT

ParadoxEvoMQTT is a daemon that connects a Paradox EVO alarm panel, through
its PRT3 serial module, to an MQTT broker.  This directory holds TLA+ modules
translated from its C sources, TLC configurations that check them on small
instances, and TLAPS proofs of every safety property for every instance.
Line numbers refer to `src/src/*.c` and `src/src/include/*.h` unless another
file is named.

## 1. The system

The daemon is one process. `main.c` reads the options, starts three threads
that talk over in-process ZeroMQ sockets, and waits.

```
          EPT_SERIAL_READ (PUSH/PULL)          EPT_MQTT_AREA_REPORT, EPT_MQTT_ZONE_REPORT
 panel -> serial thread -----------> panel manager ---------------------> MQTT thread -> broker
 panel <- (para_serial) <----------- (para_mgr)    <--------------------- (mqtt_mgr)  <- broker
          EPT_SERIAL_WRITE                          EPT_MQTT_AREA_COMMAND, pushed by
             ^                                      callbacks of the Paho library
             |  the same socket
          initial and periodic request threads (para_mgr)

 main --- EPT_KILL (PUB/SUB): KILL ---> all three threads
```

| Component | State | Operations | Talks to |
|---|---|---|---|
| Panel manager (`para_mgr.c`) | `areas[]`, `zones[]`: the last byte known of every property, the derived `mqtt_state`, the flags `updated`, `firstreport` | handlers of events (`G...`), of status, label and disarm responses, of commands; setters; `send_area_report`, `send_zone_report`; KILL | takes lines and commands, pushes reports and requests |
| Request threads (`para_mgr.c` 283-423) | none of their own | one initial series of label and status requests; a periodic series after a minute without input | share `serial_sender` with the panel manager |
| Serial thread (`para_serial.c`) | `buffer[]`, `serial_input[]`, `input_pos`, the device | read a chunk, assemble lines, publish them; write commands; KILL | device, panel manager |
| MQTT thread (`mqtt_mgr.c`) | the Paho client, `mqtt_disconnected`, its sockets | start, subscribe, publish reports, "online" on idle, stop; callbacks for connect, disconnect and arriving messages | panel manager; broker, through the threads of the library |
| ZeroMQ helpers (`zmq_helpers.c`) | none | send and receive a string | used by all |
| Start and shutdown (`main.c` 283-364) | `killpublisher`, the context, thread handles | start threads, join them; the signal handler publishes KILL; free, close, destroy | all |
| Options (`main.c` 93-281, `src/start_daemon.py`) | `areanum`, `areaset`, `zonesset`, the settings | `-a`, `-z`, ... in order, then the checks | fills `areas[]`, `zones[]` |

What makes each of them hard, and what it should promise:

* **Panel manager.** A record is changed by many kinds of lines; each change
  must be reported, with a derived state that fits it, without waiting for a
  later line; an alarm must reach the right area and must not be dismissed by
  the wrong line. The panel reports one act by several events, in an order
  that depends on the act.
* **Requests and commands.** Three kinds of threads send through one socket;
  writes may be cut short, lines may be lost, answers may be older than the
  last event. Commands must reach the panel in their order, once, whatever
  else is under way; the daemon must come to know the panel's true state.
* **Serial thread.** A line may be cut anywhere, may be too long, may contain
  a byte 0; the queue of lines may be full. Lines must arrive whole, once, and
  in order, and the buffer must not overflow.
* **MQTT thread.** It runs beside the library's threads; the connection may
  vanish and come back between any two calls, into a clean session. Topics
  must not go back to an older report; what is reported over a stable
  connection must be shown; the thread must be able to stop.
* **Start and shutdown.** A signal may come at any time; nobody may use what
  another has freed; every join must return.
* **Options.** Their order decides which area a zone belongs to.

## 2. Modules

| Module | What it is | Lines of code it stands for |
|---|---|---|
| `ParaMgr` | the panel manager: records, handlers, reports | `para_mgr.c` 77-133, 219-253, 427-1060; `paratypes.h` 38-203 |
| `MCParaMgr` | its instances for TLC | |
| `ParaMgrProofs`, `ParaMgrActionProofs` | theorems about its states, about its steps | |
| `LineStream` | abstract: lines arrive whole, once, in order | |
| `Serial` | the reading side of the serial thread, as it implements `LineStream` | `para_serial.c` 37-61, 104-204; `zmq_helpers.c` 49-66 |
| `MCSerial`, `SerialProofs` | its instances and theorems | |
| `Mirror` | abstract: topics show reports in their order | |
| `MqttMgr` | the MQTT thread and the library's callbacks, as they implement `Mirror` | `mqtt_mgr.c` 16-40, 111-498 |
| `MCMqttMgr`, `MqttMgrProofs` | its instance and theorems | |
| `CommandStream` | abstract: commands reach the panel in order, once, or are lost | |
| `Requests` | requests, commands and answers: the panel manager's loop, the request threads, the writing side of the serial thread, the panel | `para_mgr.c` 207-253, 291-423, 649-781; `para_serial.c` 119-204 |
| `MCRequests`, `RequestsProofs` | its instances and theorems | |
| `FlattenProofs` | lemmas on concatenations of sequences, which two of the others use | |
| `Options` | the command line and the script that writes it | `main.c` 93-281, 327-344; `para_mgr.c` 92-133; `start_daemon.py` 20-75 |
| `MCOptions`, `OptionsProofs` | command lines and files for TLC; theorems | |
| `Lifecycle` | threads, sockets, signals, joins, freeing: `main`, its three threads and the detached ones composed | `main.c` 284-364; `para_mgr.c` 144-281; `para_serial.c` 43-221; `mqtt_mgr.c` 111-204, 235-257, 409-434; `zmq_helpers.c` 27-47 |
| `MCLifecycle`, `LifecycleProofs` | for TLC; theorems | |

### ParaMgr

The records are written by this thread alone, so one handler, with all its
setters and reports, is one action: `ZoneEvent`, `ZoneAlarmEvent`,
`ArmingEvent`, `DisarmEvent`, `Status1Event`, `ExitDelayEvent`,
`Status2Event` (`para_process_prt3_event`), `AreaStatusResponse`,
`ZoneStatusResponse`, `AreaLabelResponse`, `ZoneLabelResponse`,
`DisarmResponse` (`para_process_prt3_response`), `Ignored` for what is logged
and dropped, `NullEntryEvent` for the dereference of an entry that is NULL or
lies outside the array. `Kill` ends the thread. `TakeAreaReport` and
`TakeZoneReport` are the consumer. Setters keep their names. A byte that
`memset` left is `Unset`. `SetAreaLabel` erases the status byte, as
`set_label` does. `lastArea` and `lastZone` are history.

Abstracted: the bytes ready, programming, strobe, supervision and battery,
which are only copied from a response into a report (one field, `misc`); the
text of labels; `bypassed`, which nothing writes; the order in which the two
queues of the reports are pushed to within one handler (each is a socket of
its own).

Bound: `MaxReports`, reports in flight.

### Serial and LineStream

One iteration of the loop over `buffer[]` is one action: `EndOfLine`, `Store`,
`TooLong`, `PartialRead`. `Read` returns any number of the bytes that wait.
`EndOfLine` is not enabled while the queue is full, where `zmq_msg_send`
waits. `Exit` is the KILL, looked at at the poll. `Take` is the panel manager
taking a line; an empty one is the NULL that `z_receive_string` returns for
it, whose first byte `para_mgr.c` 232 reads: `pmgr` becomes "crashed".
`LineNoise` is the byte 0 that a break or a framing error delivers with the
`c_iflag` of `start_para_serial`. `told`, `heard` and `dropped` are history.

The refinement mapping: what is not yet published are the lines in
`serial_input \o chunk \o wire`, read byte by byte (`Parse`).

Bounds: `MaxWire`, `MaxTold`, `QueueLen` (the high water mark).

### MqttMgr and Mirror

A report carries its number instead of its bytes; a topic shows the number of
the last one it got. `todo` holds the calls that the report in hand still has
to make, so that the connection can change between two of them. The thread:
`OpenSockets`, `StartFails`, `mqtt_subscribe`, `TakeAreaReport`,
`TakeZoneReport`, `Send`, `PollTimeout`, `ReceiveKill`, `Destroy`,
`CloseSockets`. The callbacks, which other threads run: `OnConnect`,
`OnDisconnect`, `mqtt_area_control`.  The last one is two steps: it takes a
message and makes a command of it, and `PushCommand` is its `zmq_msg_send`,
which waits while the queue is full; the thread and the connection go on
between the two.

External, and modelled as the code uses it: the Paho library and the broker.
Assumed of them: a send or a subscription is refused while the client is not
connected (the code asks for no buffering); `onSuccess` of
`MQTTAsync_connect` is called for the first connection and not for an
automatic reconnect; each connection opens a clean session, whose
subscriptions are gone; `MQTTAsync_disconnect` is refused while the client is
not connected and otherwise calls one of its two callbacks; what the library
accepted is delivered in order while the connection lasts; the broker
publishes the will when a connection is lost or replaced and discards it on an
orderly disconnect. `MQTTAsync_destroy` is assumed to wait for a callback that
is still running; without that the callback would push to a closed socket.

Abstracted: the JSON, the values of the payloads, the topics' prefixes. A
known payload may be missed, because `strcmp` reads past a payload that
nothing ends.

Bounds: `MaxReports` made in all, `MaxLosses` of the connection, `MaxMessages`
waiting commands; `PollTimeout` waits until the outbox is empty.

### Requests and CommandStream

The composition that gives commands and states their way. `SendInitial` and
`SendPeriodic` are the detached threads, each sending the rest of its series
(`InitialRequests`, `PeriodicRequests`) request by request. The panel manager
is `ReceiveLine`, `TakeCommand` (`para_process_command`) and `PollTimeout`, in
the order its poll looks at them. The serial thread is `Read` before
`WriteRequest`; `ShortWrite` is the write that takes fewer bytes than given,
which the code only logs: `residue` says that a piece of a request waits for
the next one to run into it. `LoseLine` drops a line with its chunk.

External: the panel and the PRT3. An event tells every change of an area
(`Keypad`, and what a command does); a status request is answered with
`shown`, which may lag behind the truth (`Settle`), as the history in
`main.c` 24-27 reports; a stay arm that comes with a user code is not done
(`para_mgr.c` 753).

Of a record only the status byte is kept. `StatusAfter` says what a line does
to it, with the strict bounds of the responses and the label that erases it.
`Quiet` stands for the 60 s and more of the poll: the series before this one
has been sent, written and answered by then.

`CommandsKept` is the refinement of `CommandStream`, whose `pending` are the
commands in both queues, in the meaning they have for the panel. A command for
an area the daemon was not given, a key there is not or a disarm without a
user code never becomes one.

Bounds: `MaxActs`, commands and changes at keypads; `MaxFaults`, writes cut and
lines lost; `MaxWaiting`, requests in the queue when a series goes on (the
20 ms after each request are not timed).

### Options

One pass of the loop around `getopt_long` is one action: `Area`,
`ZonesOfArea`, `ZonesWithoutArea`, `Period`, `Port`, `Text`, `Flag`, and
`Skipped` for a value that is missing and a word no switch takes. `Refuse` and
`Start` are what follows the loop; with `-D` the daemon goes on in a child
("forked"). A command line is either any of `CommandLines` or the `Script` of a
file: the words `start_daemon.py` writes, which are the settings before the
areas (`-v -D -d -m -p -l -w -r`, those that are given), the areas with their
zones, and `-u` and `-S`. The script does not look at the numbers and goes on
without a server; `main` ends then, and `Valid` says of which files it does
not.
An empty list of zones makes it write `-z` without a value, and `getopt_long`
then takes the next switch for one, in which `strtol` reads a 0. A word
(`Words`) is the switch it may be and the numbers in it. `Roles` says of each
word of a line what `getopt_long` takes it for; the properties are stated with
it, the actions are not. Abstracted: the text of values, which are single
words; of a list the numbers `strtol` reads. Left out: files without a device,
an `mqtt` section, the areas, or an area's number or zones, with which the
script ends and starts nothing; `binary_path` and `log_file`, which are for
the shell; `setsid`.

### Lifecycle

`main` is where `main()` is; `pc` of each thread goes from "starting" over
"bound" (its first sockets are open, it sleeps for a second) and "polling" to
"closing" and "ended"; MMGR is "stopping" while it waits for its client.
`sockets` are the ones that are open. Each of them may fail to be made, bound
or connected, as may `killpublisher` (`OpenFails`, `BindFails`): those before
it are open then, and the one that failed may have to be closed as well.
`kill` are those a published KILL has reached: only those that had subscribed
(`s_signal_handler`).

`pushing` are the `zmq_msg_send` a thread has still to make before it polls
again: the lines of a chunk, the reports of a handler, a request. Each waits
until its reader has a socket (`HasReader`); a KILL is not looked for in
between. What is pushed is left to the other modules: at its poll a thread may
find something to push at any time.

`requesters` counts the detached threads of the panel manager, which nobody
waits for. When the records are freed or their socket is closed (`Stale`) they
go on, end, or take the process with them (`RequesterCrashes`).

Bounds: `MaxSignals`, `MaxPushes` of a thread between two polls,
`MaxRequesters` at one time. Assumed: `sleep(1)` is longer than `main` takes
to clean up when the device cannot be opened; the queues are not full.

## 3. Runs

Passing:

| Run | Instance | Shows |
|---|---|---|
| `para_mgr` | two areas with a zone each, numbered against them; 44 lines: every group of events that is treated differently, every kind of response, malformed events, events of an area and a zone that were not configured (322,192 states) | `TypeOK`; `NothingPending` (no handler leaves a change for a later line); `AreaReportsSound` (no report of an area contradicts itself); `ZonesOpenShown` (a zone known to be open, tampered or in fire loop trouble was reported "on"); `LastAreaReportCurrent`, `LastZoneReportCurrent` (nothing is kept back); `AlarmHasCause` (an alarm reaches the area it belongs to); `AlarmEndsByStatusResponse`; `StayArmKept` |
| `serial` | lines of 1 and 2 bytes, buffer 3, input buffer 4, queue 2 | `LinesKept`: the refinement of `LineStream`; `EverythingHeard` |
| `serial_any` | a line that is too long, bytes 0 | `TypeOK` (no overflow), `BytesKept`, `NoMixedLines`, `Drains` |
| `mqtt_mgr` | an area and a zone, two reports in all, one loss of the connection, a user, pushes that wait (197,874 states) | `TypeOK`; `CommandSocketOpen`; `Mirrors`: the refinement of `Mirror`; `Delivered`; `OnlineAgain`; `StopsIfAccepted` |
| `requests` | area 2 and zone 2 of 3, a user code, three commands for the area, one for an area that was not configured, a key; two acts, one fault | `TypeOK`; `CommandsKept`: the refinement of `CommandStream`; `CommandsArrive` (none is starved or stuck behind a cut write); `AreasConverge` (the daemon comes to know the true status for good); `ZonesLearnt` |
| `options` | up to four switches in any order after several beginnings; files of up to two areas, and files with every choice of settings (125,535 states) | `ZonesFollowArea`, the documented reading of `-a` and `-z`; `ScriptFaithful`: what the file gives is what the daemon has, and no valid file is refused; `TypeOK` (nothing outside the arrays is written) |
| `lifecycle` | two signals, two pushes between two polls, two detached threads, a device and sockets that open or not, a connection that comes and goes (181,751 states) | `FreedAfterThreads`: none of the three threads uses the records when they are freed; `StaleOnlyWhenTold`: the detached threads lose what they use only after a signal reached the panel manager; `Ends`; `TypeOK` |

Why the bounds suffice. No handler of `ParaMgr` relates more than one zone and
one area; the second pair in `para_mgr` is there to be confused with the
first, and of it only the lines are given that this needs. The sizes of
`MCParaMgr` put one area below the strict bounds of the responses; the arrays'
last entries are only reached by events. In `Serial` a chunk is smaller than
two lines and larger than one, a line fills the buffer exactly, exceeds it by
one or leaves room, and the queue fills up. In `MqttMgr` one loss already
separates any two calls of a report, before or after the subscription, and two
reports of one topic can overtake each other. In `Requests` two acts are a
command or a change overtaken by another, or a command whose answer meets a
change at a keypad; one fault is a write whose remains spoil the next, or a
line that is lost; area and zone 2 lie behind an entry that is NULL and below
the strict bounds. In `Lifecycle` a first signal may reach some of the threads
and a second the others; two pushes are one before and one after a reader
ended. In `Options` four switches allow `-z` before, between, after and twice
after its `-a`, and ports and periods lie on both sides of their bounds.

`requests` checks for deadlock. The other runs say `CHECK_DEADLOCK FALSE`:
threads end after a KILL, the command line is read to its end, and reports,
bytes and losses are bounded.

Runs that find a disagreement between the code and what the repository says
of it (each is a finding in `PROJECT.json`):

| Run | What the trace shows |
|---|---|
| `para_mgr_triggered` | a zone response sets the alarm byte of its area but not its state: the alarm is reported, "triggered" is not (para_mgr.c:1055-1058) |
| `para_mgr_zone_on` | a zone that is closed, and neither tampered nor in fire loop trouble, is reported "on" (para_mgr.c:1039) where README.md:127-130 gives the three reasons for it |
| `requests_last` | area `MAX_AREAS` is asked for with every series, and its answers are dropped by the strict bound: its status is never known (681) |
| `mqtt_mgr_heard` | after a reconnect, or if the first report comes before the connection, an area's control topic is not subscribed to (mqtt_mgr.c:293-309, 389-390) |
| `mqtt_mgr_stop` | told to stop while not connected, the thread waits for a callback that never comes (418-431) |

### Fairness

`Requests!FairSpec`: each thread runs, the serial thread and the panel manager
as loops, and the panel's answers settle. Users and keypads are left free;
faults end because they are bounded. `AreasConverge` needs the panel to fall
silent for a minute, which the bound on acts provides; a panel whose zones are
never quiet is the case the TODO at `para_mgr.c` 244 describes.

`Lifecycle!FairSpec`: each of the three threads runs, a push whose reader is
there returns, and the library completes a disconnect it accepted after the
callbacks before it. Nothing is assumed of signals, of pushes being made, of
the connection, or of the detached threads.

`Serial!FairSpec`: the serial thread reads, looks at its bytes, and the panel
manager takes lines. Both are loops that wait for nothing else; weak fairness
of `LookAtByte` covers the wait for room in the queue, which `Take` ends. It is
assumed that neither thread is blocked by something outside the model. (The
panel manager could wait for room in the queue of requests while the serial
thread waits for room in that of lines; with 1000 messages at each end neither
queue comes near being full.)

`MqttMgr!FairSpec`: the thread runs and its poll times out; the library runs a
callback that is due, pushes the command of one when there is room, delivers
what it accepted while it is connected, and
completes a disconnect it accepted; the broker finds a dead session. Nothing is
assumed of connecting, reconnecting, of reports, users or KILL: the liveness
properties say what follows *if* the connection stays up. `OnlineAgain` needs a
minute without reports, which the bound on reports provides; a daemon that
reports at least once a minute for ever would stay "offline" on its topic after
a reconnect.

## 4. Proofs

Every invariant, every action property and every refinement that a passing run
checks is proved for all values of the constants that satisfy the assumptions
of its module, and of the theorem where it has any.

| Theorem | States |
|---|---|
| `ParaMgrProofs!TypeCorrect` | `Spec => []TypeOK` |
| `ParaMgrProofs!NothingIsPending` | `Spec => []NothingPending` |
| `ParaMgrProofs!AreaReportsAreSound` | `Spec => []AreaReportsSound` |
| `ParaMgrProofs!OpenZonesAreShown` | `Spec => []ZonesOpenShown` |
| `ParaMgrProofs!AreaReportsCurrent`, `ZoneReportsCurrent` | `Spec => []LastAreaReportCurrent`, `Spec => []LastZoneReportCurrent` |
| `ParaMgrActionProofs!AlarmsHaveCauses` | `Spec => AlarmHasCause` |
| `ParaMgrActionProofs!AlarmsEndByStatusResponse` | `Spec => AlarmEndsByStatusResponse` |
| `ParaMgrActionProofs!StayArmIsKept` | `Spec => StayArmKept` |
| `SerialProofs!TypeCorrect` | `Spec => []TypeOK`: `serial_input[]` never overflows |
| `SerialProofs!NoByteIsLost` | `Spec => []BytesKept` |
| `SerialProofs!LinesAreNotMixed` | `Spec => []NoMixedLines` |
| `SerialProofs!LinesArrive` | `Spec => LinesKept`, `Serial` implements `LineStream`, if `~Noise` and every line fits the buffer |
| `MqttMgrProofs!TypeCorrect` | `Spec => []TypeOK` |
| `MqttMgrProofs!CallbacksPushToOpenSocket` | `Spec => []CommandSocketOpen` |
| `MqttMgrProofs!ReportsAreMirrored` | `Spec => Mirrors`, `MqttMgr` implements `Mirror` |
| `RequestsProofs!TypeCorrect` | `Spec => []TypeOK` |
| `RequestsProofs!CommandsReachThePanel` | `Spec => CommandsKept`, `Requests` implements `CommandStream` |
| `OptionsProofs!TypeCorrect` | `Spec => []TypeOK` |
| `OptionsProofs!ZonesAreWhereTheyBelong` | `Spec => []ZonesFollowArea` |
| `OptionsProofs!FilesAreFollowed` | `Spec => []ScriptFaithful` |
| `LifecycleProofs!TypeCorrect` | `Spec => []TypeOK` |
| `LifecycleProofs!RecordsOutliveThreads` | `Spec => []FreedAfterThreads` |
| `LifecycleProofs!NothingIsStaleBefore` | `Spec => []StaleOnlyWhenTold` |

The assumptions, which TLC evaluates on every instance:

* `ParaMgr`, `Requests`: configured areas and zones lie within the arrays, a
  zone is assigned to a configured area, lines and commands have the format of
  the PRT3 and of the topics. Nothing on how many there are.
* `Serial`: a carriage return and the byte 0 are no characters of a line, the
  buffers have room for a byte. `LinesArrive` also needs what `LinesKept` is
  about: no byte 0 (`~Noise`) and lines that leave the buffer its last two
  bytes (`LinesFit`; there are 32, "should be actually enough of 22",
  `para_serial.h` 31). The run
  `serial` is such an instance, `serial_any` shows what happens otherwise.
* `MqttMgr`: the names of areas and zones differ, as their topics do.
* `Options`: a command line is any sequence of words, a file any sequence of
  areas, each with any numbers.
* Bounds are naturals. They are guards that no proof relies on, so that the
  theorems hold for bounds of any size.

**ParaMgr.** None of the invariants is inductive. That a report is sound
follows only if the record it is copied from is; that the last report is
current follows only if nothing was pending before the handler, as a change
stored on top of a flagged one is not told apart from it. `IInv` therefore
says of every area that its record is sound (`AreaKept`), not flagged and told
(`AreaTold`), and of every report in flight that it is sound. The same of
zones (`ZoneKept`, `ZoneTold`) gives `ZonesOpenShown`: the record is derived
right, and the last report is the record. For zones, `ZoneKept` admits the
zeroed record, whose `mqtt_state` "off" was never derived. The proof goes
through one notion, `AreaStep(r, s, a)`: a handler turns `r` into a sound `s`
and flags every change, except the `mqtt_state` of an area whose alarm was
learnt from a zone. `AreaSend` shows that sending the result of such a step
keeps `AreaInv`; each handler then only has to be shown to make such a step.
Labels, which change a record without sending it, and the exit delay, which
sends twice, are proved on their own.

**The steps of ParaMgr.** The action properties are about one record before
and after a line. `Outcome(m, a, r, s)` lists the five ways in which a line
`m` may make a record `s` of the record `r` of area `a`; `HandledArea` shows
that every step leaves an area as it was or has such an outcome of a line that
was handled. The three theorems then compare `r` and `s` under each of the
five.

**Serial.** `TypeOK` is inductive: `Store` leaves a byte for
the final 0. `BytesKept` is an equation of concatenations, which every action
only re-brackets; the algebra is in the lemmas `Assoc`, `Closed` and `Empty`
of a hidden operator `Cat`. `NoMixedLines` is about lines that
were published; it needs to know of `serial_input[]` that its characters were
read one after another up to the byte that comes next (`InPlace`), of the lines
published that a byte was their end (`WholeLines`), and of every such stretch
that no end lies within it (`PiecesRead`).

`LinesArrive` reads the unread bytes, `serial_input \o chunk \o wire`, the way
the mapping does. `StreamInv` says that they parse into whole lines with
nothing left over: the panel sends whole lines only, and the thread takes bytes
from the front only. The lemmas `ParseChars`, `ParseLine` and `BehindAdds` say
what `Parse` makes of characters, of a line, and of bytes behind others;
`FirstLine` that the line at the front is the one `EndOfLine` publishes; so
`EndOfLine` is `LineStream`'s publishing and `Store` and `Read` are stutters.
`NeverShorter`, that what was begun only grows until its end, rules `TooLong`
out.

**MqttMgr.** The callback for messages runs only if a message is there
(`CommandSocketOpen`); `SocketInv` says why none is before the socket is open,
nothing having been subscribed to, and why none is after it is closed, the
client being destroyed. That no topic goes back depends on every place a report
waits in: a queue of reports, the calls still to make, the outbox.
`OrderInv` says of each topic that the numbers rise within each of these, and
from the topic to the outbox to the calls to the queue (`SendingsOrder`,
`ReportsOrder`), and that a report is one for all topics of its area or zone
(`CountsFit`). A lost connection cuts the outbox and keeps the order.

**Requests.** The refinement holds because `pending` is a concatenation over
both queues: taking a command from the first puts what becomes of it (nothing,
if the daemon refuses it) at the end of the second. `SendInv` says that the
series hold only questions, so that sending one adds no command, and that what
is written is something the PRT3 understands, which `TypeOK` leaves open.

**Options.** `TypeOK` is inductive. The other two compare the end of the loop
with the whole line. `ReadInv`: the words not yet read are the last of the line,
and the first of them is no value by `Roles`; with it each action is matched
with the role of the words it takes. `ZoneInv` is `ZonesFollowArea` for the part
read so far (`ZonesGiven`), with the `-a` that still waits for its `-z`
(`AreaGiven`). `FileInv` follows a daemon through the words of a script
(`OnTrack`: in the settings before the areas, at an area, at its zones, in the
settings after them), with the settings still to come (`GivenIn`) and what the
areas before have left in `areas[]` and `zones[]`. An area without
zones does not leave the track: its `-z` swallows the next switch, the 0 read in
that is no zone, and the loop ends; as the last word it is skipped.

**Lifecycle.** `IInv`: the sockets of a thread fit where it is (`SocketsFit`), a
KILL is kept only for who had subscribed and was reached by it (`KillsFit`), who
pushes is polling (`PushersPoll`) and pushes to targets of its own
(`PushesFit`), `main` is past the join of those who have ended, and without the
device nobody polls (`MainInOrder`, and `FreedInOrder` once the records are
freed, where a crash may follow), and detached threads run only when the panel
manager has come to its poll, which it leaves only when a KILL has reached it
(`RequestersFit`). `FreedAfterThreads` follows from `MainInOrder`,
`FreedInOrder` and `PushersPoll`; `StaleOnlyWhenTold` from `RequestersFit` and,
while the panel manager polls, from `SocketsFit` and `MainInOrder`.

What `RecordsOutliveThreads` says is less than that nobody uses freed records:
the detached threads are not part of it, and when the device cannot be opened
the two other threads have not ended. They are in their `sleep(1)` then, and
the model takes it that `main` cleans up within that second.

**Induction.** The library's induction theorems cannot be used here. Where data
is of any length (the concatenations of `Requests` and `Options`, `Parse`,
`Roles`), `FlattenProofs` shows induction as a fact about sets: a set of
naturals, or of sequences, that holds the first and the next of each is all of
them (`NatSets`, `SeqSets`), as < has no infinite descent.

**What the proofs found**, that the runs did not: a subset operator that bound
otherwise than it was read in `Mirror`; two cases of `Requests` that could both
apply, of which TLC takes the first and the semantics any; and a reading of
`ZonesFollowArea` that took a switch swallowed as a value (`-d -z`) for a
switch. The three definitions were corrected.

**Only model-checked** are the properties that need fairness
(`EverythingHeard`, `Drains`, `Delivered`, `OnlineAgain`, `StopsIfAccepted`,
`CommandsArrive`, `AreasConverge`, `ZonesLearnt`, `Ends`): liveness is out of
the prover's reach. The violations are traces, for which TLC suffices.

## 5. Divergences seen, beyond the runs

These follow from the definitions and are kept here for whoever changes the
code.

* An event for an area or zone the daemon was not given dereferences NULL, a
  zone above `MAX_ZONES` is read past the array (para_mgr.c:482, 515, ...):
  `NullEntryEvent`. Of what follows such a read nothing is claimed.
* The bounds of the responses are strict while numbers are 1-based (653, 662,
  681, 696, 715): zone 96, like area 8, is accepted as an option and never
  served.
* `set_label` writes one byte past `name[LABEL_LENGTH]`, over the status byte
  (863-865, `paratypes.h` 58-59): arming events are ignored until the next
  status response. `SetAreaLabel` and `StatusAfter` do it; `AreasConverge`
  shows that the next series repairs it.
* The exit delay event has no `break` and runs on into the trouble event
  (615-625): every exit delay reports a trouble. `ExitDelayEvent` does it.
* A byte 0 drops what follows it in its chunk (para_serial.c:161-163): with
  `Noise`, two lines are joined or one is lost. `PartialRead` does it.
* The detached request threads, after a signal, go on using `serial_sender`
  and `areas[]` after the panel manager has closed the one and `main` has
  freed the other (217, 251, 256; main.c:313).
* Three kinds of threads use one ZeroMQ socket, which is not made for that,
  and the 20 ms pause holds within each of them only (341-350).
* A zone is asked for once; if the answer is lost it stays unknown until it
  has an event (310-315).
* A signal in the first second reaches only those threads that have subscribed
  (185); one that `main` receives after it closed `killpublisher` sends on a
  closed socket (main.c:352).
* Between two ends a thread may wait to push to one that has ended, or the
  callback to a panel manager that has (`Stranded`): the joins do not return
  (main.c:304-310).
* A device that is unplugged polls readable for ever; commands are not looked
  at any more (para_serial.c:126-171).
* In a file, an area with an empty list of zones swallows the switch after it
  (start_daemon.py:63).
* The zeroed record reads as "disarmed" (102); a trouble or memory event
  before the first status response reports that.
* A disarm event after an alarm leaves the state at "triggered" until a status
  response clears the alarm byte (505, 948); status is requested only after a
  minute without any input.
* A carriage return with no line before it becomes a message of size 0, for
  which `z_receive_string` returns NULL (zmq_helpers.c:57, para_mgr.c:232).
* When a thread cannot open one of its sockets it ends by itself; the others
  and `main` are not told (172-205) and wait for a signal.
* A file with a `status_period` under 60, a port out of range or no server
  makes a command line that `main` refuses (start_daemon.py:32-39, 74;
  main.c:139, 215, 269); `Valid` lists what is needed.
* A report refused while the client is not connected is not sent again until
  another byte changes (mqtt_mgr.c:497).
* An orderly stop discards the will, and nothing else publishes "offline"
  (418).

## 6. Plan

Done: `ParaMgr`, `Serial`, `MqttMgr`, `Requests`, `Options`, `Lifecycle`, with
what they refine, and the proofs of all their safety properties. What is left:

1. One composition of panel, panel manager and MQTT thread. Its question, that
   the topics come to show the panel's state, is now split: `AreasConverge`
   takes it from the panel to the record, `LastAreaReportCurrent` from the
   record to the report, `Delivered` from the report to the topic.
2. Shorter proofs, in `OptionsProofs` above all: its cases by the switch that
   is read repeat each other.

The list of runs stays short: a run that shows a disagreement gives way to one
that asks a new question of the system once its content is in section 5.

Not modelled, and why: `log.h` (output only); the Makefile and Docker files (no
behaviour of the daemon); the configuration of the device beyond `c_iflag`
(I/O with no state of its own); memory that cannot be allocated (the code
checks it in `para_mgr_set_area` and `para_mgr_set_zone` only); what is read
behind a payload, of a record that was freed or past an array, where the model
says only that it happens; and a device that is unplugged, as section 5 says:
the code does nothing about it, so that there is nothing to check.
