------------------------------- MODULE Serial -------------------------------
(***************************************************************************)
(* The reading side of the serial thread, para_serial.c: bytes are read    *)
(* from the device in chunks of any size, put together into lines, and     *)
(* each line is pushed to the panel manager, which takes it.               *)
(*                                                                         *)
(* One iteration of the loop over a chunk is one action; the chunk is cut  *)
(* anywhere.  What the loop over buffer[] has still to look at is chunk.   *)
(* The commands the same thread writes to the device are not part of this  *)
(* module.                                                                 *)
(***************************************************************************)
EXTENDS Integers, SequencesExt

CONSTANTS
  CR,         \* PARA_SERIAL_EOL
  NUL,        \* the byte 0
  Chars,      \* every other byte
  Lines,      \* the lines the PRT3 sends
  BuffLen,    \* PARA_SERIAL_BUFF_LEN
  InputLen,   \* PARA_SERIAL_INPUT_LEN
  QueueLen,   \* bound of the queue of EPT_SERIAL_READ (its high water mark)
  Noise,      \* TRUE when a NUL byte may reach the device
  MaxWire,    \* bound: bytes waiting in the device
  MaxTold     \* bound: bytes sent in all

ASSUME BytesAssumption ==
  CR # NUL /\ {CR, NUL} \cap Chars = {} /\ Lines \subseteq Seq(Chars)
ASSUME SizesAssumption ==
  /\ BuffLen \in Nat \ {0} /\ InputLen \in Nat /\ InputLen > 1
  /\ QueueLen \in Nat /\ MaxWire \in Nat /\ MaxTold \in Nat
ASSUME NoiseAssumption == Noise \in BOOLEAN

VARIABLES
  wire,          \* bytes the device has received and the thread has not read
  chunk,         \* bytes read into buffer[] and not yet looked at
  serial_input,  \* the line put together so far
  serialread,    \* the queue behind EPT_SERIAL_READ
  serial,        \* the thread: "running" or "exited"
  pmgr,          \* the panel manager thread: "running" or "crashed"
  told,          \* history: the bytes of all lines sent, and of the noise
  heard,         \* history: the bytes of all lines published
  dropped        \* history: whether the loop ever skipped bytes

vars == <<wire, chunk, serial_input, serialread, serial, pmgr, told, heard, dropped>>

-----------------------------------------------------------------------------
\* The PRT3 ends every line with a carriage return.
PanelSends ==
  \E l \in Lines :
    /\ Len(wire \o l) < MaxWire /\ Len(told \o l) < MaxTold
    /\ wire' = wire \o l \o <<CR>>
    /\ told' = told \o l \o <<CR>>
    /\ UNCHANGED <<chunk, serial_input, serialread, serial, pmgr, heard, dropped>>

\* With c_iflag 0 a break or a framing error is read as a byte 0.
LineNoise ==
  /\ Noise
  /\ Len(wire) < MaxWire /\ Len(told) < MaxTold
  /\ wire' = Append(wire, NUL)
  /\ told' = Append(told, NUL)
  /\ UNCHANGED <<chunk, serial_input, serialread, serial, pmgr, heard, dropped>>

\* The thread is at zmq_poll when it has looked at the whole chunk.
Polling == serial = "running" /\ chunk = << >>

\* Mutant: read() waits until it can fill the buffer.
Full_Read ==
  /\ Polling
  /\ BuffLen <= Len(wire)
  /\ chunk' = SubSeq(wire, 1, BuffLen)
  /\ wire' = SubSeq(wire, BuffLen + 1, Len(wire))
  /\ UNCHANGED <<serial_input, serialread, serial, pmgr, told, heard, dropped>>

\* read() returns some of the bytes that are there.
Read ==
  /\ Polling
  /\ \E n \in 1..BuffLen :
       /\ n <= Len(wire)
       /\ chunk' = SubSeq(wire, 1, n)
       /\ wire' = SubSeq(wire, n + 1, Len(wire))
  /\ UNCHANGED <<serial_input, serialread, serial, pmgr, told, heard, dropped>>

\* Mutant: the line so far is not cleared when it was published.
Uncleared_EndOfLine ==
  /\ chunk # << >> /\ Head(chunk) = CR
  /\ Len(serialread) < QueueLen
  /\ serialread' = Append(serialread, serial_input)
  /\ heard' = heard \o serial_input \o <<CR>>
  /\ chunk' = Tail(chunk)
  /\ UNCHANGED <<wire, serial_input, serial, pmgr, told, dropped>>

\* Mutant: the loop ends with the first line of the chunk.
Break_EndOfLine ==
  /\ chunk # << >> /\ Head(chunk) = CR
  /\ Len(serialread) < QueueLen
  /\ serialread' = Append(serialread, serial_input)
  /\ heard' = heard \o serial_input \o <<CR>>
  /\ serial_input' = << >>
  /\ chunk' = << >>
  /\ UNCHANGED <<wire, serial, pmgr, told, dropped>>

\* The line is published; zmq_msg_send waits while the queue is full.
EndOfLine ==
  /\ chunk # << >> /\ Head(chunk) = CR
  /\ Len(serialread) < QueueLen
  /\ serialread' = Append(serialread, serial_input)
  /\ heard' = heard \o serial_input \o <<CR>>
  /\ serial_input' = << >>
  /\ chunk' = Tail(chunk)
  /\ UNCHANGED <<wire, serial, pmgr, told, dropped>>

\* Mutant: one byte more is stored before the line is found too long.
Late_Store ==
  /\ chunk # << >> /\ Head(chunk) \notin {CR, NUL}
  /\ Len(serial_input) + 1 < InputLen
  /\ serial_input' = Append(serial_input, Head(chunk))
  /\ chunk' = Tail(chunk)
  /\ UNCHANGED <<wire, serialread, serial, pmgr, told, heard, dropped>>

\* The byte is stored and there is still room for one more.
Store ==
  /\ chunk # << >> /\ Head(chunk) \notin {CR, NUL}
  /\ Len(serial_input) + 1 < InputLen - 1
  /\ serial_input' = Append(serial_input, Head(chunk))
  /\ chunk' = Tail(chunk)
  /\ UNCHANGED <<wire, serialread, serial, pmgr, told, heard, dropped>>

\* The line is too long: it is dropped together with the rest of the chunk.
TooLong ==
  /\ chunk # << >> /\ Head(chunk) \notin {CR, NUL}
  /\ Len(serial_input) + 1 >= InputLen - 1
  /\ serial_input' = << >>
  /\ chunk' = << >>
  /\ dropped' = TRUE
  /\ UNCHANGED <<wire, serialread, serial, pmgr, told, heard>>

\* Mutant: a byte 0 is skipped without moving on in the chunk.
Stuck_PartialRead ==
  /\ chunk # << >> /\ Head(chunk) = NUL
  /\ dropped' = TRUE
  /\ UNCHANGED <<wire, chunk, serial_input, serialread, serial, pmgr, told, heard>>

\* A byte 0 is taken for the end of what was read.
PartialRead ==
  /\ chunk # << >> /\ Head(chunk) = NUL
  /\ chunk' = << >>
  /\ dropped' = TRUE
  /\ UNCHANGED <<wire, serial_input, serialread, serial, pmgr, told, heard>>

LookAtByte ==
  /\ serial = "running"
  /\ EndOfLine \/ Store \/ TooLong \/ PartialRead

\* A KILL is looked for at the poll, before the device.
Exit ==
  /\ Polling
  /\ serial' = "exited"
  /\ UNCHANGED <<wire, chunk, serial_input, serialread, pmgr, told, heard, dropped>>

\* The panel manager takes a line: z_receive_string returns NULL for an empty
\* one, whose first character is then looked at.
Take ==
  /\ pmgr = "running" /\ serialread # << >>
  /\ serialread' = Tail(serialread)
  /\ pmgr' = IF Head(serialread) = << >> THEN "crashed" ELSE pmgr
  /\ UNCHANGED <<wire, chunk, serial_input, serial, told, heard, dropped>>

Init ==
  /\ wire = << >> /\ chunk = << >> /\ serial_input = << >> /\ serialread = << >>
  /\ serial = "running" /\ pmgr = "running"
  /\ told = << >> /\ heard = << >> /\ dropped = FALSE

Next == PanelSends \/ LineNoise \/ Read \/ LookAtByte \/ Exit \/ Take

Spec == Init /\ [][Next]_vars

\* The two threads keep running: neither ever waits for anything but bytes to
\* read, a line to take or room in the queue.
FairSpec == Spec /\ WF_vars(Read) /\ WF_vars(LookAtByte) /\ WF_vars(Take)

-----------------------------------------------------------------------------
Bytes == Chars \cup {CR, NUL}

\* The types of the variables, and the invariant serial_input[] is indexed
\* by: there is always room for the byte 0 that ends it.
TypeOK ==
  /\ wire \in Seq(Bytes) /\ chunk \in Seq(Bytes)
  /\ serial_input \in Seq(Chars) /\ Len(serial_input) < InputLen - 1
  /\ serialread \in Seq(Seq(Chars))
  /\ serial \in {"running", "exited"} /\ pmgr \in {"running", "crashed"}
  /\ told \in Seq(Bytes) /\ heard \in Seq(Bytes) /\ dropped \in BOOLEAN

\* However the bytes are cut into chunks, they reach the lines published in
\* the order they were sent, none twice and none missing, unless the loop
\* skipped some.
BytesKept == dropped \/ heard \o serial_input \o chunk \o wire = told

\* The lines that are complete in the bytes s, bytes 0 left out, and the line
\* that is not.
AddByte(p, b) ==
  IF b = CR THEN [done |-> Append(p.done, p.line), line |-> << >>]
  ELSE IF b = NUL THEN p
  ELSE [p EXCEPT !.line = Append(@, b)]

Parse(s) ==
  LET parsed[n \in 0..Len(s)] ==
        IF n = 0 THEN [done |-> << >>, line |-> << >>] ELSE AddByte(parsed[n - 1], s[n])
  IN parsed[Len(s)]

LinesIn(s) == Parse(s).done

\* The thread implements LineStream: what it has not published are the lines
\* in the bytes it has put together, read or not yet read.
Stream == INSTANCE LineStream WITH
            pending   <- LinesIn(serial_input \o chunk \o wire),
            published <- serialread

LinesKept == Stream!Spec

\* Every byte sent is published sooner or later, unless the thread is told to
\* exit: no chunk, line or queue is left standing.
EverythingHeard ==
  \A n \in 1..MaxTold :
    Len(told) >= n ~> Len(heard) >= n \/ serial = "exited"

\* Whatever reaches the device, noise and lines that are too long included, is
\* read and looked at, unless a thread ends.
Drains ==
  wire \o chunk # << >>
    ~> wire \o chunk = << >> \/ serial = "exited" \/ pmgr = "crashed"

\* While no byte 0 is read, nothing is put together from two lines, the one
\* that was too long included: what is published is a piece of one line.
NoMixedLines ==
  NUL \notin Range(told) =>
    \A i \in 1..Len(serialread) :
      \E l \in Lines : \E j \in 1..Len(l) + 1, k \in 0..Len(l) :
        serialread[i] = SubSeq(l, j, k)

=============================================================================
