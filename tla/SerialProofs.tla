---------------------------- MODULE SerialProofs ----------------------------
(***************************************************************************)
(* Theorems about Serial, for any lines, chunk and buffer sizes, with and  *)
(* without noise.                                                          *)
(***************************************************************************)
EXTENDS Serial, FlattenProofs

-----------------------------------------------------------------------------
(***************************************************************************)
(* Facts about sequences.                                                  *)
(***************************************************************************)

\* Taking the first of several bytes apart from the rest.
LEMMA FirstByte ==
  ASSUME NEW S, NEW s \in Seq(S), s # << >>
  PROVE  /\ Head(s) \in S /\ Tail(s) \in Seq(S)
         /\ <<Head(s)>> \o Tail(s) = s
OBVIOUS

\* A sequence cut in two, as read() cuts the bytes the device holds.
LEMMA Cut ==
  ASSUME NEW S, NEW s \in Seq(S), NEW n \in 1..Len(s)
  PROVE  /\ SubSeq(s, 1, n) \in Seq(S) /\ SubSeq(s, n + 1, Len(s)) \in Seq(S)
         /\ SubSeq(s, 1, n) \o SubSeq(s, n + 1, Len(s)) = s
<1> QED
  OBVIOUS

-----------------------------------------------------------------------------
(***************************************************************************)
(* The types: the invariant the buffer serial_input[] is indexed by.       *)
(***************************************************************************)

\* Every line is made of bytes that may arrive.
LEMMA Alphabet ==
  /\ CR \in Bytes /\ NUL \in Bytes /\ Chars \subseteq Bytes
  /\ \A l \in Lines : l \in Seq(Chars) /\ l \in Seq(Bytes)
  /\ \A s \in Seq(Chars) : s \in Seq(Bytes)
<1>1. Chars \subseteq Bytes /\ CR \in Bytes /\ NUL \in Bytes
  BY DEF Bytes
<1> QED
  BY <1>1, BytesAssumption

\* The types hold at first ...
LEMMA InitType == Init => TypeOK
<1>1. << >> \in Seq(Bytes) /\ << >> \in Seq(Chars) /\ << >> \in Seq(Seq(Chars))
  OBVIOUS
<1>2. Len(<< >>) < InputLen - 1
  BY SizesAssumption
<1> QED
  BY <1>1, <1>2 DEF Init, TypeOK

\* ... and every step keeps them.
LEMMA StepType == TypeOK /\ [Next]_vars => TypeOK'
<1> SUFFICES ASSUME TypeOK, [Next]_vars PROVE TypeOK'
  OBVIOUS
<1> USE DEF TypeOK
<1>1. CASE PanelSends
  <2> PICK l \in Lines : /\ wire' = wire \o l \o <<CR>>
                         /\ told' = told \o l \o <<CR>>
    BY <1>1 DEF PanelSends
  <2>1. l \in Seq(Bytes) /\ <<CR>> \in Seq(Bytes)
    BY Alphabet
  <2>2. wire' \in Seq(Bytes) /\ told' \in Seq(Bytes)
    BY <2>1
  <2> QED
    BY <1>1, <2>2 DEF PanelSends
<1>2. CASE LineNoise
  <2>1. wire' \in Seq(Bytes) /\ told' \in Seq(Bytes)
    BY <1>2, Alphabet DEF LineNoise
  <2> QED
    BY <1>2, <2>1 DEF LineNoise
<1>3. CASE Read
  <2> PICK n \in 1..BuffLen : /\ n <= Len(wire)
                              /\ chunk' = SubSeq(wire, 1, n)
                              /\ wire' = SubSeq(wire, n + 1, Len(wire))
    BY <1>3 DEF Read
  <2>2. chunk' \in Seq(Bytes) /\ wire' \in Seq(Bytes)
    OBVIOUS
  <2> QED
    BY <1>3, <2>2 DEF Read
<1>4. CASE LookAtByte
  <2>1. CASE EndOfLine
    <3>2. serial_input' \in Seq(Chars) /\ Len(serial_input') < InputLen - 1
      BY <2>1, SizesAssumption DEF EndOfLine
    <3>4. heard' \in Seq(Bytes)
      <4>1. serial_input \in Seq(Bytes) /\ <<CR>> \in Seq(Bytes)
        BY Alphabet
      <4> QED
        BY <2>1, <4>1 DEF EndOfLine
    <3> QED
      BY <2>1, <3>2, <3>4 DEF EndOfLine
  <2>2. CASE Store
    <3>2. Head(chunk) \in Chars
      BY <2>2 DEF Store, Bytes
    <3>3. /\ serial_input' \in Seq(Chars)
          /\ Len(serial_input') = Len(serial_input) + 1
      BY <2>2, <3>2 DEF Store
    <3> QED
      BY <2>2, <3>3 DEF Store
  <2>3. CASE TooLong
    BY <2>3, SizesAssumption DEF TooLong
  <2>4. CASE PartialRead
    BY <2>4 DEF PartialRead
  <2> QED
    BY <1>4, <2>1, <2>2, <2>3, <2>4 DEF LookAtByte
<1>5. CASE Exit
  BY <1>5 DEF Exit
<1>6. CASE Take
  <2> QED
    BY <1>6 DEF Take
<1>7. CASE UNCHANGED vars
  BY <1>7 DEF vars
<1> QED
  BY <1>1, <1>2, <1>3, <1>4, <1>5, <1>6, <1>7 DEF Next

\* Type correctness; in particular serial_input[] never overflows, whatever
\* arrives (serial_thread stops storing one byte before its end).
THEOREM TypeCorrect == Spec => []TypeOK
BY InitType, StepType, PTL DEF Spec

-----------------------------------------------------------------------------
(***************************************************************************)
(* The bytes.                                                              *)
(***************************************************************************)

\* Concatenation as an operator the provers need not look into.
Cat(r, s) == r \o s

\* It gives sequences of bytes, ...
LEMMA Closed == \A r, s \in Seq(Bytes) : Cat(r, s) \in Seq(Bytes)
BY DEF Cat

\* The border between two neighbours may be moved.
LEMMA Assoc ==
  \A r, s, t \in Seq(Bytes) : Cat(r, Cat(s, t)) = Cat(Cat(r, s), t)
BY DEF Cat

\* ... and nothing is neutral behind it.
LEMMA Empty ==
  /\ << >> \in Seq(Bytes)
  /\ \A s \in Seq(Bytes) : Cat(s, << >>) = s
BY DEF Cat

\* The bytes between the line being published and the ones not yet read.
Held == Cat(Cat(Cat(heard, serial_input), chunk), wire)

\* BytesKept in terms of Held.
LEMMA Kept ==
  /\ BytesKept <=> dropped \/ Held = told
  /\ BytesKept' <=> dropped' \/ Held' = told'
BY DEF BytesKept, Held, Cat

\* Nothing is held at first ...
LEMMA InitKept == Init => BytesKept
<1> QED
  BY DEF Init, BytesKept

\* ... and every step re-brackets what is.
LEMMA StepKept == TypeOK /\ BytesKept /\ [Next]_vars => BytesKept'
<1> SUFFICES ASSUME TypeOK, BytesKept, [Next]_vars, ~dropped'
             PROVE  Held' = told'
  BY Kept
<1>0. /\ heard \in Seq(Bytes) /\ serial_input \in Seq(Bytes)
      /\ chunk \in Seq(Bytes) /\ wire \in Seq(Bytes) /\ told \in Seq(Bytes)
  BY Alphabet DEF TypeOK
<1> DEFINE pre == Cat(heard, serial_input)
<1>a. pre \in Seq(Bytes) /\ Cat(pre, chunk) \in Seq(Bytes)
  BY <1>0, Closed
<1>b. Held = Cat(Cat(pre, chunk), wire) /\ (~dropped => Held = told)
  BY Kept DEF Held
<1>1. CASE PanelSends
  <2> PICK l \in Lines : /\ wire' = wire \o l \o <<CR>>
                         /\ told' = told \o l \o <<CR>>
    BY <1>1 DEF PanelSends
  <2> DEFINE cr == <<CR>>
  <2>1. l \in Seq(Bytes) /\ cr \in Seq(Bytes)
    BY Alphabet
  <2>2. /\ wire' = Cat(Cat(wire, l), cr) /\ told' = Cat(Cat(told, l), cr)
        /\ Held' = Cat(Cat(pre, chunk), wire') /\ Held = told
    BY <1>1, <1>b DEF PanelSends, Cat, Held
  <2> HIDE DEF pre, cr
  <2>3. wire' = Cat(wire, Cat(l, cr)) /\ told' = Cat(told, Cat(l, cr))
    BY <1>0, <2>1, <2>2, Assoc
  <2>4. Cat(l, cr) \in Seq(Bytes)
    BY <2>1, Closed
  <2>5. Cat(Cat(pre, chunk), Cat(wire, Cat(l, cr)))
          = Cat(Cat(Cat(pre, chunk), wire), Cat(l, cr))
    BY <1>0, <1>a, <2>4, Assoc
  <2> QED
    BY <1>b, <2>2, <2>3, <2>5
<1>2. CASE LineNoise
  <2> DEFINE nul == <<NUL>>
  <2>1. nul \in Seq(Bytes)
    BY Alphabet
  <2>2. wire' = Cat(wire, nul) /\ told' = Cat(told, nul)
    BY <1>2, AppendIsConcat DEF LineNoise, Cat
  <2>3. Held' = Cat(Cat(pre, chunk), wire') /\ Held = told
    BY <1>2, <1>b DEF LineNoise, Held
  <2> HIDE DEF pre, nul
  <2>4. Cat(Cat(pre, chunk), Cat(wire, nul))
          = Cat(Cat(Cat(pre, chunk), wire), nul)
    BY <1>0, <1>a, <2>1, Assoc
  <2> QED
    BY <1>b, <2>2, <2>3, <2>4
<1>3. CASE Read
  <2> PICK n \in 1..BuffLen : /\ n <= Len(wire)
                              /\ chunk' = SubSeq(wire, 1, n)
                              /\ wire' = SubSeq(wire, n + 1, Len(wire))
    BY <1>3 DEF Read
  <2>2. /\ chunk' \in Seq(Bytes) /\ wire' \in Seq(Bytes)
        /\ Cat(chunk', wire') = wire
    BY <1>0 DEF Cat
  <2>3. /\ Held' = Cat(Cat(pre, chunk'), wire') /\ told' = told
        /\ chunk = << >> /\ Held = told
    BY <1>3, <1>b DEF Read, Polling, Held
  <2> HIDE DEF pre
  <2>4. Cat(pre, wire) = told
    BY <1>a, <1>b, <2>3, Empty
  <2>5. Cat(pre, Cat(chunk', wire')) = Cat(Cat(pre, chunk'), wire')
    BY <1>a, <2>2, Assoc
  <2> QED
    BY <2>2, <2>3, <2>4, <2>5
<1>4. CASE LookAtByte
  <2> DEFINE first == <<Head(chunk)>>
  <2> DEFINE rest == Tail(chunk)
  <2>0. /\ Held = told /\ told' = told /\ wire' = wire /\ chunk # << >>
        /\ ~TooLong /\ ~PartialRead
    BY <1>4, <1>b DEF LookAtByte, EndOfLine, Store, TooLong, PartialRead
  <2>1. /\ first \in Seq(Bytes) /\ rest \in Seq(Bytes)
        /\ Cat(first, rest) = chunk
    BY <1>0, <2>0 DEF Cat
  <2>2. Cat(Cat(pre, first), rest) = Cat(pre, chunk)
    <3> HIDE DEF pre, first, rest
    <3> QED
      BY <1>a, <2>1, Assoc
  <2>3. CASE EndOfLine
    <3>1. /\ heard' = Cat(pre, first) /\ serial_input' = << >>
          /\ chunk' = rest
      BY <2>3 DEF EndOfLine, Cat
    <3>2. Cat(heard', serial_input') = Cat(pre, first)
      <4> HIDE DEF pre, first
      <4> QED
        BY <1>a, <2>1, <3>1, Empty, Closed
    <3> QED
      BY <2>0, <2>2, <3>1, <3>2 DEF Held
  <2>4. CASE Store
    <3>1. /\ heard' = heard /\ serial_input' = Cat(serial_input, first)
          /\ chunk' = rest
      BY <2>4 DEF Store, Cat
    <3>2. Cat(heard', serial_input') = Cat(pre, first)
      <4> HIDE DEF first
      <4> QED
        BY <1>0, <2>1, <3>1, Assoc
    <3> QED
      BY <2>0, <2>2, <3>1, <3>2 DEF Held
  <2> QED
    BY <1>4, <2>0, <2>3, <2>4 DEF LookAtByte
<1>5. CASE Exit
  BY <1>b, <1>5 DEF Exit, Held
<1>6. CASE Take
  BY <1>b, <1>6 DEF Take, Held
<1>7. CASE UNCHANGED vars
  BY <1>b, <1>7 DEF vars, Held
<1> QED
  BY <1>1, <1>2, <1>3, <1>4, <1>5, <1>6, <1>7 DEF Next

\* However read() cuts the bytes, they reach the published lines in their
\* order, none twice and none missing, as long as the loop skipped none.
THEOREM NoByteIsLost == Spec => []BytesKept
<1>1. Init => TypeOK /\ BytesKept
  BY InitType, InitKept
<1>2. (TypeOK /\ BytesKept) /\ [Next]_vars => (TypeOK /\ BytesKept)'
  BY StepType, StepKept
<1> QED
  BY <1>1, <1>2, PTL DEF Spec

-----------------------------------------------------------------------------
(***************************************************************************)
(* The lines.                                                              *)
(*                                                                         *)
(* NoMixedLines says nothing of the line being put together, nor of the    *)
(* bytes on their way: it is strengthened by where they were in told.      *)
(* What was put together are the last bytes looked at, what was not looked *)
(* at ends told, and every byte of told is in a line that is whole.        *)
(***************************************************************************)
NoNoise == NUL \notin Range(told)

\* How many bytes the thread has looked at.
Seen == Len(told) - Len(chunk) - Len(wire)

\* The bytes s come in t after the first n.
Found(s, n, t) == \A i \in 1..Len(s) : s[i] = t[n + i]

InPlace ==
  /\ Len(serial_input) <= Seen
  /\ Found(serial_input, Seen - Len(serial_input), told)
  /\ Found(chunk, Seen, told)
  /\ Found(wire, Seen + Len(chunk), told)

\* The line l was sent after the first d bytes of s.
SentAt(l, d, s) ==
  /\ d + Len(l) + 1 <= Len(s)
  /\ \A k \in 1..Len(l) : s[d + k] = l[k]
  /\ s[d + Len(l) + 1] = CR

InLine(p, s) ==
  \E l \in Lines, d \in Nat :
    SentAt(l, d, s) /\ d + 1 <= p /\ p <= d + Len(l) + 1

WholeLines == \A p \in 1..Len(told) : InLine(p, told)

Piece(s) ==
  \E l \in Lines : \E j \in 1..Len(l) + 1, k \in 0..Len(l) : s = SubSeq(l, j, k)

PiecesRead == \A i \in 1..Len(serialread) : Piece(serialread[i])

MixInv == NoNoise => InPlace /\ WholeLines /\ PiecesRead

\* At first nothing was told.
LEMMA InitMix == Init => MixInv
<1> SUFFICES ASSUME Init PROVE InPlace /\ WholeLines /\ PiecesRead
  BY DEF MixInv
<1> QED
  BY DEF Init, InPlace, WholeLines, PiecesRead, Seen, Found

\* The elements of a sequence made of two.
LEMMA Joined ==
  ASSUME NEW S, NEW s \in Seq(S), NEW t \in Seq(S)
  PROVE  /\ Len(s \o t) = Len(s) + Len(t)
         /\ \A i \in 1..Len(s) : (s \o t)[i] = s[i]
         /\ \A i \in 1..Len(t) : (s \o t)[Len(s) + i] = t[i]
<1> QED
  OBVIOUS

\* What Found says when the bytes looked for, or those they are found in, are
\* fewer or more.
LEMMA FoundTail ==
  ASSUME NEW s \in Seq(Bytes), s # << >>, NEW t, NEW n \in Nat, Found(s, n, t)
  PROVE  Head(s) = t[n + 1] /\ Found(Tail(s), n + 1, t)
<1> QED
  BY DEF Found

\* What is found up to the next byte is found with it.
LEMMA FoundAppend ==
  ASSUME NEW s \in Seq(Bytes), NEW b \in Bytes, NEW t, NEW n \in Nat,
         Found(s, n, t), b = t[n + Len(s) + 1]
  PROVE  Found(Append(s, b), n, t)
<1> QED
  BY DEF Found

\* Both parts of what is found are found.
LEMMA FoundCut ==
  ASSUME NEW s \in Seq(Bytes), NEW t, NEW n \in Nat, NEW k \in 1..Len(s),
         Found(s, n, t)
  PROVE  /\ Len(SubSeq(s, 1, k)) = k
         /\ Len(SubSeq(s, k + 1, Len(s))) = Len(s) - k
         /\ Found(SubSeq(s, 1, k), n, t)
         /\ Found(SubSeq(s, k + 1, Len(s)), n + k, t)
<1>1. Len(s) \in Nat /\ \A i \in 1..Len(s) : s[i] \in Bytes
  OBVIOUS
<1>2. /\ Len(SubSeq(s, 1, k)) = k
      /\ \A i \in 1..k : SubSeq(s, 1, k)[i] = s[i]
  OBVIOUS
<1>3. /\ Len(SubSeq(s, k + 1, Len(s))) = Len(s) - k
      /\ \A i \in 1..Len(s) - k : SubSeq(s, k + 1, Len(s))[i] = s[k + i]
  OBVIOUS
<1>4. ASSUME NEW i \in 1..Len(s) - k PROVE s[k + i] = t[n + k + i]
  <2>1. k + i \in 1..Len(s) /\ n + (k + i) = n + k + i
    OBVIOUS
  <2> QED
    BY <2>1 DEF Found
<1>5. Found(SubSeq(s, 1, k), n, t)
  <2>1. \A i \in 1..k : s[i] = t[n + i]
    BY <1>1 DEF Found
  <2> QED
    BY <1>2, <2>1 DEF Found
<1>6. Found(SubSeq(s, k + 1, Len(s)), n + k, t)
  BY <1>3, <1>4 DEF Found
<1> QED
  BY <1>2, <1>3, <1>5, <1>6

\* What is found is still found when more is told, ...
LEMMA FoundInMore ==
  ASSUME NEW s \in Seq(Bytes), NEW t \in Seq(Bytes), NEW u \in Seq(Bytes),
         NEW n \in Nat, Found(s, n, t), n + Len(s) <= Len(t)
  PROVE  Found(s, n, t \o u)
<1> QED
  BY DEF Found

\* ... and the end of what is told goes on with it.
LEMMA MoreFound ==
  ASSUME NEW s \in Seq(Bytes), NEW t \in Seq(Bytes), NEW u \in Seq(Bytes),
         NEW n \in Nat, Found(s, n, t), n + Len(s) = Len(t)
  PROVE  Found(s \o u, n, t \o u)
<1>1. /\ Len(s) \in Nat /\ Len(u) \in Nat /\ Len(s \o u) = Len(s) + Len(u)
      /\ \A i \in 1..Len(s) : (s \o u)[i] = s[i]
      /\ \A i \in 1..Len(u) : (s \o u)[Len(s) + i] = u[i]
      /\ \A i \in 1..Len(u) : (t \o u)[Len(t) + i] = u[i]
  OBVIOUS
<1>3. ASSUME NEW i \in 1..Len(s) + Len(u) PROVE (s \o u)[i] = (t \o u)[n + i]
  <2>1. CASE i \in 1..Len(s)
    BY <2>1 DEF Found
  <2>2. CASE i \notin 1..Len(s)
    <3>1. PICK j \in 1..Len(u) : i = Len(s) + j
      <4>1. i - Len(s) \in 1..Len(u) /\ i = Len(s) + (i - Len(s))
        BY <2>2
      <4> QED
        BY <4>1
    <3>2. n + i = Len(t) + j
      BY <1>1, <3>1
    <3> QED
      BY <3>2
  <2> QED
    BY <2>1, <2>2
<1> QED
  BY <1>3 DEF Found

\* A line that was sent stays where it was when more is sent.
LEMMA StillSent ==
  ASSUME NEW s \in Seq(Bytes), NEW t \in Seq(Bytes), NEW p \in 1..Len(s),
         InLine(p, s)
  PROVE  InLine(p, s \o t)
<1> PICK l \in Lines, d \in Nat :
      SentAt(l, d, s) /\ d + 1 <= p /\ p <= d + Len(l) + 1
  BY DEF InLine
<1>3. SentAt(l, d, s \o t)
  BY DEF SentAt
<1> QED
  BY <1>3 DEF InLine

\* The bytes of a line that is sent are in a line.
LEMMA NewLineSent ==
  ASSUME NEW s \in Seq(Bytes), NEW l \in Lines,
         NEW p \in Len(s) + 1..Len(s) + Len(l) + 1
  PROVE  InLine(p, s \o (l \o <<CR>>))
<1> PICK t : t = l \o <<CR>>
  OBVIOUS
<1>4. SentAt(l, Len(s), s \o t)
  BY DEF SentAt
<1> QED
  BY <1>4 DEF InLine

\* The bytes that were put together when a CR is met are a piece of a line:
\* there is no CR among them, so they are in the line that ends here.
LEMMA ReadPiece ==
  ASSUME TypeOK, InPlace, WholeLines, chunk # << >>, Head(chunk) = CR
  PROVE  Piece(serial_input)
<1>1. /\ Len(serial_input) \in Nat /\ Len(chunk) \in Nat \ {0}
      /\ Len(wire) \in Nat /\ Len(told) \in Nat
      /\ \A i \in 1..Len(serial_input) : serial_input[i] \in Chars
  BY DEF TypeOK
<1> DEFINE n == Len(serial_input)
<1>2. /\ Seen \in Nat /\ Seen + 1 \in 1..Len(told) /\ n <= Seen
  BY DEF InPlace, Seen
<1>3. \A i \in 1..n : told[Seen - n + i] # CR
  BY <1>1, BytesAssumption DEF InPlace, Found
<1> DEFINE p == Seen - n + 1
<1>4. p \in 1..Len(told)
  BY <1>2
<1> PICK l \in Lines, d \in Nat :
      SentAt(l, d, told) /\ d + 1 <= p /\ p <= d + Len(l) + 1
  BY <1>4 DEF WholeLines, InLine
<1>5. l \in Seq(Chars) /\ Len(l) \in Nat
  BY Alphabet
<1>6. Seen <= d + Len(l)
  <2> SUFFICES ASSUME d + Len(l) + 1 <= Seen PROVE FALSE
    BY <1>2
  <2>1. d + Len(l) + 1 - (Seen - n) \in 1..n
    BY <1>2
  <2> QED
    <3>1. told[Seen - n + (d + Len(l) + 1 - (Seen - n))] # CR
      BY <1>3, <2>1
    <3>2. Seen - n + (d + Len(l) + 1 - (Seen - n)) = d + Len(l) + 1
      BY <1>2
    <3> QED
      BY <3>1, <3>2 DEF SentAt
<1> DEFINE j == p - d
<1> DEFINE k == Seen - d
<1>7. j \in 1..Len(l) + 1 /\ k \in 0..Len(l) /\ k - j + 1 = n
  BY <1>2, <1>6
<1>8. \A i \in 1..n : serial_input[i] = l[j + i - 1]
  <2> TAKE i \in 1..n
  <2>1. j + i - 1 \in 1..Len(l) /\ d + (j + i - 1) = Seen - n + i
    BY <1>2, <1>6
  <2> QED
    <3>1. serial_input[i] = told[d + (j + i - 1)]
      BY <2>1 DEF InPlace, Found
    <3> HIDE DEF j
    <3>2. told[d + (j + i - 1)] = l[j + i - 1]
      BY <2>1 DEF SentAt
    <3> QED
      BY <3>1, <3>2
<1> HIDE DEF j, k
<1>9. \A i \in j..k : l[i] \in Chars
  BY <1>5, <1>7
<1>10. /\ SubSeq(l, j, k) \in Seq(Chars) /\ Len(SubSeq(l, j, k)) = n
       /\ \A i \in 1..n : SubSeq(l, j, k)[i] = l[j + i - 1]
  <2>1. j \in Int /\ k \in Int
    BY <1>7
  <2>2. /\ SubSeq(l, j, k) \in Seq(Chars)
        /\ Len(SubSeq(l, j, k)) = IF j <= k THEN k - j + 1 ELSE 0
        /\ \A i \in 1..k - j + 1 : SubSeq(l, j, k)[i] = l[j + i - 1]
    BY <1>9, <2>1
  <2> HIDE DEF n
  <2>3. n \in Nat
    BY DEF n
  <2>4. Len(SubSeq(l, j, k)) = n
    BY <1>7, <2>3
  <2> QED
    BY <2>2, <2>4
<1>11. serial_input = SubSeq(l, j, k)
  <2> serial_input \in Seq(Chars)
    BY DEF TypeOK
  <2> QED
    BY <1>8, <1>10, SeqEqual
<1> QED
  BY <1>7, <1>11 DEF Piece

\* Every step keeps the bytes in their places.
LEMMA StepMix == TypeOK /\ MixInv /\ [Next]_vars => MixInv'
<1> SUFFICES ASSUME TypeOK, MixInv, [Next]_vars, NoNoise'
             PROVE  InPlace' /\ WholeLines' /\ PiecesRead'
  BY DEF MixInv
<1>0. /\ wire \in Seq(Bytes) /\ chunk \in Seq(Bytes) /\ told \in Seq(Bytes)
      /\ serial_input \in Seq(Chars) /\ serialread \in Seq(Seq(Chars))
      /\ Len(wire) \in Nat /\ Len(chunk) \in Nat /\ Len(told) \in Nat
      /\ Len(serial_input) \in Nat /\ Len(serialread) \in Nat
  BY DEF TypeOK
<1>1. CASE PanelSends
  <2> PICK l \in Lines : /\ wire' = wire \o l \o <<CR>>
                         /\ told' = told \o l \o <<CR>>
    BY <1>1 DEF PanelSends
  <2> PICK cr : cr = <<CR>>
    OBVIOUS
  <2> PICK t : t = l \o cr
    OBVIOUS
  <2>1. l \in Seq(Bytes) /\ <<CR>> \in Seq(Bytes) /\ Len(l) \in Nat
    BY Alphabet
  <2>2. t \in Seq(Bytes) /\ Len(t) = Len(l) + 1
    BY <2>1
  <2>3. wire' = wire \o t /\ told' = told \o t
    <3>1. cr \in Seq(Bytes) /\ wire' = (wire \o l) \o cr
          /\ told' = (told \o l) \o cr
      BY <2>1
    <3>2. \A s \in Seq(Bytes) : (s \o l) \o cr = s \o t
      BY <3>1
    <3> QED
      BY <1>0, <3>2
  <2>5. NoNoise
    <3>1. ASSUME NEW i \in 1..Len(told) PROVE told[i] \in Range(told')
      <4>1. told'[i] = told[i]
        OBVIOUS
      <4>2. told' \in Seq(Bytes)
        BY <1>0, <2>2
      <4>3. i \in 1..Len(told')
        OBVIOUS
      <4> QED
        BY <4>1, <4>2, <4>3, RangeEquality
    <3>2. Range(told) = {told[i] : i \in 1..Len(told)}
      BY <1>0, RangeEquality
    <3> QED
      BY <3>1, <3>2 DEF NoNoise
  <2>6. InPlace /\ WholeLines /\ PiecesRead
    BY <2>5 DEF MixInv
  <2>7. /\ chunk' = chunk /\ serial_input' = serial_input
        /\ serialread' = serialread
    BY <1>1 DEF PanelSends
  <2>8. Seen' = Seen /\ Seen + Len(chunk) + Len(wire) = Len(told)
    BY <2>7 DEF Seen
  <2>9. InPlace'
    <3>1. /\ Seen \in Nat /\ Seen - Len(serial_input) \in Nat
          /\ Seen + Len(chunk) \in Nat /\ Seen + Len(chunk) <= Len(told)
          /\ Seen - Len(serial_input) + Len(serial_input) <= Len(told)
      <4>1. Seen \in Int /\ Len(serial_input) <= Seen
        BY <2>6 DEF InPlace, Seen
      <4> QED
        BY <2>8, <4>1
    <3>2. Found(wire', Seen + Len(chunk), told')
      BY <1>0, <2>2, <2>3, <2>6, <2>8, <3>1, MoreFound DEF InPlace
    <3>3. Found(chunk, Seen, told')
      BY <1>0, <2>2, <2>3, <2>6, <3>1, FoundInMore DEF InPlace
    <3>4. Found(serial_input, Seen - Len(serial_input), told')
      <4>1. serial_input \in Seq(Bytes)
        BY <1>0, Alphabet
      <4> QED
        BY <1>0, <2>2, <2>3, <2>6, <3>1, <4>1, FoundInMore DEF InPlace
    <3> QED
      BY <2>6, <2>7, <2>8, <3>2, <3>3, <3>4 DEF InPlace
  <2>10. WholeLines'
    <3> SUFFICES ASSUME NEW p \in 1..Len(told') PROVE InLine(p, told')
      BY DEF WholeLines
    <3>1. CASE p \in 1..Len(told)
      BY <1>0, <2>2, <2>3, <2>6, <3>1, StillSent DEF WholeLines
    <3>2. CASE p \in Len(told) + 1..Len(told) + Len(l) + 1
      BY <1>0, <2>3, <3>2, NewLineSent
    <3> QED
      BY <3>1, <3>2
  <2> QED
    BY <2>6, <2>7, <2>9, <2>10 DEF PiecesRead
<1>2. CASE LineNoise
  <2>1. told' = Append(told, NUL)
    BY <1>2 DEF LineNoise
  <2>2. told'[Len(told) + 1] = NUL /\ Len(told') = Len(told) + 1 /\ told' \in Seq(Bytes)
    BY <1>0, <2>1, Alphabet
  <2>3. NUL \in Range(told')
    BY <2>2, RangeEquality
  <2> QED
    BY <2>3 DEF NoNoise
<1>a. ASSUME told' = told PROVE InPlace /\ WholeLines /\ PiecesRead /\ WholeLines'
  <2>1. NoNoise
    BY <1>a DEF NoNoise
  <2> QED
    BY <1>a, <2>1 DEF MixInv, WholeLines
<1>3. CASE Read
  <2> PICK n \in 1..BuffLen : /\ n <= Len(wire)
                              /\ chunk' = SubSeq(wire, 1, n)
                              /\ wire' = SubSeq(wire, n + 1, Len(wire))
    BY <1>3 DEF Read
  <2>1. /\ told' = told /\ serial_input' = serial_input
        /\ serialread' = serialread /\ Len(chunk) = 0
    BY <1>3 DEF Read, Polling
  <2>2. n \in 1..Len(wire) /\ Seen \in Nat /\ InPlace
    BY <1>a, <2>1 DEF InPlace, Seen
  <2>3. /\ Len(chunk') = n /\ Len(wire') = Len(wire) - n
        /\ Found(chunk', Seen, told) /\ Found(wire', Seen + n, told)
    <3>1. Found(wire, Seen, told)
      BY <2>1, <2>2 DEF InPlace
    <3> QED
      BY <1>0, <2>2, <3>1, FoundCut
  <2>4. Seen' = Seen
    <3> QED
      BY <2>1 DEF Seen
  <2>5. InPlace'
    BY <2>1, <2>2, <2>3, <2>4 DEF InPlace
  <2> QED
    BY <1>a, <2>1, <2>5 DEF PiecesRead
<1>4. CASE LookAtByte
  <2>0. told' = told /\ wire' = wire
    BY <1>4 DEF LookAtByte, EndOfLine, Store, TooLong, PartialRead
  <2>1. InPlace /\ WholeLines /\ PiecesRead /\ WholeLines'
    BY <1>a, <2>0
  <2>2. chunk # << >>
    BY <1>4 DEF LookAtByte, EndOfLine, Store, TooLong, PartialRead
  <2>3. /\ Len(Tail(chunk)) = Len(chunk) - 1 /\ Len(chunk) \in Nat \ {0}
        /\ Head(chunk) \in Bytes
    BY <1>0, <2>2
  <2>4. /\ Head(chunk) = told[Seen + 1] /\ Seen + 1 \in 1..Len(told)
        /\ Found(Tail(chunk), Seen + 1, told)
        /\ Seen \in Nat /\ Seen - Len(serial_input) \in Nat
    BY <1>0, <2>1, <2>3, FoundTail DEF InPlace, Seen
  <2>5. CASE EndOfLine
    <3>1. /\ serial_input' = << >> /\ chunk' = Tail(chunk)
          /\ serialread' = Append(serialread, serial_input)
      BY <2>5 DEF EndOfLine
    <3>2. Seen' = Seen + 1
      BY <2>0, <2>3, <3>1 DEF Seen
    <3>3. InPlace'
      <4>1. Found(serial_input', Seen' - 0, told) /\ Len(serial_input') = 0
        BY <3>1 DEF Found
      <4>2. Seen' + Len(chunk') = Seen + Len(chunk)
        BY <2>3, <2>4, <3>1, <3>2
      <4> QED
        <5>1. /\ Found(chunk', Seen', told') /\ Found(wire', Seen' + Len(chunk'), told')
          BY <2>0, <2>1, <2>4, <3>1, <3>2, <4>2 DEF InPlace
        <5>2. /\ Found(serial_input', Seen' - Len(serial_input'), told')
              /\ Len(serial_input') <= Seen'
          BY <2>0, <2>4, <3>2, <4>1
        <5> QED
          BY <5>1, <5>2 DEF InPlace
    <3>4. Piece(serial_input)
      BY <2>1, <2>5, ReadPiece DEF EndOfLine
    <3>5. PiecesRead'
      <4>1. /\ Len(serialread') = Len(serialread) + 1
            /\ \A i \in 1..Len(serialread) : serialread'[i] = serialread[i]
            /\ serialread'[Len(serialread) + 1] = serial_input
        BY <3>1
      <4> QED
        <5> SUFFICES ASSUME NEW i \in 1..Len(serialread') PROVE Piece(serialread'[i])
          BY DEF PiecesRead
        <5> QED
          BY <2>1, <3>4, <4>1 DEF PiecesRead
    <3> QED
      BY <2>1, <3>3, <3>5
  <2>6. CASE Store
    <3>1. /\ serial_input' = Append(serial_input, Head(chunk))
          /\ chunk' = Tail(chunk) /\ serialread' = serialread
          /\ Head(chunk) \in Chars
      BY <2>3, <2>6 DEF Store, Bytes
    <3>2. /\ Len(serial_input') = Len(serial_input) + 1
          /\ Found(serial_input', Seen - Len(serial_input), told)
      <4>1. /\ serial_input \in Seq(Bytes)
            /\ Seen - Len(serial_input) + Len(serial_input) + 1 = Seen + 1
        BY <1>0, <2>4, Alphabet
      <4> QED
        BY <2>1, <2>3, <2>4, <3>1, <4>1, FoundAppend DEF InPlace
    <3>3. Seen' = Seen + 1
      BY <2>0, <2>3, <3>1 DEF Seen
    <3>4. InPlace'
      <4>1. /\ Seen' + Len(chunk') = Seen + Len(chunk)
            /\ Seen' - Len(serial_input') = Seen - Len(serial_input)
            /\ Len(serial_input') <= Seen'
        BY <2>3, <2>4, <3>1, <3>3
      <4> QED
        <5>1. /\ Found(chunk', Seen', told') /\ Found(wire', Seen' + Len(chunk'), told')
          BY <2>0, <2>1, <2>4, <3>1, <3>3, <4>1 DEF InPlace
        <5>2. Found(serial_input', Seen' - Len(serial_input'), told')
          BY <2>0, <3>2, <4>1
        <5> QED
          BY <4>1, <5>1, <5>2 DEF InPlace
    <3> QED
      BY <2>1, <3>1, <3>4 DEF PiecesRead
  <2>7. CASE TooLong
    <3>1. /\ serial_input' = << >> /\ chunk' = << >> /\ serialread' = serialread
      BY <2>7 DEF TooLong
    <3>2. Seen' = Seen + Len(chunk) /\ Seen \in Nat
      BY <2>0, <2>1, <3>1 DEF Seen, InPlace
    <3>3. InPlace'
      <4>1. /\ Len(serial_input') = 0 /\ Len(chunk') = 0
            /\ Found(serial_input', Seen' - 0, told) /\ Found(chunk', Seen', told)
        BY <3>1 DEF Found
      <4> QED
        BY <2>0, <2>1, <3>2, <4>1 DEF InPlace
    <3> QED
      BY <2>1, <3>1, <3>3 DEF PiecesRead
  <2>8. CASE PartialRead
    <3>1. NUL \in Range(told')
      BY <1>0, <2>4, <2>8, RangeEquality DEF PartialRead
    <3> QED
      BY <3>1 DEF NoNoise
  <2> QED
    BY <1>4, <2>5, <2>6, <2>7, <2>8 DEF LookAtByte
<1>5. CASE Exit
  BY <1>5, <1>a DEF Exit, InPlace, PiecesRead, Seen
<1>6. CASE Take
  <2>1. InPlace' /\ told' = told
    BY <1>6, <1>a DEF Take, InPlace, Seen
  <2>3. PiecesRead'
    BY <1>6, <1>a DEF PiecesRead, Take
  <2> QED
    BY <1>a, <2>1, <2>3
<1>7. CASE UNCHANGED vars
  BY <1>7, <1>a DEF vars, InPlace, PiecesRead, Seen
<1> QED
  BY <1>1, <1>2, <1>3, <1>4, <1>5, <1>6, <1>7 DEF Next

\* While no byte 0 is read, every line published is a piece of one line, the
\* lines that are too long for the buffer included.
THEOREM LinesAreNotMixed == Spec => []NoMixedLines
<1>1. Init => TypeOK /\ MixInv
  BY InitType, InitMix
<1>2. (TypeOK /\ MixInv) /\ [Next]_vars => (TypeOK /\ MixInv)'
  BY StepType, StepMix
<1>3. MixInv => NoMixedLines
  BY DEF MixInv, NoNoise, PiecesRead, Piece, NoMixedLines
<1> QED
  BY <1>1, <1>2, <1>3, PTL DEF Spec

-----------------------------------------------------------------------------
(***************************************************************************)
(* What Parse computes: it is a fold of AddByte over the bytes.            *)
(***************************************************************************)
NoBytes == [done |-> << >>, line |-> << >>]
Parsed  == [done : Seq(Seq(Chars)), line : Seq(Chars)]

\* f is what was parsed after each of the first n bytes of s.
Parses(f, s, n) == f[0] = NoBytes /\ \A i \in 1..n : f[i] = AddByte(f[i - 1], s[i])

\* There is only one such function ...
LEMMA ParsesOnce ==
  ASSUME NEW s, NEW n \in Nat, NEW f, NEW g, Parses(f, s, n), Parses(g, s, n)
  PROVE  f[n] = g[n]
<1>0. ASSUME NEW h, Parses(h, s, n), NEW i \in Nat, i + 1 <= n
      PROVE  h[i + 1] = AddByte(h[i], s[i + 1])
  <2> PICK m \in 1..n : m = i + 1
    BY <1>0
  <2>1. h[m] = AddByte(h[m - 1], s[m])
    BY <1>0 DEF Parses
  <2> QED
    BY <2>1
<1> DEFINE T == {i \in Nat : i <= n => f[i] = g[i]}
<1>1. 0 \in T
  BY DEF Parses
<1>2. ASSUME NEW i \in T PROVE i + 1 \in T
  <2> SUFFICES ASSUME i + 1 <= n PROVE f[i + 1] = g[i + 1]
    OBVIOUS
  <2>1. f[i] = g[i] /\ i \in Nat
    OBVIOUS
  <2>2. f[i + 1] = AddByte(f[i], s[i + 1]) /\ g[i + 1] = AddByte(g[i], s[i + 1])
    BY <1>0
  <2> QED
    BY <2>1, <2>2, Zenon
<1>3. T \in SUBSET Nat /\ (T = Nat => f[n] = g[n])
  OBVIOUS
<1> HIDE DEF T
<1> QED
  BY <1>1, <1>2, <1>3, NatSets

\* f is the function in the definition of Parse.
ParsedAs(f, s, n) ==
  f = [i \in 0..n |-> IF i = 0 THEN NoBytes ELSE AddByte(f[i - 1], s[i])]

\* ... and Parse gives its last value.
LEMMA ParseIs ==
  ASSUME NEW s, NEW n \in Nat, n = Len(s), NEW f, Parses(f, s, n)
  PROVE  Parse(s) = f[n]
<1> PICK h : h = [i \in 0..n |-> f[i]]
  OBVIOUS
<1> DEFINE parsed == CHOOSE g : ParsedAs(g, s, n)
<1> HIDE DEF parsed
<1> QED
  OBVIOUS

\* Nothing is parsed at first, and every byte is added to what was parsed.
LEMMA ParseSteps ==
  /\ Parse(<< >>) = NoBytes
  /\ \A s \in Seq(Bytes), b \in Bytes : Parse(Append(s, b)) = AddByte(Parse(s), b)
<1> DEFINE T == {s \in Seq(Bytes) : \E f : Parses(f, s, Len(s))}
<1>1. << >> \in T /\ Parse(<< >>) = NoBytes
  <2> PICK f : f = [i \in {0} |-> NoBytes]
    OBVIOUS
  <2> QED
    OBVIOUS
<1>2. ASSUME NEW s \in T, NEW b \in Bytes
      PROVE  Append(s, b) \in T /\ Parse(Append(s, b)) = AddByte(Parse(s), b)
  <2> PICK n \in Nat : n = Len(s)
    OBVIOUS
  <2> PICK f : Parses(f, s, n)
    OBVIOUS
  <2> PICK t : t = Append(s, b)
    OBVIOUS
  <2>1. /\ t \in Seq(Bytes) /\ Len(t) = n + 1 /\ t[n + 1] = b
        /\ \A i \in 1..n : t[i] = s[i]
    OBVIOUS
  <2> PICK g : g = [i \in 0..n + 1 |-> IF i = n + 1 THEN AddByte(f[n], b) ELSE f[i]]
    OBVIOUS
  <2>4. Parses(g, t, n + 1)
    <3> QED
      BY DEF Parses
  <2>5. Parse(t) = g[n + 1]
    <3>1. n + 1 \in Nat
      OBVIOUS
    <3> QED
      BY <2>1, <2>4, <3>1, ParseIs
  <2>6. Parse(s) = f[n]
    OBVIOUS
  <2> QED
    BY <2>4, <2>5, <2>6
<1>3. Seq(Bytes) \subseteq T
  <2>1. \A s \in Seq(Bytes), b \in Bytes : s \in T => Append(s, b) \in T
    BY <1>2
  <2> HIDE DEF T
  <2> QED
    BY <1>1, <2>1, SeqSets
<1> QED
  BY <1>1, <1>2, <1>3

\* What one byte adds.
LEMMA AddByteIs ==
  ASSUME NEW p \in Parsed
  PROVE  /\ AddByte(p, CR) = [done |-> Append(p.done, p.line), line |-> << >>]
         /\ AddByte(p, NUL) = p
         /\ \A b \in Chars : AddByte(p, b) = [done |-> p.done, line |-> Append(p.line, b)]
         /\ \A b \in Bytes : AddByte(p, b) \in Parsed
<1>1. CR # NUL /\ CR \notin Chars /\ NUL \notin Chars
  BY BytesAssumption
<1>2. AddByte(p, CR) = [done |-> Append(p.done, p.line), line |-> << >>]
  BY DEF AddByte
<1>3. AddByte(p, NUL) = p
  BY <1>1 DEF AddByte
<1>4. ASSUME NEW b \in Chars
      PROVE  AddByte(p, b) = [done |-> p.done, line |-> Append(p.line, b)]
  <2>1. AddByte(p, b) = [p EXCEPT !.line = Append(p.line, b)]
    BY <1>1 DEF AddByte
  <2> QED
    BY <2>1 DEF Parsed
<1>5. ASSUME NEW b \in Bytes PROVE AddByte(p, b) \in Parsed
  <2>1. /\ Append(p.done, p.line) \in Seq(Seq(Chars)) /\ << >> \in Seq(Chars)
        /\ \A c \in Chars : Append(p.line, c) \in Seq(Chars)
    BY DEF Parsed
  <2>2. CASE b = CR
    <3>1. AddByte(p, b) = [done |-> Append(p.done, p.line), line |-> << >>]
      BY <1>2, <2>2
    <3> PICK d \in Seq(Seq(Chars)), l \in Seq(Chars) :
          d = Append(p.done, p.line) /\ l = << >>
      BY <2>1, Zenon
    <3>2. AddByte(p, b) = [done |-> d, line |-> l]
      BY <3>1, Zenon
    <3> QED
      BY <3>2 DEF Parsed
  <2>3. CASE b = NUL
    BY <1>3, <2>3
  <2>4. CASE b \in Chars
    <3>1. AddByte(p, b) = [done |-> p.done, line |-> Append(p.line, b)]
      BY <1>4, <2>4
    <3>2. p.done \in Seq(Seq(Chars)) /\ Append(p.line, b) \in Seq(Chars)
      BY <2>1, <2>4
    <3> QED
      BY <3>1, <3>2 DEF Parsed
  <2> QED
    BY <2>2, <2>3, <2>4 DEF Bytes
<1> QED
  BY <1>2, <1>3, <1>4, <1>5

\* What is parsed are lines, and a piece of one.
LEMMA ParseType == \A s \in Seq(Bytes) : Parse(s) \in Parsed
<1> DEFINE T == {s \in Seq(Bytes) : Parse(s) \in Parsed}
<1>1. << >> \in T
  <2>1. NoBytes \in Parsed /\ << >> \in Seq(Bytes)
    BY DEF NoBytes, Parsed
  <2> QED
    BY <2>1, ParseSteps
<1>2. ASSUME NEW s \in Seq(Bytes), NEW b \in Bytes, s \in T PROVE Append(s, b) \in T
  <2>1. Append(s, b) \in Seq(Bytes) /\ AddByte(Parse(s), b) \in Parsed
    BY <1>2, AddByteIs
  <2> QED
    BY <2>1, ParseSteps
<1>3. Seq(Bytes) \subseteq T
  <2> HIDE DEF T
  <2> QED
    BY <1>1, <1>2, SeqSets
<1> QED
  BY <1>3

\* A byte behind two pieces is a byte behind the second.
LEMMA CatAppend ==
  ASSUME NEW S
  PROVE  \A s, t \in Seq(S), e \in S : Append(Cat(s, t), e) = Cat(s, Append(t, e))
<1> TAKE s, t \in Seq(S), e \in S
<1>2. Append(s \o t, e) = (s \o t) \o <<e>> /\ Append(t, e) = t \o <<e>>
  OBVIOUS
<1>3. (s \o t) \o <<e>> = s \o (t \o <<e>>)
  OBVIOUS
<1> QED
  BY <1>2, <1>3, Zenon DEF Cat

\* The same for bytes, characters and lines.
LEMMA Appends ==
  /\ \A s, t \in Seq(Bytes), e \in Bytes : Append(Cat(s, t), e) = Cat(s, Append(t, e))
  /\ \A s, t \in Seq(Chars), e \in Chars : Append(Cat(s, t), e) = Cat(s, Append(t, e))
  /\ \A s, t \in Seq(Seq(Chars)), e \in Seq(Chars) :
       Append(Cat(s, t), e) = Cat(s, Append(t, e))
<1>1. \A s, t \in Seq(Bytes), e \in Bytes : Append(Cat(s, t), e) = Cat(s, Append(t, e))
  BY CatAppend
<1>2. \A s, t \in Seq(Chars), e \in Chars : Append(Cat(s, t), e) = Cat(s, Append(t, e))
  BY CatAppend
<1>3. \A s, t \in Seq(Seq(Chars)), e \in Seq(Chars) :
        Append(Cat(s, t), e) = Cat(s, Append(t, e))
  BY CatAppend
<1> QED
  BY <1>1, <1>2, <1>3

\* The characters of a line are put behind those that were there.
LEMMA ParseChars ==
  ASSUME NEW s \in Seq(Bytes), NEW l \in Seq(Chars)
  PROVE  Parse(Cat(s, l)) = [done |-> Parse(s).done, line |-> Cat(Parse(s).line, l)]
<1> DEFINE Holds(t) ==
      Parse(Cat(s, t)) = [done |-> Parse(s).done, line |-> Cat(Parse(s).line, t)]
<1> DEFINE T == {t \in Seq(Chars) : Holds(t)}
<1>0. Parse(s) \in Parsed
  BY ParseType
<1>1. << >> \in T
  <2>1. Cat(s, << >>) = s /\ << >> \in Seq(Chars)
    BY Empty
  <2>2. Cat(Parse(s).line, << >>) = Parse(s).line
    BY DEF Cat
  <2>3. Parse(s) = [done |-> Parse(s).done, line |-> Parse(s).line]
    BY <1>0 DEF Parsed
  <2> QED
    BY <2>1, <2>2, <2>3, Zenon
<1>2. ASSUME NEW t \in Seq(Chars), NEW b \in Chars, t \in T PROVE Append(t, b) \in T
  <2>1. t \in Seq(Bytes) /\ b \in Bytes /\ Append(t, b) \in Seq(Chars)
    BY Alphabet
  <2>2. Cat(s, t) \in Seq(Bytes)
    BY <2>1, Closed
  <2>3. Append(Cat(s, t), b) = Cat(s, Append(t, b))
    BY <2>1, Appends, Zenon
  <2>4. Append(Cat(Parse(s).line, t), b) = Cat(Parse(s).line, Append(t, b))
    <3>1. Parse(s).line \in Seq(Chars)
      BY <1>0 DEF Parsed
    <3> QED
      BY <3>1, Appends, Zenon
  <2>5. Parse(Cat(s, Append(t, b))) = AddByte(Parse(Cat(s, t)), b)
    BY <2>1, <2>2, <2>3, ParseSteps, Zenon
  <2>6. AddByte(Parse(Cat(s, t)), b)
          = [done |-> Parse(Cat(s, t)).done, line |-> Append(Parse(Cat(s, t)).line, b)]
    <3>1. Parse(Cat(s, t)) \in Parsed
      BY <2>2, ParseType
    <3> QED
      BY <3>1, AddByteIs
  <2>7. /\ Parse(Cat(s, t)).done = Parse(s).done
        /\ Parse(Cat(s, t)).line = Cat(Parse(s).line, t)
    BY <1>2
  <2> QED
    BY <2>1, <2>4, <2>5, <2>6, <2>7, Zenon
<1>3. Seq(Chars) \subseteq T
  <2> HIDE DEF T
  <2> QED
    BY <1>1, <1>2, SeqSets
<1> QED
  BY <1>3

\* A line and its carriage return are one line more.
LEMMA ParseLine ==
  ASSUME NEW s \in Seq(Bytes), NEW l \in Seq(Chars)
  PROVE  Parse(Cat(s, Append(l, CR)))
           = [done |-> Append(Parse(s).done, Cat(Parse(s).line, l)), line |-> << >>]
<1>1. l \in Seq(Bytes) /\ CR \in Bytes
  BY Alphabet
<1>2. Cat(s, l) \in Seq(Bytes)
  BY <1>1, Closed
<1>3. Append(Cat(s, l), CR) = Cat(s, Append(l, CR))
  BY <1>1, Appends, Zenon
<1>4. Parse(Cat(s, Append(l, CR))) = AddByte(Parse(Cat(s, l)), CR)
  BY <1>1, <1>2, <1>3, ParseSteps, Zenon
<1>5. AddByte(Parse(Cat(s, l)), CR)
        = [done |-> Append(Parse(Cat(s, l)).done, Parse(Cat(s, l)).line), line |-> << >>]
  <2>1. Parse(Cat(s, l)) \in Parsed
    BY <1>2, ParseType
  <2> QED
    BY <2>1, AddByteIs
<1>6. /\ Parse(Cat(s, l)).done = Parse(s).done
      /\ Parse(Cat(s, l)).line = Cat(Parse(s).line, l)
  BY ParseChars
<1> QED
  BY <1>4, <1>5, <1>6, Zenon

\* The first line of several, and what is parsed of the bytes behind it.
Behind(l, p) == [done |-> Cat(<<l>>, p.done), line |-> p.line]

\* A byte more is a byte more behind that line.
LEMMA BehindAdds ==
  ASSUME NEW l \in Seq(Chars), NEW p \in Parsed, NEW b \in Bytes
  PROVE  AddByte(Behind(l, p), b) = Behind(l, AddByte(p, b))
<1>1. p.done \in Seq(Seq(Chars)) /\ p.line \in Seq(Chars) /\ <<l>> \in Seq(Seq(Chars))
  BY DEF Parsed
<1>2. Cat(<<l>>, p.done) \in Seq(Seq(Chars))
  BY <1>1 DEF Cat
<1> DEFINE q == Behind(l, p)
<1>3. q \in Parsed /\ q.done = Cat(<<l>>, p.done) /\ q.line = p.line
  BY <1>2 DEF Behind, Parsed
<1> HIDE DEF q
<1>4. CASE b = CR
  <2>1. Append(Cat(<<l>>, p.done), p.line) = Cat(<<l>>, Append(p.done, p.line))
    BY <1>1, Appends, Zenon
  <2>2. AddByte(q, b) = [done |-> Append(q.done, q.line), line |-> << >>]
    BY <1>3, <1>4, AddByteIs
  <2>3. AddByte(p, b) = [done |-> Append(p.done, p.line), line |-> << >>]
    BY <1>4, AddByteIs
  <2>4. Behind(l, AddByte(p, b))
          = [done |-> Cat(<<l>>, Append(p.done, p.line)), line |-> << >>]
    BY <2>3 DEF Behind
  <2> QED
    BY <1>3, <2>1, <2>2, <2>4, Zenon DEF q
<1>5. CASE b = NUL
  BY <1>3, <1>5, AddByteIs DEF q
<1>6. CASE b \in Chars
  <2>1. AddByte(q, b) = [done |-> q.done, line |-> Append(q.line, b)]
    BY <1>3, <1>6, AddByteIs
  <2>2. AddByte(p, b) = [done |-> p.done, line |-> Append(p.line, b)]
    BY <1>6, AddByteIs
  <2>3. Behind(l, AddByte(p, b))
          = [done |-> Cat(<<l>>, p.done), line |-> Append(p.line, b)]
    BY <2>2 DEF Behind
  <2> QED
    BY <1>3, <2>1, <2>3, Zenon DEF q
<1> QED
  BY <1>4, <1>5, <1>6 DEF Bytes

\* So a line and its carriage return are parsed as the first of all.
LEMMA FirstLine ==
  ASSUME NEW l \in Seq(Chars), NEW r \in Seq(Bytes)
  PROVE  Parse(Cat(Append(l, CR), r)) = Behind(l, Parse(r))
<1> DEFINE h == Append(l, CR)
<1> DEFINE T == {s \in Seq(Bytes) : Parse(Cat(h, s)) = Behind(l, Parse(s))}
<1>0. h \in Seq(Bytes)
  BY Alphabet
<1>1. << >> \in T
  <2>1. Cat(h, << >>) = h /\ << >> \in Seq(Bytes)
    BY <1>0, Empty
  <2>2. Cat(<< >>, h) = h /\ Cat(<< >>, l) = l
    BY DEF Cat
  <2>3. Parse(<< >>).done = << >> /\ Parse(<< >>).line = << >>
    BY ParseSteps DEF NoBytes
  <2>4. Parse(Cat(<< >>, h))
          = [done |-> Append(Parse(<< >>).done, Cat(Parse(<< >>).line, l)), line |-> << >>]
    BY <2>1, ParseLine
  <2>5. Append(<< >>, l) = <<l>>
    OBVIOUS
  <2>6. Cat(<<l>>, << >>) = <<l>>
    <3>1. \A s \in Seq(Seq(Chars)) : s \o << >> = s
      OBVIOUS
    <3>2. <<l>> \in Seq(Seq(Chars))
      OBVIOUS
    <3> QED
      BY <3>1, <3>2, Zenon DEF Cat
  <2>7. Parse(h) = [done |-> <<l>>, line |-> << >>]
    <3> HIDE DEF h
    <3> QED
      BY <2>2, <2>3, <2>4, <2>5, Zenon
  <2>8. Behind(l, Parse(<< >>)) = [done |-> <<l>>, line |-> << >>]
    BY <2>3, <2>6, Zenon DEF Behind
  <2> HIDE DEF h
  <2> QED
    BY <2>1, <2>7, <2>8, Zenon
<1>2. ASSUME NEW s \in Seq(Bytes), NEW b \in Bytes, s \in T PROVE Append(s, b) \in T
  <2> HIDE DEF h
  <2>1. Append(s, b) \in Seq(Bytes) /\ Cat(h, s) \in Seq(Bytes)
    BY <1>0, Closed
  <2>2. Append(Cat(h, s), b) = Cat(h, Append(s, b))
    BY <1>0, Appends, Zenon
  <2>3. Parse(Cat(h, Append(s, b))) = AddByte(Parse(Cat(h, s)), b)
    BY <2>1, <2>2, ParseSteps, Zenon
  <2>4. Parse(Append(s, b)) = AddByte(Parse(s), b) /\ Parse(s) \in Parsed
    BY ParseSteps, ParseType
  <2>5. AddByte(Behind(l, Parse(s)), b) = Behind(l, AddByte(Parse(s), b))
    BY <2>4, BehindAdds
  <2>6. Parse(Cat(h, s)) = Behind(l, Parse(s))
    BY <1>2
  <2> QED
    BY <2>1, <2>3, <2>4, <2>5, <2>6, Zenon
<1>3. Seq(Bytes) \subseteq T
  <2> HIDE DEF T
  <2> QED
    BY <1>1, <1>2, SeqSets
<1> QED
  BY <1>3

\* The first element stays the first when one is appended.
LEMMA FirstOfAppend ==
  ASSUME NEW S, NEW s \in Seq(S), NEW e \in S
  PROVE  Append(s, e) # << >> /\ Append(s, e)[1] = IF s = << >> THEN e ELSE s[1]
<1>0. Append(s, e) \in Seq(S)
  BY AppendProperties
<1> PICK t \in Seq(S) : t = Append(s, e)
  BY <1>0, Zenon
<1>1. Len(t) = Len(s) + 1 /\ t[Len(s) + 1] = e
  OBVIOUS
<1>2. \A i \in 1..Len(s) : t[i] = s[i]
  OBVIOUS
<1>3. t # << >>
  BY <1>1
<1>4. CASE s = << >>
  <2>1. Len(s) = 0
    BY <1>4
  <2>2. t[0 + 1] = e /\ 0 + 1 = 1
    BY <1>1, <2>1
  <2> QED
    BY <1>3, <1>4, <2>2
<1>5. CASE s # << >>
  <2>1. 1 \in 1..Len(s)
    BY <1>5
  <2> QED
    BY <1>2, <1>3, <1>5, <2>1
<1> QED
  BY <1>4, <1>5

\* Of the lines done, one more changes the first only if it is the first.
LEMMA FirstDone ==
  \A d \in Seq(Seq(Chars)), k \in Seq(Chars) :
    Append(d, k) # << >> /\ Append(d, k)[1] = IF d = << >> THEN k ELSE d[1]
BY FirstOfAppend

\* However the bytes go on, the line that was begun is never shorter.
Reaches(n, p) ==
  /\ p.done = << >> => Len(p.line) >= n
  /\ p.done # << >> => Len(p.done[1]) >= n

\* What follows the characters l leaves a line at least as long as l.
LEMMA NeverShorter ==
  ASSUME NEW l \in Seq(Chars), NEW r \in Seq(Bytes)
  PROVE  Reaches(Len(l), Parse(Cat(l, r)))
<1> PICK n \in Nat : n = Len(l)
  OBVIOUS
<1> DEFINE T == {s \in Seq(Bytes) : Reaches(n, Parse(Cat(l, s)))}
<1>0. l \in Seq(Bytes)
  BY Alphabet
<1>1. << >> \in T
  <2>1. Cat(l, << >>) = l /\ << >> \in Seq(Bytes)
    BY <1>0, Empty
  <2>2. Cat(<< >>, l) = l
    BY DEF Cat
  <2>3. Parse(<< >>).done = << >> /\ Parse(<< >>).line = << >>
    BY ParseSteps DEF NoBytes
  <2>4. Parse(Cat(<< >>, l))
          = [done |-> Parse(<< >>).done, line |-> Cat(Parse(<< >>).line, l)]
    BY <2>1, ParseChars
  <2>5. Parse(Cat(l, << >>)) = [done |-> << >>, line |-> l]
    BY <2>1, <2>2, <2>3, <2>4, Zenon
  <2> QED
    BY <2>5 DEF Reaches
<1>2. ASSUME NEW s \in Seq(Bytes), NEW b \in Bytes, s \in T PROVE Append(s, b) \in T
  <2> PICK p \in Parsed : p = Parse(Cat(l, s))
    BY <1>0, Closed, ParseType
  <2>1. Append(s, b) \in Seq(Bytes) /\ Cat(l, s) \in Seq(Bytes)
    BY <1>0, Closed
  <2>2. Append(Cat(l, s), b) = Cat(l, Append(s, b))
    BY <1>0, Appends, Zenon
  <2>3. Parse(Cat(l, Append(s, b))) = AddByte(p, b)
    BY <2>1, <2>2, ParseSteps, Zenon
  <2>4. Reaches(n, p)
    BY <1>2
  <2>5. p.done \in Seq(Seq(Chars)) /\ p.line \in Seq(Chars)
    BY DEF Parsed
  <2>6. Reaches(n, AddByte(p, b))
    <3>1. CASE b = CR
      <4> PICK d \in Seq(Seq(Chars)), k \in Seq(Chars) : d = p.done /\ k = p.line
        BY <2>5
      <4> PICK e : e = Append(d, k)
        OBVIOUS
      <4>2. AddByte(p, b).done = e
        <5>1. AddByte(p, b) = [done |-> Append(p.done, p.line), line |-> << >>]
          BY <3>1, AddByteIs
        <5>2. \A x, y : [done |-> x, line |-> y].done = x
          OBVIOUS
        <5>3. AddByte(p, b).done = Append(p.done, p.line)
          BY <5>1, <5>2, Zenon
        <5> QED
          BY <5>3
      <4> QED
        BY <2>4, <4>2 DEF Reaches
    <3>2. CASE b = NUL
      BY <2>4, <3>2, AddByteIs
    <3>3. CASE b \in Chars
      <4>2. AddByte(p, b).done = p.done /\ AddByte(p, b).line = Append(p.line, b)
        BY <3>3, AddByteIs
      <4> QED
        BY <2>4, <4>2 DEF Reaches
    <3> QED
      BY <3>1, <3>2, <3>3 DEF Bytes
  <2> QED
    BY <2>3, <2>6
<1>3. Seq(Bytes) \subseteq T
  <2> HIDE DEF T
  <2> QED
    BY <1>1, <1>2, SeqSets
<1> QED
  BY <1>3

-----------------------------------------------------------------------------
(***************************************************************************)
(* The thread implements LineStream as long as no byte 0 reaches it and    *)
(* every line fits: then every line that is not published is on its way    *)
(* whole, be it cut in two by the buffers.                                 *)
(***************************************************************************)
Unread == Cat(Cat(serial_input, chunk), wire)

LinesFit == \A l \in Lines : Len(l) < InputLen - 1

Clean == Chars \cup {CR}

StreamInv ==
  /\ chunk \in Seq(Clean) /\ wire \in Seq(Clean)
  /\ Parse(Unread).line = << >>
  /\ Parse(Unread).done \in Seq(Lines)

\* At first no line is pending and none published.
LEMMA InitStream == Init => StreamInv /\ Stream!Init
<1> SUFFICES ASSUME Init PROVE StreamInv /\ Stream!Init
  OBVIOUS
<1>1. /\ serial_input = << >> /\ chunk = << >> /\ wire = << >> /\ serialread = << >>
  BY DEF Init
<1>2. << >> \o << >> = << >> /\ << >> \in Seq(Clean) /\ << >> \in Seq(Lines)
  OBVIOUS
<1>3. /\ Unread = << >> /\ serial_input \o chunk \o wire = << >>
      /\ chunk \in Seq(Clean) /\ wire \in Seq(Clean)
  BY <1>1, <1>2, Zenon DEF Unread, Cat
<1>4. Parse(<< >>).done = << >> /\ Parse(<< >>).line = << >>
  BY ParseSteps DEF NoBytes
<1>5. LinesIn(serial_input \o chunk \o wire) = << >>
  BY <1>3, <1>4, Zenon DEF LinesIn
<1>6. StreamInv
  BY <1>2, <1>3, <1>4, Zenon DEF StreamInv
<1> QED
  BY <1>1, <1>5, <1>6 DEF Stream!Init

\* The first byte of the chunk, between the line so far and the rest.
LEMMA NextByte ==
  ASSUME TypeOK, chunk # << >>
  PROVE  /\ Head(chunk) \in Bytes /\ Cat(Tail(chunk), wire) \in Seq(Bytes)
         /\ Unread = Cat(Append(serial_input, Head(chunk)), Cat(Tail(chunk), wire))
<1> DEFINE first == <<Head(chunk)>>
<1> DEFINE rest == Tail(chunk)
<1>0. /\ serial_input \in Seq(Bytes) /\ chunk \in Seq(Bytes) /\ wire \in Seq(Bytes)
  BY Alphabet DEF TypeOK
<1>1. /\ first \in Seq(Bytes) /\ rest \in Seq(Bytes) /\ Head(chunk) \in Bytes
      /\ Cat(first, rest) = chunk
  BY <1>0 DEF Cat
<1>2. Append(serial_input, Head(chunk)) = Cat(serial_input, first)
  BY DEF Cat
<1> HIDE DEF first, rest
<1>3. Cat(rest, wire) \in Seq(Bytes) /\ Cat(serial_input, first) \in Seq(Bytes)
  BY <1>0, <1>1, Closed
<1>4. Cat(serial_input, chunk) = Cat(Cat(serial_input, first), rest)
  BY <1>0, <1>1, Assoc
<1>5. Cat(Cat(Cat(serial_input, first), rest), wire)
        = Cat(Cat(serial_input, first), Cat(rest, wire))
  BY <1>0, <1>1, <1>3, Assoc
<1> QED
  BY <1>1, <1>2, <1>3, <1>4, <1>5, Zenon DEF Unread, rest

\* Every step sends, publishes or takes one line, or none: no line is too long
\* and none is cut short.
LEMMA StepStream ==
  ASSUME ~Noise, LinesFit, TypeOK, StreamInv, [Next]_vars
  PROVE  StreamInv' /\ [Stream!Next]_(Stream!vars)
<1> DEFINE pending == LinesIn(serial_input \o chunk \o wire)
<1>a. /\ pending = Parse(Unread).done
      /\ pending' = Parse(Unread').done
  BY DEF LinesIn, Unread, Cat
<1> HIDE DEF pending
<1> SUFFICES /\ StreamInv'
             /\ \/ \E l \in Lines : pending' = Append(pending, l) /\ serialread' = serialread
                \/ /\ pending # << >> /\ serialread' = Append(serialread, Head(pending))
                   /\ pending' = Tail(pending)
                \/ /\ serialread # << >> /\ serialread' = Tail(serialread)
                   /\ pending' = pending
                \/ UNCHANGED <<pending, serialread>>
  BY DEF pending, Stream!Next, Stream!vars, Stream!Send, Stream!Publish, Stream!Take
<1>b. ASSUME Unread' = Unread, chunk' \in Seq(Clean), wire' \in Seq(Clean)
      PROVE  StreamInv' /\ pending' = pending
  BY <1>a, <1>b DEF StreamInv
<1>0. /\ serial_input \in Seq(Bytes) /\ chunk \in Seq(Bytes) /\ wire \in Seq(Bytes)
      /\ serial_input \in Seq(Chars) /\ chunk \in Seq(Clean) /\ wire \in Seq(Clean)
      /\ Parse(Unread).line = << >> /\ Parse(Unread).done \in Seq(Lines)
  BY Alphabet DEF TypeOK, StreamInv
<1>1. CASE PanelSends
  <2> PICK l \in Lines : wire' = wire \o l \o <<CR>>
    BY <1>1 DEF PanelSends
  <2> DEFINE cr == <<CR>>
  <2>1. /\ l \in Seq(Bytes) /\ l \in Seq(Chars) /\ cr \in Seq(Bytes)
        /\ Cat(serial_input, chunk) \in Seq(Bytes) /\ Unread \in Seq(Bytes)
    BY <1>0, Alphabet, Closed DEF Unread
  <2>2. Append(l, CR) = Cat(l, cr)
    BY DEF Cat
  <2>3. /\ wire' = Cat(Cat(wire, l), cr)
        /\ Unread' = Cat(Cat(serial_input, chunk), wire')
    BY <1>1 DEF PanelSends, Cat, Unread
  <2> HIDE DEF cr
  <2>4. wire' = Cat(wire, Cat(l, cr)) /\ Cat(l, cr) \in Seq(Bytes)
    <3>1. Cat(wire, Cat(l, cr)) = Cat(Cat(wire, l), cr)
      <4>1. wire \in Seq(Bytes) /\ l \in Seq(Bytes)
        BY <1>0, <2>1
      <4>2. cr \in Seq(Bytes)
        BY <2>1
      <4> QED
        BY <4>1, <4>2, Assoc, Zenon
    <3> QED
      BY <2>1, <2>3, <3>1, Closed, Zenon
  <2>5. Unread' = Cat(Unread, Append(l, CR))
    <3>1. Cat(Cat(serial_input, chunk), Cat(wire, Cat(l, cr)))
            = Cat(Unread, Cat(l, cr))
      BY <1>0, <2>1, <2>4, Assoc DEF Unread
    <3> QED
      BY <2>2, <2>3, <2>4, <3>1, Zenon
  <2>6. Cat(<< >>, l) = l
    BY DEF Cat
  <2>7. Parse(Unread') = [done |-> Append(Parse(Unread).done, l), line |-> << >>]
    <3>1. Parse(Cat(Unread, Append(l, CR)))
            = [done |-> Append(Parse(Unread).done, Cat(Parse(Unread).line, l)),
               line |-> << >>]
      BY <2>1, ParseLine
    <3> QED
      BY <1>0, <2>5, <2>6, <3>1, Zenon
  <2>8. Parse(Unread').done = Append(Parse(Unread).done, l) /\ Parse(Unread').line = << >>
    BY <2>7
  <2>9. wire' \in Seq(Clean) /\ chunk' \in Seq(Clean)
    <3>1. l \in Seq(Clean) /\ <<CR>> \in Seq(Clean)
      <4> QED
        BY <2>1 DEF Clean
    <3>2. \A r, s \in Seq(Clean) : r \o s \in Seq(Clean)
      OBVIOUS
    <3>3. wire \o l \in Seq(Clean)
      BY <1>0, <3>1, <3>2, Zenon
    <3>4. wire \o l \o <<CR>> \in Seq(Clean)
      BY <3>1, <3>2, <3>3, Zenon
    <3> QED
      BY <1>0, <1>1, <3>4 DEF PanelSends
  <2>10. StreamInv'
    <3> QED
      BY <2>8, <2>9 DEF StreamInv
  <2> QED
    BY <1>1, <1>a, <2>8, <2>10 DEF PanelSends
<1>2. CASE LineNoise
  BY <1>2 DEF LineNoise
<1>3. CASE Read
  <2> PICK n \in 1..BuffLen : /\ n <= Len(wire)
                              /\ chunk' = SubSeq(wire, 1, n)
                              /\ wire' = SubSeq(wire, n + 1, Len(wire))
    BY <1>3 DEF Read
  <2>2. /\ chunk' \in Seq(Bytes) /\ wire' \in Seq(Bytes)
        /\ Cat(chunk', wire') = wire
    BY <1>0 DEF Cat
  <2>3. chunk' \in Seq(Clean) /\ wire' \in Seq(Clean)
    BY <1>0
  <2>4. chunk = << >> /\ UNCHANGED <<serial_input, serialread>>
    BY <1>3 DEF Read, Polling
  <2>5. Unread' = Cat(Cat(serial_input, chunk'), wire')
    BY <2>4 DEF Unread
  <2>6. Cat(serial_input, Cat(chunk', wire')) = Cat(Cat(serial_input, chunk'), wire')
    <3>1. serial_input \in Seq(Bytes) /\ chunk' \in Seq(Bytes) /\ wire' \in Seq(Bytes)
      BY <1>0, <2>2
    <3> QED
      BY <3>1, Assoc, Zenon
  <2>7. Unread = Cat(serial_input, wire)
    BY <1>0, <2>4, Empty DEF Unread
  <2>8. Unread' = Unread
    BY <2>2, <2>5, <2>6, <2>7, Zenon
  <2> QED
    BY <1>b, <2>3, <2>4, <2>8
<1>4. CASE LookAtByte
  <2> DEFINE rest == Cat(Tail(chunk), wire)
  <2>0. chunk # << >>
    BY <1>4 DEF LookAtByte, EndOfLine, Store, TooLong, PartialRead
  <2>1. /\ Head(chunk) \in Bytes /\ rest \in Seq(Bytes)
        /\ Unread = Cat(Append(serial_input, Head(chunk)), rest)
    BY <2>0, NextByte
  <2>2. Head(chunk) \in Clean /\ Tail(chunk) \in Seq(Clean)
    BY <1>0, <2>0
  <2>3. CASE EndOfLine
    <3>1. /\ Head(chunk) = CR /\ serial_input' = << >> /\ chunk' = Tail(chunk)
          /\ wire' = wire /\ serialread' = Append(serialread, serial_input)
      BY <2>3 DEF EndOfLine
    <3>2. Unread' = rest
      <4>2. Cat(<< >>, Tail(chunk)) = Tail(chunk)
        BY DEF Cat
      <4>3. Unread' = Cat(Cat(serial_input', chunk'), wire')
        BY DEF Unread
      <4> QED
        BY <3>1, <4>2, <4>3, Zenon
    <3> HIDE DEF rest
    <3>3. Parse(Unread) = Behind(serial_input, Parse(rest))
      BY <1>0, <2>1, <3>1, FirstLine
    <3>4. Parse(rest) \in Parsed
      BY <2>1, ParseType
    <3> PICK d \in Seq(Seq(Chars)) : d = Parse(rest).done
      BY <3>4 DEF Parsed
    <3>5. /\ Parse(Unread).done = <<serial_input>> \o d
          /\ Parse(Unread).line = Parse(rest).line
      BY <3>3 DEF Behind, Cat
    <3> PICK p \in Seq(Lines) : p = Parse(Unread).done
      BY <1>0
    <3>6. \A l \in Seq(Chars), s \in Seq(Seq(Chars)) :
            LET t == <<l>> \o s IN t # << >> /\ Head(t) = l /\ Tail(t) = s
      OBVIOUS
    <3>7. p # << >> /\ Head(p) = serial_input /\ Tail(p) = d
      BY <1>0, <3>5, <3>6, Zenon
    <3>8. pending = p /\ pending' = d
      BY <1>a, <3>2
    <3>10. StreamInv'
      BY <2>2, <3>1, <3>2, <3>5 DEF StreamInv
    <3> QED
      BY <3>1, <3>7, <3>8, <3>10
  <2>4. CASE Store
    <3>1. /\ serial_input' = Append(serial_input, Head(chunk)) /\ chunk' = Tail(chunk)
          /\ wire' = wire /\ serialread' = serialread
      BY <2>4 DEF Store
    <3>2. /\ Append(serial_input, Head(chunk)) \in Seq(Bytes)
          /\ Tail(chunk) \in Seq(Bytes)
      BY <1>0, <2>0
    <3>3. Unread' = Cat(Cat(Append(serial_input, Head(chunk)), Tail(chunk)), wire)
      BY <3>1 DEF Unread
    <3>4. Unread' = Unread
      <4>1. Cat(Append(serial_input, Head(chunk)), Cat(Tail(chunk), wire))
              = Cat(Cat(Append(serial_input, Head(chunk)), Tail(chunk)), wire)
        <5>1. wire \in Seq(Bytes)
          BY <1>0
        <5> QED
          BY <3>2, <5>1, Assoc, Zenon
      <4> QED
        BY <2>1, <3>3, <4>1, Zenon
    <3> QED
      BY <1>0, <1>b, <2>2, <3>1, <3>4
  <2>5. CASE TooLong
    <3>1. Head(chunk) \in Chars
      BY <2>1, <2>5 DEF TooLong, Bytes
    <3> PICK n \in Nat : n = Len(serial_input)
      BY <1>0
    <3> PICK l \in Seq(Chars) : l = Append(serial_input, Head(chunk)) /\ Len(l) = n + 1
      BY <1>0, <3>1, AppendProperties
    <3>2. Reaches(n + 1, Parse(Unread))
      <4> HIDE DEF rest
      <4> QED
        BY <2>1, NeverShorter
    <3> PICK p \in Seq(Lines) : p = Parse(Unread).done
      BY <1>0
    <3>4. p # << >> /\ Len(p[1]) >= n + 1
      BY <1>0, <3>2 DEF Reaches
    <3>5. p[1] \in Lines
      <4>1. 1 \in 1..Len(p)
        BY <3>4
      <4> QED
        BY <4>1
    <3>6. Len(p[1]) < InputLen - 1 /\ Len(p[1]) \in Nat
      BY <3>5 DEF LinesFit
    <3>7. n + 1 >= InputLen - 1
      BY <2>5 DEF TooLong
    <3> QED
      BY <3>4, <3>6, <3>7, SizesAssumption
  <2>6. CASE PartialRead
    BY <2>2, <2>6, BytesAssumption DEF PartialRead, Clean
  <2> QED
    BY <1>4, <2>3, <2>4, <2>5, <2>6 DEF LookAtByte
<1>5. CASE Exit
  <2>1. UNCHANGED <<serial_input, chunk, wire, serialread>>
    BY <1>5 DEF Exit
  <2> QED
    BY <1>0, <1>b, <2>1 DEF Unread
<1>6. CASE Take
  <2>1. /\ serialread # << >> /\ serialread' = Tail(serialread)
        /\ UNCHANGED <<serial_input, chunk, wire>>
    BY <1>6 DEF Take
  <2> QED
    BY <1>0, <1>b, <2>1 DEF Unread
<1>7. CASE UNCHANGED vars
  <2>1. UNCHANGED <<serial_input, chunk, wire, serialread>>
    BY <1>7 DEF vars
  <2> QED
    BY <1>0, <1>b, <2>1 DEF Unread
<1> QED
  BY <1>1, <1>2, <1>3, <1>4, <1>5, <1>6, <1>7 DEF Next

\* Lines that fit the buffer reach the panel manager whole, each once and in
\* the order they were sent, however read() cuts their bytes, as long as no
\* noise is taken for the end of a chunk.
THEOREM LinesArrive ==
  ASSUME ~Noise, LinesFit
  PROVE  Spec => LinesKept
<1>1. Init => TypeOK /\ StreamInv /\ Stream!Init
  BY InitType, InitStream
<1>2. (TypeOK /\ StreamInv) /\ [Next]_vars
        => (TypeOK /\ StreamInv)' /\ [Stream!Next]_(Stream!vars)
  BY StepType, StepStream
<1> QED
  BY <1>1, <1>2, PTL DEF Spec, LinesKept, Stream!Spec

=============================================================================
