--------------------------- MODULE OptionsProofs ---------------------------
(***************************************************************************)
(* Theorems about Options, for every command line and every file: the      *)
(* types, which area a zone comes to be in, and what becomes of a file.    *)
(***************************************************************************)
EXTENDS Options, FlattenProofs

-----------------------------------------------------------------------------
(***************************************************************************)
(* Sequences.                                                              *)
(***************************************************************************)
\* The third of three sequences is made of the first two.
LEMMA Joined ==
  ASSUME NEW S, NEW s \in Seq(S), NEW t \in Seq(S), NEW r \in Seq(S),
         Len(r) = Len(s) + Len(t),
         \A i \in 1..Len(s) : r[i] = s[i],
         \A i \in 1..Len(t) : r[Len(s) + i] = t[i]
  PROVE  s \o t = r
<1>1. Len(s) \in Nat /\ Len(t) \in Nat
  OBVIOUS
<1>2. /\ s \o t \in Seq(S) /\ Len(s \o t) = Len(s) + Len(t)
      /\ \A i \in 1..Len(s) + Len(t) :
           (s \o t)[i] = IF i <= Len(s) THEN s[i] ELSE t[i - Len(s)]
  OBVIOUS
<1> PICK q \in Seq(S) : q = s \o t
  BY <1>2
<1>3. ASSUME NEW i \in 1..Len(s) + Len(t) PROVE q[i] = r[i]
  <2>1. CASE i <= Len(s)
    <3>1. i \in 1..Len(s)
      BY <2>1
    <3> QED
      BY <1>2, <2>1, <3>1
  <2>2. CASE ~(i <= Len(s))
    <3>1. i - Len(s) \in 1..Len(t) /\ Len(s) + (i - Len(s)) = i
      BY <1>1, <2>2
    <3> QED
      BY <1>2, <2>2, <3>1
  <2> QED
    BY <2>1, <2>2
<1>4. Len(q) = Len(r)
  BY <1>2
<1> QED
  BY <1>1, <1>3, <1>4

\* Short sequences, one behind the other.
LEMMA TwoAndOne ==
  ASSUME NEW S, NEW u \in S, NEW v \in S, NEW w \in S
  PROVE  <<u, v>> \o <<w>> = <<u, v, w>>
<1>0. \A a, b, c \in Seq(S) :
        /\ Len(c) = Len(a) + Len(b)
        /\ \A i \in 1..Len(a) : c[i] = a[i]
        /\ \A i \in 1..Len(b) : c[Len(a) + i] = b[i]
        => a \o b = c
  BY Joined
<1>1. <<u, v>> \in Seq(S) /\ <<w>> \in Seq(S) /\ <<u, v, w>> \in Seq(S)
  OBVIOUS
<1>7. PICK a \in Seq(S), b \in Seq(S), c \in Seq(S) :
      a = <<u, v>> /\ b = <<w>> /\ c = <<u, v, w>>
  BY <1>1, Zenon
<1>2. Len(a) = 2 /\ a[1] = u /\ a[2] = v
  BY <1>7
<1>3. Len(b) = 1 /\ b[1] = w
  BY <1>7
<1>4. Len(c) = 3 /\ c[1] = u /\ c[2] = v /\ c[3] = w
  BY <1>7
<1>5. /\ Len(c) = Len(a) + Len(b)
      /\ \A i \in 1..Len(a) : c[i] = a[i]
      /\ \A i \in 1..Len(b) : c[Len(a) + i] = b[i]
  BY <1>2, <1>3, <1>4
<1>6. a \o b = c
  BY <1>0, <1>5, Zenon
<1> QED
  BY <1>6, <1>7, Zenon

\* Two and two, ...
LEMMA TwoAndTwo ==
  ASSUME NEW S, NEW u \in S, NEW v \in S, NEW w \in S, NEW x \in S
  PROVE  <<u, v>> \o <<w, x>> = <<u, v, w, x>>
<1>0. \A a, b, c \in Seq(S) :
        /\ Len(c) = Len(a) + Len(b)
        /\ \A i \in 1..Len(a) : c[i] = a[i]
        /\ \A i \in 1..Len(b) : c[Len(a) + i] = b[i]
        => a \o b = c
  BY Joined
<1>1. <<u, v>> \in Seq(S) /\ <<w, x>> \in Seq(S) /\ <<u, v, w, x>> \in Seq(S)
  OBVIOUS
<1>7. PICK a \in Seq(S), b \in Seq(S), c \in Seq(S) :
      a = <<u, v>> /\ b = <<w, x>> /\ c = <<u, v, w, x>>
  BY <1>1, Zenon
<1>2. Len(a) = 2 /\ a[1] = u /\ a[2] = v
  BY <1>7
<1>3. Len(b) = 2 /\ b[1] = w /\ b[2] = x
  BY <1>7
<1>4. Len(c) = 4 /\ c[1] = u /\ c[2] = v /\ c[3] = w /\ c[4] = x
  BY <1>7
<1>5. /\ Len(c) = Len(a) + Len(b)
      /\ \A i \in 1..Len(a) : c[i] = a[i]
      /\ \A i \in 1..Len(b) : c[Len(a) + i] = b[i]
  BY <1>2, <1>3, <1>4
<1>6. a \o b = c
  BY <1>0, <1>5, Zenon
<1> QED
  BY <1>6, <1>7, Zenon

\* ... and three and one.
LEMMA ThreeAndOne ==
  ASSUME NEW S, NEW u \in S, NEW v \in S, NEW w \in S, NEW x \in S
  PROVE  <<u, v, w>> \o <<x>> = <<u, v, w, x>>
<1>0. \A a, b, c \in Seq(S) :
        /\ Len(c) = Len(a) + Len(b)
        /\ \A i \in 1..Len(a) : c[i] = a[i]
        /\ \A i \in 1..Len(b) : c[Len(a) + i] = b[i]
        => a \o b = c
  BY Joined
<1>1. <<u, v, w>> \in Seq(S) /\ <<x>> \in Seq(S) /\ <<u, v, w, x>> \in Seq(S)
  OBVIOUS
<1>7. PICK a \in Seq(S), b \in Seq(S), c \in Seq(S) :
      a = <<u, v, w>> /\ b = <<x>> /\ c = <<u, v, w, x>>
  BY <1>1, Zenon
<1>2. Len(a) = 3 /\ a[1] = u /\ a[2] = v /\ a[3] = w
  BY <1>7
<1>3. Len(b) = 1 /\ b[1] = x
  BY <1>7
<1>4. Len(c) = 4 /\ c[1] = u /\ c[2] = v /\ c[3] = w /\ c[4] = x
  BY <1>7
<1>5. /\ Len(c) = Len(a) + Len(b)
      /\ \A i \in 1..Len(a) : c[i] = a[i]
      /\ \A i \in 1..Len(b) : c[Len(a) + i] = b[i]
  BY <1>2, <1>3, <1>4
<1>6. a \o b = c
  BY <1>0, <1>5, Zenon
<1> QED
  BY <1>6, <1>7, Zenon

\* Three sequences can be joined from either end.
LEMMA ThreeParts ==
  ASSUME NEW p \in Seq(Words), NEW q \in Seq(Words), NEW r \in Seq(Words)
  PROVE  (p \o q) \o r = p \o (q \o r) /\ q \o r \in Seq(Words)
OBVIOUS

\* Four sequences can be joined from either end.
LEMMA FourParts ==
  \A p, q, r, w \in Seq(Words) : ((p \o q) \o r) \o w = p \o (q \o (r \o w))
<1> DEFINE C(x, y) == x \o y
<1>1. \A a, b, c \in Seq(Words) : C(C(a, b), c) = C(a, C(b, c))
  OBVIOUS
<1>2. \A a, b \in Seq(Words) : C(a, b) \in Seq(Words)
  OBVIOUS
<1>3. \A p, q, r, w \in Seq(Words) : C(C(C(p, q), r), w) = C(p, C(q, C(r, w)))
  <2> HIDE DEF C
  <2> QED
    BY <1>1, <1>2
<1> QED
  BY <1>3, Zenon

-----------------------------------------------------------------------------
(***************************************************************************)
(* Command lines.                                                          *)
(***************************************************************************)
\* The words of an area are two, or one if it has no zones.
LEMMA AreaWordsAre ==
  ASSUME NEW a \in FileAreas
  PROVE  /\ a.zones = << >> =>
              AreaWords(a) = <<Switch("a"), Value(<<a.num>>), Switch("z")>>
         /\ a.zones # << >> =>
              AreaWords(a) = <<Switch("a"), Value(<<a.num>>), Switch("z"), Value(a.zones)>>
         /\ AreaWords(a) \in Seq(Words)
<1>1. /\ Switch("a") \in Words /\ Switch("z") \in Words
      /\ Value(<<a.num>>) \in Words /\ Value(a.zones) \in Words
  BY DEF Switch, Value, Words, WithValue, FileAreas
<1>2. CASE a.zones = << >>
  <2>1. AreaWords(a) = <<Switch("a"), Value(<<a.num>>), Switch("z")>> \o << >>
    BY <1>2 DEF AreaWords
  <2>2. \A s \in Seq(Words) : s \o << >> = s
    OBVIOUS
  <2>3. <<Switch("a"), Value(<<a.num>>), Switch("z")>> \in Seq(Words)
    BY <1>1
  <2>4. AreaWords(a) = <<Switch("a"), Value(<<a.num>>), Switch("z")>>
    BY <2>1, <2>2, <2>3, Zenon
  <2> QED
    BY <1>2, <2>3, <2>4, Zenon
<1>3. CASE a.zones # << >>
  <2>1. AreaWords(a) = <<Switch("a"), Value(<<a.num>>), Switch("z")>> \o <<Value(a.zones)>>
    BY <1>3 DEF AreaWords
  <2>2. <<Switch("a"), Value(<<a.num>>), Switch("z")>> \o <<Value(a.zones)>>
          = <<Switch("a"), Value(<<a.num>>), Switch("z"), Value(a.zones)>>
    BY <1>1, ThreeAndOne
  <2>3. <<Switch("a"), Value(<<a.num>>), Switch("z"), Value(a.zones)>> \in Seq(Words)
    BY <1>1
  <2> QED
    BY <1>3, <2>1, <2>2, <2>3, Zenon
<1> QED
  BY <1>2, <1>3

\* What a file says of its areas, word by word.
WordsOf == [a \in FileAreas |-> AreaWords(a)]

\* They are words.
LEMMA WordsOfMaps == Maps(WordsOf, FileAreas, Words)
<1>1. \A a \in FileAreas : AreaWords(a) \in Seq(Words)
  BY AreaWordsAre
<1> QED
  BY <1>1 DEF WordsOf, Maps

Pair(c, ns) == <<Switch(c), Value(ns)>>

\* What a file says of a setting: nothing, a flag, or a switch and its value.
LEMMA SettingWordsAre ==
  ASSUME NEW c \in Configs, NEW s \in Settings
  PROVE  /\ s \notin c.given => SettingWords(c, s) = << >>
         /\ s \in c.given /\ s \in Flags => SettingWords(c, s) = <<Switch(s)>>
         /\ s \in c.given /\ s \notin Flags =>
              \E n \in Int : /\ SettingWords(c, s) = Pair(s, <<n>>)
                            /\ (s = "p" => n = c.port)
                            /\ (s = "S" => n = c.status_period)
         /\ SettingWords(c, s) \in Seq(Words)
<1>1. c.port \in Int /\ c.status_period \in Int
  BY ConfigsAssumption DEF Files
<1>2. Switch(s) \in Words /\ \A n \in Int : Value(<<n>>) \in Words
  BY DEF Switch, Value, Words, Settings, WithValue, Flags
<1>3. PICK n \in Int :
        n = CASE s = "p" -> c.port [] s = "S" -> c.status_period [] OTHER -> 0
  BY <1>1
<1>4. (s = "p" => n = c.port) /\ (s = "S" => n = c.status_period)
  BY <1>3
<1>5. /\ <<Switch(s)>> \in Seq(Words) /\ Pair(s, <<n>>) \in Seq(Words)
      /\ << >> \in Seq(Words)
  <2>1. /\ \A u, v \in Words : <<u>> \in Seq(Words) /\ <<u, v>> \in Seq(Words)
        /\ << >> \in Seq(Words)
    OBVIOUS
  <2> QED
    BY <1>2, <2>1, Zenon DEF Pair
<1>6. s \notin c.given => SettingWords(c, s) = << >>
  BY Zenon DEF SettingWords
<1>7. s \in c.given /\ s \in Flags => SettingWords(c, s) = <<Switch(s)>>
  BY Zenon DEF SettingWords
<1>8. s \in c.given /\ s \notin Flags => SettingWords(c, s) = Pair(s, <<n>>)
  BY <1>3, Zenon DEF SettingWords, Pair
<1> QED
  BY <1>4, <1>5, <1>6, <1>7, <1>8

SettingOf(c) == [s \in Settings |-> SettingWords(c, s)]

\* The settings in a list, as words: the empty list gives none, and one more
\* setting is put behind.
LEMMA SettingsWordsAre ==
  ASSUME NEW c \in Configs
  PROVE  /\ \A q \in Seq(Settings) : SettingsWords(c, q) \in Seq(Words)
         /\ SettingsWords(c, << >>) = << >>
         /\ \A q \in Seq(Settings), s \in Settings :
              SettingsWords(c, Append(q, s)) = SettingsWords(c, q) \o SettingWords(c, s)
<1>1. Maps(SettingOf(c), Settings, Words)
  <2>1. \A s \in Settings : SettingWords(c, s) \in Seq(Words)
    BY SettingWordsAre
  <2> QED
    BY <2>1 DEF SettingOf, Maps
<1>2. ASSUME NEW q \in Seq(Settings) PROVE SettingsWords(c, q) = FlatMap(SettingOf(c), q)
  <2>1. \A i \in 1..Len(q) : q[i] \in Settings
    OBVIOUS
  <2>2. \A i \in 1..Len(q) : SettingWords(c, q[i]) = SettingOf(c)[q[i]]
    BY <2>1, Zenon DEF SettingOf
  <2>3. [i \in 1..Len(q) |-> SettingWords(c, q[i])] = Images(SettingOf(c), q)
    BY <2>2, Zenon DEF Images
  <2> QED
    BY <2>3, Zenon DEF SettingsWords, FlatMap
<1>3. \A q \in Seq(Settings) : FlatMap(SettingOf(c), q) \in Seq(Words)
  BY <1>1, FlatMapType
<1>4. << >> \in Seq(Settings) /\ FlatMap(SettingOf(c), << >>) = << >>
  BY <1>1, FlatMapEmpty
<1>5. ASSUME NEW q \in Seq(Settings), NEW s \in Settings
      PROVE  SettingsWords(c, Append(q, s)) = SettingsWords(c, q) \o SettingWords(c, s)
  <2>1. FlatMap(SettingOf(c), Append(q, s)) = FlatMap(SettingOf(c), q) \o SettingOf(c)[s]
    BY <1>1, FlatMapAppend
  <2>2. Append(q, s) \in Seq(Settings)
    OBVIOUS
  <2>3. SettingOf(c)[s] = SettingWords(c, s)
    BY DEF SettingOf
  <2> QED
    BY <1>2, <2>1, <2>2, <2>3, Zenon
<1>6. \A q \in Seq(Settings) : SettingsWords(c, q) \in Seq(Words)
  BY <1>2, <1>3, Zenon
<1>7. SettingsWords(c, << >>) = << >>
  BY <1>2, <1>4, Zenon
<1> QED
  BY <1>5, <1>6, <1>7

\* The settings of a list that the file gives.
GivenIn(c, q) == {s \in c.given : \E i \in 1..Len(q) : q[i] = s}

\* The words of a list begin with those of the first setting that is given.
LEMMA FirstGiven ==
  ASSUME NEW c \in Configs, NEW q \in Seq(Settings)
  PROVE  /\ GivenIn(c, q) = {} => SettingsWords(c, q) = << >>
         /\ GivenIn(c, q) # {} =>
              \E s \in GivenIn(c, q), t \in Seq(Settings) :
                /\ SettingsWords(c, q) = SettingWords(c, s) \o SettingsWords(c, t)
                /\ GivenIn(c, q) = {s} \cup GivenIn(c, t)
<1> DEFINE Begins(p) ==
      IF GivenIn(c, p) = {} THEN SettingsWords(c, p) = << >>
      ELSE \E s \in GivenIn(c, p), t \in Seq(Settings) :
             /\ SettingsWords(c, p) = SettingWords(c, s) \o SettingsWords(c, t)
             /\ GivenIn(c, p) = {s} \cup GivenIn(c, t)
<1> DEFINE T == {p \in Seq(Settings) : Begins(p)}
<1>1. << >> \in T
  <2>1. GivenIn(c, << >>) = {} /\ << >> \in Seq(Settings)
    BY DEF GivenIn
  <2> QED
    BY <2>1, SettingsWordsAre
<1>2. ASSUME NEW p \in Seq(Settings), NEW e \in Settings, p \in T
      PROVE  Append(p, e) \in T
  <2>a. \A r \in Seq(Settings) :
          GivenIn(c, Append(r, e)) = GivenIn(c, r) \cup (c.given \cap {e})
    <3> SUFFICES ASSUME NEW r \in Seq(Settings), NEW x
                 PROVE  x \in GivenIn(c, Append(r, e))
                          <=> x \in GivenIn(c, r) \cup (c.given \cap {e})
      OBVIOUS
    <3> PICK n \in Nat : n = Len(r)
      OBVIOUS
    <3>1. Len(Append(r, e)) = n + 1 /\ Append(r, e)[n + 1] = e
          /\ \A i \in 1..n : Append(r, e)[i] = r[i]
      OBVIOUS
    <3>2. (\E i \in 1..n + 1 : Append(r, e)[i] = x) <=> (\E i \in 1..n : r[i] = x) \/ x = e
      BY <3>1
    <3> QED
      BY <3>1, <3>2 DEF GivenIn
  <2>b. SettingsWords(c, Append(p, e)) = SettingsWords(c, p) \o SettingWords(c, e)
    BY SettingsWordsAre
  <2>c. \A u \in Seq(Words) : << >> \o u = u /\ u \o << >> = u
    OBVIOUS
  <2>d. /\ SettingWords(c, e) \in Seq(Words)
        /\ e \notin c.given => SettingWords(c, e) = << >>
    BY SettingWordsAre
  <2>e. << >> \in Seq(Settings) /\ GivenIn(c, << >>) = {}
        /\ SettingsWords(c, << >>) = << >> /\ Append(p, e) \in Seq(Settings)
        /\ << >> \in Seq(Words)
    BY SettingsWordsAre DEF GivenIn
  <2>1. CASE GivenIn(c, p) = {} /\ e \notin c.given
    <3>1. GivenIn(c, Append(p, e)) = {}
      BY <2>1, <2>a
    <3>2. SettingsWords(c, Append(p, e)) = << >>
      BY <1>2, <2>1, <2>b, <2>c, <2>d, <2>e, Zenon
    <3> QED
      BY <2>e, <3>1, <3>2
  <2>2. CASE GivenIn(c, p) = {} /\ e \in c.given
    <3>1. GivenIn(c, Append(p, e)) = {e}
      BY <2>2, <2>a
    <3>2. SettingsWords(c, p) = << >>
      BY <1>2, <2>2
    <3>3. SettingsWords(c, Append(p, e)) = SettingWords(c, e) \o SettingsWords(c, << >>)
      BY <2>b, <2>c, <2>d, <2>e, <3>2, Zenon
    <3> QED
      BY <2>e, <3>1, <3>3
  <2>3. CASE GivenIn(c, p) # {}
    <3>1. PICK s \in GivenIn(c, p), t \in Seq(Settings) :
            /\ SettingsWords(c, p) = SettingWords(c, s) \o SettingsWords(c, t)
            /\ GivenIn(c, p) = {s} \cup GivenIn(c, t)
      BY <1>2, <2>3
    <3>2. Append(t, e) \in Seq(Settings)
      OBVIOUS
    <3>3. SettingsWords(c, Append(t, e)) = SettingsWords(c, t) \o SettingWords(c, e)
      BY SettingsWordsAre
    <3>4. SettingWords(c, s) \in Seq(Words) /\ SettingsWords(c, t) \in Seq(Words)
      <4>1. s \in Settings
        BY ConfigsAssumption DEF GivenIn, Files
      <4> QED
        BY <4>1, SettingWordsAre, SettingsWordsAre
    <3>5. SettingsWords(c, Append(p, e))
            = SettingWords(c, s) \o SettingsWords(c, Append(t, e))
      <4>1. (SettingWords(c, s) \o SettingsWords(c, t)) \o SettingWords(c, e)
              = SettingWords(c, s) \o (SettingsWords(c, t) \o SettingWords(c, e))
        BY <2>d, <3>4, ThreeParts
      <4> QED
        BY <2>b, <3>1, <3>3, <4>1
    <3>6. /\ GivenIn(c, Append(p, e)) = {s} \cup GivenIn(c, Append(t, e))
          /\ s \in GivenIn(c, Append(p, e)) /\ GivenIn(c, Append(p, e)) # {}
      BY <2>a, <3>1
    <3> QED
      BY <2>e, <3>2, <3>5, <3>6
  <2> QED
    BY <2>1, <2>2, <2>3
<1>3. Seq(Settings) \subseteq T
  <2> HIDE DEF T
  <2> QED
    BY <1>1, <1>2, SeqSets
<1> QED
  BY <1>3

\* The lists of the script hold all settings.
LEMMA AllSettings ==
  ASSUME NEW c \in Configs
  PROVE  /\ SettingsBefore \in Seq(Settings) /\ SettingsAfter \in Seq(Settings)
         /\ GivenIn(c, SettingsBefore) \cup GivenIn(c, SettingsAfter) = c.given
<1>1. c.given \subseteq Settings
  BY ConfigsAssumption DEF Files
<1>2. /\ SettingsBefore[1] = "v" /\ SettingsBefore[2] = "D" /\ SettingsBefore[3] = "d"
      /\ SettingsBefore[4] = "m" /\ SettingsBefore[5] = "p" /\ SettingsBefore[6] = "l"
      /\ SettingsBefore[7] = "w" /\ SettingsBefore[8] = "r" /\ Len(SettingsBefore) = 8
      /\ SettingsAfter[1] = "u" /\ SettingsAfter[2] = "S" /\ Len(SettingsAfter) = 2
  BY DEF SettingsBefore, SettingsAfter
<1>3. ASSUME NEW s \in Settings
      PROVE  \/ \E i \in 1..8 : SettingsBefore[i] = s
             \/ \E i \in 1..2 : SettingsAfter[i] = s
  BY <1>2 DEF Settings
<1>4. GivenIn(c, SettingsBefore) \cup GivenIn(c, SettingsAfter) = c.given
  BY <1>1, <1>2, <1>3 DEF GivenIn
<1>5. SettingsBefore \in Seq(Settings) /\ SettingsAfter \in Seq(Settings)
  BY DEF SettingsBefore, SettingsAfter, Settings
<1> QED
  BY <1>4, <1>5

LastWords(c) == SettingsWords(c, SettingsAfter)

\* The command line of a file: three parts, all of them words.
LEMMA ScriptIs ==
  ASSUME NEW c \in Configs
  PROVE  /\ c.areas \in Seq(FileAreas)
         /\ SettingsWords(c, SettingsBefore) \in Seq(Words)
         /\ LastWords(c) \in Seq(Words)
         /\ FlatMap(WordsOf, c.areas) \in Seq(Words)
         /\ Script(c) = SettingsWords(c, SettingsBefore)
                          \o FlatMap(WordsOf, c.areas) \o LastWords(c)
         /\ Script(c) \in Seq(Words)
<1>1. c.areas \in Seq(FileAreas)
  BY ConfigsAssumption DEF Files
<1>2. LastWords(c) \in Seq(Words) /\ SettingsWords(c, SettingsBefore) \in Seq(Words)
  BY AllSettings, SettingsWordsAre DEF LastWords
<1>3. FlatMap(WordsOf, c.areas) \in Seq(Words)
  BY <1>1, WordsOfMaps, FlatMapType
<1>4. [i \in 1..Len(c.areas) |-> AreaWords(c.areas[i])] = Images(WordsOf, c.areas)
  <2>1. \A i \in 1..Len(c.areas) : AreaWords(c.areas[i]) = WordsOf[c.areas[i]]
    <3>1. \A i \in 1..Len(c.areas) : c.areas[i] \in FileAreas
      BY <1>1
    <3> QED
      BY <3>1, Zenon DEF WordsOf
  <2> QED
    BY <2>1, Zenon DEF Images
<1>5. Script(c) = SettingsWords(c, SettingsBefore)
                    \o FlatMap(WordsOf, c.areas) \o LastWords(c)
  BY <1>4, Zenon DEF Script, FlatMap, LastWords
<1>7. \A r, s, t \in Seq(Words) : r \o s \o t \in Seq(Words)
  OBVIOUS
<1>8. Script(c) \in Seq(Words)
  BY <1>2, <1>3, <1>5, <1>7, Zenon
<1> QED
  BY <1>1, <1>2, <1>3, <1>5, <1>8

\* Every command line is made of words.
LEMMA LineType == Init => line \in Seq(Words)
BY LinesAssumption, ScriptIs DEF Init

-----------------------------------------------------------------------------
(***************************************************************************)
(* Which words are switches.                                               *)
(***************************************************************************)
RoleOf(l, i, before) ==
  IF i > 1 /\ l[i - 1].switch \in WithValue /\ before = "switch" THEN "value"
  ELSE IF l[i].switch # "none" THEN "switch" ELSE "word"

\* The function in Roles, up to the nth word.
TellsUpto(f, l, n) == \A i \in 1..n : f[i] = RoleOf(l, i, f[i - 1])

Tells(f, l) ==
  f = [i \in 1..Len(l) |->
         IF i > 1 /\ l[i - 1].switch \in WithValue /\ f[i - 1] = "switch" THEN "value"
         ELSE IF l[i].switch # "none" THEN "switch" ELSE "word"]

\* There is one: the role of a word is given by that of the word before it.
LEMMA RolesAre ==
  ASSUME NEW l \in Seq(Words)
  PROVE  \A i \in 1..Len(l) : Roles(l)[i] = RoleOf(l, i, Roles(l)[i - 1])
<1> PICK n \in Nat : n = Len(l)
  OBVIOUS
<1> DEFINE T == {k \in Nat : \E f : TellsUpto(f, l, k)}
<1>1. 0 \in T
  BY DEF TellsUpto
<1>2. ASSUME NEW k \in T PROVE k + 1 \in T
  <2>1. PICK f : TellsUpto(f, l, k)
    OBVIOUS
  <2> DEFINE g == [i \in 0..k + 1 |-> IF i = k + 1 THEN RoleOf(l, k + 1, f[k]) ELSE f[i]]
  <2>2. ASSUME NEW i \in 1..k + 1 PROVE g[i] = RoleOf(l, i, g[i - 1])
    <3>1. i - 1 \in 0..k + 1 /\ i - 1 # k + 1 /\ g[i - 1] = f[i - 1]
      OBVIOUS
    <3>3. CASE i # k + 1
      <4>1. i \in 1..k /\ g[i] = f[i]
        BY <3>3
      <4> HIDE DEF g
      <4> QED
        BY <2>1, <3>1, <4>1 DEF TellsUpto
    <3> QED
      BY <3>3
  <2> HIDE DEF g
  <2>3. TellsUpto(g, l, k + 1)
    BY <2>2 DEF TellsUpto
  <2> QED
    BY <2>3
<1> HIDE DEF T
<1>3. T = Nat
  <2>1. T \in SUBSET Nat
    BY DEF T
  <2> QED
    BY <1>1, <1>2, <2>1, NatSets
<1>4. PICK f : TellsUpto(f, l, n)
  BY <1>3 DEF T
<1> PICK h : h = [i \in 1..n |-> f[i]]
  OBVIOUS
<1>5. ASSUME NEW i \in 1..n
      PROVE  h[i] = IF i > 1 /\ l[i - 1].switch \in WithValue /\ h[i - 1] = "switch"
                      THEN "value" ELSE IF l[i].switch # "none" THEN "switch" ELSE "word"
  <2>2. f[i] = RoleOf(l, i, f[i - 1])
    BY <1>4 DEF TellsUpto
  <2> QED
    BY <2>2 DEF RoleOf
<1>6. Tells(h, l)
  BY <1>5 DEF Tells
<1> DEFINE told == CHOOSE g : Tells(g, l)
<1>7. Tells(told, l)
  BY <1>6
<1>8. Roles(l) = told
  BY DEF Roles, Tells
<1> HIDE DEF told
<1> QED
  BY <1>7, <1>8 DEF RoleOf, Tells

-----------------------------------------------------------------------------
(***************************************************************************)
(* The types.                                                              *)
(***************************************************************************)

\* A word or two less are still words.
LEMMA ArgsLeft ==
  ASSUME args \in Seq(Words), args # << >>
  PROVE  /\ Head(args) = args[1] /\ args[1] \in Words /\ Len(args) \in Nat \ {0}
         /\ Tail(args) \in Seq(Words) /\ Len(Tail(args)) = Len(args) - 1
         /\ \A i \in 1..Len(args) - 1 : Tail(args)[i] = args[i + 1]
         /\ Len(args) > 1 =>
              /\ args[2] \in Words
              /\ SubSeq(args, 3, Len(args)) \in Seq(Words)
              /\ Len(SubSeq(args, 3, Len(args))) = Len(args) - 2
              /\ \A i \in 1..Len(args) - 2 : SubSeq(args, 3, Len(args))[i] = args[i + 2]
<1> PICK n \in Nat : n = Len(args)
  OBVIOUS
<1> QED
  OBVIOUS

\* The numbers in a value.
LEMMA NumsAre ==
  ASSUME args \in Seq(Words), Len(args) > 1
  PROVE  /\ nums \in Seq(Int) /\ number \in Int
         /\ GoodZones \subseteq 1..MaxZones
         /\ \A z \in GoodZones : \E i \in 1..Len(nums) : z = nums[i]
<1>1. nums \in Seq(Int)
  <2>2. args[2] \in Words
    OBVIOUS
  <2> QED
    BY <2>2 DEF Words, nums
<1>2. number \in Int
  <2>1. nums # << >> => nums[1] \in Int
    BY <1>1
  <2> QED
    BY <2>1 DEF number, Number, nums
<1>3. GoodZones \subseteq 1..MaxZones
  <2> QED
    BY DEF GoodZones
<1>4. \A z \in GoodZones : \E i \in 1..Len(nums) : z = nums[i]
  BY DEF GoodZones
<1> QED
  BY <1>1, <1>2, <1>3, <1>4

\* The types hold at first ...
LEMMA InitTypes == Init => TypeOK
<1> SUFFICES ASSUME Init PROVE TypeOK
  OBVIOUS
<1>1. args \in Seq(Words)
  BY LineType DEF Init
<1> QED
  BY <1>1 DEF Init, TypeOK

\* ... and every switch keeps them.
LEMMA StepTypes == TypeOK /\ [Next]_vars => TypeOK'
<1> SUFFICES ASSUME TypeOK, [Next]_vars PROVE TypeOK'
  OBVIOUS
<1>0. /\ args \in Seq(Words) /\ areanum \in Int /\ areas \subseteq 1..MaxAreas
      /\ DOMAIN zoneArea \subseteq 1..MaxZones
      /\ seen \subseteq WithValue \cup Flags
      /\ main \in {"parsing", "ended", "started", "forked"} /\ return_main \in -9..0
  BY DEF TypeOK
<1> USE DEF options, Goes, Ends
<1>a. ASSUME NEW c, Takes(c)
      PROVE  args' \in Seq(Words) /\ Len(args) > 1
  BY <1>0, <1>a DEF Takes
<1>b. ASSUME NEW c, Given(c) PROVE Tail(args) \in Seq(Words)
  BY <1>0, <1>b DEF Given
<1>1. CASE Area
  <2>1. args' \in Seq(Words) /\ number \in Int
    BY <1>0, <1>1, <1>a, NumsAre DEF Area
  <2>2. CASE number \in 1..MaxAreas
    BY <1>1, <2>1, <2>2 DEF Area, TypeOK
  <2>3. CASE number \notin 1..MaxAreas
    <3>1. /\ UNCHANGED <<areas, zoneArea, seen>> /\ areanum' = number
          /\ main' = "ended" /\ return_main' = -2
      BY <1>1, <2>3 DEF Area
    <3> QED
      BY <2>1, <3>1 DEF TypeOK
  <2> QED
    BY <2>2, <2>3
<1>2. CASE ZonesWithoutArea
  <2>1. args' \in Seq(Words)
    BY <1>2, <1>a DEF ZonesWithoutArea
  <2> QED
    BY <1>2, <2>1 DEF ZonesWithoutArea, TypeOK
<1>3. CASE ZonesOfArea
  <2>1. args' \in Seq(Words) /\ GoodZones \subseteq 1..MaxZones
    BY <1>0, <1>3, <1>a, NumsAre DEF ZonesOfArea
  <2>2. DOMAIN zoneArea' \subseteq 1..MaxZones
    BY <1>0, <1>3, <2>1 DEF ZonesOfArea, Assigned
  <2> QED
    BY <1>3, <2>1, <2>2 DEF ZonesOfArea, TypeOK
<1>4. CASE Period \/ Port
  <2>1. args' \in Seq(Words)
    BY <1>4, <1>a DEF Period, Port
  <2>2. main' \in {"parsing", "ended", "started", "forked"} /\ return_main' \in -9..0
    BY <1>0, <1>4 DEF Period, Port
  <2>3. seen' \subseteq WithValue \cup Flags
    BY <1>0, <1>4 DEF Period, Port, WithValue
  <2>4. UNCHANGED <<areanum, areas, zoneArea>>
    BY <1>4 DEF Period, Port
  <2> QED
    BY <1>0, <2>1, <2>2, <2>3, <2>4 DEF TypeOK
<1>6. CASE Text
  <2>1. PICK c \in {"d", "m", "u", "t", "l", "w"} : Takes(c) /\ seen' = seen \cup {c}
    BY <1>6 DEF Text
  <2>2. args' \in Seq(Words)
    BY <1>a, <2>1
  <2>3. seen' \subseteq WithValue \cup Flags
    BY <1>0, <2>1 DEF WithValue
  <2> QED
    BY <1>6, <2>2, <2>3 DEF Text, TypeOK
<1>7. CASE Flag
  <2>1. PICK c \in Flags : Given(c) /\ seen' = seen \cup {c}
    BY <1>7 DEF Flag
  <2>2. args' \in Seq(Words)
    BY <1>7, <1>b DEF Flag
  <2> QED
    BY <1>7, <2>2 DEF Flag, TypeOK
<1>8. CASE Skipped
  <2>1. args' \in Seq(Words)
    BY <1>8, <1>b DEF Skipped
  <2> QED
    BY <1>8, <2>1 DEF Skipped, TypeOK
<1>9. CASE Refuse
  <2>1. PICK i \in 1..Len(Refusals) : return_main' = Refusals[i][2] /\ main' = "ended"
    BY <1>9 DEF Refuse, Refused
  <2>3. Refusals[i][2] \in -9..0
    BY DEF Refusals
  <2> QED
    BY <1>9, <2>1, <2>3 DEF Refuse, TypeOK
<1>10. CASE Start
  BY <1>10 DEF Start, TypeOK
<1>11. CASE UNCHANGED vars
  BY <1>11 DEF vars, TypeOK
<1> QED
  BY <1>1, <1>2, <1>3, <1>4, <1>6, <1>7, <1>8, <1>9, <1>10, <1>11
     DEF Next, GetOpt

\* Whatever the command line, only entries that areas[] and zones[] have are
\* written.
THEOREM TypeCorrect == Spec => []TypeOK
<1> QED
  BY InitTypes, StepTypes, PTL DEF Spec

-----------------------------------------------------------------------------
(***************************************************************************)
(* How far the command line is read.                                       *)
(***************************************************************************)
Reads == Len(line) - Len(args)

\* The words left are the last of the line, and the first of them is no value.
ReadInv ==
  /\ line \in Seq(Words) /\ Len(args) <= Len(line)
  /\ \A i \in 1..Len(args) : args[i] = line[Reads + i]
  /\ args # << >> =>
       Roles(line)[Reads + 1] = IF args[1].switch = "none" THEN "word" ELSE "switch"

\* At first nothing was read.
LEMMA InitRead == Init => ReadInv
<1> SUFFICES ASSUME Init PROVE ReadInv
  OBVIOUS
<1>1. line \in Seq(Words) /\ args = line
  BY LineType DEF Init
<1> PICK n \in Nat : n = Len(line)
  BY <1>1
<1>2. Reads = 0
  BY <1>1 DEF Reads
<1>3. ASSUME line # << >>
      PROVE  Roles(line)[1] = IF line[1].switch = "none" THEN "word" ELSE "switch"
  <2>1. 1 \in 1..n
    BY <1>3
  <2>2. Roles(line)[1] = RoleOf(line, 1, Roles(line)[1 - 1])
    BY <1>1, <2>1, RolesAre
  <2> QED
    BY <2>2 DEF RoleOf
<1> QED
  BY <1>1, <1>2, <1>3 DEF ReadInv

\* How many words were read is a number.
LEMMA ReadsType ==
  ASSUME TypeOK, ReadInv
  PROVE  Reads \in Nat
<1> QED
  BY DEF Reads, ReadInv

\* The word that comes next is no value of a switch before it.
LEMMA NoValueNext ==
  ASSUME TypeOK, ReadInv, args # << >>, NEW c \in WithValue
  PROVE  Reads + 1 \notin Values(line, c)
<1> SUFFICES ASSUME Reads + 1 \in Values(line, c) PROVE FALSE
  OBVIOUS
<1> PICK p \in Nat : p = Reads
  BY ReadsType
<1>1. /\ p + 1 \in 2..Len(line) /\ line[p + 1 - 1].switch = c
      /\ Roles(line)[p + 1 - 1] = "switch"
  BY DEF Values
<1>2. /\ line \in Seq(Words) /\ p \in Nat
      /\ Roles(line)[p + 1] # "value"
  BY DEF ReadInv
<1>3. p + 1 \in 1..Len(line) /\ p + 1 > 1 /\ p + 1 - 1 = p
  BY <1>1
<1>4. Roles(line)[p + 1] = RoleOf(line, p + 1, Roles(line)[p + 1 - 1])
  BY <1>2, <1>3, RolesAre
<1> QED
  BY <1>1, <1>2, <1>4 DEF RoleOf

\* A switch that is taken has the value that is read.
LEMMA ValueTaken ==
  ASSUME TypeOK, ReadInv, NEW c \in WithValue, Takes(c)
  PROVE  /\ Reads' = Reads + 2 /\ Reads \in Nat /\ Reads + 2 <= Len(line)
         /\ line[Reads + 2] = args[2]
         /\ Roles(line)[Reads + 1] = "switch" /\ Roles(line)[Reads + 2] = "value"
         /\ \A d \in WithValue : Reads + 2 \in Values(line, d) <=> d = c
         /\ ReadInv'
<1> PICK p \in Nat : p = Reads
  BY ReadsType
<1> PICK n \in Nat : n = Len(args)
  BY DEF TypeOK
<1> PICK m \in Nat : m = Len(line)
  OBVIOUS
<1>0. args # << >> /\ n > 1 /\ line' = line
  BY DEF Takes
<1>1. /\ args \in Seq(Words) /\ line \in Seq(Words)
      /\ n <= m /\ args[1].switch = c /\ c # "none"
  BY DEF TypeOK, ReadInv, Takes, Given, WithValue
<1>2. /\ args' \in Seq(Words) /\ Len(args') = n - 2
      /\ \A i \in 1..n - 2 : args'[i] = args[i + 2]
  BY <1>1 DEF Takes
<1>3. p = m - n /\ Reads' = p + 2 /\ p + 2 <= m
  <2>1. p = m - n
    BY DEF Reads
  <2>2. Reads' = m - (n - 2)
    BY <1>0, <1>2 DEF Reads
  <2> QED
    BY <1>0, <2>1, <2>2
<1>4. /\ \A i \in 1..n : args[i] = line[p + i]
      /\ Roles(line)[p + 1] = IF args[1].switch = "none" THEN "word" ELSE "switch"
  BY <1>0 DEF ReadInv
<1>5. line[p + 1].switch = c /\ Roles(line)[p + 1] = "switch" /\ line[p + 2] = args[2]
  <2>1. 1 \in 1..n /\ 2 \in 1..n
    BY <1>0
  <2> QED
    BY <1>1, <1>4, <2>1
<1>6. \A i \in 1..m : Roles(line)[i] = RoleOf(line, i, Roles(line)[i - 1])
  BY <1>1, RolesAre
<1>7. Roles(line)[p + 2] = "value"
  <2>1. Roles(line)[p + 2] = RoleOf(line, p + 2, Roles(line)[p + 1])
    <3>1. p + 2 \in 1..m /\ p + 2 - 1 = p + 1
      BY <1>3
    <3> QED
      BY <1>6, <3>1
  <2> QED
    BY <1>5, <2>1 DEF RoleOf
<1>8. ASSUME NEW d \in WithValue PROVE p + 2 \in Values(line, d) <=> d = c
  <2>1. p + 2 \in 2..m /\ p + 2 - 1 = p + 1
    BY <1>3
  <2> QED
    BY <1>5, <2>1 DEF Values
<1>9. \A i \in 1..Len(args') : args'[i] = line'[p + 2 + i]
  <2>1. \A i \in 1..n - 2 : i + 2 \in 1..n /\ p + (i + 2) = p + 2 + i
    OBVIOUS
  <2> QED
    BY <1>0, <1>2, <1>4, <2>1
<1>10. ASSUME args' # << >>
       PROVE  Roles(line)[p + 3] = IF args'[1].switch = "none" THEN "word" ELSE "switch"
  <2>1. n > 2
    BY <1>2, <1>10
  <2>2. p + 3 \in 1..m /\ p + 3 - 1 = p + 2
    BY <1>3, <2>1
  <2>3. Roles(line)[p + 3] = RoleOf(line, p + 3, Roles(line)[p + 2])
    BY <1>6, <2>2
  <2>4. args'[1] = line[p + 3]
    <3>1. 1 \in 1..Len(args') /\ p + 2 + 1 = p + 3
      BY <1>2, <2>1
    <3> QED
      BY <1>0, <1>9, <3>1
  <2> QED
    BY <1>7, <2>3, <2>4 DEF RoleOf
<1>11. ReadInv'
  <2>1. Len(args') <= Len(line') /\ line' \in Seq(Words)
    BY <1>0, <1>1, <1>2
  <2> QED
    BY <1>0, <1>3, <1>9, <1>10, <2>1 DEF ReadInv
<1> QED
  BY <1>3, <1>5, <1>7, <1>8, <1>11

\* A word that is a flag or no switch is read alone, as the last word is.
LEMMA WordTaken ==
  ASSUME TypeOK, ReadInv, args # << >>, args' = Tail(args), line' = line,
         Head(args).switch \notin WithValue \/ Len(args) = 1
  PROVE  Reads' = Reads + 1 /\ Reads \in Nat /\ Reads + 1 <= Len(line) /\ ReadInv'
<1> PICK p \in Nat : p = Reads
  BY ReadsType
<1> PICK n \in Nat : n = Len(args)
  OBVIOUS
<1> PICK m \in Nat : m = Len(line)
  BY DEF ReadInv
<1>1. /\ args \in Seq(Words) /\ line \in Seq(Words)
      /\ Head(args) = args[1]
  BY DEF TypeOK, ReadInv
<1>3. p = m - n /\ Reads' = p + 1 /\ p + 1 <= m
  <2>1. p = m - n
    BY DEF Reads
  <2>2. Reads' = m - (n - 1)
    BY DEF Reads
  <2> QED
    BY <2>1, <2>2
<1>4. \A i \in 1..n : args[i] = line[p + i]
  BY DEF ReadInv
<1>10. ASSUME args' # << >>
       PROVE  Roles(line)[p + 2] = IF args'[1].switch = "none" THEN "word" ELSE "switch"
  <2>1. n > 1
    BY <1>10
  <2>2. p + 2 \in 1..m /\ p + 2 - 1 = p + 1
    BY <1>3, <2>1
  <2>3. Roles(line)[p + 2] = RoleOf(line, p + 2, Roles(line)[p + 1])
    BY <1>1, <2>2, RolesAre
  <2>4. args'[1] = line[p + 2] /\ args[1] = line[p + 1]
    <3>1. 1 \in 1..Len(args') /\ p + 1 + 1 = p + 2 /\ 1 \in 1..n
      BY <2>1
    <3> QED
      BY <1>4, <3>1
  <2>5. line[p + 1].switch \notin WithValue
    BY <2>1, <2>4
  <2> QED
    <3>1. RoleOf(line, p + 2, Roles(line)[p + 1])
            = IF line[p + 2].switch # "none" THEN "switch" ELSE "word"
      BY <2>5 DEF RoleOf
    <3> QED
      BY <2>3, <2>4, <3>1
<1>11. ReadInv'
  <2>2. p + 1 + 1 = p + 2
    OBVIOUS
  <2> QED
    BY <1>3, <1>10, <2>2 DEF ReadInv
<1> QED
  BY <1>3, <1>11

-----------------------------------------------------------------------------
(***************************************************************************)
(* The area of a zone, when p words of the line l are read.                *)
(***************************************************************************)

\* The zones so far are in the areas the documentation says.
ZonesGiven(l, p, as, za) ==
  \A z \in DOMAIN za :
    /\ za[z] \in as
    /\ \E i, j \in 1..p :
         /\ Follows(l, i, j) /\ Lists(l, j, z) /\ za[z] = Number(l[i])
         /\ \A k \in 1..p : Lists(l, k, z) => k <= j

\* The area the next -z belongs to is that of the last -a, and no -z followed.
AreaGiven(l, p, as, n) ==
  n # 0 =>
    /\ n \in as
    /\ \E i \in Values(l, "a") :
         /\ i <= p /\ n = Number(l[i])
         /\ \A k \in Values(l, "z") \cup Values(l, "a") : k <= p => k <= i

ZoneInv ==
  /\ main # "ended" => /\ ZonesGiven(line, Reads, areas, zoneArea)
                       /\ AreaGiven(line, Reads, areas, areanum)
  /\ main = "started" => args = << >> /\ areas # {} /\ DOMAIN zoneArea # {}

\* Words that are no values of -a and -z change nothing of it.
LEMMA QuietWords ==
  ASSUME NEW l, NEW p \in Nat, NEW q \in Nat, NEW as, NEW za, NEW n, p <= q,
         ZonesGiven(l, p, as, za), AreaGiven(l, p, as, n),
         \A k \in p + 1..q : k \notin Values(l, "z") /\ k \notin Values(l, "a")
  PROVE  ZonesGiven(l, q, as, za) /\ AreaGiven(l, q, as, n)
<1>2. ZonesGiven(l, q, as, za)
  <2> SUFFICES ASSUME NEW z \in DOMAIN za
               PROVE  /\ za[z] \in as
                      /\ \E i, j \in 1..q :
                           /\ Follows(l, i, j) /\ Lists(l, j, z) /\ za[z] = Number(l[i])
                           /\ \A k \in 1..q : Lists(l, k, z) => k <= j
    BY DEF ZonesGiven
  <2>1. PICK i \in 1..p, j \in 1..p :
          /\ Follows(l, i, j) /\ Lists(l, j, z) /\ za[z] = Number(l[i])
          /\ \A k \in 1..p : Lists(l, k, z) => k <= j
    BY DEF ZonesGiven
  <2>2. \A k \in 1..q : Lists(l, k, z) => k <= j
    BY <2>1 DEF Lists
  <2>3. i \in 1..q /\ j \in 1..q
    OBVIOUS
  <2>4. za[z] \in as
    BY DEF ZonesGiven
  <2> QED
    BY <2>1, <2>2, <2>3, <2>4
<1>3. AreaGiven(l, q, as, n)
  <2> SUFFICES ASSUME n # 0
               PROVE  /\ n \in as
                      /\ \E i \in Values(l, "a") :
                           /\ i <= q /\ n = Number(l[i])
                           /\ \A k \in Values(l, "z") \cup Values(l, "a") :
                                k <= q => k <= i
    BY DEF AreaGiven
  <2>1. n \in as
    BY DEF AreaGiven
  <2>2. PICK i \in Values(l, "a") :
          /\ i <= p /\ n = Number(l[i])
          /\ \A k \in Values(l, "z") \cup Values(l, "a") : k <= p => k <= i
    BY DEF AreaGiven
  <2>3. \A k \in Values(l, "z") \cup Values(l, "a") : k \in Nat /\ k >= 1
    BY DEF Values
  <2>4. \A k \in Values(l, "z") \cup Values(l, "a") : k <= q => k <= i
    BY <2>2, <2>3
  <2>5. i <= q
    BY <2>2, <2>3
  <2> QED
    BY <2>1, <2>2, <2>4, <2>5
<1> QED
  BY <1>2, <1>3

\* At first no zone was given.
LEMMA InitZone == Init => ZoneInv
<1> SUFFICES ASSUME Init PROVE ZoneInv
  OBVIOUS
<1>1. areanum = 0 /\ main = "parsing" /\ DOMAIN zoneArea = {}
  BY DEF Init
<1> QED
  BY <1>1 DEF ZoneInv, ZonesGiven, AreaGiven

\* Switches other than -a and -z.
LEMMA OtherSwitch ==
  ASSUME TypeOK, ReadInv, ZoneInv, main = "parsing", line' = line,
         UNCHANGED <<areanum, areas, zoneArea>>, main' \in {"parsing", "ended"},
         \/ \E c \in WithValue \ {"a", "z"} : Takes(c)
         \/ /\ args # << >> /\ args' = Tail(args)
            /\ Head(args).switch \notin WithValue \/ Len(args) = 1
  PROVE  ReadInv' /\ ZoneInv'
<1> PICK p \in Nat : p = Reads
  BY ReadsType
<1>1. "a" \in WithValue /\ "z" \in WithValue
  BY DEF WithValue
<1>2. args # << >>
  BY DEF Takes
<1>3. p + 1 \notin Values(line, "z") /\ p + 1 \notin Values(line, "a")
  BY <1>1, <1>2, NoValueNext
<1>4. ReadInv' /\ \E q \in {p + 1, p + 2} :
        /\ Reads' = q
        /\ \A k \in p + 1..q : k \notin Values(line, "z") /\ k \notin Values(line, "a")
  <2>1. ASSUME NEW c \in WithValue \ {"a", "z"}, Takes(c)
        PROVE  /\ ReadInv' /\ Reads' = p + 2
               /\ p + 2 \notin Values(line, "z") /\ p + 2 \notin Values(line, "a")
    BY <1>1, <2>1, ValueTaken
  <2>2. CASE \E c \in WithValue \ {"a", "z"} : Takes(c)
    <3> QED
      BY <1>3, <2>1, <2>2
  <2>3. CASE /\ args # << >> /\ args' = Tail(args)
             /\ Head(args).switch \notin WithValue \/ Len(args) = 1
    <3>2. ReadInv' /\ Reads' = p + 1
      BY <2>3, WordTaken
    <3> QED
      BY <1>3, <3>2
  <2> QED
    BY <2>2, <2>3
<1>5. /\ ZonesGiven(line, p, areas, zoneArea)
      /\ AreaGiven(line, p, areas, areanum)
  BY DEF ZoneInv
<1>6. /\ ZonesGiven(line, Reads', areas, zoneArea)
      /\ AreaGiven(line, Reads', areas, areanum)
  <2> PICK q \in {p + 1, p + 2} :
        /\ Reads' = q
        /\ \A k \in p + 1..q : k \notin Values(line, "z") /\ k \notin Values(line, "a")
    BY <1>4
  <2> QED
    BY <1>5, QuietWords
<1> QED
  BY <1>4, <1>6 DEF ZoneInv

\* -a: the next -z belongs to this area.
LEMMA AreaSwitch ==
  ASSUME TypeOK, ReadInv, ZoneInv, Area
  PROVE  ReadInv' /\ ZoneInv'
<1> PICK p \in Nat : p = Reads
  BY ReadsType
<1>1. "a" \in WithValue /\ "z" \in WithValue /\ "a" # "z"
  BY DEF WithValue
<1>2. Takes("a") /\ args # << >> /\ line' = line /\ main = "parsing"
  BY DEF Area, Takes, Given
<1>3. /\ ReadInv' /\ Reads' = p + 2
      /\ line[p + 2] = args[2]
      /\ p + 2 \in Values(line, "a") /\ p + 2 \notin Values(line, "z")
  BY <1>1, <1>2, ValueTaken
<1>4. p + 1 \notin Values(line, "z")
  BY <1>1, <1>2, NoValueNext
<1>5. CASE number \in 1..MaxAreas
  <2>1. /\ areanum' = number /\ areas' = areas \cup {number}
        /\ zoneArea' = zoneArea /\ main' = "parsing"
    BY <1>2, <1>5 DEF Area, Goes
  <2>2. ZonesGiven(line, p, areas', zoneArea')
    <3>1. ZonesGiven(line, p, areas, zoneArea)
      BY <1>2 DEF ZoneInv
    <3> QED
      BY <2>1, <3>1 DEF ZonesGiven
  <2>3. ZonesGiven(line, p + 2, areas', zoneArea')
    <3> SUFFICES ASSUME NEW z \in DOMAIN zoneArea'
                 PROVE  /\ zoneArea'[z] \in areas'
                        /\ \E i, j \in 1..p + 2 :
                             /\ Follows(line, i, j) /\ Lists(line, j, z)
                             /\ zoneArea'[z] = Number(line[i])
                             /\ \A k \in 1..p + 2 : Lists(line, k, z) => k <= j
      BY DEF ZonesGiven
    <3>2. zoneArea'[z] \in areas'
      BY <2>2 DEF ZonesGiven
    <3>3. PICK i \in 1..p, j \in 1..p :
            /\ Follows(line, i, j) /\ Lists(line, j, z)
            /\ zoneArea'[z] = Number(line[i])
            /\ \A k \in 1..p : Lists(line, k, z) => k <= j
      BY <2>2 DEF ZonesGiven
    <3>5. \A k \in 1..p + 2 : Lists(line, k, z) => k <= j
      BY <1>3, <1>4, <3>3 DEF Lists
    <3> QED
      BY <3>2, <3>3, <3>5
  <2>4. AreaGiven(line, p + 2, areas', areanum')
    <3>1. number = Number(line[p + 2])
      BY <1>3 DEF number
    <3> QED
      BY <1>3, <2>1, <3>1 DEF AreaGiven
  <2> QED
    BY <1>2, <1>3, <2>1, <2>3, <2>4 DEF ZoneInv
<1>6. CASE number \notin 1..MaxAreas
  <2>1. main' = "ended"
    BY <1>6 DEF Area, Ends
  <2> QED
    BY <1>3, <2>1 DEF ZoneInv
<1> QED
  BY <1>5, <1>6

\* -z: its zones are in that area, whatever they were in before.
LEMMA ZonesSwitch ==
  ASSUME TypeOK, ReadInv, ZoneInv, ZonesOfArea
  PROVE  ReadInv' /\ ZoneInv'
<1> PICK p \in Nat : p = Reads
  BY ReadsType
<1>1. "a" \in WithValue /\ "z" \in WithValue /\ "a" # "z"
  BY DEF WithValue
<1>2. Takes("z") /\ args # << >> /\ Len(args) > 1 /\ line' = line /\ main = "parsing"
  BY DEF ZonesOfArea, Takes, Given
<1>3. /\ ReadInv' /\ Reads' = p + 2
      /\ line[p + 2] = args[2]
      /\ p + 2 \in Values(line, "z") /\ p + 2 \notin Values(line, "a")
  BY <1>1, <1>2, ValueTaken
<1>4. p + 1 \notin Values(line, "z") /\ p + 1 \notin Values(line, "a")
  BY <1>1, <1>2, NoValueNext
<1>5. CASE \A i \in 1..Len(nums) : nums[i] \in GoodZones
  <2>1. /\ areanum' = 0 /\ areas' = areas
        /\ zoneArea' = Assigned(GoodZones) /\ main' = "parsing"
    BY <1>2, <1>5 DEF ZonesOfArea, Goes
  <2>2. /\ ZonesGiven(line, p, areas, zoneArea) /\ AreaGiven(line, p, areas, areanum)
        /\ areanum # 0
    BY <1>2 DEF ZoneInv, ZonesOfArea
  <2>3. PICK a \in Values(line, "a") :
          /\ a <= p /\ areanum = Number(line[a])
          /\ \A k \in Values(line, "z") \cup Values(line, "a") : k <= p => k <= a
    BY <2>2 DEF AreaGiven
  <2>5. \A z : Lists(line, p + 2, z) <=> z \in GoodZones
    <3>1. nums = line[p + 2].nums /\ ToSet(nums) = {nums[i] : i \in 1..Len(nums)}
      <4>1. nums \in Seq(Int)
        BY <1>2, NumsAre DEF TypeOK
      <4>2. \A s \in Seq(Int) : ToSet(s) = {s[i] : i \in 1..Len(s)}
        BY DEF ToSet
      <4>3. nums = line[p + 2].nums
        BY <1>3 DEF nums
      <4> QED
        BY <4>1, <4>2, <4>3, Zenon
    <3>2. \A z : z \in ToSet(nums) <=> z \in GoodZones
      <4>1. \A z \in GoodZones : \E i \in 1..Len(nums) : z = nums[i]
        BY <1>2, NumsAre DEF TypeOK
      <4> QED
        BY <1>5, <3>1, <4>1
    <3> QED
      BY <1>3, <3>1, <3>2 DEF Lists
  <2>6. Follows(line, a, p + 2)
    <3>1. \A k \in Values(line, "z") \cup Values(line, "a") : k \in Nat /\ k >= 1
      BY DEF Values
    <3>2. \A k \in Values(line, "z") \cup Values(line, "a") : ~(a < k /\ k < p + 2)
      BY <1>4, <2>3, <3>1
    <3>3. a < p + 2
      BY <2>3, <3>1
    <3> QED
      BY <1>3, <3>2, <3>3 DEF Follows
  <2>7. ASSUME NEW z \in DOMAIN zoneArea'
        PROVE  /\ zoneArea'[z] \in areas
               /\ \E i, j \in 1..p + 2 :
                    /\ Follows(line, i, j) /\ Lists(line, j, z)
                    /\ zoneArea'[z] = Number(line[i])
                    /\ \A k \in 1..p + 2 : Lists(line, k, z) => k <= j
    <3>1. CASE z \in GoodZones
      <4>1. zoneArea'[z] = areanum /\ areanum \in areas
        BY <2>1, <2>2, <3>1 DEF Assigned, AreaGiven
      <4>2. a \in 1..p + 2 /\ p + 2 \in 1..p + 2 /\ \A k \in 1..p + 2 : k <= p + 2
        <5>1. a \in Nat /\ a >= 1
          BY DEF Values
        <5> QED
          BY <2>3, <5>1
      <4> QED
        BY <2>3, <2>5, <2>6, <3>1, <4>1, <4>2
    <3>2. CASE z \notin GoodZones
      <4>1. z \in DOMAIN zoneArea /\ zoneArea'[z] = zoneArea[z]
        BY <2>1, <3>2 DEF Assigned
      <4>2. zoneArea[z] \in areas
        BY <2>2, <4>1 DEF ZonesGiven
      <4>3. PICK i \in 1..p, j \in 1..p :
              /\ Follows(line, i, j) /\ Lists(line, j, z)
              /\ zoneArea[z] = Number(line[i])
              /\ \A k \in 1..p : Lists(line, k, z) => k <= j
        BY <2>2, <4>1 DEF ZonesGiven
      <4>4. ~Lists(line, p + 1, z)
        BY <1>4 DEF Lists
      <4>5. \A k \in 1..p + 2 : Lists(line, k, z) => k <= j
        BY <2>5, <3>2, <4>3, <4>4
      <4> QED
        BY <4>1, <4>2, <4>3, <4>5
    <3> QED
      BY <3>1, <3>2
  <2>8. ZonesGiven(line, p + 2, areas', zoneArea')
    BY <2>1, <2>7 DEF ZonesGiven
  <2>9. AreaGiven(line, p + 2, areas', areanum')
    BY <2>1 DEF AreaGiven
  <2> QED
    BY <1>2, <1>3, <2>1, <2>8, <2>9 DEF ZoneInv
<1>6. CASE ~\A i \in 1..Len(nums) : nums[i] \in GoodZones
  <2>1. main' = "ended"
    BY <1>6 DEF ZonesOfArea, Ends
  <2> QED
    BY <1>3, <2>1 DEF ZoneInv
<1> QED
  BY <1>5, <1>6

\* Every switch keeps both.
LEMMA StepZone == TypeOK /\ ReadInv /\ ZoneInv /\ [Next]_vars => ReadInv' /\ ZoneInv'
<1> SUFFICES ASSUME TypeOK, ReadInv, ZoneInv, [Next]_vars
             PROVE  ReadInv' /\ ZoneInv'
  OBVIOUS
<1>a. /\ "a" \in WithValue /\ "z" \in WithValue
      /\ {"d", "m", "u", "t", "l", "w", "S", "p"} \subseteq WithValue \ {"a", "z"}
      /\ \A c \in Flags : c \notin WithValue
      /\ "none" \notin WithValue
  BY DEF WithValue, Flags
<1> USE DEF options, Goes, Ends
<1>1. CASE Area
  BY <1>1, AreaSwitch
<1>2. CASE ZonesWithoutArea
  <2>1. Takes("z") /\ main' = "ended"
    BY <1>2 DEF ZonesWithoutArea
  <2> QED
    BY <1>a, <2>1, ValueTaken DEF ZoneInv
<1>3. CASE ZonesOfArea
  BY <1>3, ZonesSwitch
<1>4. CASE Period \/ Port \/ Text
  <2>1. /\ \E c \in WithValue \ {"a", "z"} : Takes(c)
        /\ UNCHANGED <<areanum, areas, zoneArea>>
    <3>1. CASE Period
      BY <1>a, <3>1 DEF Period
    <3>2. CASE Port
      BY <1>a, <3>2 DEF Port
    <3>3. CASE Text
      BY <1>a, <3>3 DEF Text
    <3> QED
      BY <1>4, <3>1, <3>2, <3>3
  <2>2. main = "parsing" /\ line' = line
    BY <2>1 DEF Takes, Given
  <2>3. main' \in {"parsing", "ended"}
    BY <1>4, <2>2 DEF Period, Port, Text
  <2> QED
    BY <2>1, <2>2, <2>3, OtherSwitch
<1>5. CASE Flag \/ Skipped
  <2>1. /\ args # << >> /\ args' = Tail(args) /\ main = "parsing" /\ line' = line
        /\ Head(args).switch \notin WithValue \/ Len(args) = 1
        /\ UNCHANGED <<areanum, areas, zoneArea>> /\ main' = main
    BY <1>a, <1>5 DEF Flag, Skipped, Given
  <2> QED
    BY <2>1, OtherSwitch
<1>6. CASE Refuse
  <2>1. main' = "ended" /\ UNCHANGED <<args, line>>
    BY <1>6 DEF Refuse
  <2>2. ReadInv'
    BY <2>1 DEF ReadInv, Reads
  <2> QED
    BY <2>1, <2>2 DEF ZoneInv
<1>7. CASE Start
  <2>1. UNCHANGED <<args, line, areas, zoneArea, areanum>> /\ main = "parsing"
    BY <1>7 DEF Start
  <2>2. ReadInv' /\ Reads' = Reads
    BY <2>1 DEF ReadInv, Reads
  <2>3. main' = "started" => args = << >> /\ areas # {} /\ DOMAIN zoneArea # {}
    <3>1. Refused = {} /\ args = << >>
      BY <1>7 DEF Start
    <3>2. 3 \in 1..Len(Refusals) /\ 4 \in 1..Len(Refusals)
      BY DEF Refusals
    <3>3. ~Refusals[3][1] /\ ~Refusals[4][1]
      BY <3>1, <3>2 DEF Refused
    <3>4. areaset /\ zonesset
      BY <3>3 DEF Refusals
    <3> QED
      BY <3>1, <3>4 DEF areaset, zonesset
  <2> QED
    BY <2>1, <2>2, <2>3 DEF ZoneInv
<1>8. CASE UNCHANGED vars
  BY <1>8 DEF vars, ReadInv, ZoneInv, Reads
<1> QED
  BY <1>1, <1>2, <1>3, <1>4, <1>5, <1>6, <1>7, <1>8 DEF Next, GetOpt

\* A daemon that starts knows an area and a zone, and has every zone in the
\* configured area whose -a comes before the last -z that lists it, whatever
\* else is on the command line and however often the switches are repeated.
THEOREM ZonesAreWhereTheyBelong == Spec => []ZonesFollowArea
<1>1. Spec => [](TypeOK /\ ReadInv /\ ZoneInv)
  BY InitTypes, InitRead, InitZone, StepTypes, StepZone, PTL DEF Spec
<1>2. ASSUME TypeOK, ReadInv, ZoneInv PROVE ZonesFollowArea
  <2> SUFFICES ASSUME main = "started" PROVE ZonesFollowArea
    BY DEF ZonesFollowArea
  <2> PICK p \in Nat : p = Len(line)
    BY LenProperties
  <2>1. /\ args = << >> /\ areas # {} /\ DOMAIN zoneArea # {}
        /\ ZonesGiven(line, Reads, areas, zoneArea)
    <3> QED
      BY <1>2 DEF ZoneInv
  <2>2. ZonesGiven(line, p, areas, zoneArea)
    <3>1. Len(args) = 0
      BY <2>1
    <3>2. Reads = p
      BY <3>1 DEF Reads
    <3> QED
      BY <2>1, <3>2
  <2> QED
    BY <2>1, <2>2, Zenon DEF ZonesFollowArea, ZonesGiven
<1> QED
  BY <1>1, <1>2, PTL

-----------------------------------------------------------------------------
(***************************************************************************)
(* What becomes of a file.                                                 *)
(***************************************************************************)
\* The words for the areas behind the kth, and for the zones of one.
Rest(c, k) ==
  FlatMap(WordsOf, SubSeq(c.areas, k + 1, Len(c.areas))) \o LastWords(c)

ZoneWords(a) ==
  IF a.zones = << >> THEN <<Switch("z")>> ELSE Pair("z", a.zones)

\* A switch and its value, then other words.
LEMMA PairFirst ==
  ASSUME NEW u \in Words, NEW v \in Words, NEW r \in Seq(Words),
         NEW s, s = <<u, v>> \o r
  PROVE  /\ s \in Seq(Words) /\ s # << >> /\ Len(s) > 1
         /\ Head(s) = u /\ s[2] = v /\ SubSeq(s, 3, Len(s)) = r
<1> PICK n \in Nat : n = Len(r)
  OBVIOUS
<1> QED
  OBVIOUS

\* One word, then others.
LEMMA WordFirst ==
  ASSUME NEW u \in Words, NEW r \in Seq(Words), NEW s, s = <<u>> \o r
  PROVE  /\ s \in Seq(Words) /\ s # << >> /\ Len(s) = Len(r) + 1
         /\ Head(s) = u /\ Tail(s) = r
         /\ Len(s) > 1 => s[2] = Head(r) /\ r # << >>
<1> PICK n \in Nat : n = Len(r)
  OBVIOUS
<1>3. ASSUME Len(s) > 1 PROVE s[2] = Head(r) /\ r # << >>
  <2>1. n # 0
    BY <1>3
  <2>2. r # << >> /\ Head(r) = r[1]
    BY <2>1
  <2> QED
    BY <2>2
<1> QED
  OBVIOUS

\* The switches and values of a file are words.
LEMMA WordTypes ==
  /\ \A s \in WithValue \cup Flags : Switch(s) \in Words
  /\ \A ns \in Seq(Int) : Value(ns) \in Words
  /\ \A n \in Int : Value(<<n>>) \in Words
  /\ \A s : Switch(s).switch = s /\ Switch(s).nums = <<0>>
  /\ \A ns : Value(ns).nums = ns
BY DEF Switch, Value, Words, WithValue, Flags

\* The words of an area and of those after it.
LEMMA WordsOfFirst ==
  \A q \in Seq(FileAreas) :
    q # << >> => FlatMap(WordsOf, q) = WordsOf[Head(q)] \o FlatMap(WordsOf, Tail(q))
BY WordsOfMaps, FlatMapTail

\* The words for the areas from the kth on: those of the kth, and the rest.
LEMMA RestIs ==
  ASSUME NEW c \in Configs, NEW k \in 0..Len(c.areas)
  PROVE  /\ Rest(c, k) \in Seq(Words)
         /\ k = Len(c.areas) => Rest(c, k) = LastWords(c)
         /\ k < Len(c.areas) =>
              /\ c.areas[k + 1] \in FileAreas
              /\ Rest(c, k + 1) \in Seq(Words)
              /\ ZoneWords(c.areas[k + 1]) \o Rest(c, k + 1) \in Seq(Words)
              /\ Rest(c, k) = Pair("a", <<c.areas[k + 1].num>>)
                                \o (ZoneWords(c.areas[k + 1]) \o Rest(c, k + 1))
<1> PICK s \in Seq(FileAreas) : s = c.areas
  BY ScriptIs
<1> PICK n \in Nat : n = Len(s)
  OBVIOUS
<1>1. LastWords(c) \in Seq(Words)
  BY ScriptIs
<1>2. ASSUME NEW j \in 0..n PROVE Rest(c, j) \in Seq(Words)
  <2>1. SubSeq(s, j + 1, n) \in Seq(FileAreas)
    OBVIOUS
  <2>2. \A q \in Seq(FileAreas) : FlatMap(WordsOf, q) \in Seq(Words)
    BY WordsOfMaps, FlatMapType
  <2>3. FlatMap(WordsOf, SubSeq(s, j + 1, n)) \in Seq(Words)
    BY <2>1, <2>2, Zenon
  <2>4. \A p, q \in Seq(Words) : p \o q \in Seq(Words)
    OBVIOUS
  <2> QED
    BY <1>1, <2>3, <2>4, Zenon DEF Rest
<1>3. ASSUME k = n PROVE Rest(c, k) = LastWords(c)
  <2>1. SubSeq(s, k + 1, n) = << >>
    BY <1>3
  <2>2. FlatMap(WordsOf, << >>) = << >>
    BY WordsOfMaps, FlatMapEmpty
  <2>3. << >> \o LastWords(c) = LastWords(c)
    OBVIOUS
  <2> QED
    BY <2>1, <2>2, <2>3, Zenon DEF Rest
<1>4. ASSUME k < n
      PROVE  /\ s[k + 1] \in FileAreas
             /\ ZoneWords(s[k + 1]) \in Seq(Words)
             /\ Rest(c, k + 1) \in Seq(Words)
             /\ Rest(c, k) = Pair("a", <<s[k + 1].num>>)
                               \o (ZoneWords(s[k + 1]) \o Rest(c, k + 1))
  <2>0. k + 1 \in 1..n /\ k + 1 \in 0..n /\ k + 1 <= n
    BY <1>4
  <2> PICK a \in FileAreas : a = s[k + 1]
    BY <2>0
  <2> PICK t \in Seq(FileAreas) : t = SubSeq(s, k + 1, n)
    <3>1. SubSeq(s, k + 1, n) \in Seq(FileAreas)
      OBVIOUS
    <3> QED
      BY <3>1, Zenon
  <2>1. t # << >> /\ Head(t) = a /\ Tail(t) = SubSeq(s, k + 2, n)
    <3>1. Len(t) = n - k
      OBVIOUS
    <3>2. t # << >>
      <4>1. n - k # 0
        BY <1>4
      <4> QED
        BY <3>1, <4>1, Zenon
    <3>3. t[1] = a
      BY <2>0
    <3>4. Tail(t) = SubSeq(s, k + 2, n)
      OBVIOUS
    <3>5. Head(t) = a
      BY <3>2, <3>3
    <3> QED
      BY <3>2, <3>4, <3>5, Zenon
  <2>2. FlatMap(WordsOf, t) = AreaWords(a) \o FlatMap(WordsOf, Tail(t))
    <3>1. WordsOf[a] = AreaWords(a)
      BY DEF WordsOf
    <3> QED
      BY <2>1, <3>1, WordsOfFirst, Zenon
  <2>3. AreaWords(a) = Pair("a", <<a.num>>) \o ZoneWords(a)
    <3> PICK u \in Words, v \in Words, w \in Words, x \in Words :
          /\ u = Switch("a") /\ v = Value(<<a.num>>) /\ w = Switch("z")
          /\ x = Value(a.zones)
      BY WordTypes DEF FileAreas, WithValue
    <3>1. <<u, v>> \o <<w>> = <<u, v, w>>
      BY TwoAndOne
    <3>2. <<u, v>> \o <<w, x>> = <<u, v, w, x>>
      BY TwoAndTwo
    <3>3. CASE a.zones = << >>
      BY <3>1, <3>3, AreaWordsAre, Zenon DEF Pair, ZoneWords
    <3>4. CASE a.zones # << >>
      BY <3>2, <3>4, AreaWordsAre, Zenon DEF Pair, ZoneWords
    <3> QED
      BY <3>3, <3>4
  <2>4. Pair("a", <<a.num>>) \in Seq(Words) /\ ZoneWords(a) \in Seq(Words)
    <3>1. \A u, v \in Words : <<u>> \in Seq(Words) /\ <<u, v>> \in Seq(Words)
      OBVIOUS
    <3>2. a.num \in Int /\ a.zones \in Seq(Int)
      BY DEF FileAreas
    <3>3. Switch("a") \in Words /\ Switch("z") \in Words
      BY WordTypes DEF WithValue
    <3> QED
      BY <3>1, <3>2, <3>3, WordTypes, Zenon DEF Pair, ZoneWords
  <2>5. FlatMap(WordsOf, Tail(t)) \in Seq(Words)
    <3>1. Tail(t) \in Seq(FileAreas)
      BY <2>1, HeadTailProperties
    <3>2. \A q \in Seq(FileAreas) : FlatMap(WordsOf, q) \in Seq(Words)
      BY WordsOfMaps, FlatMapType
    <3> QED
      BY <3>1, <3>2, Zenon
  <2>7. Rest(c, k) = FlatMap(WordsOf, t) \o LastWords(c)
    BY DEF Rest
  <2>8. Rest(c, k + 1) = FlatMap(WordsOf, Tail(t)) \o LastWords(c)
    <3>1. k + 1 + 1 = k + 2
      OBVIOUS
    <3> QED
      BY <2>1, <3>1 DEF Rest
  <2>9. Rest(c, k) = Pair("a", <<a.num>>) \o (ZoneWords(a) \o Rest(c, k + 1))
    <3> DEFINE p == Pair("a", <<a.num>>)
    <3> DEFINE q == ZoneWords(a)
    <3> DEFINE r == FlatMap(WordsOf, Tail(t))
    <3>1. p \in Seq(Words) /\ q \in Seq(Words) /\ r \in Seq(Words)
      BY <2>4, <2>5
    <3>2. Rest(c, k) = ((p \o q) \o r) \o LastWords(c)
      BY <2>2, <2>3, <2>7
    <3>3. Rest(c, k + 1) = r \o LastWords(c)
      BY <2>8
    <3> HIDE DEF p, q, r
    <3>4. ((p \o q) \o r) \o LastWords(c) = p \o (q \o (r \o LastWords(c)))
      <4> DEFINE C(x, y) == x \o y
      <4>1. \A a1, a2, a3, a4 \in Seq(Words) :
              C(C(C(a1, a2), a3), a4) = C(a1, C(a2, C(a3, a4)))
        BY FourParts, Zenon
      <4>2. C(C(C(p, q), r), LastWords(c)) = C(p, C(q, C(r, LastWords(c))))
        <5> HIDE DEF C
        <5> QED
          BY <1>1, <3>1, <4>1
      <4> QED
        BY <4>2
    <3>5. Rest(c, k) = p \o (q \o Rest(c, k + 1))
      BY <3>2, <3>3, <3>4, Zenon
    <3> QED
      BY <3>5 DEF p, q
  <2> QED
    BY <1>2, <2>0, <2>4, <2>9
<1>5. \A p, q \in Seq(Words) : p \o q \in Seq(Words)
  OBVIOUS
<1> QED
  BY <1>2, <1>3, <1>4, <1>5, Zenon

\* The first words of a file are those of its settings.
LEMMA ScriptBegins ==
  ASSUME NEW c \in Configs
  PROVE  /\ 0 \in 0..Len(c.areas) /\ Rest(c, 0) \in Seq(Words)
         /\ Script(c) = SettingsWords(c, SettingsBefore) \o Rest(c, 0)
<1> PICK s \in Seq(FileAreas) : s = c.areas
  BY ScriptIs
<1>1. Len(s) \in Nat /\ SubSeq(s, 1, Len(s)) = s
  OBVIOUS
<1>2. Rest(c, 0) = FlatMap(WordsOf, c.areas) \o LastWords(c)
  <2>1. 0 + 1 = 1
    OBVIOUS
  <2> QED
    BY <1>1, <2>1 DEF Rest
<1>4. /\ SettingsWords(c, SettingsBefore) \in Seq(Words) /\ LastWords(c) \in Seq(Words)
      /\ FlatMap(WordsOf, c.areas) \in Seq(Words)
      /\ Script(c) = SettingsWords(c, SettingsBefore)
                       \o FlatMap(WordsOf, c.areas) \o LastWords(c)
  BY ScriptIs
<1>5. /\ Rest(c, 0) \in Seq(Words)
      /\ Script(c) = SettingsWords(c, SettingsBefore) \o Rest(c, 0)
  <2>1. /\ (SettingsWords(c, SettingsBefore) \o FlatMap(WordsOf, c.areas)) \o LastWords(c)
             = SettingsWords(c, SettingsBefore) \o (FlatMap(WordsOf, c.areas) \o LastWords(c))
        /\ FlatMap(WordsOf, c.areas) \o LastWords(c) \in Seq(Words)
    BY <1>4, ThreeParts
  <2> QED
    BY <1>2, <1>4, <2>1
<1> QED
  BY <1>1, <1>5

\* The areas up to the kth of a file, and each zone in the last that lists it.
AreasUpto(c, k) == {c.areas[i].num : i \in 1..k}

ZonesUpto(c, k, za) ==
  /\ DOMAIN za = UNION {ZonesOf(c, i) : i \in 1..k}
  /\ \A z \in DOMAIN za :
       \E i \in 1..k :
         /\ z \in ZonesOf(c, i) /\ za[z] = c.areas[i].num
         /\ \A j \in i + 1..k : z \notin ZonesOf(c, j)

(***************************************************************************)
(* Where the loop can be in the command line made of the file c: among the *)
(* settings before the areas, of which those in q are left, at the area    *)
(* behind the kth or at its zones, among the settings after the areas, or  *)
(* at the end.                                                             *)
(***************************************************************************)
AtSettings(c, q) ==
  /\ args = SettingsWords(c, q) \o Rest(c, 0)
  /\ areas = {} /\ DOMAIN zoneArea = {}
  /\ seen \cup GivenIn(c, q) = GivenIn(c, SettingsBefore)

AtArea(c, k) ==
  /\ args = Rest(c, k)
  /\ areas = AreasUpto(c, k) /\ ZonesUpto(c, k, zoneArea)
  /\ seen = GivenIn(c, SettingsBefore)

AtZones(c, k) ==
  /\ k < Len(c.areas)
  /\ args = ZoneWords(c.areas[k + 1]) \o Rest(c, k + 1)
  /\ areanum = c.areas[k + 1].num /\ areanum \in 1..MaxAreas
  /\ areas = AreasUpto(c, k + 1) /\ ZonesUpto(c, k, zoneArea)
  /\ seen = GivenIn(c, SettingsBefore)

AtMoreSettings(c, q) ==
  /\ args = SettingsWords(c, q)
  /\ areas = AreasUpto(c, Len(c.areas))
  /\ ZonesUpto(c, Len(c.areas), zoneArea)
  /\ seen \cup GivenIn(c, q) = c.given

AtEnd(c) ==
  /\ args = << >>
  /\ areas = AreasUpto(c, Len(c.areas))
  /\ ZonesUpto(c, Len(c.areas), zoneArea)
  /\ seen = c.given

OnTrack(c) ==
  \/ \E q \in Seq(Settings) : AtSettings(c, q) \/ AtMoreSettings(c, q)
  \/ \E k \in 0..Len(c.areas) : AtArea(c, k) \/ AtZones(c, k)

FileInv ==
  \/ config = << >>
  \/ \E c \in Configs :
       /\ config = <<c>>
       /\ main = "parsing" => OnTrack(c)
       /\ main \in {"started", "forked"} => AtEnd(c)
       /\ main = "forked" => "D" \in c.given
       /\ main = "ended" => ~Valid(c)

\* What the loop does with the switch that comes next.
LEMMA StepWith ==
  ASSUME TypeOK, Next
  PROVE  /\ main = "parsing" /\ config' = config
         /\ args = << >> => Refuse \/ Start
         /\ \A c \in Settings \ Flags :
              args # << >> /\ Head(args).switch = c /\ Len(args) > 1 =>
                /\ Takes(c) /\ seen' = seen \cup {c}
                /\ UNCHANGED <<areanum, areas, zoneArea>>
                /\ \/ main' = "parsing"
                   \/ /\ main' = "ended"
                      /\ \/ c = "p" /\ number \notin Ports
                         \/ c = "S" /\ ~(number >= 60)
         /\ \A c \in Flags :
              args # << >> /\ Head(args).switch = c =>
                /\ args' = Tail(args) /\ seen' = seen \cup {c}
                /\ UNCHANGED <<areanum, areas, zoneArea, main>>
         /\ args # << >> /\ Head(args).switch = "a" /\ Len(args) > 1 => Area
         /\ args # << >> /\ Head(args).switch = "z" /\ Len(args) > 1 =>
              ZonesWithoutArea \/ ZonesOfArea
         /\ args # << >> /\ Head(args).switch = "z" /\ Len(args) = 1 => Skipped
<1> DEFINE h == Head(args).switch
<1>0. /\ Settings \ Flags = {"d", "m", "p", "l", "w", "u", "S"}
      /\ Settings \ Flags \subseteq WithValue
      /\ \A c \in Flags : c \notin WithValue
      /\ Flags \cap (Settings \ Flags) = {} /\ {"a", "z"} \cap Flags = {}
      /\ "none" \notin WithValue \cup Flags
  BY DEF Settings, Flags, WithValue
<1>1. CASE Area
  <2>1. h = "a" /\ Len(args) > 1 /\ args # << >> /\ main = "parsing" /\ config' = config
    BY <1>1 DEF Area, Takes, Given
  <2> HIDE DEF h
  <2> QED
    BY <1>0, <1>1, <2>1 DEF h
<1>2. CASE ZonesWithoutArea \/ ZonesOfArea
  <2>1. h = "z" /\ Len(args) > 1 /\ args # << >> /\ main = "parsing" /\ config' = config
    BY <1>2 DEF ZonesWithoutArea, ZonesOfArea, Takes, Given
  <2>2. Len(args) = 1 => ~(Len(args) > 1)
    OBVIOUS
  <2> QED
    BY <1>0, <1>2, <2>1, <2>2
<1>3. CASE Period
  <2>1. /\ Takes("S") /\ seen' = seen \cup {"S"} /\ UNCHANGED <<areanum, areas, zoneArea>>
        /\ main' = main \/ (main' = "ended" /\ ~(number >= 60))
    BY <1>3 DEF Period, Goes, Ends
  <2>2. h = "S" /\ args # << >> /\ main = "parsing" /\ config' = config
    BY <2>1 DEF Takes, Given
  <2> QED
    BY <1>0, <2>1, <2>2
<1>4. CASE Port
  <2>1. /\ Takes("p") /\ seen' = seen \cup {"p"} /\ UNCHANGED <<areanum, areas, zoneArea>>
        /\ main' = main \/ (main' = "ended" /\ number \notin Ports)
    BY <1>4 DEF Port, Goes, Ends
  <2>2. h = "p" /\ args # << >> /\ main = "parsing" /\ config' = config
    BY <2>1 DEF Takes, Given
  <2> QED
    BY <1>0, <2>1, <2>2
<1>5. CASE Text
  <2>1. PICK c \in {"d", "m", "u", "t", "l", "w"} : Takes(c) /\ seen' = seen \cup {c}
    BY <1>5 DEF Text
  <2>2. h = c /\ args # << >> /\ main = "parsing" /\ config' = config
    BY <2>1 DEF Takes, Given
  <2>3. UNCHANGED <<areanum, areas, zoneArea, main>>
    BY <1>5 DEF Text, Goes
  <2>4. c \notin Flags /\ c # "a" /\ c # "z"
    BY DEF Flags
  <2> QED
    BY <1>0, <2>1, <2>2, <2>3, <2>4
<1>6. CASE Flag
  <2>1. PICK c \in Flags : Given(c) /\ seen' = seen \cup {c}
    BY <1>6 DEF Flag
  <2>2. h = c /\ args # << >> /\ main = "parsing" /\ config' = config /\ args' = Tail(args)
    BY <1>6, <2>1 DEF Flag, Given
  <2>3. UNCHANGED <<areanum, areas, zoneArea, main>>
    BY <1>6 DEF Flag, Goes
  <2> QED
    BY <1>0, <2>1, <2>2, <2>3
<1>7. CASE Skipped
  <2>1. /\ h = "none" \/ (h \in WithValue /\ Len(args) = 1)
        /\ args # << >> /\ main = "parsing" /\ config' = config
    BY <1>7 DEF Skipped, Given
  <2>2. Len(args) = 1 => ~(Len(args) > 1)
    OBVIOUS
  <2>3. "a" # "none" /\ "z" # "none"
    OBVIOUS
  <2> QED
    BY <1>0, <1>7, <2>1, <2>2, <2>3
<1>8. CASE Refuse \/ Start
  BY <1>8 DEF Refuse, Start
<1> QED
  BY <1>1, <1>2, <1>3, <1>4, <1>5, <1>6, <1>7, <1>8 DEF Next, GetOpt

\* The zones of one more area are in that area, whatever area they were in.
LEMMA ZonesMore ==
  ASSUME NEW c \in Configs, NEW k \in 0..Len(c.areas) - 1, NEW za, NEW zb,
         ZonesUpto(c, k, za),
         zb = [z \in DOMAIN za \cup ZonesOf(c, k + 1) |->
                 IF z \in ZonesOf(c, k + 1) THEN c.areas[k + 1].num ELSE za[z]]
  PROVE  ZonesUpto(c, k + 1, zb)
<1>3. DOMAIN zb = UNION {ZonesOf(c, i) : i \in 1..k + 1}
  <2>2. DOMAIN za = UNION {ZonesOf(c, i) : i \in 1..k}
    BY DEF ZonesUpto
  <2>3. \A z : z \in DOMAIN zb <=> \E i \in 1..k + 1 : z \in ZonesOf(c, i)
    BY <2>2
  <2> QED
    BY <2>3
<1>4. ASSUME NEW z \in DOMAIN zb
      PROVE  \E i \in 1..k + 1 :
               /\ z \in ZonesOf(c, i) /\ zb[z] = c.areas[i].num
               /\ \A j \in i + 1..k + 1 : z \notin ZonesOf(c, j)
  <2>1. CASE z \in ZonesOf(c, k + 1)
    <3> QED
      BY <2>1
  <2>2. CASE z \notin ZonesOf(c, k + 1)
    <3>1. z \in DOMAIN za /\ zb[z] = za[z]
      BY <2>2
    <3>2. PICK i \in 1..k :
            /\ z \in ZonesOf(c, i) /\ za[z] = c.areas[i].num
            /\ \A j \in i + 1..k : z \notin ZonesOf(c, j)
      BY <3>1 DEF ZonesUpto
    <3> QED
      BY <3>2
  <2> QED
    BY <2>1, <2>2
<1> QED
  BY <1>3, <1>4 DEF ZonesUpto

\* An area without zones changes nothing of it.
LEMMA ZonesNoMore ==
  ASSUME NEW c \in Configs, NEW k \in 0..Len(c.areas) - 1, NEW za,
         ZonesUpto(c, k, za), ZonesOf(c, k + 1) = {}
  PROVE  ZonesUpto(c, k + 1, za)
<1>4. ASSUME NEW z \in DOMAIN za
      PROVE  \E i \in 1..k + 1 :
               /\ z \in ZonesOf(c, i) /\ za[z] = c.areas[i].num
               /\ \A j \in i + 1..k + 1 : z \notin ZonesOf(c, j)
  <2>1. PICK i \in 1..k :
          /\ z \in ZonesOf(c, i) /\ za[z] = c.areas[i].num
          /\ \A j \in i + 1..k : z \notin ZonesOf(c, j)
    BY DEF ZonesUpto
  <2> QED
    BY <2>1
<1> QED
  BY <1>4 DEF ZonesUpto

\* One area more is one number more.
LEMMA AreasMore ==
  ASSUME NEW c \in Configs, NEW k \in 0..Len(c.areas) - 1
  PROVE  AreasUpto(c, k + 1) = AreasUpto(c, k) \cup {c.areas[k + 1].num}
<1> QED
  BY DEF AreasUpto

\* A switch and its value come next.
LEMMA PairNext ==
  ASSUME TypeOK, NEW s \in WithValue, NEW ns \in Seq(Int),
         NEW r \in Seq(Words), args = Pair(s, ns) \o r
  PROVE  /\ args # << >> /\ Head(args).switch = s /\ Len(args) > 1 /\ nums = ns
         /\ Takes(s) => args' = r
<1>1. Switch(s) \in Words /\ Value(ns) \in Words
  BY WordTypes
<1>2. args = <<Switch(s), Value(ns)>> \o r
  BY DEF Pair
<1>0. \A u, v \in Words, q \in Seq(Words) : \A t :
        t = <<u, v>> \o q =>
          /\ t # << >> /\ Len(t) > 1 /\ Head(t) = u
          /\ t[2] = v /\ SubSeq(t, 3, Len(t)) = q
  OBVIOUS
<1>3. /\ args # << >> /\ Len(args) > 1 /\ Head(args) = Switch(s)
      /\ args[2] = Value(ns) /\ SubSeq(args, 3, Len(args)) = r
  BY <1>0, <1>1, <1>2, Zenon
<1> QED
  BY <1>3, WordTypes DEF nums, Takes

\* The next setting is taken, if its number is valid.
LEMMA FromSetting ==
  ASSUME TypeOK, NEW c \in Configs, NEW q \in Seq(Settings), NEW r \in Seq(Words),
         args = SettingsWords(c, q) \o r, GivenIn(c, q) # {}, Next
  PROVE  /\ UNCHANGED <<areanum, areas, zoneArea>>
         /\ \/ /\ main' = "parsing"
               /\ \E t \in Seq(Settings) :
                    /\ args' = SettingsWords(c, t) \o r
                    /\ seen' \cup GivenIn(c, t) = seen \cup GivenIn(c, q)
            \/ main' = "ended" /\ ~Valid(c)
<1>1. PICK s \in GivenIn(c, q), t \in Seq(Settings) :
        /\ SettingsWords(c, q) = SettingWords(c, s) \o SettingsWords(c, t)
        /\ GivenIn(c, q) = {s} \cup GivenIn(c, t)
  BY FirstGiven
<1>2. s \in Settings /\ s \in c.given
  BY ConfigsAssumption DEF GivenIn, Files
<1> DEFINE left == SettingsWords(c, t) \o r
<1>3. SettingWords(c, s) \in Seq(Words) /\ SettingsWords(c, t) \in Seq(Words)
  BY <1>2, SettingWordsAre, SettingsWordsAre
<1>4. args = SettingWords(c, s) \o left /\ left \in Seq(Words)
  <2>1. /\ (SettingWords(c, s) \o SettingsWords(c, t)) \o r
             = SettingWords(c, s) \o (SettingsWords(c, t) \o r)
        /\ SettingsWords(c, t) \o r \in Seq(Words)
    BY <1>3, ThreeParts
  <2> QED
    BY <1>1, <2>1
<1>5. args' = left /\ seen' = seen \cup {s} /\ main' = "parsing" =>
        \E x \in Seq(Settings) :
          /\ args' = SettingsWords(c, x) \o r
          /\ seen' \cup GivenIn(c, x) = seen \cup GivenIn(c, q)
  BY <1>1
<1> HIDE DEF left
<1>6. CASE s \in Flags
  <2>1. args = <<Switch(s)>> \o left /\ Switch(s) \in Words
    BY <1>2, <1>4, <1>6, SettingWordsAre, WordTypes
  <2>2. \A u \in Words, w \in Seq(Words) : \A x :
          x = <<u>> \o w => x # << >> /\ Head(x) = u /\ Tail(x) = w
    OBVIOUS
  <2>3. args # << >> /\ Head(args) = Switch(s) /\ Tail(args) = left
    BY <1>4, <2>1, <2>2, Zenon
  <2>4. Head(args).switch = s
    BY <2>3, WordTypes, Zenon
  <2>5. /\ args' = Tail(args) /\ seen' = seen \cup {s} /\ main = "parsing"
        /\ UNCHANGED <<areanum, areas, zoneArea, main>>
    BY <1>6, <2>3, <2>4, StepWith
  <2> QED
    BY <1>5, <2>3, <2>5
<1>7. CASE s \notin Flags
  <2>1. PICK n \in Int : /\ SettingWords(c, s) = Pair(s, <<n>>)
                         /\ (s = "p" => n = c.port)
                         /\ (s = "S" => n = c.status_period)
    BY <1>2, <1>7, SettingWordsAre
  <2>2. s \in WithValue /\ <<n>> \in Seq(Int)
    BY <1>2, <1>7 DEF Settings, WithValue, Flags
  <2>3. /\ args # << >> /\ Head(args).switch = s /\ Len(args) > 1 /\ nums = <<n>>
        /\ Takes(s) => args' = left
    BY <1>4, <2>1, <2>2, PairNext
  <2>4. /\ Takes(s) /\ seen' = seen \cup {s} /\ UNCHANGED <<areanum, areas, zoneArea>>
        /\ \/ main' = "parsing"
           \/ /\ main' = "ended"
              /\ \/ s = "p" /\ number \notin Ports
                 \/ s = "S" /\ ~(number >= 60)
    BY <1>2, <1>7, <2>3, StepWith
  <2>5. number = n
    <3>1. <<n>> # << >> /\ <<n>>[1] = n
      OBVIOUS
    <3>2. args[2].nums = <<n>>
      BY <2>3 DEF nums
    <3> QED
      BY <3>1, <3>2, Zenon DEF number, Number
  <2>6. CASE main' = "parsing"
    BY <1>5, <2>3, <2>4, <2>6
  <2>7. CASE main' = "ended" /\ s = "p" /\ number \notin Ports
    BY <1>2, <2>1, <2>4, <2>5, <2>7 DEF Valid
  <2>8. CASE main' = "ended" /\ s = "S" /\ ~(number >= 60)
    BY <1>2, <2>1, <2>4, <2>5, <2>8 DEF Valid
  <2> QED
    BY <2>4, <2>6, <2>7, <2>8
<1> QED
  BY <1>6, <1>7

\* When no setting is left, the loop is at the first area, or at the end.
LEMMA SettingsDone ==
  ASSUME NEW c \in Configs, NEW q \in Seq(Settings), GivenIn(c, q) = {}
  PROVE  /\ AtSettings(c, q) => AtArea(c, 0)
         /\ AtMoreSettings(c, q) => AtEnd(c)
<1>1. SettingsWords(c, q) = << >> /\ Rest(c, 0) \in Seq(Words)
  BY FirstGiven, ScriptBegins
<1>2. \A u \in Seq(Words) : << >> \o u = u
  OBVIOUS
<1>3. SettingsWords(c, q) \o Rest(c, 0) = Rest(c, 0)
  BY <1>1, <1>2, Zenon
<1>4. ASSUME DOMAIN zoneArea = {}
      PROVE  AreasUpto(c, 0) = {} /\ ZonesUpto(c, 0, zoneArea)
  BY <1>4 DEF AreasUpto, ZonesUpto
<1> QED
  BY <1>1, <1>3, <1>4 DEF AtSettings, AtArea, AtMoreSettings, AtEnd

\* From an area to its zones, if the area is valid.
LEMMA FromArea ==
  ASSUME TypeOK, NEW c \in Configs, NEW k \in 0..Len(c.areas), k < Len(c.areas),
         AtArea(c, k), Next
  PROVE  \/ AtZones(c, k)' /\ main' = "parsing"
         \/ main' = "ended" /\ ~Valid(c)
<1> DEFINE a == c.areas[k + 1]
<1> DEFINE r == ZoneWords(a) \o Rest(c, k + 1)
<1>1. args = Pair("a", <<a.num>>) \o r /\ r \in Seq(Words) /\ a.num \in Int
  BY RestIs DEF AtArea, FileAreas
<1> HIDE DEF r, a
<1>2. <<a.num>> \in Seq(Int)
  BY <1>1
<1>3. /\ args # << >> /\ Head(args).switch = "a" /\ Len(args) > 1
      /\ nums = <<a.num>>
      /\ Takes("a") => args' = r
  BY <1>1, <1>2, PairNext DEF WithValue
<1>4. Area /\ Takes("a") /\ main = "parsing"
  BY <1>3, StepWith DEF Area
<1>5. number = a.num
  <2>1. <<a.num>> # << >> /\ <<a.num>>[1] = a.num
    OBVIOUS
  <2>2. args[2].nums = <<a.num>>
    BY <1>3 DEF nums
  <2> QED
    BY <2>1, <2>2, Zenon DEF number, Number
<1>6. args' = r /\ areanum' = a.num /\ UNCHANGED <<zoneArea, seen>>
  <2>1. areanum' = number /\ UNCHANGED <<zoneArea, seen>>
    BY <1>4, Zenon DEF Area
  <2> QED
    BY <1>3, <1>4, <1>5, <2>1, Zenon
<1>7. CASE a.num \in 1..MaxAreas
  <2>1. areas' = areas \cup {a.num} /\ main' = "parsing"
    BY <1>4, <1>5, <1>7 DEF Area, Goes
  <2>2. areas' = AreasUpto(c, k + 1)
    BY <2>1, AreasMore DEF AtArea, a
  <2>3. ZonesUpto(c, k, zoneArea') /\ seen' = GivenIn(c, SettingsBefore)
    BY <1>6 DEF AtArea
  <2> QED
    BY <1>6, <1>7, <2>1, <2>2, <2>3, Zenon DEF AtZones, a, r
<1>8. CASE a.num \notin 1..MaxAreas
  <2>1. main' = "ended"
    BY <1>4, <1>5, <1>8 DEF Area, Ends
  <2>2. ~Valid(c)
    BY <1>8 DEF Valid, a
  <2> QED
    BY <2>1, <2>2
<1> QED
  BY <1>7, <1>8

\* The first of the words left over is a switch: strtol() reads no zone in it.
LEMMA RestHasSwitchFirst ==
  ASSUME NEW c \in Configs, NEW k \in 0..Len(c.areas), Rest(c, k) # << >>
  PROVE  Head(Rest(c, k)).nums = <<0>>
<1>0. \A u, v \in Words, q \in Seq(Words) : Head(<<u, v>> \o q) = u
  OBVIOUS
<1>1. CASE k < Len(c.areas)
  <2> DEFINE a == c.areas[k + 1]
  <2> DEFINE r == ZoneWords(a) \o Rest(c, k + 1)
  <2>1. Rest(c, k) = Pair("a", <<a.num>>) \o r /\ r \in Seq(Words) /\ a.num \in Int
    BY <1>1, RestIs DEF FileAreas
  <2> HIDE DEF r, a
  <2>2. Switch("a") \in Words /\ Value(<<a.num>>) \in Words
    BY <2>1, WordTypes DEF WithValue
  <2>3. Head(Rest(c, k)) = Switch("a")
    BY <1>0, <2>1, <2>2, Zenon DEF Pair
  <2> QED
    BY <2>3, WordTypes, Zenon
<1>2. CASE ~(k < Len(c.areas))
  <2>1. k = Len(c.areas)
    BY <1>2
  <2>2. Rest(c, k) = LastWords(c)
    BY <2>1, RestIs
  <2>3. SettingsAfter \in Seq(Settings) /\ SettingsWords(c, SettingsAfter) # << >>
    BY <2>2, AllSettings DEF LastWords
  <2>4. PICK s \in GivenIn(c, SettingsAfter), t \in Seq(Settings) :
          SettingsWords(c, SettingsAfter) = SettingWords(c, s) \o SettingsWords(c, t)
    BY <2>3, FirstGiven
  <2>5. s \in Settings /\ s \in c.given
    BY ConfigsAssumption DEF GivenIn, Files
  <2>6. SettingsWords(c, t) \in Seq(Words) /\ Switch(s) \in Words
    BY <2>5, SettingsWordsAre, WordTypes DEF Settings, WithValue, Flags
  <2>7. \A u \in Words, w \in Seq(Words) : Head(<<u>> \o w) = u
    OBVIOUS
  <2>8. Head(Rest(c, k)) = Switch(s)
    <3>1. CASE s \in Flags
      <4>1. SettingWords(c, s) = <<Switch(s)>>
        BY <2>5, <3>1, SettingWordsAre
      <4> QED
        BY <2>2, <2>4, <2>6, <2>7, <4>1, Zenon DEF LastWords
    <3>2. CASE s \notin Flags
      <4>1. PICK n \in Int : SettingWords(c, s) = <<Switch(s), Value(<<n>>)>>
        <5>1. \E n \in Int : SettingWords(c, s) = Pair(s, <<n>>)
          BY <2>5, <3>2, SettingWordsAre
        <5> QED
          BY <5>1, Zenon DEF Pair
      <4>2. Value(<<n>>) \in Words
        BY WordTypes
      <4>3. Head(<<Switch(s), Value(<<n>>)>> \o SettingsWords(c, t)) = Switch(s)
        BY <1>0, <2>6, <4>2, Zenon
      <4> QED
        BY <2>2, <2>4, <4>1, <4>3, Zenon DEF LastWords
    <3> QED
      BY <3>1, <3>2
  <2> QED
    BY <2>8, WordTypes, Zenon
<1> QED
  BY <1>1, <1>2

\* From the zones of an area to the next area, if they are valid.
LEMMA FromZones ==
  ASSUME TypeOK, NEW c \in Configs, NEW k \in 0..Len(c.areas), AtZones(c, k), Next,
         c.areas[k + 1].zones # << >>
  PROVE  \/ AtArea(c, k + 1)' /\ main' = "parsing"
         \/ main' = "ended" /\ ~Valid(c)
<1> DEFINE a == c.areas[k + 1]
<1> DEFINE r == Rest(c, k + 1)
<1>0. /\ k \in 0..Len(c.areas) - 1 /\ k + 1 \in 1..Len(c.areas)
  BY DEF AtZones
<1>1. args = Pair("z", a.zones) \o r /\ r \in Seq(Words) /\ a.zones \in Seq(Int)
  BY RestIs DEF AtZones, FileAreas, ZoneWords
<1> HIDE DEF r, a
<1>3. /\ args # << >> /\ Head(args).switch = "z" /\ Len(args) > 1
      /\ nums = a.zones
      /\ Takes("z") => args' = r
  BY <1>1, PairNext DEF WithValue
<1>4. ZonesOfArea /\ Takes("z") /\ main = "parsing"
  <2>1. areanum # 0
    BY DEF AtZones
  <2> QED
    BY <1>3, <2>1, StepWith DEF ZonesOfArea, ZonesWithoutArea
<1>5. GoodZones \subseteq ToSet(a.zones)
  <2>1. GoodZones \subseteq {nums[i] : i \in DOMAIN nums}
    BY NumsAre DEF GoodZones
  <2> QED
    BY <1>3, <2>1 DEF ToSet
<1>6. CASE \A i \in 1..Len(nums) : nums[i] \in GoodZones
  <2>1. main' = "parsing" /\ zoneArea' = Assigned(GoodZones)
    BY <1>4, <1>6 DEF ZonesOfArea, Goes
  <2>2. GoodZones = ZonesOf(c, k + 1)
    BY <1>3, <1>5, <1>6 DEF ToSet, ZonesOf, a
  <2>3. areanum = c.areas[k + 1].num /\ ZonesUpto(c, k, zoneArea)
    BY DEF AtZones
  <2>4. ZonesUpto(c, k + 1, zoneArea')
    BY <1>0, <2>1, <2>2, <2>3, ZonesMore DEF Assigned
  <2>5. args' = Rest(c, k + 1) /\ UNCHANGED <<areas, seen>>
    BY <1>3, <1>4 DEF ZonesOfArea, r
  <2>6. areas' = AreasUpto(c, k + 1) /\ seen' = GivenIn(c, SettingsBefore)
    BY <2>5 DEF AtZones
  <2> QED
    BY <2>1, <2>4, <2>5, <2>6, Zenon DEF AtArea
<1>7. CASE ~\A i \in 1..Len(nums) : nums[i] \in GoodZones
  <2>1. main' = "ended"
    BY <1>4, <1>7 DEF ZonesOfArea, Ends
  <2>2. ~Valid(c)
    <3> SUFFICES ASSUME Valid(c) PROVE FALSE
      OBVIOUS
    <3>1. ToSet(nums) \subseteq 1..MaxZones
      BY <1>0, <1>3 DEF Valid, a
    <3>2. Len(nums) \in Nat /\ \A i \in 1..Len(nums) : nums[i] \in 1..MaxZones
      BY <3>1 DEF ToSet
    <3>3. \A i \in 1..Len(nums) : \A j \in 1..i : j \in 1..Len(nums)
      OBVIOUS
    <3>4. \A i \in 1..Len(nums) : nums[i] \in GoodZones
      BY <3>2, <3>3, Zenon DEF GoodZones
    <3> QED
      BY <1>7, <3>4
  <2> QED
    BY <2>1, <2>2
<1> QED
  BY <1>6, <1>7

\* A list without zones leaves -z without a value, or with a switch for one.
LEMMA FromNoZones ==
  ASSUME TypeOK, NEW c \in Configs, NEW k \in 0..Len(c.areas), AtZones(c, k), Next,
         c.areas[k + 1].zones = << >>
  PROVE  \/ AtArea(c, k + 1)' /\ main' = "parsing"
         \/ main' = "ended" /\ ~Valid(c)
<1> DEFINE r == Rest(c, k + 1)
<1>0. /\ k \in 0..Len(c.areas) - 1 /\ k + 1 \in 1..Len(c.areas)
      /\ k + 1 \in 0..Len(c.areas)
  BY DEF AtZones
<1>1. args = <<Switch("z")>> \o r /\ r \in Seq(Words) /\ Switch("z") \in Words
  BY RestIs, WordTypes DEF AtZones, ZoneWords, WithValue
<1>9. r = Rest(c, k + 1)
  OBVIOUS
<1> HIDE DEF r
<1>3. /\ args # << >> /\ Len(args) = Len(r) + 1 /\ Head(args) = Switch("z")
      /\ Tail(args) = r
      /\ Len(args) > 1 => args[2] = Head(r) /\ r # << >>
  <2> PICK u \in Words : u = Switch("z")
    BY <1>1, Zenon
  <2> QED
    BY <1>1
<1>4. Head(args).switch = "z"
  BY <1>3, WordTypes, Zenon
<1>5. CASE Len(args) = 1
  <2>1. Skipped
    BY <1>3, <1>4, <1>5, StepWith
  <2>2. args' = r /\ UNCHANGED <<areanum, areas, zoneArea, seen, main>>
    BY <1>3, <2>1, Zenon DEF Skipped, Goes, options
  <2>3. ZonesOf(c, k + 1) = {}
    BY DEF ZonesOf, ToSet
  <2>4. /\ ZonesUpto(c, k, zoneArea) /\ areas = AreasUpto(c, k + 1)
        /\ seen = GivenIn(c, SettingsBefore)
    BY DEF AtZones
  <2>5. ZonesUpto(c, k + 1, zoneArea)
    BY <1>0, <2>3, <2>4, ZonesNoMore
  <2>6. main' = "parsing"
    BY <2>2, StepWith
  <2> QED
    BY <1>9, <2>2, <2>4, <2>5, <2>6, Zenon DEF AtArea
<1>6. CASE Len(args) # 1
  <2>1. Len(args) > 1
    BY <1>3, <1>6
  <2>2. nums = <<0>>
    BY <1>0, <1>3, <1>9, <2>1, RestHasSwitchFirst DEF nums
  <2>3. ZonesOfArea
    <3>1. areanum # 0
      BY DEF AtZones
    <3> QED
      BY <1>4, <2>1, <3>1, StepWith DEF ZonesWithoutArea
  <2>4. 1 \in 1..Len(nums) /\ nums[1] = 0
    BY <2>2
  <2>5. nums[1] \notin GoodZones
    <3>1. GoodZones \subseteq 1..MaxZones
      BY <2>1, NumsAre DEF TypeOK
    <3> QED
      BY <2>4, <3>1
  <2>6. main' = "ended"
    BY <2>3, <2>4, <2>5 DEF ZonesOfArea, Ends
  <2>7. ~Valid(c)
    BY <1>0 DEF Valid
  <2> QED
    BY <2>6, <2>7
<1> QED
  BY <1>5, <1>6

\* Behind the last area come the other settings.
LEMMA AreasDone ==
  ASSUME NEW c \in Configs, AtArea(c, Len(c.areas))
  PROVE  AtMoreSettings(c, SettingsAfter) /\ SettingsAfter \in Seq(Settings)
<1>1. Len(c.areas) \in 0..Len(c.areas)
  <2> PICK s \in Seq(FileAreas) : s = c.areas
    BY ScriptIs
  <2> QED
    OBVIOUS
<1>2. args = SettingsWords(c, SettingsAfter)
  BY <1>1, RestIs DEF AtArea, LastWords
<1> QED
  BY <1>2, AllSettings DEF AtArea, AtMoreSettings

\* A file that is refused is not valid, and the daemon goes on in a child only
\* if the file says so.
LEMMA FromEnd ==
  ASSUME TypeOK, NEW c \in Configs, AtEnd(c), Next
  PROVE  \/ main' = "started" /\ AtEnd(c)'
         \/ main' = "forked" /\ AtEnd(c)' /\ "D" \in c.given
         \/ main' = "ended" /\ ~Valid(c)
<1>0. Refuse \/ Start
  BY StepWith DEF AtEnd
<1>1. CASE Refuse
  <2>1. main' = "ended"
    BY <1>1 DEF Refuse, Ends
  <2>2. PICK i \in Refused : TRUE
    BY <1>1 DEF Refuse
  <2>3. "version" \notin seen /\ "h" \notin seen /\ "d" \in seen
    <3>1. c.given \subseteq Settings /\ "d" \in c.given
      BY ConfigsAssumption DEF Files
    <3> QED
      BY <3>1 DEF AtEnd, Settings
  <2>4. ~areaset \/ ~zonesset \/ "m" \notin seen
    <3>1. i \in 1..6 /\ Refusals[i][1]
      BY DEF Refused, Refusals
    <3>2. /\ Refusals[1][1] = ("version" \in seen) /\ Refusals[2][1] = ("h" \in seen)
          /\ Refusals[3][1] = ~areaset /\ Refusals[4][1] = ~zonesset
          /\ Refusals[5][1] = ("d" \notin seen) /\ Refusals[6][1] = ("m" \notin seen)
      BY DEF Refusals
    <3>3. i = 1 \/ i = 2 \/ i = 3 \/ i = 4 \/ i = 5 \/ i = 6
      BY <3>1
    <3> QED
      BY <2>3, <3>1, <3>2, <3>3, Zenon
  <2>5. ~Valid(c)
    <3> SUFFICES ASSUME Valid(c) PROVE FALSE
      OBVIOUS
    <3> PICK s \in Seq(FileAreas) : s = c.areas
      BY ScriptIs
    <3>1. s # << >> /\ Len(s) \in Nat
      BY DEF Valid
    <3>2. 1 \in 1..Len(s)
      BY <3>1
    <3>3. s[1] \in FileAreas /\ s[1].zones # << >>
      BY DEF Valid
    <3> PICK t \in Seq(Int) : t = s[1].zones
      BY <3>3 DEF FileAreas
    <3>4. t # << >> /\ Len(t) \in Nat
      BY <3>3
    <3>5. 1 \in DOMAIN t
      BY <3>4
    <3>6. t[1] \in ZonesOf(c, 1)
      BY <3>5 DEF ZonesOf, ToSet
    <3>7. s[1].num \in AreasUpto(c, Len(c.areas))
      BY <3>2 DEF AreasUpto
    <3>8. t[1] \in DOMAIN zoneArea /\ areas # {}
      BY <3>2, <3>6, <3>7 DEF AtEnd, ZonesUpto
    <3>9. "m" \in seen
      BY DEF Valid, AtEnd
    <3> QED
      BY <2>4, <3>8, <3>9 DEF areaset, zonesset
  <2> QED
    BY <2>1, <2>5
<1>2. CASE Start
  <2>1. /\ UNCHANGED <<args, areas, zoneArea, seen>>
        /\ main' = "started" \/ (main' = "forked" /\ "D" \in seen)
    BY <1>2 DEF Start, options
  <2> QED
    BY <2>1 DEF AtEnd
<1> QED
  BY <1>0, <1>1, <1>2

\* At first the whole command line of the file is left.
LEMMA InitFile == Init => FileInv
<1> SUFFICES ASSUME Init, config # << >> PROVE FileInv
  BY DEF FileInv
<1>1. PICK c \in Configs : line = Script(c) /\ config = <<c>>
  BY DEF Init
<1>2. AtSettings(c, SettingsBefore) /\ SettingsBefore \in Seq(Settings)
  BY <1>1, ScriptBegins, AllSettings DEF Init, AtSettings
<1>3. main = "parsing"
  BY DEF Init
<1> QED
  BY <1>1, <1>2, <1>3 DEF FileInv, OnTrack

\* Every step stays on the way through the file, or ends with an error that
\* only a file that is not valid can cause.
LEMMA StepFile == TypeOK /\ FileInv /\ [Next]_vars => FileInv'
<1> SUFFICES ASSUME TypeOK, FileInv, [Next]_vars PROVE FileInv'
  OBVIOUS
<1>1. CASE UNCHANGED vars
  BY <1>1 DEF vars, options, FileInv, OnTrack, AtSettings, AtArea, AtZones,
     AtMoreSettings, AtEnd
<1>2. CASE Next
  <2>1. config' = config /\ main = "parsing"
    BY <1>2, StepWith
  <2>2. CASE config = << >>
    BY <2>1, <2>2 DEF FileInv
  <2>3. CASE config # << >>
    <3>1. PICK c \in Configs : config = <<c>> /\ OnTrack(c)
      BY <2>1, <2>3 DEF FileInv
    <3> DEFINE Right == \/ OnTrack(c)' /\ main' = "parsing"
                        \/ main' = "started" /\ AtEnd(c)'
                        \/ main' = "forked" /\ AtEnd(c)' /\ "D" \in c.given
                        \/ main' = "ended" /\ ~Valid(c)
    <3>2. ASSUME NEW q \in Seq(Settings), AtMoreSettings(c, q) PROVE Right
      <4>1. CASE GivenIn(c, q) = {}
        <5>1. AtEnd(c)
          BY <3>2, <4>1, SettingsDone
        <5> QED
          BY <1>2, <5>1, FromEnd
      <4>2. CASE GivenIn(c, q) # {}
        <5>1. args = SettingsWords(c, q) \o << >> /\ << >> \in Seq(Words)
              /\ \A t \in Seq(Settings) : SettingsWords(c, t) \o << >> = SettingsWords(c, t)
          <6>1. << >> \in Seq(Words) /\ \A u \in Seq(Words) : u \o << >> = u
            OBVIOUS
          <6>2. \A t \in Seq(Settings) : SettingsWords(c, t) \in Seq(Words)
            BY SettingsWordsAre
          <6>3. args = SettingsWords(c, q)
            BY <3>2 DEF AtMoreSettings
          <6> QED
            BY <6>1, <6>2, <6>3, Zenon
        <5>2. /\ UNCHANGED <<areanum, areas, zoneArea>>
              /\ \/ /\ main' = "parsing"
                    /\ \E t \in Seq(Settings) :
                         /\ args' = SettingsWords(c, t) \o << >>
                         /\ seen' \cup GivenIn(c, t) = seen \cup GivenIn(c, q)
                 \/ main' = "ended" /\ ~Valid(c)
          BY <1>2, <4>2, <5>1, FromSetting
        <5>3. CASE main' = "parsing"
          <6>1. PICK t \in Seq(Settings) :
                  /\ args' = SettingsWords(c, t)
                  /\ seen' \cup GivenIn(c, t) = seen \cup GivenIn(c, q)
            BY <5>1, <5>2, <5>3
          <6>2. AtMoreSettings(c, t)'
            BY <3>2, <5>2, <6>1 DEF AtMoreSettings
          <6> QED
            BY <5>3, <6>2 DEF OnTrack
        <5> QED
          BY <5>2, <5>3
      <4> QED
        BY <4>1, <4>2
    <3>3. ASSUME NEW k \in 0..Len(c.areas), AtArea(c, k) PROVE Right
      <4>1. CASE k < Len(c.areas)
        BY <1>2, <3>3, <4>1, FromArea DEF OnTrack
      <4>2. CASE ~(k < Len(c.areas))
        <5>1. k = Len(c.areas)
          BY <4>2
        <5>2. AtMoreSettings(c, SettingsAfter) /\ SettingsAfter \in Seq(Settings)
          BY <3>3, <5>1, AreasDone
        <5> QED
          BY <3>2, <5>2
      <4> QED
        BY <4>1, <4>2
    <3>4. ASSUME NEW q \in Seq(Settings), AtSettings(c, q) PROVE Right
      <4>1. CASE GivenIn(c, q) = {}
        BY <3>3, <3>4, <4>1, SettingsDone, ScriptBegins
      <4>2. CASE GivenIn(c, q) # {}
        <5>1. /\ UNCHANGED <<areanum, areas, zoneArea>>
              /\ \/ /\ main' = "parsing"
                    /\ \E t \in Seq(Settings) :
                         /\ args' = SettingsWords(c, t) \o Rest(c, 0)
                         /\ seen' \cup GivenIn(c, t) = seen \cup GivenIn(c, q)
                 \/ main' = "ended" /\ ~Valid(c)
          BY <1>2, <3>4, <4>2, FromSetting, ScriptBegins DEF AtSettings
        <5>2. CASE main' = "parsing"
          <6>1. PICK t \in Seq(Settings) :
                  /\ args' = SettingsWords(c, t) \o Rest(c, 0)
                  /\ seen' \cup GivenIn(c, t) = seen \cup GivenIn(c, q)
            BY <5>1, <5>2
          <6>2. AtSettings(c, t)'
            BY <3>4, <5>1, <6>1 DEF AtSettings
          <6> QED
            BY <5>2, <6>2 DEF OnTrack
        <5> QED
          BY <5>1, <5>2
      <4> QED
        BY <4>1, <4>2
    <3>5. ASSUME NEW k \in 0..Len(c.areas), AtZones(c, k) PROVE Right
      <4>1. \/ AtArea(c, k + 1)' /\ main' = "parsing"
            \/ main' = "ended" /\ ~Valid(c)
        BY <1>2, <3>5, FromZones, FromNoZones
      <4>2. k + 1 \in 0..Len(c.areas)
        BY <3>5 DEF AtZones
      <4> QED
        BY <4>1, <4>2 DEF OnTrack
    <3>6. Right
      BY <3>1, <3>2, <3>3, <3>4, <3>5 DEF OnTrack
    <3> QED
      BY <2>1, <3>1, <3>6 DEF FileInv
  <2> QED
    BY <2>2, <2>3
<1> QED
  BY <1>1, <1>2

\* No valid file is refused, the daemon is left to a child only if the file
\* says so, and a daemon that was started from a file has its settings, its
\* areas, and each of its zones in the last area that lists it, whatever the
\* file.
THEOREM FilesAreFollowed == Spec => []ScriptFaithful
<1>1. Spec => [](TypeOK /\ FileInv)
  BY InitTypes, InitFile, StepTypes, StepFile, PTL DEF Spec
<1>2. ASSUME FileInv PROVE ScriptFaithful
  <2> SUFFICES ASSUME NEW c \in ToSet(config)
               PROVE  /\ main = "ended" => ~Valid(c)
                      /\ main = "forked" => "D" \in c.given
                      /\ main \in {"started", "forked"} =>
                           /\ seen = c.given
                           /\ areas = AreasUpto(c, Len(c.areas))
                           /\ ZonesUpto(c, Len(c.areas), zoneArea)
    BY DEF ScriptFaithful, AreasUpto, ZonesUpto
  <2>1. config # << >>
    BY DEF ToSet
  <2>2. PICK d \in Configs :
          /\ config = <<d>>
          /\ main \in {"started", "forked"} => AtEnd(d)
          /\ main = "forked" => "D" \in d.given
          /\ main = "ended" => ~Valid(d)
    BY <1>2, <2>1 DEF FileInv
  <2>3. c = d
    BY <2>2 DEF ToSet
  <2> QED
    BY <2>2, <2>3 DEF AtEnd
<1> QED
  BY <1>1, <1>2, PTL

=============================================================================
