--------------------------- MODULE FlattenProofs ---------------------------
(***************************************************************************)
(* What FlattenSeq computes, for every sequence of sequences.              *)
(*                                                                         *)
(* The induction theorems of the library are about an operator, which the  *)
(* provers cannot instantiate.  Here induction is a fact about sets: it    *)
(* follows from < being well founded on Nat.                               *)
(***************************************************************************)
EXTENDS Integers, SequencesExt, SequenceTheorems, WellFoundedInduction, TLAPS

-----------------------------------------------------------------------------
Less == {p \in Nat \X Nat : p[1] < p[2]}

\* < has no endless descent in Nat.
LEMMA LessIsWellFounded == IsWellFoundedOn(Less, Nat)
BY NatLessThanWellFounded DEF OpToRel, Less

\* A set of naturals that holds 0 and is closed under successor is Nat.
LEMMA NatSets ==
  ASSUME NEW T \in SUBSET Nat, 0 \in T, \A n \in T : n + 1 \in T
  PROVE  T = Nat
<1> SUFFICES ASSUME Nat \ T # {} PROVE FALSE
  OBVIOUS
<1>1. PICK n \in Nat \ T : \A m \in Nat \ T : <<m, n>> \notin Less
  <2> QED
    BY LessIsWellFounded, WFMin
<1>3. <<n - 1, n>> \in Less
  BY DEF Less
<1>4. n - 1 \in T
  BY <1>1, <1>3
<1> QED
  BY <1>4

\* A set of sequences that holds the empty one and is closed under Append
\* holds every sequence.
LEMMA SeqSets ==
  ASSUME NEW S, NEW T, << >> \in T,
         \A s \in Seq(S), e \in S : s \in T => Append(s, e) \in T
  PROVE  Seq(S) \subseteq T
<1> DEFINE Lens == {n \in Nat : \A s \in Seq(S) : Len(s) = n => s \in T}
<1>1. 0 \in Lens
  OBVIOUS
<1>2. ASSUME NEW n \in Lens PROVE n + 1 \in Lens
  <2> SUFFICES ASSUME NEW s \in Seq(S), Len(s) = n + 1 PROVE s \in T
    OBVIOUS
  <2>2. PICK r \in Seq(S), e \in S : s = Append(r, e)
    BY SequenceEmptyOrAppend
  <2> QED
    BY <2>2
<1> HIDE DEF Lens
<1>3. Lens = Nat
  <2>1. Lens \in SUBSET Nat
    BY DEF Lens
  <2> QED
    BY <1>1, <1>2, <2>1, NatSets
<1> QED
  BY <1>3 DEF Lens

-----------------------------------------------------------------------------
(***************************************************************************)
(* The function in the definition of FlattenSeq: there is one, and only    *)
(* one.                                                                    *)
(***************************************************************************)
Flattens(f, ss) ==
  f = [i \in 1..Len(ss) |-> IF i = 1 THEN ss[i] ELSE f[i - 1] \o ss[i]]

\* There is at most one such function ...
LEMMA FlattensOnce ==
  ASSUME NEW ss, Len(ss) \in Nat, NEW f, NEW g, Flattens(f, ss), Flattens(g, ss)
  PROVE  f = g
<1>0. \A i \in 1..Len(ss) :
        /\ f[i] = IF i = 1 THEN ss[i] ELSE f[i - 1] \o ss[i]
        /\ g[i] = IF i = 1 THEN ss[i] ELSE g[i - 1] \o ss[i]
  BY DEF Flattens
<1> DEFINE T == {n \in Nat : n \in 1..Len(ss) => f[n] = g[n]}
<1>1. 0 \in T
  OBVIOUS
<1>2. ASSUME NEW n \in T PROVE n + 1 \in T
  <2> SUFFICES ASSUME n + 1 \in 1..Len(ss) PROVE f[n + 1] = g[n + 1]
    OBVIOUS
  <2>1. /\ f[n + 1] = IF n + 1 = 1 THEN ss[n + 1] ELSE f[n + 1 - 1] \o ss[n + 1]
        /\ g[n + 1] = IF n + 1 = 1 THEN ss[n + 1] ELSE g[n + 1 - 1] \o ss[n + 1]
    BY <1>0
  <2>2. CASE n = 0
    BY <2>1
  <2>3. CASE n # 0
    <3> QED
      BY <2>1
  <2> QED
    BY <2>2, <2>3
<1> HIDE DEF T
<1>3. T = Nat
  <2>1. T \in SUBSET Nat
    BY DEF T
  <2> QED
    BY <1>1, <1>2, <2>1, NatSets
<1>4. \A n \in 1..Len(ss) : f[n] = g[n]
  BY <1>3 DEF T
<1> QED
  BY <1>4 DEF Flattens

\* The same up to the nth of the sequences.
FlattensUpto(f, ss, n) ==
  \A i \in 1..n : f[i] = IF i = 1 THEN ss[i] ELSE f[i - 1] \o ss[i]

\* ... and there is one.
LEMMA FlattensExists ==
  ASSUME NEW S, NEW ss \in Seq(Seq(S))
  PROVE  \E f \in [1..Len(ss) -> Seq(S)] : Flattens(f, ss)
<1> DEFINE T ==
      {n \in Nat : n <= Len(ss) =>
                     \E f \in [1..n -> Seq(S)] : FlattensUpto(f, ss, n)}
<1>1. 0 \in T
  <2>1. [i \in 1..0 |-> << >>] \in [1..0 -> Seq(S)]
    OBVIOUS
  <2>2. FlattensUpto([i \in 1..0 |-> << >>], ss, 0)
    BY DEF FlattensUpto
  <2> QED
    BY <2>1, <2>2
<1>2. ASSUME NEW n \in T PROVE n + 1 \in T
  <2> SUFFICES ASSUME n + 1 <= Len(ss)
               PROVE  \E g \in [1..n + 1 -> Seq(S)] : FlattensUpto(g, ss, n + 1)
    OBVIOUS
  <2>1. PICK f \in [1..n -> Seq(S)] : FlattensUpto(f, ss, n)
    OBVIOUS
  <2>2. ss[n + 1] \in Seq(S)
    <3>1. n + 1 \in 1..Len(ss)
      OBVIOUS
    <3> QED
      BY <3>1
  <2>3. PICK last \in Seq(S) :
          last = IF n + 1 = 1 THEN ss[n + 1] ELSE f[n] \o ss[n + 1]
    <3>1. CASE n = 0
      BY <3>1
    <3>2. CASE n # 0
      <4>1. f[n] \in Seq(S)
        BY <3>2
      <4>2. f[n] \o ss[n + 1] \in Seq(S)
        BY <2>2, <4>1
      <4> WITNESS f[n] \o ss[n + 1] \in Seq(S)
      <4>3. n + 1 # 1
        BY <3>2
      <4> QED
        BY <4>3, Zenon
    <3> QED
      BY <3>1, <3>2
  <2> DEFINE g == [i \in 1..n + 1 |-> IF i = n + 1 THEN last ELSE f[i]]
  <2>4. g \in [1..n + 1 -> Seq(S)]
    <3> QED
      OBVIOUS
  <2>5. ASSUME NEW i \in 1..n + 1
        PROVE  g[i] = IF i = 1 THEN ss[i] ELSE g[i - 1] \o ss[i]
    <3>1. CASE i = n + 1
      <4>1. i # 1 => g[i - 1] = f[n]
        BY <3>1
      <4>2. g[i] = last /\ ss[i] = ss[n + 1] /\ (i = 1 <=> n + 1 = 1)
        BY <3>1
      <4> HIDE DEF g
      <4>3. CASE i = 1
        BY <2>3, <4>2, <4>3
      <4>4. CASE i # 1
        BY <2>3, <4>1, <4>2
      <4> QED
        BY <4>3, <4>4
    <3>2. CASE i # n + 1
      <4>1. i \in 1..n /\ g[i] = f[i] /\ (i # 1 => g[i - 1] = f[i - 1])
        BY <3>2
      <4>2. f[i] = IF i = 1 THEN ss[i] ELSE f[i - 1] \o ss[i]
        BY <2>1, <4>1 DEF FlattensUpto
      <4> HIDE DEF g
      <4>3. CASE i = 1
        BY <4>1, <4>2
      <4>4. CASE i # 1
        BY <4>1, <4>2
      <4> QED
        BY <4>3, <4>4
    <3> QED
      BY <3>1, <3>2
  <2> HIDE DEF g
  <2> QED
    BY <2>4, <2>5 DEF FlattensUpto
<1> HIDE DEF T
<1>3. T = Nat
  <2>1. T \in SUBSET Nat
    BY DEF T
  <2> QED
    BY <1>1, <1>2, <2>1, NatSets
<1>4. PICK f \in [1..Len(ss) -> Seq(S)] : FlattensUpto(f, ss, Len(ss))
  <2>1. Len(ss) \in T /\ Len(ss) <= Len(ss)
    BY <1>3
  <2> QED
    BY <2>1 DEF T
<1> QED
  BY <1>4 DEF Flattens, FlattensUpto

\* Its last value is what FlattenSeq gives.
LEMMA FlattenIs ==
  ASSUME NEW S, NEW ss \in Seq(Seq(S)), Len(ss) # 0
  PROVE  /\ FlattenSeq(ss) \in Seq(S)
         /\ \E f \in [1..Len(ss) -> Seq(S)] :
              Flattens(f, ss) /\ FlattenSeq(ss) = f[Len(ss)]
<1>1. PICK f \in [1..Len(ss) -> Seq(S)] : Flattens(f, ss)
  BY FlattensExists
<1>2. Len(ss) \in Nat /\ Len(ss) \in 1..Len(ss)
  OBVIOUS
<1> DEFINE flatten == CHOOSE g : Flattens(g, ss)
<1>3. Flattens(flatten, ss)
  BY <1>1
<1>4. FlattenSeq(ss) = flatten[Len(ss)]
  BY DEF FlattenSeq, Flattens
<1> HIDE DEF flatten
<1>5. flatten = f
  BY <1>1, <1>2, <1>3, FlattensOnce
<1> QED
  BY <1>1, <1>2, <1>4, <1>5

-----------------------------------------------------------------------------
(***************************************************************************)
(* FlattenSeq.                                                             *)
(***************************************************************************)

\* Nothing flattens to nothing.
LEMMA FlattenEmpty == FlattenSeq(<< >>) = << >>
BY DEF FlattenSeq

\* What is flattened is a sequence of what the sequences are made of.
LEMMA FlattenType ==
  ASSUME NEW S, NEW ss \in Seq(Seq(S))
  PROVE  FlattenSeq(ss) \in Seq(S)
<1>1. CASE Len(ss) = 0
  BY <1>1, EmptySeq, FlattenEmpty
<1>2. CASE Len(ss) # 0
  BY <1>2, FlattenIs
<1> QED
  BY <1>1, <1>2

\* One sequence more comes behind the others.
LEMMA FlattenAppend ==
  ASSUME NEW S, NEW ss \in Seq(Seq(S)), NEW s \in Seq(S)
  PROVE  FlattenSeq(Append(ss, s)) = FlattenSeq(ss) \o s
<1> PICK tt : tt = Append(ss, s)
  OBVIOUS
<1> PICK n \in Nat : n = Len(ss)
  OBVIOUS
<1>1. /\ tt \in Seq(Seq(S)) /\ Len(tt) = n + 1
      /\ \A i \in 1..n : tt[i] = ss[i]
      /\ tt[n + 1] = s
  OBVIOUS
<1>2. PICK g \in [1..n + 1 -> Seq(S)] :
        Flattens(g, tt) /\ FlattenSeq(tt) = g[n + 1]
  <2>1. Len(tt) # 0
    OBVIOUS
  <2>2. \E g \in [1..Len(tt) -> Seq(S)] :
          Flattens(g, tt) /\ FlattenSeq(tt) = g[Len(tt)]
    BY <1>1, <2>1, FlattenIs
  <2> QED
    BY <2>2
<1>3. \A i \in 1..n + 1 : g[i] = IF i = 1 THEN tt[i] ELSE g[i - 1] \o tt[i]
  BY <1>2 DEF Flattens
<1>4. CASE n = 0
  <2>1. ss = << >>
    BY <1>4, EmptySeq
  <2> QED
    BY <1>2, <1>3, <2>1, FlattenEmpty
<1>5. CASE n # 0
  <2>1. PICK f \in [1..n -> Seq(S)] : Flattens(f, ss) /\ FlattenSeq(ss) = f[n]
    BY <1>5, FlattenIs
  <2> PICK h : h = [i \in 1..n |-> g[i]]
    OBVIOUS
  <2>2. Flattens(h, ss)
    <3>1. ASSUME NEW i \in 1..n
          PROVE  h[i] = IF i = 1 THEN ss[i] ELSE h[i - 1] \o ss[i]
      <4>1. i \in 1..n + 1 /\ (i # 1 => i - 1 \in 1..n)
        OBVIOUS
      <4>2. h[i] = g[i] /\ tt[i] = ss[i] /\ (i # 1 => h[i - 1] = g[i - 1])
        OBVIOUS
      <4> QED
        BY <1>3, <4>1, <4>2
    <3> QED
      BY <3>1 DEF Flattens
  <2>3. h = f
    BY <2>1, <2>2, FlattensOnce
  <2>4. g[n + 1] = g[n] \o s /\ g[n] = f[n]
    <3>1. n + 1 \in 1..n + 1 /\ n + 1 # 1 /\ n + 1 - 1 = n /\ n \in 1..n
      BY <1>5
    <3> QED
      <4>1. g[n + 1] = g[n] \o s
        <5> PICK m \in 1..n + 1 : m = n + 1
          OBVIOUS
        <5>1. g[m] = g[m - 1] \o tt[m]
          BY <1>3, <3>1
        <5>2. m - 1 = n
          OBVIOUS
        <5> QED
          BY <1>1, <5>1, <5>2
      <4>2. h[n] = g[n]
        BY <3>1
      <4> QED
        BY <2>3, <4>1, <4>2
  <2> QED
    BY <1>2, <2>1, <2>4
<1> QED
  BY <1>4, <1>5

\* Two sequences of sequences are flattened one after the other.
LEMMA FlattenConcat ==
  ASSUME NEW S, NEW rr \in Seq(Seq(S)), NEW ss \in Seq(Seq(S))
  PROVE  FlattenSeq(rr \o ss) = FlattenSeq(rr) \o FlattenSeq(ss)
<1> DEFINE T ==
      {tt \in Seq(Seq(S)) : FlattenSeq(rr \o tt) = FlattenSeq(rr) \o FlattenSeq(tt)}
<1>1. << >> \in T
  <2>1. FlattenSeq(rr) \in Seq(S) /\ << >> \in Seq(Seq(S))
    BY FlattenType
  <2> QED
    BY <2>1, FlattenEmpty
<1>2. ASSUME NEW tt \in Seq(Seq(S)), NEW t \in Seq(S), tt \in T
      PROVE  Append(tt, t) \in T
  <2>1. rr \o Append(tt, t) = Append(rr \o tt, t)
    <3>1. Append(tt, t) = tt \o <<t>> /\ <<t>> \in Seq(Seq(S))
      OBVIOUS
    <3>2. rr \o tt \in Seq(Seq(S))
      OBVIOUS
    <3> PICK u \in Seq(Seq(S)) : u = <<t>>
      BY <3>1
    <3> QED
      BY <3>2
  <2>2. rr \o tt \in Seq(Seq(S)) /\ Append(tt, t) \in Seq(Seq(S))
    OBVIOUS
  <2>3. /\ FlattenSeq(Append(rr \o tt, t)) = (FlattenSeq(rr) \o FlattenSeq(tt)) \o t
        /\ FlattenSeq(Append(tt, t)) = FlattenSeq(tt) \o t
    BY <1>2, <2>2, FlattenAppend
  <2>4. FlattenSeq(rr) \in Seq(S) /\ FlattenSeq(tt) \in Seq(S)
    BY FlattenType
  <2>5. (FlattenSeq(rr) \o FlattenSeq(tt)) \o t = FlattenSeq(rr) \o (FlattenSeq(tt) \o t)
    <3> PICK a \in Seq(S), b \in Seq(S) : a = FlattenSeq(rr) /\ b = FlattenSeq(tt)
      BY <2>4
    <3>1. (a \o b) \o t = a \o (b \o t)
      OBVIOUS
    <3> QED
      BY <3>1
  <2> QED
    BY <2>1, <2>2, <2>3, <2>5
<1> HIDE DEF T
<1>3. Seq(Seq(S)) \subseteq T
  BY <1>1, <1>2, SeqSets
<1> QED
  BY <1>3 DEF T

\* One sequence flattens to itself.
LEMMA FlattenOne ==
  ASSUME NEW S, NEW s \in Seq(S)
  PROVE  FlattenSeq(<<s>>) = s
<1>1. << >> \in Seq(Seq(S)) /\ <<s>> = Append(<< >>, s)
  OBVIOUS
<1>2. FlattenSeq(<<s>>) = << >> \o s
  BY <1>1, FlattenAppend, FlattenEmpty
<1> QED
  BY <1>2

-----------------------------------------------------------------------------
(***************************************************************************)
(* What is made of each element of a sequence, one after the other.        *)
(***************************************************************************)
Maps(g, S, R) == g \in [S -> Seq(R)]

Images(g, s)  == [i \in 1..Len(s) |-> g[s[i]]]
FlatMap(g, s) == FlattenSeq(Images(g, s))

\* The images of the elements are sequences.
LEMMA ImagesType ==
  ASSUME NEW S, NEW R, NEW g, Maps(g, S, R), NEW s \in Seq(S)
  PROVE  /\ Images(g, s) \in Seq(Seq(R)) /\ Len(Images(g, s)) = Len(s)
         /\ \A i \in 1..Len(s) : Images(g, s)[i] = g[s[i]]
<1>1. Len(s) \in Nat /\ \A i \in 1..Len(s) : s[i] \in S
  OBVIOUS
<1>2. Images(g, s) \in [1..Len(s) -> Seq(R)]
  BY DEF Images, Maps
<1>3. Images(g, s) \in Seq(Seq(R))
  <2>1. Seq(Seq(R)) = UNION {[1..n -> Seq(R)] : n \in Nat}
    OBVIOUS
  <2>2. [1..Len(s) -> Seq(R)] \in {[1..n -> Seq(R)] : n \in Nat}
    BY <1>1, Zenon
  <2> QED
    BY <1>2, <2>1, <2>2, Zenon
<1> QED
  BY <1>3 DEF Images

\* FlatMap gives a sequence of the images' elements.
LEMMA FlatMapType ==
  ASSUME NEW S, NEW R, NEW g, Maps(g, S, R), NEW s \in Seq(S)
  PROVE  FlatMap(g, s) \in Seq(R)
BY ImagesType, FlattenType DEF FlatMap

\* It gives nothing for nothing, ...
LEMMA FlatMapEmpty ==
  ASSUME NEW S, NEW R, NEW g, Maps(g, S, R)
  PROVE  FlatMap(g, << >>) = << >>
<1>1. \A s \in Seq(S) :
        Images(g, s) \in Seq(Seq(R)) /\ Len(Images(g, s)) = Len(s)
  BY ImagesType
<1>2. << >> \in Seq(S)
  OBVIOUS
<1>3. Images(g, << >>) \in Seq(Seq(R)) /\ Len(Images(g, << >>)) = Len(<< >>)
  BY <1>1, <1>2, Zenon
<1>4. Images(g, << >>) = << >>
  BY <1>3
<1> QED
  BY <1>4, FlattenEmpty DEF FlatMap

\* ... the two results behind each other for two sequences, ...
LEMMA FlatMapConcat ==
  ASSUME NEW S, NEW R, NEW g, Maps(g, S, R), NEW s \in Seq(S), NEW t \in Seq(S)
  PROVE  FlatMap(g, s \o t) = FlatMap(g, s) \o FlatMap(g, t)
<1>2. /\ s \o t \in Seq(S) /\ Len(s \o t) = Len(s) + Len(t)
      /\ \A i \in 1..Len(s) + Len(t) :
           (s \o t)[i] = IF i <= Len(s) THEN s[i] ELSE t[i - Len(s)]
  OBVIOUS
<1> PICK a \in Seq(Seq(R)) : a = Images(g, s)
  BY ImagesType
<1> PICK b \in Seq(Seq(R)) : b = Images(g, t)
  BY ImagesType
<1> PICK c \in Seq(Seq(R)) : c = Images(g, s \o t)
  BY <1>2, ImagesType
<1>3. /\ Len(a) = Len(s) /\ \A i \in 1..Len(s) : a[i] = g[s[i]]
      /\ Len(b) = Len(t) /\ \A i \in 1..Len(t) : b[i] = g[t[i]]
  BY ImagesType
<1>4. /\ Len(c) = Len(s) + Len(t)
      /\ \A i \in 1..Len(s) + Len(t) : c[i] = g[(s \o t)[i]]
  <2>1. \A u \in Seq(S) :
          Len(Images(g, u)) = Len(u) /\ \A i \in 1..Len(u) : Images(g, u)[i] = g[u[i]]
    BY ImagesType
  <2>2. /\ Len(c) = Len(s \o t)
        /\ \A i \in 1..Len(s \o t) : c[i] = g[(s \o t)[i]]
    BY <1>2, <2>1, Zenon
  <2> QED
    BY <2>2
<1>5. /\ a \o b \in Seq(Seq(R)) /\ Len(a \o b) = Len(s) + Len(t)
      /\ \A i \in 1..Len(s) + Len(t) :
           (a \o b)[i] = IF i <= Len(s) THEN a[i] ELSE b[i - Len(s)]
  <2>1. /\ a \o b \in Seq(Seq(R)) /\ Len(a \o b) = Len(a) + Len(b)
        /\ \A i \in 1..Len(a) + Len(b) :
             (a \o b)[i] = IF i <= Len(a) THEN a[i] ELSE b[i - Len(a)]
    OBVIOUS
  <2> QED
    BY <1>3, <2>1
<1>6. ASSUME NEW i \in 1..Len(s) + Len(t) PROVE (a \o b)[i] = c[i]
  <2>1. CASE i <= Len(s)
    <3>1. i \in 1..Len(s)
      BY <2>1
    <3>2. (a \o b)[i] = a[i] /\ c[i] = g[s[i]]
      BY <1>2, <1>4, <1>5, <2>1
    <3>3. a[i] = g[s[i]]
      BY <1>3, <3>1
    <3> QED
      BY <3>2, <3>3, Zenon
  <2>2. CASE ~(i <= Len(s))
    <3>1. i - Len(s) \in 1..Len(t)
      BY <2>2
    <3>2. (a \o b)[i] = b[i - Len(s)] /\ c[i] = g[t[i - Len(s)]]
      BY <1>2, <1>4, <1>5, <2>2
    <3>3. b[i - Len(s)] = g[t[i - Len(s)]]
      BY <1>3, <3>1
    <3> QED
      BY <3>2, <3>3, Zenon
  <2> QED
    BY <2>1, <2>2
<1>7. a \o b = c
  BY <1>4, <1>5, <1>6, SeqEqual
<1> QED
  BY <1>7, FlattenConcat DEF FlatMap

\* ... the image of the element for one, ...
LEMMA FlatMapOne ==
  ASSUME NEW S, NEW R, NEW g, Maps(g, S, R), NEW e \in S
  PROVE  FlatMap(g, <<e>>) = g[e]
<1>1. \A s \in Seq(S) :
        /\ Images(g, s) \in Seq(Seq(R)) /\ Len(Images(g, s)) = Len(s)
        /\ \A i \in 1..Len(s) : Images(g, s)[i] = g[s[i]]
  BY ImagesType
<1>2. <<e>> \in Seq(S) /\ Len(<<e>>) = 1 /\ <<e>>[1] = e
  OBVIOUS
<1>3. /\ Images(g, <<e>>) \in Seq(Seq(R)) /\ Len(Images(g, <<e>>)) = Len(<<e>>)
      /\ \A i \in 1..Len(<<e>>) : Images(g, <<e>>)[i] = g[<<e>>[i]]
  BY <1>1, <1>2, Zenon
<1>4. Images(g, <<e>>)[1] = g[e]
  <2>1. 1 \in 1..Len(<<e>>)
    OBVIOUS
  <2>2. Images(g, <<e>>)[1] = g[<<e>>[1]]
    BY <1>3, <2>1, Zenon
  <2> QED
    BY <2>2
<1> PICK a \in Seq(Seq(R)) : a = Images(g, <<e>>)
  BY <1>3
<1> PICK v \in Seq(R) : v = g[e]
  BY DEF Maps
<1>5. a = <<v>>
  <2>1. Len(a) = 1 /\ a[1] = v
    BY <1>3, <1>4
  <2> QED
    BY <2>1
<1>6. FlattenSeq(<<v>>) = v
  BY FlattenOne
<1> QED
  BY <1>5, <1>6 DEF FlatMap

\* ... and so one image more for one element more, at the end ...
LEMMA FlatMapAppend ==
  ASSUME NEW S, NEW R, NEW g, Maps(g, S, R), NEW s \in Seq(S), NEW e \in S
  PROVE  FlatMap(g, Append(s, e)) = FlatMap(g, s) \o g[e]
<1>1. <<e>> \in Seq(S)
  OBVIOUS
<1>2. Append(s, e) = s \o <<e>>
  OBVIOUS
<1>3. \A t \in Seq(S) : FlatMap(g, s \o t) = FlatMap(g, s) \o FlatMap(g, t)
  BY FlatMapConcat
<1>4. FlatMap(g, s \o <<e>>) = FlatMap(g, s) \o FlatMap(g, <<e>>)
  BY <1>1, <1>3, Zenon
<1> QED
  BY <1>2, <1>4, FlatMapOne

\* ... or at the beginning.
LEMMA FlatMapTail ==
  ASSUME NEW S, NEW R, NEW g, Maps(g, S, R), NEW s \in Seq(S), s # << >>
  PROVE  FlatMap(g, s) = g[Head(s)] \o FlatMap(g, Tail(s))
<1> PICK e \in S : e = Head(s)
  OBVIOUS
<1>1. <<e>> \in Seq(S) /\ Tail(s) \in Seq(S) /\ s = <<e>> \o Tail(s)
  OBVIOUS
<1>2. \A t, r \in Seq(S) : FlatMap(g, t \o r) = FlatMap(g, t) \o FlatMap(g, r)
  BY FlatMapConcat
<1>3. FlatMap(g, <<e>> \o Tail(s)) = FlatMap(g, <<e>>) \o FlatMap(g, Tail(s))
  BY <1>1, <1>2, Zenon
<1> QED
  BY <1>1, <1>3, FlatMapOne

=============================================================================
