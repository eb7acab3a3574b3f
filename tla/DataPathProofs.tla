------------------------------- MODULE DataPathProofs -------------------------------
(***************************************************************************)
(* The way of a stream's bytes, proved for all work, buffers and padding   *)
(* schemes.                                                                *)
(*                                                                         *)
(* What is on the wire, and the rest of the write that is going on, are    *)
(* the bytes of whole frames: those of the log that recvLoop has still to  *)
(* take, and padding (Flow).  No sequence of steps of the senders brings   *)
(* that out of order, wherever it is cut.  recvLoop hence takes the frames *)
(* of the log one by one, which makes the pipe of the path a pipe as in    *)
(* Pipe, and what the pipe has been given is the data of the frames taken, *)
(* up to where it was closed (Handed).                                     *)
(*                                                                         *)
(* What the sums over sequences (FlattenSeq) are is shown by induction on  *)
(* the least length at which a set of counterexamples is inhabited; the    *)
(* operators Maps, Partial and Mapped below are for that.                  *)
(***************************************************************************)
EXTENDS DataPath, FiniteSetTheorems, WellFoundedInduction, PipeProofs

(***************************************************************************)
(* Induction, in a form without an operator for a parameter: a set of      *)
(* natural numbers has a least one, as the intervals that end at them are  *)
(* finite sets, and there is no endless descent among these.               *)
(***************************************************************************)
LEMMA Least ==
    ASSUME NEW T \in SUBSET Nat, T # {}
    PROVE  \E m \in T : \A n \in T : m <= n
<1> DEFINE intervals == {1 .. n : n \in T}
<1>1. IsWellFoundedOn(StrictSubsetOrdering(Nat), FiniteSubsetsOf(Nat))
  BY FS_StrictSubsetOrderingWellFounded
<1>2. \A n \in T : 1 .. n \in SUBSET Nat /\ IsFiniteSet(1 .. n)
  BY FS_Interval
<1>3. intervals \subseteq FiniteSubsetsOf(Nat) /\ intervals # {}
  BY <1>2 DEF FiniteSubsetsOf
<1>4. PICK x \in intervals : \A y \in intervals : << y, x >> \notin StrictSubsetOrdering(Nat)
  BY <1>1, <1>3, WFMin
<1>5. PICK m \in T : x = 1 .. m
  OBVIOUS
<1>6. ASSUME NEW n \in T, n < m PROVE FALSE
  <2>1. 1 .. n \in intervals /\ 1 .. n \subseteq 1 .. m /\ m \in 1 .. m /\ m \notin 1 .. n
    BY <1>6
  <2>2. << 1 .. n, 1 .. m >> \in StrictSubsetOrdering(Nat)
    BY <2>1 DEF StrictSubsetOrdering
  <2>. QED
    BY <1>4, <1>5, <2>1, <2>2
<1>. QED
  BY <1>6

LEMMA SetInduction ==
    ASSUME NEW T, 0 \in T, \A n \in Nat : n \in T => n + 1 \in T
    PROVE  Nat \subseteq T
<1> SUFFICES ASSUME Nat \ T # {} PROVE FALSE
  OBVIOUS
<1>1. PICK m \in Nat \ T : \A n \in Nat \ T : m <= n
  BY Least
<1>2. m # 0 /\ m - 1 \in Nat
  BY <1>1
<1>3. m - 1 \in T
  BY <1>1, <1>2
<1>. QED
  BY <1>1, <1>2, <1>3

(***************************************************************************)
(* FlattenSeq, by the partial results it goes through.                     *)
(***************************************************************************)
Lists(S) == Seq(Seq(S))

Partial(ss, f, S) ==
    /\ f \in [0 .. Len(ss) -> Seq(S)]
    /\ f[0] = << >>
    /\ \A i \in 0 .. Len(ss) - 1 : f[i + 1] = f[i] \o ss[i + 1]

LEMMA PartialUnique ==
    ASSUME NEW S, NEW ss \in Lists(S), NEW f, NEW g, Partial(ss, f, S), Partial(ss, g, S)
    PROVE  \A i \in 0 .. Len(ss) : f[i] = g[i]
<1> DEFINE T == {i \in Nat : i \in 0 .. Len(ss) => f[i] = g[i]}
<1>0. Len(ss) \in Nat
  BY LenProperties DEF Lists
<1>1. 0 \in T
  BY DEF Partial
<1>2. ASSUME NEW n \in Nat, n \in T PROVE n + 1 \in T
  <2> SUFFICES ASSUME n + 1 \in 0 .. Len(ss) PROVE f[n + 1] = g[n + 1]
    OBVIOUS
  <2>1. n \in 0 .. Len(ss) /\ n \in 0 .. Len(ss) - 1
    BY <1>0
  <2>2. f[n + 1] = f[n] \o ss[n + 1] /\ g[n + 1] = g[n] \o ss[n + 1]
    BY <2>1 DEF Partial
  <2>3. f[n] = g[n]
    BY <1>2, <2>1
  <2>. QED
    BY <2>2, <2>3
<1>3. Nat \subseteq T
  <2> HIDE DEF T
  <2>. QED
    BY <1>1, <1>2, SetInduction
<1>. QED
  BY <1>3

Flat(ss) == CHOOSE f : f = [i \in 1 .. Len(ss) |-> IF i = 1 THEN ss[i] ELSE f[i - 1] \o ss[i]]

LEMMA FlattenIsFlat ==
    ASSUME NEW ss
    PROVE  FlattenSeq(ss) = IF Len(ss) = 0 THEN ss ELSE Flat(ss)[Len(ss)]
BY DEF FlattenSeq, Flat

LEMMA FlatExists ==
    ASSUME NEW S, NEW ss \in Lists(S)
    PROVE  \E f : f = [i \in 1 .. Len(ss) |-> IF i = 1 THEN ss[i] ELSE f[i - 1] \o ss[i]]
<1> DEFINE Step(f, i) == IF i = 1 THEN ss[i] ELSE f[i - 1] \o ss[i]
           Good(f, n) == f = [i \in 1 .. n |-> f[i]] /\ \A i \in 1 .. n : f[i] = Step(f, i)
           T == {n \in Nat : \E f : Good(f, n)}
<1>1. 0 \in T
  <2>1. Good([i \in 1 .. 0 |-> << >>], 0)
    OBVIOUS
  <2> HIDE DEF Good
  <2>. QED
    BY <2>1
<1>2. ASSUME NEW n \in Nat, n \in T PROVE n + 1 \in T
  <2>1. PICK f : Good(f, n)
    BY <1>2
  <2> DEFINE g == [i \in 1 .. n + 1 |-> Step(f, i)]
  <2>2. \A i \in 1 .. n : g[i] = f[i]
    <3>1. \A i \in 1 .. n : f[i] = Step(f, i)
      BY <2>1
    <3>2. \A i \in 1 .. n : i \in 1 .. n + 1
      OBVIOUS
    <3>3. \A i \in 1 .. n + 1 : g[i] = Step(f, i)
      OBVIOUS
    <3> HIDE DEF Step, g
    <3>. QED
      BY <3>1, <3>2, <3>3
  <2>3. \A i \in 1 .. n + 1 : i # 1 => i - 1 \in 1 .. n
    OBVIOUS
  <2>4. \A i \in 1 .. n + 1 : Step(g, i) = Step(f, i)
    <3> HIDE DEF g
    <3>. QED
      BY <2>2, <2>3
  <2>5. Good(g, n + 1)
    BY <2>4
  <2> HIDE DEF Good, g
  <2>. QED
    BY <2>5
<1>3. Nat \subseteq T
  <2> HIDE DEF T
  <2>. QED
    BY <1>1, <1>2, SetInduction
<1>4. PICK f : Good(f, Len(ss))
  BY <1>3, LenProperties DEF Lists
<1>5. f = [i \in 1 .. Len(ss) |-> IF i = 1 THEN ss[i] ELSE f[i - 1] \o ss[i]]
  BY <1>4
<1>. QED
  BY <1>5

LEMMA FlattenPartial ==
    ASSUME NEW S, NEW ss \in Lists(S)
    PROVE  \E f : Partial(ss, f, S) /\ FlattenSeq(ss) = f[Len(ss)]
<1> DEFINE n == Len(ss)
           F == Flat(ss)
           f == [i \in 0 .. n |-> IF i = 0 THEN << >> ELSE F[i]]
           T == {i \in Nat : i \in 0 .. n => f[i] \in Seq(S)}
<1>0. n \in Nat /\ \A i \in 1 .. n : ss[i] \in Seq(S)
  BY LenProperties, ElementOfSeq DEF Lists
<1>1. F = [i \in 1 .. n |-> IF i = 1 THEN ss[i] ELSE F[i - 1] \o ss[i]]
  BY FlatExists DEF Flat
<1>2. \A i \in 1 .. n : F[i] = IF i = 1 THEN ss[i] ELSE F[i - 1] \o ss[i]
  BY <1>1
<1> HIDE DEF F
<1>3. f[0] = << >> /\ \A i \in 1 .. n : f[i] = F[i]
  BY <1>0
<1>4. f = [i \in 0 .. n |-> f[i]]
  OBVIOUS
<1> HIDE DEF f
<1>5. ASSUME NEW i \in 0 .. n - 1 PROVE f[i + 1] = f[i] \o ss[i + 1]
  <2>0. i + 1 \in 1 .. n /\ i + 1 - 1 = i
    BY <1>0
  <2>1. f[i + 1] = IF i + 1 = 1 THEN ss[i + 1] ELSE F[i] \o ss[i + 1]
    <3>1. F[i + 1] = IF i + 1 = 1 THEN ss[i + 1] ELSE F[i + 1 - 1] \o ss[i + 1]
      BY <1>2, <2>0
    <3>. QED
      BY <1>3, <2>0, <3>1
  <2>2. CASE i = 0
    <3>1. f[i + 1] = ss[i + 1] /\ f[i] = << >> /\ ss[i + 1] \in Seq(S)
      BY <1>0, <1>3, <2>0, <2>1, <2>2
    <3>2. << >> \o ss[i + 1] = ss[i + 1]
      BY <3>1, ConcatEmptySeq
    <3>. QED
      BY <3>1, <3>2
  <2>3. CASE i # 0
    <3>1. i \in 1 .. n /\ i + 1 # 1
      BY <1>0, <2>3
    <3>2. f[i] = F[i]
      BY <1>3, <3>1
    <3>3. f[i + 1] = F[i] \o ss[i + 1]
      BY <2>1, <3>1
    <3>. QED
      BY <3>2, <3>3
  <2>. QED
    BY <2>2, <2>3
<1>6. 0 \in T
  BY <1>3, EmptySeq
<1>7. ASSUME NEW i \in Nat, i \in T PROVE i + 1 \in T
  <2> SUFFICES ASSUME i + 1 \in 0 .. n PROVE f[i + 1] \in Seq(S)
    OBVIOUS
  <2>1. i \in 0 .. n /\ i \in 0 .. n - 1 /\ i + 1 \in 1 .. n
    BY <1>0
  <2>2. f[i] \in Seq(S)
    BY <1>7, <2>1
  <2>3. ss[i + 1] \in Seq(S) /\ f[i + 1] = f[i] \o ss[i + 1]
    BY <1>0, <1>5, <2>1
  <2>. QED
    BY <2>2, <2>3, ConcatProperties
<1>8. Nat \subseteq T
  <2> HIDE DEF T
  <2>. QED
    BY <1>6, <1>7, SetInduction
<1>9. f \in [0 .. n -> Seq(S)]
  <2>1. \A i \in 0 .. n : f[i] \in Seq(S)
    BY <1>8
  <2>. QED
    BY <1>4, <2>1
<1>10. Partial(ss, f, S)
  BY <1>3, <1>5, <1>9 DEF Partial
<1>11. FlattenSeq(ss) = f[n]
  <2>1. CASE n = 0
    BY <1>3, <2>1, FlattenIsFlat, EmptySeq
  <2>2. CASE n # 0
    BY <1>0, <1>3, <2>2, FlattenIsFlat DEF F
  <2>. QED
    BY <2>1, <2>2
<1>. QED
  BY <1>10, <1>11

LEMMA Assoc ==
    ASSUME NEW S
    PROVE  \A a, b, c \in Seq(S) : (a \o b) \o c = a \o (b \o c)
BY ConcatAssociative

LEMMA FlattenConcat ==
    ASSUME NEW S, NEW ss \in Lists(S), NEW tt \in Lists(S)
    PROVE  /\ FlattenSeq(ss \o tt) = FlattenSeq(ss) \o FlattenSeq(tt)
           /\ FlattenSeq(ss) \in Seq(S)
<1> DEFINE n == Len(ss)
           m == Len(tt)
<1>1. PICK f : Partial(ss, f, S) /\ FlattenSeq(ss) = f[n]
  BY FlattenPartial
<1>2. PICK g : Partial(tt, g, S) /\ FlattenSeq(tt) = g[m]
  BY FlattenPartial
<1>3. /\ ss \o tt \in Lists(S) /\ Len(ss \o tt) = n + m
      /\ n \in Nat /\ m \in Nat
      /\ \A i \in 1 .. n : (ss \o tt)[i] = ss[i]
      /\ \A i \in 1 .. m : (ss \o tt)[n + i] = tt[i] /\ tt[i] \in Seq(S)
  BY ConcatProperties, LenProperties, ElementOfSeq DEF Lists
<1>4. PICK k : Partial(ss \o tt, k, S) /\ FlattenSeq(ss \o tt) = k[Len(ss \o tt)]
  BY <1>3, FlattenPartial
<1> DEFINE h == [i \in 0 .. n + m |-> IF i <= n THEN f[i] ELSE f[n] \o g[i - n]]
<1>5. /\ f \in [0 .. n -> Seq(S)] /\ f[0] = << >>
      /\ \A i \in 0 .. n - 1 : f[i + 1] = f[i] \o ss[i + 1]
  BY <1>1 DEF Partial
<1>6. /\ g \in [0 .. m -> Seq(S)] /\ g[0] = << >>
      /\ \A i \in 0 .. m - 1 : g[i + 1] = g[i] \o tt[i + 1]
  BY <1>2 DEF Partial
<1>7. f[n] \in Seq(S) /\ f[n] \o << >> = f[n]
  <2>1. n \in 0 .. n
    BY <1>3
  <2>2. f[n] \in Seq(S)
    BY <1>5, <2>1
  <2>. QED
    BY <2>2, ConcatEmptySeq
<1>8. /\ \A i \in 0 .. n : h[i] = f[i]
      /\ \A i \in 0 .. m : h[n + i] = f[n] \o g[i]
  <2>1. \A i \in 0 .. n : h[i] = f[i]
    BY <1>3
  <2>2. h[n + 0] = f[n] \o g[0]
    BY <1>3, <1>6, <1>7, <2>1
  <2>3. \A i \in 0 .. n + m : ~(i <= n) => h[i] = f[n] \o g[i - n]
    OBVIOUS
  <2>6. ASSUME NEW i \in 0 .. m PROVE h[n + i] = f[n] \o g[i]
    <3> HIDE DEF h, n, m
    <3>1. CASE i = 0
      BY <2>2, <3>1
    <3>2. CASE i # 0
      <4>1. i \in 1 .. m
        BY <1>3, <3>2
      <4>. QED
        <5> DEFINE x == n + i
        <5>1. x \in 0 .. n + m /\ ~(x <= n) /\ x - n = i
          BY <1>3, <4>1
        <5> HIDE DEF x
        <5>2. h[x] = f[n] \o g[x - n]
          BY <2>3, <5>1
        <5>. QED
          BY <5>1, <5>2 DEF x
    <3>. QED
      BY <3>1, <3>2
  <2>. QED
    BY <2>1, <2>6
<1>9. DOMAIN h = 0 .. n + m /\ h = [i \in 0 .. n + m |-> h[i]]
  OBVIOUS
<1> HIDE DEF h
<1>10. Partial(ss \o tt, h, S)
  <2>1. ASSUME NEW i \in 0 .. n + m PROVE h[i] \in Seq(S)
    <3>1. CASE i \in 0 .. n
      BY <1>5, <1>8, <3>1
    <3>2. CASE i \notin 0 .. n
      <4>1. i - n \in 0 .. m /\ n + (i - n) = i
        BY <1>3, <3>2
      <4>2. h[i] = f[n] \o g[i - n] /\ g[i - n] \in Seq(S)
        BY <1>6, <1>8, <4>1
      <4>. QED
        BY <1>7, <4>2, ConcatProperties
    <3>. QED
      BY <3>1, <3>2
  <2>2. h[0] = << >>
    BY <1>3, <1>5, <1>8
  <2>3. ASSUME NEW i \in 0 .. n + m - 1 PROVE h[i + 1] = h[i] \o (ss \o tt)[i + 1]
    <3>1. CASE i \in 0 .. n - 1
      <4>1. i \in 0 .. n /\ i + 1 \in 0 .. n /\ i + 1 \in 1 .. n
        BY <1>3, <3>1
      <4>2. f[i + 1] = f[i] \o ss[i + 1]
        BY <1>5, <3>1
      <4>. QED
        BY <1>3, <1>8, <4>1, <4>2
    <3>2. CASE i \notin 0 .. n - 1
      <4>1. PICK j \in 0 .. m - 1 : i = n + j
        <5>1. i - n \in 0 .. m - 1 /\ i = n + (i - n)
          BY <1>3, <3>2
        <5>. QED
          BY <5>1
      <4>2. j \in 0 .. m /\ j + 1 \in 0 .. m /\ j + 1 \in 1 .. m /\ i + 1 = n + (j + 1)
        BY <1>3, <4>1
      <4>3. h[i] = f[n] \o g[j] /\ h[i + 1] = f[n] \o g[j + 1]
        BY <1>8, <4>1, <4>2
      <4>4. (ss \o tt)[i + 1] = tt[j + 1] /\ tt[j + 1] \in Seq(S)
        BY <1>3, <4>2
      <4>5. g[j + 1] = g[j] \o tt[j + 1] /\ g[j] \in Seq(S)
        BY <1>6, <4>2
      <4>6. (f[n] \o g[j]) \o tt[j + 1] = f[n] \o (g[j] \o tt[j + 1])
        <5>1. f[n] \in Seq(S) /\ g[j] \in Seq(S) /\ tt[j + 1] \in Seq(S)
          BY <1>7, <4>4, <4>5
        <5>2. \A a, b, c \in Seq(S) : (a \o b) \o c = a \o (b \o c)
          BY Assoc, SMTT(60)
        <5> DEFINE fn == f[n]
                   gj == g[j]
                   tj == tt[j + 1]
        <5>3. fn \in Seq(S) /\ gj \in Seq(S) /\ tj \in Seq(S)
          BY <5>1
        <5> HIDE DEF fn, gj, tj
        <5>4. (fn \o gj) \o tj = fn \o (gj \o tj)
          BY <5>2, <5>3
        <5>. QED
          BY <5>4 DEF fn, gj, tj
      <4> HIDE DEF n, m
      <4>. QED
        BY <4>3, <4>4, <4>5, <4>6
    <3>. QED
      BY <3>1, <3>2
  <2>4. h \in [0 .. n + m -> Seq(S)]
    BY <1>9, <2>1
  <2>. QED
    <3>1. Len(ss \o tt) = n + m
      BY <1>3
    <3> HIDE DEF n, m
    <3>. QED
      <4>1. h \in [0 .. Len(ss \o tt) -> Seq(S)]
        BY <2>4, <3>1
      <4>2. \A i \in 0 .. Len(ss \o tt) - 1 : h[i + 1] = h[i] \o (ss \o tt)[i + 1]
        <5>1. Len(ss \o tt) - 1 = n + m - 1
          BY <1>3, <3>1
        <5>. QED
          BY <2>3, <5>1
      <4>. QED
        BY <2>2, <4>1, <4>2 DEF Partial
<1>11. k[n + m] = h[n + m]
  <2>1. \A i \in 0 .. Len(ss \o tt) : k[i] = h[i]
    <3>1. ss \o tt \in Lists(S) /\ Partial(ss \o tt, k, S) /\ Partial(ss \o tt, h, S)
      BY <1>3, <1>4, <1>10
    <3> DEFINE st == ss \o tt
    <3>2. st \in Lists(S) /\ Partial(st, k, S) /\ Partial(st, h, S)
      BY <3>1
    <3> HIDE DEF st
    <3>3. \A i \in 0 .. Len(st) : k[i] = h[i]
      BY <3>2, PartialUnique
    <3>. QED
      BY <3>3 DEF st
  <2>2. n + m \in 0 .. Len(ss \o tt)
    BY <1>3
  <2>. QED
    BY <2>1, <2>2
<1>12. h[n + m] = f[n] \o g[m]
  <2>1. m \in 0 .. m
    BY <1>3
  <2>. QED
    BY <1>8, <2>1
<1>. QED
  BY <1>1, <1>2, <1>3, <1>4, <1>7, <1>11, <1>12

LEMMA FlattenSmall ==
    ASSUME NEW S
    PROVE  /\ FlattenSeq(<< >>) = << >>
           /\ \A s \in Seq(S) : FlattenSeq(<< s >>) = s
<1>1. FlattenSeq(<< >>) = << >>
  BY FlattenIsFlat
<1>2. ASSUME NEW s \in Seq(S) PROVE FlattenSeq(<< s >>) = s
  <2>1. << s >> \in Lists(S) /\ Len(<< s >>) = 1 /\ << s >>[1] = s
    BY DEF Lists
  <2>2. PICK f : Partial(<< s >>, f, S) /\ FlattenSeq(<< s >>) = f[Len(<< s >>)]
    BY <2>1, FlattenPartial
  <2>3. 0 \in 0 .. Len(<< s >>) - 1 /\ 0 + 1 = 1
    BY <2>1
  <2>4. f[0 + 1] = f[0] \o << s >>[0 + 1] /\ f[0] = << >>
    BY <2>2, <2>3 DEF Partial
  <2>. QED
    BY <2>1, <2>2, <2>3, <2>4, ConcatEmptySeq
<1>. QED
  BY <1>1, <1>2

(***************************************************************************)
(* What a sequence becomes when each of its elements becomes a sequence.   *)
(***************************************************************************)
Maps(E, S) == [E -> Seq(S)]

Each(G, fs) == [i \in DOMAIN fs |-> G[fs[i]]]
Mapped(G, fs) == FlattenSeq(Each(G, fs))

LEMMA MappedList ==
    ASSUME NEW E, NEW S, NEW G \in Maps(E, S), NEW fs \in Seq(E)
    PROVE  Each(G, fs) \in Lists(S) /\ Len(Each(G, fs)) = Len(fs)
<1> DEFINE ss == [i \in 1 .. Len(fs) |-> G[fs[i]]]
<1>1. Len(fs) \in Nat /\ DOMAIN fs = 1 .. Len(fs) /\ \A i \in 1 .. Len(fs) : fs[i] \in E
  BY LenProperties, ElementOfSeq
<1>2. \A i \in 1 .. Len(fs) : G[fs[i]] \in Seq(S)
  BY <1>1 DEF Maps
<1>3. ss \in [1 .. Len(fs) -> Seq(S)]
  BY <1>2
<1>4. ss \in Seq(Seq(S)) /\ Len(ss) = Len(fs)
  BY <1>1, <1>3, SeqDef
<1>. QED
  BY <1>1, <1>4 DEF Lists, Each

LEMMA ListsConcat ==
    ASSUME NEW S, NEW ss \in Lists(S), NEW tt \in Lists(S)
    PROVE  /\ ss \o tt \in Lists(S) /\ Len(ss \o tt) = Len(ss) + Len(tt)
           /\ \A i \in 1 .. Len(ss) + Len(tt) :
                (ss \o tt)[i] = IF i <= Len(ss) THEN ss[i] ELSE tt[i - Len(ss)]
BY ConcatProperties DEF Lists

LEMMA MappedConcat ==
    ASSUME NEW E, NEW S, NEW G \in Maps(E, S), NEW fs \in Seq(E), NEW gs \in Seq(E)
    PROVE  /\ Mapped(G, fs \o gs) = Mapped(G, fs) \o Mapped(G, gs)
           /\ Mapped(G, fs) \in Seq(S)
<1> DEFINE hs == fs \o gs
           ss == Each(G, fs)
           tt == Each(G, gs)
           uu == Each(G, hs)
<1>1. ss \in Lists(S) /\ tt \in Lists(S) /\ Len(ss) = Len(fs) /\ Len(tt) = Len(gs)
  BY MappedList
<1>2. hs \in Seq(E) /\ Len(hs) = Len(fs) + Len(gs)
  BY ConcatProperties
<1>3. uu \in Lists(S) /\ Len(uu) = Len(hs)
  <2> HIDE DEF hs
  <2>. QED
    BY <1>2, MappedList
<1>4. /\ Len(fs) \in Nat /\ DOMAIN fs = 1 .. Len(fs)
      /\ Len(gs) \in Nat /\ DOMAIN gs = 1 .. Len(gs)
      /\ DOMAIN hs = 1 .. Len(fs) + Len(gs)
  BY <1>2, LenProperties
<1>5. ASSUME NEW i \in 1 .. Len(fs) + Len(gs)
      PROVE  uu[i] = IF i <= Len(fs) THEN ss[i] ELSE tt[i - Len(fs)]
  <2>1. hs[i] = IF i <= Len(fs) THEN fs[i] ELSE gs[i - Len(fs)]
    BY ConcatProperties
  <2>2. uu[i] = G[hs[i]]
    BY <1>4 DEF Each
  <2>3. i <= Len(fs) => ss[i] = G[fs[i]]
    BY <1>4 DEF Each
  <2>4. ~(i <= Len(fs)) => tt[i - Len(fs)] = G[gs[i - Len(fs)]]
    <3>1. ~(i <= Len(fs)) => i - Len(fs) \in 1 .. Len(gs)
      BY <1>4
    <3>. QED
      BY <1>4, <3>1 DEF Each
  <2> HIDE DEF hs, ss, tt, uu
  <2>. QED
    BY <2>1, <2>2, <2>3, <2>4
<1> HIDE DEF hs, ss, tt, uu
<1>6. uu = ss \o tt
  <2>1. ss \o tt \in Lists(S) /\ Len(ss \o tt) = Len(fs) + Len(gs)
    <3>1. ss \o tt \in Lists(S) /\ Len(ss \o tt) = Len(ss) + Len(tt)
      BY <1>1, ListsConcat
    <3>. QED
      BY <1>1, <3>1
  <2>2. ASSUME NEW i \in 1 .. Len(fs) + Len(gs)
        PROVE  (ss \o tt)[i] = IF i <= Len(fs) THEN ss[i] ELSE tt[i - Len(fs)]
    <3>1. i \in 1 .. Len(ss) + Len(tt)
      BY <1>1
    <3>2. (ss \o tt)[i] = IF i <= Len(ss) THEN ss[i] ELSE tt[i - Len(ss)]
      BY <1>1, <3>1, ListsConcat
    <3>. QED
      BY <1>1, <3>2
  <2>3. \A i \in 1 .. Len(uu) : uu[i] = (ss \o tt)[i]
    BY <1>2, <1>3, <1>5, <2>2
  <2>4. Len(uu) = Len(ss \o tt)
    BY <1>2, <1>3, <2>1
  <2>. QED
    BY <1>3, <2>1, <2>3, <2>4, SeqEqual DEF Lists
<1>7. FlattenSeq(ss \o tt) = FlattenSeq(ss) \o FlattenSeq(tt) /\ FlattenSeq(ss) \in Seq(S)
  BY <1>1, FlattenConcat
<1>. QED
  BY <1>6, <1>7 DEF Mapped, hs, ss, tt, uu

LEMMA MappedSmall ==
    ASSUME NEW E, NEW S, NEW G \in Maps(E, S)
    PROVE  /\ Mapped(G, << >>) = << >>
           /\ \A e \in E : Mapped(G, << e >>) = G[e]
<1>1. Mapped(G, << >>) = << >>
  <2>1. Each(G, << >>) = << >>
    BY DEF Each
  <2>. QED
    BY <2>1, FlattenSmall DEF Mapped
<1>2. ASSUME NEW e \in E PROVE Mapped(G, << e >>) = G[e]
  <2>1. Each(G, << e >>) = << G[e] >>
    BY DEF Each
  <2>2. G[e] \in Seq(S)
    BY DEF Maps
  <2>. QED
    BY <2>1, <2>2, FlattenSmall DEF Mapped
<1>. QED
  BY <1>1, <1>2

\* Where each element becomes itself alone, nothing changes.
LEMMA MappedSame ==
    ASSUME NEW E, NEW S, NEW G \in Maps(E, S), NEW fs \in Seq(E), fs \in Seq(S),
           \A i \in DOMAIN fs : G[fs[i]] = << fs[i] >>
    PROVE  Mapped(G, fs) = fs
<1> DEFINE ss == Each(G, fs)
           n == Len(fs)
           f == [i \in 0 .. n |-> SubSeq(fs, 1, i)]
<1>1. ss \in Lists(S) /\ Len(ss) = n
  BY MappedList
<1>2. n \in Nat /\ DOMAIN fs = 1 .. n /\ \A i \in 1 .. n : ss[i] = << fs[i] >>
  BY LenProperties DEF Each
<1> HIDE DEF ss
<1>3. Partial(ss, f, S)
  <2>1. ASSUME NEW i \in 0 .. n PROVE SubSeq(fs, 1, i) \in Seq(S)
    BY <1>2, SubSeqProperties, ElementOfSeq
  <2>2. f \in [0 .. n -> Seq(S)]
    BY <2>1
  <2>3. f[0] = << >>
    BY <1>2, SubSeqEmpty
  <2>4. ASSUME NEW i \in 0 .. n - 1 PROVE f[i + 1] = f[i] \o ss[i + 1]
    <3>1. i + 1 \in 1 .. n /\ i \in 0 .. n /\ i + 1 \in 0 .. n /\ 1 \in 1 .. n
          /\ i + 1 \in 1 .. n /\ i + 1 - 1 = i
      BY <1>2
    <3>2. SubSeq(fs, 1, i + 1) = SubSeq(fs, 1, i + 1 - 1) \o << fs[i + 1] >>
      BY <3>1, SubSeqRecursiveSecond
    <3>3. f[i + 1] = SubSeq(fs, 1, i + 1) /\ f[i] = SubSeq(fs, 1, i)
      BY <3>1
    <3>. QED
      BY <1>2, <3>1, <3>2, <3>3
  <2> HIDE DEF f, n
  <2>. QED
    BY <1>1, <2>2, <2>3, <2>4 DEF Partial
<1>4. f[n] = fs
  BY <1>2, SubSeqFull
<1> HIDE DEF f
<1>5. PICK g : Partial(ss, g, S) /\ FlattenSeq(ss) = g[Len(ss)]
  BY <1>1, FlattenPartial
<1>6. g[n] = f[n]
  <2>1. \A i \in 0 .. Len(ss) : g[i] = f[i]
    BY <1>1, <1>3, <1>5, PartialUnique
  <2>2. n \in 0 .. Len(ss)
    BY <1>1, <1>2
  <2>. QED
    BY <2>1, <2>2
<1>. QED
  BY <1>1, <1>4, <1>5, <1>6 DEF Mapped, ss

(***************************************************************************)
(* Two ways to put the same bytes together.                                *)
(***************************************************************************)
LEMMA SplitFront ==
    ASSUME NEW S
    PROVE  \A a, b, c, d \in Seq(S) :
                a \o b = c \o d /\ c # << >> /\ Len(c) <= Len(a) =>
                    /\ a[1] = c[1]
                    /\ SubSeq(a, 1, Len(c)) = c
                    /\ SubSeq(a, Len(c) + 1, Len(a)) \in Seq(S)
                    /\ SubSeq(a, Len(c) + 1, Len(a)) \o b = d
<1>0. \A p, q, r \in Seq(S) : (p \o q) \o r = p \o (q \o r)
  BY Assoc
<1> SUFFICES ASSUME NEW a \in Seq(S), NEW b \in Seq(S), NEW c \in Seq(S), NEW d \in Seq(S),
                    a \o b = c \o d, c # << >>, Len(c) <= Len(a)
             PROVE  /\ a[1] = c[1]
                    /\ SubSeq(a, 1, Len(c)) = c
                    /\ SubSeq(a, Len(c) + 1, Len(a)) \in Seq(S)
                    /\ SubSeq(a, Len(c) + 1, Len(a)) \o b = d
  BY ZenonT(60)
<1>1. Len(a) \in Nat /\ Len(c) \in Nat \ {0} /\ Len(b) \in Nat /\ Len(d) \in Nat
  BY EmptySeq, LenProperties
<1> DEFINE front == SubSeq(a, 1, Len(c))
           back == SubSeq(a, Len(c) + 1, Len(a))
<1>2. ASSUME NEW i \in 1 .. Len(c) PROVE a[i] = c[i]
  <2>1. /\ i \in 1 .. Len(a) + Len(b) /\ i <= Len(a) /\ i <= Len(c)
        /\ i \in 1 .. Len(c) + Len(d)
    BY <1>1
  <2>2. (a \o b)[i] = a[i]
    BY <2>1, ConcatProperties
  <2>3. (c \o d)[i] = c[i]
    BY <2>1, ConcatProperties
  <2>. QED
    BY <2>2, <2>3
<1>3. front \in Seq(S) /\ Len(front) = Len(c) /\ \A i \in 1 .. Len(c) : front[i] = a[i]
  <2>1. \A i \in 1 .. Len(c) : a[i] \in S
    BY <1>1, ElementOfSeq
  <2>2. Len(c) - 1 + 1 = Len(c) /\ 1 <= Len(c)
    BY <1>1
  <2>3. front \in Seq(S) /\ Len(front) = Len(c) - 1 + 1
    BY <1>1, <2>1, <2>2, SubSeqProperties
  <2>4. \A i \in 1 .. Len(c) : front[i] = a[1 + i - 1]
    BY <1>1, <2>1, <2>2, SubSeqProperties
  <2>5. \A i \in 1 .. Len(c) : 1 + i - 1 = i
    OBVIOUS
  <2>. QED
    BY <2>2, <2>3, <2>4, <2>5
<1>4. front = c
  <2> HIDE DEF front
  <2>. QED
    BY <1>2, <1>3, SeqEqual
<1>5. back \in Seq(S)
  BY <1>1, SubSeqProperties, ElementOfSeq
<1>6. front \o back = a
  <2>1. 1 \in 1 .. Len(a) + 1 /\ Len(c) \in 1 - 1 .. Len(a) /\ Len(a) \in Len(c) .. Len(a)
    BY <1>1
  <2>2. front \o back = SubSeq(a, 1, Len(a))
    BY <2>1, ConcatAdjacentSubSeq
  <2>. QED
    BY <2>2, SubSeqFull
<1> HIDE DEF front, back
<1>7. (c \o back) \o b = c \o (back \o b) /\ back \o b \in Seq(S)
  <2>1. (c \o back) \o b = c \o (back \o b)
    BY <1>0, <1>5
  <2>2. back \o b \in Seq(S)
    BY <1>5, ConcatProperties
  <2>. QED
    BY <2>1, <2>2
<1>8. c \o (back \o b) = c \o d
  BY <1>4, <1>6, <1>7
<1>9. back \o b = d
  BY <1>7, <1>8, ConcatSimplifications
<1>. QED
  BY <1>1, <1>2, <1>4, <1>5, <1>9 DEF front, back

(***************************************************************************)
(* Frames, and the bytes they are on the wire.                             *)
(***************************************************************************)
Sendable == {f \in Given : f.cmd = "PSH" => f.data \in Writes}
Wired == Sendable \cup {f \in Frames : f.cmd = "Waste"}
WireByte == Wired \X Nat

FrameSeq == Seq(Sendable)
WiredSeq == Seq(Wired)
ByteSeq == Seq(WireByte)

BytesOf(fs) == Mapped([f \in Wired |-> WireBytes(f)], fs)
Real(fs) == Mapped([f \in Wired |-> IF f.cmd = "Waste" THEN << >> ELSE << f >>], fs)
DataIn(fs) ==
    Mapped([f \in Sendable |-> IF f.cmd = "PSH" /\ f.sid = Stream1 THEN f.data ELSE << >>], fs)

LEMMA FrameFacts ==
    /\ Sendable \subseteq Wired
    /\ \A f \in Wired : /\ Len(f.data) \in Nat /\ Len(f.data) < Width /\ f.data \in Seq(Nat)
                        /\ f.cmd \in Commands /\ f.sid \in Nat
                        /\ f.cmd # "Waste" => f \in Sendable
    /\ \A f \in Sendable : f.cmd # "Waste" /\ (f.cmd = "PSH" => f.data \in Writes)
<1>1. ASSUME NEW f \in Wired
      PROVE  /\ f.data \in Seq(Nat) /\ Len(f.data) < Width
             /\ f.cmd \in Commands /\ f.sid \in Nat
             /\ f.cmd # "Waste" => f \in Sendable
  BY DEF Wired, Sendable, Given, Frames
<1>2. \A f \in Wired : Len(f.data) \in Nat
  BY <1>1, LenProperties
<1>3. Sendable \subseteq Wired
  BY DEF Wired
<1>4. \A f \in Sendable : f.cmd # "Waste" /\ (f.cmd = "PSH" => f.data \in Writes)
  BY DEF Sendable, Given
<1>. QED
  BY <1>1, <1>2, <1>3, <1>4

LEMMA WireBytesFacts ==
    ASSUME NEW f \in Wired
    PROVE  /\ WireBytes(f) \in ByteSeq
           /\ WireLen(f) \in Nat \ {0} /\ Len(WireBytes(f)) = WireLen(f)
           /\ WireBytes(f) # << >> /\ WireBytes(f)[1] = << f, 1 >>
<1>1. Len(f.data) \in Nat /\ HeaderLen \in Nat \ {0}
  BY FrameFacts, WriteAssumption
<1>2. WireLen(f) \in Nat \ {0}
  BY <1>1 DEF WireLen
<1>3. \A i \in 1 .. WireLen(f) : << f, i >> \in WireByte
  BY <1>2 DEF WireByte
<1>4. WireBytes(f) \in [1 .. WireLen(f) -> WireByte]
  BY <1>3 DEF WireBytes
<1>5. WireBytes(f) \in Seq(WireByte) /\ Len(WireBytes(f)) = WireLen(f)
  BY <1>2, <1>4, SeqDef
<1>6. WireBytes(f)[1] = << f, 1 >>
  BY <1>2 DEF WireBytes
<1>. QED
  BY <1>2, <1>5, <1>6, EmptySeq DEF ByteSeq

\* Sequences, seen through operators that hide what they are sequences of.
LEMMA Laws ==
    ASSUME NEW S
    PROVE  /\ << >> \in Seq(S)
           /\ \A a \in Seq(S) : a \o << >> = a /\ << >> \o a = a
           /\ \A a, b \in Seq(S) : a \o b \in Seq(S)
           /\ \A a, b \in Seq(S) : a \o b = << >> => a = << >> /\ b = << >>
           /\ \A a, b, c \in Seq(S) : (a \o b) \o c = a \o (b \o c)
<1>1. << >> \in Seq(S)
  BY EmptySeq
<1>2. \A a \in Seq(S) : a \o << >> = a /\ << >> \o a = a
  BY ConcatEmptySeq
<1>3. \A a, b \in Seq(S) : a \o b \in Seq(S)
  BY ConcatProperties
<1>4. \A a, b \in Seq(S) : a \o b = << >> => a = << >> /\ b = << >>
  BY ConcatSimplifications
<1>5. \A a, b, c \in Seq(S) : (a \o b) \o c = a \o (b \o c)
  BY Assoc
<1>. QED
  BY <1>1, <1>2, <1>3, <1>4, <1>5

LEMMA ByteLaws ==
    /\ << >> \in ByteSeq
    /\ \A a \in ByteSeq : a \o << >> = a /\ << >> \o a = a
    /\ \A a, b \in ByteSeq : a \o b \in ByteSeq
    /\ \A a, b \in ByteSeq : a \o b = << >> => a = << >> /\ b = << >>
    /\ \A a, b, c \in ByteSeq : (a \o b) \o c = a \o (b \o c)
BY Laws DEF ByteSeq

LEMMA FrameLaws ==
    /\ << >> \in FrameSeq
    /\ \A a \in FrameSeq : a \o << >> = a /\ << >> \o a = a
    /\ \A a, b \in FrameSeq : a \o b \in FrameSeq
    /\ \A a, b \in FrameSeq : a \o b = << >> => a = << >> /\ b = << >>
    /\ \A a, b, c \in FrameSeq : (a \o b) \o c = a \o (b \o c)
BY Laws DEF FrameSeq

LEMMA DataLaws ==
    /\ << >> \in Bytes
    /\ \A a \in Bytes : a \o << >> = a /\ << >> \o a = a
    /\ \A a, b \in Bytes : a \o b \in Bytes
    /\ \A a, b \in Bytes : a \o b = << >> => a = << >> /\ b = << >>
    /\ \A a, b, c \in Bytes : (a \o b) \o c = a \o (b \o c)
BY Laws DEF Bytes

\* The two that are needed most, each by itself.
LEMMA ByteJoin == \A a, b \in ByteSeq : a \o b \in ByteSeq
BY ByteLaws

LEMMA ByteAssoc == \A a, b, c \in ByteSeq : (a \o b) \o c = a \o (b \o c)
BY ByteLaws

LEMMA FrameJoin == \A a, b \in FrameSeq : a \o b \in FrameSeq
BY FrameLaws

LEMMA FrameAssoc == \A a, b, c \in FrameSeq : (a \o b) \o c = a \o (b \o c)
BY FrameLaws

LEMMA DataJoin == \A a, b \in Bytes : a \o b \in Bytes
BY DataLaws

LEMMA DataAssoc == \A a, b, c \in Bytes : (a \o b) \o c = a \o (b \o c)
BY DataLaws

LEMMA WiredLaws ==
    /\ << >> \in WiredSeq /\ FrameSeq \subseteq WiredSeq
    /\ \A f \in Wired : << f >> \in WiredSeq
    /\ \A f \in Sendable : << f >> \in FrameSeq
    /\ \A a \in WiredSeq : a \o << >> = a /\ << >> \o a = a
    /\ \A a, b \in WiredSeq : a \o b \in WiredSeq
<1>1. /\ << >> \in WiredSeq /\ \A a \in WiredSeq : a \o << >> = a /\ << >> \o a = a
      /\ \A a, b \in WiredSeq : a \o b \in WiredSeq
  BY Laws DEF WiredSeq
<1>2. FrameSeq \subseteq WiredSeq
  BY SeqMonotonic, FrameFacts DEF FrameSeq, WiredSeq
<1>3. \A f \in Wired : << f >> \in WiredSeq
  BY DEF WiredSeq
<1>4. \A f \in Sendable : << f >> \in FrameSeq
  BY DEF FrameSeq
<1>. QED
  BY <1>1, <1>2, <1>3, <1>4

LEMMA BytesOfLaws ==
    /\ BytesOf(<< >>) = << >>
    /\ \A f \in Wired : BytesOf(<< f >>) = WireBytes(f)
    /\ \A fs \in WiredSeq : BytesOf(fs) \in ByteSeq
    /\ \A fs, gs \in WiredSeq : BytesOf(fs \o gs) = BytesOf(fs) \o BytesOf(gs)
<1> DEFINE G == [f \in Wired |-> WireBytes(f)]
<1>1. G \in Maps(Wired, WireByte)
  BY WireBytesFacts DEF Maps, ByteSeq
<1>2. \A f \in Wired : G[f] = WireBytes(f)
  OBVIOUS
<1> HIDE DEF G
<1>3. Mapped(G, << >>) = << >> /\ \A f \in Wired : Mapped(G, << f >>) = G[f]
  BY <1>1, MappedSmall
<1>4. ASSUME NEW fs \in WiredSeq, NEW gs \in WiredSeq
      PROVE  Mapped(G, fs \o gs) = Mapped(G, fs) \o Mapped(G, gs) /\ Mapped(G, fs) \in ByteSeq
  BY <1>1, MappedConcat DEF WiredSeq, ByteSeq
<1>. QED
  BY <1>2, <1>3, <1>4 DEF BytesOf, G

LEMMA RealLaws ==
    /\ Real(<< >>) = << >>
    /\ \A f \in Wired : Real(<< f >>) = IF f.cmd = "Waste" THEN << >> ELSE << f >>
    /\ \A fs \in WiredSeq : Real(fs) \in FrameSeq
    /\ \A fs, gs \in WiredSeq : Real(fs \o gs) = Real(fs) \o Real(gs)
    /\ \A fs \in FrameSeq : Real(fs) = fs
<1> DEFINE G == [f \in Wired |-> IF f.cmd = "Waste" THEN << >> ELSE << f >>]
<1>1. G \in Maps(Wired, Sendable)
  <2>1. ASSUME NEW f \in Wired
        PROVE  (IF f.cmd = "Waste" THEN << >> ELSE << f >>) \in Seq(Sendable)
    BY FrameFacts, EmptySeq
  <2>. QED
    BY <2>1 DEF Maps
<1>2. \A f \in Wired : G[f] = IF f.cmd = "Waste" THEN << >> ELSE << f >>
  OBVIOUS
<1> HIDE DEF G
<1>3. Mapped(G, << >>) = << >> /\ \A f \in Wired : Mapped(G, << f >>) = G[f]
  BY <1>1, MappedSmall
<1>4. ASSUME NEW fs \in WiredSeq, NEW gs \in WiredSeq
      PROVE  Mapped(G, fs \o gs) = Mapped(G, fs) \o Mapped(G, gs) /\ Mapped(G, fs) \in FrameSeq
  BY <1>1, MappedConcat DEF WiredSeq, FrameSeq
<1>5. ASSUME NEW fs \in FrameSeq PROVE Mapped(G, fs) = fs
  <2>1. fs \in Seq(Wired) /\ fs \in Seq(Sendable)
    BY WiredLaws DEF WiredSeq, FrameSeq
  <2>2. \A i \in DOMAIN fs : fs[i] \in Sendable
    BY <2>1, LenProperties, ElementOfSeq
  <2>3. \A i \in DOMAIN fs : G[fs[i]] = << fs[i] >>
    BY <1>2, <2>2, FrameFacts
  <2>. QED
    BY <1>1, <2>1, <2>3, MappedSame
<1>. QED
  BY <1>2, <1>3, <1>4, <1>5 DEF Real, G

LEMMA DataInLaws ==
    /\ DataIn(<< >>) = << >>
    /\ \A f \in Sendable :
        DataIn(<< f >>) = IF f.cmd = "PSH" /\ f.sid = Stream1 THEN f.data ELSE << >>
    /\ \A fs \in FrameSeq : DataIn(fs) \in Bytes
    /\ \A fs, gs \in FrameSeq : DataIn(fs \o gs) = DataIn(fs) \o DataIn(gs)
    /\ \A fs \in FrameSeq : DataOf(fs) = DataIn(fs)
<1> DEFINE G == [f \in Sendable |->
                    IF f.cmd = "PSH" /\ f.sid = Stream1 THEN f.data ELSE << >>]
<1>1. G \in Maps(Sendable, Nat)
  <2>1. ASSUME NEW f \in Sendable
        PROVE  (IF f.cmd = "PSH" /\ f.sid = Stream1 THEN f.data ELSE << >>) \in Seq(Nat)
    BY FrameFacts, EmptySeq
  <2>. QED
    BY <2>1 DEF Maps
<1>2. \A f \in Sendable :
        G[f] = IF f.cmd = "PSH" /\ f.sid = Stream1 THEN f.data ELSE << >>
  OBVIOUS
<1>3. ASSUME NEW fs \in FrameSeq PROVE DataOf(fs) = DataIn(fs)
  <2>1. \A i \in DOMAIN fs : fs[i] \in Sendable
    BY LenProperties, ElementOfSeq DEF FrameSeq
  <2>2. Each(G, fs) = [i \in DOMAIN fs |->
            IF fs[i].cmd = "PSH" /\ fs[i].sid = Stream1 THEN fs[i].data ELSE << >>]
    BY <2>1 DEF Each
  <2>. QED
    BY <2>2 DEF DataOf, DataIn, Mapped
<1> HIDE DEF G
<1>4. Mapped(G, << >>) = << >> /\ \A f \in Sendable : Mapped(G, << f >>) = G[f]
  BY <1>1, MappedSmall
<1>5. ASSUME NEW fs \in FrameSeq, NEW gs \in FrameSeq
      PROVE  Mapped(G, fs \o gs) = Mapped(G, fs) \o Mapped(G, gs) /\ Mapped(G, fs) \in Bytes
  BY <1>1, MappedConcat DEF FrameSeq, Bytes
<1>. QED
  BY <1>2, <1>3, <1>4, <1>5 DEF DataIn, G

(***************************************************************************)
(* What goes into a packet.                                                *)
(***************************************************************************)
Sizes == (1 .. Width - 1) \cup {CheckMark}
PlanSeq == Seq(Sizes)

LEMMA DrawnSizes ==
    ASSUME NEW item \in Items, item # << >> => item[1] < Width /\ item[2] < Width
    PROVE  Drawn(item) \subseteq PlanSeq
<1>1. Width \in Nat /\ \A n \in Sizes : << n >> \in PlanSeq
  BY WriteAssumption DEF PlanSeq
<1>2. CASE item = << >>
  BY <1>1, <1>2 DEF Drawn, Sizes
<1>3. CASE item # << >>
  <2> DEFINE lo == IF item[1] < item[2] THEN item[1] ELSE item[2]
             hi == IF item[1] < item[2] THEN item[2] ELSE item[1]
  <2>1. item[1] \in Int /\ item[2] \in Int
    BY <1>3 DEF Items
  <2>2. lo \in Int /\ hi \in Int /\ lo <= hi /\ lo < Width /\ hi < Width
    BY <1>3, <2>1
  <2>3. Drawn(item) = IF lo <= 0 THEN {<< >>}
                      ELSE {<< n >> : n \in IF lo = hi THEN {lo} ELSE lo .. hi - 1}
    BY <1>3 DEF Drawn
  <2> HIDE DEF lo, hi
  <2>4. CASE lo <= 0
    BY <2>3, <2>4, EmptySeq DEF PlanSeq
  <2>5. CASE ~(lo <= 0)
    <3>1. \A n \in IF lo = hi THEN {lo} ELSE lo .. hi - 1 : n \in Sizes
      BY <1>1, <2>2, <2>5 DEF Sizes
    <3>. QED
      BY <1>1, <2>3, <2>5, <3>1
  <2>. QED
    BY <2>4, <2>5
<1>. QED
  BY <1>2, <1>3

\* GenerateRecordPayloadSizes yields sizes that a frame of padding can have.
LEMMA PlannedSizes ==
    ASSUME NEW scheme \in Schemes, NEW n \in Nat
    PROVE  PayloadSizes(scheme, n) \subseteq PlanSeq
<1>1. CASE n \notin DOMAIN scheme.sizes
  BY <1>1, EmptySeq DEF PayloadSizes, PlanSeq
<1>2. CASE n \in DOMAIN scheme.sizes
  <2> DEFINE items == scheme.sizes[n]
             draws == [DOMAIN items -> UNION {Drawn(items[i]) : i \in DOMAIN items}]
  <2>1. scheme.sizes \in Seq(Seq(Items))
    BY WriteAssumption
  <2>2. items \in Seq(Items)
    BY <1>2, <2>1, LenProperties, ElementOfSeq
  <2>3. /\ DOMAIN items = 1 .. Len(items) /\ Len(items) \in Nat
        /\ \A i \in DOMAIN items : items[i] \in Items
    BY <2>2, LenProperties, ElementOfSeq
  <2>4. \A i \in DOMAIN items : items[i] # << >> => items[i][1] < Width /\ items[i][2] < Width
    BY <1>2, WriteAssumption
  <2>5. PayloadSizes(scheme, n) =
          {FlattenSeq(d) : d \in {d \in draws : \A i \in DOMAIN items : d[i] \in Drawn(items[i])}}
    BY <1>2 DEF PayloadSizes
  <2> HIDE DEF items
  <2>6. ASSUME NEW d \in draws, \A i \in DOMAIN items : d[i] \in Drawn(items[i])
        PROVE  FlattenSeq(d) \in PlanSeq
    <3>1. \A i \in DOMAIN items : d[i] \in Seq(Sizes)
      BY <2>3, <2>4, <2>6, DrawnSizes DEF PlanSeq
    <3>2. d \in [1 .. Len(items) -> Seq(Sizes)]
      BY <2>3, <3>1
    <3>3. d \in Lists(Sizes)
      BY <2>3, <3>2, SeqDef DEF Lists
    <3>4. FlattenSeq(d) \in Seq(Sizes)
      BY <3>3, FlattenConcat
    <3>. QED
      BY <3>4 DEF PlanSeq
  <2> HIDE DEF draws
  <2>. QED
    BY <2>5, <2>6
<1>. QED
  BY <1>1, <1>2

LEMMA PaddingIsWire ==
    ASSUME NEW n \in 1 .. Width - 1
    PROVE  \E ws \in WiredSeq : Real(ws) = << >> /\ BytesOf(ws) = Waste(n)
<1> DEFINE zeros == [i \in 1 .. n |-> 0]
           f == [cmd |-> "Waste", sid |-> 0, data |-> zeros]
<1>1. f \in Wired /\ f.cmd = "Waste"
  <2>1. n \in Nat /\ n < Width
    BY WriteAssumption
  <2>2. zeros \in Seq(Nat) /\ Len(zeros) = n
    <3>1. zeros \in [1 .. n -> Nat]
      OBVIOUS
    <3>. QED
      BY <2>1, <3>1, SeqDef
  <2> HIDE DEF zeros
  <2>3. f \in Frames
    <3>1. f \in [cmd : Commands, sid : Nat, data : Seq(Nat)]
      BY <2>2 DEF Commands
    <3>2. f.data = zeros
      OBVIOUS
    <3> HIDE DEF f
    <3>. QED
      BY <2>1, <2>2, <3>1, <3>2 DEF Frames
  <2>. QED
    BY <2>3 DEF Wired
<1>2. Waste(n) = WireBytes(f)
  BY DEF Waste
<1> HIDE DEF f
<1>3. << f >> \in WiredSeq /\ Real(<< f >>) = << >> /\ BytesOf(<< f >>) = WireBytes(f)
  BY <1>1, WiredLaws, RealLaws, BytesOfLaws
<1>. QED
  BY <1>2, <1>3

Left == SubSeq(out, Len(Packet) + 1, Len(out))

\* A packet and what is left after it are what there was, and padding.
LEMMA PacketAndLeft ==
    ASSUME out \in ByteSeq, plan \in PlanSeq, plan # << >> => Head(plan) # CheckMark
    PROVE  /\ Packet \in ByteSeq /\ Left \in ByteSeq
           /\ \E ws \in WiredSeq : Real(ws) = << >> /\ Packet \o Left = out \o BytesOf(ws)
<1> DEFINE Goal == /\ Packet \in ByteSeq /\ Left \in ByteSeq
                   /\ \E ws \in WiredSeq : Real(ws) = << >> /\ Packet \o Left = out \o BytesOf(ws)
<1>1. Len(out) \in Nat /\ HeaderLen \in Nat \ {0} /\ Width \in Nat
  BY LenProperties, WriteAssumption DEF ByteSeq
\* The cases in which all there is goes out, with padding or without.
<1>2. ASSUME NEW ws \in WiredSeq, Real(ws) = << >>, Packet = out \o BytesOf(ws) PROVE Goal
  <2>1. BytesOf(ws) \in ByteSeq
    BY BytesOfLaws
  <2>2. Packet \in ByteSeq /\ Len(Packet) = Len(out) + Len(BytesOf(ws))
        /\ Len(BytesOf(ws)) \in Nat
    BY <1>2, <2>1, ConcatProperties, LenProperties DEF ByteSeq
  <2>3. Len(Packet) + 1 \in Int /\ Len(out) < Len(Packet) + 1
    BY <1>1, <2>2
  <2>4. Left = << >>
    BY <1>1, <2>3, SubSeqEmpty DEF Left
  <2>5. Packet \o Left = Packet
    BY <2>2, <2>4, ByteLaws
  <2>. QED
    BY <1>2, <2>2, <2>4, <2>5, ByteLaws
<1>3. /\ << >> \in WiredSeq /\ Real(<< >>) = << >> /\ BytesOf(<< >>) = << >>
      /\ out \o << >> = out /\ << >> \o out = out
  BY WiredLaws, RealLaws, BytesOfLaws, ByteLaws
<1>4. CASE plan = << >>
  <2>1. Packet = out
    BY <1>4 DEF Packet
  <2>. QED
    BY <1>2, <1>3, <2>1
<1>5. CASE plan # << >>
  <2> DEFINE l == Head(plan)
             room == l - Len(out) - HeaderLen
  <2>1. l \in 1 .. Width - 1
    BY <1>5, HeadTailProperties DEF PlanSeq, Sizes
  <2>2. Packet = IF Len(out) > l THEN SubSeq(out, 1, l)
                 ELSE IF out = << >> THEN Waste(l)
                 ELSE IF room > 0 THEN out \o Waste(room) ELSE out
    BY <1>5 DEF Packet
  <2> HIDE DEF l
  <2>3. CASE Len(out) > l
    <3>1. Packet = SubSeq(out, 1, l)
      BY <2>2, <2>3
    <3>2. l \in 0 .. Len(out) /\ 1 \in 1 .. Len(out) + 1 /\ l \in 1 - 1 .. Len(out)
          /\ Len(out) \in l .. Len(out)
      BY <1>1, <2>1, <2>3
    <3>3. \A i \in 1 .. Len(out) : out[i] \in WireByte
      BY ElementOfSeq DEF ByteSeq
    <3>4. Packet \in ByteSeq /\ Len(Packet) = l
      <4>1. \A i \in 1 .. l : out[i] \in WireByte
        BY <1>1, <2>1, <2>3, <3>3
      <4>2. l - 1 + 1 = l /\ 1 <= l /\ l \in Int
        BY <2>1, <1>1
      <4>3. Packet \in Seq(WireByte) /\ Len(Packet) = l - 1 + 1
        BY <3>1, <4>1, <4>2, SubSeqProperties
      <4>. QED
        BY <4>2, <4>3 DEF ByteSeq
    <3>5. Left = SubSeq(out, l + 1, Len(out))
      BY <3>4 DEF Left
    <3>6. Left \in ByteSeq
      <4>1. \A i \in l + 1 .. Len(out) : out[i] \in WireByte
        BY <1>1, <2>1, <3>3
      <4>2. l + 1 \in Int /\ Len(out) \in Int
        BY <1>1, <2>1
      <4>. QED
        BY <3>5, <4>1, <4>2, SubSeqProperties DEF ByteSeq
    <3>7. Packet \o Left = out
      <4>1. SubSeq(out, 1, l) \o SubSeq(out, l + 1, Len(out)) = SubSeq(out, 1, Len(out))
        BY <3>2, ConcatAdjacentSubSeq DEF ByteSeq
      <4>. QED
        BY <3>1, <3>5, <4>1, SubSeqFull DEF ByteSeq
    <3>. QED
      BY <1>3, <3>4, <3>6, <3>7
  <2>4. CASE ~(Len(out) > l) /\ out = << >>
    <3>1. Packet = Waste(l)
      BY <2>2, <2>4
    <3>2. PICK ws \in WiredSeq : Real(ws) = << >> /\ BytesOf(ws) = Waste(l)
      BY <2>1, PaddingIsWire
    <3>3. out \o BytesOf(ws) = BytesOf(ws)
      BY <2>4, BytesOfLaws, ByteLaws
    <3>. QED
      BY <1>2, <3>1, <3>2, <3>3
  <2>5. CASE ~(Len(out) > l) /\ out # << >> /\ room > 0
    <3>1. Packet = out \o Waste(room)
      BY <2>2, <2>5
    <3>2. room \in 1 .. Width - 1
      BY <1>1, <2>1, <2>5
    <3> HIDE DEF room
    <3>3. PICK ws \in WiredSeq : Real(ws) = << >> /\ BytesOf(ws) = Waste(room)
      BY <3>2, PaddingIsWire
    <3>. QED
      BY <1>2, <3>1, <3>3
  <2>6. CASE ~(Len(out) > l) /\ out # << >> /\ ~(room > 0)
    <3>1. Packet = out
      BY <2>2, <2>6
    <3>. QED
      BY <1>2, <1>3, <3>1
  <2>. QED
    BY <2>3, <2>4, <2>5, <2>6
<1>. QED
  BY <1>4, <1>5

(***************************************************************************)
(* The inductive invariant of the wire.                                    *)
(***************************************************************************)
WriterOK ==
    /\ snd \in [Senders -> {"idle", "lock", "packets", "clear"}]
    /\ todo \in [Senders -> FrameSeq]
    /\ \A s \in Senders : snd[s] \in {"lock", "packets"} => todo[s] # << >>
    /\ plan \in PlanSeq /\ out \in ByteSeq /\ wire \in ByteSeq
    /\ pkt \in Nat /\ padding \in BOOLEAN /\ broken \in BOOLEAN
    /\ deadline \in {"none", "armed", "over"}
    /\ log \in FrameSeq /\ parsed \in FrameSeq
    /\ buffer = IF log = << >> THEN BytesOf(Held) ELSE << >>
    /\ log # << >> => \E x \in FrameSeq : log = Held \o x

OneWrites ==
    /\ \A s, t \in Senders : snd[s] = "packets" /\ snd[t] = "packets" => s = t
    /\ Idle => out = << >>

WorkLeft ==
    \E work \in Work : \A s \in Senders : \E n \in 0 .. Len(work[s]) :
        todo[s] = SubSeq(work[s], n + 1, Len(work[s]))

\* What is on the wire, and the rest of the write that is going on, are whole frames:
\* those of the log that are still to be taken, and padding.  A connection that broke
\* does not get the rest, nor the frames written later.
Flow ==
    \E fs \in WiredSeq, rest \in ByteSeq, later \in FrameSeq :
        /\ wire \o rest = BytesOf(fs)
        /\ log = (parsed \o Real(fs)) \o later
        /\ ~broken => rest = out /\ later = << >>

\* Packets are counted from the first write on, until padding is over; the write that
\* comes after the stops of all schemes is not cut.
Stops ==
    /\ log = << >> => pkt = 0 /\ padding
    /\ padding /\ log # << >> => pkt = Number
    /\ ~Idle /\ Number > 1 /\ (\A scheme \in Schemes : Number >= scheme.stop)
        => plan = << >> /\ out \in {<< >>, WireBytes(Last(log))}

WireInv == WriterOK /\ OneWrites /\ WorkLeft /\ Flow /\ Stops

LEMMA HeldFrames == Held \in FrameSeq
<1>1. Held \in Seq(Given)
  BY WriteAssumption
<1>2. \A i \in 1 .. Len(Held) : Held[i] \in Sendable
  BY <1>1, LenProperties, ElementOfSeq, DataPathAssumption DEF Sendable
<1>3. Held \in [1 .. Len(Held) -> Sendable] /\ Len(Held) \in Nat
  BY <1>1, <1>2, LenProperties
<1>. QED
  BY <1>3, SeqDef DEF FrameSeq

LEMMA WorkFrames == \A work \in Work, s \in Senders : work[s] \in FrameSeq
<1> SUFFICES ASSUME NEW work \in Work, NEW s \in Senders PROVE work[s] \in FrameSeq
  OBVIOUS
<1>1. work[s] \in Seq(Given)
  BY WriteAssumption
<1>2. \A i \in 1 .. Len(work[s]) : work[s][i] \in Sendable
  BY <1>1, LenProperties, ElementOfSeq, DataPathAssumption DEF Sendable
<1>3. work[s] \in [1 .. Len(work[s]) -> Sendable] /\ Len(work[s]) \in Nat
  BY <1>1, <1>2, LenProperties
<1>. QED
  BY <1>3, SeqDef DEF FrameSeq

LEMMA WireInitInv == Init => WireInv
<1> SUFFICES ASSUME Init PROVE WireInv
  OBVIOUS
<1>0. WriteInit /\ parsed = << >>
  BY DEF Init
<1>1. todo \in Work /\ \A s \in Senders : todo[s] \in FrameSeq
  BY <1>0, WorkFrames DEF WriteInit
<1>2. todo \in [Senders -> FrameSeq]
  <2>1. todo \in [Senders -> Seq(Given)]
    BY <1>1, WriteAssumption
  <2>. QED
    BY <1>1, <2>1
<1>3. buffer = BytesOf(Held)
  <2> DEFINE G == [f \in Wired |-> WireBytes(f)]
  <2>1. \A i \in DOMAIN Held : Held[i] \in Wired
    BY HeldFrames, LenProperties, ElementOfSeq, FrameFacts DEF FrameSeq
  <2>2. \A i \in DOMAIN Held : G[Held[i]] = WireBytes(Held[i])
    BY <2>1
  <2> HIDE DEF G
  <2>3. Each(G, Held) = [i \in DOMAIN Held |-> WireBytes(Held[i])]
    BY <2>2 DEF Each
  <2>. QED
    BY <1>0, <2>3 DEF WriteInit, BytesOf, Mapped, G
<1>4. WriterOK
  BY <1>0, <1>2, <1>3, ByteLaws, FrameLaws, EmptySeq DEF WriterOK, WriteInit, PlanSeq
<1>5. OneWrites
  BY <1>0 DEF OneWrites, WriteInit
<1>6. WorkLeft
  <2>1. ASSUME NEW s \in Senders PROVE todo[s] = SubSeq(todo[s], 0 + 1, Len(todo[s]))
                                       /\ 0 \in 0 .. Len(todo[s])
    BY <1>1, SubSeqFull, LenProperties DEF FrameSeq
  <2>. QED
    BY <1>1, <2>1 DEF WorkLeft
<1>7. Flow
  <2>1. wire = << >> /\ out = << >> /\ log = << >>
    BY <1>0 DEF WriteInit
  <2>2. wire \o out = BytesOf(<< >>) /\ log = (parsed \o Real(<< >>)) \o << >>
    BY <1>0, <2>1, ByteLaws, FrameLaws, BytesOfLaws, RealLaws
  <2>. QED
    BY <2>1, <2>2, WiredLaws, ByteLaws, FrameLaws DEF Flow
<1>8. Stops
  BY <1>0 DEF Stops, WriteInit, Idle
<1>. QED
  BY <1>4, <1>5, <1>6, <1>7, <1>8 DEF WireInv

(***************************************************************************)
(* The steps of the senders.                                               *)
(***************************************************************************)
\* A sender that comes or goes leaves the bytes alone.
LEMMA FlowStays ==
    ASSUME Flow, UNCHANGED << wire, out, log, parsed >>, broken => broken'
    PROVE  Flow'
<1>1. PICK fs \in WiredSeq, rest \in ByteSeq, later \in FrameSeq :
        /\ wire \o rest = BytesOf(fs)
        /\ log = (parsed \o Real(fs)) \o later
        /\ ~broken => rest = out /\ later = << >>
  BY DEF Flow
<1>. QED
  BY <1>1 DEF Flow

LEMMA StartFrameStep ==
    ASSUME WireInv, NEW s \in Senders, StartFrame(s), UNCHANGED recvVars
    PROVE  WireInv'
<1>1. WriterOK'
  BY DEF WireInv, WriterOK, StartFrame, SndGoto, recvVars
<1>2. OneWrites'
  BY DEF WireInv, WriterOK, OneWrites, Idle, StartFrame, SndGoto
<1>3. WorkLeft'
  BY DEF WireInv, WorkLeft, StartFrame
<1>4. Flow'
  BY FlowStays DEF WireInv, StartFrame, recvVars
<1>5. Stops'
  <2>1. Idle' = Idle
    BY DEF WireInv, WriterOK, Idle, StartFrame, SndGoto
  <2>. QED
    BY <2>1 DEF WireInv, Stops, StartFrame, Number
<1>. QED
  BY <1>1, <1>2, <1>3, <1>4, <1>5 DEF WireInv

LEMMA ClearDeadlineStep ==
    ASSUME WireInv, NEW s \in Senders, ClearDeadline(s), UNCHANGED recvVars
    PROVE  WireInv'
<1>1. WriterOK'
  BY DEF WireInv, WriterOK, ClearDeadline, SndGoto, recvVars
<1>2. OneWrites'
  BY DEF WireInv, WriterOK, OneWrites, Idle, ClearDeadline, SndGoto
<1>3. WorkLeft'
  BY DEF WireInv, WorkLeft, ClearDeadline
<1>4. Flow'
  BY FlowStays DEF WireInv, ClearDeadline, recvVars
<1>5. Stops'
  <2>1. Idle' = Idle
    BY DEF WireInv, WriterOK, Idle, ClearDeadline, SndGoto
  <2>. QED
    BY <2>1 DEF WireInv, Stops, ClearDeadline, Number
<1>. QED
  BY <1>1, <1>2, <1>3, <1>4, <1>5 DEF WireInv

LEMMA WireEventStep ==
    ASSUME WireInv, DeadlineOver \/ ConnBreaks, UNCHANGED recvVars
    PROVE  WireInv'
<1>1. WriterOK'
  BY DEF WireInv, WriterOK, DeadlineOver, ConnBreaks, recvVars
<1>2. OneWrites' /\ WorkLeft'
  BY DEF WireInv, OneWrites, WorkLeft, Idle, DeadlineOver, ConnBreaks
<1>3. Flow'
  BY FlowStays DEF WireInv, DeadlineOver, ConnBreaks, recvVars
<1>4. Stops'
  BY DEF WireInv, Stops, Idle, Number, DeadlineOver, ConnBreaks
<1>. QED
  BY <1>1, <1>2, <1>3, <1>4 DEF WireInv

LEMMA PassCheckMarkStep ==
    ASSUME WireInv, NEW s \in Senders, PassCheckMark(s), UNCHANGED recvVars
    PROVE  WireInv'
<1>0. plan' \in PlanSeq /\ plan # << >>
  BY HeadTailProperties, EmptySeq DEF WireInv, WriterOK, PassCheckMark, PlanSeq
<1>1. WriterOK'
  BY <1>0 DEF WireInv, WriterOK, PassCheckMark, recvVars
<1>2. OneWrites' /\ WorkLeft'
  BY DEF WireInv, OneWrites, WorkLeft, Idle, PassCheckMark
<1>3. Flow'
  BY FlowStays DEF WireInv, PassCheckMark, recvVars
<1>4. Stops'
  BY <1>0 DEF WireInv, Stops, Idle, Number, PassCheckMark
<1>. QED
  BY <1>1, <1>2, <1>3, <1>4 DEF WireInv

\* What is left of the work after a frame, or after a failure, is an end of it still.
LEMMA WorkEnds ==
    ASSUME NEW w \in FrameSeq, NEW n \in 0 .. Len(w), NEW t, t = SubSeq(w, n + 1, Len(w))
    PROVE  /\ \E m \in 0 .. Len(w) : << >> = SubSeq(w, m + 1, Len(w))
           /\ t # << >> => \E m \in 0 .. Len(w) : Tail(t) = SubSeq(w, m + 1, Len(w))
<1>1. Len(w) \in Nat
  BY LenProperties DEF FrameSeq
<1>2. << >> = SubSeq(w, Len(w) + 1, Len(w)) /\ Len(w) \in 0 .. Len(w)
  BY <1>1, SubSeqEmpty
<1>3. ASSUME t # << >> PROVE \E m \in 0 .. Len(w) : Tail(t) = SubSeq(w, m + 1, Len(w))
  <2>1. n # Len(w)
    BY <1>2, <1>3
  <2>2. n + 1 \in 1 .. Len(w) /\ Len(w) \in n + 1 .. Len(w) /\ n + 1 \in 0 .. Len(w)
    BY <1>1, <2>1
  <2>3. Tail(t) = SubSeq(w, n + 1 + 1, Len(w))
    BY <2>2, HeadTailOfSubSeq DEF FrameSeq
  <2>. QED
    BY <2>2, <2>3
<1>. QED
  BY <1>2, <1>3

LEMMA WorkLeftStep ==
    ASSUME WriterOK, WorkLeft, NEW s \in Senders, NEW t \in {<< >>, Tail(todo[s])},
           todo[s] # << >>, todo' = [todo EXCEPT ![s] = t]
    PROVE  WorkLeft' /\ todo' \in [Senders -> FrameSeq]
<1>1. PICK work \in Work : \A r \in Senders : \E n \in 0 .. Len(work[r]) :
            todo[r] = SubSeq(work[r], n + 1, Len(work[r]))
  BY DEF WorkLeft
<1>2. PICK n \in 0 .. Len(work[s]) : todo[s] = SubSeq(work[s], n + 1, Len(work[s]))
  BY <1>1
<1>3. work[s] \in FrameSeq /\ todo[s] \in FrameSeq
  BY WorkFrames DEF WriterOK
<1>4. \E m \in 0 .. Len(work[s]) : t = SubSeq(work[s], m + 1, Len(work[s]))
  BY <1>2, <1>3, WorkEnds, ZenonT(60)
<1>5. \A r \in Senders : todo'[r] = IF r = s THEN t ELSE todo[r]
  BY DEF WriterOK
<1>6. WorkLeft'
  <2>1. ASSUME NEW r \in Senders
        PROVE  \E m \in 0 .. Len(work[r]) : todo'[r] = SubSeq(work[r], m + 1, Len(work[r]))
    <3>1. CASE r = s
      BY <1>4, <1>5, <3>1
    <3>2. CASE r # s
      BY <1>1, <1>5, <3>2
    <3>. QED
      BY <3>1, <3>2
  <2>. QED
    BY <2>1 DEF WorkLeft
<1>7. t \in FrameSeq
  BY <1>3, HeadTailProperties, EmptySeq DEF FrameSeq
<1>. QED
  BY <1>6, <1>7 DEF WriterOK

LEMMA WriteDoneStep ==
    ASSUME WireInv, NEW s \in Senders, WriteDone(s), UNCHANGED recvVars
    PROVE  WireInv'
<1>0. todo[s] # << >> /\ todo' = [todo EXCEPT ![s] = Tail(todo[s])]
  BY DEF WireInv, WriterOK, WriteDone
<1>1. WorkLeft' /\ todo' \in [Senders -> FrameSeq]
  BY <1>0, WorkLeftStep DEF WireInv
<1>2. /\ snd' \in [Senders -> {"idle", "lock", "packets", "clear"}]
      /\ \A r \in Senders : r # s => snd'[r] = snd[r] /\ todo'[r] = todo[r]
      /\ snd'[s] \in {"idle", "clear"}
  BY DEF WireInv, WriterOK, WriteDone, SndGoto
<1>3. WriterOK'
  <2>1. \A r \in Senders : snd'[r] \in {"lock", "packets"} => todo'[r] # << >>
    <3>1. \A r \in Senders : snd[r] \in {"lock", "packets"} => todo[r] # << >>
      BY DEF WireInv, WriterOK
    <3>. QED
      BY <1>2, <3>1
  <2>2. UNCHANGED << out, plan, buffer, pkt, padding, deadline, broken, wire, log, parsed >>
    BY DEF WriteDone, recvVars
  <2>. QED
    BY <1>1, <1>2, <2>1, <2>2 DEF WireInv, WriterOK
<1>4. OneWrites' /\ Idle'
  <2>1. ASSUME NEW r \in Senders PROVE snd'[r] # "packets"
    <3>1. snd[r] = "packets" => r = s
      BY DEF WireInv, OneWrites, WriteDone
    <3>. QED
      BY <1>2, <3>1
  <2>2. out' = << >>
    BY DEF WriteDone
  <2>. QED
    BY <2>1, <2>2 DEF OneWrites, Idle
<1>5. Flow'
  BY FlowStays DEF WireInv, WriteDone, recvVars
<1>6. Stops'
  BY <1>4 DEF WireInv, Stops, Number, WriteDone
<1>. QED
  BY <1>1, <1>3, <1>4, <1>5, <1>6 DEF WireInv

LEMMA WritePacketStep ==
    ASSUME WireInv, NEW s \in Senders, WritePacket(s), UNCHANGED recvVars
    PROVE  WireInv'
<1>1. /\ ~broken /\ wire' = wire \o Packet /\ out' = Left
      /\ plan' = IF plan = << >> THEN << >> ELSE Tail(plan)
      /\ UNCHANGED << snd, todo, buffer, pkt, padding, deadline, broken, log, parsed >>
      /\ snd[s] = "packets" /\ (plan # << >> => Head(plan) # CheckMark)
  BY DEF WritePacket, Pending, Left, recvVars
<1>2. /\ wire \in ByteSeq /\ out \in ByteSeq /\ plan \in PlanSeq
  BY DEF WireInv, WriterOK
<1>3. /\ Packet \in ByteSeq /\ Left \in ByteSeq
      /\ \E ws \in WiredSeq : Real(ws) = << >> /\ Packet \o Left = out \o BytesOf(ws)
  BY <1>1, <1>2, PacketAndLeft
<1>4. wire' \in ByteSeq /\ out' \in ByteSeq /\ plan' \in PlanSeq
  <2>1. plan' \in PlanSeq
    BY <1>1, <1>2, HeadTailProperties, EmptySeq DEF PlanSeq
  <2>. QED
    BY <1>1, <1>2, <1>3, <2>1, ByteLaws
<1>5. WriterOK'
  BY <1>1, <1>4 DEF WireInv, WriterOK
<1>6. OneWrites'
  BY <1>1 DEF WireInv, OneWrites, Idle
<1>7. WorkLeft'
  BY <1>1 DEF WireInv, WorkLeft
<1>8. Flow'
  <2>1. PICK ws \in WiredSeq : Real(ws) = << >> /\ Packet \o Left = out \o BytesOf(ws)
    BY <1>3
  <2>2. PICK fs \in WiredSeq : wire \o out = BytesOf(fs) /\ log = (parsed \o Real(fs)) \o << >>
    BY <1>1 DEF WireInv, Flow
  <2>3. BytesOf(fs) \in ByteSeq /\ BytesOf(ws) \in ByteSeq
    BY BytesOfLaws
  <2>4. wire' \o out' = wire \o (Packet \o Left)
    BY <1>1, <1>2, <1>3, ByteLaws
  <2>5. wire \o (out \o BytesOf(ws)) = (wire \o out) \o BytesOf(ws)
    BY <1>2, <2>3, ByteAssoc, ZenonT(60)
  <2>6. fs \o ws \in WiredSeq /\ BytesOf(fs \o ws) = BytesOf(fs) \o BytesOf(ws)
    BY WiredLaws, BytesOfLaws
  <2>7. Real(fs \o ws) = Real(fs)
    <3>1. Real(fs \o ws) = Real(fs) \o << >> /\ Real(fs) \in FrameSeq
      BY <2>1, RealLaws
    <3>. QED
      BY <3>1, FrameLaws
  <2>8. wire' \o out' = BytesOf(fs \o ws)
    BY <2>1, <2>2, <2>4, <2>5, <2>6
  <2>9. log' = (parsed' \o Real(fs \o ws)) \o << >>
    BY <1>1, <2>2, <2>7
  <2>. QED
    BY <1>4, <2>6, <2>8, <2>9, FrameLaws DEF Flow
<1>9. Stops'
  <2>1. ASSUME Number > 1, \A scheme \in Schemes : Number >= scheme.stop
        PROVE  plan' = << >> /\ out' = << >>
    <3>1. ~Idle
      BY <1>1 DEF Idle
    <3>2. plan = << >>
      BY <2>1, <3>1 DEF WireInv, Stops
    <3>3. Packet = out
      BY <3>2 DEF Packet
    <3>4. Len(out) \in Nat
      BY <1>2, LenProperties DEF ByteSeq
    <3>5. Left = << >>
      BY <3>3, <3>4, SubSeqEmpty DEF Left
    <3>. QED
      BY <1>1, <3>2, <3>5
  <2>2. Number' = Number
    BY <1>1 DEF Number
  <2>3. ~Idle' /\ Number' > 1 /\ (\A scheme \in Schemes : Number' >= scheme.stop)
        => plan' = << >> /\ out' \in {<< >>, WireBytes(Last(log))'}
    BY <2>1, <2>2
  <2>4. (log' = << >> => pkt' = 0 /\ padding') /\ (padding' /\ log' # << >> => pkt' = Number')
    BY <1>1, <2>2 DEF WireInv, Stops
  <2>. QED
    BY <2>3, <2>4 DEF Stops
<1>. QED
  BY <1>5, <1>6, <1>7, <1>8, <1>9 DEF WireInv

\* The start of a packet that does not come to an end, and its rest.
LEMMA PartOf ==
    ASSUME NEW p \in ByteSeq, NEW n \in 1 .. Len(p) - 1
    PROVE  /\ SubSeq(p, 1, n) \in ByteSeq /\ SubSeq(p, n + 1, Len(p)) \in ByteSeq
           /\ SubSeq(p, 1, n) \o SubSeq(p, n + 1, Len(p)) = p
<1>1. Len(p) \in Nat /\ \A i \in 1 .. Len(p) : p[i] \in WireByte
  BY LenProperties, ElementOfSeq DEF ByteSeq
<1>2. /\ 1 \in 1 .. Len(p) + 1 /\ n \in 1 - 1 .. Len(p) /\ Len(p) \in n .. Len(p)
      /\ \A i \in 1 .. n : i \in 1 .. Len(p)
      /\ \A i \in n + 1 .. Len(p) : i \in 1 .. Len(p)
      /\ n \in Int /\ n + 1 \in Int /\ Len(p) \in Int
  BY <1>1
<1>3. SubSeq(p, 1, n) \in ByteSeq /\ SubSeq(p, n + 1, Len(p)) \in ByteSeq
  BY <1>1, <1>2, SubSeqProperties DEF ByteSeq
<1>4. SubSeq(p, 1, n) \o SubSeq(p, n + 1, Len(p)) = SubSeq(p, 1, Len(p))
  BY <1>2, ConcatAdjacentSubSeq DEF ByteSeq
<1>. QED
  BY <1>3, <1>4, SubSeqFull DEF ByteSeq

LEMMA WritePacketFailsStep ==
    ASSUME WireInv, NEW s \in Senders, WritePacketFails(s), UNCHANGED recvVars
    PROVE  WireInv'
<1>1. /\ snd[s] = "packets" /\ (plan # << >> => Head(plan) # CheckMark)
      /\ broken' = TRUE /\ out' = << >> /\ plan' = << >>
      /\ snd' = [snd EXCEPT ![s] = "idle"] /\ todo' = [todo EXCEPT ![s] = << >>]
      /\ UNCHANGED << buffer, pkt, padding, deadline, log, parsed >>
      /\ \/ wire' = wire
         \/ ~broken /\ \E n \in 1 .. Len(Packet) - 1 : wire' = wire \o SubSeq(Packet, 1, n)
  BY DEF WritePacketFails, Pending, SndGoto, recvVars
<1>2. wire \in ByteSeq /\ out \in ByteSeq /\ plan \in PlanSeq /\ todo[s] # << >>
  BY <1>1 DEF WireInv, WriterOK
<1>3. /\ Packet \in ByteSeq /\ Left \in ByteSeq
      /\ \E ws \in WiredSeq : Real(ws) = << >> /\ Packet \o Left = out \o BytesOf(ws)
  BY <1>1, <1>2, PacketAndLeft
<1>4. WorkLeft' /\ todo' \in [Senders -> FrameSeq]
  BY <1>1, <1>2, WorkLeftStep DEF WireInv
<1>5. wire' \in ByteSeq
  <2>1. ASSUME NEW n \in 1 .. Len(Packet) - 1
        PROVE  wire \o SubSeq(Packet, 1, n) \in ByteSeq
    <3>1. SubSeq(Packet, 1, n) \in ByteSeq
      BY <1>3, PartOf
    <3>. QED
      BY <1>2, <3>1, ByteLaws
  <2>. QED
    BY <1>1, <1>2, <2>1
<1>6. /\ snd' \in [Senders -> {"idle", "lock", "packets", "clear"}]
      /\ \A r \in Senders : r # s => snd'[r] = snd[r] /\ todo'[r] = todo[r]
      /\ snd'[s] = "idle"
  BY <1>1 DEF WireInv, WriterOK
<1>7. WriterOK'
  <2>1. \A r \in Senders : snd'[r] \in {"lock", "packets"} => todo'[r] # << >>
    <3>1. \A r \in Senders : snd[r] \in {"lock", "packets"} => todo[r] # << >>
      BY DEF WireInv, WriterOK
    <3>. QED
      BY <1>6, <3>1
  <2>2. plan' \in PlanSeq
    BY <1>1, EmptySeq DEF PlanSeq
  <2>3. out' \in ByteSeq
    BY <1>1, ByteLaws
  <2>. QED
    BY <1>1, <1>4, <1>5, <1>6, <2>1, <2>2, <2>3 DEF WireInv, WriterOK
<1>8. OneWrites' /\ Idle'
  <2>1. ASSUME NEW r \in Senders PROVE snd'[r] # "packets"
    <3>1. snd[r] = "packets" => r = s
      BY <1>1 DEF WireInv, OneWrites
    <3>. QED
      BY <1>6, <3>1
  <2>. QED
    BY <1>1, <2>1 DEF OneWrites, Idle
<1>9. Flow'
  <2>1. CASE wire' = wire
    <3>1. PICK fs \in WiredSeq, rest \in ByteSeq, later \in FrameSeq :
            wire \o rest = BytesOf(fs) /\ log = (parsed \o Real(fs)) \o later
      BY DEF WireInv, Flow
    <3>. QED
      BY <1>1, <2>1, <3>1 DEF Flow
  <2>2. ASSUME ~broken, NEW n \in 1 .. Len(Packet) - 1, wire' = wire \o SubSeq(Packet, 1, n)
        PROVE  Flow'
    <3> DEFINE front == SubSeq(Packet, 1, n)
               back == SubSeq(Packet, n + 1, Len(Packet))
               rest == back \o Left
    <3>1. front \in ByteSeq /\ back \in ByteSeq /\ front \o back = Packet
      BY <1>3, PartOf
    <3>2. PICK ws \in WiredSeq : Real(ws) = << >> /\ Packet \o Left = out \o BytesOf(ws)
      BY <1>3
    <3>3. PICK fs \in WiredSeq : wire \o out = BytesOf(fs) /\ log = (parsed \o Real(fs)) \o << >>
      BY <2>2 DEF WireInv, Flow
    <3>4. BytesOf(fs) \in ByteSeq /\ BytesOf(ws) \in ByteSeq
      BY BytesOfLaws
    <3>5. wire' = wire \o front
      BY <2>2
    <3> HIDE DEF front, back
    <3>6. rest \in ByteSeq /\ front \o rest = Packet \o Left
      BY <1>3, <3>1, ByteLaws, ZenonT(60)
    <3> HIDE DEF rest
    <3>7. wire' \o rest = wire \o (Packet \o Left)
      <4>1. (wire \o front) \o rest = wire \o (front \o rest)
        BY <1>2, <3>1, <3>6, ByteAssoc, ZenonT(60)
      <4>. QED
        BY <3>5, <3>6, <4>1
    <3>8. wire \o (out \o BytesOf(ws)) = (wire \o out) \o BytesOf(ws)
      BY <1>2, <3>4, ByteAssoc, ZenonT(60)
    <3>9. fs \o ws \in WiredSeq /\ BytesOf(fs \o ws) = BytesOf(fs) \o BytesOf(ws)
      BY WiredLaws, BytesOfLaws
    <3>10. Real(fs \o ws) = Real(fs)
      <4>1. Real(fs \o ws) = Real(fs) \o << >> /\ Real(fs) \in FrameSeq
        BY <3>2, RealLaws
      <4>. QED
        BY <4>1, FrameLaws
    <3>11. wire' \o rest = BytesOf(fs \o ws)
      BY <3>2, <3>3, <3>7, <3>8, <3>9
    <3>12. log' = (parsed' \o Real(fs \o ws)) \o << >>
      BY <1>1, <3>3, <3>10
    <3>. QED
      BY <1>1, <3>6, <3>9, <3>11, <3>12, FrameLaws DEF Flow
  <2>. QED
    BY <1>1, <2>1, <2>2
<1>10. Stops'
  BY <1>1, <1>8 DEF WireInv, Stops, Number
<1>. QED
  BY <1>4, <1>7, <1>8, <1>9, <1>10 DEF WireInv

LEMMA LockConnStep ==
    ASSUME WireInv, NEW s \in Senders, LockConn(s), UNCHANGED recvVars
    PROVE  WireInv'
<1> DEFINE f == Head(todo[s])
           x == IF log = << >> THEN Held \o << f >> ELSE << f >>
<1>1. /\ snd[s] = "lock" /\ Unlocked
      /\ snd' = [snd EXCEPT ![s] = "packets"]
      /\ out' = buffer \o WireBytes(f) /\ buffer' = << >>
      /\ log' = Append(IF log = << >> THEN Held ELSE log, f)
      /\ UNCHANGED << todo, deadline, broken, wire, parsed >>
  BY DEF LockConn, SndGoto, recvVars
<1>2. \/ ~padding /\ plan' = << >> /\ UNCHANGED << pkt, padding >>
      \/ /\ padding /\ pkt' = pkt + 1
         /\ \E scheme \in Schemes :
              \/ /\ pkt' < scheme.stop
                 /\ plan' \in PayloadSizes(scheme, pkt') /\ UNCHANGED padding
              \/ plan' = << >> /\ padding' = FALSE
  BY DEF LockConn, Padded
<1>3. /\ todo \in [Senders -> FrameSeq] /\ todo[s] # << >> /\ log \in FrameSeq
      /\ parsed \in FrameSeq /\ wire \in ByteSeq /\ pkt \in Nat /\ padding \in BOOLEAN
      /\ snd \in [Senders -> {"idle", "lock", "packets", "clear"}]
      /\ buffer = IF log = << >> THEN BytesOf(Held) ELSE << >>
  BY <1>1 DEF WireInv, WriterOK
<1>4. Idle /\ out = << >>
  BY <1>1 DEF WireInv, OneWrites, Unlocked, Idle
<1>5. f \in Sendable
  BY <1>3, HeadTailProperties DEF FrameSeq
<1> HIDE DEF f
<1>6. << f >> \in FrameSeq /\ Held \in FrameSeq /\ WireBytes(f) \in ByteSeq /\ f \in Wired
  BY <1>5, WiredLaws, HeldFrames, FrameFacts, WireBytesFacts
<1>7. x \in FrameSeq /\ log' = log \o x /\ log' \in FrameSeq /\ log' # << >>
  <2>1. log' = (IF log = << >> THEN Held ELSE log) \o << f >> /\ log' # << >>
    <3>1. (IF log = << >> THEN Held ELSE log) \in FrameSeq
      BY <1>3, <1>6
    <3>. QED
      BY <1>1, <1>5, <3>1, AppendIsConcat, AppendProperties DEF FrameSeq
  <2>2. x \in FrameSeq
    BY <1>6, FrameLaws
  <2>3. log' = log \o x
    <3>1. CASE log = << >>
      <4>1. log' = Held \o << f >> /\ x = Held \o << f >>
        BY <2>1, <3>1
      <4>. QED
        BY <2>2, <3>1, <4>1, FrameLaws
    <3>2. CASE log # << >>
      BY <2>1, <3>2
    <3>. QED
      BY <3>1, <3>2
  <2> HIDE DEF x
  <2>4. log \o x \in FrameSeq
    BY <1>3, <2>2, FrameLaws
  <2>. QED
    BY <2>1, <2>2, <2>3, <2>4
<1>8. out' = BytesOf(x) /\ out' \in ByteSeq
  <2>1. BytesOf(<< f >>) = WireBytes(f)
    BY <1>6, BytesOfLaws
  <2>2. Held \in WiredSeq /\ << f >> \in WiredSeq
    BY <1>6, WiredLaws
  <2>3. BytesOf(Held \o << f >>) = BytesOf(Held) \o WireBytes(f) /\ BytesOf(Held) \in ByteSeq
    BY <2>1, <2>2, BytesOfLaws
  <2>. QED
    BY <1>1, <1>3, <1>6, <2>1, <2>3, ByteLaws
<1>9. plan' \in PlanSeq /\ pkt' \in Nat /\ padding' \in BOOLEAN
  <2>1. << >> \in PlanSeq
    BY EmptySeq DEF PlanSeq
  <2>. QED
    <3>1. CASE ~padding
      BY <1>2, <1>3, <2>1, <3>1
    <3>2. CASE padding
      <4>1. pkt' = pkt + 1 /\ pkt' \in Nat
        BY <1>2, <1>3, <3>2
      <4>2. \A scheme \in Schemes : PayloadSizes(scheme, pkt') \subseteq PlanSeq
        BY <4>1, PlannedSizes
      <4>. QED
        BY <1>2, <1>3, <2>1, <3>2, <4>1, <4>2
    <3>. QED
      BY <3>1, <3>2
<1>10. \E y \in FrameSeq : log' = Held \o y
  <2>1. CASE log = << >>
    <3>1. log' = Held \o << f >>
      BY <1>3, <1>6, <1>7, <2>1, FrameLaws
    <3>. QED
      BY <1>6, <3>1
  <2>2. CASE log # << >>
    <3>1. PICK y \in FrameSeq : log = Held \o y
      BY <2>2 DEF WireInv, WriterOK
    <3>2. log' = Held \o (y \o x) /\ y \o x \in FrameSeq
      <4> HIDE DEF x
      <4>1. (Held \o y) \o x = Held \o (y \o x) /\ y \o x \in FrameSeq
        BY <1>6, <1>7, FrameLaws, SMTT(60)
      <4>. QED
        BY <1>7, <3>1, <4>1
    <3>. QED
      BY <3>2
  <2>. QED
    BY <2>1, <2>2
<1>11. /\ snd' \in [Senders -> {"idle", "lock", "packets", "clear"}]
       /\ \A r \in Senders : snd'[r] \in {"lock", "packets"} => todo'[r] # << >>
       /\ \A r \in Senders : snd'[r] = "packets" => r = s
       /\ snd'[s] = "packets"
  <2>1. /\ \A r \in Senders : snd[r] \in {"lock", "packets"} => todo[r] # << >>
        /\ \A r \in Senders : snd[r] # "packets"
    BY <1>4 DEF WireInv, WriterOK, Idle
  <2>2. \A r \in Senders : snd'[r] = IF r = s THEN "packets" ELSE snd[r]
    BY <1>1, <1>3
  <2>. QED
    BY <1>1, <1>3, <2>1, <2>2
<1>12. WriterOK'
  BY <1>1, <1>3, <1>7, <1>8, <1>9, <1>10, <1>11 DEF WireInv, WriterOK
<1>13. OneWrites' /\ ~Idle'
  BY <1>11 DEF OneWrites, Idle
<1>14. WorkLeft'
  BY <1>1 DEF WireInv, WorkLeft
<1>15. Flow'
  <2>1. PICK fs \in WiredSeq, rest \in ByteSeq, later \in FrameSeq :
            /\ wire \o rest = BytesOf(fs)
            /\ log = (parsed \o Real(fs)) \o later
            /\ ~broken => rest = out /\ later = << >>
    BY DEF WireInv, Flow
  <2>2. Real(fs) \in FrameSeq /\ parsed \o Real(fs) \in FrameSeq
    BY <1>3, RealLaws, FrameLaws
  <2>3. CASE broken
    <3>1. log' = (parsed \o Real(fs)) \o (later \o x) /\ later \o x \in FrameSeq
      <4> DEFINE base == parsed \o Real(fs)
      <4>1. base \in FrameSeq /\ log = base \o later
        BY <2>1, <2>2
      <4> HIDE DEF base, x
      <4>2. (base \o later) \o x = base \o (later \o x) /\ later \o x \in FrameSeq
        BY <1>7, <4>1, FrameLaws, SMTT(60)
      <4>. QED
        BY <1>7, <4>1, <4>2 DEF base
    <3>. QED
      BY <1>1, <2>1, <2>3, <3>1 DEF Flow
  <2>4. CASE ~broken
    <3>1. wire = BytesOf(fs) /\ log = parsed \o Real(fs)
      BY <1>3, <1>4, <2>1, <2>2, <2>4, ByteLaws, FrameLaws
    <3>2. x \in WiredSeq /\ fs \o x \in WiredSeq
      BY <1>7, WiredLaws
    <3> HIDE DEF x
    <3>3. wire \o out' = BytesOf(fs \o x)
      BY <1>8, <3>1, <3>2, BytesOfLaws
    <3>4. Real(fs \o x) = Real(fs) \o x
      BY <1>7, <3>2, RealLaws
    <3>5. log' = parsed \o Real(fs \o x)
      <4> DEFINE rf == Real(fs)
      <4>1. rf \in FrameSeq /\ log' = (parsed \o rf) \o x
        BY <1>7, <2>2, <3>1
      <4> HIDE DEF rf
      <4>2. (parsed \o rf) \o x = parsed \o (rf \o x)
        BY <1>3, <1>7, <4>1, FrameAssoc, ZenonT(60)
      <4>. QED
        BY <3>4, <4>1, <4>2 DEF rf
    <3>6. log' = (parsed \o Real(fs \o x)) \o << >>
      BY <1>7, <3>5, FrameLaws
    <3>. QED
      BY <1>1, <1>8, <3>2, <3>3, <3>6, FrameLaws DEF Flow
  <2>. QED
    BY <2>3, <2>4
<1>16. Stops'
  <2>1. Len(log) \in Nat /\ Len(Held) \in Nat
    BY <1>3, <1>6, LenProperties DEF FrameSeq
  <2>2. Number' = IF log = << >> THEN 1 ELSE Number + 1
    <3>1. CASE log = << >>
      <4>1. log' = Append(Held, f) /\ Len(log') = Len(Held) + 1
        BY <1>1, <1>5, <1>6, <3>1, AppendProperties DEF FrameSeq
      <4>. QED
        BY <2>1, <3>1, <4>1 DEF Number
    <3>2. CASE log # << >>
      <4>1. log' = Append(log, f) /\ Len(log') = Len(log) + 1
        BY <1>1, <1>3, <1>5, <3>2, AppendProperties DEF FrameSeq
      <4>. QED
        BY <2>1, <3>2, <4>1 DEF Number
    <3>. QED
      BY <3>1, <3>2
  <2>3. /\ log = << >> => pkt = 0 /\ padding
        /\ padding /\ log # << >> => pkt = Number
    BY DEF WireInv, Stops
  <2>4. padding => pkt' = Number'
    BY <1>2, <2>2, <2>3
  <2>5. padding' => padding /\ \E scheme \in Schemes : Number' < scheme.stop
    BY <1>2, <2>4
  <2>6. ~padding' => plan' = << >>
    BY <1>2, <1>3
  <2>7. ASSUME Number' > 1, \A scheme \in Schemes : Number' >= scheme.stop
        PROVE  plan' = << >> /\ out' = WireBytes(Last(log'))
    <3>1. Number' \in Int /\ \A scheme \in Schemes : scheme.stop \in Nat
      BY <2>1, <2>2, WriteAssumption DEF Number
    <3>2. plan' = << >>
      BY <2>5, <2>6, <2>7, <3>1
    <3>3. log # << >>
      BY <2>2, <2>7
    <3>4. out' = WireBytes(f)
      BY <1>1, <1>3, <1>6, <3>3, ByteLaws
    <3>5. Last(log') = f
      <4>1. log' = Append(log, f)
        BY <1>1, <3>3
      <4>2. Len(log') = Len(log) + 1 /\ log'[Len(log) + 1] = f
        BY <1>3, <1>5, <4>1, AppendProperties DEF FrameSeq
      <4>. QED
        BY <4>2 DEF Last
    <3>. QED
      BY <3>2, <3>4, <3>5
  <2>8. WireBytes(Last(log))' = WireBytes(Last(log'))
    BY DEF WireBytes, WireLen, Last
  <2>. QED
    BY <1>7, <2>4, <2>5, <2>7, <2>8 DEF Stops
<1>. QED
  BY <1>12, <1>13, <1>14, <1>15, <1>16 DEF WireInv

(***************************************************************************)
(* recvLoop.                                                               *)
(***************************************************************************)
LEMMA HeadAndTail ==
    ASSUME NEW fs \in WiredSeq, fs # << >>
    PROVE  /\ Head(fs) \in Wired /\ Tail(fs) \in WiredSeq
           /\ fs = << Head(fs) >> \o Tail(fs)
<1>1. Len(fs) \in Nat \ {0}
  BY EmptySeq DEF WiredSeq
<1>2. Head(fs) = fs[1] /\ Tail(fs) = SubSeq(fs, 2, Len(fs))
  BY TailIsSubSeq DEF WiredSeq
<1>3. 1 \in 1 .. Len(fs) /\ Len(fs) \in 1 .. Len(fs) /\ 1 + 1 = 2
  BY <1>1
<1>4. SubSeq(fs, 1, Len(fs)) = << fs[1] >> \o SubSeq(fs, 1 + 1, Len(fs))
  BY <1>3, SubSeqRecursiveFirst DEF WiredSeq
<1>. QED
  BY <1>2, <1>3, <1>4, SubSeqFull, HeadTailProperties DEF WiredSeq

\* If a and b together are c and d together, and c is no longer than a, a starts with c.
SameBytes(a, b, c, d) == a \o b = c \o d /\ c # << >> /\ Len(c) <= Len(a)
StartsWith(a, b, c, d) ==
    /\ SubSeq(a, 1, Len(c)) = c
    /\ SubSeq(a, Len(c) + 1, Len(a)) \in ByteSeq
    /\ SubSeq(a, Len(c) + 1, Len(a)) \o b = d

LEMMA ByteSplit ==
    \A a, b, c, d \in ByteSeq : SameBytes(a, b, c, d) => StartsWith(a, b, c, d)
<1> DEFINE S == WireByte
<1> HIDE DEF S
<1>1. \A a, b, c, d \in Seq(S) :
        a \o b = c \o d /\ c # << >> /\ Len(c) <= Len(a) =>
            /\ a[1] = c[1]
            /\ SubSeq(a, 1, Len(c)) = c
            /\ SubSeq(a, Len(c) + 1, Len(a)) \in Seq(S)
            /\ SubSeq(a, Len(c) + 1, Len(a)) \o b = d
  BY SplitFront, Zenon
<1>. QED
  BY <1>1, ZenonT(60) DEF ByteSeq, S, SameBytes, StartsWith

LEMMA Modulo ==
    ASSUME NEW x \in Nat, NEW y \in Nat \ {0}, x < y
    PROVE  x % y = x
OBVIOUS

LEMMA TakeFrame ==
    ASSUME wire \in ByteSeq, NEW fs \in WiredSeq, NEW rest \in ByteSeq, wire \o rest = BytesOf(fs),
           Arrived
    PROVE  /\ fs # << >> /\ NextFrame = Head(fs) /\ FrameSize = WireLen(Head(fs))
           /\ SubSeq(wire, FrameSize + 1, Len(wire)) \in ByteSeq
           /\ SubSeq(wire, FrameSize + 1, Len(wire)) \o rest = BytesOf(Tail(fs))
<1> DEFINE f == Head(fs)
           gs == Tail(fs)
           back == SubSeq(wire, FrameSize + 1, Len(wire))
<1>1. wire # << >> /\ Len(wire) \in Nat \ {0} /\ Len(rest) \in Nat
  BY EmptySeq, LenProperties DEF Arrived, ByteSeq
<1>2. fs # << >>
  BY <1>1, BytesOfLaws, ByteLaws
<1>3. f \in Wired /\ gs \in WiredSeq /\ fs = << f >> \o gs /\ << f >> \in WiredSeq
  BY <1>2, HeadAndTail, WiredLaws
<1> HIDE DEF f, gs
<1>4. BytesOf(fs) = WireBytes(f) \o BytesOf(gs) /\ BytesOf(gs) \in ByteSeq
  BY <1>3, BytesOfLaws
<1>5. /\ WireBytes(f) \in ByteSeq /\ WireBytes(f) # << >> /\ WireBytes(f)[1] = << f, 1 >>
      /\ WireLen(f) \in Nat \ {0} /\ Len(WireBytes(f)) = WireLen(f)
  BY <1>3, WireBytesFacts
<1>6. wire[1] = << f, 1 >>
  <2>1. (wire \o rest)[1] = wire[1]
    BY <1>1, ConcatProperties DEF ByteSeq
  <2>2. (WireBytes(f) \o BytesOf(gs))[1] = WireBytes(f)[1]
    <3>1. Len(BytesOf(gs)) \in Nat
      BY <1>4, LenProperties DEF ByteSeq
    <3>. QED
      BY <1>4, <1>5, <3>1, ConcatProperties DEF ByteSeq
  <2>. QED
    BY <1>4, <1>5, <2>1, <2>2
<1>7. FrameSize = WireLen(f)
  <2>1. Len(f.data) \in Nat /\ Len(f.data) < Width /\ Width \in Nat \ {0}
    BY <1>3, FrameFacts, WriteAssumption
  <2>2. Len(f.data) % Width = Len(f.data)
    BY <2>1, Modulo
  <2>3. wire[1][1] = f
    BY <1>6
  <2>. QED
    BY <2>2, <2>3 DEF FrameSize, WireLen
<1>8. Len(WireBytes(f)) <= Len(wire)
  BY <1>5, <1>7 DEF Arrived
<1>9. /\ SubSeq(wire, 1, FrameSize) = WireBytes(f)
      /\ back \in ByteSeq /\ back \o rest = BytesOf(gs)
  <2>1. wire \o rest = WireBytes(f) \o BytesOf(gs)
    BY <1>4
  <2> DEFINE wb == WireBytes(f)
             bs == BytesOf(gs)
  <2>2. /\ wb \in ByteSeq /\ bs \in ByteSeq /\ wire \o rest = wb \o bs /\ wb # << >>
        /\ Len(wb) <= Len(wire) /\ Len(wb) = FrameSize
    BY <1>4, <1>5, <1>7, <1>8, <2>1
  <2> HIDE DEF wb, bs
  <2>3. /\ SubSeq(wire, 1, Len(wb)) = wb
        /\ SubSeq(wire, Len(wb) + 1, Len(wire)) \in ByteSeq
        /\ SubSeq(wire, Len(wb) + 1, Len(wire)) \o rest = bs
    <3>1. SameBytes(wire, rest, wb, bs)
      BY <2>2 DEF SameBytes
    <3>2. StartsWith(wire, rest, wb, bs)
      BY <2>2, <3>1, ByteSplit
    <3>. QED
      BY <3>2 DEF StartsWith
  <2>. QED
    BY <2>2, <2>3 DEF wb, bs
<1>10. NextFrame = f
  BY <1>6, <1>9 DEF NextFrame
<1>. QED
  BY <1>2, <1>7, <1>9, <1>10 DEF f, gs

\* A frame is taken as it was written, whatever comes behind it.
LEMMA TakenFrame ==
    ASSUME WireInv, Arrived
    PROVE  /\ NextFrame \in Wired /\ FrameSize = WireLen(NextFrame)
           /\ SubSeq(wire, FrameSize + 1, Len(wire)) \in ByteSeq
           /\ Len(SubSeq(wire, FrameSize + 1, Len(wire))) < Len(wire)
           /\ NextFrame.cmd # "Waste" =>
                \E x \in FrameSeq : log = (parsed \o << NextFrame >>) \o x
<1>1. PICK fs \in WiredSeq, rest \in ByteSeq, later \in FrameSeq :
        wire \o rest = BytesOf(fs) /\ log = (parsed \o Real(fs)) \o later
  BY DEF WireInv, Flow
<1>2. wire \in ByteSeq /\ parsed \in FrameSeq
  BY DEF WireInv, WriterOK
<1> DEFINE back == SubSeq(wire, FrameSize + 1, Len(wire))
<1>3. /\ fs # << >> /\ NextFrame = Head(fs) /\ FrameSize = WireLen(Head(fs))
      /\ back \in ByteSeq
  BY <1>1, <1>2, TakeFrame
<1>4. Head(fs) \in Wired /\ Tail(fs) \in WiredSeq /\ fs = << Head(fs) >> \o Tail(fs)
      /\ << Head(fs) >> \in WiredSeq
  BY <1>3, HeadAndTail, WiredLaws
<1>5. Len(back) < Len(wire)
  <2>1. FrameSize \in Nat \ {0} /\ Len(wire) \in Nat /\ FrameSize <= Len(wire)
    BY <1>2, <1>3, <1>4, WireBytesFacts, LenProperties DEF Arrived, ByteSeq
  <2>2. \A i \in FrameSize + 1 .. Len(wire) : wire[i] \in WireByte
    BY <1>2, <2>1, ElementOfSeq DEF ByteSeq
  <2>3. Len(back) = IF FrameSize + 1 <= Len(wire) THEN Len(wire) - (FrameSize + 1) + 1 ELSE 0
    BY <2>1, <2>2, SubSeqProperties
  <2>. QED
    BY <2>1, <2>3
<1>6. ASSUME NextFrame.cmd # "Waste"
      PROVE  \E x \in FrameSeq : log = (parsed \o << NextFrame >>) \o x
  <2> DEFINE f == Head(fs)
             gs == Tail(fs)
  <2>1. f \in Sendable /\ << f >> \in FrameSeq
    BY <1>3, <1>4, <1>6, FrameFacts, WiredLaws
  <2>2. Real(fs) = << f >> \o Real(gs) /\ Real(gs) \in FrameSeq
    BY <1>3, <1>4, <1>6, RealLaws
  <2> HIDE DEF f, gs
  <2>3. parsed \o Real(fs) = (parsed \o << f >>) \o Real(gs) /\ parsed \o << f >> \in FrameSeq
    <3> DEFINE ff == << f >>
               rg == Real(gs)
    <3>1. ff \in FrameSeq /\ rg \in FrameSeq /\ Real(fs) = ff \o rg
      BY <2>1, <2>2
    <3> HIDE DEF ff, rg
    <3>2. parsed \o (ff \o rg) = (parsed \o ff) \o rg /\ parsed \o ff \in FrameSeq
      BY <1>2, <3>1, FrameAssoc, FrameJoin, ZenonT(60)
    <3>. QED
      BY <3>1, <3>2 DEF ff, rg
  <2> DEFINE pf == parsed \o << f >>
             rg == Real(gs)
  <2>4. log = (pf \o rg) \o later /\ pf \in FrameSeq /\ rg \in FrameSeq
    BY <1>1, <2>2, <2>3
  <2> HIDE DEF pf, rg
  <2>5. log = pf \o (rg \o later) /\ rg \o later \in FrameSeq
    BY <2>4, FrameLaws
  <2>. QED
    BY <1>3, <2>5 DEF pf, f
<1>. QED
  BY <1>3, <1>4, <1>5, <1>6

LEMMA ReadFrameStep ==
    ASSUME WireInv, ReadFrame
    PROVE  WireInv'
<1> DEFINE f == NextFrame
           back == SubSeq(wire, FrameSize + 1, Len(wire))
<1>1. /\ Arrived /\ wire' = back
      /\ parsed' = IF f.cmd = "Waste" THEN parsed ELSE Append(parsed, f)
      /\ UNCHANGED << snd, todo, out, plan, buffer, pkt, padding, deadline, broken, log >>
  BY DEF ReadFrame
<1>2. PICK fs \in WiredSeq, rest \in ByteSeq, later \in FrameSeq :
        /\ wire \o rest = BytesOf(fs)
        /\ log = (parsed \o Real(fs)) \o later
        /\ ~broken => rest = out /\ later = << >>
  BY DEF WireInv, Flow
<1>3. wire \in ByteSeq /\ parsed \in FrameSeq
  BY DEF WireInv, WriterOK
<1>4. /\ fs # << >> /\ f = Head(fs) /\ back \in ByteSeq /\ back \o rest = BytesOf(Tail(fs))
  BY <1>1, <1>2, <1>3, TakeFrame
<1> HIDE DEF f, back
<1> DEFINE gs == Tail(fs)
<1>5. f \in Wired /\ gs \in WiredSeq /\ fs = << f >> \o gs /\ << f >> \in WiredSeq
  BY <1>4, HeadAndTail, WiredLaws
<1> HIDE DEF gs
<1>6. Real(fs) = Real(<< f >>) \o Real(gs) /\ Real(gs) \in FrameSeq
  BY <1>5, RealLaws
<1>7. parsed' = parsed \o Real(<< f >>) /\ Real(<< f >>) \in FrameSeq /\ parsed' \in FrameSeq
  <2>1. CASE f.cmd = "Waste"
    BY <1>1, <1>3, <1>5, <2>1, RealLaws, FrameLaws
  <2>2. CASE f.cmd # "Waste"
    <3>1. f \in Sendable /\ Real(<< f >>) = << f >> /\ << f >> \in FrameSeq
      BY <1>5, <2>2, FrameFacts, RealLaws, WiredLaws
    <3>2. parsed' = Append(parsed, f)
      BY <1>1, <2>2
    <3>3. parsed' = parsed \o << f >>
      BY <1>3, <3>1, <3>2, AppendIsConcat DEF FrameSeq
    <3>. QED
      BY <1>3, <3>1, <3>3, FrameLaws
  <2>. QED
    BY <2>1, <2>2
<1>8. WriterOK'
  BY <1>1, <1>4, <1>7 DEF WireInv, WriterOK
<1>9. OneWrites' /\ WorkLeft'
  BY <1>1 DEF WireInv, OneWrites, WorkLeft, Idle
<1>10. Flow'
  <2>1. log' = (parsed' \o Real(gs)) \o later
    <3>1. parsed \o Real(fs) = (parsed \o Real(<< f >>)) \o Real(gs)
      <4> DEFINE rf == Real(<< f >>)
                 rg == Real(gs)
      <4>1. rf \in FrameSeq /\ rg \in FrameSeq /\ Real(fs) = rf \o rg
        BY <1>6, <1>7
      <4> HIDE DEF rf, rg
      <4>2. parsed \o (rf \o rg) = (parsed \o rf) \o rg
        BY <1>3, <4>1, FrameAssoc, ZenonT(60)
      <4>. QED
        BY <4>1, <4>2 DEF rf, rg
    <3>. QED
      BY <1>1, <1>2, <1>7, <3>1
  <2>2. wire' \o rest = BytesOf(gs)
    BY <1>1, <1>4 DEF gs
  <2>. QED
    BY <1>1, <1>2, <1>5, <2>1, <2>2 DEF Flow
<1>11. Stops'
  BY <1>1 DEF WireInv, Stops, Idle, Number
<1>. QED
  BY <1>8, <1>9, <1>10, <1>11 DEF WireInv

(***************************************************************************)
(* The invariant of the wire, and the pipe in the path.                    *)
(***************************************************************************)
LEMMA WireStays ==
    ASSUME WireInv, UNCHANGED << writeVars, parsed >>
    PROVE  WireInv'
<1> USE DEF writeVars
<1>1. WriterOK' /\ OneWrites' /\ WorkLeft'
  BY DEF WireInv, WriterOK, OneWrites, WorkLeft, Idle
<1>2. Flow'
  BY FlowStays DEF WireInv
<1>3. Stops'
  BY DEF WireInv, Stops, Idle, Number
<1>. QED
  BY <1>1, <1>2, <1>3 DEF WireInv

LEMMA WireNext == WireInv /\ [Next]_vars => WireInv'
<1> SUFFICES ASSUME WireInv, [Next]_vars PROVE WireInv'
  OBVIOUS
<1>1. ASSUME NEW s \in Senders, StartFrame(s) \/ SendStep(s), UNCHANGED recvVars PROVE WireInv'
  BY <1>1, StartFrameStep, ClearDeadlineStep, LockConnStep, PassCheckMarkStep,
     WritePacketStep, WritePacketFailsStep, WriteDoneStep DEF SendStep
<1>2. ASSUME DeadlineOver \/ ConnBreaks, UNCHANGED recvVars PROVE WireInv'
  BY <1>2, WireEventStep
<1>3. CASE ReadFrame
  BY <1>3, ReadFrameStep
<1>4. CASE RecvEnds
  BY <1>4, WireStays DEF RecvEnds
<1>5. CASE UNCHANGED << writeVars, recvVars >>
  BY <1>5, WireStays DEF recvVars
<1>. QED
  BY <1>1, <1>2, <1>3, <1>4, <1>5 DEF Next, vars

LEMMA WireInvariant == Spec => []WireInv
BY WireInitInv, WireNext, PTL DEF Spec

\* What recvLoop does with a frame of the wire, a pipe may do.
LEMMA HandleIsPipe ==
    ASSUME NEW f \in Wired, Handle(f), known \in BOOLEAN
    PROVE  [PipeNext]_pipeVars /\ known' \in BOOLEAN
<1>1. CASE f.cmd = "PSH"
  <2>1. f.data \in Writes
    BY <1>1, FrameFacts
  <2>2. /\ StartWrite("recvLoop", f.data) \/ UNCHANGED pipeVars
        /\ UNCHANGED known
    BY <1>1 DEF Handle
  <2>. QED
    BY <2>1, <2>2, DataPathAssumption DEF PipeNext
<1>2. CASE f.cmd # "PSH"
  <2>1. (CloseRead \/ UNCHANGED pipeVars) /\ known' \in BOOLEAN
    BY <1>2 DEF Handle, Ignore
  <2>. QED
    BY <2>1 DEF PipeNext
<1>. QED
  BY <1>1, <1>2

RecvOK == known \in BOOLEAN /\ over \in BOOLEAN

LEMMA PathStep ==
    ASSUME WireInv, RecvOK, [Next]_vars
    PROVE  [PipeNext]_pipeVars /\ RecvOK'
<1>1. CASE ReadFrame
  <2>1. NextFrame \in Wired
    BY <1>1, TakenFrame DEF ReadFrame
  <2>2. Handle(NextFrame) /\ UNCHANGED over
    BY <1>1 DEF ReadFrame
  <2>. QED
    BY <2>1, <2>2, HandleIsPipe DEF RecvOK
<1>2. CASE RecvEnds
  BY <1>2 DEF RecvEnds, RecvOK, PipeNext
<1>3. CASE UNCHANGED << pipeVars, recvVars >>
  BY <1>3 DEF recvVars, RecvOK
<1>4. CASE (PipeStep \/ Owner \/ TimerFires) /\ UNCHANGED << writeVars, recvVars >>
  <2>1. PipeStep \/ Owner \/ TimerFires => PipeNext
    BY DEF PipeStep, Owner, PipeNext
  <2>. QED
    BY <1>4, <2>1 DEF recvVars, RecvOK
<1>. QED
  BY <1>1, <1>2, <1>3, <1>4 DEF Next, vars

LEMMA RecvInvariant == Spec => []RecvOK
<1>1. Init => RecvOK
  BY DEF Init, RecvOK
<1>2. WireInv /\ RecvOK /\ [Next]_vars => RecvOK'
  BY PathStep
<1>. QED
  BY <1>1, <1>2, WireInvariant, PTL DEF Spec

\* The pipe in the path is a pipe: recvLoop writes to it what some frame carried.
THEOREM PathIsPipe == Spec => PipeSpec
<1>1. Init => PipeInit
  BY DEF Init
<1>2. WireInv /\ RecvOK /\ [Next]_vars => [PipeNext]_pipeVars
  BY PathStep
<1>. QED
  BY <1>1, <1>2, WireInvariant, RecvInvariant, PTL DEF Spec, PipeSpec

\* The deadline of a Read is honest whatever the wire brings and whoever closes.
THEOREM PathDeadlineIsHonest == Spec => []DeadlineHonest
BY PathIsPipe, DeadlineIsHonest

\* recvLoop puts its buffer back into the pool when no reader copies from it any more,
\* whatever is written next (session.go, buf.Put after buffer.Write).
THEOREM PathBufferSafe == Spec => []CopyInsideWrite
BY PathIsPipe, BufferSafe

LEMMA PathPipeInvariant == Spec => []PipeIInv
BY PathIsPipe, PipeInvariant

(***************************************************************************)
(* What follows for the wire.                                              *)
(***************************************************************************)
LEMMA StartIsPrefix ==
    ASSUME NEW S, NEW s \in Seq(S), NEW u \in Seq(S)
    PROVE  IsPrefix(s, s \o u)
<1>1. Len(s) \in Nat /\ Len(u) \in Nat /\ Len(s \o u) = Len(s) + Len(u)
  BY LenProperties, ConcatProperties
<1>2. SubSeq(s, 1, Len(s)) = SubSeq(s \o u, 1, Len(s))
  <2>1. CASE Len(s) = 0
    BY <2>1, SubSeqEmpty
  <2>2. CASE Len(s) # 0
    <3>1. 1 \in 1 .. Len(s) /\ Len(s) \in 1 .. Len(s)
      BY <1>1, <2>2
    <3>. QED
      BY <3>1, SubSeqOfConcat1
  <2>. QED
    BY <2>1, <2>2
<1>. QED
  BY <1>1, <1>2 DEF IsPrefix

LEMMA FramePrefix == \A a, b \in FrameSeq : IsPrefix(a, a \o b)
BY StartIsPrefix DEF FrameSeq

LEMMA EndIsSuffix ==
    ASSUME NEW w \in FrameSeq, NEW n \in 0 .. Len(w), NEW t, t = SubSeq(w, n + 1, Len(w))
    PROVE  IsSuffix(t, w)
<1>1. Len(w) \in Nat /\ \A i \in 1 .. Len(w) : w[i] \in Sendable
  BY LenProperties, ElementOfSeq DEF FrameSeq
<1>2. /\ Len(t) = Len(w) - n /\ Len(t) \in Nat
      /\ \A i \in 1 .. Len(t) : t[i] = w[n + i]
  <2>1. n + 1 \in Int /\ Len(w) \in Int /\ \A i \in n + 1 .. Len(w) : w[i] \in Sendable
    BY <1>1
  <2>2. /\ Len(t) = IF n + 1 <= Len(w) THEN Len(w) - (n + 1) + 1 ELSE 0
        /\ \A i \in 1 .. Len(w) - (n + 1) + 1 : t[i] = w[n + 1 + i - 1]
    BY <2>1, SubSeqProperties
  <2>3. Len(t) = Len(w) - n /\ Len(w) - (n + 1) + 1 = Len(w) - n /\ Len(t) \in Nat
    BY <1>1, <2>2
  <2>4. ASSUME NEW i \in 1 .. Len(t) PROVE t[i] = w[n + i]
    <3>1. i \in 1 .. Len(w) - (n + 1) + 1
      BY <2>3
    <3>2. n \in Int
      OBVIOUS
    <3>3. i \in Int
      OBVIOUS
    <3>4. n + 1 + i - 1 = n + i
      BY ONLY <3>2, <3>3
    <3>. QED
      BY <2>2, <3>1, <3>4
  <2>. QED
    BY <2>3, <2>4
<1> DEFINE rt == Reverse(t)
           rw == Reverse(w)
<1>3. /\ rt = [i \in 1 .. Len(t) |-> t[Len(t) - i + 1]]
      /\ rw = [i \in 1 .. Len(w) |-> w[Len(w) - i + 1]]
  BY DEF Reverse
<1>4. \A i \in 1 .. Len(w) : rw[i] = w[Len(w) - i + 1] /\ Len(w) - i + 1 \in 1 .. Len(w)
  BY <1>1, <1>3
<1>5. rw \in Seq(Sendable) /\ Len(rw) = Len(w)
  <2>1. rw \in [1 .. Len(w) -> Sendable]
    BY <1>1, <1>3, <1>4
  <2>. QED
    BY <1>1, <2>1, SeqDef
<1>6. \A i \in 1 .. Len(t) : rt[i] = rw[i] /\ rw[i] \in Sendable
  <2>1. ASSUME NEW i \in 1 .. Len(t) PROVE rt[i] = rw[i] /\ rw[i] \in Sendable
    <3>1. /\ i \in 1 .. Len(w) /\ Len(t) - i + 1 \in 1 .. Len(t)
          /\ n + (Len(t) - i + 1) = Len(w) - i + 1
      BY <1>1, <1>2
    <3>2. rt[i] = t[Len(t) - i + 1]
      BY <1>3
    <3>3. t[Len(t) - i + 1] = w[Len(w) - i + 1]
      BY <1>2, <3>1
    <3>. QED
      BY <1>1, <1>4, <3>1, <3>2, <3>3
  <2>. QED
    BY <2>1
<1>7. rt \in Seq(Sendable) /\ Len(rt) = Len(t)
  <2>1. rt \in [1 .. Len(t) -> Sendable]
    BY <1>3, <1>6
  <2>. QED
    BY <1>2, <2>1, SeqDef, SMTT(60)
<1> HIDE DEF rt, rw
<1>8. SubSeq(rt, 1, Len(rt)) = SubSeq(rw, 1, Len(rt))
  <2>1. SubSeq(rt, 1, Len(rt)) = rt
    BY <1>7, SubSeqFull
  <2>2. /\ SubSeq(rw, 1, Len(t)) \in Seq(Sendable)
        /\ Len(SubSeq(rw, 1, Len(t))) = Len(t)
        /\ \A i \in 1 .. Len(t) : SubSeq(rw, 1, Len(t))[i] = rw[i]
    <3>1. \A i \in 1 .. Len(t) : rw[i] \in Sendable
      BY <1>6
    <3>2. /\ SubSeq(rw, 1, Len(t)) \in Seq(Sendable)
          /\ Len(SubSeq(rw, 1, Len(t))) = IF 1 <= Len(t) THEN Len(t) - 1 + 1 ELSE 0
          /\ \A i \in 1 .. Len(t) - 1 + 1 : SubSeq(rw, 1, Len(t))[i] = rw[1 + i - 1]
      BY <1>2, <3>1, SubSeqProperties
    <3>3. Len(t) - 1 + 1 = Len(t) /\ \A i \in 1 .. Len(t) : 1 + i - 1 = i
      BY <1>2
    <3>. QED
      BY <1>2, <3>2, <3>3
  <2>3. rt = SubSeq(rw, 1, Len(t))
    BY <1>6, <1>7, <2>2, SeqEqual
  <2>. QED
    BY <1>7, <2>1, <2>3
<1>9. Len(rt) <= Len(rw)
  BY <1>1, <1>2, <1>5, <1>7
<1>. QED
  BY <1>8, <1>9 DEF IsSuffix, IsPrefix, rt, rw

\* The variables of the path have their types; what is left to write is an end of the
\* work, and the first write takes the buffer along (TypeOK).
THEOREM PathTypeCorrect == Spec => []TypeOK
<1>1. ASSUME WireInv PROVE WriteTypeOK
  <2>1. \E work \in Work : \A s \in Senders : IsSuffix(todo[s], work[s])
    <3>1. PICK work \in Work : \A s \in Senders : \E n \in 0 .. Len(work[s]) :
            todo[s] = SubSeq(work[s], n + 1, Len(work[s]))
      BY <1>1 DEF WireInv, WorkLeft
    <3>2. ASSUME NEW s \in Senders PROVE IsSuffix(todo[s], work[s])
      BY <3>1, WorkFrames, EndIsSuffix
    <3>. QED
      BY <3>2
  <2>2. plan \in Seq((Nat \ {0}) \cup {CheckMark})
    <3>1. Sizes \subseteq (Nat \ {0}) \cup {CheckMark}
      BY WriteAssumption DEF Sizes
    <3>2. plan \in Seq(Sizes)
      BY <1>1 DEF WireInv, WriterOK, PlanSeq
    <3>. QED
      BY <3>1, <3>2, SeqMonotonic
  <2>3. IsPrefix(Held, log) \/ log = << >>
    BY <1>1, HeldFrames, FramePrefix DEF WireInv, WriterOK
  <2>. QED
    BY <1>1, <2>1, <2>2, <2>3 DEF WireInv, WriterOK, WriteTypeOK
<1>2. WireInv /\ RecvOK /\ PipeIInv => TypeOK
  BY <1>1 DEF TypeOK, RecvOK, PipeIInv
<1>. QED
  BY <1>2, WireInvariant, RecvInvariant, PathPipeInvariant, PTL

\* With nothing on its way, and nobody in writeConn, all that was written is taken.
LEMMA AllTaken ==
    ASSUME WireInv, Quiet
    PROVE  log = parsed
<1>1. PICK fs \in WiredSeq, rest \in ByteSeq, later \in FrameSeq :
        /\ wire \o rest = BytesOf(fs)
        /\ log = (parsed \o Real(fs)) \o later
        /\ ~broken => rest = out /\ later = << >>
  BY DEF WireInv, Flow
<1>2. parsed \in FrameSeq
  BY DEF WireInv, WriterOK
<1>3. rest = << >> /\ later = << >> /\ wire = << >>
  BY <1>1 DEF Quiet, WireInv, OneWrites
<1>4. BytesOf(fs) = << >>
  BY <1>1, <1>3, ByteLaws
<1>5. fs = << >>
  <2>1. SUFFICES ASSUME fs # << >> PROVE FALSE
    OBVIOUS
  <2> DEFINE f == Head(fs)
             gs == Tail(fs)
  <2>2. f \in Wired /\ gs \in WiredSeq /\ fs = << f >> \o gs /\ << f >> \in WiredSeq
    BY <2>1, HeadAndTail, WiredLaws
  <2> HIDE DEF f, gs
  <2>3. BytesOf(fs) = WireBytes(f) \o BytesOf(gs) /\ BytesOf(gs) \in ByteSeq
    BY <2>2, BytesOfLaws
  <2>4. WireBytes(f) \in ByteSeq /\ WireBytes(f) # << >>
    BY <2>2, WireBytesFacts
  <2>. QED
    BY <1>4, <2>3, <2>4, ByteLaws
<1>. QED
  <2>1. Real(fs) = << >>
    BY <1>5, RealLaws
  <2>2. parsed \o << >> = parsed
    BY <1>2, FrameLaws
  <2>. QED
    BY <1>1, <1>3, <2>1, <2>2

LEMMA ParsedPrefix ==
    ASSUME WireInv
    PROVE  \E x \in FrameSeq : log = parsed \o x
<1>1. PICK fs \in WiredSeq, later \in FrameSeq : log = (parsed \o Real(fs)) \o later
  BY DEF WireInv, Flow
<1>2. parsed \in FrameSeq /\ Real(fs) \in FrameSeq
  BY RealLaws DEF WireInv, WriterOK
<1>3. log = parsed \o (Real(fs) \o later) /\ Real(fs) \o later \in FrameSeq
  BY <1>1, <1>2, FrameLaws
<1>. QED
  BY <1>3

\* recvLoop finds the frames that were written, whole and in the order of connLock,
\* however writeConn cut and padded them (FramesIntact).
THEOREM FramesAreIntact == Spec => []FramesIntact
<1>1. ASSUME WireInv PROVE FramesIntact
  <2>1. IsPrefix(parsed, log)
    BY <1>1, ParsedPrefix, FramePrefix DEF WireInv, WriterOK
  <2>2. ASSUME Quiet PROVE IsPrefix(log, parsed)
    <3>1. log = parsed /\ parsed \in FrameSeq
      BY <1>1, <2>2, AllTaken DEF WireInv, WriterOK
    <3>2. parsed \o << >> = parsed /\ << >> \in FrameSeq
      BY <3>1, FrameLaws
    <3>. QED
      BY <3>1, <3>2, FramePrefix
  <2>. QED
    BY <2>1, <2>2 DEF FramesIntact
<1>. QED
  BY <1>1, WireInvariant, PTL

\* Once every scheme has stopped, a frame goes out in one write, as it is
\* (PaddingStops: sendPadding and pktCounter in writeConn).
THEOREM PaddingIsOver == Spec => PaddingStops
<1> DEFINE Whole ==
        Number > 1 /\ (\A scheme \in Schemes : Number >= scheme.stop)
            /\ Len(wire') > Len(wire) /\ ~broken'
        => wire' = wire \o WireBytes(Last(log))
<1>1. ASSUME WireInv, [Next]_vars PROVE [Whole]_vars
  <2>0. Len(wire) \in Nat
    BY <1>1, LenProperties DEF WireInv, WriterOK, ByteSeq
  <2>1. ASSUME NEW s \in Senders, WritePacket(s) PROVE Whole
    <3> SUFFICES ASSUME Number > 1, \A scheme \in Schemes : Number >= scheme.stop
                 PROVE  wire' = wire \o WireBytes(Last(log))
      OBVIOUS
    <3>1. ~Idle /\ wire' = wire \o Packet /\ (plan = << >> => out # << >>)
      BY <2>1 DEF WritePacket, Pending, Idle
    <3>2. plan = << >> /\ out \in {<< >>, WireBytes(Last(log))}
      BY <1>1, <3>1 DEF WireInv, Stops
    <3>. QED
      BY <3>1, <3>2 DEF Packet
  <2>2. ASSUME NEW s \in Senders, WritePacketFails(s) PROVE Whole
    BY <2>2 DEF WritePacketFails
  <2>3. CASE ReadFrame
    <3>1. Arrived /\ wire' = SubSeq(wire, FrameSize + 1, Len(wire))
      BY <2>3 DEF ReadFrame
    <3>2. wire' \in ByteSeq /\ Len(wire') < Len(wire)
      BY <1>1, <3>1, TakenFrame
    <3>3. Len(wire') \in Nat
      BY <3>2, LenProperties DEF ByteSeq
    <3>. QED
      BY <2>0, <3>2, <3>3
  <2>4. ASSUME UNCHANGED wire PROVE Whole
    BY <2>0, <2>4
  <2>5. ASSUME NEW s \in Senders,
               StartFrame(s) \/ ClearDeadline(s) \/ LockConn(s) \/ PassCheckMark(s) \/ WriteDone(s)
        PROVE  UNCHANGED wire
    BY <2>5 DEF StartFrame, ClearDeadline, LockConn, PassCheckMark, WriteDone
  <2>6. DeadlineOver \/ ConnBreaks \/ RecvEnds \/ UNCHANGED writeVars => UNCHANGED wire
    BY DEF DeadlineOver, ConnBreaks, RecvEnds, writeVars
  <2> HIDE DEF Whole
  <2>. QED
    BY <1>1, <2>1, <2>2, <2>3, <2>4, <2>5, <2>6 DEF Next, SendStep, vars
<1>. QED
  BY <1>1, WireInvariant, PTL DEF Spec, PaddingStops

(***************************************************************************)
(* The data of stream 1, up to its first FIN.                              *)
(***************************************************************************)
IsFin(f) == f.cmd = "FIN" /\ f.sid = Stream1
IsSyn(f) == f.cmd = "SYN" /\ f.sid = Stream1
HasFin(fs) == \E i \in DOMAIN fs : IsFin(fs[i])
HasSyn(fs) == \E i \in DOMAIN fs : IsSyn(fs[i])

FinAt(fs) == SelectInSeq(fs, LAMBDA f : f.cmd = "FIN" /\ f.sid = Stream1)
Before(fs) == SubSeq(fs, 1, IF FinAt(fs) = 0 THEN Len(fs) ELSE FinAt(fs) - 1)
Got(fs) == DataOf(Before(fs))

LEMMA WrittenIsGot == Written = Got(log)
BY DEF Written, Got, Before, FinAt

LEMMA FinAtFirst ==
    ASSUME NEW fs \in FrameSeq
    PROVE  /\ ~HasFin(fs) => FinAt(fs) = 0
           /\ HasFin(fs) => /\ FinAt(fs) \in 1 .. Len(fs) /\ IsFin(fs[FinAt(fs)])
                            /\ \A j \in 1 .. Len(fs) : IsFin(fs[j]) => FinAt(fs) <= j
<1> DEFINE I == {i \in 1 .. Len(fs) : IsFin(fs[i])}
<1>1. FinAt(fs) = IF I # {} THEN Min(I) ELSE 0
  BY DEF FinAt, SelectInSeq, IsFin
<1>2. DOMAIN fs = 1 .. Len(fs) /\ Len(fs) \in Nat
  BY LenProperties DEF FrameSeq
<1>3. HasFin(fs) <=> I # {}
  BY <1>2 DEF HasFin
<1>4. ASSUME I # {}
      PROVE  Min(I) \in I /\ \A j \in I : Min(I) <= j
  <2>1. I \subseteq Nat
    BY <1>2
  <2> HIDE DEF I
  <2>2. \E m \in I : \A j \in I : m <= j
    BY <1>4, <2>1, Least
  <2>. QED
    BY <2>2 DEF Min
<1>. QED
  BY <1>1, <1>3, <1>4

LEMMA FinAtIs ==
    ASSUME NEW fs \in FrameSeq, NEW k \in 1 .. Len(fs), IsFin(fs[k]),
           \A j \in 1 .. Len(fs) : IsFin(fs[j]) => k <= j
    PROVE  HasFin(fs) /\ FinAt(fs) = k
<1>1. HasFin(fs)
  BY LenProperties DEF HasFin, FrameSeq
<1>2. FinAt(fs) \in 1 .. Len(fs) /\ FinAt(fs) <= k /\ k <= FinAt(fs)
  BY <1>1, FinAtFirst
<1>3. FinAt(fs) = k
  BY <1>2
<1>. QED
  BY <1>1, <1>3

LEMMA HasConcat ==
    ASSUME NEW fs \in FrameSeq, NEW gs \in FrameSeq
    PROVE  /\ HasFin(fs \o gs) <=> HasFin(fs) \/ HasFin(gs)
           /\ HasSyn(fs \o gs) <=> HasSyn(fs) \/ HasSyn(gs)
<1> DEFINE hs == fs \o gs
<1>1. /\ Len(fs) \in Nat /\ DOMAIN fs = 1 .. Len(fs)
      /\ Len(gs) \in Nat /\ DOMAIN gs = 1 .. Len(gs)
  BY LenProperties DEF FrameSeq
<1>2. DOMAIN hs = 1 .. Len(fs) + Len(gs)
      /\ \A i \in 1 .. Len(fs) + Len(gs) : hs[i] = IF i <= Len(fs) THEN fs[i] ELSE gs[i - Len(fs)]
  BY ConcatProperties, LenProperties DEF FrameSeq
<1> HIDE DEF hs
<1>3. \A i \in DOMAIN hs : \/ i \in DOMAIN fs /\ hs[i] = fs[i]
                           \/ i - Len(fs) \in DOMAIN gs /\ hs[i] = gs[i - Len(fs)]
  BY <1>1, <1>2
<1>4. \A i \in DOMAIN fs : i \in DOMAIN hs /\ hs[i] = fs[i]
  BY <1>1, <1>2
<1>5. \A i \in DOMAIN gs : Len(fs) + i \in DOMAIN hs /\ hs[Len(fs) + i] = gs[i]
  <2>1. ASSUME NEW i \in DOMAIN gs PROVE Len(fs) + i \in DOMAIN hs /\ hs[Len(fs) + i] = gs[i]
    <3> DEFINE j == Len(fs) + i
    <3>1. j \in 1 .. Len(fs) + Len(gs) /\ ~(j <= Len(fs)) /\ j - Len(fs) = i
      BY <1>1
    <3> HIDE DEF j
    <3>2. j \in DOMAIN hs /\ hs[j] = gs[i]
      BY <1>2, <3>1
    <3>. QED
      BY <3>2 DEF j
  <2>. QED
    BY <2>1
<1>6. HasFin(hs) <=> HasFin(fs) \/ HasFin(gs)
  BY <1>3, <1>4, <1>5 DEF HasFin
<1>7. HasSyn(hs) <=> HasSyn(fs) \/ HasSyn(gs)
  BY <1>3, <1>4, <1>5 DEF HasSyn
<1>. QED
  BY <1>6, <1>7 DEF hs

LEMMA FrontOfConcat == \A a, b \in FrameSeq : SubSeq(a \o b, 1, Len(a)) = a
<1> SUFFICES ASSUME NEW a \in FrameSeq, NEW b \in FrameSeq PROVE SubSeq(a \o b, 1, Len(a)) = a
  OBVIOUS
<1>1. IsPrefix(a, a \o b)
  BY FramePrefix
<1>2. SubSeq(a, 1, Len(a)) = a
  BY SubSeqFull DEF FrameSeq
<1>. QED
  BY <1>1, <1>2 DEF IsPrefix

LEMMA FrameParts ==
    ASSUME NEW a \in FrameSeq, NEW n \in 0 .. Len(a)
    PROVE  /\ SubSeq(a, 1, n) \in FrameSeq /\ SubSeq(a, n + 1, Len(a)) \in FrameSeq
           /\ SubSeq(a, 1, n) \o SubSeq(a, n + 1, Len(a)) = a
           /\ Len(SubSeq(a, 1, n)) = n
<1>1. Len(a) \in Nat /\ \A i \in 1 .. Len(a) : a[i] \in Sendable
  BY LenProperties, ElementOfSeq DEF FrameSeq
<1>2. /\ 1 \in 1 .. Len(a) + 1 /\ n \in 1 - 1 .. Len(a) /\ Len(a) \in n .. Len(a)
      /\ \A i \in 1 .. n : i \in 1 .. Len(a)
      /\ \A i \in n + 1 .. Len(a) : i \in 1 .. Len(a)
      /\ n \in Int /\ n + 1 \in Int /\ Len(a) \in Int
  BY <1>1
<1>3. SubSeq(a, 1, n) \in FrameSeq /\ SubSeq(a, n + 1, Len(a)) \in FrameSeq
  BY <1>1, <1>2, SubSeqProperties DEF FrameSeq
<1>4. SubSeq(a, 1, n) \o SubSeq(a, n + 1, Len(a)) = SubSeq(a, 1, Len(a))
  BY <1>2, ConcatAdjacentSubSeq DEF FrameSeq
<1>5. Len(SubSeq(a, 1, n)) = n
  <2>1. Len(SubSeq(a, 1, n)) = IF 1 <= n THEN n - 1 + 1 ELSE 0
    BY <1>1, <1>2, SubSeqProperties
  <2>. QED
    BY <1>1, <2>1
<1>. QED
  BY <1>3, <1>4, <1>5, SubSeqFull DEF FrameSeq

LEMMA BeforeFin ==
    ASSUME NEW fs \in FrameSeq
    PROVE  /\ ~HasFin(fs) => Before(fs) = fs
           /\ Before(fs) \in FrameSeq
<1>1. CASE ~HasFin(fs)
  BY <1>1, FinAtFirst, SubSeqFull DEF Before, FrameSeq
<1>2. CASE HasFin(fs)
  <2>1. FinAt(fs) \in 1 .. Len(fs) /\ Len(fs) \in Nat
    BY <1>2, FinAtFirst, LenProperties DEF FrameSeq
  <2>2. FinAt(fs) # 0 /\ FinAt(fs) - 1 \in 0 .. Len(fs)
    BY <2>1
  <2>. QED
    BY <1>2, <2>2, FrameParts DEF Before
<1>. QED
  BY <1>1, <1>2

LEMMA BeforeConcat ==
    ASSUME NEW fs \in FrameSeq, NEW gs \in FrameSeq
    PROVE  Before(fs \o gs) = IF HasFin(fs) THEN Before(fs) ELSE fs \o Before(gs)
<1> DEFINE hs == fs \o gs
<1>1. Len(fs) \in Nat /\ Len(gs) \in Nat
  BY LenProperties DEF FrameSeq
<1>2. /\ hs \in FrameSeq /\ Len(hs) = Len(fs) + Len(gs)
      /\ \A i \in 1 .. Len(fs) + Len(gs) : hs[i] = IF i <= Len(fs) THEN fs[i] ELSE gs[i - Len(fs)]
  BY ConcatProperties DEF FrameSeq
<1>3. HasFin(hs) <=> HasFin(fs) \/ HasFin(gs)
  BY HasConcat
<1>4. CASE HasFin(fs)
  <2> DEFINE k == FinAt(fs)
  <2>1. /\ k \in 1 .. Len(fs) /\ IsFin(fs[k])
        /\ \A j \in 1 .. Len(fs) : IsFin(fs[j]) => k <= j
    BY <1>4, FinAtFirst
  <2> HIDE DEF k
  <2>2. k \in 1 .. Len(hs) /\ hs[k] = fs[k] /\ k - 1 \in 0 .. Len(fs)
    BY <1>1, <1>2, <2>1
  <2>3. ASSUME NEW j \in 1 .. Len(hs), IsFin(hs[j]) PROVE k <= j
    <3>1. CASE j <= Len(fs)
      <4>1. j \in 1 .. Len(fs) /\ hs[j] = fs[j]
        BY <1>1, <1>2, <3>1
      <4>. QED
        BY <2>1, <2>3, <4>1
    <3>2. CASE ~(j <= Len(fs))
      BY <1>1, <2>1, <3>2
    <3>. QED
      BY <3>1, <3>2
  <2> HIDE DEF hs
  <2>4. FinAt(hs) = k
    BY <1>2, <2>1, <2>2, <2>3, FinAtIs
  <2>5. Before(hs) = SubSeq(hs, 1, k - 1) /\ Before(fs) = SubSeq(fs, 1, k - 1)
    <3>1. k # 0
      BY <2>1
    <3>. QED
      BY <2>4, <3>1 DEF Before, k
  <2>6. SubSeq(hs, 1, k - 1) = SubSeq(fs, 1, k - 1)
    <3> DEFINE a == SubSeq(fs, 1, k - 1)
               b == SubSeq(fs, k - 1 + 1, Len(fs))
    <3>1. a \in FrameSeq /\ b \in FrameSeq /\ a \o b = fs /\ Len(a) = k - 1
      BY <2>2, FrameParts
    <3> HIDE DEF a, b
    <3>2. hs = a \o (b \o gs) /\ b \o gs \in FrameSeq
      <4>1. (a \o b) \o gs = a \o (b \o gs)
        BY <3>1, FrameAssoc, ZenonT(60)
      <4>2. b \o gs \in FrameSeq
        BY <3>1, FrameJoin, ZenonT(60)
      <4>. QED
        BY <3>1, <4>1, <4>2 DEF hs
    <3>3. SubSeq(a \o (b \o gs), 1, Len(a)) = a
      BY <3>1, <3>2, FrontOfConcat
    <3>. QED
      BY <3>1, <3>2, <3>3 DEF a
  <2>. QED
    BY <1>4, <2>5, <2>6 DEF hs
<1>5. CASE ~HasFin(fs) /\ ~HasFin(gs)
  <2>1. ~HasFin(hs)
    BY <1>3, <1>5
  <2>2. Before(hs) = hs /\ Before(gs) = gs
    BY <1>2, <1>5, <2>1, BeforeFin
  <2>. QED
    BY <1>5, <2>2
<1>6. CASE ~HasFin(fs) /\ HasFin(gs)
  <2> DEFINE k == FinAt(gs)
             m == Len(fs) + k
  <2>1. /\ k \in 1 .. Len(gs) /\ IsFin(gs[k])
        /\ \A j \in 1 .. Len(gs) : IsFin(gs[j]) => k <= j
    BY <1>6, FinAtFirst
  <2> HIDE DEF k
  <2>2. m \in 1 .. Len(hs) /\ ~(m <= Len(fs)) /\ m - Len(fs) = k /\ k - 1 \in 0 .. Len(gs) /\ m # 0
    BY <1>1, <1>2, <2>1
  <2>3. hs[m] = gs[k]
    <3> HIDE DEF m, hs
    <3>. QED
      BY <1>2, <2>2
  <2>4. ASSUME NEW j \in 1 .. Len(hs), IsFin(hs[j]) PROVE m <= j
    <3>1. CASE j <= Len(fs)
      <4>1. j \in DOMAIN fs /\ hs[j] = fs[j]
        BY <1>1, <1>2, <3>1, LenProperties DEF FrameSeq
      <4>. QED
        BY <1>6, <2>4, <4>1 DEF HasFin
    <3>2. CASE ~(j <= Len(fs))
      <4>1. j - Len(fs) \in 1 .. Len(gs) /\ hs[j] = gs[j - Len(fs)]
        BY <1>1, <1>2, <3>2
      <4>2. k <= j - Len(fs)
        BY <2>1, <2>4, <4>1
      <4>. QED
        BY <1>1, <2>1, <4>2
    <3>. QED
      BY <3>1, <3>2
  <2>5. m - 1 = Len(fs) + (k - 1)
    BY <1>1, <2>1
  <2> HIDE DEF hs, m
  <2>6. FinAt(hs) = m
    BY <1>2, <2>1, <2>2, <2>3, <2>4, FinAtIs
  <2> DEFINE a == SubSeq(gs, 1, k - 1)
             b == SubSeq(gs, k - 1 + 1, Len(gs))
  <2>7. a \in FrameSeq /\ b \in FrameSeq /\ a \o b = gs /\ Len(a) = k - 1
    BY <2>2, FrameParts
  <2>8. Before(gs) = a
    <3>1. k # 0
      BY <2>1
    <3>. QED
      BY <3>1 DEF Before, k
  <2> HIDE DEF a, b
  <2>9. Before(hs) = SubSeq(hs, 1, Len(fs) + (k - 1))
    BY <2>2, <2>5, <2>6 DEF Before
  <2>10. fs \o a \in FrameSeq /\ Len(fs \o a) = Len(fs) + (k - 1)
    <3>1. Len(fs \o a) = Len(fs) + Len(a)
      BY <2>7, ConcatProperties DEF FrameSeq
    <3>. QED
      BY <2>7, <3>1, FrameLaws
  <2>11. hs = (fs \o a) \o b
    <3>1. (fs \o a) \o b = fs \o (a \o b)
      BY <2>7, FrameAssoc, ZenonT(60)
    <3>. QED
      BY <2>7, <3>1 DEF hs
  <2> DEFINE c == fs \o a
  <2>12. SubSeq(c \o b, 1, Len(c)) = c
    <3>1. c \in FrameSeq
      BY <2>10
    <3> HIDE DEF c
    <3>. QED
      BY <2>7, <3>1, FrontOfConcat
  <2>. QED
    BY <1>6, <2>8, <2>9, <2>10, <2>11, <2>12 DEF hs
<1>. QED
  BY <1>4, <1>5, <1>6

LEMMA GotLaws ==
    /\ \A fs \in FrameSeq : Got(fs) \in Bytes
    /\ \A fs, gs \in FrameSeq : \E z \in Bytes : Got(fs \o gs) = Got(fs) \o z
    /\ \A fs \in FrameSeq, f \in Sendable :
        /\ HasFin(fs) => Got(fs \o << f >>) = Got(fs)
        /\ ~HasFin(fs) => Got(fs \o << f >>) = Got(fs) \o DataIn(<< f >>)
<1>1. ASSUME NEW fs \in FrameSeq PROVE Got(fs) = DataIn(Before(fs)) /\ Got(fs) \in Bytes
  BY BeforeFin, DataInLaws DEF Got
<1>2. ASSUME NEW fs \in FrameSeq, NEW gs \in FrameSeq, HasFin(fs) PROVE Got(fs \o gs) = Got(fs)
  BY <1>2, BeforeConcat DEF Got
<1>3. ASSUME NEW fs \in FrameSeq, NEW gs \in FrameSeq, ~HasFin(fs)
      PROVE  Got(fs \o gs) = Got(fs) \o Got(gs)
  <2>1. Before(fs \o gs) = fs \o Before(gs) /\ Before(fs) = fs /\ fs \o gs \in FrameSeq
    BY <1>3, BeforeConcat, BeforeFin, FrameLaws
  <2>2. Before(gs) \in FrameSeq
    BY BeforeFin
  <2>3. DataIn(fs \o Before(gs)) = DataIn(fs) \o DataIn(Before(gs))
    BY <2>2, DataInLaws
  <2>4. Got(fs \o gs) = DataIn(Before(fs \o gs)) /\ Got(gs) = DataIn(Before(gs))
        /\ Got(fs) = DataIn(Before(fs))
    BY <1>1, <2>1
  <2>. QED
    BY <2>1, <2>3, <2>4
<1>4. ASSUME NEW f \in Sendable PROVE Got(<< f >>) = DataIn(<< f >>)
  <2>1. << f >> \in FrameSeq
    BY WiredLaws
  <2>2. CASE ~IsFin(f)
    <3>1. ~HasFin(<< f >>)
      BY <2>2 DEF HasFin
    <3>2. Before(<< f >>) = << f >>
      BY <2>1, <3>1, BeforeFin
    <3>. QED
      BY <1>1, <2>1, <3>2
  <2>3. CASE IsFin(f)
    <3>1. DataIn(<< f >>) = << >>
      BY <2>3, DataInLaws DEF IsFin
    <3>2. FinAt(<< f >>) = 1
      BY <2>1, <2>3, FinAtIs
    <3>3. Before(<< f >>) = << >>
      BY <3>2, SubSeqEmpty DEF Before
    <3>. QED
      BY <1>1, <2>1, <3>1, <3>3, DataInLaws
  <2>. QED
    BY <2>2, <2>3
<1>5. ASSUME NEW fs \in FrameSeq, NEW gs \in FrameSeq
      PROVE  \E z \in Bytes : Got(fs \o gs) = Got(fs) \o z
  <2>1. CASE HasFin(fs)
    <3>1. Got(fs) \o << >> = Got(fs) /\ << >> \in Bytes
      BY <1>1, DataLaws
    <3>. QED
      BY <1>2, <2>1, <3>1
  <2>2. CASE ~HasFin(fs)
    BY <1>1, <1>3, <2>2
  <2>. QED
    BY <2>1, <2>2
<1>6. ASSUME NEW fs \in FrameSeq, NEW f \in Sendable
      PROVE  /\ HasFin(fs) => Got(fs \o << f >>) = Got(fs)
             /\ ~HasFin(fs) => Got(fs \o << f >>) = Got(fs) \o DataIn(<< f >>)
  <2>1. << f >> \in FrameSeq
    BY WiredLaws
  <2>2. HasFin(fs) => Got(fs \o << f >>) = Got(fs)
    BY <1>2, <2>1
  <2>3. ~HasFin(fs) => Got(fs \o << f >>) = Got(fs) \o Got(<< f >>)
    BY <1>3, <2>1
  <2>. QED
    BY <1>4, <2>2, <2>3
<1>. QED
  BY <1>1, <1>5, <1>6

(***************************************************************************)
(* What recvLoop hands to the pipe.                                        *)
(***************************************************************************)
Waiting == IF wr["recvLoop"] = "lock" THEN left["recvLoop"] ELSE << >>
Sent == accepted \o Waiting

\* The pipe has been given the data of the frames taken, up to where it was closed; a
\* stream that is open is in the map, and one that has seen its FIN is closed.
Handed ==
    /\ \E x \in Bytes : Got(parsed) = Sent \o x /\ (~done => x = << >>)
    /\ HasSyn(parsed) /\ ~done => known
    /\ HasFin(parsed) => done

LEMMA HandedInit == Init => Handed
<1> SUFFICES ASSUME Init PROVE Handed
  OBVIOUS
<1>1. parsed = << >> /\ accepted = << >> /\ Waiting = << >>
  BY DataPathAssumption DEF Init, PipeInit, Waiting
<1>2. ~HasFin(<< >>) /\ ~HasSyn(<< >>)
  BY DEF HasFin, HasSyn
<1>3. Got(<< >>) = << >>
  BY <1>2, BeforeFin, FrameLaws, DataInLaws DEF Got
<1>4. Sent = << >> /\ << >> \in Bytes /\ << >> \o << >> = << >>
  BY <1>1, DataLaws DEF Sent
<1>. QED
  BY <1>1, <1>2, <1>3, <1>4 DEF Handed

LEMMA SentBytes == PipeTypeOK => Sent \in Bytes /\ Waiting \in Bytes
BY DataLaws, DataPathAssumption DEF PipeTypeOK, Sent, Waiting

\* A step that takes no frame and moves no data keeps what was handed over.
LEMMA HandedStays ==
    ASSUME Handed, Sent' = Sent, UNCHANGED << known, parsed >>, done => done'
    PROVE  Handed'
BY DEF Handed

LEMMA HandedPipe ==
    ASSUME Handed, PipeIInv, PipeStep \/ Owner \/ TimerFires, UNCHANGED << known, parsed >>
    PROVE  Handed'
<1>0. PipeTypeOK /\ PipeExact /\ Writers = {"recvLoop"}
  BY DataPathAssumption DEF PipeIInv
<1>1. CASE LockWrites("recvLoop")
  <2>1. /\ wr["recvLoop"] = "lock" /\ wr'["recvLoop"] = "select" /\ UNCHANGED done
        /\ accepted' = accepted \o left["recvLoop"]
    BY <1>0, <1>1 DEF LockWrites, PipeTypeOK
  <2>2. Sent = accepted \o left["recvLoop"] /\ Sent' = accepted' \o << >>
    BY <2>1 DEF Sent, Waiting
  <2>3. accepted' \o << >> = accepted'
    BY <1>0, <2>1, <2>2, SentBytes, DataLaws
  <2>. QED
    BY <2>1, <2>2, <2>3, HandedStays
<1>2. CASE WriteFails("recvLoop")
  <2> DEFINE l == left["recvLoop"]
  <2>1. /\ wr["recvLoop"] = "select" /\ wr'["recvLoop"] = "idle" /\ done /\ done'
        /\ accepted' = SubSeq(accepted, 1, Len(accepted) - Len(l))
    BY <1>0, <1>2 DEF WriteFails, PipeTypeOK
  <2>2. accepted = taken \o l /\ taken \in Bytes /\ l \in Bytes /\ accepted \in Bytes
    BY <1>0, <2>1 DEF PipeExact, Inside, PipeTypeOK
  <2> HIDE DEF l
  <2>3. accepted' = taken
    BY <2>1, <2>2, TakeBack
  <2>4. Sent = accepted /\ Sent' = taken
    BY <2>1, <2>2, <2>3, DataLaws DEF Sent, Waiting
  <2>5. PICK x \in Bytes : Got(parsed) = Sent \o x
    BY DEF Handed
  <2>6. Got(parsed) = taken \o (l \o x) /\ l \o x \in Bytes
    <3>1. (taken \o l) \o x = taken \o (l \o x)
      BY <2>2, <2>5, DataAssoc, ZenonT(60)
    <3>2. l \o x \in Bytes
      BY <2>2, <2>5, DataJoin, ZenonT(60)
    <3>3. Got(parsed) = (taken \o l) \o x
      BY <2>2, <2>4, <2>5
    <3>. QED
      BY <3>1, <3>2, <3>3
  <2>. QED
    BY <2>1, <2>4, <2>6 DEF Handed
<1>3. ASSUME NEW r \in Readers, Meet("recvLoop", r) \/ Transfer("recvLoop", r) PROVE Handed'
  <2>1. wr["recvLoop"] # "lock" /\ wr'["recvLoop"] # "lock" /\ UNCHANGED << accepted, done >>
    BY <1>0, <1>3 DEF Meet, Transfer, PipeTypeOK
  <2>2. Sent' = Sent
    BY <2>1 DEF Sent, Waiting
  <2>. QED
    BY <2>1, <2>2, HandedStays
<1>4. ASSUME UNCHANGED << wr, left, accepted >>, done => done' PROVE Handed'
  <2>1. Sent' = Sent
    BY <1>4 DEF Sent, Waiting
  <2>. QED
    BY <1>4, <2>1, HandedStays
<1>5. ASSUME NEW r \in Readers, EnterSelect(r) \/ ReadEnds(r) PROVE Handed'
  BY <1>4, <1>5 DEF EnterSelect, ReadEnds
<1>6. Callback \/ TimerFires => Handed'
  BY <1>4 DEF Callback, TimerFires, dataVars
<1>7. Owner => Handed'
  BY <1>4 DEF Owner, StartRead, SetReadDeadline, CloseRead, dataVars
<1>. QED
  BY <1>0, <1>1, <1>2, <1>3, <1>5, <1>6, <1>7 DEF PipeStep

LEMMA SynFirst ==
    ASSUME WireInv, NEW f \in Sendable, NEW x \in FrameSeq, log = (parsed \o << f >>) \o x,
           f.cmd \in {"PSH", "FIN"}, f.sid = Stream1
    PROVE  HasSyn(parsed)
<1> DEFINE n == Len(parsed)
<1>1. /\ parsed \in FrameSeq /\ << f >> \in FrameSeq /\ log \in FrameSeq /\ Held \in FrameSeq
      /\ DOMAIN parsed = 1 .. n /\ n \in Nat /\ Len(Held) \in Nat /\ DOMAIN Held = 1 .. Len(Held)
  BY WiredLaws, HeldFrames, LenProperties DEF WireInv, WriterOK, FrameSeq
<1>2. /\ Len(log) = n + 1 + Len(x) /\ Len(x) \in Nat /\ log[n + 1] = f
      /\ \A i \in 1 .. n : log[i] = parsed[i]
  <2> DEFINE p == parsed \o << f >>
  <2>1. p \in FrameSeq /\ Len(p) = n + 1 /\ p[n + 1] = f /\ \A i \in 1 .. n : p[i] = parsed[i]
    <3>1. p = Append(parsed, f)
      BY <1>1, AppendIsConcat DEF FrameSeq
    <3>2. Append(parsed, f) \in Seq(Sendable) /\ Len(Append(parsed, f)) = n + 1
          /\ Append(parsed, f)[n + 1] = f
          /\ \A i \in 1 .. n : Append(parsed, f)[i] = parsed[i]
      BY <1>1, AppendProperties DEF FrameSeq
    <3>. QED
      BY <3>1, <3>2 DEF FrameSeq
  <2> HIDE DEF p
  <2>2. log = p \o x
    BY DEF p
  <2>3. /\ Len(p \o x) = Len(p) + Len(x) /\ Len(x) \in Nat
        /\ \A i \in 1 .. Len(p) + Len(x) : (p \o x)[i] = IF i <= Len(p) THEN p[i] ELSE x[i - Len(p)]
    BY <2>1, ConcatProperties, LenProperties DEF FrameSeq
  <2>. QED
    BY <1>1, <2>1, <2>2, <2>3
<1>3. PICK y \in FrameSeq : log = Held \o y
  <2>1. log # << >>
    BY <1>1, <1>2, EmptySeq
  <2>. QED
    BY <2>1 DEF WireInv, WriterOK
<1>4. \A i \in 1 .. Len(Held) : i \in 1 .. Len(log) /\ log[i] = Held[i]
  <2>1. /\ Len(Held \o y) = Len(Held) + Len(y) /\ Len(y) \in Nat
        /\ \A i \in 1 .. Len(Held) + Len(y) :
              (Held \o y)[i] = IF i <= Len(Held) THEN Held[i] ELSE y[i - Len(Held)]
    BY <1>1, ConcatProperties, LenProperties DEF FrameSeq
  <2>. QED
    BY <1>1, <1>3, <2>1
<1>5. PICK k \in DOMAIN Held :
        /\ Held[k].cmd = "SYN" /\ Held[k].sid = 1
        /\ \A i \in 1 .. k - 1 : Held[i].cmd \in {"PSH", "FIN"} => Held[i].sid # 1
  BY DataPathAssumption
<1> HIDE DEF n
<1>6. k <= n
  <2>1. ASSUME n + 1 < k PROVE FALSE
    <3>1. n + 1 \in 1 .. k - 1 /\ n + 1 \in 1 .. Len(Held)
      BY <1>1, <1>5, <2>1
    <3>2. Held[n + 1] = f
      BY <1>2, <1>4, <3>1
    <3>. QED
      BY <1>5, <3>1, <3>2 DEF Stream1
  <2>2. ASSUME k = n + 1 PROVE FALSE
    <3>1. Held[k] = f
      BY <1>1, <1>2, <1>4, <1>5, <2>2
    <3>. QED
      BY <1>5, <3>1
  <2>. QED
    BY <1>1, <1>5, <2>1, <2>2
<1>7. k \in DOMAIN parsed /\ parsed[k] = Held[k]
  BY <1>1, <1>2, <1>4, <1>5, <1>6
<1>. QED
  BY <1>5, <1>7 DEF HasSyn, IsSyn, Stream1

LEMMA HandedRead ==
    ASSUME WireInv, RecvOK, PipeIInv, Handed, ReadFrame
    PROVE  Handed'
<1> DEFINE f == NextFrame
<1>1. /\ Arrived /\ wr["recvLoop"] = "idle" /\ Handle(f)
      /\ parsed' = IF f.cmd = "Waste" THEN parsed ELSE Append(parsed, f)
  BY DEF ReadFrame
<1>2. /\ f \in Wired
      /\ f.cmd # "Waste" => \E x \in FrameSeq : log = (parsed \o << f >>) \o x
  BY <1>1, TakenFrame
<1>3. parsed \in FrameSeq /\ PipeTypeOK /\ Writers = {"recvLoop"}
  BY DataPathAssumption DEF WireInv, WriterOK, PipeIInv
<1> HIDE DEF f
<1>4. CASE f.cmd = "Waste"
  <2>1. UNCHANGED << pipeVars, known, parsed >>
    BY <1>1, <1>4 DEF Handle, Ignore
  <2>2. Sent' = Sent /\ UNCHANGED done
    BY <2>1 DEF Sent, Waiting, pipeVars, dataVars
  <2>. QED
    BY <2>1, <2>2, HandedStays
<1>5. CASE f.cmd # "Waste"
  <2>1. f \in Sendable /\ << f >> \in FrameSeq
    BY <1>2, <1>5, FrameFacts, WiredLaws
  <2>2. parsed' = parsed \o << f >>
    <3>1. parsed' = Append(parsed, f)
      BY <1>1, <1>5
    <3>. QED
      BY <1>3, <2>1, <3>1, AppendIsConcat DEF FrameSeq
  <2>3. f.cmd \in {"PSH", "FIN"} /\ f.sid = Stream1 => HasSyn(parsed)
    BY <1>2, <1>5, <2>1, SynFirst
  <2>4. /\ HasFin(parsed') <=> HasFin(parsed) \/ IsFin(f)
        /\ HasSyn(parsed') <=> HasSyn(parsed) \/ IsSyn(f)
    <3>1. HasFin(<< f >>) <=> IsFin(f)
      BY DEF HasFin
    <3>2. HasSyn(<< f >>) <=> IsSyn(f)
      BY DEF HasSyn
    <3>. QED
      BY <1>3, <2>1, <2>2, <3>1, <3>2, HasConcat
  <2>5. /\ HasFin(parsed) => Got(parsed') = Got(parsed)
        /\ ~HasFin(parsed) => Got(parsed') = Got(parsed) \o DataIn(<< f >>)
    BY <1>3, <2>1, <2>2, GotLaws
  <2> DEFINE d == DataIn(<< f >>)
  <2>6. /\ d = IF f.cmd = "PSH" /\ f.sid = Stream1 THEN f.data ELSE << >>
        /\ d \in Bytes
    BY <2>1, DataInLaws
  <2> HIDE DEF d
  <2>7. PICK x \in Bytes : Got(parsed) = Sent \o x /\ (~done => x = << >>)
    BY DEF Handed
  <2>8. /\ Sent = accepted /\ accepted \in Bytes /\ UNCHANGED accepted
        /\ done => done' /\ UNCHANGED << wr, left >>
    <3>1. Sent = accepted /\ accepted \in Bytes
      BY <1>1, <1>3, DataLaws DEF Sent, Waiting, PipeTypeOK
    <3>2. UNCHANGED accepted /\ (done => done' /\ UNCHANGED << wr, left >>)
      BY <1>1 DEF Handle, Ignore, StartWrite, CloseRead, pipeVars, dataVars
    <3>. QED
      BY <3>1, <3>2
  <2>9. CASE done
    <3>1. done' /\ Sent' = Sent
      BY <2>8, <2>9 DEF Sent, Waiting
    <3>2. \E z \in Bytes : Got(parsed') = Sent \o z
      <4>0. Sent \in Bytes /\ x \in Bytes /\ d \in Bytes
        BY <2>6, <2>7, <2>8
      <4>1. (Sent \o x) \o d = Sent \o (x \o d) /\ x \o d \in Bytes
        BY <4>0, DataLaws
      <4>. QED
        BY <2>5, <2>7, <4>0, <4>1 DEF d
    <3>. QED
      BY <3>1, <3>2 DEF Handed
  <2>10. CASE ~done
    <3>1. ~HasFin(parsed) /\ (HasSyn(parsed) => known)
      BY <2>10 DEF Handed
    <3>2. Got(parsed) = accepted /\ Got(parsed') = accepted \o d
      <4>1. Got(parsed) = Sent \o << >>
        BY <2>7, <2>10
      <4>2. Got(parsed) = accepted
        BY <2>8, <4>1, DataLaws
      <4>. QED
        BY <2>5, <3>1, <4>2 DEF d
    <3>3. ASSUME f.cmd = "PSH", f.sid = Stream1, f.data # << >> PROVE Handed'
      <4>1. known /\ HasSyn(parsed)
        BY <2>3, <3>1, <3>3
      <4>2. StartWrite("recvLoop", f.data) /\ UNCHANGED known
        BY <1>1, <3>3, <4>1 DEF Handle
      <4>3. wr'["recvLoop"] = "lock" /\ left'["recvLoop"] = f.data /\ UNCHANGED done
        BY <1>3, <2>10, <4>2 DEF StartWrite, PipeTypeOK
      <4>4. Sent' = accepted \o d
        BY <2>6, <2>8, <3>3, <4>3 DEF Sent, Waiting
      <4>5. Got(parsed') = Sent' \o << >> /\ << >> \in Bytes
        BY <2>6, <2>8, <3>2, <4>4, DataLaws
      <4>6. ~HasFin(parsed')
        BY <2>4, <3>1, <3>3 DEF IsFin
      <4>. QED
        BY <4>1, <4>2, <4>5, <4>6 DEF Handed
    <3>4. ASSUME ~(f.cmd = "PSH" /\ f.sid = Stream1 /\ f.data # << >>) PROVE Handed'
      <4>1. UNCHANGED << wr, left >>
        BY <1>1, <3>4 DEF Handle, Ignore, CloseRead, pipeVars, dataVars
      <4>2. Sent' = Sent
        BY <2>8, <4>1 DEF Sent, Waiting
      <4>3. d = << >>
        BY <2>6, <3>4
      <4>4. Got(parsed') = Sent' \o << >> /\ << >> \in Bytes
        BY <2>8, <3>2, <4>2, <4>3, DataLaws
      <4>5. HasSyn(parsed') /\ ~done' => known'
        BY <1>1, <2>3, <2>4, <3>1, <3>4 DEF Handle, Ignore, CloseRead, IsSyn, Stream1
      <4>6. HasFin(parsed') => done'
        BY <1>1, <2>3, <2>4, <3>1, <3>4 DEF Handle, CloseRead, IsFin, Stream1
      <4>. QED
        BY <4>4, <4>5, <4>6 DEF Handed
    <3>. QED
      BY <3>3, <3>4
  <2>. QED
    BY <2>9, <2>10
<1>. QED
  BY <1>4, <1>5

LEMMA HandedNext == WireInv /\ RecvOK /\ PipeIInv /\ Handed /\ [Next]_vars => Handed'
<1> SUFFICES ASSUME WireInv, RecvOK, PipeIInv, Handed, [Next]_vars PROVE Handed'
  OBVIOUS
<1>1. CASE ReadFrame
  BY <1>1, HandedRead
<1>2. CASE RecvEnds
  <2>1. /\ UNCHANGED parsed /\ known' = FALSE
        /\ IF known THEN CloseRead ELSE UNCHANGED pipeVars
    BY <1>2 DEF RecvEnds
  <2>2. Sent' = Sent /\ (done => done') /\ (known => done')
    BY <2>1 DEF Sent, Waiting, CloseRead, pipeVars, dataVars
  <2>. QED
    BY <2>1, <2>2 DEF Handed
<1>3. CASE UNCHANGED << pipeVars, recvVars >>
  <2>1. UNCHANGED << known, parsed, done >> /\ Sent' = Sent
    BY <1>3 DEF Sent, Waiting, pipeVars, dataVars, recvVars
  <2>. QED
    BY <2>1, HandedStays
<1>4. CASE (PipeStep \/ Owner \/ TimerFires) /\ UNCHANGED << writeVars, recvVars >>
  BY <1>4, HandedPipe DEF recvVars
<1>. QED
  BY <1>1, <1>2, <1>3, <1>4 DEF Next, vars

LEMMA HandedInvariant == Spec => []Handed
<1>. QED
  BY HandedInit, HandedNext, WireInvariant, RecvInvariant, PathPipeInvariant, PTL DEF Spec

LEMMA BytePrefix == \A a, b \in Bytes : IsPrefix(a, a \o b)
BY StartIsPrefix DEF Bytes

LEMMA FrontOfMany ==
    ASSUME NEW a \in Bytes, NEW b \in Bytes, NEW c \in Bytes, NEW d \in Bytes, NEW e \in Bytes
    PROVE  IsPrefix(a, (((a \o b) \o c) \o d) \o e)
<1> DEFINE f == b \o c
           g == f \o d
<1>1. f \in Bytes
  BY DataJoin
<1>2. (a \o b) \o c = a \o f
  BY DataAssoc, ZenonT(60)
<1> HIDE DEF f
<1>3. g \in Bytes
  BY <1>1, DataJoin
<1>4. (a \o f) \o d = a \o g
  BY <1>1, DataAssoc, ZenonT(60)
<1> HIDE DEF g
<1>5. (a \o g) \o e = a \o (g \o e) /\ g \o e \in Bytes
  <2>1. (a \o g) \o e = a \o (g \o e)
    BY <1>3, DataAssoc, ZenonT(60)
  <2>2. g \o e \in Bytes
    BY <1>3, DataJoin
  <2>. QED
    BY <2>1, <2>2
<1>6. IsPrefix(a, a \o (g \o e))
  BY <1>5, BytePrefix
<1>. QED
  BY <1>2, <1>4, <1>5, <1>6

\* The owner of a stream reads what the client wrote to it, in order and nothing else,
\* and with nothing on its way and nothing closed it has read all of it (EndToEnd).
THEOREM StreamIsEndToEnd == Spec => []EndToEnd
<1>1. ASSUME WireInv, PipeIInv, Handed PROVE EndToEnd
  <2>1. /\ taken \in Bytes /\ accepted \in Bytes /\ Sent \in Bytes /\ Waiting \in Bytes
        /\ log \in FrameSeq /\ parsed \in FrameSeq /\ Writers = {"recvLoop"}
    BY <1>1, SentBytes, DataPathAssumption DEF PipeIInv, PipeTypeOK, WireInv, WriterOK
  <2>2. PICK l \in Bytes : accepted = taken \o l /\ (wr["recvLoop"] = "idle" => l = << >>)
    <3>1. CASE Inside("recvLoop")
      <4>1. accepted = taken \o left["recvLoop"] /\ left["recvLoop"] \in Bytes
        BY <1>1, <2>1, <3>1 DEF PipeIInv, PipeExact, PipeTypeOK
      <4>. QED
        BY <3>1, <4>1 DEF Inside
    <3>2. CASE ~Inside("recvLoop")
      <4>1. accepted = taken
        BY <1>1, <2>1, <3>2 DEF PipeIInv, PipeExact
      <4>. QED
        BY <2>1, <4>1, DataLaws
    <3>. QED
      BY <3>1, <3>2
  <2>3. PICK x \in Bytes : Got(parsed) = Sent \o x /\ (~done => x = << >>)
    BY <1>1 DEF Handed
  <2>4. IsPrefix(taken, Written)
    <3>1. PICK y \in FrameSeq : log = parsed \o y
      BY <1>1, ParsedPrefix
    <3>2. PICK z \in Bytes : Got(log) = Got(parsed) \o z
      BY <2>1, <3>1, GotLaws
    <3>3. Got(log) = (((taken \o l) \o Waiting) \o x) \o z
      BY <2>2, <2>3, <3>2 DEF Sent
    <3>. QED
      BY <2>1, <3>3, FrontOfMany, WrittenIsGot
  <2>5. ASSUME Quiet, ~done, wr["recvLoop"] = "idle" PROVE taken = Written
    <3>1. log = parsed
      BY <1>1, <2>5, AllTaken
    <3>2. Waiting = << >> /\ l = << >> /\ x = << >>
      BY <2>2, <2>3, <2>5 DEF Waiting
    <3>3. Got(parsed) = ((taken \o << >>) \o << >>) \o << >>
      BY <2>2, <2>3, <3>2 DEF Sent
    <3>. QED
      BY <2>1, <3>1, <3>3, DataLaws, WrittenIsGot
  <2>. QED
    BY <2>4, <2>5 DEF EndToEnd
<1>. QED
  BY <1>1, WireInvariant, PathPipeInvariant, HandedInvariant, PTL
=====================================================================================
