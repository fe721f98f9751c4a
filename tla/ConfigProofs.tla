---------------------------- MODULE ConfigProofs ----------------------------
(***************************************************************************)
(* What mINI's files and the server's configuration promise, for files of  *)
(* any length and any sections, keys, values and settings; what is said of *)
(* the values that are read back, where their texts are plain.             *)
(***************************************************************************)
EXTENDS INIFile, ServerConfig, SequenceTheorems, WellFoundedInduction, TLAPS

-----------------------------------------------------------------------------
(* Induction, with the induction hypothesis as a set. *)

LEMMA LeastNumber ==
    ASSUME NEW T \in SUBSET Nat, T # {}
    PROVE  \E m \in T : \A k \in T : m <= k
<1>1. PICK m \in T : \A k \in T : ~(<<k, m>> \in OpToRel(<, Nat))
  BY NatLessThanWellFounded, WFMin, Zenon
<1>2. ASSUME NEW k \in T PROVE m <= k
  <2>1. k \in Nat /\ m \in Nat
    OBVIOUS
  <2>2. ~(k < m)
    BY <1>1, <2>1 DEF OpToRel
  <2> QED BY <2>1, <2>2
<1> QED BY <1>2

LEMMA NumberInduction ==
    ASSUME NEW Q, 0 \in Q, \A n \in Nat : n \in Q => n + 1 \in Q
    PROVE  Nat \subseteq Q
<1> SUFFICES ASSUME Nat \ Q # {} PROVE FALSE
  OBVIOUS
<1>1. PICK m \in Nat \ Q : \A k \in Nat \ Q : m <= k
  BY LeastNumber
<1>2. m # 0 /\ m - 1 \in Nat /\ ~(m <= m - 1)
  BY <1>1
<1>3. m - 1 \in Q
  BY <1>1, <1>2
<1>4. m = (m - 1) + 1
  BY <1>1
<1> QED BY <1>1, <1>2, <1>3, <1>4

LEMMA SequenceInduction ==
    ASSUME NEW S, NEW Q, <<>> \in Q,
           \A s \in Seq(S) : \A x \in S : s \in Q => Append(s, x) \in Q
    PROVE  Seq(S) \subseteq Q
<1> DEFINE N == {n \in Nat : \A s \in Seq(S) : Len(s) = n => s \in Q}
<1>1. 0 \in N
  BY EmptySeq
<1>2. ASSUME NEW n \in Nat, n \in N PROVE n + 1 \in N
  <2>1. ASSUME NEW s \in Seq(S), Len(s) = n + 1 PROVE s \in Q
    <3>1. PICK front \in Seq(S), x \in S : s = Append(front, x)
      <4>1. s # <<>>
        BY <2>1, EmptySeq
      <4> QED BY <4>1, SequenceEmptyOrAppend
    <3>2. Len(front) = n
      BY <2>1, <3>1, AppendProperties, LenProperties
    <3> QED BY <1>2, <3>1, <3>2
  <2> QED BY <2>1
<1> HIDE DEF N
<1>3. Nat \subseteq N
  BY <1>1, <1>2, NumberInduction
<1> QED BY <1>3, LenProperties DEF N

LEMMA GreatestIsMax ==
    ASSUME NEW S \in SUBSET Nat, NEW m \in S, \A x \in S : x <= m
    PROVE  Max(S) = m
<1>1. Max(S) \in S /\ \A y \in S : Max(S) >= y
  <2>1. \A y \in S : m >= y
    OBVIOUS
  <2> QED BY <2>1 DEF Max
<1>2. Max(S) \in Nat /\ m \in Nat /\ Max(S) >= m /\ Max(S) <= m
  BY <1>1
<1> QED BY <1>2

LEMMA MaxIsMember ==
    ASSUME NEW n \in Nat, NEW S \in SUBSET (1 .. n), S # {}
    PROVE  Max(S) \in S
<1> DEFINE T == {n - x : x \in S}
<1>1. ASSUME NEW x \in S PROVE x \in Nat /\ n - x \in Nat
  <2>1. x \in 1 .. n
    OBVIOUS
  <2> QED BY <2>1
<1>2. T \in SUBSET Nat /\ T # {}
  BY <1>1
<1> HIDE DEF T
<1>3. PICK m \in T : \A k \in T : m <= k
  BY <1>2, LeastNumber
<1>4. PICK x \in S : m = n - x
  BY DEF T
<1>5. ASSUME NEW y \in S PROVE x >= y
  <2>1. n - x <= n - y
    BY <1>3, <1>4 DEF T
  <2> QED BY <1>1, <2>1
<1> QED BY <1>5 DEF Max

(* Recursion over the sets of positions of a sequence, as the folds of the *)
(* community modules have it, for a step that is a function g.             *)
Folding(F, b, n, g) ==
    \A p \in SUBSET (1 .. n) : F[p] = IF p = {} THEN b ELSE g[<<Max(p), F[p \ {Max(p)}]>>]

LEMMA FoldExists ==
    ASSUME NEW T, NEW b \in T, NEW n \in Nat, NEW g \in [(1 .. n) \X T -> T]
    PROVE  \E F \in [SUBSET (1 .. n) -> T] : Folding(F, b, n, g)
<1> DEFINE Exists(m) == \E F \in [SUBSET (1 .. m) -> T] : Folding(F, b, m, g)
           Q == {m \in Nat : m <= n => Exists(m)}
<1>1. Exists(0)
  <2>1. 1 .. 0 = {}
    OBVIOUS
  <2>2. Folding([p \in SUBSET (1 .. 0) |-> b], b, 0, g)
    BY <2>1 DEF Folding
  <2>3. [p \in SUBSET (1 .. 0) |-> b] \in [SUBSET (1 .. 0) -> T]
    OBVIOUS
  <2> QED BY <2>2, <2>3
<1>2. ASSUME NEW m \in Nat, Exists(m), m + 1 <= n PROVE Exists(m + 1)
  <2>1. PICK F \in [SUBSET (1 .. m) -> T] : Folding(F, b, m, g)
    BY <1>2
  <2> DEFINE G == [p \in SUBSET (1 .. m + 1) |->
                     IF m + 1 \in p THEN g[<<m + 1, F[p \ {m + 1}]>>] ELSE F[p]]
  <2>2. \A p \in SUBSET (1 .. m + 1) : p \ {m + 1} \in SUBSET (1 .. m)
    OBVIOUS
  <2>3. G \in [SUBSET (1 .. m + 1) -> T]
    <3>1. ASSUME NEW p \in SUBSET (1 .. m + 1)
          PROVE  (IF m + 1 \in p THEN g[<<m + 1, F[p \ {m + 1}]>>] ELSE F[p]) \in T
      <4>1. CASE m + 1 \in p
        <5>1. F[p \ {m + 1}] \in T /\ m + 1 \in 1 .. n
          BY <1>2, <2>1, <2>2
        <5> QED BY <4>1, <5>1
      <4>2. CASE m + 1 \notin p
        BY <2>1, <2>2, <4>2
      <4> QED BY <4>1, <4>2
    <3> QED BY <3>1
  <2>4. ASSUME NEW p \in SUBSET (1 .. m + 1)
        PROVE  G[p] = IF p = {} THEN b ELSE g[<<Max(p), G[p \ {Max(p)}]>>]
    <3>1. CASE m + 1 \in p
      <4>1. Max(p) = m + 1
        BY <3>1, GreatestIsMax
      <4>2. G[p \ {m + 1}] = F[p \ {m + 1}]
        BY <2>2
      <4> QED BY <3>1, <4>1, <4>2
    <3>2. CASE m + 1 \notin p /\ p # {}
      <4>1. p \in SUBSET (1 .. m) /\ G[p] = F[p]
        BY <3>2
      <4>2. p \ {Max(p)} \in SUBSET (1 .. m) /\ G[p \ {Max(p)}] = F[p \ {Max(p)}]
        BY <3>2, <4>1
      <4> QED BY <2>1, <3>2, <4>1, <4>2 DEF Folding
    <3>3. CASE p = {}
      BY <2>1, <3>3 DEF Folding
    <3> QED BY <3>1, <3>2, <3>3
  <2>5. Folding(G, b, m + 1, g)
    BY <2>4 DEF Folding
  <2> HIDE DEF G
  <2> QED BY <2>3, <2>5
<1> HIDE DEF Exists
<1>3. 0 \in Q /\ \A m \in Nat : m \in Q => m + 1 \in Q
  BY <1>1, <1>2
<1> HIDE DEF Q
<1>4. n \in Q
  BY <1>3, NumberInduction
<1>5. Exists(n)
  BY <1>4 DEF Q
<1> QED BY <1>5 DEF Exists

LEMMA Interval ==
    ASSUME NEW i \in Nat, i # 0
    PROVE  Max(1 .. i) = i /\ (1 .. i) \ {i} = 1 .. (i - 1) /\ 1 .. i # {}
<1>1. i \in 1 .. i /\ 1 .. i \in SUBSET Nat /\ \A x \in 1 .. i : x <= i
  OBVIOUS
<1> QED BY <1>1, GreatestIsMax

(* ... which has one value for each beginning of the sequence. *)
Stepping(h, b, n, g) == h[0] = b /\ \A i \in 1 .. n : h[i] = g[<<i, h[i - 1]>>]

LEMMA StepsExist ==
    ASSUME NEW T, NEW b \in T, NEW n \in Nat, NEW g \in [(1 .. n) \X T -> T]
    PROVE  \E h \in [0 .. n -> T] : Stepping(h, b, n, g)
<1>1. PICK F \in [SUBSET (1 .. n) -> T] : Folding(F, b, n, g)
  BY FoldExists
<1> DEFINE h == [i \in 0 .. n |-> F[1 .. i]]
<1>2. \A i \in 0 .. n : 1 .. i \in SUBSET (1 .. n)
  OBVIOUS
<1>3. h \in [0 .. n -> T]
  BY <1>2
<1>4. h[0] = b
  <2>1. 1 .. 0 = {} /\ h[0] = F[1 .. 0] /\ {} \in SUBSET (1 .. n)
    OBVIOUS
  <2>2. F[{}] = b
    BY <1>1, <2>1 DEF Folding
  <2> QED BY <2>1, <2>2
<1>5. ASSUME NEW i \in 1 .. n PROVE h[i] = g[<<i, h[i - 1]>>]
  <2>1. i \in Nat /\ i # 0 /\ i \in 0 .. n /\ i - 1 \in 0 .. n
    OBVIOUS
  <2>2. F[1 .. i] = g[<<i, F[1 .. (i - 1)]>>]
    BY <1>1, <1>2, <2>1, Interval DEF Folding
  <2> QED BY <2>1, <2>2
<1> HIDE DEF h
<1>6. Stepping(h, b, n, g)
  BY <1>4, <1>5 DEF Stepping
<1> QED BY <1>3, <1>6

-----------------------------------------------------------------------------
(* Flattened and filtered sequences. *)

LEMMA FlattenSteps ==
    ASSUME NEW S, NEW ss \in Seq(Seq(S)), NEW h \in [0 .. Len(ss) -> Seq(S)],
           h[0] = <<>>, \A i \in 1 .. Len(ss) : h[i] = h[i - 1] \o ss[i]
    PROVE  FlattenSeq(ss) = h[Len(ss)]
<1> DEFINE n == Len(ss)
<1>1. n \in Nat /\ DOMAIN ss = 1 .. n /\ \A i \in 1 .. n : ss[i] \in Seq(S)
  BY LenProperties, ElementOfSeq
<1>2. CASE n = 0
  <2>1. ss = <<>>
    BY <1>2, EmptySeq
  <2> QED BY <1>2, <2>1 DEF FlattenSeq
<1>3. CASE n # 0
  <2>1. PICK f : f = CHOOSE e : e = [i \in 1 .. n |-> IF i = 1 THEN ss[i] ELSE e[i - 1] \o ss[i]]
    OBVIOUS
  <2>2. FlattenSeq(ss) = f[n]
    BY <1>3, <2>1 DEF FlattenSeq
  <2>3. \E e : e = [i \in 1 .. n |-> IF i = 1 THEN ss[i] ELSE e[i - 1] \o ss[i]]
    <3> DEFINE e == [i \in 1 .. n |-> h[i]]
    <3>1. ASSUME NEW i \in 1 .. n PROVE h[i] = IF i = 1 THEN ss[i] ELSE e[i - 1] \o ss[i]
      <4>1. CASE i = 1
        <5>1. h[1] = h[1 - 1] \o ss[1] /\ ss[1] \in Seq(S) /\ 1 - 1 = 0
          BY <1>1, <4>1
        <5> QED BY <4>1, <5>1, ConcatEmptySeq
      <4>2. CASE i # 1
        <5>1. i - 1 \in 1 .. n
          BY <1>1, <4>2
        <5> QED BY <4>2, <5>1
      <4> QED BY <4>1, <4>2
    <3>2. e = [i \in 1 .. n |-> IF i = 1 THEN ss[i] ELSE e[i - 1] \o ss[i]]
      BY <3>1, Zenon
    <3> HIDE DEF e
    <3> QED BY <3>2
  <2>4. f = [i \in 1 .. n |-> IF i = 1 THEN ss[i] ELSE f[i - 1] \o ss[i]]
    BY <2>1, <2>3, Zenon
  <2> DEFINE Q == {i \in Nat : i + 1 <= n => f[i + 1] = h[i + 1]}
  <2>5. 0 \in Q
    <3>1. ASSUME n >= 1 PROVE f[1] = ss[1] /\ h[1] = <<>> \o ss[1] /\ ss[1] \in Seq(S)
      <4>1. 1 \in 1 .. n /\ 1 - 1 = 0
        BY <1>1, <3>1
      <4>2. f[1] = ss[1]
        BY <2>4, <4>1
      <4> QED BY <1>1, <4>1, <4>2
    <3> QED BY <1>1, <3>1, ConcatEmptySeq
  <2>6. ASSUME NEW i \in Nat, i \in Q PROVE i + 1 \in Q
    <3>1. CASE (i + 1) + 1 <= n
      <4>1. (i + 1) + 1 \in 1 .. n /\ (i + 1) + 1 # 1 /\ ((i + 1) + 1) - 1 = i + 1
        BY <1>1, <3>1
      <4>2. f[(i + 1) + 1] = f[i + 1] \o ss[(i + 1) + 1]
        BY <2>4, <4>1
      <4>3. h[(i + 1) + 1] = h[i + 1] \o ss[(i + 1) + 1]
        BY <4>1
      <4>4. f[i + 1] = h[i + 1]
        BY <1>1, <2>6, <3>1
      <4>5. f[(i + 1) + 1] = h[(i + 1) + 1]
        BY <4>2, <4>3, <4>4
      <4> QED BY <4>5
    <3>2. CASE ~((i + 1) + 1 <= n)
      BY <3>2
    <3> QED BY <3>1, <3>2
  <2> HIDE DEF Q
  <2>7. n - 1 \in Q
    BY <1>1, <1>3, <2>5, <2>6, NumberInduction
  <2>8. (n - 1) + 1 = n
    BY <1>1
  <2> QED BY <1>1, <2>2, <2>7, <2>8 DEF Q
<1> QED BY <1>2, <1>3

LEMMA ConcatAppend ==
    ASSUME NEW S, NEW s \in Seq(S), NEW t \in Seq(S), NEW x \in S
    PROVE  s \o Append(t, x) = Append(s \o t, x)
<1>1. Append(t, x) = t \o <<x>> /\ <<x>> \in Seq(S) /\ s \o t \in Seq(S)
  BY AppendIsConcat, ConcatProperties
<1>2. Append(s \o t, x) = (s \o t) \o <<x>>
  BY <1>1, AppendIsConcat
<1> QED BY <1>1, <1>2, ConcatAssociative

LEMMA FlattenAppend ==
    ASSUME NEW S, NEW ss \in Seq(Seq(S)), NEW s \in Seq(S)
    PROVE  /\ FlattenSeq(ss) \in Seq(S)
           /\ FlattenSeq(Append(ss, s)) = FlattenSeq(ss) \o s
<1>1. PICK n \in Nat : n = Len(ss)
  BY LenProperties
<1>2. \A i \in 1 .. n : ss[i] \in Seq(S)
  BY <1>1, ElementOfSeq
<1> DEFINE g == [p \in (1 .. n) \X Seq(S) |-> p[2] \o ss[p[1]]]
<1>3. PICK h \in [0 .. n -> Seq(S)] : Stepping(h, <<>>, n, g)
  <2>1. g \in [(1 .. n) \X Seq(S) -> Seq(S)] /\ <<>> \in Seq(S)
    BY <1>2, ConcatProperties, EmptySeq
  <2> HIDE DEF g
  <2> QED BY <2>1, StepsExist
<1>4. h[0] = <<>> /\ \A i \in 1 .. n : h[i] = h[i - 1] \o ss[i]
  <2>1. ASSUME NEW i \in 1 .. n PROVE h[i] = h[i - 1] \o ss[i]
    <3>1. i - 1 \in 0 .. n
      OBVIOUS
    <3>2. <<i, h[i - 1]>> \in (1 .. n) \X Seq(S)
      BY <3>1
    <3>3. g[<<i, h[i - 1]>>] = h[i - 1] \o ss[i]
      BY <3>2
    <3> QED BY <1>3, <3>3 DEF Stepping
  <2> QED BY <1>3, <2>1 DEF Stepping
<1>5. FlattenSeq(ss) = h[n] /\ h[n] \in Seq(S)
  <2>1. /\ h \in [0 .. Len(ss) -> Seq(S)] /\ h[0] = <<>>
        /\ \A i \in 1 .. Len(ss) : h[i] = h[i - 1] \o ss[i]
    BY <1>1, <1>4
  <2>2. FlattenSeq(ss) = h[Len(ss)]
    BY <2>1, FlattenSteps
  <2> QED BY <1>1, <2>2
<1> DEFINE longer == Append(ss, s)
           e == [i \in 0 .. n + 1 |-> IF i = n + 1 THEN h[n] \o s ELSE h[i]]
<1>6. /\ longer \in Seq(Seq(S)) /\ Len(longer) = n + 1
      /\ longer[n + 1] = s /\ \A i \in 1 .. n : longer[i] = ss[i]
  BY <1>1, AppendProperties
<1>7. e \in [0 .. n + 1 -> Seq(S)] /\ e[0] = <<>> /\ e[n + 1] = h[n] \o s
  <2>1. h[n] \in Seq(S) /\ h[n] \o s \in Seq(S)
    BY <1>5, ConcatProperties
  <2>2. 0 \in 0 .. n + 1 /\ n + 1 \in 0 .. n + 1 /\ 0 # n + 1
    OBVIOUS
  <2> QED BY <1>4, <2>1, <2>2
<1>8. ASSUME NEW i \in 1 .. n + 1 PROVE e[i] = e[i - 1] \o longer[i]
  <2>1. CASE i = n + 1
    <3>1. e[i - 1] = h[n]
      BY <1>1, <2>1
    <3> QED BY <1>6, <1>7, <2>1, <3>1
  <2>2. CASE i \in 1 .. n
    <3>1. i # n + 1 /\ i - 1 # n + 1 /\ i \in 0 .. n + 1 /\ i - 1 \in 0 .. n + 1
      BY <2>2
    <3>2. e[i] = h[i] /\ e[i - 1] = h[i - 1]
      BY <3>1
    <3> HIDE DEF e, longer
    <3> QED BY <1>4, <1>6, <2>2, <3>2
  <2>3. i = n + 1 \/ i \in 1 .. n
    OBVIOUS
  <2> QED BY <2>1, <2>2, <2>3
<1> HIDE DEF e, longer, g
<1>9. FlattenSeq(longer) = e[n + 1]
  BY <1>6, <1>7, <1>8, FlattenSteps
<1> QED BY <1>5, <1>7, <1>9 DEF longer

(* Only, element by element. *)
LEMMA OnlyEmpty == \A set : Only(<<>>, set) = <<>>
<1> TAKE set
<1>1. [i \in DOMAIN <<>> |-> IF <<>>[i] \in set THEN <<<<>>[i]>> ELSE <<>>] = <<>>
  OBVIOUS
<1>2. FlattenSeq(<<>>) = <<>>
  BY DEF FlattenSeq
<1> QED BY <1>1, <1>2 DEF Only

LEMMA OnlyStep ==
    ASSUME NEW S, NEW s \in Seq(S), NEW x \in S, NEW set
    PROVE  /\ Only(s, set) \in Seq(S)
           /\ x \in set => Only(Append(s, x), set) = Append(Only(s, set), x)
           /\ x \notin set => Only(Append(s, x), set) = Only(s, set)
<1> DEFINE Pick(t) == [i \in DOMAIN t |-> IF t[i] \in set THEN <<t[i]>> ELSE <<>>]
           last == IF x \in set THEN <<x>> ELSE <<>>
<1>1. ASSUME NEW t \in Seq(S) PROVE Pick(t) \in Seq(Seq(S))
  <2>1. \A i \in 1 .. Len(t) : t[i] \in S
    BY ElementOfSeq
  <2>2. \A i \in 1 .. Len(t) : <<t[i]>> \in Seq(S) /\ <<>> \in Seq(S)
    BY <2>1, EmptySeq
  <2>3. DOMAIN t = 1 .. Len(t) /\ Len(t) \in Nat
    BY LenProperties
  <2>4. Pick(t) \in [1 .. Len(t) -> Seq(S)]
    BY <2>2, <2>3
  <2> HIDE DEF Pick
  <2> QED BY <2>3, <2>4, IsASeq
<1>2. last \in Seq(S)
  BY EmptySeq
<1>3. Pick(Append(s, x)) = Append(Pick(s), last)
  <2>1. /\ Append(s, x) \in Seq(S) /\ Len(Append(s, x)) = Len(s) + 1
        /\ \A i \in 1 .. Len(s) : Append(s, x)[i] = s[i]
        /\ Append(s, x)[Len(s) + 1] = x
    BY AppendProperties
  <2>2. DOMAIN Append(s, x) = 1 .. Len(s) + 1 /\ DOMAIN s = 1 .. Len(s) /\ Len(s) \in Nat
    BY <2>1, LenProperties
  <2>3. Len(Pick(s)) = Len(s) /\ DOMAIN Pick(s) = 1 .. Len(s)
    BY <2>2, <1>1, LenProperties
  <2>4. \A i \in 1 .. Len(s) + 1 :
           Append(Pick(s), last)[i] = IF i = Len(s) + 1 THEN last ELSE Pick(s)[i]
    <3>1. /\ \A i \in 1 .. Len(Pick(s)) : Append(Pick(s), last)[i] = Pick(s)[i]
          /\ Append(Pick(s), last)[Len(Pick(s)) + 1] = last
      BY <1>1, <1>2, AppendProperties
    <3> QED BY <2>2, <2>3, <3>1
  <2>5. DOMAIN Append(Pick(s), last) = 1 .. Len(s) + 1 /\ Append(Pick(s), last) \in Seq(Seq(S))
    <3>1. Append(Pick(s), last) \in Seq(Seq(S)) /\ Len(Append(Pick(s), last)) = Len(Pick(s)) + 1
      BY <1>1, <1>2, AppendProperties
    <3> QED BY <2>3, <3>1, LenProperties
  <2>6. \A i \in 1 .. Len(s) + 1 : Pick(Append(s, x))[i] = IF i = Len(s) + 1 THEN last ELSE Pick(s)[i]
    BY <2>1, <2>2
  <2>7. DOMAIN Pick(Append(s, x)) = 1 .. Len(s) + 1 /\ Pick(Append(s, x)) \in Seq(Seq(S))
    BY <1>1, <2>1, <2>2
  <2> HIDE DEF Pick, last
  <2> QED BY <2>4, <2>5, <2>6, <2>7, SeqEqual
<1>4. FlattenSeq(Append(Pick(s), last)) = FlattenSeq(Pick(s)) \o last /\ FlattenSeq(Pick(s)) \in Seq(S)
  <2> HIDE DEF Pick, last
  <2> QED BY <1>1, <1>2, FlattenAppend
<1>6. Only(Append(s, x), set) = Only(s, set) \o last /\ Only(s, set) \in Seq(S)
  BY <1>3, <1>4 DEF Only
<1>7. CASE x \in set
  BY <1>6, <1>7, AppendIsConcat
<1>8. CASE x \notin set
  BY <1>6, <1>8, ConcatEmptySeq
<1> QED BY <1>7, <1>8

LEMMA OnlyIsSequence ==
    ASSUME NEW S, NEW s \in Seq(S), NEW set
    PROVE  Only(s, set) \in Seq(S)
<1>1. CASE s = <<>>
  BY <1>1, OnlyEmpty, EmptySeq
<1>2. CASE s # <<>>
  <2>1. PICK front \in Seq(S), x \in S : s = Append(front, x)
    BY <1>2, SequenceEmptyOrAppend
  <2> QED BY OnlyStep
<1> QED BY <1>1, <1>2

LEMMA OnlyTakes ==
    ASSUME NEW S, NEW s \in Seq(S), NEW x \in S, NEW set, x \in set
    PROVE  Only(Append(s, x), set) = Append(Only(s, set), x)
BY OnlyStep

LEMMA OnlySkips ==
    ASSUME NEW S, NEW s \in Seq(S), NEW x \in S, NEW set, x \notin set
    PROVE  Only(Append(s, x), set) = Only(s, set)
BY OnlyStep

LEMMA ToSetAppend ==
    ASSUME NEW S, NEW s \in Seq(S), NEW x \in S
    PROVE  ToSet(Append(s, x)) = ToSet(s) \cup {x} /\ ToSet(<<>>) = {}
<1>1. /\ Append(s, x) \in Seq(S) /\ Len(Append(s, x)) = Len(s) + 1
      /\ \A i \in 1 .. Len(s) : Append(s, x)[i] = s[i]
      /\ Append(s, x)[Len(s) + 1] = x
  BY AppendProperties
<1>2. DOMAIN Append(s, x) = 1 .. Len(s) + 1 /\ DOMAIN s = 1 .. Len(s) /\ Len(s) \in Nat
  BY <1>1, LenProperties
<1>3. 1 .. Len(s) + 1 = (1 .. Len(s)) \cup {Len(s) + 1}
  BY <1>2
<1>4. ToSet(Append(s, x)) = {Append(s, x)[i] : i \in (1 .. Len(s)) \cup {Len(s) + 1}}
  BY <1>2, <1>3 DEF ToSet
<1>5. ToSet(s) = {s[i] : i \in 1 .. Len(s)}
  BY <1>2 DEF ToSet
<1>6. ToSet(Append(s, x)) = ToSet(s) \cup {x}
  BY <1>1, <1>4, <1>5
<1>7. ToSet(<<>>) = {}
  BY DEF ToSet
<1> QED BY <1>6, <1>7

LEMMA OnlyElements ==
    ASSUME NEW S, NEW set
    PROVE  \A s \in Seq(S) : Only(s, set) \in Seq(S) /\ ToSet(Only(s, set)) = ToSet(s) \cap set
<1> DEFINE Q == {s \in Seq(S) : Only(s, set) \in Seq(S) /\ ToSet(Only(s, set)) = ToSet(s) \cap set}
<1>1. <<>> \in Q
  <2>1. Only(<<>>, set) = <<>>
    BY OnlyEmpty
  <2>2. ToSet(<<>>) = {}
    BY DEF ToSet
  <2> QED BY <2>1, <2>2, EmptySeq
<1>2. ASSUME NEW s \in Seq(S), NEW x \in S, s \in Q PROVE Append(s, x) \in Q
  <2>1. ToSet(Append(s, x)) = ToSet(s) \cup {x} /\ Append(s, x) \in Seq(S)
    BY ToSetAppend, AppendProperties
  <2>2. /\ x \in set => Only(Append(s, x), set) = Append(Only(s, set), x)
        /\ x \notin set => Only(Append(s, x), set) = Only(s, set)
        /\ Only(Append(s, x), set) \in Seq(S)
    BY <2>1, OnlyTakes, OnlySkips, OnlyIsSequence
  <2>3. CASE x \in set
    <3>1. ToSet(Append(Only(s, set), x)) = ToSet(Only(s, set)) \cup {x}
      BY <1>2, ToSetAppend
    <3> QED BY <1>2, <2>1, <2>2, <2>3, <3>1
  <2>4. CASE x \notin set
    BY <1>2, <2>1, <2>2, <2>4
  <2> QED BY <2>3, <2>4
<1> HIDE DEF Q
<1>3. Seq(S) \subseteq Q
  BY <1>1, <1>2, SequenceInduction
<1> QED BY <1>3 DEF Q

LEMMA OnlyConcat ==
    ASSUME NEW S, NEW set, NEW s \in Seq(S)
    PROVE  \A t \in Seq(S) : Only(s \o t, set) = Only(s, set) \o Only(t, set)
<1> DEFINE Q == {t \in Seq(S) : Only(s \o t, set) = Only(s, set) \o Only(t, set)}
<1>1. <<>> \in Q
  <2>1. Only(<<>>, set) = <<>> /\ Only(s, set) \in Seq(S)
    BY OnlyEmpty, OnlyElements
  <2> QED BY <2>1, EmptySeq, ConcatEmptySeq
<1>2. ASSUME NEW t \in Seq(S), NEW x \in S, t \in Q PROVE Append(t, x) \in Q
  <2>1. s \o t \in Seq(S) /\ Append(t, x) \in Seq(S)
    BY ConcatProperties, AppendProperties
  <2>2. s \o Append(t, x) = Append(s \o t, x)
    BY <2>1, ConcatAppend
  <2>3. Only(s, set) \in Seq(S) /\ Only(t, set) \in Seq(S)
    BY OnlyElements
  <2>4. Only(s, set) \o Append(Only(t, set), x) = Append(Only(s, set) \o Only(t, set), x)
    BY <2>3, ConcatAppend
  <2>5. /\ x \in set => Only(Append(s \o t, x), set) = Append(Only(s \o t, set), x)
        /\ x \notin set => Only(Append(s \o t, x), set) = Only(s \o t, set)
    BY <2>1, OnlyTakes, OnlySkips
  <2>6. /\ x \in set => Only(Append(t, x), set) = Append(Only(t, set), x)
        /\ x \notin set => Only(Append(t, x), set) = Only(t, set)
    BY OnlyTakes, OnlySkips
  <2>7. Only(s \o Append(t, x), set) = Only(s, set) \o Only(Append(t, x), set)
    BY <1>2, <2>2, <2>4, <2>5, <2>6
  <2> QED BY <2>1, <2>7
<1> HIDE DEF Q
<1>3. Seq(S) \subseteq Q
  BY <1>1, <1>2, SequenceInduction
<1> QED BY <1>3 DEF Q

-----------------------------------------------------------------------------
(* An INIMap as a sequence of pairs, in which no key is twice. *)

Pairs(K, V) == [key : K, val : V]
Maps(K, V) == {m \in Seq(Pairs(K, V)) : \A i, j \in DOMAIN m : m[i].key = m[j].key => i = j}

LEMMA MapPositions ==
    ASSUME NEW K, NEW V, NEW m \in Maps(K, V)
    PROVE  /\ m \in Seq(Pairs(K, V)) /\ Len(m) \in Nat /\ DOMAIN m = 1 .. Len(m)
           /\ \A i \in DOMAIN m : /\ m[i] \in Pairs(K, V) /\ m[i].key \in K /\ m[i].val \in V
                                  /\ m[i] = [key |-> m[i].key, val |-> m[i].val]
<1>1. m \in Seq(Pairs(K, V))
  BY DEF Maps
<1>2. Len(m) \in Nat /\ DOMAIN m = 1 .. Len(m) /\ \A i \in 1 .. Len(m) : m[i] \in Pairs(K, V)
  BY <1>1, LenProperties, ElementOfSeq
<1> QED BY <1>1, <1>2 DEF Pairs

LEMMA MapPair ==
    ASSUME NEW K, NEW V, NEW m \in Maps(K, V), NEW i \in DOMAIN m
    PROVE  Has(m, m[i].key) /\ At(m, m[i].key) = m[i].val
<1>1. \A j \in DOMAIN m : m[j].key = m[i].key => j = i
  BY DEF Maps
<1>2. (CHOOSE j \in DOMAIN m : m[j].key = m[i].key) = i
  BY <1>1
<1> QED BY <1>2 DEF Has, At

LEMMA MapAt ==
    ASSUME NEW K, NEW V, NEW m \in Maps(K, V), NEW k, Has(m, k)
    PROVE  /\ k \in K /\ At(m, k) \in V
           /\ \E i \in DOMAIN m : m[i].key = k /\ m[i].val = At(m, k)
<1>1. PICK i \in DOMAIN m : m[i].key = k
  BY DEF Has
<1> QED BY <1>1, MapPair, MapPositions

LEMMA MapEmpty ==
    ASSUME NEW K, NEW V
    PROVE  <<>> \in Maps(K, V) /\ \A k : ~Has(<<>>, k)
BY EmptySeq DEF Maps, Has

LEMMA MapPutNew ==
    ASSUME NEW K, NEW V, NEW m \in Maps(K, V), NEW k \in K, NEW v \in V, ~Has(m, k)
    PROVE  /\ Append(m, [key |-> k, val |-> v]) \in Maps(K, V)
           /\ LET put == Append(m, [key |-> k, val |-> v]) IN
              /\ Has(put, k) /\ At(put, k) = v
              /\ \A j : j # k => (Has(put, j) <=> Has(m, j)) /\ (Has(m, j) => At(put, j) = At(m, j))
<1> DEFINE put == Append(m, [key |-> k, val |-> v])
<1>1. PICK n \in Nat : n = Len(m)
  BY MapPositions
<1>2. m \in Seq(Pairs(K, V)) /\ DOMAIN m = 1 .. n /\ [key |-> k, val |-> v] \in Pairs(K, V)
  BY <1>1, MapPositions DEF Pairs
<1>3. /\ put \in Seq(Pairs(K, V)) /\ Len(put) = n + 1 /\ put[n + 1] = [key |-> k, val |-> v]
      /\ \A i \in 1 .. n : put[i] = m[i]
  BY <1>1, <1>2, AppendProperties
<1>4. DOMAIN put = 1 .. n + 1
  BY <1>3, LenProperties
<1> HIDE DEF put
<1>5. \A i \in 1 .. n : m[i].key # k
  BY <1>2 DEF Has
<1>6. put \in Maps(K, V)
  <2>1. ASSUME NEW i \in 1 .. n + 1, NEW j \in 1 .. n + 1, put[i].key = put[j].key PROVE i = j
    <3>1. \A x \in 1 .. n + 1 : x \in 1 .. n \/ x = n + 1
      OBVIOUS
    <3>2. i \in 1 .. n /\ j \in 1 .. n => m[i].key = m[j].key
      BY <1>3, <2>1
    <3>3. \A x, y \in 1 .. n : m[x].key = m[y].key => x = y
      BY <1>2 DEF Maps
    <3> QED BY <1>3, <1>5, <2>1, <3>1, <3>2, <3>3
  <2> QED BY <1>3, <1>4, <2>1 DEF Maps
<1>7. Has(put, k) /\ At(put, k) = v
  <2>1. n + 1 \in DOMAIN put
    BY <1>4
  <2> QED BY <1>3, <1>6, <2>1, MapPair
<1>8. ASSUME NEW j, j # k PROVE (Has(put, j) <=> Has(m, j)) /\ (Has(m, j) => At(put, j) = At(m, j))
  <2>1. ASSUME Has(put, j) PROVE Has(m, j)
    <3>1. PICK i \in DOMAIN put : put[i].key = j
      BY <2>1 DEF Has
    <3>2. i # n + 1
      BY <1>3, <1>8, <3>1
    <3>3. i \in 1 .. n
      BY <1>4, <3>1, <3>2
    <3> QED BY <1>2, <1>3, <3>1, <3>3 DEF Has
  <2>2. ASSUME Has(m, j) PROVE Has(put, j) /\ At(put, j) = At(m, j)
    <3>1. PICK i \in DOMAIN m : m[i].key = j /\ m[i].val = At(m, j)
      BY <2>2, MapAt
    <3>2. i \in DOMAIN put /\ put[i] = m[i]
      BY <1>2, <1>3, <1>4, <3>1
    <3> QED BY <1>6, <3>1, <3>2, MapPair
  <2> QED BY <2>1, <2>2
<1> QED BY <1>6, <1>7, <1>8 DEF put

LEMMA MapPutOld ==
    ASSUME NEW K, NEW V, NEW m \in Maps(K, V), NEW k \in K, NEW v \in V, Has(m, k)
    PROVE  /\ Put(m, k, v) \in Maps(K, V)
           /\ Has(Put(m, k, v), k) /\ At(Put(m, k, v), k) = v
           /\ \A j : j # k => /\ Has(Put(m, k, v), j) <=> Has(m, j)
                              /\ Has(m, j) => At(Put(m, k, v), j) = At(m, j)
<1>1. PICK n \in Nat : n = Len(m)
  BY MapPositions
<1>2. /\ m \in Seq(Pairs(K, V)) /\ DOMAIN m = 1 .. n
      /\ \A i \in 1 .. n : m[i] \in Pairs(K, V)
  BY <1>1, MapPositions
<1>3. PICK put : put = [i \in DOMAIN m |-> IF m[i].key = k THEN [m[i] EXCEPT !.val = v] ELSE m[i]]
  OBVIOUS
<1>4. Put(m, k, v) = put
  BY <1>3 DEF Put
<1>5. \A i \in 1 .. n : /\ put[i] \in Pairs(K, V) /\ put[i].key = m[i].key
                        /\ put[i].val = IF m[i].key = k THEN v ELSE m[i].val
  BY <1>2, <1>3 DEF Pairs
<1>6. DOMAIN put = 1 .. n /\ put \in Seq(Pairs(K, V))
  <2>1. put \in [1 .. n -> Pairs(K, V)]
    BY <1>2, <1>3, <1>5
  <2> QED BY <2>1, SeqDef
<1>7. put \in Maps(K, V)
  <2>1. \A i, j \in 1 .. n : m[i].key = m[j].key => i = j
    BY <1>2 DEF Maps
  <2> QED BY <1>5, <1>6, <2>1 DEF Maps
<1>8. \A j : Has(put, j) <=> Has(m, j)
  BY <1>2, <1>5, <1>6 DEF Has
<1>9. ASSUME NEW j, Has(m, j) PROVE At(put, j) = IF j = k THEN v ELSE At(m, j)
  <2>1. PICK i \in DOMAIN m : m[i].key = j /\ m[i].val = At(m, j)
    BY <1>9, MapAt
  <2>2. i \in DOMAIN put /\ put[i].key = j
    BY <1>2, <1>5, <1>6, <2>1
  <2>3. At(put, j) = put[i].val
    BY <1>7, <2>2, MapPair
  <2> QED BY <1>2, <1>5, <2>1, <2>3
<1> QED BY <1>4, <1>7, <1>8, <1>9

LEMMA MapPut ==
    ASSUME NEW K, NEW V, NEW m \in Maps(K, V), NEW k \in K, NEW v \in V
    PROVE  /\ Put(m, k, v) \in Maps(K, V)
           /\ Has(Put(m, k, v), k) /\ At(Put(m, k, v), k) = v
           /\ \A j : j # k => /\ Has(Put(m, k, v), j) <=> Has(m, j)
                              /\ Has(m, j) => At(Put(m, k, v), j) = At(m, j)
<1>1. CASE Has(m, k)
  BY <1>1, MapPutOld
<1>2. CASE ~Has(m, k)
  <2>1. Put(m, k, v) = Append(m, [key |-> k, val |-> v])
    BY <1>2 DEF Put
  <2> QED BY <1>2, <2>1, MapPutNew
<1> QED BY <1>1, <1>2

LEMMA MapOnly ==
    ASSUME NEW K, NEW V, NEW m \in Maps(K, V), NEW set
    PROVE  /\ Only(m, set) \in Maps(K, V)
           /\ \A i \in DOMAIN Only(m, set) : Only(m, set)[i] \in set /\ Only(m, set)[i] \in ToSet(m)
           /\ \A i \in DOMAIN m : m[i] \in set => \E j \in DOMAIN Only(m, set) : Only(m, set)[j] = m[i]
<1> DEFINE P == Pairs(K, V)
           Distinct(s) == \A i, j \in DOMAIN s : s[i].key = s[j].key => i = j
           Q == {s \in Seq(P) : Distinct(s) => Distinct(Only(s, set))}
<1>1. <<>> \in Q
  BY OnlyEmpty, EmptySeq
<1>2. ASSUME NEW s \in Seq(P), NEW x \in P, Distinct(s) => Distinct(Only(s, set)), Distinct(Append(s, x))
      PROVE  Distinct(Only(Append(s, x), set))
  <2>1. PICK n \in Nat : n = Len(s) /\ DOMAIN s = 1 .. n
    BY LenProperties
  <2>2. /\ DOMAIN Append(s, x) = 1 .. n + 1 /\ Append(s, x)[n + 1] = x
        /\ \A i \in 1 .. n : Append(s, x)[i] = s[i]
    BY <2>1, AppendProperties, LenProperties
  <2>3. Distinct(s) /\ \A i \in 1 .. n : s[i].key # x.key
    BY <1>2, <2>1, <2>2
  <2>4. CASE x \notin set
    <3>1. Only(Append(s, x), set) = Only(s, set)
      BY <2>4, OnlySkips
    <3> QED BY <1>2, <2>3, <3>1
  <2>5. CASE x \in set
    <3>1. PICK t \in Seq(P) : t = Only(s, set) /\ ToSet(t) = ToSet(s) \cap set
      BY OnlyElements
    <3>2. Only(Append(s, x), set) = Append(t, x)
      BY <2>5, <3>1, OnlyTakes
    <3>3. PICK l \in Nat : l = Len(t) /\ DOMAIN t = 1 .. l
      BY LenProperties
    <3>4. PICK u : u = Append(t, x)
      OBVIOUS
    <3>5. /\ DOMAIN u = 1 .. l + 1 /\ u[l + 1] = x
          /\ \A i \in 1 .. l : u[i] = t[i]
      BY <3>3, <3>4, AppendProperties, LenProperties
    <3>6. \A i \in 1 .. l : t[i].key # x.key
      <4>1. ASSUME NEW i \in 1 .. l PROVE t[i].key # x.key
        <5>1. t[i] \in ToSet(s)
          BY <3>1, <3>3 DEF ToSet
        <5> QED BY <2>1, <2>3, <5>1 DEF ToSet
      <4> QED BY <4>1
    <3>7. \A i, j \in 1 .. l : t[i].key = t[j].key => i = j
      BY <1>2, <2>3, <3>1, <3>3
    <3>8. \A i \in 1 .. l + 1 : i \in 1 .. l \/ i = l + 1
      OBVIOUS
    <3>9. \A i, j \in 1 .. l + 1 : u[i].key = u[j].key => i = j
      BY <3>5, <3>6, <3>7, <3>8
    <3> QED BY <3>2, <3>4, <3>5, <3>9
  <2> QED BY <2>4, <2>5
<1>3. ASSUME NEW s \in Seq(P), NEW x \in P, s \in Q PROVE Append(s, x) \in Q
  <2> HIDE DEF Distinct
  <2>1. Append(s, x) \in Seq(P)
    BY AppendProperties
  <2> QED BY <1>2, <1>3, <2>1
<1>4. Seq(P) \subseteq Q
  <2> HIDE DEF Q, P
  <2> QED BY <1>1, <1>3, SequenceInduction
<1>5. m \in Seq(P) /\ Distinct(m)
  BY DEF Maps
<1>6. Distinct(Only(m, set))
  <2> HIDE DEF Distinct, P
  <2> QED BY <1>4, <1>5
<1>7. Only(m, set) \in Seq(P) /\ ToSet(Only(m, set)) = ToSet(m) \cap set
  BY <1>5, OnlyElements
<1> QED BY <1>6, <1>7 DEF Maps, ToSet

-----------------------------------------------------------------------------
(* The reader. *)

Collections == Maps(Keys, Values)
Structures == Maps(Sections, Collections)

ReaderStates ==
    {r \in [data : Structures, kept : Seq(Lines), section : Sections \cup {NoName}, inSection : BOOLEAN] :
        IF r.inSection THEN r.section \in Sections /\ Has(r.data, r.section) ELSE r.section = NoName}

LEMMA LineKinds ==
    ASSUME NEW l \in Lines
    PROVE  /\ l = [type |-> l.type, name |-> l.name, value |-> l.value, byHand |-> l.byHand]
           /\ l.type \in {"none", "comment", "unknown", "section", "keyvalue"} /\ l.byHand \in BOOLEAN
           /\ l.type = "section" => l.name \in Sections /\ l.value = NoName
           /\ l.type = "keyvalue" => l.name \in Keys /\ l.value \in Read
           /\ Read \subseteq Values /\ \A v \in Read : Trim[v] = v
<1>1. Read \subseteq Values /\ \A v \in Read : Trim[v] = v
  BY TrimAssumption DEF Read
<1>2. CASE l \in [type : {"none", "comment", "unknown"}, name : {NoName}, value : {NoName}, byHand : BOOLEAN]
  BY <1>1, <1>2
<1>3. CASE l \in [type : {"section"}, name : Sections, value : {NoName}, byHand : BOOLEAN]
  BY <1>1, <1>3
<1>4. CASE l \in [type : {"keyvalue"}, name : Keys, value : Read, byHand : BOOLEAN]
  BY <1>1, <1>4
<1> QED BY <1>2, <1>3, <1>4 DEF Lines

LEMMA ReadsSection ==
    ASSUME NEW r \in ReaderStates, NEW l \in Lines, l.type = "section"
    PROVE  /\ ReadLine(r, l) = [data |-> IF Has(r.data, l.name) THEN r.data ELSE Put(r.data, l.name, <<>>),
                                kept |-> Append(r.kept, l), section |-> l.name, inSection |-> TRUE]
           /\ ReadLine(r, l) \in ReaderStates
<1>1. ReadLine(r, l) = [data |-> IF Has(r.data, l.name) THEN r.data ELSE Put(r.data, l.name, <<>>),
                        kept |-> Append(r.kept, l), section |-> l.name, inSection |-> TRUE]
  BY DEF ReadLine, ReaderStates
<1>2. l.name \in Sections /\ r.data \in Structures /\ <<>> \in Collections
  BY LineKinds, MapEmpty DEF ReaderStates, Collections
<1>3. PICK d : d = IF Has(r.data, l.name) THEN r.data ELSE Put(r.data, l.name, <<>>)
  OBVIOUS
<1>4. d \in Structures /\ Has(d, l.name)
  BY <1>2, <1>3, MapPut DEF Structures
<1>5. Append(r.kept, l) \in Seq(Lines)
  BY AppendProperties DEF ReaderStates
<1> QED BY <1>1, <1>2, <1>3, <1>4, <1>5 DEF ReaderStates

LEMMA ReadsKey ==
    ASSUME NEW r \in ReaderStates, NEW l \in Lines, l.type = "keyvalue", r.inSection
    PROVE  /\ ReadLine(r, l) = [data |-> Put(r.data, r.section, Put(At(r.data, r.section), l.name, l.value)),
                                kept |-> Append(r.kept, l), section |-> r.section, inSection |-> TRUE]
           /\ ReadLine(r, l) \in ReaderStates
<1>1. ReadLine(r, l) = [data |-> Put(r.data, r.section, Put(At(r.data, r.section), l.name, l.value)),
                        kept |-> Append(r.kept, l), section |-> r.section, inSection |-> TRUE]
  BY DEF ReadLine, ReaderStates
<1>2. /\ l.name \in Keys /\ l.value \in Values
      /\ r.section \in Sections /\ r.data \in Structures /\ Has(r.data, r.section)
  BY LineKinds DEF ReaderStates
<1>3. At(r.data, r.section) \in Collections
  BY <1>2, MapAt DEF Structures
<1>4. PICK c : c = Put(At(r.data, r.section), l.name, l.value)
  OBVIOUS
<1>5. c \in Collections
  BY <1>2, <1>3, <1>4, MapPut DEF Collections
<1>6. Put(r.data, r.section, c) \in Structures /\ Has(Put(r.data, r.section, c), r.section)
  BY <1>2, <1>5, MapPut DEF Structures
<1>7. Append(r.kept, l) \in Seq(Lines)
  BY AppendProperties DEF ReaderStates
<1> QED BY <1>1, <1>2, <1>4, <1>6, <1>7 DEF ReaderStates

LEMMA ReadsOther ==
    ASSUME NEW r \in ReaderStates, NEW l \in Lines,
           l.type # "section", ~(l.type = "keyvalue" /\ r.inSection)
    PROVE  /\ ReadLine(r, l) = [r EXCEPT !.kept = IF l.type \in {"none", "comment"} THEN Append(@, l) ELSE @]
           /\ ReadLine(r, l) \in ReaderStates
<1>1. CASE l.type \in {"none", "comment"}
  <2>1. ReadLine(r, l) = [r EXCEPT !.kept = Append(@, l)]
    BY <1>1 DEF ReadLine
  <2>2. Append(r.kept, l) \in Seq(Lines)
    BY AppendProperties DEF ReaderStates
  <2> QED BY <1>1, <2>1, <2>2 DEF ReaderStates
<1>2. CASE l.type \notin {"none", "comment"}
  <2>1. ReadLine(r, l) = r
    BY <1>2 DEF ReadLine
  <2> QED BY <1>2, <2>1 DEF ReaderStates
<1> QED BY <1>1, <1>2

LEMMA ReadsOn ==
    ASSUME NEW r \in ReaderStates, NEW l \in Lines,
           l.type # "section", ~(l.type = "keyvalue" /\ r.inSection),
           NEW q, q = ReadLine(r, l)
    PROVE  /\ q.data = r.data /\ q.section = r.section /\ q.inSection = r.inSection
           /\ l.type \in {"none", "comment"} => q.kept = Append(r.kept, l)
           /\ l.type \notin {"none", "comment"} => q.kept = r.kept
<1>1. r \in [data : Structures, kept : Seq(Lines), section : Sections \cup {NoName}, inSection : BOOLEAN]
  BY DEF ReaderStates
<1>2. CASE l.type \in {"none", "comment"}
  <2>1. q = [r EXCEPT !.kept = Append(@, l)]
    BY <1>2 DEF ReadLine
  <2> QED BY <1>1, <1>2, <2>1
<1>3. CASE l.type \notin {"none", "comment"}
  <2>1. q = r
    BY <1>3 DEF ReadLine
  <2> QED BY <1>3, <2>1
<1> QED BY <1>2, <1>3

LEMMA ReadLineType ==
    ASSUME NEW r \in ReaderStates, NEW l \in Lines
    PROVE  ReadLine(r, l) \in ReaderStates
BY ReadsSection, ReadsKey, ReadsOther

LEMMA ReaderStartType == ReaderStart \in ReaderStates
<1>1. <<>> \in Structures /\ <<>> \in Seq(Lines)
  BY MapEmpty, EmptySeq DEF Structures
<1> QED BY <1>1 DEF ReaderStates, ReaderStart

(* The reader, line by line. *)
LEMMA ReaderSteps ==
    ASSUME NEW lines \in Seq(Lines), NEW h \in [0 .. Len(lines) -> ReaderStates],
           h[0] = ReaderStart, \A i \in 1 .. Len(lines) : h[i] = ReadLine(h[i - 1], lines[i])
    PROVE  Reader(lines) = h[Len(lines)]
<1>1. PICK n \in Nat : n = Len(lines) /\ DOMAIN lines = 1 .. n
  BY LenProperties
<1>2. \A i \in 1 .. n : lines[i] \in Lines
  BY <1>1, ElementOfSeq
<1> DEFINE g == [p \in (1 .. n) \X ReaderStates |-> ReadLine(p[2], lines[p[1]])]
           Recursion(F) == F = [p \in SUBSET (1 .. n) |->
                                  IF p = {} THEN ReaderStart ELSE ReadLine(F[p \ {Max(p)}], lines[Max(p)])]
<1>3. \E F : Recursion(F)
  <2>1. g \in [(1 .. n) \X ReaderStates -> ReaderStates]
    BY <1>2, ReadLineType
  <2>2. PICK F \in [SUBSET (1 .. n) -> ReaderStates] : Folding(F, ReaderStart, n, g)
    <3> HIDE DEF g
    <3> QED BY <2>1, FoldExists, ReaderStartType
  <2>3. ASSUME NEW p \in SUBSET (1 .. n), p # {} PROVE F[p] = ReadLine(F[p \ {Max(p)}], lines[Max(p)])
    <3>1. Max(p) \in 1 .. n
      BY <2>3, MaxIsMember
    <3>2. p \ {Max(p)} \in SUBSET (1 .. n) /\ F[p \ {Max(p)}] \in ReaderStates
      BY <2>2
    <3>3. <<Max(p), F[p \ {Max(p)}]>> \in (1 .. n) \X ReaderStates
      BY <3>1, <3>2
    <3>4. F[p] = g[<<Max(p), F[p \ {Max(p)}]>>]
      <4> HIDE DEF g
      <4> QED BY <2>2, <2>3 DEF Folding
    <3> QED BY <3>3, <3>4
  <2>4. F[{}] = ReaderStart
    BY <2>2 DEF Folding
  <2>5. Recursion(F)
    BY <2>2, <2>3, <2>4
  <2> HIDE DEF Recursion
  <2> QED BY <2>5
<1>4. PICK F : F = CHOOSE G : Recursion(G)
  OBVIOUS
<1>5. Reader(lines) = F[1 .. n]
  BY <1>1, <1>4 DEF Reader, FoldLeft, MapThenFoldSet
<1>6. Recursion(F)
  <2> HIDE DEF Recursion
  <2> QED BY <1>3, <1>4
<1> DEFINE Q == {i \in Nat : i <= n => F[1 .. i] = h[i]}
<1>7. 0 \in Q
  <2>1. 1 .. 0 = {} /\ {} \in SUBSET (1 .. n)
    OBVIOUS
  <2>2. F[{}] = ReaderStart
    BY <1>6, <2>1
  <2> QED BY <2>1, <2>2
<1>8. ASSUME NEW i \in Nat, i \in Q PROVE i + 1 \in Q
  <2> SUFFICES ASSUME i + 1 <= n PROVE F[1 .. i + 1] = h[i + 1]
    OBVIOUS
  <2>1. /\ Max(1 .. i + 1) = i + 1 /\ (1 .. i + 1) \ {i + 1} = 1 .. i /\ 1 .. i + 1 # {}
        /\ i + 1 \in 1 .. n /\ (i + 1) - 1 = i /\ i <= n /\ 1 .. i + 1 \in SUBSET (1 .. n)
    <3>1. (i + 1) - 1 = i /\ i + 1 # 0 /\ i + 1 \in 1 .. n /\ i <= n /\ 1 .. i + 1 \in SUBSET (1 .. n)
      OBVIOUS
    <3>2. PICK j \in Nat : j = i + 1 /\ j # 0 /\ j - 1 = i
      OBVIOUS
    <3>3. Max(1 .. j) = j /\ (1 .. j) \ {j} = 1 .. (j - 1) /\ 1 .. j # {}
      BY <3>2, Interval
    <3> QED BY <3>1, <3>2, <3>3, Zenon
  <2>2. F[1 .. i + 1] = ReadLine(F[1 .. i], lines[i + 1])
    <3>1. \A p \in SUBSET (1 .. n) : p # {} => F[p] = ReadLine(F[p \ {Max(p)}], lines[Max(p)])
      BY <1>6
    <3> HIDE DEF Recursion
    <3> QED BY <2>1, <3>1
  <2>3. h[i + 1] = ReadLine(h[i], lines[i + 1])
    BY <1>1, <2>1
  <2> QED BY <1>8, <2>1, <2>2, <2>3
<1> HIDE DEF Q
<1>9. n \in Q
  BY <1>7, <1>8, NumberInduction
<1> QED BY <1>1, <1>5, <1>9 DEF Q

LEMMA ReaderEmpty == Reader(<<>>) = ReaderStart
<1> DEFINE h == [i \in 0 .. 0 |-> ReaderStart]
<1>1. /\ <<>> \in Seq(Lines) /\ Len(<<>>) = 0 /\ h \in [0 .. 0 -> ReaderStates]
      /\ h[0] = ReaderStart /\ 1 .. 0 = {}
  BY EmptySeq, ReaderStartType
<1> HIDE DEF h
<1> QED BY <1>1, ReaderSteps

LEMMA ReaderAppend ==
    ASSUME NEW lines \in Seq(Lines), NEW l \in Lines
    PROVE  /\ Reader(lines) \in ReaderStates
           /\ Reader(Append(lines, l)) = ReadLine(Reader(lines), l)
<1>1. PICK n \in Nat : n = Len(lines)
  BY LenProperties
<1>2. \A i \in 1 .. n : lines[i] \in Lines
  BY <1>1, ElementOfSeq
<1> DEFINE g == [p \in (1 .. n) \X ReaderStates |-> ReadLine(p[2], lines[p[1]])]
<1>3. PICK h \in [0 .. n -> ReaderStates] : Stepping(h, ReaderStart, n, g)
  <2>1. g \in [(1 .. n) \X ReaderStates -> ReaderStates]
    BY <1>2, ReadLineType
  <2> HIDE DEF g
  <2> QED BY <2>1, ReaderStartType, StepsExist
<1>4. h[0] = ReaderStart /\ \A i \in 1 .. n : h[i] = ReadLine(h[i - 1], lines[i])
  <2>1. ASSUME NEW i \in 1 .. n PROVE h[i] = ReadLine(h[i - 1], lines[i])
    <3>1. i - 1 \in 0 .. n
      OBVIOUS
    <3>2. <<i, h[i - 1]>> \in (1 .. n) \X ReaderStates
      BY <3>1
    <3>3. g[<<i, h[i - 1]>>] = ReadLine(h[i - 1], lines[i])
      BY <3>2
    <3> QED BY <1>3, <3>3 DEF Stepping
  <2> QED BY <1>3, <2>1 DEF Stepping
<1>5. Reader(lines) = h[n] /\ h[n] \in ReaderStates
  <2>1. /\ h \in [0 .. Len(lines) -> ReaderStates] /\ h[0] = ReaderStart
        /\ \A i \in 1 .. Len(lines) : h[i] = ReadLine(h[i - 1], lines[i])
    BY <1>1, <1>4
  <2>2. Reader(lines) = h[Len(lines)]
    BY <2>1, ReaderSteps
  <2> QED BY <1>1, <2>2
<1> DEFINE longer == Append(lines, l)
           e == [i \in 0 .. n + 1 |-> IF i = n + 1 THEN ReadLine(h[n], l) ELSE h[i]]
<1>6. /\ longer \in Seq(Lines) /\ Len(longer) = n + 1
      /\ longer[n + 1] = l /\ \A i \in 1 .. n : longer[i] = lines[i]
  BY <1>1, AppendProperties
<1>7. e \in [0 .. n + 1 -> ReaderStates] /\ e[0] = ReaderStart /\ e[n + 1] = ReadLine(h[n], l)
  <2>1. ReadLine(h[n], l) \in ReaderStates
    BY <1>5, ReadLineType
  <2>2. 0 \in 0 .. n + 1 /\ n + 1 \in 0 .. n + 1 /\ 0 # n + 1
    OBVIOUS
  <2> QED BY <1>4, <2>1, <2>2
<1>8. ASSUME NEW i \in 1 .. n + 1 PROVE e[i] = ReadLine(e[i - 1], longer[i])
  <2>1. CASE i = n + 1
    <3>1. e[i - 1] = h[n]
      BY <2>1
    <3> HIDE DEF e, longer
    <3> QED BY <1>6, <1>7, <2>1, <3>1
  <2>2. CASE i \in 1 .. n
    <3>1. i # n + 1 /\ i - 1 # n + 1 /\ i \in 0 .. n + 1 /\ i - 1 \in 0 .. n + 1
      BY <2>2
    <3>2. e[i] = h[i] /\ e[i - 1] = h[i - 1]
      BY <3>1
    <3> HIDE DEF e, longer
    <3> QED BY <1>4, <1>6, <2>2, <3>2
  <2>3. i = n + 1 \/ i \in 1 .. n
    OBVIOUS
  <2> QED BY <2>1, <2>2, <2>3
<1> HIDE DEF e, longer, g
<1>9. Reader(longer) = e[n + 1]
  BY <1>6, <1>7, <1>8, ReaderSteps
<1> QED BY <1>5, <1>7, <1>9 DEF longer

-----------------------------------------------------------------------------
(* What lines say, position by position. *)

InSection(lines, i, s) ==
    \E j \in 1 .. i : /\ lines[j].type = "section" /\ lines[j].name = s
                      /\ \A h \in j + 1 .. i : lines[h].type # "section"

HeaderOf(lines, s) == \E j \in DOMAIN lines : lines[j].type = "section" /\ lines[j].name = s

Says(lines, s, k, v) ==
    \E i \in DOMAIN lines : /\ lines[i].type = "keyvalue" /\ lines[i].name = k /\ lines[i].value = v
                            /\ InSection(lines, i, s)

LEMMA OneSection ==
    ASSUME NEW lines, NEW i \in Nat, NEW s, NEW t, InSection(lines, i, s), InSection(lines, i, t)
    PROVE  s = t
<1>1. PICK a \in 1 .. i : /\ lines[a].type = "section" /\ lines[a].name = s
                          /\ \A h \in a + 1 .. i : lines[h].type # "section"
  BY DEF InSection
<1>2. PICK b \in 1 .. i : /\ lines[b].type = "section" /\ lines[b].name = t
                          /\ \A h \in b + 1 .. i : lines[h].type # "section"
  BY DEF InSection
<1>3. ~(a < b) /\ ~(b < a)
  BY <1>1, <1>2
<1> QED BY <1>1, <1>2, <1>3

LEMMA SaidOf ==
    ASSUME NEW lines \in Seq(Lines), NEW s, NEW k, NEW v, Says(lines, s, k, v)
    PROVE  s \in Sections /\ k \in Keys /\ v \in Read /\ HeaderOf(lines, s)
<1>1. Len(lines) \in Nat /\ DOMAIN lines = 1 .. Len(lines) /\ \A i \in 1 .. Len(lines) : lines[i] \in Lines
  BY LenProperties, ElementOfSeq
<1>2. PICK i \in 1 .. Len(lines) :
        /\ lines[i].type = "keyvalue" /\ lines[i].name = k /\ lines[i].value = v
        /\ InSection(lines, i, s)
  BY <1>1 DEF Says
<1>3. PICK j \in 1 .. i : lines[j].type = "section" /\ lines[j].name = s
  BY <1>2 DEF InSection
<1>4. j \in 1 .. Len(lines)
  BY <1>1, <1>2, <1>3
<1> QED BY <1>1, <1>2, <1>3, <1>4, LineKinds DEF HeaderOf

LEMMA SectionOfAppended ==
    ASSUME NEW lines \in Seq(Lines), NEW l \in Lines, NEW s
    PROVE  /\ \A i \in 0 .. Len(lines) : InSection(Append(lines, l), i, s) <=> InSection(lines, i, s)
           /\ InSection(Append(lines, l), Len(lines) + 1, s)
              <=> IF l.type = "section" THEN l.name = s ELSE InSection(lines, Len(lines), s)
<1>1. PICK n \in Nat : n = Len(lines)
  BY LenProperties
<1>2. PICK longer : longer = Append(lines, l)
  OBVIOUS
<1>3. longer[n + 1] = l /\ \A i \in 1 .. n : longer[i] = lines[i]
  BY <1>1, <1>2, AppendProperties
<1>4. ASSUME NEW i \in 0 .. n PROVE InSection(longer, i, s) <=> InSection(lines, i, s)
  <2>1. \A j \in 1 .. i : longer[j] = lines[j] /\ \A h \in j + 1 .. i : longer[h] = lines[h]
    BY <1>3
  <2> QED BY <2>1 DEF InSection
<1>5. CASE l.type = "section"
  <2>1. ASSUME InSection(longer, n + 1, s) PROVE l.name = s
    <3>1. PICK j \in 1 .. n + 1 : /\ longer[j].type = "section" /\ longer[j].name = s
                                  /\ \A h \in j + 1 .. n + 1 : longer[h].type # "section"
      BY <2>1 DEF InSection
    <3>2. j = n + 1
      BY <1>3, <1>5, <3>1
    <3> QED BY <1>3, <3>1, <3>2
  <2>2. ASSUME l.name = s PROVE InSection(longer, n + 1, s)
    <3>1. n + 1 \in 1 .. n + 1 /\ (n + 1) + 1 .. n + 1 = {}
      OBVIOUS
    <3> QED BY <1>3, <1>5, <2>2, <3>1 DEF InSection
  <2> QED BY <1>1, <1>2, <1>4, <1>5, <2>1, <2>2
<1>6. CASE l.type # "section"
  <2>1. ASSUME InSection(longer, n + 1, s) PROVE InSection(longer, n, s)
    <3>1. PICK j \in 1 .. n + 1 : /\ longer[j].type = "section" /\ longer[j].name = s
                                  /\ \A h \in j + 1 .. n + 1 : longer[h].type # "section"
      BY <2>1 DEF InSection
    <3>2. j \in 1 .. n
      BY <1>3, <1>6, <3>1
    <3> QED BY <3>1, <3>2 DEF InSection
  <2>2. ASSUME InSection(longer, n, s) PROVE InSection(longer, n + 1, s)
    <3>1. PICK j \in 1 .. n : /\ longer[j].type = "section" /\ longer[j].name = s
                              /\ \A h \in j + 1 .. n : longer[h].type # "section"
      BY <2>2 DEF InSection
    <3>2. \A h \in j + 1 .. n + 1 : longer[h].type # "section"
      BY <1>3, <1>6, <3>1
    <3> QED BY <3>1, <3>2 DEF InSection
  <2>3. n \in 0 .. n
    OBVIOUS
  <2> QED BY <1>1, <1>2, <1>4, <1>6, <2>1, <2>2, <2>3
<1> QED BY <1>5, <1>6

LEMMA SaidByAppended ==
    ASSUME NEW lines \in Seq(Lines), NEW l \in Lines, NEW s
    PROVE  /\ HeaderOf(Append(lines, l), s) <=> HeaderOf(lines, s) \/ (l.type = "section" /\ l.name = s)
           /\ \A k, v : Says(Append(lines, l), s, k, v)
                        <=> \/ Says(lines, s, k, v)
                            \/ /\ l.type = "keyvalue" /\ l.name = k /\ l.value = v
                               /\ InSection(lines, Len(lines), s)
<1>1. PICK n \in Nat : n = Len(lines) /\ DOMAIN lines = 1 .. n
  BY LenProperties
<1>2. PICK longer : longer = Append(lines, l)
  OBVIOUS
<1>3. /\ longer[n + 1] = l /\ \A i \in 1 .. n : longer[i] = lines[i]
      /\ DOMAIN longer = 1 .. n + 1
  BY <1>1, <1>2, AppendProperties, LenProperties
<1>4. \A i \in 1 .. n + 1 : i \in 1 .. n \/ i = n + 1
  OBVIOUS
<1>5. 1 .. n \subseteq 1 .. n + 1 /\ n + 1 \in 1 .. n + 1 /\ 1 .. n \subseteq 0 .. n
  OBVIOUS
<1>6. /\ \A i \in 1 .. n : InSection(longer, i, s) <=> InSection(lines, i, s)
      /\ l.type # "section" => (InSection(longer, n + 1, s) <=> InSection(lines, n, s))
  BY <1>1, <1>2, <1>5, SectionOfAppended
<1>7. HeaderOf(longer, s) <=> HeaderOf(lines, s) \/ (l.type = "section" /\ l.name = s)
  BY <1>1, <1>3, <1>4, <1>5 DEF HeaderOf
<1>8. ASSUME NEW k, NEW v
      PROVE  Says(longer, s, k, v)
             <=> \/ Says(lines, s, k, v)
                 \/ l.type = "keyvalue" /\ l.name = k /\ l.value = v /\ InSection(lines, n, s)
  BY <1>1, <1>3, <1>4, <1>5, <1>6 DEF Says
<1> QED BY <1>1, <1>2, <1>7, <1>8

(* A structure that says what the lines say, if they do not contradict     *)
(* each other: every value is one of those the lines give its key.         *)
Follows(m, lines) ==
    /\ \A s : Has(m, s) <=> HeaderOf(lines, s)
    /\ \A s, k : Has(m, s) => (Has(At(m, s), k) <=> \E v : Says(lines, s, k, v))
    /\ \A s, k : Has(m, s) /\ Has(At(m, s), k) => Says(lines, s, k, At(At(m, s), k))

ReaderInv(lines) ==
    /\ Reader(lines) \in ReaderStates
    /\ Follows(Reader(lines).data, lines)
    /\ \A s : InSection(lines, Len(lines), s) <=> Reader(lines).inSection /\ Reader(lines).section = s

LEMMA ReaderFollows == \A lines \in Seq(Lines) : ReaderInv(lines)
<1> DEFINE Q == {lines \in Seq(Lines) : ReaderInv(lines)}
<1>1. <<>> \in Q
  <2>1. ReaderStart \in ReaderStates /\ ~ReaderStart.inSection /\ ReaderStart.data = <<>>
    BY ReaderStartType DEF ReaderStart
  <2>2. \A s : ~HeaderOf(<<>>, s) /\ ~InSection(<<>>, Len(<<>>), s) /\ ~Has(<<>>, s)
    <3>1. 1 .. Len(<<>>) = {}
      BY EmptySeq
    <3> QED BY <3>1 DEF HeaderOf, InSection, Has
  <2>3. Follows(<<>>, <<>>)
    BY <2>2 DEF Follows
  <2> QED BY <2>1, <2>2, <2>3, ReaderEmpty, EmptySeq DEF ReaderInv
<1>2. ASSUME NEW lines \in Seq(Lines), NEW l \in Lines, ReaderInv(lines)
      PROVE  ReaderInv(Append(lines, l))
  <2>1. PICK r \in ReaderStates : r = Reader(lines)
    BY ReaderAppend
  <2>2. PICK longer \in Seq(Lines) : longer = Append(lines, l) /\ Len(longer) = Len(lines) + 1
    BY AppendProperties
  <2>3. Reader(longer) = ReadLine(r, l) /\ ReadLine(r, l) \in ReaderStates
    BY <2>1, <2>2, ReaderAppend, ReadLineType
  <2>4. /\ r.data \in Structures
        /\ \A s : Has(r.data, s) <=> HeaderOf(lines, s)
        /\ \A s, k : Has(r.data, s) => (Has(At(r.data, s), k) <=> \E v : Says(lines, s, k, v))
        /\ \A s, k : Has(r.data, s) /\ Has(At(r.data, s), k) => Says(lines, s, k, At(At(r.data, s), k))
        /\ \A s : InSection(lines, Len(lines), s) <=> r.inSection /\ r.section = s
    BY <1>2, <2>1 DEF ReaderInv, Follows, ReaderStates
  <2>5. \A s : HeaderOf(longer, s) <=> HeaderOf(lines, s) \/ (l.type = "section" /\ l.name = s)
    BY <2>2, SaidByAppended
  <2>6. \A s, k, v : Says(longer, s, k, v)
                     <=> \/ Says(lines, s, k, v)
                         \/ /\ l.type = "keyvalue" /\ l.name = k /\ l.value = v
                            /\ r.inSection /\ r.section = s
    BY <2>2, <2>4, SaidByAppended
  <2>7. \A s : InSection(longer, Len(longer), s)
               <=> IF l.type = "section" THEN l.name = s ELSE r.inSection /\ r.section = s
    <3> SUFFICES ASSUME NEW s
                 PROVE  InSection(longer, Len(longer), s)
                        <=> IF l.type = "section" THEN l.name = s ELSE r.inSection /\ r.section = s
      OBVIOUS
    <3>1. /\ l.type = "section" => (InSection(Append(lines, l), Len(lines) + 1, s) <=> l.name = s)
          /\ l.type # "section" => (InSection(Append(lines, l), Len(lines) + 1, s)
                                    <=> InSection(lines, Len(lines), s))
      BY SectionOfAppended
    <3> QED BY <2>2, <2>4, <3>1
  <2>8. CASE l.type = "section"
    <3>1. PICK d : d = IF Has(r.data, l.name) THEN r.data ELSE Put(r.data, l.name, <<>>)
      OBVIOUS
    <3>2. ReadLine(r, l) = [data |-> d, kept |-> Append(r.kept, l), section |-> l.name, inSection |-> TRUE]
      BY <2>8, <3>1, ReadsSection
    <3>3. /\ \A s : Has(d, s) <=> Has(r.data, s) \/ s = l.name
          /\ \A s : Has(r.data, s) => At(d, s) = At(r.data, s)
          /\ ~Has(r.data, l.name) => \A k : ~Has(At(d, l.name), k)
      <4>1. CASE Has(r.data, l.name)
        BY <3>1, <4>1
      <4>2. CASE ~Has(r.data, l.name)
        <5>1. l.name \in Sections /\ <<>> \in Collections /\ d = Put(r.data, l.name, <<>>)
          BY <2>8, <3>1, <4>2, LineKinds, MapEmpty DEF Collections
        <5>2. /\ Has(d, l.name) /\ At(d, l.name) = <<>>
              /\ \A j : j # l.name => /\ Has(d, j) <=> Has(r.data, j)
                                      /\ Has(r.data, j) => At(d, j) = At(r.data, j)
          BY <2>4, <5>1, MapPut DEF Structures
        <5>3. \A k : ~Has(<<>>, k)
          BY DEF Has
        <5> QED BY <4>2, <5>2, <5>3
      <4> QED BY <4>1, <4>2
    <3>4. \A s, k, v : Says(longer, s, k, v) <=> Says(lines, s, k, v)
      BY <2>6, <2>8
    <3>5. ~Has(r.data, l.name) => \A k, v : ~Says(lines, l.name, k, v)
      BY <2>4, SaidOf
    <3>6. Follows(d, longer)
      <4>1. \A s : Has(d, s) <=> HeaderOf(longer, s)
        BY <2>4, <2>5, <2>8, <3>3
      <4>2. ASSUME NEW s, NEW k, Has(d, s)
            PROVE  /\ Has(At(d, s), k) <=> \E v : Says(longer, s, k, v)
                   /\ Has(At(d, s), k) => Says(longer, s, k, At(At(d, s), k))
        <5>1. CASE Has(r.data, s)
          BY <2>4, <3>3, <3>4, <5>1
        <5>2. CASE ~Has(r.data, s)
          <6>1. s = l.name
            BY <3>3, <4>2, <5>2
          <6> QED BY <3>3, <3>4, <3>5, <5>2, <6>1
        <5> QED BY <5>1, <5>2
      <4> QED BY <4>1, <4>2 DEF Follows
    <3> QED BY <2>2, <2>3, <2>7, <2>8, <3>2, <3>6 DEF ReaderInv
  <2>9. CASE l.type = "keyvalue" /\ r.inSection
    <3>1. PICK c : c = Put(At(r.data, r.section), l.name, l.value)
      OBVIOUS
    <3>2. PICK d : d = Put(r.data, r.section, c)
      OBVIOUS
    <3>3. ReadLine(r, l) = [data |-> d, kept |-> Append(r.kept, l), section |-> r.section, inSection |-> TRUE]
      BY <2>9, <3>1, <3>2, ReadsKey
    <3>4. /\ r.section \in Sections /\ Has(r.data, r.section)
          /\ l.name \in Keys /\ l.value \in Values
      BY <2>9, LineKinds DEF ReaderStates
    <3>5. At(r.data, r.section) \in Collections
      BY <2>4, <3>4, MapAt DEF Structures
    <3>6. /\ c \in Collections /\ Has(c, l.name) /\ At(c, l.name) = l.value
          /\ \A j : j # l.name => /\ Has(c, j) <=> Has(At(r.data, r.section), j)
                                  /\ Has(At(r.data, r.section), j)
                                     => At(c, j) = At(At(r.data, r.section), j)
      BY <3>1, <3>4, <3>5, MapPut DEF Collections
    <3>7. /\ Has(d, r.section) /\ At(d, r.section) = c
          /\ \A j : j # r.section => /\ Has(d, j) <=> Has(r.data, j)
                                     /\ Has(r.data, j) => At(d, j) = At(r.data, j)
      BY <2>4, <3>2, <3>4, <3>6, MapPut DEF Structures
    <3>8. Follows(d, longer)
      <4>1. \A s : Has(d, s) <=> HeaderOf(longer, s)
        BY <2>4, <2>5, <2>9, <3>4, <3>7
      <4>2. ASSUME NEW s, NEW k, Has(d, s)
            PROVE  /\ Has(At(d, s), k) <=> \E v : Says(longer, s, k, v)
                   /\ Has(At(d, s), k) => Says(longer, s, k, At(At(d, s), k))
        <5>1. CASE s # r.section
          BY <2>4, <2>6, <3>7, <4>2, <5>1
        <5>2. CASE s = r.section /\ k = l.name
          BY <2>6, <2>9, <3>6, <3>7, <5>2
        <5>3. CASE s = r.section /\ k # l.name
          BY <2>4, <2>6, <3>4, <3>6, <3>7, <5>3
        <5> QED BY <5>1, <5>2, <5>3
      <4> QED BY <4>1, <4>2 DEF Follows
    <3> QED BY <2>2, <2>3, <2>7, <2>9, <3>3, <3>8 DEF ReaderInv
  <2>10. CASE l.type # "section" /\ ~(l.type = "keyvalue" /\ r.inSection)
    <3>1. ReadLine(r, l).data = r.data /\ ReadLine(r, l).section = r.section /\ ReadLine(r, l).inSection = r.inSection
      BY <2>10, ReadsOther DEF ReaderStates
    <3>2. /\ \A s : HeaderOf(longer, s) <=> HeaderOf(lines, s)
          /\ \A s, k, v : Says(longer, s, k, v) <=> Says(lines, s, k, v)
      BY <2>5, <2>6, <2>10
    <3>3. Follows(r.data, longer)
      BY <2>4, <3>2 DEF Follows
    <3> QED BY <2>2, <2>3, <2>7, <2>10, <3>1, <3>3 DEF ReaderInv
  <2> QED BY <2>8, <2>9, <2>10
<1>3. ASSUME NEW lines \in Seq(Lines), NEW l \in Lines, lines \in Q PROVE Append(lines, l) \in Q
  BY <1>2, <1>3, AppendProperties
<1> HIDE DEF Q
<1>4. Seq(Lines) \subseteq Q
  BY <1>1, <1>3, SequenceInduction
<1> QED BY <1>4 DEF Q

-----------------------------------------------------------------------------
(* The lines the library makes. *)

LEMMA ParsedLines ==
    \A parsed \in Parses : \A h \in BOOLEAN :
       /\ AsLine(parsed, h) \in Lines /\ AsLine(parsed, h).byHand = h
       /\ AsLine(parsed, h).type = parsed.type /\ AsLine(parsed, h).name = parsed.name
       /\ AsLine(parsed, h).value = parsed.value
<1>1. ASSUME NEW parsed \in Parses, NEW h \in BOOLEAN PROVE AsLine(parsed, h) \in Lines
  BY DEF Parses, AsLine, Lines
<1> QED BY <1>1 DEF AsLine

LEMMA MadeLines ==
    /\ \A s \in Sections : SectionLine(s) \in Lines /\ ~SectionLine(s).byHand
    /\ \A k \in Keys, v \in Values : KeyLine(k, v) \in Lines /\ ~KeyLine(k, v).byHand /\ Trim[v] \in Read
    /\ \A l \in Lines : \A v \in Read : l.type = "keyvalue" => [l EXCEPT !.value = v] \in Lines
<1>1. ASSUME NEW s \in Sections PROVE SectionLine(s) \in Lines /\ ~SectionLine(s).byHand
  <2>1. PICK parsed \in Parses : parsed = HeaderAs[s]
    BY TextsAssumption
  <2> QED BY <2>1, ParsedLines DEF SectionLine
<1>2. ASSUME NEW k \in Keys, NEW v \in Values
      PROVE  KeyLine(k, v) \in Lines /\ ~KeyLine(k, v).byHand /\ Trim[v] \in Read
  <2>1. Trim[v] \in Read
    BY DEF Read
  <2>2. PICK parsed \in Parses : parsed = KeyAs[k][Trim[v]]
    BY <2>1, TextsAssumption
  <2> QED BY <2>1, <2>2, ParsedLines DEF KeyLine
<1>3. ASSUME NEW l \in Lines, NEW v \in Read, l.type = "keyvalue" PROVE [l EXCEPT !.value = v] \in Lines
  <2>1. [l EXCEPT !.value = v] = [type |-> "keyvalue", name |-> l.name, value |-> v, byHand |-> l.byHand]
    BY <1>3, LineKinds
  <2>2. l.name \in Keys /\ l.byHand \in BOOLEAN
    BY <1>3, LineKinds
  <2> QED BY <2>1, <2>2 DEF Lines
<1> QED BY <1>1, <1>2, <1>3

(* What is plain is read as it was meant. *)
LEMMA PlainLines ==
    /\ \A s \in Sections : s \in PlainSections => SectionLine(s).type = "section" /\ SectionLine(s).name = s
    /\ \A k \in Keys, v \in Values : k \in PlainKeys =>
          KeyLine(k, v).type = "keyvalue" /\ KeyLine(k, v).name = k /\ KeyLine(k, v).value = Trim[v]
<1>1. ASSUME NEW s \in Sections, s \in PlainSections
      PROVE  SectionLine(s).type = "section" /\ SectionLine(s).name = s
  <2>1. HeaderAs[s] = ParsedSection(s)
    BY <1>1, PlainAssumption
  <2> QED BY <2>1 DEF SectionLine, AsLine, ParsedSection
<1>2. ASSUME NEW k \in Keys, NEW v \in Values, k \in PlainKeys
      PROVE  KeyLine(k, v).type = "keyvalue" /\ KeyLine(k, v).name = k /\ KeyLine(k, v).value = Trim[v]
  <2>1. Trim[v] \in Read
    BY DEF Read
  <2>2. KeyAs[k][Trim[v]] = ParsedKey(k, Trim[v])
    BY <1>2, <2>1, PlainAssumption
  <2> QED BY <2>2 DEF KeyLine, AsLine, ParsedKey
<1> QED BY <1>1, <1>2

LEMMA KeyLinesType ==
    ASSUME NEW c \in Collections
    PROVE  /\ KeyLines(c) \in Seq(Lines) /\ Len(KeyLines(c)) = Len(c)
           /\ DOMAIN KeyLines(c) = DOMAIN c
           /\ \A i \in DOMAIN c : KeyLines(c)[i] = KeyLine(c[i].key, c[i].val)
<1>1. /\ Len(c) \in Nat /\ DOMAIN c = 1 .. Len(c)
      /\ \A i \in 1 .. Len(c) : c[i].key \in Keys /\ c[i].val \in Values
  BY MapPositions DEF Collections
<1>2. PICK n \in Nat : n = Len(c)
  BY <1>1, Zenon
<1>3. PICK new : new = [i \in 1 .. n |-> KeyLine(c[i].key, c[i].val)]
  OBVIOUS
<1>4. new \in [1 .. n -> Lines]
  BY <1>1, <1>2, <1>3, MadeLines
<1>5. new \in Seq(Lines)
  BY <1>4, SeqDef
<1>6. Len(new) = n /\ DOMAIN new = 1 .. n
  BY <1>4, <1>5, LenProperties
<1>7. KeyLines(c) = new
  BY <1>1, <1>2, <1>3 DEF KeyLines
<1> QED BY <1>1, <1>2, <1>3, <1>5, <1>6, <1>7

LEMMA AddedKeys ==
    ASSUME NEW c \in Collections, NEW old
    PROVE  /\ Added(c, old) \in Collections
           /\ \A i \in DOMAIN Added(c, old) :
                 /\ Has(c, Added(c, old)[i].key) /\ ~Has(old, Added(c, old)[i].key)
                 /\ Added(c, old)[i].val = At(c, Added(c, old)[i].key)
           /\ \A k : Has(c, k) /\ ~Has(old, k) =>
                 \E i \in DOMAIN Added(c, old) : Added(c, old)[i].key = k
<1>1. PICK set : set = {e \in ToSet(c) : ~Has(old, e.key)}
  OBVIOUS
<1>2. PICK a : a = Only(c, set)
  OBVIOUS
<1>3. Added(c, old) = a
  BY <1>1, <1>2 DEF Added
<1>4. /\ a \in Collections
      /\ \A i \in DOMAIN a : a[i] \in set
      /\ \A i \in DOMAIN c : c[i] \in set => \E j \in DOMAIN a : a[j] = c[i]
  BY <1>2, MapOnly DEF Collections
<1>5. ASSUME NEW i \in DOMAIN a
      PROVE  Has(c, a[i].key) /\ ~Has(old, a[i].key) /\ a[i].val = At(c, a[i].key)
  <2>1. PICK j \in DOMAIN c : a[i] = c[j]
    BY <1>1, <1>4 DEF ToSet
  <2> QED BY <1>1, <1>4, <2>1, MapPair DEF Collections
<1>6. ASSUME NEW k, Has(c, k), ~Has(old, k) PROVE \E i \in DOMAIN a : a[i].key = k
  <2>1. PICK j \in DOMAIN c : c[j].key = k
    BY <1>6 DEF Has
  <2>2. c[j] \in set
    BY <1>1, <1>6, <2>1 DEF ToSet
  <2> QED BY <1>4, <2>1, <2>2
<1> QED BY <1>3, <1>4, <1>5, <1>6

LEMMA InsertedLines ==
    ASSUME NEW lines \in Seq(Lines), NEW p \in 0 .. Len(lines), NEW new \in Seq(Lines)
    PROVE  /\ InsertAfter(lines, p, new) \in Seq(Lines)
           /\ Len(InsertAfter(lines, p, new)) = Len(lines) + Len(new)
           /\ \A i \in 1 .. p : InsertAfter(lines, p, new)[i] = lines[i]
           /\ \A i \in 1 .. Len(new) : InsertAfter(lines, p, new)[p + i] = new[i]
           /\ \A i \in p + 1 .. Len(lines) : InsertAfter(lines, p, new)[Len(new) + i] = lines[i]
<1>1. PICK n \in Nat, m \in Nat : n = Len(lines) /\ m = Len(new)
  BY LenProperties
<1>2. PICK front : front = SubSeq(lines, 1, p)
  OBVIOUS
<1>3. PICK back : back = SubSeq(lines, p + 1, n)
  OBVIOUS
<1>4. p \in 0 .. n
  BY <1>1
<1>5. front \in Seq(Lines) /\ Len(front) = p /\ \A i \in 1 .. p : front[i] = lines[i]
  <2>1. 1 \in 1 .. n + 1 /\ p \in 1 - 1 .. n /\ (p - 1) + 1 = p
    BY <1>4
  <2> QED BY <1>1, <1>2, <1>4, <2>1, SubSeqProperties
<1>6. back \in Seq(Lines) /\ Len(back) = n - p /\ \A i \in 1 .. n - p : back[i] = lines[p + i]
  BY <1>1, <1>3, <1>4, SubSeqProperties
<1>7. PICK s : s = front \o new
  OBVIOUS
<1>8. /\ s \in Seq(Lines) /\ Len(s) = p + m
      /\ \A i \in 1 .. p : s[i] = lines[i]
      /\ \A i \in 1 .. m : s[p + i] = new[i]
  <2>1. /\ s \in Seq(Lines) /\ Len(s) = p + m
        /\ \A i \in 1 .. p + m : s[i] = IF i <= p THEN front[i] ELSE new[i - p]
    <3>1. /\ front \o new \in Seq(Lines) /\ Len(front \o new) = Len(front) + Len(new)
          /\ \A i \in 1 .. Len(front) + Len(new) :
                (front \o new)[i] = IF i <= Len(front) THEN front[i] ELSE new[i - Len(front)]
      BY <1>5, ConcatProperties
    <3>2. Len(front) = p /\ Len(new) = m
      BY <1>1, <1>5
    <3> QED BY <1>7, <3>1, <3>2
  <2>2. \A i \in 1 .. p : i \in 1 .. p + m /\ i <= p
    BY <1>4
  <2>3. \A i \in 1 .. m : p + i \in 1 .. p + m /\ ~(p + i <= p) /\ (p + i) - p = i
    BY <1>4
  <2> QED BY <1>5, <2>1, <2>2, <2>3
<1>9. PICK t : t = s \o back
  OBVIOUS
<1>10. /\ t \in Seq(Lines) /\ Len(t) = n + m
       /\ \A i \in 1 .. p + m : t[i] = s[i]
       /\ \A i \in p + 1 .. n : t[m + i] = lines[i]
  <2>1. /\ t \in Seq(Lines) /\ Len(t) = (p + m) + (n - p)
        /\ \A i \in 1 .. (p + m) + (n - p) : t[i] = IF i <= p + m THEN s[i] ELSE back[i - (p + m)]
    <3>1. /\ s \o back \in Seq(Lines) /\ Len(s \o back) = Len(s) + Len(back)
          /\ \A i \in 1 .. Len(s) + Len(back) :
                (s \o back)[i] = IF i <= Len(s) THEN s[i] ELSE back[i - Len(s)]
      BY <1>6, <1>8, ConcatProperties
    <3>2. Len(s) = p + m /\ Len(back) = n - p
      BY <1>6, <1>8
    <3> QED BY <1>9, <3>1, <3>2
  <2>2. (p + m) + (n - p) = n + m /\ \A i \in 1 .. p + m : i \in 1 .. n + m /\ i <= p + m
    BY <1>4
  <2>3. \A i \in p + 1 .. n : /\ m + i \in 1 .. n + m /\ ~(m + i <= p + m) /\ (m + i) - (p + m) = i - p
                              /\ i - p \in 1 .. n - p /\ p + (i - p) = i
    BY <1>4
  <2>4. \A i \in p + 1 .. n : back[i - p] = lines[i]
    BY <1>6, <2>3
  <2>5. \A i \in p + 1 .. n : t[m + i] = back[i - p]
    BY <2>1, <2>2, <2>3
  <2> QED BY <2>1, <2>2, <2>4, <2>5
<1>11. InsertAfter(lines, p, new) = t
  BY <1>1, <1>2, <1>3, <1>7, <1>9 DEF InsertAfter
<1>12. \A i \in 1 .. p : i \in 1 .. p + m
  BY <1>4
<1>13. \A i \in 1 .. m : p + i \in 1 .. p + m
  BY <1>4
<1> QED BY <1>1, <1>8, <1>10, <1>11, <1>12, <1>13

LEMMA SectionExtends ==
    ASSUME NEW lines, NEW i \in Nat, NEW j \in Nat, i <= j, NEW s, InSection(lines, i, s),
           \A h \in i + 1 .. j : lines[h].type # "section"
    PROVE  InSection(lines, j, s)
<1>1. PICK a \in 1 .. i : /\ lines[a].type = "section" /\ lines[a].name = s
                          /\ \A h \in a + 1 .. i : lines[h].type # "section"
  BY DEF InSection
<1>2. a \in 1 .. j /\ \A h \in a + 1 .. j : h \in a + 1 .. i \/ h \in i + 1 .. j
  OBVIOUS
<1> QED BY <1>1, <1>2 DEF InSection

(* Keys put behind the last line that was written for a section belong to  *)
(* it, and nothing else changes its section.                               *)
LEMMA SaidByInserted ==
    ASSUME NEW lines \in Seq(Lines), NEW p \in 1 .. Len(lines), NEW t, InSection(lines, p, t),
           \A i \in p + 1 .. Len(lines) : lines[i].type \in {"none", "comment"},
           NEW new \in Seq(Lines), \A i \in DOMAIN new : new[i].type = "keyvalue"
    PROVE  /\ \A s : HeaderOf(InsertAfter(lines, p, new), s) <=> HeaderOf(lines, s)
           /\ \A s, k, v : Says(InsertAfter(lines, p, new), s, k, v)
                           <=> \/ Says(lines, s, k, v)
                               \/ s = t /\ \E i \in DOMAIN new : new[i].name = k /\ new[i].value = v
<1>1. PICK n \in Nat, m \in Nat : /\ n = Len(lines) /\ DOMAIN lines = 1 .. n
                                  /\ m = Len(new) /\ DOMAIN new = 1 .. m
  BY LenProperties
<1>2. PICK longer : longer = InsertAfter(lines, p, new)
  OBVIOUS
<1>3. /\ longer \in Seq(Lines) /\ Len(longer) = n + m
      /\ \A i \in 1 .. p : longer[i] = lines[i]
      /\ \A i \in 1 .. m : longer[p + i] = new[i]
      /\ \A i \in p + 1 .. n : longer[m + i] = lines[i]
  <2>1. p \in 0 .. Len(lines)
    BY <1>1
  <2>2. /\ longer \in Seq(Lines) /\ Len(longer) = Len(lines) + Len(new)
        /\ \A i \in 1 .. p : longer[i] = lines[i]
        /\ \A i \in 1 .. Len(new) : longer[p + i] = new[i]
        /\ \A i \in p + 1 .. Len(lines) : longer[Len(new) + i] = lines[i]
    <3>1. /\ InsertAfter(lines, p, new) \in Seq(Lines)
          /\ Len(InsertAfter(lines, p, new)) = Len(lines) + Len(new)
          /\ \A i \in 1 .. p : InsertAfter(lines, p, new)[i] = lines[i]
          /\ \A i \in 1 .. Len(new) : InsertAfter(lines, p, new)[p + i] = new[i]
          /\ \A i \in p + 1 .. Len(lines) : InsertAfter(lines, p, new)[Len(new) + i] = lines[i]
      BY <2>1, InsertedLines
    <3> QED BY <1>2, <3>1
  <2> QED BY <1>1, <2>2
<1>4. DOMAIN longer = 1 .. n + m
  BY <1>3, LenProperties
<1>5. p \in 1 .. n /\ p \in Nat
  BY <1>1
<1>6. ASSUME NEW i \in 1 .. n + m
      PROVE  \/ i \in 1 .. p
             \/ \E j \in 1 .. m : i = p + j
             \/ \E j \in p + 1 .. n : i = m + j
  <2>1. \/ i \in 1 .. p
        \/ i - p \in 1 .. m /\ i = p + (i - p)
        \/ i - m \in p + 1 .. n /\ i = m + (i - m)
    BY <1>5
  <2> QED BY <2>1
<1>7. \A i \in p + 1 .. p + m : longer[i].type = "keyvalue"
  <2>1. ASSUME NEW i \in p + 1 .. p + m PROVE longer[i].type = "keyvalue"
    <3>1. i - p \in 1 .. m /\ i = p + (i - p)
      BY <1>5
    <3>2. PICK j \in 1 .. m : i = p + j
      BY <3>1
    <3>3. longer[p + j] = new[j] /\ j \in DOMAIN new
      BY <1>1, <1>3
    <3> QED BY <3>2, <3>3
  <2> QED BY <2>1
<1>8. ASSUME NEW i \in 1 .. p, NEW s PROVE InSection(longer, i, s) <=> InSection(lines, i, s)
  <2>1. i \in Nat /\ \A j \in 1 .. i : longer[j] = lines[j] /\ \A h \in j + 1 .. i : longer[h] = lines[h]
    BY <1>3, <1>5
  <2>2. ASSUME InSection(longer, i, s) PROVE InSection(lines, i, s)
    <3>1. PICK j \in 1 .. i : /\ longer[j].type = "section" /\ longer[j].name = s
                              /\ \A h \in j + 1 .. i : longer[h].type # "section"
      BY <2>2 DEF InSection
    <3>2. /\ lines[j].type = "section" /\ lines[j].name = s
          /\ \A h \in j + 1 .. i : lines[h].type # "section"
      BY <2>1, <3>1
    <3> QED BY <3>2 DEF InSection
  <2>3. ASSUME InSection(lines, i, s) PROVE InSection(longer, i, s)
    <3>1. PICK j \in 1 .. i : /\ lines[j].type = "section" /\ lines[j].name = s
                              /\ \A h \in j + 1 .. i : lines[h].type # "section"
      BY <2>3 DEF InSection
    <3>2. /\ longer[j].type = "section" /\ longer[j].name = s
          /\ \A h \in j + 1 .. i : longer[h].type # "section"
      BY <2>1, <3>1
    <3> QED BY <3>2 DEF InSection
  <2> QED BY <2>2, <2>3
<1>9. ASSUME NEW i \in 1 .. m PROVE InSection(longer, p + i, t)
  <2>1. p + i \in Nat /\ p <= p + i /\ p \in 1 .. p /\ \A h \in p + 1 .. p + i : h \in p + 1 .. p + m
    BY <1>5
  <2>2. InSection(longer, p, t) /\ \A h \in p + 1 .. p + i : longer[h].type # "section"
    BY <1>7, <1>8, <2>1
  <2> QED BY <1>5, <2>1, <2>2, SectionExtends
<1>10. ASSUME NEW s PROVE HeaderOf(longer, s) <=> HeaderOf(lines, s)
  <2>1. ASSUME HeaderOf(longer, s) PROVE HeaderOf(lines, s)
    <3>1. PICK i \in 1 .. n + m : longer[i].type = "section" /\ longer[i].name = s
      BY <1>4, <2>1 DEF HeaderOf
    <3>2. CASE i \in 1 .. p
      BY <1>1, <1>3, <1>5, <3>1, <3>2 DEF HeaderOf
    <3>3. ASSUME NEW j \in 1 .. m, i = p + j PROVE FALSE
      BY <1>1, <1>3, <3>1, <3>3
    <3>4. ASSUME NEW j \in p + 1 .. n, i = m + j PROVE FALSE
      BY <1>1, <1>3, <3>1, <3>4
    <3> QED BY <1>6, <3>2, <3>3, <3>4
  <2>2. ASSUME HeaderOf(lines, s) PROVE HeaderOf(longer, s)
    <3>1. PICK i \in 1 .. n : lines[i].type = "section" /\ lines[i].name = s
      BY <1>1, <2>2 DEF HeaderOf
    <3>2. i \notin p + 1 .. n
      BY <1>1, <3>1
    <3>3. i \in 1 .. p /\ i \in 1 .. n + m
      BY <1>5, <3>2
    <3> QED BY <1>3, <1>4, <3>1, <3>3 DEF HeaderOf
  <2> QED BY <2>1, <2>2
<1>11. ASSUME NEW s, NEW k, NEW v, Says(longer, s, k, v)
       PROVE  \/ Says(lines, s, k, v)
              \/ s = t /\ \E i \in DOMAIN new : new[i].name = k /\ new[i].value = v
  <2>1. PICK i \in 1 .. n + m : /\ longer[i].type = "keyvalue" /\ longer[i].name = k /\ longer[i].value = v
                                /\ InSection(longer, i, s)
    BY <1>4, <1>11 DEF Says
  <2>2. CASE i \in 1 .. p
    <3>1. i \in DOMAIN lines /\ longer[i] = lines[i] /\ InSection(lines, i, s)
      BY <1>1, <1>3, <1>5, <1>8, <2>1, <2>2
    <3> QED BY <2>1, <3>1 DEF Says
  <2>3. ASSUME NEW j \in 1 .. m, i = p + j
        PROVE  s = t /\ \E h \in DOMAIN new : new[h].name = k /\ new[h].value = v
    <3>1. InSection(longer, i, t) /\ i \in Nat
      <4>1. InSection(longer, p + j, t)
        BY <1>9
      <4>2. p + j \in Nat
        BY <1>5
      <4> QED BY <2>3, <4>1, <4>2
    <3>2. s = t
      BY <2>1, <3>1, OneSection
    <3>3. longer[i] = new[j] /\ j \in DOMAIN new
      BY <1>1, <1>3, <2>3
    <3> QED BY <2>1, <3>2, <3>3
  <2>4. ASSUME NEW j \in p + 1 .. n, i = m + j PROVE FALSE
    BY <1>1, <1>3, <2>1, <2>4
  <2> QED BY <1>6, <2>2, <2>3, <2>4
<1>12. ASSUME NEW s, NEW k, NEW v, Says(lines, s, k, v) PROVE Says(longer, s, k, v)
  <2>1. PICK i \in 1 .. n : /\ lines[i].type = "keyvalue" /\ lines[i].name = k /\ lines[i].value = v
                            /\ InSection(lines, i, s)
    BY <1>1, <1>12 DEF Says
  <2>2. i \notin p + 1 .. n
    BY <1>1, <2>1
  <2>3. i \in 1 .. p /\ i \in 1 .. n + m
    BY <1>5, <2>2
  <2> QED BY <1>3, <1>4, <1>8, <2>1, <2>3 DEF Says
<1>13. ASSUME NEW i \in DOMAIN new PROVE Says(longer, t, new[i].name, new[i].value)
  <2>1. i \in 1 .. m /\ p + i \in 1 .. n + m
    BY <1>1, <1>5
  <2> QED BY <1>1, <1>3, <1>4, <1>9, <2>1 DEF Says
<1> QED BY <1>2, <1>10, <1>11, <1>12, <1>13

-----------------------------------------------------------------------------
(* The writer. *)

WriterStates ==
    {w \in [output : Seq(Lines), lastKeyLine : Nat, sectionCurrent : Sections \cup {NoName},
            parsingSection : BOOLEAN, continueToNextSection : BOOLEAN, discardNextEmpty : BOOLEAN] :
        w.lastKeyLine <= Len(w.output)}

LEMMA WriterParts ==
    ASSUME NEW w \in WriterStates
    PROVE  /\ w \in [output : Seq(Lines), lastKeyLine : Nat, sectionCurrent : Sections \cup {NoName},
                     parsingSection : BOOLEAN, continueToNextSection : BOOLEAN, discardNextEmpty : BOOLEAN]
           /\ w.output \in Seq(Lines) /\ w.lastKeyLine \in Nat /\ Len(w.output) \in Nat
           /\ w.lastKeyLine <= Len(w.output) /\ w.lastKeyLine \in 0 .. Len(w.output)
           /\ w.sectionCurrent \in Sections \cup {NoName} /\ w.parsingSection \in BOOLEAN
           /\ w.continueToNextSection \in BOOLEAN /\ w.discardNextEmpty \in BOOLEAN
<1>1. /\ w \in [output : Seq(Lines), lastKeyLine : Nat, sectionCurrent : Sections \cup {NoName},
               parsingSection : BOOLEAN, continueToNextSection : BOOLEAN, discardNextEmpty : BOOLEAN]
      /\ w.lastKeyLine <= Len(w.output)
  BY DEF WriterStates
<1>2. w.output \in Seq(Lines) /\ w.lastKeyLine \in Nat
  BY <1>1
<1>3. Len(w.output) \in Nat
  BY <1>2, LenProperties
<1>4. w.lastKeyLine \in 0 .. Len(w.output)
  BY <1>1, <1>2, <1>3
<1> QED BY <1>1, <1>2, <1>3, <1>4

LEMMA WriterSays ==
    ASSUME NEW w \in WriterStates, NEW out \in Seq(Lines), w.lastKeyLine <= Len(out),
           NEW v, v = [w EXCEPT !.output = out]
    PROVE  /\ v \in WriterStates
           /\ v.output = out /\ v.lastKeyLine = w.lastKeyLine /\ v.sectionCurrent = w.sectionCurrent
           /\ v.parsingSection = w.parsingSection /\ v.continueToNextSection = w.continueToNextSection
<1>1. w \in [output : Seq(Lines), lastKeyLine : Nat, sectionCurrent : Sections \cup {NoName},
            parsingSection : BOOLEAN, continueToNextSection : BOOLEAN, discardNextEmpty : BOOLEAN]
  BY WriterParts
<1>2. v \in [output : Seq(Lines), lastKeyLine : Nat, sectionCurrent : Sections \cup {NoName},
            parsingSection : BOOLEAN, continueToNextSection : BOOLEAN, discardNextEmpty : BOOLEAN]
  BY <1>1
<1>3. /\ v.output = out /\ v.lastKeyLine = w.lastKeyLine /\ v.sectionCurrent = w.sectionCurrent
      /\ v.parsingSection = w.parsingSection /\ v.continueToNextSection = w.continueToNextSection
  BY <1>1
<1> QED BY <1>2, <1>3 DEF WriterStates

LEMMA WriterEmits ==
    ASSUME NEW w \in WriterStates, NEW l \in Lines, NEW v
    PROVE  /\ v = EmitKeyLine(w, l) =>
                /\ v \in WriterStates
                /\ v.output = Append(w.output, l) /\ v.lastKeyLine = Len(w.output) + 1
                /\ v.sectionCurrent = w.sectionCurrent /\ v.parsingSection = w.parsingSection
                /\ v.continueToNextSection = w.continueToNextSection
           /\ v = Emit(w, l) =>
                /\ v \in WriterStates
                /\ v.output = Append(w.output, l) /\ v.lastKeyLine = w.lastKeyLine
                /\ v.sectionCurrent = w.sectionCurrent /\ v.parsingSection = w.parsingSection
                /\ v.continueToNextSection = w.continueToNextSection
<1>1. PICK old \in Seq(Lines), last \in Nat, n \in Nat :
        old = w.output /\ last = w.lastKeyLine /\ n = Len(w.output) /\ last <= n
  BY WriterParts
<1>2. PICK out \in Seq(Lines) : out = Append(old, l) /\ Len(out) = Len(old) + 1
  BY AppendProperties
<1>3. n + 1 \in Nat /\ n + 1 <= Len(out) /\ w.lastKeyLine <= Len(out)
  BY <1>1, <1>2
<1>4. ASSUME v = EmitKeyLine(w, l)
      PROVE  /\ v \in WriterStates
             /\ v.output = out /\ v.lastKeyLine = n + 1 /\ v.sectionCurrent = w.sectionCurrent
             /\ v.parsingSection = w.parsingSection /\ v.continueToNextSection = w.continueToNextSection
  <2>1. PICK m \in Nat : m = n + 1 /\ m <= Len(out)
    BY <1>3
  <2>2. v = [w EXCEPT !.output = out, !.lastKeyLine = m]
    BY <1>1, <1>2, <1>4, <2>1 DEF EmitKeyLine
  <2>3. w \in [output : Seq(Lines), lastKeyLine : Nat, sectionCurrent : Sections \cup {NoName},
              parsingSection : BOOLEAN, continueToNextSection : BOOLEAN, discardNextEmpty : BOOLEAN]
    BY WriterParts
  <2>4. v \in [output : Seq(Lines), lastKeyLine : Nat, sectionCurrent : Sections \cup {NoName},
              parsingSection : BOOLEAN, continueToNextSection : BOOLEAN, discardNextEmpty : BOOLEAN]
    BY <2>2, <2>3
  <2>5. /\ v.output = out /\ v.lastKeyLine = m /\ v.sectionCurrent = w.sectionCurrent
        /\ v.parsingSection = w.parsingSection /\ v.continueToNextSection = w.continueToNextSection
    BY <2>2, <2>3
  <2> QED BY <2>1, <2>4, <2>5 DEF WriterStates
<1>5. ASSUME v = Emit(w, l)
      PROVE  /\ v \in WriterStates
             /\ v.output = out /\ v.lastKeyLine = w.lastKeyLine /\ v.sectionCurrent = w.sectionCurrent
             /\ v.parsingSection = w.parsingSection /\ v.continueToNextSection = w.continueToNextSection
  <2>1. v = [w EXCEPT !.output = out]
    BY <1>1, <1>2, <1>5 DEF Emit
  <2> QED BY <1>3, <2>1, WriterSays
<1> QED BY <1>1, <1>2, <1>4, <1>5

(* The output with the keys that the section t has and the file had not. *)
WithNewKeys(w, d, o) ==
    InsertAfter(w.output, w.lastKeyLine, KeyLines(Added(At(d, w.sectionCurrent), At(o, w.sectionCurrent))))

(* The keys that are new to a section are plain. *)
NewKeysFit(d, o, t) == \A k : Has(At(d, t), k) /\ ~Has(At(o, t), k) => k \in PlainKeys

LEMMA NewKeyLines ==
    ASSUME NEW d \in Structures, NEW o, NEW t, Has(d, t)
    PROVE  /\ KeyLines(Added(At(d, t), At(o, t))) \in Seq(Lines)
           /\ \A i \in DOMAIN KeyLines(Added(At(d, t), At(o, t))) :
                ~KeyLines(Added(At(d, t), At(o, t)))[i].byHand
           /\ NewKeysFit(d, o, t) =>
                \A i \in DOMAIN KeyLines(Added(At(d, t), At(o, t))) :
                   LET l == KeyLines(Added(At(d, t), At(o, t)))[i] IN
                   /\ l.type = "keyvalue"
                   /\ Has(At(d, t), l.name) /\ l.value = Trim[At(At(d, t), l.name)]
           /\ NewKeysFit(d, o, t) =>
                \A k : Has(At(d, t), k) /\ ~Has(At(o, t), k) =>
                   \E i \in DOMAIN KeyLines(Added(At(d, t), At(o, t))) :
                      LET l == KeyLines(Added(At(d, t), At(o, t)))[i] IN
                      l.name = k /\ l.value = Trim[At(At(d, t), k)]
<1>1. PICK c \in Collections : c = At(d, t)
  BY MapAt DEF Structures
<1>2. PICK a \in Collections :
        /\ a = Added(c, At(o, t))
        /\ \A i \in DOMAIN a : /\ Has(c, a[i].key) /\ ~Has(At(o, t), a[i].key)
                               /\ a[i].val = At(c, a[i].key)
        /\ \A k : Has(c, k) /\ ~Has(At(o, t), k) => \E i \in DOMAIN a : a[i].key = k
  BY AddedKeys
<1>3. PICK new \in Seq(Lines) :
        /\ new = KeyLines(a) /\ DOMAIN new = DOMAIN a
        /\ \A i \in DOMAIN a : new[i] = KeyLine(a[i].key, a[i].val)
  BY KeyLinesType
<1>4. \A i \in DOMAIN a : a[i].key \in Keys /\ a[i].val \in Values
  BY MapPositions DEF Collections
<1>5. \A i \in DOMAIN a : ~new[i].byHand
  BY <1>3, <1>4, MadeLines
<1>6. ASSUME NewKeysFit(d, o, t), NEW i \in DOMAIN a
      PROVE  new[i].type = "keyvalue" /\ new[i].name = a[i].key /\ new[i].value = Trim[At(c, a[i].key)]
  <2>1. a[i].key \in PlainKeys
    BY <1>1, <1>2, <1>6 DEF NewKeysFit
  <2> QED BY <1>2, <1>3, <1>4, <2>1, PlainLines
<1> QED BY <1>1, <1>2, <1>3, <1>5, <1>6

LEMMA WritesNewKeys ==
    ASSUME NEW w \in WriterStates, NEW d \in Structures, NEW o, NEW v, v = WriteNewKeys(w, d, o)
    PROVE  /\ v \in WriterStates
           /\ v.lastKeyLine = w.lastKeyLine /\ v.sectionCurrent = w.sectionCurrent
           /\ v.parsingSection = w.parsingSection /\ v.continueToNextSection = w.continueToNextSection
           /\ v.output = IF Has(d, w.sectionCurrent) /\ Has(o, w.sectionCurrent)
                         THEN WithNewKeys(w, d, o) ELSE w.output
<1>1. CASE ~(Has(d, w.sectionCurrent) /\ Has(o, w.sectionCurrent))
  BY <1>1 DEF WriteNewKeys
<1>2. CASE Has(d, w.sectionCurrent) /\ Has(o, w.sectionCurrent)
  <2>1. PICK out : out = WithNewKeys(w, d, o)
    OBVIOUS
  <2>2. v = [w EXCEPT !.output = out]
    BY <1>2, <2>1 DEF WriteNewKeys, WithNewKeys
  <2>3. PICK new \in Seq(Lines) : new = KeyLines(Added(At(d, w.sectionCurrent), At(o, w.sectionCurrent)))
    BY <1>2, NewKeyLines
  <2>4. PICK old \in Seq(Lines), p \in Nat : old = w.output /\ p = w.lastKeyLine /\ p \in 0 .. Len(old)
    BY WriterParts
  <2>5. PICK longer : longer = InsertAfter(old, p, new)
    OBVIOUS
  <2>6. out = longer
    BY <2>1, <2>3, <2>4, <2>5 DEF WithNewKeys
  <2>7. p \in 0 .. Len(old)
    BY <2>4
  <2>8. longer \in Seq(Lines) /\ Len(longer) = Len(old) + Len(new)
    BY <2>5, <2>7, InsertedLines
  <2>9. Len(old) \in Nat /\ Len(new) \in Nat
    BY LenProperties
  <2>10. w.lastKeyLine <= Len(out)
    BY <2>4, <2>6, <2>8, <2>9
  <2>11. /\ v \in WriterStates
         /\ v.output = out /\ v.lastKeyLine = w.lastKeyLine /\ v.sectionCurrent = w.sectionCurrent
         /\ v.parsingSection = w.parsingSection /\ v.continueToNextSection = w.continueToNextSection
    BY <2>2, <2>6, <2>8, <2>10, WriterSays
  <2> QED BY <1>2, <2>1, <2>11
<1> QED BY <1>1, <1>2

Ended(w, d, o) == IF w.parsingSection THEN WriteNewKeys(w, d, o) ELSE w

LEMMA EndedType ==
    ASSUME NEW w \in WriterStates, NEW d \in Structures, NEW o
    PROVE  Ended(w, d, o) \in WriterStates
BY WritesNewKeys DEF Ended

LEMMA WritesHeader ==
    ASSUME NEW w \in WriterStates, NEW d \in Structures, NEW o, NEW l \in Lines, l.type = "section",
           NEW v, v = WriteLine(w, l, d, o)
    PROVE  /\ v \in WriterStates /\ v.sectionCurrent = l.name
           /\ Has(d, l.name) =>
                /\ v.output = Append(Ended(w, d, o).output, l) /\ v.lastKeyLine = Len(Ended(w, d, o).output) + 1
                /\ v.parsingSection /\ ~v.continueToNextSection
           /\ ~Has(d, l.name) =>
                v.output = Ended(w, d, o).output /\ ~v.parsingSection /\ v.continueToNextSection
<1>1. PICK e \in WriterStates : e = Ended(w, d, o)
  BY EndedType
<1>2. /\ e \in [output : Seq(Lines), lastKeyLine : Nat, sectionCurrent : Sections \cup {NoName},
                parsingSection : BOOLEAN, continueToNextSection : BOOLEAN, discardNextEmpty : BOOLEAN]
      /\ e.lastKeyLine <= Len(e.output)
  BY WriterParts
<1>3. l.name \in Sections
  BY LineKinds
<1>4. v = WriteHeader(w, l, d, o)
  BY DEF WriteLine
<1>5. PICK a : a = [e EXCEPT !.sectionCurrent = l.name, !.parsingSection = Has(d, l.name)]
  OBVIOUS
<1>6. /\ a \in [output : Seq(Lines), lastKeyLine : Nat, sectionCurrent : Sections \cup {NoName},
                parsingSection : BOOLEAN, continueToNextSection : BOOLEAN, discardNextEmpty : BOOLEAN]
      /\ a.output = e.output /\ a.lastKeyLine = e.lastKeyLine /\ a.sectionCurrent = l.name
  <2>1. Has(d, l.name) \in BOOLEAN
    BY DEF Has
  <2> QED BY <1>2, <1>3, <1>5, <2>1
<1>7. CASE Has(d, l.name)
  <2>1. a.parsingSection
    BY <1>2, <1>5, <1>7
  <2>2. PICK b : b = [a EXCEPT !.continueToNextSection = FALSE, !.discardNextEmpty = FALSE]
    OBVIOUS
  <2>3. /\ b \in [output : Seq(Lines), lastKeyLine : Nat, sectionCurrent : Sections \cup {NoName},
                  parsingSection : BOOLEAN, continueToNextSection : BOOLEAN, discardNextEmpty : BOOLEAN]
        /\ b.output = e.output /\ b.lastKeyLine = e.lastKeyLine /\ b.sectionCurrent = l.name
        /\ b.parsingSection /\ ~b.continueToNextSection
    BY <1>6, <2>1, <2>2
  <2>4. b \in WriterStates
    BY <1>2, <2>3 DEF WriterStates
  <2>5. v = EmitKeyLine(b, l)
    BY <1>1, <1>4, <1>5, <1>7, <2>2 DEF WriteHeader, Ended
  <2>6. /\ v \in WriterStates
        /\ v.output = Append(b.output, l) /\ v.lastKeyLine = Len(b.output) + 1
        /\ v.sectionCurrent = b.sectionCurrent /\ v.parsingSection = b.parsingSection
        /\ v.continueToNextSection = b.continueToNextSection
    BY <2>4, <2>5, WriterEmits
  <2> QED BY <1>1, <1>7, <2>3, <2>6
<1>8. CASE ~Has(d, l.name)
  <2>1. ~a.parsingSection
    BY <1>2, <1>5, <1>8
  <2>2. PICK b : b = [a EXCEPT !.continueToNextSection = TRUE, !.discardNextEmpty = TRUE]
    OBVIOUS
  <2>3. /\ b \in [output : Seq(Lines), lastKeyLine : Nat, sectionCurrent : Sections \cup {NoName},
                  parsingSection : BOOLEAN, continueToNextSection : BOOLEAN, discardNextEmpty : BOOLEAN]
        /\ b.output = e.output /\ b.lastKeyLine = e.lastKeyLine /\ b.sectionCurrent = l.name
        /\ ~b.parsingSection /\ b.continueToNextSection
    BY <1>6, <2>1, <2>2
  <2>4. b \in WriterStates
    BY <1>2, <2>3 DEF WriterStates
  <2>5. v = b
    BY <1>1, <1>4, <1>5, <1>8, <2>2 DEF WriteHeader, Ended
  <2> QED BY <1>1, <1>8, <2>3, <2>4, <2>5
<1> QED BY <1>7, <1>8

(* A key line with the value its key has in the structure. *)
Updated(d, t, l) == UpdatedLine(l, At(At(d, t), l.name))

(* The line can be written over: it is plain, or its value is the same. *)
Fits(l, d) ==
    l.type = "keyvalue" =>
      \/ l.name \in PlainKeys /\ l.value \in PlainValues
      \/ \A s : HasKey(d, s, l.name) => At(At(d, s), l.name) = l.value

LEMMA PlainFits ==
    ASSUME PlainTexts
    PROVE  \A l \in Lines : \A d : Fits(l, d)
BY LineKinds DEF PlainTexts, Fits

LEMMA UpdatedType ==
    ASSUME NEW d \in Structures, NEW t, NEW l \in Lines, l.type = "keyvalue", Has(d, t), Has(At(d, t), l.name)
    PROVE  /\ Updated(d, t, l) \in Lines /\ Updated(d, t, l).byHand = l.byHand
           /\ Fits(l, d) => /\ Updated(d, t, l).type = "keyvalue" /\ Updated(d, t, l).name = l.name
                            /\ Updated(d, t, l).value = Trim[At(At(d, t), l.name)]
<1>1. At(d, t) \in Collections
  BY MapAt DEF Structures
<1>2. PICK v \in Values : v = At(At(d, t), l.name)
  BY <1>1, MapAt DEF Collections
<1>3. PICK to \in Read : to = Trim[v]
  BY DEF Read
<1>4. l.name \in Keys /\ l.value \in Read /\ Trim[l.value] = l.value /\ l.byHand \in BOOLEAN
  BY LineKinds
<1>5. CASE l.value = v
  <2>1. Updated(d, t, l) = l
    BY <1>2, <1>5 DEF Updated, UpdatedLine
  <2> QED BY <1>2, <1>4, <1>5, <2>1
<1>6. CASE l.value # v
  <2>1. PICK parsed \in Parses : parsed = ReplacedAs[l.name][l.value][to]
    BY <1>4, TextsAssumption
  <2>2. Updated(d, t, l) = AsLine(parsed, l.byHand)
    BY <1>2, <1>3, <1>6, <2>1 DEF Updated, UpdatedLine
  <2>3. ASSUME Fits(l, d) PROVE parsed = ParsedKey(l.name, to)
    <3>1. HasKey(d, t, l.name)
      BY DEF HasKey
    <3>2. l.name \in PlainKeys /\ l.value \in PlainValues
      BY <1>2, <1>6, <2>3, <3>1 DEF Fits
    <3> QED BY <1>4, <2>1, <3>2, PlainAssumption
  <2>4. ASSUME Fits(l, d) PROVE parsed.type = "keyvalue" /\ parsed.name = l.name /\ parsed.value = to
    BY <2>3, <2>4 DEF ParsedKey
  <2> QED BY <1>2, <1>3, <1>4, <2>2, <2>4, ParsedLines
<1> QED BY <1>5, <1>6

LEMMA WritesKey ==
    ASSUME NEW w \in WriterStates, NEW d \in Structures, NEW o, NEW l \in Lines, l.type = "keyvalue",
           ~w.continueToNextSection, Has(d, w.sectionCurrent), Has(At(d, w.sectionCurrent), l.name),
           NEW v, v = WriteLine(w, l, d, o)
    PROVE  /\ v \in WriterStates
           /\ v.output = Append(w.output, Updated(d, w.sectionCurrent, l)) /\ v.lastKeyLine = Len(w.output) + 1
           /\ v.sectionCurrent = w.sectionCurrent /\ v.parsingSection = w.parsingSection
           /\ v.continueToNextSection = w.continueToNextSection
<1>1. PICK x \in Lines : x = Updated(d, w.sectionCurrent, l)
  BY UpdatedType
<1>2. v = EmitKeyLine(w, x)
  BY <1>1 DEF WriteLine, WriteKey, Updated, HasKey
<1> QED BY <1>1, <1>2, WriterEmits

LEMMA WritesNoKey ==
    ASSUME NEW w \in WriterStates, NEW d \in Structures, NEW o, NEW l \in Lines, l.type = "keyvalue",
           ~(~w.continueToNextSection /\ Has(d, w.sectionCurrent) /\ Has(At(d, w.sectionCurrent), l.name))
    PROVE  WriteLine(w, l, d, o) = w
BY DEF WriteLine, WriteKey, HasKey

LEMMA WritesOther ==
    ASSUME NEW w \in WriterStates, NEW d, NEW o, NEW l \in Lines, l.type # "section", l.type # "keyvalue",
           NEW v, v = WriteLine(w, l, d, o)
    PROVE  /\ v \in WriterStates
           /\ v.lastKeyLine = w.lastKeyLine
           /\ v.sectionCurrent = w.sectionCurrent /\ v.parsingSection = w.parsingSection
           /\ v.continueToNextSection = w.continueToNextSection
           /\ (v.output = w.output /\ l.type = "none") \/ v.output = Append(w.output, l)
<1>1. v = WriteOther(w, l)
  BY DEF WriteLine
<1>2. CASE w.discardNextEmpty /\ l.type = "none"
  <2>1. v = [w EXCEPT !.discardNextEmpty = FALSE]
    BY <1>1, <1>2 DEF WriteOther
  <2>2. /\ w \in [output : Seq(Lines), lastKeyLine : Nat, sectionCurrent : Sections \cup {NoName},
                  parsingSection : BOOLEAN, continueToNextSection : BOOLEAN, discardNextEmpty : BOOLEAN]
        /\ w.lastKeyLine <= Len(w.output)
    BY WriterParts
  <2>3. /\ v \in [output : Seq(Lines), lastKeyLine : Nat, sectionCurrent : Sections \cup {NoName},
                  parsingSection : BOOLEAN, continueToNextSection : BOOLEAN, discardNextEmpty : BOOLEAN]
        /\ v.output = w.output /\ v.lastKeyLine = w.lastKeyLine /\ v.sectionCurrent = w.sectionCurrent
        /\ v.parsingSection = w.parsingSection /\ v.continueToNextSection = w.continueToNextSection
    BY <2>1, <2>2
  <2>4. v \in WriterStates
    BY <2>2, <2>3 DEF WriterStates
  <2> QED BY <1>2, <2>3, <2>4
<1>3. CASE ~(w.discardNextEmpty /\ l.type = "none")
  <2>1. v = Emit(w, l)
    BY <1>1, <1>3 DEF WriteOther
  <2> QED BY <2>1, WriterEmits
<1> QED BY <1>2, <1>3

LEMMA WriteLineType ==
    ASSUME NEW w \in WriterStates, NEW d \in Structures, NEW o, NEW l \in Lines
    PROVE  WriteLine(w, l, d, o) \in WriterStates
<1>1. CASE l.type = "section"
  BY <1>1, WritesHeader
<1>2. CASE l.type = "keyvalue"
  BY <1>2, WritesKey, WritesNoKey
<1>3. CASE l.type # "section" /\ l.type # "keyvalue"
  BY <1>3, WritesOther
<1> QED BY <1>1, <1>2, <1>3

LEMMA WriterStartType == WriterStart \in WriterStates
<1>1. <<>> \in Seq(Lines) /\ Len(<<>>) = 0
  BY EmptySeq
<1> QED BY <1>1 DEF WriterStates, WriterStart

(* The writer, line by line. *)
LEMMA WalkedSteps ==
    ASSUME NEW d \in Structures, NEW o, NEW lines \in Seq(Lines), NEW h \in [0 .. Len(lines) -> WriterStates],
           h[0] = WriterStart, \A i \in 1 .. Len(lines) : h[i] = WriteLine(h[i - 1], lines[i], d, o)
    PROVE  Walked(lines, d, o) = h[Len(lines)]
<1>1. PICK n \in Nat : n = Len(lines) /\ DOMAIN lines = 1 .. n
  BY LenProperties
<1>2. \A i \in 1 .. n : lines[i] \in Lines
  BY <1>1, ElementOfSeq
<1> DEFINE g == [p \in (1 .. n) \X WriterStates |-> WriteLine(p[2], lines[p[1]], d, o)]
           Recursion(F) == F = [p \in SUBSET (1 .. n) |->
                                  IF p = {} THEN WriterStart ELSE WriteLine(F[p \ {Max(p)}], lines[Max(p)], d, o)]
<1>3. \E F : Recursion(F)
  <2>1. g \in [(1 .. n) \X WriterStates -> WriterStates]
    BY <1>2, WriteLineType
  <2>2. PICK F \in [SUBSET (1 .. n) -> WriterStates] : Folding(F, WriterStart, n, g)
    <3> HIDE DEF g
    <3> QED BY <2>1, FoldExists, WriterStartType
  <2>3. ASSUME NEW p \in SUBSET (1 .. n), p # {} PROVE F[p] = WriteLine(F[p \ {Max(p)}], lines[Max(p)], d, o)
    <3>1. Max(p) \in 1 .. n
      BY <2>3, MaxIsMember
    <3>2. p \ {Max(p)} \in SUBSET (1 .. n) /\ F[p \ {Max(p)}] \in WriterStates
      BY <2>2
    <3>3. <<Max(p), F[p \ {Max(p)}]>> \in (1 .. n) \X WriterStates
      BY <3>1, <3>2
    <3>4. F[p] = g[<<Max(p), F[p \ {Max(p)}]>>]
      <4> HIDE DEF g
      <4> QED BY <2>2, <2>3 DEF Folding
    <3> QED BY <3>3, <3>4
  <2>4. F[{}] = WriterStart
    BY <2>2 DEF Folding
  <2>5. Recursion(F)
    BY <2>2, <2>3, <2>4
  <2> HIDE DEF Recursion
  <2> QED BY <2>5
<1>4. PICK F : F = CHOOSE G : Recursion(G)
  OBVIOUS
<1>5. Walked(lines, d, o) = F[1 .. n]
  BY <1>1, <1>4 DEF Walked, FoldLeft, MapThenFoldSet
<1>6. Recursion(F)
  <2> HIDE DEF Recursion
  <2> QED BY <1>3, <1>4
<1> DEFINE Q == {i \in Nat : i <= n => F[1 .. i] = h[i]}
<1>7. 0 \in Q
  <2>1. 1 .. 0 = {} /\ {} \in SUBSET (1 .. n)
    OBVIOUS
  <2>2. F[{}] = WriterStart
    BY <1>6, <2>1
  <2> QED BY <2>1, <2>2
<1>8. ASSUME NEW i \in Nat, i \in Q PROVE i + 1 \in Q
  <2> SUFFICES ASSUME i + 1 <= n PROVE F[1 .. i + 1] = h[i + 1]
    OBVIOUS
  <2>1. /\ Max(1 .. i + 1) = i + 1 /\ (1 .. i + 1) \ {i + 1} = 1 .. i /\ 1 .. i + 1 # {}
        /\ i + 1 \in 1 .. n /\ (i + 1) - 1 = i /\ i <= n /\ 1 .. i + 1 \in SUBSET (1 .. n)
    <3>1. (i + 1) - 1 = i /\ i + 1 # 0 /\ i + 1 \in 1 .. n /\ i <= n /\ 1 .. i + 1 \in SUBSET (1 .. n)
      OBVIOUS
    <3>2. PICK j \in Nat : j = i + 1 /\ j # 0 /\ j - 1 = i
      OBVIOUS
    <3>3. Max(1 .. j) = j /\ (1 .. j) \ {j} = 1 .. (j - 1) /\ 1 .. j # {}
      BY <3>2, Interval
    <3> QED BY <3>1, <3>2, <3>3, Zenon
  <2>2. F[1 .. i + 1] = WriteLine(F[1 .. i], lines[i + 1], d, o)
    <3>1. \A p \in SUBSET (1 .. n) : p # {} => F[p] = WriteLine(F[p \ {Max(p)}], lines[Max(p)], d, o)
      BY <1>6
    <3> HIDE DEF Recursion
    <3> QED BY <2>1, <3>1
  <2>3. h[i + 1] = WriteLine(h[i], lines[i + 1], d, o)
    BY <1>1, <2>1
  <2> QED BY <1>8, <2>1, <2>2, <2>3
<1> HIDE DEF Q
<1>9. n \in Q
  BY <1>7, <1>8, NumberInduction
<1> QED BY <1>1, <1>5, <1>9 DEF Q

LEMMA WalkedEmpty ==
    ASSUME NEW d \in Structures, NEW o
    PROVE  Walked(<<>>, d, o) = WriterStart
<1> DEFINE h == [i \in 0 .. 0 |-> WriterStart]
<1>1. /\ <<>> \in Seq(Lines) /\ Len(<<>>) = 0 /\ h \in [0 .. 0 -> WriterStates]
      /\ h[0] = WriterStart /\ 1 .. 0 = {}
  <2>1. /\ <<>> \in Seq(Lines) /\ Len(<<>>) = 0
    BY EmptySeq
  <2>2. WriterStart \in WriterStates
    BY WriterStartType
  <2>3. 0 \in 0 .. 0 /\ 1 .. 0 = {}
    OBVIOUS
  <2>4. h \in [0 .. 0 -> WriterStates]
    BY <2>2
  <2>5. h[0] = WriterStart
    BY <2>3
  <2> HIDE DEF h
  <2> QED BY <2>1, <2>3, <2>4, <2>5
<1> HIDE DEF h
<1>2. PICK e \in Seq(Lines) : e = <<>> /\ Len(e) = 0
  BY <1>1
<1>3. h \in [0 .. Len(e) -> WriterStates] /\ h[Len(e)] = WriterStart
  BY <1>1, <1>2
<1>4. \A i \in 1 .. Len(e) : h[i] = WriteLine(h[i - 1], e[i], d, o)
  BY <1>1, <1>2
<1>5. Walked(e, d, o) = h[Len(e)]
  BY <1>1, <1>3, <1>4, WalkedSteps
<1> QED BY <1>2, <1>3, <1>5

LEMMA WalkedAppend ==
    ASSUME NEW d \in Structures, NEW o, NEW lines \in Seq(Lines), NEW l \in Lines
    PROVE  /\ Walked(lines, d, o) \in WriterStates
           /\ Walked(Append(lines, l), d, o) = WriteLine(Walked(lines, d, o), l, d, o)
<1>1. PICK n \in Nat : n = Len(lines)
  BY LenProperties
<1>2. \A i \in 1 .. n : lines[i] \in Lines
  BY <1>1, ElementOfSeq
<1> DEFINE g == [p \in (1 .. n) \X WriterStates |-> WriteLine(p[2], lines[p[1]], d, o)]
<1>3. PICK h \in [0 .. n -> WriterStates] : Stepping(h, WriterStart, n, g)
  <2>1. g \in [(1 .. n) \X WriterStates -> WriterStates]
    BY <1>2, WriteLineType
  <2> HIDE DEF g
  <2> QED BY <2>1, WriterStartType, StepsExist
<1>4. h[0] = WriterStart /\ \A i \in 1 .. n : h[i] = WriteLine(h[i - 1], lines[i], d, o)
  <2>1. ASSUME NEW i \in 1 .. n PROVE h[i] = WriteLine(h[i - 1], lines[i], d, o)
    <3>1. i - 1 \in 0 .. n
      OBVIOUS
    <3>2. <<i, h[i - 1]>> \in (1 .. n) \X WriterStates
      BY <3>1
    <3>3. g[<<i, h[i - 1]>>] = WriteLine(h[i - 1], lines[i], d, o)
      BY <3>2
    <3> QED BY <1>3, <3>3 DEF Stepping
  <2> QED BY <1>3, <2>1 DEF Stepping
<1>5. Walked(lines, d, o) = h[n] /\ h[n] \in WriterStates
  <2>1. /\ h \in [0 .. Len(lines) -> WriterStates] /\ h[0] = WriterStart
        /\ \A i \in 1 .. Len(lines) : h[i] = WriteLine(h[i - 1], lines[i], d, o)
    BY <1>1, <1>4
  <2>2. Walked(lines, d, o) = h[Len(lines)]
    BY <2>1, WalkedSteps
  <2> QED BY <1>1, <2>2
<1> DEFINE longer == Append(lines, l)
           e == [i \in 0 .. n + 1 |-> IF i = n + 1 THEN WriteLine(h[n], l, d, o) ELSE h[i]]
<1>6. /\ longer \in Seq(Lines) /\ Len(longer) = n + 1
      /\ longer[n + 1] = l /\ \A i \in 1 .. n : longer[i] = lines[i]
  BY <1>1, AppendProperties
<1>7. e \in [0 .. n + 1 -> WriterStates] /\ e[0] = WriterStart /\ e[n + 1] = WriteLine(h[n], l, d, o)
  <2>1. WriteLine(h[n], l, d, o) \in WriterStates
    BY <1>5, WriteLineType
  <2>2. 0 \in 0 .. n + 1 /\ n + 1 \in 0 .. n + 1 /\ 0 # n + 1
    OBVIOUS
  <2> QED BY <1>4, <2>1, <2>2
<1>8. ASSUME NEW i \in 1 .. n + 1 PROVE e[i] = WriteLine(e[i - 1], longer[i], d, o)
  <2>1. CASE i = n + 1
    <3>1. e[i - 1] = h[n]
      BY <2>1
    <3> HIDE DEF e, longer
    <3> QED BY <1>6, <1>7, <2>1, <3>1
  <2>2. CASE i \in 1 .. n
    <3>1. i # n + 1 /\ i - 1 # n + 1 /\ i \in 0 .. n + 1 /\ i - 1 \in 0 .. n + 1
      BY <2>2
    <3>2. e[i] = h[i] /\ e[i - 1] = h[i - 1]
      BY <3>1
    <3> HIDE DEF e, longer
    <3> QED BY <1>4, <1>6, <2>2, <3>2
  <2>3. i = n + 1 \/ i \in 1 .. n
    OBVIOUS
  <2> QED BY <2>1, <2>2, <2>3
<1> HIDE DEF e, longer, g
<1>9. Walked(longer, d, o) = e[n + 1]
  BY <1>6, <1>7, <1>8, WalkedSteps
<1> QED BY <1>5, <1>7, <1>9 DEF longer

LEMMA WalkedType ==
    ASSUME NEW d \in Structures, NEW o, NEW lines \in Seq(Lines)
    PROVE  Walked(lines, d, o) \in WriterStates
<1>1. [type |-> "none", name |-> NoName, value |-> NoName, byHand |-> FALSE] \in Lines
  BY DEF Lines
<1> QED BY <1>1, WalkedAppend

(* Where the writer is, against where the reader was. *)
Flags(w, r, d) ==
    /\ w \in WriterStates
    /\ w.sectionCurrent = r.section
    /\ w.parsingSection <=> Has(d, w.sectionCurrent)
    /\ r.inSection => (w.continueToNextSection <=> ~Has(d, w.sectionCurrent))

LEMMA FlagsStep ==
    ASSUME NEW d \in Structures, NEW o, NEW w, NEW r, Flags(w, r, d), NEW l \in Lines, NEW q,
           NEW v, v = WriteLine(w, l, d, o), q.section = IF l.type = "section" THEN l.name ELSE r.section,
           l.type \in {"none", "comment"} => q.inSection = r.inSection,
           l.type \in {"section", "none", "comment"} \/ (l.type = "keyvalue" /\ r.inSection)
    PROVE  Flags(v, q, d)
<1>1. /\ w \in WriterStates /\ w.sectionCurrent = r.section
      /\ w.parsingSection <=> Has(d, w.sectionCurrent)
      /\ r.inSection => (w.continueToNextSection <=> ~Has(d, w.sectionCurrent))
  BY DEF Flags
<1>2. CASE l.type = "section"
  <2>1. /\ v \in WriterStates /\ v.sectionCurrent = l.name
        /\ Has(d, l.name) => v.parsingSection /\ ~v.continueToNextSection
        /\ ~Has(d, l.name) => ~v.parsingSection /\ v.continueToNextSection
    BY <1>1, <1>2, WritesHeader
  <2> QED BY <1>2, <2>1 DEF Flags
<1>3. CASE l.type = "keyvalue" /\ r.inSection
  <2>1. /\ v \in WriterStates /\ v.sectionCurrent = w.sectionCurrent /\ v.parsingSection = w.parsingSection
        /\ v.continueToNextSection = w.continueToNextSection
    BY <1>1, <1>3, WritesKey, WritesNoKey
  <2>2. q.section = r.section
    BY <1>3
  <2> QED BY <1>1, <1>3, <2>1, <2>2 DEF Flags
<1>4. CASE l.type \in {"none", "comment"}
  <2>1. l.type # "section" /\ l.type # "keyvalue" /\ q.section = r.section /\ q.inSection = r.inSection
    BY <1>4
  <2>2. /\ v \in WriterStates /\ v.sectionCurrent = w.sectionCurrent /\ v.parsingSection = w.parsingSection
        /\ v.continueToNextSection = w.continueToNextSection
    BY <1>1, <2>1, WritesOther
  <2> QED BY <1>1, <2>1, <2>2 DEF Flags
<1> QED BY <1>2, <1>3, <1>4

LEMMA Flagged ==
    ASSUME NEW d \in Structures, NEW o
    PROVE  \A lines \in Seq(Lines) : Flags(Walked(Reader(lines).kept, d, o), Reader(lines), d)
<1> DEFINE Q == {lines \in Seq(Lines) : Flags(Walked(Reader(lines).kept, d, o), Reader(lines), d)}
<1>1. <<>> \in Q
  <2>1. PICK r : r = Reader(<<>>)
    OBVIOUS
  <2>2. r.kept = <<>> /\ r.section = NoName /\ ~r.inSection
    BY <2>1, ReaderEmpty DEF ReaderStart
  <2>3. PICK w : w = Walked(<<>>, d, o)
    OBVIOUS
  <2>4. w \in WriterStates /\ w = WriterStart
    BY <2>3, WalkedEmpty, WriterStartType
  <2>5. w.sectionCurrent = NoName /\ ~w.parsingSection
    BY <2>4 DEF WriterStart
  <2>6. ~Has(d, NoName)
    BY NoNameAssumption, MapAt DEF Structures
  <2>7. Flags(w, r, d)
    BY <2>2, <2>4, <2>5, <2>6 DEF Flags
  <2> QED BY <2>1, <2>2, <2>3, <2>7, EmptySeq
<1>2. ASSUME NEW lines \in Seq(Lines), NEW l \in Lines, lines \in Q PROVE Append(lines, l) \in Q
  <2>1. PICK longer \in Seq(Lines) : longer = Append(lines, l)
    BY AppendProperties
  <2>2. PICK r \in ReaderStates : r = Reader(lines)
    BY ReaderAppend
  <2>3. PICK q \in ReaderStates : q = Reader(longer) /\ q = ReadLine(r, l)
    BY <2>1, <2>2, ReaderAppend, ReadLineType
  <2>4. PICK kept \in Seq(Lines) : kept = r.kept
    BY DEF ReaderStates
  <2>5. PICK w : w = Walked(kept, d, o)
    OBVIOUS
  <2>6. Flags(w, r, d)
    BY <1>2, <2>2, <2>4, <2>5
  <2>7. PICK v : v = WriteLine(w, l, d, o)
    OBVIOUS
  <2>8. v = Walked(Append(kept, l), d, o)
    BY <2>4, <2>5, <2>7, WalkedAppend
  <2>9. Flags(Walked(q.kept, d, o), q, d)
    <3>1. CASE l.type = "section"
      <4>1. q.kept = Append(kept, l) /\ q.section = l.name
        BY <2>3, <2>4, <3>1, ReadsSection
      <4>2. Flags(v, q, d)
        BY <2>6, <2>7, <3>1, <4>1, FlagsStep
      <4> QED BY <2>8, <4>1, <4>2
    <3>2. CASE l.type = "keyvalue" /\ r.inSection
      <4>1. q.kept = Append(kept, l) /\ q.section = r.section
        BY <2>3, <2>4, <3>2, ReadsKey
      <4>2. Flags(v, q, d)
        BY <2>6, <2>7, <3>2, <4>1, FlagsStep
      <4> QED BY <2>8, <4>1, <4>2
    <3>3. CASE l.type \in {"none", "comment"}
      <4>1. l.type # "section" /\ l.type # "keyvalue"
        BY <3>3
      <4>2. q.kept = Append(kept, l) /\ q.section = r.section /\ q.inSection = r.inSection
        BY <2>3, <2>4, <3>3, <4>1, ReadsOn
      <4>3. Flags(v, q, d)
        BY <2>6, <2>7, <3>3, <4>1, <4>2, FlagsStep
      <4> QED BY <2>8, <4>2, <4>3
    <3>4. CASE l.type \notin {"section", "none", "comment"} /\ ~(l.type = "keyvalue" /\ r.inSection)
      <4>1. q.kept = kept /\ q.section = r.section /\ q.inSection = r.inSection
        BY <2>3, <2>4, <3>4, ReadsOn
      <4> QED BY <2>5, <2>6, <4>1 DEF Flags
    <3> QED BY <3>1, <3>2, <3>3, <3>4
  <2> QED BY <2>1, <2>3, <2>9
<1> HIDE DEF Q
<1>3. Seq(Lines) \subseteq Q
  BY <1>1, <1>2, SequenceInduction
<1> QED BY <1>3 DEF Q

-----------------------------------------------------------------------------
(* What the writer has written of the lines it has walked over. *)

Carried(d, s, k) == Trim[At(At(d, s), k)]

Wrote(out, lines, d) ==
    /\ \A s : HeaderOf(out, s) <=> HeaderOf(lines, s) /\ Has(d, s)
    /\ \A s, k, v : Says(out, s, k, v) => HasKey(d, s, k) /\ v = Carried(d, s, k)
    /\ \A s, k, v : Says(lines, s, k, v) /\ HasKey(d, s, k) => Says(out, s, k, Carried(d, s, k))

(* The new keys of every section but t are there. *)
AddedBut(out, lines, d, o, t) ==
    \A s, k : HeaderOf(lines, s) /\ HasKey(d, s, k) /\ ~Has(At(o, s), k) /\ s # t
              => Says(out, s, k, Carried(d, s, k))

(* Where the new keys of the current section go. *)
Place(w, d) ==
    Has(d, w.sectionCurrent) =>
      /\ w.lastKeyLine \in 1 .. Len(w.output) /\ InSection(w.output, w.lastKeyLine, w.sectionCurrent)
      /\ \A i \in w.lastKeyLine + 1 .. Len(w.output) : w.output[i].type \in {"none", "comment"}

Walks(w, r, lines, d, o) ==
    /\ w \in WriterStates
    /\ w.sectionCurrent = r.section
    /\ w.parsingSection <=> Has(d, w.sectionCurrent)
    /\ r.inSection => (w.continueToNextSection <=> ~Has(d, w.sectionCurrent))
    /\ Place(w, d)
    /\ Wrote(w.output, lines, d)
    /\ AddedBut(w.output, lines, d, o, w.sectionCurrent)

LEMMA HeaderOfSection ==
    ASSUME NEW lines \in Seq(Lines), NEW i \in 0 .. Len(lines), NEW s, InSection(lines, i, s)
    PROVE  HeaderOf(lines, s)
<1>1. PICK n \in Nat : n = Len(lines) /\ DOMAIN lines = 1 .. n
  BY LenProperties
<1>2. PICK j \in 1 .. i : lines[j].type = "section" /\ lines[j].name = s
  BY DEF InSection
<1>3. j \in 1 .. n
  BY <1>1
<1> QED BY <1>1, <1>2, <1>3 DEF HeaderOf

LEMMA SectionOfLast ==
    ASSUME NEW lines \in Seq(Lines), NEW l \in Lines
    PROVE  /\ l.type = "section" => InSection(Append(lines, l), Len(lines) + 1, l.name)
           /\ l.type # "section" =>
                \A s : InSection(lines, Len(lines), s) => InSection(Append(lines, l), Len(lines) + 1, s)
<1>1. ASSUME l.type = "section" PROVE InSection(Append(lines, l), Len(lines) + 1, l.name)
  <2>1. InSection(Append(lines, l), Len(lines) + 1, l.name)
          <=> IF l.type = "section" THEN l.name = l.name ELSE InSection(lines, Len(lines), l.name)
    BY SectionOfAppended
  <2> QED BY <1>1, <2>1
<1>2. ASSUME l.type # "section", NEW s, InSection(lines, Len(lines), s)
      PROVE  InSection(Append(lines, l), Len(lines) + 1, s)
  <2>1. InSection(Append(lines, l), Len(lines) + 1, s)
          <=> IF l.type = "section" THEN l.name = s ELSE InSection(lines, Len(lines), s)
    BY SectionOfAppended
  <2> QED BY <1>2, <2>1
<1> QED BY <1>1, <1>2

(* The keys that are new to the sections of the file are plain, and every  *)
(* line of it can be written over.                                         *)
FitsNew(d, o) == \A s : Has(o, s) /\ Has(d, s) => NewKeysFit(d, o, s)
AllFit(lines, d) == \A i \in DOMAIN lines : Fits(lines[i], d)

(* A section ends. *)
LEMMA EndedWrites ==
    ASSUME NEW d \in Structures, NEW o, NEW lines \in Seq(Lines), NEW w, NEW r, Walks(w, r, lines, d, o),
           \A s : HeaderOf(lines, s) => Has(o, s), FitsNew(d, o),
           NEW e, e = WriteNewKeys(w, d, o) \/ e = Ended(w, d, o)
    PROVE  /\ e \in WriterStates
           /\ Wrote(e.output, lines, d)
           /\ \A t : AddedBut(e.output, lines, d, o, t)
<1>1. w \in WriterStates /\ (w.parsingSection <=> Has(d, w.sectionCurrent))
  BY DEF Walks
<1>2. PICK t : t = w.sectionCurrent
  OBVIOUS
<1>3. PICK out \in Seq(Lines) : out = w.output
  BY <1>1, WriterParts
<1>4. Wrote(out, lines, d) /\ AddedBut(out, lines, d, o, t)
  BY <1>2, <1>3 DEF Walks
<1>5. CASE ~Has(d, t)
  <2>1. WriteNewKeys(w, d, o) = w /\ Ended(w, d, o) = w
    BY <1>1, <1>2, <1>5 DEF WriteNewKeys, Ended
  <2>2. \A x : AddedBut(out, lines, d, o, x)
    BY <1>4, <1>5 DEF AddedBut, HasKey
  <2> QED BY <1>1, <1>3, <1>4, <2>1, <2>2
<1>6. CASE Has(d, t)
  <2>1. e = WriteNewKeys(w, d, o)
    BY <1>1, <1>2, <1>6 DEF Ended
  <2>2. PICK p \in Nat : /\ p = w.lastKeyLine /\ p \in 1 .. Len(out) /\ InSection(out, p, t)
                         /\ \A i \in p + 1 .. Len(out) : out[i].type \in {"none", "comment"}
    BY <1>1, <1>2, <1>3, <1>6, WriterParts DEF Walks, Place
  <2>3. Has(o, t)
    <3>1. p \in 0 .. Len(out)
      BY <2>2
    <3>2. HeaderOf(out, t)
      BY <2>2, <3>1, HeaderOfSection
    <3> QED BY <1>4, <3>2 DEF Wrote
  <2>4. PICK new \in Seq(Lines) : new = KeyLines(Added(At(d, t), At(o, t)))
    BY <1>6, NewKeyLines
  <2>5. /\ \A i \in DOMAIN new : /\ new[i].type = "keyvalue" /\ HasKey(d, t, new[i].name)
                                 /\ new[i].value = Carried(d, t, new[i].name)
        /\ \A k : HasKey(d, t, k) /\ ~Has(At(o, t), k) =>
             \E i \in DOMAIN new : new[i].name = k /\ new[i].value = Carried(d, t, k)
    <3>1. NewKeysFit(d, o, t)
      BY <1>6, <2>3 DEF FitsNew
    <3> QED BY <1>6, <2>4, <3>1, NewKeyLines DEF HasKey, Carried
  <2>6. PICK longer : longer = InsertAfter(out, p, new)
    OBVIOUS
  <2>7. e \in WriterStates /\ e.output = longer
    BY <1>1, <1>2, <1>3, <1>6, <2>1, <2>2, <2>3, <2>4, <2>6, WritesNewKeys DEF WithNewKeys
  <2>8. /\ \A s : HeaderOf(longer, s) <=> HeaderOf(out, s)
        /\ \A s, k, v : Says(longer, s, k, v)
                        <=> \/ Says(out, s, k, v)
                            \/ s = t /\ \E i \in DOMAIN new : new[i].name = k /\ new[i].value = v
    <3>1. \A i \in DOMAIN new : new[i].type = "keyvalue"
      BY <2>5
    <3>2. p \in 1 .. Len(out) /\ InSection(out, p, t) /\ \A i \in p + 1 .. Len(out) : out[i].type \in {"none", "comment"}
      BY <2>2
    <3>3. /\ \A s : HeaderOf(InsertAfter(out, p, new), s) <=> HeaderOf(out, s)
          /\ \A s, k, v : Says(InsertAfter(out, p, new), s, k, v)
                          <=> \/ Says(out, s, k, v)
                              \/ s = t /\ \E i \in DOMAIN new : new[i].name = k /\ new[i].value = v
      BY <3>1, <3>2, SaidByInserted
    <3> QED BY <2>6, <3>3
  <2>9. Wrote(longer, lines, d)
    <3>1. \A s : HeaderOf(longer, s) <=> HeaderOf(lines, s) /\ Has(d, s)
      BY <1>4, <2>8 DEF Wrote
    <3>2. ASSUME NEW s, NEW k, NEW v, Says(longer, s, k, v) PROVE HasKey(d, s, k) /\ v = Carried(d, s, k)
      BY <1>4, <2>5, <2>8, <3>2 DEF Wrote
    <3>3. ASSUME NEW s, NEW k, NEW v, Says(lines, s, k, v), HasKey(d, s, k)
          PROVE  Says(longer, s, k, Carried(d, s, k))
      BY <1>4, <2>8, <3>3 DEF Wrote
    <3> QED BY <3>1, <3>2, <3>3 DEF Wrote
  <2>10. ASSUME NEW x PROVE AddedBut(longer, lines, d, o, x)
    <3>1. ASSUME NEW s, NEW k, HeaderOf(lines, s), HasKey(d, s, k), ~Has(At(o, s), k)
          PROVE  Says(longer, s, k, Carried(d, s, k))
      <4>1. CASE s = t
        BY <2>5, <2>8, <3>1, <4>1
      <4>2. CASE s # t
        BY <1>4, <2>8, <3>1, <4>2 DEF AddedBut
      <4> QED BY <4>1, <4>2
    <3> QED BY <3>1 DEF AddedBut
  <2> QED BY <2>7, <2>9, <2>10
<1> QED BY <1>5, <1>6

LEMMA WalksHeader ==
    ASSUME NEW d \in Structures, NEW o, NEW lines \in Seq(Lines), NEW w, NEW r, Walks(w, r, lines, d, o),
           \A s : HeaderOf(lines, s) => Has(o, s), FitsNew(d, o),
           NEW l \in Lines, l.type = "section", NEW q, q.section = l.name,
           NEW v, v = WriteLine(w, l, d, o), NEW longer, longer = Append(lines, l)
    PROVE  Walks(v, q, longer, d, o)
<1>1. w \in WriterStates
  BY DEF Walks
<1>2. PICK e : e = Ended(w, d, o)
  OBVIOUS
<1>3. e \in WriterStates /\ Wrote(e.output, lines, d) /\ \A t : AddedBut(e.output, lines, d, o, t)
  BY <1>2, EndedWrites
<1>4. PICK out \in Seq(Lines) : out = e.output
  BY <1>3, WriterParts
<1>5. /\ Wrote(out, lines, d) /\ \A t : AddedBut(out, lines, d, o, t)
  BY <1>3, <1>4
<1>6. /\ \A s : HeaderOf(longer, s) <=> HeaderOf(lines, s) \/ l.name = s
      /\ \A s, k, x : Says(longer, s, k, x) <=> Says(lines, s, k, x)
  BY SaidByAppended
<1>7. v \in WriterStates /\ v.sectionCurrent = l.name
  BY <1>1, WritesHeader
<1>8. CASE Has(d, l.name)
  <2>1. v.output = Append(out, l) /\ v.lastKeyLine = Len(out) + 1 /\ v.parsingSection /\ ~v.continueToNextSection
    BY <1>1, <1>2, <1>4, <1>8, WritesHeader
  <2>2. PICK new \in Seq(Lines) : new = Append(out, l) /\ Len(new) = Len(out) + 1
    BY AppendProperties
  <2>3. /\ \A s : HeaderOf(new, s) <=> HeaderOf(out, s) \/ l.name = s
        /\ \A s, k, x : Says(new, s, k, x) <=> Says(out, s, k, x)
    BY <2>2, SaidByAppended
  <2>4. InSection(new, Len(new), l.name)
    BY <2>2, SectionOfLast
  <2>5. Place(v, d)
    <3>1. PICK n \in Nat : n = Len(out)
      BY LenProperties
    <3>2. n + 1 \in 1 .. n + 1 /\ (n + 1) + 1 .. n + 1 = {}
      OBVIOUS
    <3> QED BY <1>7, <2>1, <2>2, <2>4, <3>1, <3>2 DEF Place
  <2>6. Wrote(new, longer, d)
    <3>1. \A s : HeaderOf(new, s) <=> HeaderOf(longer, s) /\ Has(d, s)
      BY <1>5, <1>6, <1>8, <2>3 DEF Wrote
    <3>2. \A s, k, x : Says(new, s, k, x) => HasKey(d, s, k) /\ x = Carried(d, s, k)
      BY <1>5, <2>3 DEF Wrote
    <3>3. \A s, k, x : Says(longer, s, k, x) /\ HasKey(d, s, k) => Says(new, s, k, Carried(d, s, k))
      BY <1>5, <1>6, <2>3 DEF Wrote
    <3> QED BY <3>1, <3>2, <3>3 DEF Wrote
  <2>7. AddedBut(new, longer, d, o, l.name)
    BY <1>5, <1>6, <2>3 DEF AddedBut
  <2> QED BY <1>7, <1>8, <2>1, <2>2, <2>5, <2>6, <2>7 DEF Walks
<1>9. CASE ~Has(d, l.name)
  <2>1. v.output = out /\ ~v.parsingSection /\ v.continueToNextSection
    BY <1>1, <1>2, <1>4, <1>9, WritesHeader
  <2>2. Wrote(out, longer, d)
    <3>1. \A s : HeaderOf(out, s) <=> HeaderOf(longer, s) /\ Has(d, s)
      BY <1>5, <1>6, <1>9 DEF Wrote
    <3>2. \A s, k, x : Says(longer, s, k, x) /\ HasKey(d, s, k) => Says(out, s, k, Carried(d, s, k))
      BY <1>5, <1>6 DEF Wrote
    <3> QED BY <1>5, <3>1, <3>2 DEF Wrote
  <2>3. AddedBut(out, longer, d, o, l.name)
    BY <1>5, <1>6 DEF AddedBut
  <2>4. Place(v, d)
    BY <1>7, <1>9 DEF Place
  <2> QED BY <1>7, <1>9, <2>1, <2>2, <2>3, <2>4 DEF Walks
<1> QED BY <1>8, <1>9

LEMMA WalksKey ==
    ASSUME NEW d \in Structures, NEW o, NEW lines \in Seq(Lines), NEW w, NEW r, Walks(w, r, lines, d, o),
           NEW l \in Lines, l.type = "keyvalue", Fits(l, d), r.inSection,
           \A s : InSection(lines, Len(lines), s) <=> r.section = s,
           NEW q, q.section = r.section,
           NEW v, v = WriteLine(w, l, d, o), NEW longer, longer = Append(lines, l)
    PROVE  Walks(v, q, longer, d, o)
<1>1. /\ w \in WriterStates /\ w.sectionCurrent = r.section
      /\ w.parsingSection <=> Has(d, w.sectionCurrent)
      /\ w.continueToNextSection <=> ~Has(d, w.sectionCurrent)
  BY DEF Walks
<1>2. PICK t : t = w.sectionCurrent
  OBVIOUS
<1>3. PICK out \in Seq(Lines) : out = w.output
  BY <1>1, WriterParts
<1>4. Wrote(out, lines, d) /\ AddedBut(out, lines, d, o, t)
  BY <1>2, <1>3 DEF Walks
<1>5. /\ \A s : HeaderOf(longer, s) <=> HeaderOf(lines, s)
      /\ \A s, k, x : Says(longer, s, k, x)
                      <=> Says(lines, s, k, x) \/ (l.name = k /\ l.value = x /\ s = t)
  <2>1. /\ \A s : HeaderOf(Append(lines, l), s)
                  <=> HeaderOf(lines, s) \/ (l.type = "section" /\ l.name = s)
        /\ \A s, k, x : Says(Append(lines, l), s, k, x)
                        <=> \/ Says(lines, s, k, x)
                            \/ /\ l.type = "keyvalue" /\ l.name = k /\ l.value = x
                               /\ InSection(lines, Len(lines), s)
    BY SaidByAppended
  <2>2. \A s : InSection(lines, Len(lines), s) <=> s = t
    BY <1>1, <1>2
  <2> QED BY <2>1, <2>2
<1>6. CASE HasKey(d, t, l.name)
  <2>1. PICK u \in Lines : /\ u = Updated(d, t, l) /\ u.type = "keyvalue" /\ u.name = l.name
                           /\ u.value = Carried(d, t, l.name)
    BY <1>6, UpdatedType DEF HasKey, Carried
  <2>2. /\ v \in WriterStates
        /\ v.output = Append(out, u) /\ v.lastKeyLine = Len(out) + 1
        /\ v.sectionCurrent = t /\ v.parsingSection = w.parsingSection
        /\ v.continueToNextSection = w.continueToNextSection
    BY <1>1, <1>2, <1>3, <1>6, <2>1, WritesKey DEF HasKey
  <2>3. PICK new \in Seq(Lines) : new = Append(out, u) /\ Len(new) = Len(out) + 1
    BY AppendProperties
  <2>4. InSection(out, Len(out), t)
    <3>1. PICK p \in Nat, n \in Nat : /\ p = w.lastKeyLine /\ n = Len(out) /\ p \in 1 .. n /\ InSection(out, p, t)
                                      /\ \A i \in p + 1 .. n : out[i].type \in {"none", "comment"}
      BY <1>1, <1>2, <1>3, <1>6, WriterParts DEF Walks, Place, HasKey
    <3>2. p <= n
      BY <3>1
    <3>3. \A i \in p + 1 .. n : out[i].type # "section"
      <4>1. "none" # "section" /\ "comment" # "section"
        OBVIOUS
      <4> QED BY ONLY <3>1, <4>1
    <3> QED BY <3>1, <3>2, <3>3, SectionExtends
  <2>5. \A s : InSection(out, Len(out), s) <=> s = t
    BY <2>4, OneSection, LenProperties
  <2>6. /\ \A s : HeaderOf(new, s) <=> HeaderOf(out, s)
        /\ \A s, k, x : Says(new, s, k, x)
                        <=> Says(out, s, k, x) \/ (l.name = k /\ Carried(d, t, l.name) = x /\ s = t)
    <3>1. /\ \A s : HeaderOf(new, s) <=> HeaderOf(out, s) \/ (u.type = "section" /\ u.name = s)
          /\ \A s, k, x : Says(new, s, k, x)
                          <=> \/ Says(out, s, k, x)
                              \/ /\ u.type = "keyvalue" /\ u.name = k /\ u.value = x
                                 /\ InSection(out, Len(out), s)
      BY <2>3, SaidByAppended
    <3> QED BY <2>1, <2>5, <3>1
  <2>7. InSection(new, Len(new), t)
    BY <2>1, <2>3, <2>4, SectionOfLast
  <2>8. Place(v, d)
    <3>1. PICK n \in Nat : n = Len(out)
      BY LenProperties
    <3>2. n + 1 \in 1 .. n + 1 /\ (n + 1) + 1 .. n + 1 = {}
      OBVIOUS
    <3> QED BY <2>2, <2>3, <2>7, <3>1, <3>2 DEF Place
  <2>9. Wrote(new, longer, d)
    <3>1. \A s : HeaderOf(new, s) <=> HeaderOf(longer, s) /\ Has(d, s)
      BY <1>4, <1>5, <2>6 DEF Wrote
    <3>2. ASSUME NEW s, NEW k, NEW x, Says(new, s, k, x) PROVE HasKey(d, s, k) /\ x = Carried(d, s, k)
      BY <1>4, <1>6, <2>6, <3>2 DEF Wrote
    <3>3. ASSUME NEW s, NEW k, NEW x, Says(longer, s, k, x), HasKey(d, s, k) PROVE Says(new, s, k, Carried(d, s, k))
      BY <1>4, <1>5, <2>6, <3>3 DEF Wrote
    <3> QED BY <3>1, <3>2, <3>3 DEF Wrote
  <2>10. AddedBut(new, longer, d, o, t)
    BY <1>4, <1>5, <2>6 DEF AddedBut
  <2> QED BY <1>1, <1>2, <2>2, <2>3, <2>8, <2>9, <2>10 DEF Walks
<1>7. CASE ~HasKey(d, t, l.name)
  <2>1. v = w
    BY <1>1, <1>2, <1>7, WritesNoKey DEF HasKey
  <2>2. Wrote(out, longer, d)
    BY <1>4, <1>5, <1>7 DEF Wrote
  <2>3. AddedBut(out, longer, d, o, t)
    BY <1>4, <1>5 DEF AddedBut
  <2> QED BY <1>1, <1>2, <1>3, <2>1, <2>2, <2>3 DEF Walks
<1> QED BY <1>6, <1>7

LEMMA WalksOther ==
    ASSUME NEW d \in Structures, NEW o, NEW lines \in Seq(Lines), NEW w, NEW r, Walks(w, r, lines, d, o),
           NEW l \in Lines, l.type \in {"none", "comment"},
           NEW q, q.section = r.section, q.inSection = r.inSection,
           NEW v, v = WriteLine(w, l, d, o), NEW longer, longer = Append(lines, l)
    PROVE  Walks(v, q, longer, d, o)
<1>1. /\ w \in WriterStates /\ w.sectionCurrent = r.section
      /\ w.parsingSection <=> Has(d, w.sectionCurrent)
      /\ r.inSection => (w.continueToNextSection <=> ~Has(d, w.sectionCurrent))
      /\ Place(w, d)
  BY DEF Walks
<1>2. PICK t : t = w.sectionCurrent
  OBVIOUS
<1>3. PICK out \in Seq(Lines) : out = w.output
  BY <1>1, WriterParts
<1>4. Wrote(out, lines, d) /\ AddedBut(out, lines, d, o, t)
  BY <1>2, <1>3 DEF Walks
<1>5. /\ \A s : HeaderOf(longer, s) <=> HeaderOf(lines, s)
      /\ \A s, k, x : Says(longer, s, k, x) <=> Says(lines, s, k, x)
  BY SaidByAppended
<1>6. /\ v \in WriterStates
      /\ v.lastKeyLine = w.lastKeyLine
      /\ v.sectionCurrent = t /\ v.parsingSection = w.parsingSection
      /\ v.continueToNextSection = w.continueToNextSection
      /\ v.output = out \/ v.output = Append(out, l)
  BY <1>1, <1>2, <1>3, WritesOther
<1>7. Wrote(out, longer, d) /\ AddedBut(out, longer, d, o, t)
  BY <1>4, <1>5 DEF Wrote, AddedBut
<1>8. CASE v.output = out
  <2>1. Place(v, d)
    BY <1>1, <1>2, <1>3, <1>6, <1>8 DEF Place
  <2> QED BY <1>1, <1>2, <1>6, <1>7, <1>8, <2>1 DEF Walks
<1>9. CASE v.output = Append(out, l)
  <2>1. PICK new \in Seq(Lines) : new = Append(out, l) /\ Len(new) = Len(out) + 1
    BY AppendProperties
  <2>2. /\ \A s : HeaderOf(new, s) <=> HeaderOf(out, s)
        /\ \A s, k, x : Says(new, s, k, x) <=> Says(out, s, k, x)
    BY <2>1, SaidByAppended
  <2>3. ASSUME Has(d, t)
        PROVE  /\ w.lastKeyLine \in 1 .. Len(new) /\ InSection(new, w.lastKeyLine, t)
               /\ \A i \in w.lastKeyLine + 1 .. Len(new) : new[i].type \in {"none", "comment"}
    <3>1. PICK p \in Nat, n \in Nat : /\ p = w.lastKeyLine /\ n = Len(out) /\ p \in 1 .. n /\ InSection(out, p, t)
                                      /\ \A i \in p + 1 .. n : out[i].type \in {"none", "comment"}
      BY <1>1, <1>2, <1>3, <2>3, WriterParts DEF Place
    <3>2. p \in 0 .. n /\ p \in 1 .. n + 1
      BY ONLY <3>1
    <3>5. \A i \in p + 1 .. n + 1 : (i \in p + 1 .. n /\ i \in 1 .. n) \/ i = n + 1
      BY ONLY p \in Nat, n \in Nat
    <3>6. new[n + 1] = l /\ \A i \in 1 .. n : new[i] = out[i]
      BY <2>1, <3>1, AppendProperties
    <3>3. InSection(new, p, t)
      BY <2>1, <3>1, <3>2, SectionOfAppended
    <3>4. \A i \in p + 1 .. n + 1 : new[i].type \in {"none", "comment"}
      BY <3>1, <3>5, <3>6
    <3> QED BY <2>1, <3>1, <3>2, <3>3, <3>4
  <2>4. Place(v, d)
    BY <1>6, <1>9, <2>1, <2>3 DEF Place
  <2>5. Wrote(new, longer, d) /\ AddedBut(new, longer, d, o, t)
    BY <1>7, <2>2 DEF Wrote, AddedBut
  <2> QED BY <1>1, <1>2, <1>6, <1>9, <2>1, <2>4, <2>5 DEF Walks
<1> QED BY <1>6, <1>8, <1>9

LEMMA AllFitAppended ==
    ASSUME NEW lines \in Seq(Lines), NEW l \in Lines, NEW d, AllFit(Append(lines, l), d)
    PROVE  AllFit(lines, d) /\ Fits(l, d)
<1>1. PICK n \in Nat : n = Len(lines) /\ DOMAIN lines = 1 .. n
  BY LenProperties
<1>2. PICK longer : longer = Append(lines, l)
  OBVIOUS
<1>3. /\ longer[n + 1] = l /\ \A i \in 1 .. n : longer[i] = lines[i]
      /\ DOMAIN longer = 1 .. n + 1
  BY <1>1, <1>2, AppendProperties, LenProperties
<1>4. 1 .. n \subseteq 1 .. n + 1 /\ n + 1 \in 1 .. n + 1
  OBVIOUS
<1>5. \A i \in 1 .. n + 1 : Fits(longer[i], d)
  BY <1>2, <1>3 DEF AllFit
<1> QED BY <1>1, <1>3, <1>4, <1>5 DEF AllFit

LEMMA Walking ==
    ASSUME NEW d \in Structures, NEW o, FitsNew(d, o)
    PROVE  \A lines \in Seq(Lines) :
              (\A s : HeaderOf(lines, s) => Has(o, s)) /\ AllFit(lines, d)
              => Walks(Walked(Reader(lines).kept, d, o), Reader(lines), lines, d, o)
<1> DEFINE Known(lines) == (\A s : HeaderOf(lines, s) => Has(o, s)) /\ AllFit(lines, d)
           Goal(lines) == Walks(Walked(Reader(lines).kept, d, o), Reader(lines), lines, d, o)
           Q == {lines \in Seq(Lines) : Known(lines) => Goal(lines)}
<1>1. <<>> \in Q
  <2>1. PICK r : r = Reader(<<>>)
    OBVIOUS
  <2>2. r.kept = <<>> /\ r.section = NoName /\ ~r.inSection
    BY <2>1, ReaderEmpty DEF ReaderStart
  <2>3. PICK w : w = Walked(<<>>, d, o)
    OBVIOUS
  <2>4. w \in WriterStates /\ w = WriterStart
    BY <2>3, WalkedEmpty, WriterStartType
  <2>5. w.output = <<>> /\ w.sectionCurrent = NoName /\ ~w.parsingSection
    BY <2>4 DEF WriterStart
  <2>6. ~Has(d, NoName)
    BY NoNameAssumption, MapAt DEF Structures
  <2>7. \A s, k, v : ~HeaderOf(<<>>, s) /\ ~Says(<<>>, s, k, v)
    BY DEF HeaderOf, Says
  <2>8. Wrote(<<>>, <<>>, d) /\ AddedBut(<<>>, <<>>, d, o, NoName)
    BY <2>7 DEF Wrote, AddedBut
  <2>9. Place(w, d)
    BY <2>5, <2>6 DEF Place
  <2>10. Walks(w, r, <<>>, d, o)
    BY <2>2, <2>4, <2>5, <2>6, <2>8, <2>9 DEF Walks
  <2> QED BY <2>1, <2>2, <2>3, <2>10, EmptySeq
<1>2. ASSUME NEW lines \in Seq(Lines), NEW l \in Lines, Known(lines) => Goal(lines), Known(Append(lines, l))
      PROVE  Goal(Append(lines, l))
  <2>1. PICK longer \in Seq(Lines) : longer = Append(lines, l)
    BY AppendProperties
  <2>2. PICK r \in ReaderStates : r = Reader(lines)
    BY ReaderAppend
  <2>3. PICK q \in ReaderStates : q = Reader(longer) /\ q = ReadLine(r, l)
    BY <2>1, <2>2, ReaderAppend, ReadLineType
  <2>4. PICK kept \in Seq(Lines) : kept = r.kept
    BY DEF ReaderStates
  <2>5. PICK w \in WriterStates : w = Walked(kept, d, o)
    BY <2>4, WalkedAppend
  <2>6. /\ \A s : HeaderOf(lines, s) => Has(o, s)
        /\ AllFit(lines, d) /\ Fits(l, d)
    BY <1>2, SaidByAppended, AllFitAppended
  <2>7. Walks(w, r, lines, d, o)
    BY <1>2, <2>2, <2>4, <2>5, <2>6
  <2>8. PICK v : v = WriteLine(w, l, d, o)
    OBVIOUS
  <2>9. v = Walked(Append(kept, l), d, o)
    BY <2>4, <2>5, <2>8, WalkedAppend
  <2>10. CASE l.type = "section"
    <3>1. q.kept = Append(kept, l) /\ q.section = l.name
      BY <2>3, <2>4, <2>10, ReadsSection
    <3>2. Walks(v, q, longer, d, o)
      BY <2>1, <2>6, <2>7, <2>8, <2>10, <3>1, WalksHeader
    <3> QED BY <2>1, <2>3, <2>9, <3>1, <3>2
  <2>11. CASE l.type = "keyvalue" /\ r.inSection
    <3>1. q.kept = Append(kept, l) /\ q.section = r.section
      BY <2>3, <2>4, <2>11, ReadsKey
    <3>2. \A s : InSection(lines, Len(lines), s) <=> r.section = s
      BY <2>2, <2>11, ReaderFollows DEF ReaderInv
    <3>3. Walks(v, q, longer, d, o)
      BY <2>1, <2>6, <2>7, <2>8, <2>11, <3>1, <3>2, WalksKey
    <3> QED BY <2>1, <2>3, <2>9, <3>1, <3>3
  <2>12. CASE l.type \in {"none", "comment"}
    <3>1. q.kept = Append(kept, l) /\ q.section = r.section /\ q.inSection = r.inSection
      <4>1. l.type # "section" /\ l.type # "keyvalue"
        BY <2>12
      <4> QED BY <2>3, <2>4, <2>12, <4>1, ReadsOn
    <3>2. Walks(v, q, longer, d, o)
      BY <2>1, <2>7, <2>8, <2>12, <3>1, WalksOther
    <3> QED BY <2>1, <2>3, <2>9, <3>1, <3>2
  <2>13. CASE l.type \notin {"section", "none", "comment"} /\ ~(l.type = "keyvalue" /\ r.inSection)
    <3>1. q.kept = kept /\ q.section = r.section /\ q.inSection = r.inSection
      BY <2>3, <2>4, <2>13, ReadsOn
    <3>2. ASSUME NEW s
          PROVE  /\ HeaderOf(longer, s) <=> HeaderOf(lines, s)
                 /\ \A k, x : Says(longer, s, k, x) <=> Says(lines, s, k, x)
      <4>1. l.type = "keyvalue" => ~InSection(lines, Len(lines), s)
        BY <2>2, <2>13, ReaderFollows DEF ReaderInv
      <4> QED BY <2>1, <2>13, <4>1, SaidByAppended
    <3>3. Wrote(w.output, longer, d) /\ AddedBut(w.output, longer, d, o, w.sectionCurrent)
      BY <2>7, <3>2 DEF Walks, Wrote, AddedBut
    <3>4. Walks(w, q, longer, d, o)
      BY <2>7, <3>1, <3>3 DEF Walks
    <3> QED BY <2>1, <2>3, <2>5, <3>1, <3>4
  <2> QED BY <2>10, <2>11, <2>12, <2>13
<1>3. ASSUME NEW lines \in Seq(Lines), NEW l \in Lines, lines \in Q PROVE Append(lines, l) \in Q
  <2> HIDE DEF Known, Goal
  <2> QED BY <1>2, <1>3, AppendProperties
<1> HIDE DEF Q
<1>4. Seq(Lines) \subseteq Q
  BY <1>1, <1>3, SequenceInduction
<1> QED BY <1>4 DEF Q

-----------------------------------------------------------------------------
(* What is generated. *)

LEMMA MapInduction ==
    ASSUME NEW K, NEW V, NEW Q, <<>> \in Q,
           \A m \in Maps(K, V), k \in K, v \in V :
              m \in Q /\ ~Has(m, k) => Append(m, [key |-> k, val |-> v]) \in Q
    PROVE  Maps(K, V) \subseteq Q
<1> DEFINE T == {m \in Seq(Pairs(K, V)) : m \in Maps(K, V) => m \in Q}
<1>1. <<>> \in T
  BY EmptySeq
<1>2. ASSUME NEW m \in Seq(Pairs(K, V)), NEW x \in Pairs(K, V), m \in T PROVE Append(m, x) \in T
  <2>1. PICK longer \in Seq(Pairs(K, V)) : longer = Append(m, x)
    BY AppendProperties
  <2>2. ASSUME longer \in Maps(K, V) PROVE longer \in Q
    <3>1. PICK n \in Nat : n = Len(m) /\ DOMAIN m = 1 .. n
      BY LenProperties
    <3>2. /\ DOMAIN longer = 1 .. n + 1 /\ longer[n + 1] = x
          /\ \A i \in 1 .. n : longer[i] = m[i] /\ i \in 1 .. n + 1 /\ i # n + 1
      BY <2>1, <3>1, AppendProperties, LenProperties
    <3>3. \A i, j \in 1 .. n + 1 : longer[i].key = longer[j].key => i = j
      BY <2>2, <3>2 DEF Maps
    <3>4. m \in Maps(K, V)
      BY <3>1, <3>2, <3>3 DEF Maps
    <3>5. ~Has(m, x.key)
      <4>1. n + 1 \in 1 .. n + 1
        OBVIOUS
      <4> QED BY <3>1, <3>2, <3>3, <4>1 DEF Has
    <3>6. x.key \in K /\ x.val \in V /\ x = [key |-> x.key, val |-> x.val]
      BY DEF Pairs
    <3> QED BY <1>2, <2>1, <3>4, <3>5, <3>6
  <2> QED BY <2>1, <2>2
<1> HIDE DEF T
<1>3. Seq(Pairs(K, V)) \subseteq T
  BY <1>1, <1>2, SequenceInduction
<1> QED BY <1>3 DEF T, Maps

LEMMA MapAdded ==
    ASSUME NEW K, NEW V, NEW m \in Maps(K, V), NEW old
    PROVE  /\ Added(m, old) \in Maps(K, V)
           /\ \A k : Has(Added(m, old), k) <=> Has(m, k) /\ ~Has(old, k)
           /\ \A k : Has(Added(m, old), k) => At(Added(m, old), k) = At(m, k)
<1>1. PICK set : set = {e \in ToSet(m) : ~Has(old, e.key)}
  OBVIOUS
<1>2. PICK a : a = Only(m, set)
  OBVIOUS
<1>3. Added(m, old) = a
  BY <1>1, <1>2 DEF Added
<1>4. /\ a \in Maps(K, V)
      /\ \A i \in DOMAIN a : a[i] \in set
      /\ \A i \in DOMAIN m : m[i] \in set => \E j \in DOMAIN a : a[j] = m[i]
  BY <1>2, MapOnly
<1>5. ASSUME NEW k, Has(a, k) PROVE Has(m, k) /\ ~Has(old, k) /\ At(a, k) = At(m, k)
  <2>1. PICK i \in DOMAIN a : a[i].key = k /\ a[i].val = At(a, k)
    BY <1>4, <1>5, MapAt
  <2>2. PICK j \in DOMAIN m : a[i] = m[j] /\ ~Has(old, m[j].key)
    BY <1>1, <1>4 DEF ToSet
  <2> QED BY <2>1, <2>2, MapPair
<1>6. ASSUME NEW k, Has(m, k), ~Has(old, k) PROVE Has(a, k)
  <2>1. PICK j \in DOMAIN m : m[j].key = k
    BY <1>6 DEF Has
  <2>2. m[j] \in set
    BY <1>1, <1>6, <2>1 DEF ToSet
  <2> QED BY <1>4, <2>1, <2>2 DEF Has
<1> QED BY <1>3, <1>4, <1>5, <1>6

LEMMA InsertedLast ==
    ASSUME NEW lines \in Seq(Lines), NEW new \in Seq(Lines)
    PROVE  InsertAfter(lines, Len(lines), new) = lines \o new
<1>1. PICK n \in Nat, m \in Nat : n = Len(lines) /\ m = Len(new)
  BY LenProperties
<1>2. PICK a : a = InsertAfter(lines, n, new)
  OBVIOUS
<1>3. PICK b : b = lines \o new
  OBVIOUS
<1>4. /\ a \in Seq(Lines) /\ Len(a) = n + m
      /\ \A i \in 1 .. n : a[i] = lines[i]
      /\ \A i \in 1 .. m : a[n + i] = new[i]
  <2>1. n \in 0 .. Len(lines)
    BY <1>1
  <2> QED BY <1>1, <1>2, <2>1, InsertedLines
<1>5. /\ b \in Seq(Lines) /\ Len(b) = n + m
      /\ \A i \in 1 .. n + m : b[i] = IF i <= n THEN lines[i] ELSE new[i - n]
  BY <1>1, <1>3, ConcatProperties
<1>6. ASSUME NEW i \in 1 .. n + m PROVE a[i] = b[i]
  <2>1. CASE i <= n
    <3>1. i \in 1 .. n
      BY <2>1
    <3> QED BY <1>4, <1>5, <2>1, <3>1
  <2>2. CASE ~(i <= n)
    <3>1. i - n \in 1 .. m /\ n + (i - n) = i
      BY <2>2
    <3>2. a[n + (i - n)] = new[i - n]
      BY <1>4, <3>1
    <3> QED BY <1>5, <2>2, <3>1, <3>2
  <2> QED BY <2>1, <2>2
<1>7. a = b
  BY <1>4, <1>5, <1>6, SeqEqual
<1> QED BY <1>1, <1>2, <1>3, <1>7

SectionLines(t, c) == <<SectionLine(t)>> \o KeyLines(c)

LEMMA SectionLinesType ==
    ASSUME NEW t \in Sections, NEW c \in Collections
    PROVE  SectionLines(t, c) \in Seq(Lines)
<1>1. PICK l \in Lines : l = SectionLine(t)
  BY MadeLines
<1>2. PICK new \in Seq(Lines) : new = KeyLines(c)
  BY KeyLinesType
<1>3. <<l>> \in Seq(Lines)
  OBVIOUS
<1>4. <<l>> \o new \in Seq(Lines)
  BY <1>3, ConcatProperties
<1> QED BY <1>1, <1>2, <1>4 DEF SectionLines

LEMMA SaidBySection ==
    ASSUME NEW lines \in Seq(Lines), NEW t \in Sections, NEW c \in Collections,
           t \in PlainSections, \A k : Has(c, k) => k \in PlainKeys
    PROVE  /\ SectionLines(t, c) \in Seq(Lines) /\ lines \o SectionLines(t, c) \in Seq(Lines)
           /\ \A s : HeaderOf(lines \o SectionLines(t, c), s) <=> HeaderOf(lines, s) \/ s = t
           /\ \A s, k, v : Says(lines \o SectionLines(t, c), s, k, v)
                           <=> Says(lines, s, k, v) \/ (s = t /\ Has(c, k) /\ v = Trim[At(c, k)])
<1>1. PICK l \in Lines : l = SectionLine(t) /\ l.type = "section" /\ l.name = t
  BY MadeLines, PlainLines
<1>2. PICK new \in Seq(Lines) : /\ new = KeyLines(c) /\ DOMAIN new = DOMAIN c
                                /\ \A i \in DOMAIN c : new[i] = KeyLine(c[i].key, c[i].val)
  BY KeyLinesType
<1>3. \A i \in DOMAIN new : /\ new[i].type = "keyvalue" /\ new[i].name = c[i].key
                            /\ new[i].value = Trim[c[i].val]
  <2>1. \A i \in DOMAIN c : c[i].key \in Keys /\ c[i].val \in Values /\ Has(c, c[i].key)
    BY MapPositions, MapPair DEF Collections
  <2> QED BY <1>2, <2>1, PlainLines
<1>4. <<l>> \in Seq(Lines)
  OBVIOUS
<1>5. PICK head \in Seq(Lines) : head = Append(lines, l) /\ Len(head) = Len(lines) + 1
  BY AppendProperties
<1>6. SectionLines(t, c) = <<l>> \o new /\ <<l>> \o new \in Seq(Lines)
  BY <1>1, <1>2, <1>4, ConcatProperties DEF SectionLines
<1>7. lines \o (<<l>> \o new) = head \o new /\ head \o new \in Seq(Lines)
  <2>1. lines \o (<<l>> \o new) = (lines \o <<l>>) \o new
    BY <1>4, ConcatAssociative
  <2>2. lines \o <<l>> = head
    BY <1>5, AppendIsConcat
  <2> QED BY <2>1, <2>2, ConcatProperties
<1>8. PICK longer : longer = InsertAfter(head, Len(head), new)
  OBVIOUS
<1>9. longer = head \o new
  BY <1>8, InsertedLast
<1>10. PICK n \in Nat : n = Len(head) /\ n \in 1 .. n
  <2>1. Len(lines) \in Nat
    BY LenProperties
  <2>2. Len(lines) + 1 \in Nat /\ Len(lines) + 1 \in 1 .. Len(lines) + 1
    BY <2>1
  <2> QED BY <1>5, <2>2
<1>11. InSection(head, n, t)
  BY <1>1, <1>5, <1>10, SectionOfLast
<1>12. \A i \in n + 1 .. n : head[i].type \in {"none", "comment"}
  BY <1>10
<1>13. /\ \A s : HeaderOf(longer, s) <=> HeaderOf(head, s)
       /\ \A s, k, v : Says(longer, s, k, v)
                       <=> \/ Says(head, s, k, v)
                           \/ s = t /\ \E i \in DOMAIN new : new[i].name = k /\ new[i].value = v
  <2>1. n \in 1 .. Len(head) /\ \A i \in n + 1 .. Len(head) : head[i].type \in {"none", "comment"}
    BY <1>10, <1>12
  <2>2. \A i \in DOMAIN new : new[i].type = "keyvalue"
    BY <1>3
  <2>3. /\ \A s : HeaderOf(InsertAfter(head, n, new), s) <=> HeaderOf(head, s)
        /\ \A s, k, v : Says(InsertAfter(head, n, new), s, k, v)
                        <=> \/ Says(head, s, k, v)
                            \/ s = t /\ \E i \in DOMAIN new : new[i].name = k /\ new[i].value = v
    BY <1>11, <2>1, <2>2, SaidByInserted
  <2> QED BY <1>8, <1>10, <2>3
<1>14. /\ \A s : HeaderOf(head, s) <=> HeaderOf(lines, s) \/ s = t
       /\ \A s, k, v : Says(head, s, k, v) <=> Says(lines, s, k, v)
  BY <1>1, <1>5, SaidByAppended
<1>15. ASSUME NEW k, NEW v
       PROVE  (\E i \in DOMAIN new : new[i].name = k /\ new[i].value = v) <=> Has(c, k) /\ v = Trim[At(c, k)]
  <2>1. ASSUME NEW i \in DOMAIN new, new[i].name = k, new[i].value = v PROVE Has(c, k) /\ v = Trim[At(c, k)]
    BY <1>2, <1>3, <2>1, MapPair DEF Collections
  <2>2. ASSUME Has(c, k), v = Trim[At(c, k)] PROVE \E i \in DOMAIN new : new[i].name = k /\ new[i].value = v
    <3>1. PICK i \in DOMAIN c : c[i].key = k /\ c[i].val = At(c, k)
      BY <2>2, MapAt DEF Collections
    <3> QED BY <1>2, <1>3, <2>2, <3>1
  <2> QED BY <2>1, <2>2
<1>16. lines \o SectionLines(t, c) = longer /\ longer \in Seq(Lines) /\ SectionLines(t, c) \in Seq(Lines)
  BY <1>6, <1>7, <1>9
<1>17. \A s : HeaderOf(longer, s) <=> HeaderOf(lines, s) \/ s = t
  BY <1>13, <1>14
<1>18. ASSUME NEW s, NEW k, NEW v
       PROVE  Says(longer, s, k, v) <=> Says(lines, s, k, v) \/ (s = t /\ Has(c, k) /\ v = Trim[At(c, k)])
  <2>1. Says(longer, s, k, v)
        <=> \/ Says(head, s, k, v)
            \/ s = t /\ \E i \in DOMAIN new : new[i].name = k /\ new[i].value = v
    BY <1>13
  <2>2. Says(head, s, k, v) <=> Says(lines, s, k, v)
    BY <1>14
  <2>3. (\E i \in DOMAIN new : new[i].name = k /\ new[i].value = v) <=> Has(c, k) /\ v = Trim[At(c, k)]
    BY <1>15
  <2> QED BY <2>1, <2>2, <2>3
<1> QED BY <1>16, <1>17, <1>18

LEMMA GeneratedEmpty == Generated(<<>>) = <<>>
<1>1. [i \in DOMAIN <<>> |-> <<SectionLine(<<>>[i].key)>> \o KeyLines(<<>>[i].val)] = <<>>
  OBVIOUS
<1>2. FlattenSeq(<<>>) = <<>>
  BY DEF FlattenSeq
<1> QED BY <1>1, <1>2 DEF Generated

LEMMA GeneratedAppend ==
    ASSUME NEW m \in Structures, NEW t \in Sections, NEW c \in Collections
    PROVE  /\ Generated(m) \in Seq(Lines)
           /\ Generated(Append(m, [key |-> t, val |-> c])) = Generated(m) \o SectionLines(t, c)
<1> DEFINE Parts(s) == [i \in DOMAIN s |-> SectionLines(s[i].key, s[i].val)]
<1>1. PICK x \in Pairs(Sections, Collections) : x = [key |-> t, val |-> c] /\ x.key = t /\ x.val = c
  <2>1. PICK x : x = [key |-> t, val |-> c]
    OBVIOUS
  <2>2. x \in Pairs(Sections, Collections) /\ x.key = t /\ x.val = c
    BY <2>1 DEF Pairs
  <2> QED BY <2>1, <2>2
<1>2. m \in Seq(Pairs(Sections, Collections))
  BY DEF Structures, Maps
<1>3. ASSUME NEW s \in Seq(Pairs(Sections, Collections)) PROVE Parts(s) \in Seq(Seq(Lines))
  <2>1. PICK n \in Nat : n = Len(s) /\ DOMAIN s = 1 .. n
    BY LenProperties
  <2>2. \A i \in 1 .. n : s[i] \in Pairs(Sections, Collections)
    BY <2>1, ElementOfSeq
  <2>3. \A i \in 1 .. n : s[i].key \in Sections /\ s[i].val \in Collections
    BY <2>2 DEF Pairs
  <2>5. \A i \in 1 .. n : SectionLines(s[i].key, s[i].val) \in Seq(Lines)
    BY <2>3, SectionLinesType
  <2>6. Parts(s) \in [1 .. n -> Seq(Lines)]
    BY <2>1, <2>5
  <2> HIDE DEF Parts
  <2> QED BY <2>6, SeqDef
<1>4. PICK longer \in Seq(Pairs(Sections, Collections)) : longer = Append(m, x)
  BY <1>2, AppendProperties
<1>5. PICK n \in Nat : n = Len(m) /\ DOMAIN m = 1 .. n
  BY <1>2, LenProperties
<1>6. /\ DOMAIN longer = 1 .. n + 1 /\ longer[n + 1] = x
      /\ \A i \in 1 .. n : longer[i] = m[i]
  BY <1>2, <1>4, <1>5, AppendProperties, LenProperties
<1>7. PICK parts \in Seq(Seq(Lines)) : parts = Parts(m)
  BY <1>2, <1>3
<1>8. PICK last \in Seq(Lines) : last = SectionLines(t, c)
  BY SectionLinesType
<1>9. PICK more \in Seq(Seq(Lines)) : more = Append(parts, last)
  BY AppendProperties
<1>10. DOMAIN parts = 1 .. n /\ Len(parts) = n
  <2>1. DOMAIN parts = 1 .. n
    BY <1>5, <1>7
  <2> QED BY <2>1, <1>5, <1>7, LenProperties
<1>11. /\ DOMAIN more = 1 .. n + 1 /\ Len(more) = n + 1 /\ more[n + 1] = last
       /\ \A i \in 1 .. n : more[i] = parts[i]
  BY <1>9, <1>10, AppendProperties, LenProperties
<1>12. PICK new \in Seq(Seq(Lines)) : new = Parts(longer)
  BY <1>3
<1>13. DOMAIN new = 1 .. n + 1
  BY <1>6, <1>12
<1>14. Len(new) = n + 1
  BY <1>13, LenProperties
<1>15. ASSUME NEW i \in 1 .. n + 1 PROVE new[i] = more[i]
  <2>1. new[i] = SectionLines(longer[i].key, longer[i].val)
    BY <1>6, <1>12
  <2>2. CASE i = n + 1
    BY <1>1, <1>6, <1>8, <1>11, <2>1, <2>2
  <2>3. CASE i \in 1 .. n
    <3>1. parts[i] = SectionLines(m[i].key, m[i].val)
      BY <1>5, <1>7, <2>3
    <3> QED BY <1>6, <1>11, <2>1, <2>3, <3>1
  <2>4. i = n + 1 \/ i \in 1 .. n
    OBVIOUS
  <2> QED BY <2>2, <2>3, <2>4
<1>16. new = more
  <2>1. Len(new) = Len(more) /\ \A i \in 1 .. Len(new) : new[i] = more[i]
    BY <1>11, <1>14, <1>15
  <2> QED BY <2>1, SeqEqual
<1>17. FlattenSeq(parts) \in Seq(Lines) /\ FlattenSeq(more) = FlattenSeq(parts) \o last
  BY <1>9, FlattenAppend
<1>18. Generated(m) = FlattenSeq(parts) /\ Generated(longer) = FlattenSeq(new)
  BY <1>7, <1>12 DEF Generated, SectionLines
<1> QED BY <1>1, <1>4, <1>8, <1>16, <1>17, <1>18

LEMMA GeneratedType == \A m \in Structures : Generated(m) \in Seq(Lines)
<1> DEFINE Q == {m \in Structures : Generated(m) \in Seq(Lines)}
<1>1. <<>> \in Q
  BY GeneratedEmpty, EmptySeq, MapEmpty DEF Structures
<1>2. ASSUME NEW m \in Structures, NEW t \in Sections, NEW c \in Collections, ~Has(m, t)
      PROVE  Append(m, [key |-> t, val |-> c]) \in Q
  <2>1. PICK n \in Structures : n = Append(m, [key |-> t, val |-> c])
    BY <1>2, MapPutNew DEF Structures
  <2>2. PICK old \in Seq(Lines), new \in Seq(Lines) : old = Generated(m) /\ new = SectionLines(t, c)
    BY GeneratedAppend, SectionLinesType
  <2>3. Generated(n) = old \o new /\ old \o new \in Seq(Lines)
    BY <2>1, <2>2, GeneratedAppend, ConcatProperties
  <2> QED BY <2>1, <2>3
<1>3. Structures \subseteq Q
  <2>1. \A m \in Maps(Sections, Collections), t \in Sections, c \in Collections :
           m \in Q /\ ~Has(m, t) => Append(m, [key |-> t, val |-> c]) \in Q
    <3> HIDE DEF Q
    <3> QED BY <1>2 DEF Structures
  <2> HIDE DEF Q
  <2> QED BY <1>1, <2>1, MapInduction DEF Structures
<1> QED BY <1>3

(* The sections and keys of a structure are plain. *)
MapFits(m) == \A s : Has(m, s) => s \in PlainSections /\ \A k : Has(At(m, s), k) => k \in PlainKeys

LEMMA GeneratedSays ==
    ASSUME NEW lines \in Seq(Lines)
    PROVE  \A m \in Structures : MapFits(m) =>
              /\ Generated(m) \in Seq(Lines) /\ lines \o Generated(m) \in Seq(Lines)
              /\ \A s : HeaderOf(lines \o Generated(m), s) <=> HeaderOf(lines, s) \/ Has(m, s)
              /\ \A s, k, v : Says(lines \o Generated(m), s, k, v)
                              <=> Says(lines, s, k, v) \/ (HasKey(m, s, k) /\ v = Carried(m, s, k))
<1> DEFINE Goal(m) ==
              /\ Generated(m) \in Seq(Lines)
              /\ \A s : HeaderOf(lines \o Generated(m), s) <=> HeaderOf(lines, s) \/ Has(m, s)
              /\ \A s, k, v : Says(lines \o Generated(m), s, k, v)
                              <=> Says(lines, s, k, v) \/ (HasKey(m, s, k) /\ v = Carried(m, s, k))
           Q == {m \in Structures : MapFits(m) => Goal(m)}
<1>1. <<>> \in Q
  <2>1. Generated(<<>>) = <<>> /\ <<>> \in Seq(Lines) /\ lines \o <<>> = lines
    BY GeneratedEmpty, EmptySeq, ConcatEmptySeq
  <2>2. <<>> \in Structures /\ \A s : ~Has(<<>>, s)
    BY MapEmpty DEF Structures
  <2>3. \A s, k : ~HasKey(<<>>, s, k)
    BY <2>2 DEF HasKey
  <2>4. Goal(<<>>)
    BY <2>1, <2>2, <2>3
  <2> QED BY <2>2, <2>4
<1>2. ASSUME NEW m \in Structures, NEW t \in Sections, NEW c \in Collections, ~Has(m, t),
             NEW n, n = Append(m, [key |-> t, val |-> c]), MapFits(m) => Goal(m), MapFits(n)
      PROVE  Goal(n)
  <2>2. /\ n \in Structures
        /\ Has(n, t) /\ At(n, t) = c
        /\ \A j : j # t => (Has(n, j) <=> Has(m, j)) /\ (Has(m, j) => At(n, j) = At(m, j))
    BY <1>2, MapPutNew DEF Structures
  <2>1. MapFits(m) /\ t \in PlainSections /\ \A k : Has(c, k) => k \in PlainKeys
    <3> HIDE DEF Goal
    <3> QED BY <1>2, <2>2 DEF MapFits
  <2>3. PICK old \in Seq(Lines) : old = Generated(m)
    BY <1>2, <2>1
  <2>4. PICK new \in Seq(Lines) : new = SectionLines(t, c)
    BY SectionLinesType
  <2>5. Generated(n) = old \o new
    BY <1>2, <2>3, <2>4, GeneratedAppend
  <2>6. PICK first \in Seq(Lines) : first = lines \o old
    BY ConcatProperties
  <2>7. PICK all : all = lines \o Generated(n)
    OBVIOUS
  <2>8. all = first \o new
    <3>1. (lines \o old) \o new = lines \o (old \o new)
      BY ConcatAssociative
    <3> QED BY <2>5, <2>6, <2>7, <3>1, Zenon
  <2>9. /\ \A s : HeaderOf(all, s) <=> HeaderOf(first, s) \/ s = t
        /\ \A s, k, v : Says(all, s, k, v) <=> Says(first, s, k, v) \/ (s = t /\ Has(c, k) /\ v = Trim[At(c, k)])
    BY <2>1, <2>4, <2>8, SaidBySection
  <2>10. /\ \A s : HeaderOf(first, s) <=> HeaderOf(lines, s) \/ Has(m, s)
         /\ \A s, k, v : Says(first, s, k, v)
                         <=> Says(lines, s, k, v) \/ (HasKey(m, s, k) /\ v = Carried(m, s, k))
    BY <1>2, <2>1, <2>3, <2>6
  <2>11. Generated(n) \in Seq(Lines)
    BY <2>5, ConcatProperties
  <2>12. \A s : HeaderOf(all, s) <=> HeaderOf(lines, s) \/ Has(n, s)
    BY <2>2, <2>9, <2>10
  <2>13. ASSUME NEW s, NEW k, NEW v
         PROVE  Says(all, s, k, v) <=> Says(lines, s, k, v) \/ (HasKey(n, s, k) /\ v = Carried(n, s, k))
    <3>1. Says(all, s, k, v) <=> \/ Says(lines, s, k, v)
                                 \/ HasKey(m, s, k) /\ v = Carried(m, s, k)
                                 \/ s = t /\ Has(c, k) /\ v = Trim[At(c, k)]
      BY <2>9, <2>10
    <3>2. CASE s = t
      <4>1. (HasKey(n, s, k) <=> Has(c, k)) /\ Carried(n, s, k) = Trim[At(c, k)] /\ ~HasKey(m, s, k)
        BY <1>2, <2>2, <3>2 DEF HasKey, Carried
      <4> QED BY <3>1, <3>2, <4>1
    <3>3. CASE s # t
      <4>1. (HasKey(n, s, k) <=> HasKey(m, s, k)) /\ (HasKey(m, s, k) => Carried(n, s, k) = Carried(m, s, k))
        BY <2>2, <3>3 DEF HasKey, Carried
      <4> QED BY <3>1, <3>3, <4>1
    <3> QED BY <3>2, <3>3
  <2> QED BY <2>7, <2>11, <2>12, <2>13
<1> HIDE DEF Goal
<1>3. Structures \subseteq Q
  <2>1. ASSUME NEW m \in Maps(Sections, Collections), NEW t \in Sections, NEW c \in Collections, m \in Q, ~Has(m, t)
        PROVE  Append(m, [key |-> t, val |-> c]) \in Q
    <3>1. PICK n \in Structures : n = Append(m, [key |-> t, val |-> c])
      BY <2>1, MapPutNew DEF Structures
    <3>2. m \in Structures /\ (MapFits(m) => Goal(m))
      BY <2>1 DEF Structures
    <3>3. ~Has(m, t)
      BY <2>1
    <3>4. ASSUME MapFits(n) PROVE Goal(n)
      <4>1. \A x : x = n /\ x = Append(m, [key |-> t, val |-> c]) => Goal(x)
        BY <1>2, <3>1, <3>2, <3>3, <3>4, Zenon
      <4> QED BY <3>1, <4>1, Zenon
    <3> QED BY <3>1, <3>4
  <2> HIDE DEF Q
  <2> QED BY <1>1, <2>1, MapInduction DEF Structures
<1>4. ASSUME NEW m \in Structures, Goal(m) PROVE lines \o Generated(m) \in Seq(Lines)
  BY <1>4, ConcatProperties DEF Goal
<1>5. \A m \in Structures : MapFits(m) => Goal(m)
  BY <1>3
<1> QED BY <1>4, <1>5 DEF Goal

(* Lines that say what a structure says. *)
Faithful(lines, d) ==
    /\ lines \in Seq(Lines)
    /\ \A s : HeaderOf(lines, s) <=> Has(d, s)
    /\ \A s, k : HasKey(d, s, k) => Says(lines, s, k, Carried(d, s, k))
    /\ \A s, k, v : Says(lines, s, k, v) => HasKey(d, s, k) /\ v = Carried(d, s, k)

LEMMA GeneratedIsFaithful ==
    ASSUME NEW d \in Structures, MapFits(d)
    PROVE  Faithful(Generated(d), d)
<1>1. <<>> \in Seq(Lines)
  BY EmptySeq
<1>2. /\ Generated(d) \in Seq(Lines) /\ <<>> \o Generated(d) \in Seq(Lines)
      /\ \A s : HeaderOf(<<>> \o Generated(d), s) <=> HeaderOf(<<>>, s) \/ Has(d, s)
      /\ \A s, k, v : Says(<<>> \o Generated(d), s, k, v) <=> Says(<<>>, s, k, v) \/ (HasKey(d, s, k) /\ v = Carried(d, s, k))
  BY <1>1, GeneratedSays
<1>3. PICK out : out = Generated(d)
  OBVIOUS
<1>4. <<>> \o Generated(d) = out
  BY <1>2, <1>3, ConcatEmptySeq
<1>5. \A s, k, v : ~HeaderOf(<<>>, s) /\ ~Says(<<>>, s, k, v)
  BY DEF HeaderOf, Says
<1>6. /\ out \in Seq(Lines)
      /\ \A s : HeaderOf(out, s) <=> Has(d, s)
      /\ \A s, k, v : Says(out, s, k, v) <=> HasKey(d, s, k) /\ v = Carried(d, s, k)
  BY <1>2, <1>4, <1>5
<1> QED BY <1>3, <1>6 DEF Faithful

(* What the file can carry: see Readable. *)
Carries(lines, d) ==
    /\ \A s : Has(d, s) /\ ~Has(Reader(lines).data, s) => s \in PlainSections
    /\ \A s, k : HasKey(d, s, k) /\ ~HasKey(Reader(lines).data, s, k) => k \in PlainKeys
    /\ AllFit(lines, d)

LEMMA RewrittenIsFaithful ==
    ASSUME NEW lines \in Seq(Lines), NEW d \in Structures, Carries(lines, d)
    PROVE  Faithful(Rewritten(lines, d), d)
<1>1. PICK r \in ReaderStates : r = Reader(lines)
  BY ReaderAppend, ReaderFollows DEF ReaderInv
<1>2. PICK o \in Structures : o = r.data
  BY DEF ReaderStates
<1>3. /\ \A s : Has(o, s) <=> HeaderOf(lines, s)
      /\ \A s, k : Has(o, s) => (Has(At(o, s), k) <=> \E v : Says(lines, s, k, v))
  BY <1>1, <1>2, ReaderFollows DEF ReaderInv, Follows
<1>4. PICK w : w = Walked(r.kept, d, o)
  OBVIOUS
<1>19. FitsNew(d, o) /\ AllFit(lines, d)
  BY <1>1, <1>2 DEF Carries, FitsNew, NewKeysFit, HasKey
<1>5. Walks(w, r, lines, d, o)
  BY <1>1, <1>3, <1>4, <1>19, Walking
<1>6. PICK e : e = WriteNewKeys(w, d, o)
  OBVIOUS
<1>7. e \in WriterStates /\ Wrote(e.output, lines, d) /\ \A t : AddedBut(e.output, lines, d, o, t)
  BY <1>3, <1>5, <1>6, <1>19, EndedWrites
<1>8. PICK out \in Seq(Lines) : out = e.output
  BY <1>7, WriterParts
<1>9. Wrote(out, lines, d) /\ \A t : AddedBut(out, lines, d, o, t)
  BY <1>7, <1>8
<1>10. PICK a : a = Added(d, o)
  OBVIOUS
<1>11. /\ a \in Structures
       /\ \A s : Has(a, s) <=> Has(d, s) /\ ~Has(o, s)
       /\ \A s : Has(a, s) => At(a, s) = At(d, s)
  BY <1>10, MapAdded DEF Structures
<1>20. MapFits(a)
  <2>1. ASSUME NEW s, Has(a, s) PROVE s \in PlainSections
    BY <1>1, <1>2, <1>11, <2>1 DEF Carries
  <2>2. ASSUME NEW s, Has(a, s), NEW k, Has(At(a, s), k) PROVE k \in PlainKeys
    BY <1>1, <1>2, <1>11, <2>2 DEF Carries, HasKey
  <2> QED BY <2>1, <2>2 DEF MapFits
<1>12. PICK all : all = out \o Generated(a)
  OBVIOUS
<1>13. Rewritten(lines, d) = all
  BY <1>1, <1>2, <1>4, <1>6, <1>8, <1>10, <1>12 DEF Rewritten, LazyOutput
<1>14. /\ all \in Seq(Lines)
       /\ \A s : HeaderOf(all, s) <=> HeaderOf(out, s) \/ Has(a, s)
       /\ \A s, k, v : Says(all, s, k, v) <=> Says(out, s, k, v) \/ (HasKey(a, s, k) /\ v = Carried(a, s, k))
  BY <1>11, <1>12, <1>20, GeneratedSays
<1>15. \A s, k : (HasKey(a, s, k) <=> HasKey(d, s, k) /\ ~Has(o, s)) /\ (Has(a, s) => Carried(a, s, k) = Carried(d, s, k))
  BY <1>11 DEF HasKey, Carried
<1>16. \A s : HeaderOf(all, s) <=> Has(d, s)
  BY <1>3, <1>9, <1>11, <1>14 DEF Wrote
<1>17. ASSUME NEW s, NEW k, NEW v, Says(all, s, k, v) PROVE HasKey(d, s, k) /\ v = Carried(d, s, k)
  <2>1. CASE Says(out, s, k, v)
    BY <1>9, <2>1 DEF Wrote
  <2>2. CASE HasKey(a, s, k) /\ v = Carried(a, s, k)
    BY <1>15, <2>2 DEF HasKey
  <2> QED BY <1>14, <1>17, <2>1, <2>2
<1>18. ASSUME NEW s, NEW k, HasKey(d, s, k) PROVE Says(all, s, k, Carried(d, s, k))
  <2>1. CASE ~Has(o, s)
    <3>1. HasKey(a, s, k) /\ Carried(a, s, k) = Carried(d, s, k)
      BY <1>15, <1>18, <2>1 DEF HasKey
    <3> QED BY <1>14, <3>1
  <2>2. CASE Has(o, s) /\ Has(At(o, s), k)
    <3>1. PICK v : Says(lines, s, k, v)
      BY <1>3, <2>2
    <3>2. Says(out, s, k, Carried(d, s, k))
      BY <1>9, <1>18, <3>1 DEF Wrote
    <3> QED BY <1>14, <3>2
  <2>3. CASE Has(o, s) /\ ~Has(At(o, s), k)
    <3>1. PICK t : t # s
      <4>1. s \in Sections
        BY <1>18, MapAt DEF Structures, HasKey
      <4> QED BY <4>1, NoNameAssumption
    <3>2. Says(out, s, k, Carried(d, s, k))
      BY <1>3, <1>9, <1>18, <2>3, <3>1 DEF AddedBut
    <3> QED BY <1>14, <3>2
  <2> QED BY <2>1, <2>2, <2>3
<1> QED BY <1>13, <1>14, <1>16, <1>17, <1>18 DEF Faithful

-----------------------------------------------------------------------------
(* What is read back. *)

LEMMA MapValue ==
    ASSUME NEW d \in Structures, NEW s, NEW k, HasKey(d, s, k)
    PROVE  s \in Sections /\ k \in Keys /\ At(At(d, s), k) \in Values /\ Carried(d, s, k) \in Values
<1>1. s \in Sections /\ At(d, s) \in Collections
  BY MapAt DEF Structures, HasKey
<1>2. k \in Keys /\ At(At(d, s), k) \in Values
  BY <1>1, MapAt DEF Collections, HasKey
<1> QED BY <1>1, <1>2, TrimAssumption DEF Carried

LEMMA Rereads ==
    ASSUME NEW lines, NEW d \in Structures, Faithful(lines, d)
    PROVE  /\ Reader(lines).data \in Structures
           /\ \A s : Has(Reader(lines).data, s) <=> Has(d, s)
           /\ \A s, k : HasKey(Reader(lines).data, s, k) <=> HasKey(d, s, k)
           /\ \A s, k : HasKey(d, s, k) => At(At(Reader(lines).data, s), k) = Carried(d, s, k)
<1>1. PICK r \in Structures : r = Reader(lines).data /\ Follows(r, lines)
  BY ReaderFollows DEF ReaderInv, ReaderStates, Faithful
<1>2. \A s : Has(r, s) <=> Has(d, s)
  BY <1>1 DEF Follows, Faithful
<1>3. ASSUME NEW s, NEW k, HasKey(r, s, k) PROVE HasKey(d, s, k) /\ At(At(r, s), k) = Carried(d, s, k)
  BY <1>1, <1>3 DEF Follows, Faithful, HasKey
<1>4. ASSUME NEW s, NEW k, HasKey(d, s, k) PROVE HasKey(r, s, k)
  <2>1. Says(lines, s, k, Carried(d, s, k)) /\ Has(r, s)
    BY <1>2, <1>4 DEF Faithful, HasKey
  <2> QED BY <1>1, <2>1 DEF Follows, HasKey
<1> QED BY <1>1, <1>2, <1>3, <1>4

LEMMA EntriesAre ==
    ASSUME NEW d \in Structures
    PROVE  /\ \A s : s \in Entries(d).sections <=> Has(d, s)
           /\ \A e : e \in Entries(d).values
                     <=> \E s, k : HasKey(d, s, k) /\ e = <<s, k, Carried(d, s, k)>>
<1>1. PICK part : part = [i \in DOMAIN d |-> {<<d[i].key, e.key, Trim[e.val]>> : e \in ToSet(d[i].val)}]
  OBVIOUS
<1>2. /\ Entries(d).sections = {d[i].key : i \in DOMAIN d}
      /\ Entries(d).values = UNION {part[i] : i \in DOMAIN d}
  BY <1>1 DEF Entries
<1>3. \A s : s \in Entries(d).sections <=> Has(d, s)
  BY <1>2 DEF Has
<1>4. ASSUME NEW i \in DOMAIN d, NEW e \in part[i]
      PROVE  \E s, k : HasKey(d, s, k) /\ e = <<s, k, Carried(d, s, k)>>
  <2>1. Has(d, d[i].key) /\ At(d, d[i].key) = d[i].val /\ d[i].val \in Collections
    BY MapPair, MapPositions DEF Structures
  <2>2. PICK x \in ToSet(d[i].val) : e = <<d[i].key, x.key, Trim[x.val]>>
    BY <1>1, <1>4
  <2>3. PICK j \in DOMAIN d[i].val : x = d[i].val[j]
    BY <2>2 DEF ToSet
  <2>4. Has(d[i].val, x.key) /\ At(d[i].val, x.key) = x.val
    BY <2>1, <2>3, MapPair DEF Collections
  <2>5. HasKey(d, d[i].key, x.key) /\ Carried(d, d[i].key, x.key) = Trim[x.val]
    BY <2>1, <2>4 DEF HasKey, Carried
  <2> QED BY <2>2, <2>5
<1>5. ASSUME NEW s, NEW k, HasKey(d, s, k)
      PROVE  <<s, k, Carried(d, s, k)>> \in Entries(d).values
  <2>1. PICK i \in DOMAIN d : d[i].key = s /\ d[i].val = At(d, s)
    BY <1>5, MapAt DEF Structures, HasKey
  <2>2. At(d, s) \in Collections
    BY <1>5, MapAt DEF Structures, HasKey
  <2>3. PICK j \in DOMAIN At(d, s) : At(d, s)[j].key = k /\ At(d, s)[j].val = At(At(d, s), k)
    BY <1>5, <2>2, MapAt DEF Collections, HasKey
  <2>4. At(d, s)[j] \in ToSet(d[i].val)
    BY <2>1, <2>3 DEF ToSet
  <2>5. <<d[i].key, At(d, s)[j].key, Trim[At(d, s)[j].val]>> \in part[i]
    BY <1>1, <2>1, <2>4
  <2>6. <<s, k, Carried(d, s, k)>> \in part[i]
    BY <2>1, <2>3, <2>5 DEF Carried
  <2> QED BY <1>2, <2>1, <2>6
<1> QED BY <1>2, <1>3, <1>4, <1>5

LEMMA RereadEntries ==
    ASSUME NEW lines, NEW d \in Structures, Faithful(lines, d)
    PROVE  Entries(Reader(lines).data) = Entries(d)
<1>1. PICK r : r = Reader(lines).data
  OBVIOUS
<1>2. /\ r \in Structures
      /\ \A s : Has(r, s) <=> Has(d, s)
      /\ \A s, k : HasKey(r, s, k) <=> HasKey(d, s, k)
      /\ \A s, k : HasKey(d, s, k) => At(At(r, s), k) = Carried(d, s, k)
  BY <1>1, Rereads
<1>3. \A s, k : HasKey(d, s, k) => Carried(r, s, k) = Carried(d, s, k)
  <2>1. ASSUME NEW s, NEW k, HasKey(d, s, k) PROVE Carried(r, s, k) = Carried(d, s, k)
    <3>1. At(At(r, s), k) = Trim[At(At(d, s), k)] /\ At(At(d, s), k) \in Values
      BY <1>2, <2>1, MapValue DEF Carried
    <3> QED BY <3>1, TrimAssumption DEF Carried
  <2> QED BY <2>1
<1>4. Entries(r).sections = Entries(d).sections
  <2>1. \A s : s \in Entries(r).sections <=> s \in Entries(d).sections
    BY <1>2, EntriesAre
  <2> QED BY <2>1
<1>5. Entries(r).values = Entries(d).values
  <2>1. /\ \A e : e \in Entries(d).values <=> \E s, k : HasKey(d, s, k) /\ e = <<s, k, Carried(d, s, k)>>
        /\ \A e : e \in Entries(r).values <=> \E s, k : HasKey(r, s, k) /\ e = <<s, k, Carried(r, s, k)>>
    BY <1>2, EntriesAre
  <2>2. \A e : e \in Entries(r).values <=> e \in Entries(d).values
    BY <1>2, <1>3, <2>1
  <2> QED BY <2>2
<1>6. \A x : Entries(x) = [sections |-> Entries(x).sections, values |-> Entries(x).values]
  BY DEF Entries
<1> QED BY <1>1, <1>4, <1>5, <1>6

LEMMA WrittenIsFaithful ==
    ASSUME NEW f, NEW d \in Structures, f.lines \in Seq(Lines), f.exists \/ f.lines = <<>>, Carries(f.lines, d)
    PROVE  Faithful(Written(f, d), d)
<1>1. CASE f.exists
  BY <1>1, RewrittenIsFaithful DEF Written
<1>2. CASE ~f.exists
  <2>1. f.lines = <<>> /\ Reader(f.lines).data = <<>>
    BY <1>2, ReaderEmpty DEF ReaderStart
  <2>2. \A s, k : ~Has(<<>>, s) /\ ~HasKey(<<>>, s, k)
    BY MapEmpty DEF HasKey
  <2>3. MapFits(d)
    <3>1. ASSUME NEW s, Has(d, s) PROVE s \in PlainSections
      BY <2>1, <2>2, <3>1 DEF Carries
    <3>2. ASSUME NEW s, Has(d, s), NEW k, Has(At(d, s), k) PROVE k \in PlainKeys
      <4>1. HasKey(d, s, k)
        BY <3>2 DEF HasKey
      <4> QED BY <2>1, <2>2, <4>1 DEF Carries
    <3> QED BY <3>1, <3>2 DEF MapFits
  <2> QED BY <1>2, <2>3, GeneratedIsFaithful DEF Written
<1> QED BY <1>1, <1>2

(* Whatever the texts, lines are written. *)
LEMMA WrittenType ==
    ASSUME NEW f, NEW d \in Structures, f.lines \in Seq(Lines)
    PROVE  Written(f, d) \in Seq(Lines)
<1>1. PICK lines \in Seq(Lines) : lines = f.lines
  OBVIOUS
<1>2. Rewritten(lines, d) \in Seq(Lines)
  <2>1. PICK r \in ReaderStates : r = Reader(lines)
    BY ReaderFollows DEF ReaderInv
  <2>2. PICK o \in Structures, kept \in Seq(Lines) : o = r.data /\ kept = r.kept
    BY DEF ReaderStates
  <2>3. PICK w \in WriterStates : w = Walked(kept, d, o)
    BY WalkedType
  <2>4. PICK e \in WriterStates : e = WriteNewKeys(w, d, o)
    BY WritesNewKeys
  <2>5. PICK out \in Seq(Lines) : out = e.output
    BY WriterParts
  <2>6. Added(d, o) \in Structures
    BY MapAdded DEF Structures
  <2>7. PICK new \in Seq(Lines) : new = Generated(Added(d, o))
    BY <2>6, GeneratedType
  <2>8. out \o new \in Seq(Lines)
    BY ConcatProperties
  <2>9. Rewritten(lines, d) = out \o new
    BY <2>1, <2>2, <2>3, <2>4, <2>5, <2>7 DEF Rewritten, LazyOutput
  <2> QED BY <2>8, <2>9
<1> QED BY <1>1, <1>2, GeneratedType DEF Written

-----------------------------------------------------------------------------
(* The file. *)

INIInv ==
    /\ disk \in [exists : BOOLEAN, lines : Seq(Lines)]
    /\ disk.exists \/ disk.lines = <<>>
    /\ data \in Structures

LEMMA INIInvInit == INIInit => INIInv
<1> SUFFICES ASSUME INIInit PROVE INIInv
  OBVIOUS
<1>1. data \in Structures
  BY MapEmpty DEF INIInit, Structures
<1>2. <<>> \in Seq(Lines) /\ InitialFiles \subseteq Seq(Lines)
  <2>1. Seq({l \in Lines : l.byHand}) \subseteq Seq(Lines)
    BY SeqMonotonic
  <2> QED BY <2>1, EmptySeq, FilesAssumption
<1>3. disk \in [exists : BOOLEAN, lines : Seq(Lines)] /\ (disk.exists \/ disk.lines = <<>>)
  <2>1. CASE disk = [exists |-> FALSE, lines |-> <<>>]
    BY <1>2, <2>1
  <2>2. ASSUME NEW lines \in InitialFiles, disk = [exists |-> TRUE, lines |-> lines]
        PROVE  disk \in [exists : BOOLEAN, lines : Seq(Lines)] /\ disk.exists
    BY <1>2, <2>2
  <2> QED BY <2>1, <2>2 DEF INIInit
<1> QED BY <1>1, <1>3 DEF INIInv

LEMMA SectionType ==
    ASSUME INIInv, NEW s
    PROVE  Section(s) \in Collections
BY MapAt, MapEmpty DEF INIInv, Section, Structures, Collections

LEMMA INIInvStep == INIInv /\ [ININext]_iniVars => INIInv'
<1> SUFFICES ASSUME INIInv, [ININext]_iniVars PROVE INIInv'
  OBVIOUS
<1> USE DEF INIInv
<1>1. disk.lines \in Seq(Lines)
  OBVIOUS
<1>2. CASE ReadFile
  <2>1. <<>> \in Structures
    BY MapEmpty DEF Structures
  <2>2. Reader(disk.lines).data \in Structures
    BY <1>1, ReaderFollows DEF ReaderInv, ReaderStates
  <2> QED BY <1>2, <2>1, <2>2 DEF ReadFile
<1>3. CASE Generate
  <2>1. Generated(data) \in Seq(Lines)
    BY GeneratedType
  <2> QED BY <1>3, <2>1 DEF Generate
<1>4. CASE Write
  <2>1. Written(disk, data) \in Seq(Lines)
    BY <1>1, WrittenType
  <2> QED BY <1>4, <2>1 DEF Write
<1>5. ASSUME NEW s \in Sections, Open(s) PROVE INIInv'
  <2>1. Put(data, s, Section(s)) \in Structures
    BY SectionType, MapPut DEF Structures
  <2> QED BY <1>5, <2>1 DEF Open, INIEdit
<1>6. ASSUME NEW s \in Sections, RemoveSection(s) PROVE INIInv'
  <2>1. Without(data, s) \in Structures
    BY MapOnly DEF Without, Structures
  <2> QED BY <1>6, <2>1 DEF RemoveSection, INIEdit
<1>7. ASSUME NEW s \in Sections, NEW k \in Keys, RemoveKey(s, k) PROVE INIInv'
  <2>1. Without(Section(s), k) \in Collections
    BY SectionType, MapOnly DEF Without, Collections
  <2>2. Put(data, s, Without(Section(s), k)) \in Structures
    BY <2>1, MapPut DEF Structures
  <2> QED BY <1>7, <2>2 DEF RemoveKey, INIEdit
<1>8. ASSUME NEW s \in Sections, NEW k \in Keys, NEW v \in Values, Set(s, k, v) PROVE INIInv'
  <2>1. Put(Section(s), k, v) \in Collections
    BY SectionType, MapPut DEF Collections
  <2>2. Put(data, s, Put(Section(s), k, v)) \in Structures
    BY <2>1, MapPut DEF Structures
  <2> QED BY <1>8, <2>2 DEF Set, INIEdit
<1>9. CASE UNCHANGED iniVars
  BY <1>9 DEF iniVars
<1> QED BY <1>2, <1>3, <1>4, <1>5, <1>6, <1>7, <1>8, <1>9 DEF ININext

LEMMA ReadableCarries ==
    ASSUME INIInv, Readable(disk.lines)
    PROVE  Carries(disk.lines, data)
<1>1. PICK lines \in Seq(Lines) : lines = disk.lines /\ Readable(lines)
  BY DEF INIInv
<1>2. PICK old \in Structures : old = Reader(lines).data
  BY ReaderFollows DEF ReaderInv, ReaderStates
<1>3. data \in Structures
  BY DEF INIInv
<1>4. \A s, k : HasKey(data, s, k) => s \in Sections /\ k \in Keys
  BY <1>3, MapValue
<1>5. \A s : Has(data, s) => s \in Sections
  BY <1>3, MapAt DEF Structures
<1>6. \A s : Has(data, s) /\ ~Has(old, s) => s \in PlainSections
  BY <1>1, <1>2, <1>5 DEF Readable
<1>7. \A s, k : HasKey(data, s, k) /\ ~HasKey(old, s, k) => k \in PlainKeys
  BY <1>1, <1>2, <1>4 DEF Readable
<1>8. ASSUME NEW i \in DOMAIN lines PROVE Fits(lines[i], data)
  <2>1. PICK l : l = lines[i]
    OBVIOUS
  <2>2. l.type = "keyvalue" =>
          \/ l.name \in PlainKeys /\ l.value \in PlainValues
          \/ \A s \in Sections : HasKey(data, s, l.name) => At(At(data, s), l.name) = l.value
    BY <1>1, <2>1 DEF Readable
  <2> QED BY <1>4, <2>1, <2>2 DEF Fits
<1> QED BY <1>1, <1>2, <1>6, <1>7, <1>8 DEF Carries, AllFit

(* Whatever the file was, with its duplicate sections and keys, comments   *)
(* and garbage, and whatever the program has made of the structure: where  *)
(* the file can carry it, what is read after a write is what was written.  *)
THEOREM WritesAreReadBack == INISpec => RoundTrip
<1>1. INIInv /\ [ININext]_iniVars
      => [Write /\ Readable(disk.lines) => Entries(Reader(disk'.lines).data) = Entries(data)]_iniVars
  <2> SUFFICES ASSUME INIInv, Write, Readable(disk.lines)
               PROVE  Entries(Reader(disk'.lines).data) = Entries(data)
    OBVIOUS
  <2>1. data \in Structures /\ disk.lines \in Seq(Lines) /\ (disk.exists \/ disk.lines = <<>>)
    BY DEF INIInv
  <2>2. Faithful(Written(disk, data), data) /\ disk'.lines = Written(disk, data)
    BY <2>1, ReadableCarries, WrittenIsFaithful DEF Write
  <2> QED BY <2>1, <2>2, RereadEntries
<1> QED BY <1>1, INIInvInit, INIInvStep, PTL DEF INISpec, RoundTrip

-----------------------------------------------------------------------------
(* What becomes of the lines of some set that has nothing of what the      *)
(* library itself puts into a file.                                        *)

Followed(F) == \A l \in F : l.type # "none" /\ (l.byHand \/ (PlainTexts /\ l.type = "comment"))

(* A line of the library's own is none that is followed.                   *)
LEMMA MadeIsNotFollowed ==
    ASSUME NEW F, Followed(F)
    PROVE  /\ \A s \in Sections : SectionLine(s) \notin F
           /\ \A k \in Keys, v \in Values : KeyLine(k, v) \notin F
BY MadeLines, PlainLines DEF Followed, PlainTexts

LEMMA OnlyNone ==
    ASSUME NEW S, NEW s \in Seq(S), NEW set, \A i \in DOMAIN s : s[i] \notin set
    PROVE  Only(s, set) = <<>>
<1>1. Only(s, set) \in Seq(S) /\ ToSet(Only(s, set)) = ToSet(s) \cap set
  BY OnlyElements
<1>2. PICK t \in Seq(S) : t = Only(s, set)
  BY <1>1
<1>3. ToSet(t) = {}
  BY <1>1, <1>2 DEF ToSet
<1>4. Len(t) = 0
  <2>1. PICK n \in Nat : n = Len(t) /\ DOMAIN t = 1 .. n
    BY LenProperties
  <2>2. n # 0 => 1 \in DOMAIN t
    BY <2>1
  <2> QED BY <1>3, <2>1, <2>2 DEF ToSet
<1> QED BY <1>2, <1>4, EmptySeq

LEMMA OnlyInserted ==
    ASSUME NEW lines \in Seq(Lines), NEW p \in 0 .. Len(lines), NEW new \in Seq(Lines), NEW set,
           \A i \in DOMAIN new : new[i] \notin set
    PROVE  Only(InsertAfter(lines, p, new), set) = Only(lines, set)
<1>1. PICK n \in Nat : n = Len(lines)
  BY LenProperties
<1>2. /\ p \in Int /\ n \in Int /\ 1 \in Int /\ p + 1 \in Int
      /\ \A i \in 1 .. p : i \in 1 .. n
      /\ \A i \in p + 1 .. n : i \in 1 .. n
      /\ 1 \in 1 .. n + 1 /\ p \in 1 - 1 .. n /\ n \in p .. n
  BY <1>1
<1>3. \A i \in 1 .. n : lines[i] \in Lines
  BY <1>1, ElementOfSeq
<1>4. SubSeq(lines, 1, p) \in Seq(Lines) /\ SubSeq(lines, p + 1, n) \in Seq(Lines)
  BY <1>2, <1>3, SubSeqProperties
<1>5. PICK a \in Seq(Lines), b \in Seq(Lines) : a = SubSeq(lines, 1, p) /\ b = SubSeq(lines, p + 1, n)
  BY <1>4
<1>6. a \o b = lines
  <2>1. SubSeq(lines, 1, p) \o SubSeq(lines, p + 1, n) = SubSeq(lines, 1, n)
    <3>1. /\ 1 \in 1 .. Len(lines) + 1 /\ p \in 1 - 1 .. Len(lines) /\ n \in p .. Len(lines)
      BY <1>1, <1>2
    <3> QED BY <3>1, ConcatAdjacentSubSeq
  <2>2. SubSeq(lines, 1, n) = lines
    BY <1>1, SubSeqFull
  <2> QED BY <1>5, <2>1, <2>2, Zenon
<1>7. Only(new, set) = <<>>
  BY OnlyNone
<1>8. PICK ab \in Seq(Lines) : ab = a \o new
  BY ConcatProperties
<1>9. Only(a, set) \in Seq(Lines)
  BY OnlyElements
<1>10. Only(a \o new, set) = Only(a, set) \o Only(new, set)
  BY OnlyConcat
<1>11. Only(a, set) \o <<>> = Only(a, set)
  BY <1>9, ConcatEmptySeq
<1>12. Only(ab \o b, set) = Only(ab, set) \o Only(b, set)
  BY OnlyConcat
<1>13. Only(a \o b, set) = Only(a, set) \o Only(b, set)
  BY OnlyConcat
<1>14. InsertAfter(lines, p, new) = ab \o b
  BY <1>1, <1>5, <1>8 DEF InsertAfter
<1> QED BY <1>6, <1>7, <1>8, <1>10, <1>11, <1>12, <1>13, <1>14

LEMMA NewKeysKeep ==
    ASSUME NEW w \in WriterStates, NEW d \in Structures, NEW o, NEW F, Followed(F), NEW v,
           v = WriteNewKeys(w, d, o) \/ v = Ended(w, d, o)
    PROVE  v \in WriterStates /\ Only(v.output, F) = Only(w.output, F)
<1>1. CASE v = w
  BY <1>1
<1>2. CASE v = WriteNewKeys(w, d, o)
  <2>1. /\ v \in WriterStates
        /\ v.output = IF Has(d, w.sectionCurrent) /\ Has(o, w.sectionCurrent)
                      THEN WithNewKeys(w, d, o) ELSE w.output
    BY <1>2, WritesNewKeys
  <2>2. CASE Has(d, w.sectionCurrent) /\ Has(o, w.sectionCurrent)
    <3>1. PICK t : t = w.sectionCurrent
      OBVIOUS
    <3>2. PICK new \in Seq(Lines) : new = KeyLines(Added(At(d, t), At(o, t)))
      BY <2>2, <3>1, NewKeyLines
    <3>4. \A i \in DOMAIN new : new[i] \notin F
      <4>1. PICK a \in Collections : a = Added(At(d, t), At(o, t))
        BY <2>2, <3>1, AddedKeys, MapAt DEF Structures
      <4>2. \A i \in DOMAIN a : a[i].key \in Keys /\ a[i].val \in Values
        BY MapPositions DEF Collections
      <4> QED BY <3>2, <4>1, <4>2, KeyLinesType, MadeIsNotFollowed
    <3>5. PICK out \in Seq(Lines), p \in Nat : out = w.output /\ p = w.lastKeyLine /\ p \in 0 .. Len(out)
      BY WriterParts
    <3>6. Only(InsertAfter(out, p, new), F) = Only(out, F)
      BY <3>4, <3>5, OnlyInserted
    <3>7. v.output = InsertAfter(out, p, new)
      BY <2>1, <2>2, <3>1, <3>2, <3>5 DEF WithNewKeys
    <3> QED BY <2>1, <3>5, <3>6, <3>7
  <2>3. CASE ~(Has(d, w.sectionCurrent) /\ Has(o, w.sectionCurrent))
    BY <2>1, <2>3
  <2> QED BY <2>2, <2>3
<1> QED BY <1>1, <1>2 DEF Ended

LEMMA GeneratedKeeps ==
    ASSUME NEW F, Followed(F)
    PROVE  \A m \in Structures : Generated(m) \in Seq(Lines) /\ Only(Generated(m), F) = <<>>
<1> DEFINE Q == {m \in Structures : Only(Generated(m), F) = <<>>}
<1>1. <<>> \in Q
  BY GeneratedEmpty, OnlyEmpty, MapEmpty DEF Structures
<1>2. \A m \in Structures : Generated(m) \in Seq(Lines)
  BY GeneratedType
<1>3. ASSUME NEW m \in Structures, NEW t \in Sections, NEW c \in Collections, m \in Q, ~Has(m, t)
      PROVE  Append(m, [key |-> t, val |-> c]) \in Q
  <2>1. Append(m, [key |-> t, val |-> c]) \in Structures
    BY <1>3, MapPutNew DEF Structures
  <2>2. PICK old \in Seq(Lines), keys \in Seq(Lines), head \in Lines :
           old = Generated(m) /\ keys = KeyLines(c) /\ head = SectionLine(t)
    BY <1>2, KeyLinesType, MadeLines
  <2>3. <<head>> \in Seq(Lines) /\ <<head>> \o keys \in Seq(Lines)
    <3>1. <<head>> \in Seq(Lines)
      OBVIOUS
    <3> QED BY <3>1, ConcatProperties
  <2>4. Generated(Append(m, [key |-> t, val |-> c])) = old \o (<<head>> \o keys)
    BY <1>3, <2>2, GeneratedAppend DEF SectionLines
  <2>5. Only(<<head>>, F) = <<>>
    <3>1. head \notin F
      BY <2>2, MadeIsNotFollowed
    <3>2. DOMAIN <<head>> = {1} /\ <<head>>[1] = head
      OBVIOUS
    <3> QED BY <2>3, <3>1, <3>2, OnlyNone
  <2>6. Only(keys, F) = <<>>
    <3>1. \A i \in DOMAIN keys : keys[i] = KeyLine(c[i].key, c[i].val)
      BY <2>2, KeyLinesType
    <3>2. DOMAIN keys = DOMAIN c /\ \A i \in DOMAIN c : c[i].key \in Keys /\ c[i].val \in Values
      BY <2>2, KeyLinesType, MapPositions DEF Collections
    <3>3. \A i \in DOMAIN keys : keys[i] \notin F
      BY <3>1, <3>2, MadeIsNotFollowed
    <3> QED BY <3>3, OnlyNone
  <2>7. Only(<<head>> \o keys, F) = <<>> \o <<>>
    <3>1. PICK first \in Seq(Lines) : first = <<head>>
      BY <2>3
    <3>2. Only(first \o keys, F) = Only(first, F) \o Only(keys, F)
      BY OnlyConcat
    <3> QED BY <2>5, <2>6, <3>1, <3>2
  <2>8. <<>> \o <<>> = <<>>
    BY EmptySeq, ConcatEmptySeq
  <2>9. Only(old \o (<<head>> \o keys), F) = Only(old, F) \o Only(<<head>> \o keys, F)
    BY <2>3, OnlyConcat
  <2> QED BY <1>3, <2>1, <2>2, <2>4, <2>7, <2>8, <2>9
<1>4. Structures \subseteq Q
  <2>1. \A m \in Maps(Sections, Collections), t \in Sections, c \in Collections :
           m \in Q /\ ~Has(m, t) => Append(m, [key |-> t, val |-> c]) \in Q
    <3> HIDE DEF Q
    <3> QED BY <1>3 DEF Structures
  <2> HIDE DEF Q
  <2> QED BY <1>1, <2>1, MapInduction DEF Structures
<1> QED BY <1>2, <1>4

(* What a line becomes that follows others in the file. *)
Becomes(new, d, lines, l) ==
    /\ l.type = "comment" => new = <<l>>
    /\ l.type = "section" => new = IF Has(d, l.name) THEN <<l>> ELSE <<>>
    /\ l.type = "keyvalue" =>
         \A s : InSection(lines, Len(lines), s) =>
                   new = IF HasKey(d, s, l.name) THEN <<Updated(d, s, l)>> ELSE <<>>
    /\ l.type = "keyvalue" /\ (\A s : ~InSection(lines, Len(lines), s)) => new = <<>>
    /\ l.type \in {"none", "unknown"} => new = <<>>

LEMMA BecomesLines ==
    ASSUME NEW d \in Structures, NEW lines \in Seq(Lines), NEW l \in Lines
    PROVE  \E new \in Seq(Lines) : Becomes(new, d, lines, l)
<1> USE DEF Becomes
<1>1. /\ l.type \in {"none", "comment", "unknown", "section", "keyvalue"}
      /\ <<>> \in Seq(Lines) /\ \A x \in Lines : <<x>> \in Seq(Lines)
  BY LineKinds, EmptySeq
<1>2. CASE l.type = "comment"
  <2>1. Becomes(<<l>>, d, lines, l)
    BY <1>2
  <2> QED BY <1>1, <2>1
<1>3. CASE l.type = "section"
  <2>1. Becomes(IF Has(d, l.name) THEN <<l>> ELSE <<>>, d, lines, l)
    BY <1>3
  <2> QED BY <1>1, <2>1
<1>4. CASE l.type = "keyvalue" /\ \E s : InSection(lines, Len(lines), s)
  <2>1. PICK s : InSection(lines, Len(lines), s)
    BY <1>4
  <2>2. \A t : InSection(lines, Len(lines), t) <=> t = s
    BY <2>1, OneSection, LenProperties
  <2>3. CASE HasKey(d, s, l.name)
    <3>1. Updated(d, s, l) \in Lines
      BY <1>4, <2>3, UpdatedType DEF HasKey
    <3>2. Becomes(<<Updated(d, s, l)>>, d, lines, l)
      BY <1>4, <2>2, <2>3
    <3> QED BY <1>1, <3>1, <3>2
  <2>4. CASE ~HasKey(d, s, l.name)
    <3>1. Becomes(<<>>, d, lines, l)
      BY <1>4, <2>2, <2>4
    <3> QED BY <1>1, <3>1
  <2> QED BY <2>3, <2>4
<1>5. CASE l.type = "keyvalue" /\ \A s : ~InSection(lines, Len(lines), s)
  <2>1. Becomes(<<>>, d, lines, l)
    BY <1>5
  <2> QED BY <1>1, <2>1
<1>6. CASE l.type \in {"none", "unknown"}
  <2>1. Becomes(<<>>, d, lines, l)
    BY <1>6
  <2> QED BY <1>1, <2>1
<1> QED BY <1>1, <1>2, <1>3, <1>4, <1>5, <1>6

LEMMA OnlyOne ==
    ASSUME NEW l \in Lines, NEW F, NEW s \in Seq(Lines)
    PROVE  Only(Append(s, l), F) = Only(s, F) \o Only(<<l>>, F)
<1>1. Append(s, l) = s \o <<l>> /\ <<l>> \in Seq(Lines)
  BY AppendIsConcat
<1>2. PICK t \in Seq(Lines) : t = <<l>>
  BY <1>1
<1>3. Only(s \o t, F) = Only(s, F) \o Only(t, F)
  BY OnlyConcat
<1> QED BY <1>1, <1>2, <1>3

Kept(r, l) == l.type \in {"section", "none", "comment"} \/ (l.type = "keyvalue" /\ r.inSection)

Reached(r, lines) == \A s : InSection(lines, Len(lines), s) <=> r.inSection /\ r.section = s

(* The writer is at a line that the reader has kept. *)
Before(w, r, lines, d, l) ==
    /\ Flags(w, r, d)
    /\ d \in Structures /\ lines \in Seq(Lines) /\ l \in Lines
    /\ Kept(r, l) /\ Reached(r, lines)

LEMMA WriteKeeps ==
    ASSUME NEW d, NEW o, NEW lines, NEW w, NEW r, NEW l, Before(w, r, lines, d, l),
           NEW F, Followed(F), NEW new, Becomes(new, d, lines, l)
    PROVE  Only(WriteLine(w, l, d, o).output, F) = Only(w.output, F) \o Only(new, F)
<1>a. d \in Structures /\ lines \in Seq(Lines) /\ l \in Lines /\ Flags(w, r, d) /\ Kept(r, l) /\ Reached(r, lines)
  BY DEF Before
<1> USE <1>a
<1>0. PICK v : v = WriteLine(w, l, d, o)
  OBVIOUS
<1> SUFFICES Only(v.output, F) = Only(w.output, F) \o Only(new, F)
  BY <1>0
<1> USE <1>0
<1>1. /\ w \in WriterStates /\ w.sectionCurrent = r.section
      /\ w.parsingSection <=> Has(d, w.sectionCurrent)
      /\ r.inSection => (w.continueToNextSection <=> ~Has(d, w.sectionCurrent))
  BY DEF Flags
<1>2. PICK out \in Seq(Lines) : out = w.output
  BY <1>1, WriterParts
<1>3. Only(<<>>, F) = <<>> /\ Only(out, F) \in Seq(Lines)
  BY OnlyEmpty, OnlyElements
<1>4. Only(out, F) \o Only(<<>>, F) = Only(out, F)
  BY <1>3, ConcatEmptySeq
<1>5. CASE l.type = "section"
  <2>0. PICK e : e = Ended(w, d, o)
    OBVIOUS
  <2>1. e \in WriterStates /\ Only(e.output, F) = Only(out, F)
    <3>1. w \in WriterStates /\ (e = WriteNewKeys(w, d, o) \/ e = Ended(w, d, o))
      BY <1>1, <2>0
    <3>2. e \in WriterStates /\ Only(e.output, F) = Only(w.output, F)
      BY <3>1, NewKeysKeep
    <3> QED BY <1>2, <3>2
  <2>2. PICK ended \in Seq(Lines) : ended = e.output
    BY <2>1, WriterParts
  <2>3. new = IF Has(d, l.name) THEN <<l>> ELSE <<>>
    BY <1>5 DEF Becomes
  <2>4. v.output = IF Has(d, l.name) THEN Append(ended, l) ELSE ended
    <3>1. /\ Has(d, l.name) => v.output = Append(Ended(w, d, o).output, l)
          /\ ~Has(d, l.name) => v.output = Ended(w, d, o).output
      BY <1>1, <1>5, WritesHeader
    <3> QED BY <2>0, <2>2, <3>1
  <2>5. Only(Append(ended, l), F) = Only(ended, F) \o Only(<<l>>, F)
    BY OnlyOne
  <2> QED BY <1>2, <1>4, <2>1, <2>2, <2>3, <2>4, <2>5
<1>6. CASE l.type = "keyvalue"
  <2>1. PICK s : s = w.sectionCurrent
    OBVIOUS
  <2>2. InSection(lines, Len(lines), s) /\ (w.continueToNextSection <=> ~Has(d, s))
    BY <1>1, <1>6, <2>1 DEF Kept, Reached
  <2>3. new = IF HasKey(d, s, l.name) THEN <<Updated(d, s, l)>> ELSE <<>>
    BY <1>6, <2>2 DEF Becomes
  <2>4. CASE HasKey(d, s, l.name)
    <3>1. PICK u \in Lines : u = Updated(d, s, l)
      BY <1>6, <2>4, UpdatedType DEF HasKey
    <3>2. v.output = Append(out, u)
      BY <1>1, <1>2, <1>6, <2>1, <2>2, <2>4, <3>1, WritesKey DEF HasKey
    <3>3. Only(Append(out, u), F) = Only(out, F) \o Only(<<u>>, F)
      BY OnlyOne
    <3> QED BY <1>2, <2>3, <2>4, <3>1, <3>2, <3>3
  <2>5. CASE ~HasKey(d, s, l.name)
    <3>1. v = w
      BY <1>1, <1>6, <2>1, <2>5, WritesNoKey DEF HasKey
    <3> QED BY <1>2, <1>4, <2>3, <2>5, <3>1
  <2> QED BY <2>4, <2>5
<1>7. CASE l.type \notin {"section", "keyvalue"}
  <2>1. l.type \in {"none", "comment"}
    BY <1>7 DEF Kept
  <2>2. (v.output = out /\ l.type = "none") \/ v.output = Append(out, l)
    BY <1>1, <1>2, <1>7, WritesOther
  <2>3. Only(Append(out, l), F) = Only(out, F) \o Only(<<l>>, F)
    BY OnlyOne
  <2>4. CASE l.type = "comment"
    <3>1. new = <<l>> /\ l.type # "none"
      BY <2>4 DEF Becomes
    <3> QED BY <1>2, <2>2, <2>3, <3>1
  <2>5. CASE l.type = "none"
    <3>1. new = <<>> /\ l \notin F
      BY <2>5 DEF Becomes, Followed
    <3>2. Only(Append(out, l), F) = Only(out, F)
      BY <3>1, OnlySkips
    <3> QED BY <1>2, <1>4, <2>2, <3>1, <3>2
  <2> QED BY <2>1, <2>4, <2>5
<1> QED BY <1>5, <1>6, <1>7

(* A function that says what becomes of the followed lines. *)
Keeping(K, d, F) ==
    /\ K[<<>>] = <<>>
    /\ \A lines \in Seq(Lines) : \A l \in Lines : \A new \in Seq(Lines) :
          Becomes(new, d, lines, l) => K[Append(lines, l)] = K[lines] \o Only(new, F)

AllKept(K, d, o, F) ==
    \A lines \in Seq(Lines) : Only(Walked(Reader(lines).kept, d, o).output, F) = K[lines]

LEMMA WalkKeeps ==
    ASSUME NEW d \in Structures, NEW o, NEW F, Followed(F), NEW K, Keeping(K, d, F)
    PROVE  AllKept(K, d, o, F)
<1> DEFINE Goal(lines) == Only(Walked(Reader(lines).kept, d, o).output, F) = K[lines]
           Q == {lines \in Seq(Lines) : Goal(lines)}
<1>1. <<>> \in Q
  <2>1. Reader(<<>>).kept = <<>>
    BY ReaderEmpty DEF ReaderStart
  <2>2. Walked(<<>>, d, o) = WriterStart /\ WriterStart.output = <<>>
    BY WalkedEmpty DEF WriterStart
  <2> QED BY <2>1, <2>2, OnlyEmpty, EmptySeq DEF Keeping
<1>2. ASSUME NEW lines \in Seq(Lines), NEW l \in Lines, Goal(lines)
      PROVE  Goal(Append(lines, l))
  <2>1. PICK longer \in Seq(Lines) : longer = Append(lines, l)
    BY AppendProperties
  <2>2. PICK r \in ReaderStates : r = Reader(lines)
    BY ReaderAppend
  <2>3. PICK q \in ReaderStates : q = Reader(longer) /\ q = ReadLine(r, l)
    BY <2>1, <2>2, ReaderAppend, ReadLineType
  <2>4. PICK kept \in Seq(Lines) : kept = r.kept
    BY DEF ReaderStates
  <2>5. PICK w \in WriterStates : w = Walked(kept, d, o)
    BY <2>4, WalkedAppend
  <2>7. Flags(w, r, d)
    BY <2>2, <2>4, <2>5, Flagged
  <2>8. PICK v : v = WriteLine(w, l, d, o)
    OBVIOUS
  <2>9. v = Walked(Append(kept, l), d, o)
    BY <2>4, <2>5, <2>8, WalkedAppend
  <2>10. Only(w.output, F) = K[lines]
    BY <1>2, <2>2, <2>4, <2>5
  <2>11. PICK new \in Seq(Lines) : Becomes(new, d, lines, l)
    BY BecomesLines
  <2>12. K[longer] = K[lines] \o Only(new, F)
    BY <2>1, <2>11 DEF Keeping
  <2>13. Reached(r, lines)
    BY <2>2, ReaderFollows DEF ReaderInv, Reached
  <2>14. CASE Kept(r, l)
    <3>2. Only(v.output, F) = Only(w.output, F) \o Only(new, F)
      <4>1. Before(w, r, lines, d, l)
        BY <2>7, <2>13, <2>14 DEF Before
      <4>2. Only(WriteLine(w, l, d, o).output, F) = Only(w.output, F) \o Only(new, F)
        BY <2>11, <4>1, WriteKeeps
      <4> QED BY <2>8, <4>2
    <3>3. q.kept = Append(kept, l)
      <4>1. CASE l.type = "section"
        BY <2>3, <2>4, <4>1, ReadsSection
      <4>2. CASE l.type = "keyvalue" /\ r.inSection
        BY <2>3, <2>4, <4>2, ReadsKey
      <4>3. CASE l.type \in {"none", "comment"}
        <5>1. l.type # "section" /\ l.type # "keyvalue"
          BY <4>3
        <5> QED BY <2>3, <2>4, <4>3, <5>1, ReadsOn
      <4> QED BY <2>14, <4>1, <4>2, <4>3 DEF Kept
    <3> QED BY <2>1, <2>3, <2>9, <2>10, <2>12, <3>2, <3>3
  <2>15. CASE ~Kept(r, l)
    <3>1. q.kept = kept
      <4>1. l.type # "section" /\ ~(l.type = "keyvalue" /\ r.inSection) /\ l.type \notin {"none", "comment"}
        BY <2>15 DEF Kept
      <4> QED BY <2>3, <2>4, <4>1, ReadsOn
    <3>2. new = <<>>
      <4>1. l.type \in {"none", "comment", "unknown", "section", "keyvalue"}
        BY LineKinds
      <4>2. l.type = "unknown" \/ (l.type = "keyvalue" /\ ~r.inSection)
        BY <2>15, <4>1 DEF Kept
      <4> QED BY <2>11, <2>13, <4>2 DEF Becomes, Reached
    <3>3. Only(w.output, F) \o Only(<<>>, F) = Only(w.output, F)
      <4>1. PICK out \in Seq(Lines) : out = w.output
        BY WriterParts
      <4>2. Only(out, F) \in Seq(Lines) /\ Only(<<>>, F) = <<>>
        BY OnlyEmpty, OnlyElements
      <4> QED BY <4>1, <4>2, ConcatEmptySeq
    <3> QED BY <2>1, <2>3, <2>5, <2>10, <2>12, <3>1, <3>2, <3>3
  <2> QED BY <2>14, <2>15
<1>3. ASSUME NEW lines \in Seq(Lines), NEW l \in Lines, lines \in Q PROVE Append(lines, l) \in Q
  <2> HIDE DEF Goal
  <2> QED BY <1>2, <1>3, AppendProperties
<1> HIDE DEF Q
<1>4. Seq(Lines) \subseteq Q
  BY <1>1, <1>3, SequenceInduction
<1> QED BY <1>4 DEF Q, AllKept

LEMMA RewrittenKeeps ==
    ASSUME NEW d \in Structures, NEW F, Followed(F), NEW K, Keeping(K, d, F),
           NEW lines \in Seq(Lines)
    PROVE  Only(Rewritten(lines, d), F) = K[lines]
<1>1. PICK r \in ReaderStates : r = Reader(lines)
  BY ReaderAppend, ReaderFollows DEF ReaderInv
<1>2. PICK o \in Structures : o = r.data
  BY DEF ReaderStates
<1>4. PICK kept \in Seq(Lines) : kept = r.kept
  BY DEF ReaderStates
<1>5. PICK w \in WriterStates : w = Walked(kept, d, o)
  BY WalkedType
<1>6. Only(w.output, F) = K[lines]
  <2>1. Only(Walked(Reader(lines).kept, d, o).output, F) = K[lines]
    <3>1. AllKept(K, d, o, F)
      BY WalkKeeps
    <3> QED BY <3>1 DEF AllKept
  <2> QED BY <1>1, <1>4, <1>5, <2>1
<1>7. PICK e \in WriterStates : e = WriteNewKeys(w, d, o) /\ Only(e.output, F) = Only(w.output, F)
  BY NewKeysKeep
<1>8. PICK out \in Seq(Lines) : out = e.output
  BY WriterParts
<1>9. PICK a \in Structures : a = Added(d, o)
  BY MapAdded DEF Structures
<1>10. PICK last \in Seq(Lines) : last = Generated(a) /\ Only(last, F) = <<>>
  BY GeneratedKeeps
<1>11. Only(out \o last, F) = Only(out, F) \o Only(last, F)
  BY OnlyConcat
<1>12. Only(out, F) \o <<>> = Only(out, F)
  BY OnlyElements, ConcatEmptySeq
<1>13. Rewritten(lines, d) = out \o last
  BY <1>1, <1>2, <1>4, <1>5, <1>7, <1>8, <1>9, <1>10 DEF Rewritten, LazyOutput
<1> QED BY <1>6, <1>7, <1>8, <1>10, <1>11, <1>12, <1>13

LEMMA BecomesOne ==
    ASSUME NEW d, NEW lines, NEW l \in Lines, NEW a, NEW b, Becomes(a, d, lines, l), Becomes(b, d, lines, l)
    PROVE  a = b
<1>1. l.type \in {"none", "comment", "unknown", "section", "keyvalue"}
  BY LineKinds
<1>2. CASE l.type = "keyvalue" /\ \E s : InSection(lines, Len(lines), s)
  <2>1. PICK s : InSection(lines, Len(lines), s)
    BY <1>2
  <2> QED BY <1>2, <2>1 DEF Becomes
<1>3. CASE l.type = "keyvalue" /\ \A s : ~InSection(lines, Len(lines), s)
  BY <1>3 DEF Becomes
<1>4. CASE l.type # "keyvalue"
  BY <1>1, <1>4 DEF Becomes
<1> QED BY <1>2, <1>3, <1>4

(* SectionAt, and the section a line is in. *)
LEMMA LastHeader ==
    ASSUME NEW lines, NEW i \in Nat, NEW j \in 1 .. i, lines[j].type = "section"
    PROVE  \E s : InSection(lines, i, s)
<1> DEFINE N == {n \in Nat : \E h \in 1 .. i : lines[h].type = "section" /\ n = i - h}
<1>1. i - j \in N
  OBVIOUS
<1>2. PICK n \in N : \A m \in N : n <= m
  BY <1>1, LeastNumber
<1>3. PICK h \in 1 .. i : lines[h].type = "section" /\ n = i - h
  BY <1>2
<1>4. ASSUME NEW x \in h + 1 .. i PROVE lines[x].type # "section"
  <2>1. x \in 1 .. i /\ i - x \in Nat /\ ~(n <= i - x)
    BY <1>3
  <2>2. i - x \notin N
    BY <1>2, <2>1
  <2> QED BY <2>1, <2>2
<1>5. InSection(lines, i, lines[h].name)
  BY <1>3, <1>4 DEF InSection
<1> QED BY <1>5

LEMMA SectionAtIs ==
    ASSUME NEW lines, NEW i \in Nat
    PROVE  /\ \A s : InSection(lines, i, s) => SectionAt(lines, i) = s
           /\ (\A s : ~InSection(lines, i, s)) => SectionAt(lines, i) = NoName
<1>1. PICK headers : headers = {j \in 1 .. i : lines[j].type = "section"}
  OBVIOUS
<1>2. SectionAt(lines, i) = IF headers = {} THEN NoName
                            ELSE lines[CHOOSE j \in headers : \A h \in headers : h <= j].name
  BY <1>1 DEF SectionAt
<1>3. ASSUME NEW s, InSection(lines, i, s) PROVE SectionAt(lines, i) = s
  <2>1. PICK j \in 1 .. i : /\ lines[j].type = "section" /\ lines[j].name = s
                            /\ \A h \in j + 1 .. i : lines[h].type # "section"
    BY <1>3 DEF InSection
  <2>2. j \in headers
    BY <1>1, <2>1
  <2>3. ASSUME NEW h \in headers PROVE h <= j
    <3>1. h \in 1 .. i /\ lines[h].type = "section"
      BY <1>1
    <3>2. h \notin j + 1 .. i
      BY <2>1, <3>1
    <3> QED BY <3>1, <3>2
  <2>4. \A h \in headers : h \in 1 .. i
    BY <1>1
  <2>5. ASSUME NEW g \in headers, \A h \in headers : h <= g PROVE g = j
    <3>1. g <= j /\ j <= g /\ g \in 1 .. i
      BY <2>2, <2>3, <2>4, <2>5
    <3> QED BY <3>1
  <2>6. (CHOOSE g \in headers : \A h \in headers : h <= g) = j
    BY <2>2, <2>3, <2>5
  <2> QED BY <1>2, <2>1, <2>2, <2>6
<1>4. ASSUME \A s : ~InSection(lines, i, s) PROVE SectionAt(lines, i) = NoName
  <2>1. headers = {}
    BY <1>1, <1>4, LastHeader
  <2> QED BY <1>2, <2>1
<1> QED BY <1>3, <1>4

LEMMA SectionAtAppended ==
    ASSUME NEW lines \in Seq(Lines), NEW l \in Lines, NEW i \in 1 .. Len(lines)
    PROVE  SectionAt(Append(lines, l), i) = SectionAt(lines, i)
<1>1. i \in Nat /\ i \in 0 .. Len(lines)
  BY LenProperties
<1>2. PICK longer : longer = Append(lines, l)
  OBVIOUS
<1>3. \A s : InSection(longer, i, s) <=> InSection(lines, i, s)
  BY <1>1, <1>2, SectionOfAppended
<1>4. SectionAt(longer, i) = SectionAt(lines, i)
  <2>1. CASE \E s : InSection(lines, i, s)
    <3>1. PICK s : InSection(lines, i, s)
      BY <2>1
    <3> QED BY <1>1, <1>3, <3>1, SectionAtIs
  <2>2. CASE \A s : ~InSection(lines, i, s)
    BY <1>1, <1>3, <2>2, SectionAtIs
  <2> QED BY <2>1, <2>2
<1> QED BY <1>2, <1>4

LEMMA SurvivorBecomes ==
    ASSUME data \in Structures, NEW lines \in Seq(Lines), NEW l \in Lines
    PROVE  /\ Becomes(Survivor(Append(lines, l), Len(lines) + 1), data, lines, l)
           /\ \A i \in 1 .. Len(lines) : Survivor(Append(lines, l), i) = Survivor(lines, i)
<1>1. PICK n \in Nat : n = Len(lines)
  BY LenProperties
<1>2. PICK longer \in Seq(Lines) : /\ longer = Append(lines, l) /\ longer[n + 1] = l
                                   /\ \A i \in 1 .. n : longer[i] = lines[i]
  <2>1. /\ Append(lines, l) \in Seq(Lines) /\ Append(lines, l)[Len(lines) + 1] = l
        /\ \A i \in 1 .. Len(lines) : Append(lines, l)[i] = lines[i]
    BY AppendProperties
  <2> QED BY <1>1, <2>1
<1>3. ASSUME NEW i \in 1 .. n PROVE Survivor(longer, i) = Survivor(lines, i)
  <2>1. SectionAt(longer, i) = SectionAt(lines, i)
    BY <1>1, <1>2, SectionAtAppended
  <2> QED BY <1>2, <2>1 DEF Survivor
<1>4. PICK at : at = SectionAt(longer, n + 1)
  OBVIOUS
<1>5. PICK new : new = Survivor(longer, n + 1)
  OBVIOUS
<1>6. new = CASE l.type = "comment" -> <<l>>
              [] l.type = "section" /\ Has(data, at) -> <<l>>
              [] l.type = "keyvalue" /\ HasKey(data, at, l.name) ->
                   <<UpdatedLine(l, At(Section(at), l.name))>>
              [] OTHER -> <<>>
  BY <1>2, <1>4, <1>5 DEF Survivor
<1>7. ~Has(data, NoName)
  BY NoNameAssumption, MapAt DEF Structures
<1>8. l.type = "comment" => new = <<l>>
  BY <1>6
<1>9. l.type = "section" => new = IF Has(data, l.name) THEN <<l>> ELSE <<>>
  <2>1. ASSUME l.type = "section" PROVE at = l.name
    <3>1. InSection(longer, n + 1, l.name)
      BY <1>1, <1>2, <2>1, SectionOfLast
    <3> QED BY <1>4, <3>1, SectionAtIs
  <2>2. ASSUME l.type = "section" PROVE new = IF Has(data, at) THEN <<l>> ELSE <<>>
    <3>1. l.type # "comment" /\ l.type # "keyvalue"
      BY <2>2
    <3> QED BY <1>6, <2>2, <3>1
  <2> QED BY <2>1, <2>2
<1>10. ASSUME l.type = "keyvalue", NEW s, InSection(lines, n, s)
       PROVE  new = IF HasKey(data, s, l.name) THEN <<Updated(data, s, l)>> ELSE <<>>
  <2>1. at = s
    <3>1. l.type # "section"
      BY <1>10
    <3>2. InSection(longer, n + 1, s)
      BY <1>1, <1>2, <1>10, <3>1, SectionOfLast
    <3> QED BY <1>4, <3>2, SectionAtIs
  <2>2. l.type # "comment" /\ l.type # "section"
    BY <1>10
  <2>3. Has(data, s) => Section(s) = At(data, s)
    BY DEF Section
  <2>4. CASE HasKey(data, s, l.name)
    <3>1. new = <<UpdatedLine(l, At(Section(at), l.name))>>
      BY <1>6, <1>10, <2>1, <2>2, <2>4
    <3> QED BY <2>1, <2>3, <2>4, <3>1 DEF HasKey, Updated
  <2>5. CASE ~HasKey(data, s, l.name)
    BY <1>6, <1>10, <2>1, <2>2, <2>5
  <2> QED BY <2>4, <2>5
<1>11. ASSUME l.type = "keyvalue", \A s : ~InSection(lines, n, s) PROVE new = <<>>
  <2>1. l.type # "comment" /\ l.type # "section"
    BY <1>11
  <2>2. \A s : ~InSection(longer, n + 1, s)
    <3>1. ASSUME NEW s, InSection(longer, n + 1, s) PROVE FALSE
      <4>1. PICK j \in 1 .. n + 1 : /\ longer[j].type = "section" /\ longer[j].name = s
                                    /\ \A h \in j + 1 .. n + 1 : longer[h].type # "section"
        BY <3>1 DEF InSection
      <4>2. j # n + 1
        BY <1>2, <2>1, <4>1
      <4>3. j \in 1 .. n
        BY <4>1, <4>2
      <4>4. lines[j].type = "section"
        BY <1>2, <4>1, <4>3
      <4> QED BY <1>11, <4>3, <4>4, LastHeader
    <3> QED BY <3>1
  <2>3. at = NoName
    BY <1>4, <2>2, SectionAtIs
  <2> QED BY <1>6, <1>7, <1>11, <2>1, <2>3 DEF HasKey
<1>12. ASSUME l.type \in {"none", "unknown"} PROVE new = <<>>
  <2>1. l.type # "comment" /\ l.type # "section" /\ l.type # "keyvalue"
    BY <1>12
  <2> QED BY <1>6, <2>1
<1>13. Becomes(new, data, lines, l)
  BY <1>1, <1>8, <1>9, <1>10, <1>11, <1>12 DEF Becomes
<1> QED BY <1>1, <1>2, <1>3, <1>5, <1>13

Survivors(lines) == [i \in DOMAIN lines |-> Survivor(lines, i)]

LEMMA SurvivorsAppended ==
    ASSUME data \in Structures, NEW lines \in Seq(Lines), NEW l \in Lines, Survivors(lines) \in Seq(Seq(Lines))
    PROVE  /\ Survivors(Append(lines, l)) = Append(Survivors(lines), Survivor(Append(lines, l), Len(lines) + 1))
           /\ Survivor(Append(lines, l), Len(lines) + 1) \in Seq(Lines)
<1>1. PICK n \in Nat : n = Len(lines) /\ DOMAIN lines = 1 .. n
  BY LenProperties
<1>2. PICK longer \in Seq(Lines) : longer = Append(lines, l) /\ DOMAIN longer = 1 .. n + 1
  <2>1. Append(lines, l) \in Seq(Lines) /\ Len(Append(lines, l)) = Len(lines) + 1
    BY AppendProperties
  <2>2. DOMAIN Append(lines, l) = 1 .. Len(Append(lines, l))
    BY <2>1, LenProperties
  <2> QED BY <1>1, <2>1, <2>2
<1>3. PICK new : new = Survivor(longer, n + 1)
  OBVIOUS
<1>4. /\ Becomes(new, data, lines, l)
      /\ \A i \in 1 .. n : Survivor(longer, i) = Survivor(lines, i)
  BY <1>1, <1>2, <1>3, SurvivorBecomes
<1>5. new \in Seq(Lines)
  <2>1. PICK one \in Seq(Lines) : Becomes(one, data, lines, l)
    BY BecomesLines
  <2>2. one = new
    BY <1>4, <2>1, BecomesOne
  <2> QED BY <2>1, <2>2
<1>6. PICK old \in Seq(Seq(Lines)) : old = Survivors(lines)
  OBVIOUS
<1>7. Len(old) = n /\ \A i \in 1 .. n : old[i] = Survivor(lines, i)
  <2>1. DOMAIN old = 1 .. n /\ \A i \in 1 .. n : old[i] = Survivor(lines, i)
    BY <1>1, <1>6 DEF Survivors
  <2> QED BY <2>1, LenProperties
<1>8. PICK more \in Seq(Seq(Lines)) :
         /\ more = Append(old, new) /\ Len(more) = n + 1 /\ more[n + 1] = new
         /\ \A i \in 1 .. n : more[i] = old[i]
  <2>1. /\ Append(old, new) \in Seq(Seq(Lines)) /\ Len(Append(old, new)) = Len(old) + 1
        /\ Append(old, new)[Len(old) + 1] = new
        /\ \A i \in 1 .. Len(old) : Append(old, new)[i] = old[i]
    BY <1>5, AppendProperties
  <2> QED BY <1>7, <2>1
<1>9. PICK all : all = Survivors(longer)
  OBVIOUS
<1>10. DOMAIN all = 1 .. n + 1 /\ \A i \in 1 .. n + 1 : all[i] = Survivor(longer, i)
  BY <1>2, <1>9 DEF Survivors
<1>11. all = more
  <2>1. \A i \in 1 .. n + 1 : i \in 1 .. n \/ i = n + 1
    OBVIOUS
  <2>2. \A i \in 1 .. n + 1 : all[i] = more[i]
    BY <1>3, <1>4, <1>7, <1>8, <1>10, <2>1
  <2>3. DOMAIN more = 1 .. n + 1 /\ more = [i \in 1 .. n + 1 |-> more[i]]
    BY <1>8, LenProperties
  <2>4. all = [i \in 1 .. n + 1 |-> Survivor(longer, i)]
    BY <1>2, <1>9 DEF Survivors
  <2> QED BY <1>10, <2>2, <2>3, <2>4
<1> QED BY <1>1, <1>2, <1>3, <1>5, <1>6, <1>8, <1>9, <1>11

LEMMA SurvivorsType ==
    ASSUME data \in Structures
    PROVE  \A lines \in Seq(Lines) : Survivors(lines) \in Seq(Seq(Lines))
<1> DEFINE Q == {lines \in Seq(Lines) : Survivors(lines) \in Seq(Seq(Lines))}
<1>1. <<>> \in Q
  <2>1. Survivors(<<>>) = <<>>
    BY DEF Survivors
  <2> QED BY <2>1, EmptySeq
<1>2. ASSUME NEW lines \in Seq(Lines), NEW l \in Lines, lines \in Q PROVE Append(lines, l) \in Q
  <2>1. PICK old \in Seq(Seq(Lines)) : old = Survivors(lines)
    BY <1>2
  <2>2. PICK new \in Seq(Lines) : Survivors(Append(lines, l)) = Append(old, new)
    BY <2>1, SurvivorsAppended
  <2>3. Append(old, new) \in Seq(Seq(Lines)) /\ Append(lines, l) \in Seq(Lines)
    BY AppendProperties
  <2> QED BY <2>2, <2>3
<1> HIDE DEF Q
<1>3. Seq(Lines) \subseteq Q
  BY <1>1, <1>2, SequenceInduction
<1> QED BY <1>3 DEF Q

LEMMA WritesKeepHandwork ==
    ASSUME data \in Structures, NEW lines \in Seq(Lines)
    PROVE  ByHand(Rewritten(lines, data)) = ByHand(FlattenSeq(Survivors(lines)))
<1>1. PICK F : F = {l \in Lines : l.byHand /\ l.type # "none"}
  OBVIOUS
<1>2. Followed(F) /\ \A s : ByHand(s) = Only(s, F)
  BY <1>1 DEF Followed, ByHand
<1>3. PICK K : K = [s \in Seq(Lines) |-> Only(FlattenSeq(Survivors(s)), F)]
  OBVIOUS
<1>4. \A s \in Seq(Lines) : K[s] = Only(FlattenSeq(Survivors(s)), F)
  BY <1>3
<1>5. K[<<>>] = <<>>
  <2>1. Survivors(<<>>) = <<>> /\ FlattenSeq(<<>>) = <<>>
    BY DEF Survivors, FlattenSeq
  <2> QED BY <1>4, <2>1, OnlyEmpty, EmptySeq
<1>6. ASSUME NEW s \in Seq(Lines), NEW l \in Lines, NEW new \in Seq(Lines), Becomes(new, data, s, l)
      PROVE  K[Append(s, l)] = K[s] \o Only(new, F)
  <2>1. PICK old \in Seq(Seq(Lines)) : old = Survivors(s)
    BY SurvivorsType
  <2>2. Survivor(Append(s, l), Len(s) + 1) = new
    <3>1. Becomes(Survivor(Append(s, l), Len(s) + 1), data, s, l)
      BY SurvivorBecomes
    <3> QED BY <1>6, <3>1, BecomesOne
  <2>3. Survivors(Append(s, l)) = Append(old, new)
    BY <2>1, <2>2, SurvivorsAppended
  <2>4. PICK flat \in Seq(Lines) : flat = FlattenSeq(old)
    BY FlattenAppend, EmptySeq
  <2>5. FlattenSeq(Append(old, new)) = flat \o new
    BY <2>4, FlattenAppend
  <2>6. Only(flat \o new, F) = Only(flat, F) \o Only(new, F)
    BY OnlyConcat
  <2>7. Append(s, l) \in Seq(Lines)
    BY AppendProperties
  <2> QED BY <1>4, <2>1, <2>3, <2>4, <2>5, <2>6, <2>7
<1>7. Keeping(K, data, F)
  BY <1>5, <1>6 DEF Keeping
<1>8. Only(Rewritten(lines, data), F) = K[lines]
  BY <1>2, <1>7, RewrittenKeeps
<1> QED BY <1>2, <1>4, <1>8

(* Where everything is plain the comments of a file are the comments of    *)
(* the file that is written over it, however the structure differs.        *)
LEMMA CommentsKept ==
    ASSUME PlainTexts, NEW lines \in Seq(Lines), NEW d \in Structures
    PROVE  Comments(Rewritten(lines, d)) = Comments(lines)
<1>1. PICK F : F = {l \in Lines : l.type = "comment"}
  OBVIOUS
<1>2. Followed(F) /\ \A s : Comments(s) = Only(s, F)
  BY <1>1 DEF Followed, Comments
<1>3. PICK K : K = [s \in Seq(Lines) |-> Only(s, F)]
  OBVIOUS
<1>4. \A s \in Seq(Lines) : K[s] = Only(s, F)
  BY <1>3
<1>5. K[<<>>] = <<>>
  BY <1>4, OnlyEmpty, EmptySeq
<1>6. ASSUME NEW s \in Seq(Lines), NEW l \in Lines, NEW new \in Seq(Lines), Becomes(new, d, s, l)
      PROVE  K[Append(s, l)] = K[s] \o Only(new, F)
  <2>1. Append(s, l) \in Seq(Lines) /\ K[Append(s, l)] = Only(s, F) \o Only(<<l>>, F)
    BY <1>4, OnlyOne, AppendProperties
  <2>2. Only(<<l>>, F) = Only(new, F)
    <3>1. CASE l.type = "comment"
      BY <1>6, <3>1 DEF Becomes
    <3>2. CASE l.type # "comment"
      <4>1. \A x \in Lines : x.type # "comment" => Only(<<x>>, F) = <<>>
        <5>1. ASSUME NEW x \in Lines, x.type # "comment" PROVE Only(<<x>>, F) = <<>>
          <6>0. <<x>> \in Seq(Lines)
            OBVIOUS
          <6>1. PICK one \in Seq(Lines) : one = <<x>>
            BY <6>0
          <6>2. \A i \in DOMAIN one : one[i] \notin F
            BY <1>1, <5>1, <6>1
          <6> QED BY <6>1, <6>2, OnlyNone
        <5> QED BY <5>1
      <4>2. new = <<>> \/ \E x \in Lines : x.type # "comment" /\ new = <<x>>
        <5>1. l.type \in {"none", "unknown", "section", "keyvalue"}
          BY <3>2, LineKinds
        <5>2. CASE l.type \in {"none", "unknown"}
          BY <1>6, <5>2 DEF Becomes
        <5>3. CASE l.type = "section"
          BY <1>6, <3>2, <5>3 DEF Becomes
        <5>4. CASE l.type = "keyvalue" /\ \A t : ~InSection(s, Len(s), t)
          BY <1>6, <5>4 DEF Becomes
        <5>5. CASE l.type = "keyvalue" /\ \E t : InSection(s, Len(s), t)
          <6>1. PICK t : InSection(s, Len(s), t)
            BY <5>5
          <6>2. new = IF HasKey(d, t, l.name) THEN <<Updated(d, t, l)>> ELSE <<>>
            BY <1>6, <5>5, <6>1 DEF Becomes
          <6>3. HasKey(d, t, l.name) => Updated(d, t, l) \in Lines /\ Updated(d, t, l).type # "comment"
            <7>1. Fits(l, d)
              BY PlainFits
            <7> QED BY <5>5, <7>1, UpdatedType DEF HasKey
          <6> QED BY <6>2, <6>3
        <5> QED BY <5>1, <5>2, <5>3, <5>4, <5>5
      <4> QED BY <3>2, <4>1, <4>2, OnlyEmpty
    <3> QED BY <3>1, <3>2
  <2> QED BY <1>4, <2>1, <2>2
<1>7. Keeping(K, d, F)
  BY <1>5, <1>6 DEF Keeping
<1>8. Only(Rewritten(lines, d), F) = K[lines]
  BY <1>2, <1>7, RewrittenKeeps
<1> QED BY <1>2, <1>4, <1>8

(* What the README says of a lazy write: it "preserves custom formatting   *)
(* and comments".  Every line of the old file that is still of use is in   *)
(* the new one, in its place among the others, with nothing but the value  *)
(* changed, whatever the file, the structure and the texts.                *)
THEOREM WritesKeepTheFile == INISpec => HandworkKept
<1>1. INIInv /\ [ININext]_iniVars
      => [Write /\ disk.exists =>
            ByHand(disk'.lines)
            = ByHand(FlattenSeq([i \in DOMAIN disk.lines |-> Survivor(disk.lines, i)]))]_iniVars
  <2> SUFFICES ASSUME INIInv, Write, disk.exists
               PROVE  ByHand(disk'.lines)
                      = ByHand(FlattenSeq([i \in DOMAIN disk.lines |-> Survivor(disk.lines, i)]))
    OBVIOUS
  <2>1. data \in Structures /\ disk.lines \in Seq(Lines)
    BY DEF INIInv
  <2>2. disk'.lines = Rewritten(disk.lines, data)
    BY DEF Write, Written
  <2>3. ByHand(Rewritten(disk.lines, data)) = ByHand(FlattenSeq(Survivors(disk.lines)))
    BY <2>1, WritesKeepHandwork
  <2> QED BY <2>2, <2>3 DEF Survivors
<1> QED BY <1>1, INIInvInit, INIInvStep, PTL DEF INISpec, HandworkKept

-----------------------------------------------------------------------------
(* The constructor of the server. *)

Members == Values \cup {UInt(v) : v \in Values}

(* Values as a file can have them. *)
Trimmed(m) == \A s, k : HasKey(m, s, k) => Carried(m, s, k) = At(At(m, s), k)

ConfigStates == {c \in [ini : Structures, settings : Seq(Members)] : Trimmed(c.ini)}

Effective(m, x) == IF Missing(x, Entry(m, x)) THEN x.default ELSE Entry(m, x)

LEMMA SettingsAre ==
    /\ Len(Settings) \in Nat /\ DOMAIN Settings = 1 .. Len(Settings)
    /\ \A i \in DOMAIN Settings :
          /\ Settings[i].section \in Sections /\ Settings[i].key \in Keys
          /\ Settings[i].kind \in Kinds /\ Settings[i].default \in Values
          /\ ~Missing(Settings[i], Settings[i].default)
          /\ Trim[Settings[i].default] = Settings[i].default
<1>1. Len(Settings) \in Nat /\ DOMAIN Settings = 1 .. Len(Settings)
  BY SettingsAssumption, LenProperties
<1>2. \A i \in DOMAIN Settings : Settings[i] \in [section : Sections, key : Keys, kind : Kinds, default : Values]
  BY <1>1, SettingsAssumption, ElementOfSeq
<1>3. \A i \in DOMAIN Settings : ~Missing(Settings[i], Settings[i].default) /\ Trim[Settings[i].default] = Settings[i].default
  BY DefaultsAssumption
<1> QED BY <1>1, <1>2, <1>3

LEMMA EntryIs ==
    ASSUME NEW d \in Structures, NEW x
    PROVE  /\ Entry(d, x) = IF HasKey(d, x.section, x.key) THEN At(At(d, x.section), x.key) ELSE Empty
           /\ Entry(d, x) \in Values
<1>1. Entry(d, x) = IF HasKey(d, x.section, x.key) THEN At(At(d, x.section), x.key) ELSE Empty
  BY DEF Entry, HasKey
<1>2. HasKey(d, x.section, x.key) => At(At(d, x.section), x.key) \in Values
  BY MapValue
<1> QED BY <1>1, <1>2, NumberAssumption

LEMMA Assigns ==
    ASSUME NEW d \in Structures, NEW x, x.section \in Sections, x.key \in Keys, NEW v \in Values
    PROVE  /\ Assign(d, x, v) \in Structures
           /\ HasKey(Assign(d, x, v), x.section, x.key)
           /\ At(At(Assign(d, x, v), x.section), x.key) = v
           /\ \A s, k : s # x.section \/ k # x.key =>
                /\ HasKey(Assign(d, x, v), s, k) <=> HasKey(d, s, k)
                /\ HasKey(d, s, k) => At(At(Assign(d, x, v), s), k) = At(At(d, s), k)
<1>1. PICK t \in Sections, key \in Keys : t = x.section /\ key = x.key
  OBVIOUS
<1>2. PICK c : c = IF Has(d, t) THEN At(d, t) ELSE <<>>
  OBVIOUS
<1>3. c \in Collections
  BY <1>2, MapAt, MapEmpty DEF Structures, Collections
<1>4. PICK e : e = Put(c, key, v)
  OBVIOUS
<1>5. /\ e \in Collections /\ Has(e, key) /\ At(e, key) = v
      /\ \A k : k # key => (Has(e, k) <=> Has(c, k)) /\ (Has(c, k) => At(e, k) = At(c, k))
  BY <1>3, <1>4, MapPut DEF Collections
<1>6. PICK n : n = Put(d, t, e)
  OBVIOUS
<1>7. /\ n \in Structures /\ Has(n, t) /\ At(n, t) = e
      /\ \A s : s # t => (Has(n, s) <=> Has(d, s)) /\ (Has(d, s) => At(n, s) = At(d, s))
  BY <1>5, <1>6, MapPut DEF Structures
<1>8. Assign(d, x, v) = n
  BY <1>1, <1>2, <1>4, <1>6 DEF Assign
<1>9. ASSUME NEW s, NEW k, s # t \/ k # key
      PROVE  (HasKey(n, s, k) <=> HasKey(d, s, k)) /\ (HasKey(d, s, k) => At(At(n, s), k) = At(At(d, s), k))
  <2>1. CASE s # t
    BY <1>7, <2>1 DEF HasKey
  <2>2. CASE s = t /\ k # key /\ Has(d, t)
    BY <1>2, <1>5, <1>7, <2>2 DEF HasKey
  <2>3. CASE s = t /\ k # key /\ ~Has(d, t)
    <3>1. ~Has(c, k)
      BY <1>2, <2>3, MapEmpty
    <3> QED BY <1>5, <1>7, <2>3, <3>1 DEF HasKey
  <2> QED BY <1>9, <2>1, <2>2, <2>3
<1>10. HasKey(n, t, key) /\ At(At(n, t), key) = v
  BY <1>5, <1>7 DEF HasKey
<1> QED BY <1>1, <1>7, <1>8, <1>9, <1>10

LEMMA EmptyIsMissing == \A x : Missing(x, Empty)
<1>1. Number[Empty] = 0 /\ UIntValues \in Nat \ {0}
  BY NumberAssumption
<1>2. 0 % UIntValues = 0
  BY <1>1
<1>3. UInt(Empty) = 0
  BY <1>1, <1>2 DEF UInt
<1> QED BY <1>3 DEF Missing

LEMMA EffectiveIs ==
    ASSUME NEW d \in Structures, NEW i \in DOMAIN Settings
    PROVE  /\ Effective(d, Settings[i]) \in Values
           /\ ~Missing(Settings[i], Effective(d, Settings[i]))
           /\ Trimmed(d) => Trim[Effective(d, Settings[i])] = Effective(d, Settings[i])
<1>1. PICK x : x = Settings[i]
  OBVIOUS
<1>2. x.default \in Values /\ ~Missing(x, x.default) /\ Trim[x.default] = x.default
  BY <1>1, SettingsAre
<1>3. /\ Entry(d, x) \in Values
      /\ Entry(d, x) = IF HasKey(d, x.section, x.key) THEN At(At(d, x.section), x.key) ELSE Empty
  BY EntryIs
<1>4. Trimmed(d) /\ HasKey(d, x.section, x.key) => Trim[At(At(d, x.section), x.key)] = At(At(d, x.section), x.key)
  BY DEF Trimmed, Carried
<1>5. Effective(d, x) \in Values /\ ~Missing(x, Effective(d, x))
  BY <1>2, <1>3 DEF Effective
<1>6. Trimmed(d) => Trim[Effective(d, x)] = Effective(d, x)
  BY <1>2, <1>3, <1>4, EmptyIsMissing DEF Effective
<1> QED BY <1>1, <1>5, <1>6

LEMMA ConfigureDoes ==
    ASSUME NEW c \in ConfigStates, NEW i \in DOMAIN Settings
    PROVE  /\ Configure(c, Settings[i]) \in ConfigStates
           /\ Configure(c, Settings[i]).settings
              = Append(c.settings, Member(Settings[i], Effective(c.ini, Settings[i])))
           /\ Member(Settings[i], Effective(c.ini, Settings[i])) \in Members
           /\ Configure(c, Settings[i]).ini = Assign(c.ini, Settings[i], Effective(c.ini, Settings[i]))
<1>1. PICK x : x = Settings[i]
  OBVIOUS
<1>2. x.section \in Sections /\ x.key \in Keys
  BY <1>1, SettingsAre
<1>3. PICK d \in Structures : d = c.ini /\ Trimmed(d)
  BY DEF ConfigStates
<1>4. PICK v \in Values : v = Effective(d, x) /\ Trim[v] = v
  BY <1>1, <1>3, EffectiveIs
<1>5. PICK old \in Seq(Members) : old = c.settings
  BY DEF ConfigStates
<1>6. Configure(c, x) = [ini |-> Assign(d, x, v), settings |-> Append(old, Member(x, v))]
  BY <1>3, <1>4, <1>5 DEF Configure, Effective
<1>7. Member(x, v) \in Members
  BY DEF Member, Members
<1>8. Append(old, Member(x, v)) \in Seq(Members)
  BY <1>7, AppendProperties
<1>9. PICK n : n = Assign(d, x, v)
  OBVIOUS
<1>10. /\ n \in Structures /\ HasKey(n, x.section, x.key) /\ At(At(n, x.section), x.key) = v
       /\ \A s, k : s # x.section \/ k # x.key =>
            /\ HasKey(n, s, k) <=> HasKey(d, s, k)
            /\ HasKey(d, s, k) => At(At(n, s), k) = At(At(d, s), k)
  BY <1>2, <1>9, Assigns
<1>11. Trimmed(n)
  <2>1. ASSUME NEW s, NEW k, HasKey(n, s, k) PROVE Trim[At(At(n, s), k)] = At(At(n, s), k)
    <3>1. CASE s = x.section /\ k = x.key
      BY <1>4, <1>10, <3>1
    <3>2. CASE s # x.section \/ k # x.key
      <4>1. HasKey(d, s, k) /\ At(At(n, s), k) = At(At(d, s), k)
        BY <1>10, <2>1, <3>2
      <4> QED BY <1>3, <4>1 DEF Trimmed, Carried
    <3> QED BY <3>1, <3>2
  <2> QED BY <2>1 DEF Trimmed, Carried
<1>12. Configure(c, x) \in ConfigStates
  BY <1>6, <1>8, <1>9, <1>10, <1>11 DEF ConfigStates
<1>13. Configure(c, x).ini = Assign(d, x, v) /\ Configure(c, x).settings = Append(old, Member(x, v))
  BY <1>6
<1> QED BY <1>1, <1>3, <1>4, <1>5, <1>7, <1>12, <1>13

(* The constructor, setting by setting. *)
LEMMA ConfigureSteps ==
    ASSUME NEW b \in ConfigStates, NEW h \in [0 .. Len(Settings) -> ConfigStates],
           h[0] = b, \A i \in 1 .. Len(Settings) : h[i] = Configure(h[i - 1], Settings[i])
    PROVE  FoldLeft(Configure, b, Settings) = h[Len(Settings)]
<1>1. PICK n \in Nat : n = Len(Settings) /\ DOMAIN Settings = 1 .. n
  BY SettingsAre, Zenon
<1> DEFINE g == [p \in (1 .. n) \X ConfigStates |-> Configure(p[2], Settings[p[1]])]
           Recursion(F) == F = [p \in SUBSET (1 .. n) |->
                                  IF p = {} THEN b ELSE Configure(F[p \ {Max(p)}], Settings[Max(p)])]
<1>3. \E F : Recursion(F)
  <2>1. g \in [(1 .. n) \X ConfigStates -> ConfigStates]
    BY <1>1, ConfigureDoes
  <2>2. PICK F \in [SUBSET (1 .. n) -> ConfigStates] : Folding(F, b, n, g)
    <3> HIDE DEF g
    <3> QED BY <2>1, FoldExists
  <2>3. ASSUME NEW p \in SUBSET (1 .. n), p # {} PROVE F[p] = Configure(F[p \ {Max(p)}], Settings[Max(p)])
    <3>1. Max(p) \in 1 .. n
      BY <2>3, MaxIsMember
    <3>2. p \ {Max(p)} \in SUBSET (1 .. n) /\ F[p \ {Max(p)}] \in ConfigStates
      BY <2>2
    <3>3. <<Max(p), F[p \ {Max(p)}]>> \in (1 .. n) \X ConfigStates
      BY <3>1, <3>2
    <3>4. F[p] = g[<<Max(p), F[p \ {Max(p)}]>>]
      <4> HIDE DEF g
      <4> QED BY <2>2, <2>3 DEF Folding
    <3> QED BY <3>3, <3>4
  <2>4. F[{}] = b
    BY <2>2 DEF Folding
  <2>5. Recursion(F)
    BY <2>2, <2>3, <2>4
  <2> HIDE DEF Recursion
  <2> QED BY <2>5
<1>4. PICK F : F = CHOOSE G : Recursion(G)
  OBVIOUS
<1>5. FoldLeft(Configure, b, Settings) = F[1 .. n]
  BY <1>1, <1>4 DEF FoldLeft, MapThenFoldSet
<1>6. Recursion(F)
  <2> HIDE DEF Recursion
  <2> QED BY <1>3, <1>4
<1> DEFINE Q == {i \in Nat : i <= n => F[1 .. i] = h[i]}
<1>7. 0 \in Q
  <2>1. 1 .. 0 = {} /\ {} \in SUBSET (1 .. n)
    OBVIOUS
  <2>2. F[{}] = b
    BY <1>6, <2>1
  <2> QED BY <2>1, <2>2
<1>8. ASSUME NEW i \in Nat, i \in Q PROVE i + 1 \in Q
  <2> SUFFICES ASSUME i + 1 <= n PROVE F[1 .. i + 1] = h[i + 1]
    OBVIOUS
  <2>1. /\ Max(1 .. i + 1) = i + 1 /\ (1 .. i + 1) \ {i + 1} = 1 .. i /\ 1 .. i + 1 # {}
        /\ i + 1 \in 1 .. n /\ (i + 1) - 1 = i /\ i <= n /\ 1 .. i + 1 \in SUBSET (1 .. n)
    <3>1. (i + 1) - 1 = i /\ i + 1 # 0 /\ i + 1 \in 1 .. n /\ i <= n /\ 1 .. i + 1 \in SUBSET (1 .. n)
      OBVIOUS
    <3>2. PICK j \in Nat : j = i + 1 /\ j # 0 /\ j - 1 = i
      OBVIOUS
    <3>3. Max(1 .. j) = j /\ (1 .. j) \ {j} = 1 .. (j - 1) /\ 1 .. j # {}
      BY <3>2, Interval
    <3> QED BY <3>1, <3>2, <3>3, Zenon
  <2>2. F[1 .. i + 1] = Configure(F[1 .. i], Settings[i + 1])
    <3>1. \A p \in SUBSET (1 .. n) : p # {} => F[p] = Configure(F[p \ {Max(p)}], Settings[Max(p)])
      BY <1>6
    <3> HIDE DEF Recursion
    <3> QED BY <2>1, <3>1
  <2>3. h[i + 1] = Configure(h[i], Settings[i + 1])
    BY <1>1, <2>1
  <2> QED BY <1>8, <2>1, <2>2, <2>3
<1> HIDE DEF Q
<1>9. n \in Q
  BY <1>7, <1>8, NumberInduction
<1> QED BY <1>1, <1>5, <1>9 DEF Q


LEMMA ConfigureLadder ==
    ASSUME NEW b \in ConfigStates
    PROVE  \E h \in [0 .. Len(Settings) -> ConfigStates] :
              /\ h[0] = b
              /\ \A i \in 1 .. Len(Settings) : h[i] = Configure(h[i - 1], Settings[i])
              /\ FoldLeft(Configure, b, Settings) = h[Len(Settings)]
<1>1. PICK n \in Nat : n = Len(Settings) /\ DOMAIN Settings = 1 .. n
  BY SettingsAre, Zenon
<1> DEFINE g == [p \in (1 .. n) \X ConfigStates |-> Configure(p[2], Settings[p[1]])]
<1>2. g \in [(1 .. n) \X ConfigStates -> ConfigStates]
  BY <1>1, ConfigureDoes
<1>3. PICK h \in [0 .. n -> ConfigStates] : Stepping(h, b, n, g)
  <2> HIDE DEF g
  <2> QED BY <1>2, StepsExist
<1>4. h[0] = b /\ \A i \in 1 .. n : h[i] = g[<<i, h[i - 1]>>]
  BY <1>3 DEF Stepping
<1>5. ASSUME NEW i \in 1 .. n PROVE h[i] = Configure(h[i - 1], Settings[i])
  <2>1. i - 1 \in 0 .. n
    OBVIOUS
  <2>2. <<i, h[i - 1]>> \in (1 .. n) \X ConfigStates
    BY <2>1
  <2> QED BY <1>4, <2>2
<1>6. FoldLeft(Configure, b, Settings) = h[n]
  <2> HIDE DEF g
  <2> QED BY <1>1, <1>4, <1>5, ConfigureSteps
<1> QED BY <1>1, <1>4, <1>5, <1>6

(* A value that a setting replaces by its default. *)
Defaulted(s, k, v) ==
    \E i \in DOMAIN Settings : Settings[i].section = s /\ Settings[i].key = k /\ Missing(Settings[i], v)

Keeps(m, e) ==
    \A s, k : HasKey(e, s, k) =>
       /\ HasKey(m, s, k)
       /\ At(At(m, s), k) = At(At(e, s), k) \/ Defaulted(s, k, At(At(e, s), k))

SameSettings(m, e) == \A i \in DOMAIN Settings : Effective(m, Settings[i]) = Effective(e, Settings[i])

(* What a server makes of a structure is derived from it: it serves the    *)
(* server for the same settings, and has all its values but those that are *)
(* replaced.                                                               *)
Derived(m, e) == Keeps(m, e) /\ SameSettings(m, e)

LEMMA DerivedFromItself == \A e : Derived(e, e)
BY DEF Derived, Keeps, SameSettings

LEMMA DerivedTwice ==
    ASSUME NEW m, NEW l, NEW e, Derived(m, l), Derived(l, e)
    PROVE  Derived(m, e)
<1>1. SameSettings(m, e)
  BY DEF Derived, SameSettings
<1>2. ASSUME NEW s, NEW k, HasKey(e, s, k)
      PROVE  /\ HasKey(m, s, k)
             /\ At(At(m, s), k) = At(At(e, s), k) \/ Defaulted(s, k, At(At(e, s), k))
  <2>1. /\ HasKey(l, s, k)
        /\ At(At(l, s), k) = At(At(e, s), k) \/ Defaulted(s, k, At(At(e, s), k))
    BY <1>2 DEF Derived, Keeps
  <2>2. /\ HasKey(m, s, k)
        /\ At(At(m, s), k) = At(At(l, s), k) \/ Defaulted(s, k, At(At(l, s), k))
    BY <2>1 DEF Derived, Keeps
  <2> QED BY <2>1, <2>2
<1> QED BY <1>1, <1>2 DEF Derived, Keeps

(* How far the constructor has come with the settings of a structure. *)
Come(c, i, e) ==
    /\ Len(c.settings) = i
    /\ \A j \in 1 .. i : c.settings[j] = Member(Settings[j], Effective(e, Settings[j]))
    /\ \A j \in 1 .. i : Entry(c.ini, Settings[j]) = Effective(e, Settings[j])
    /\ \A j \in i + 1 .. Len(Settings) : Entry(c.ini, Settings[j]) = Entry(e, Settings[j])
    /\ Keeps(c.ini, e)

LEMMA ReachesNext ==
    ASSUME NEW c \in ConfigStates, NEW e \in Structures, NEW i \in Nat, i + 1 \in DOMAIN Settings, Come(c, i, e),
           NEW q, q = Configure(c, Settings[i + 1])
    PROVE  Come(q, i + 1, e)
<1>1. PICK n \in Nat : n = Len(Settings) /\ DOMAIN Settings = 1 .. n
  BY SettingsAre
<1>2. PICK x : x = Settings[i + 1]
  OBVIOUS
<1>3. x.section \in Sections /\ x.key \in Keys
  BY <1>2, SettingsAre
<1>4. PICK d \in Structures : d = c.ini
  BY DEF ConfigStates
<1>5. PICK v \in Values : v = Effective(d, x)
  BY <1>2, EffectiveIs
<1>6. PICK old \in Seq(Members) : old = c.settings
  BY DEF ConfigStates
<1>7. PICK u \in Members : u = Member(x, v)
  BY <1>2, <1>4, <1>5, ConfigureDoes
<1>8. q.settings = Append(old, u) /\ q.ini = Assign(d, x, v)
  BY <1>2, <1>4, <1>5, <1>6, <1>7, ConfigureDoes
<1>9. PICK m : m = Assign(d, x, v)
  OBVIOUS
<1>10. /\ m \in Structures /\ HasKey(m, x.section, x.key) /\ At(At(m, x.section), x.key) = v
       /\ \A s, k : s # x.section \/ k # x.key =>
            /\ HasKey(m, s, k) <=> HasKey(d, s, k)
            /\ HasKey(d, s, k) => At(At(m, s), k) = At(At(d, s), k)
  BY <1>3, <1>9, Assigns
<1>11. /\ Len(old) = i
       /\ \A j \in 1 .. i : old[j] = Member(Settings[j], Effective(e, Settings[j]))
       /\ \A j \in 1 .. i : Entry(d, Settings[j]) = Effective(e, Settings[j])
       /\ \A j \in i + 1 .. n : Entry(d, Settings[j]) = Entry(e, Settings[j])
       /\ Keeps(d, e)
  BY <1>1, <1>4, <1>6 DEF Come
<1>12. v = Effective(e, x) /\ (v = Entry(e, x) \/ Missing(x, Entry(e, x)))
  <2>1. i + 1 \in i + 1 .. n
    BY <1>1
  <2>2. Entry(d, x) = Entry(e, x)
    BY <1>2, <1>11, <2>1
  <2> QED BY <1>5, <2>2 DEF Effective
<1>13. Entry(m, x) = v
  BY <1>10, EntryIs
<1>14. ASSUME NEW j \in DOMAIN Settings, j # i + 1 PROVE Entry(m, Settings[j]) = Entry(d, Settings[j])
  <2>1. PICK y : y = Settings[j]
    OBVIOUS
  <2>2. y.section # x.section \/ y.key # x.key
    BY <1>2, <1>14, <2>1, DefaultsAssumption
  <2>3. /\ HasKey(m, y.section, y.key) <=> HasKey(d, y.section, y.key)
        /\ HasKey(d, y.section, y.key) => At(At(m, y.section), y.key) = At(At(d, y.section), y.key)
    BY <1>10, <2>2
  <2> QED BY <1>10, <2>1, <2>3, EntryIs
<1>15. /\ Len(q.settings) = i + 1
       /\ \A j \in 1 .. i + 1 : q.settings[j] = Member(Settings[j], Effective(e, Settings[j]))
  <2>1. /\ Len(Append(old, u)) = i + 1 /\ Append(old, u)[i + 1] = u
        /\ \A j \in 1 .. i : Append(old, u)[j] = old[j]
    BY <1>11, AppendProperties
  <2>2. \A j \in 1 .. i + 1 : j \in 1 .. i \/ j = i + 1
    OBVIOUS
  <2>3. u = Member(Settings[i + 1], Effective(e, Settings[i + 1]))
    BY <1>2, <1>7, <1>12
  <2> QED BY <1>8, <1>11, <2>1, <2>2, <2>3
<1>16. /\ \A j \in 1 .. i + 1 : Entry(m, Settings[j]) = Effective(e, Settings[j])
       /\ \A j \in (i + 1) + 1 .. n : Entry(m, Settings[j]) = Entry(e, Settings[j])
  <2>1. /\ \A j \in 1 .. i + 1 : (j \in 1 .. i /\ j \in 1 .. n /\ j # i + 1) \/ j = i + 1
        /\ \A j \in (i + 1) + 1 .. n : j \in i + 1 .. n /\ j \in 1 .. n /\ j # i + 1
    BY <1>1
  <2>2. Entry(m, Settings[i + 1]) = Effective(e, Settings[i + 1])
    BY <1>2, <1>12, <1>13
  <2> QED BY <1>1, <1>11, <1>14, <2>1, <2>2
<1>17. Keeps(m, e)
  <2>1. ASSUME NEW s, NEW k, HasKey(e, s, k)
        PROVE  /\ HasKey(m, s, k)
               /\ At(At(m, s), k) = At(At(e, s), k) \/ Defaulted(s, k, At(At(e, s), k))
    <3>1. /\ HasKey(d, s, k)
          /\ At(At(d, s), k) = At(At(e, s), k) \/ Defaulted(s, k, At(At(e, s), k))
      BY <1>11, <2>1 DEF Keeps
    <3>2. CASE s # x.section \/ k # x.key
      <4>1. HasKey(m, s, k) /\ At(At(m, s), k) = At(At(d, s), k)
        BY <1>10, <3>1, <3>2
      <4> QED BY <3>1, <4>1
    <3>3. CASE s = x.section /\ k = x.key
      <4>1. Entry(e, x) = At(At(e, s), k)
        BY <2>1, <3>3, EntryIs
      <4>2. Missing(x, Entry(e, x)) => Defaulted(s, k, At(At(e, s), k))
        BY <1>2, <3>3, <4>1 DEF Defaulted
      <4> QED BY <1>10, <1>12, <3>3, <4>1, <4>2
    <3> QED BY <3>2, <3>3
  <2> QED BY <2>1 DEF Keeps
<1> QED BY <1>1, <1>8, <1>9, <1>15, <1>16, <1>17 DEF Come

LEMMA ReadIsTrimmed ==
    ASSUME NEW lines \in Seq(Lines)
    PROVE  Reader(lines).data \in Structures /\ Trimmed(Reader(lines).data)
<1>1. PICK r \in Structures : r = Reader(lines).data /\ Follows(r, lines)
  BY ReaderFollows DEF ReaderInv, ReaderStates
<1>2. ASSUME NEW s, NEW k, HasKey(r, s, k) PROVE Trim[At(At(r, s), k)] = At(At(r, s), k)
  <2>1. Says(lines, s, k, At(At(r, s), k))
    BY <1>1, <1>2 DEF Follows, HasKey
  <2>2. PICK i \in DOMAIN lines : lines[i].type = "keyvalue" /\ lines[i].value = At(At(r, s), k)
    BY <2>1 DEF Says
  <2>3. lines[i] \in Lines
    BY LenProperties, ElementOfSeq
  <2> QED BY <2>2, <2>3, LineKinds
<1> QED BY <1>1, <1>2 DEF Trimmed, Carried

LEMMA Configures ==
    ASSUME NEW lines \in Seq(Lines)
    PROVE  /\ Configured(lines) \in ConfigStates
           /\ Len(Configured(lines).settings) = Len(Settings)
           /\ \A i \in DOMAIN Settings :
                 LET v == Effective(Reader(lines).data, Settings[i]) IN
                 /\ Configured(lines).settings[i] = Member(Settings[i], v)
                 /\ ~Missing(Settings[i], v)
           /\ Derived(Configured(lines).ini, Reader(lines).data)
<1>1. PICK n \in Nat : n = Len(Settings) /\ DOMAIN Settings = 1 .. n
  BY SettingsAre, Zenon
<1>2. PICK e \in Structures : e = Reader(lines).data /\ Trimmed(e)
  BY ReadIsTrimmed
<1>3. PICK b : b = [ini |-> e, settings |-> <<>>]
  OBVIOUS
<1>4. b \in ConfigStates /\ b.ini = e /\ b.settings = <<>>
  <2>1. <<>> \in Seq(Members)
    BY EmptySeq
  <2> QED BY <1>2, <1>3, <2>1 DEF ConfigStates
<1>5. PICK h \in [0 .. n -> ConfigStates] :
         /\ h[0] = b
         /\ \A i \in 1 .. n : h[i] = Configure(h[i - 1], Settings[i])
         /\ FoldLeft(Configure, b, Settings) = h[n]
  BY <1>1, <1>4, ConfigureLadder
<1> DEFINE Q == {i \in Nat : i <= n => Come(h[i], i, e)}
<1>6. 0 \in Q
  <2>1. Keeps(e, e)
    BY DEF Keeps
  <2>2. Len(<<>>) = 0 /\ 1 .. 0 = {}
    BY EmptySeq
  <2>3. Come(b, 0, e)
    BY <1>4, <2>1, <2>2 DEF Come
  <2> QED BY <1>5, <2>3
<1>7. ASSUME NEW i \in Nat, i \in Q PROVE i + 1 \in Q
  <2> SUFFICES ASSUME i + 1 <= n PROVE Come(h[i + 1], i + 1, e)
    OBVIOUS
  <2>1. i + 1 \in 1 .. n /\ (i + 1) - 1 = i /\ i <= n /\ i \in 0 .. n
    OBVIOUS
  <2>2. PICK c \in ConfigStates : c = h[i]
    BY <2>1
  <2>3. Come(c, i, e)
    BY <1>7, <2>1, <2>2
  <2>4. h[i + 1] = Configure(c, Settings[i + 1])
    BY <1>5, <2>1, <2>2
  <2> QED BY <1>1, <2>1, <2>3, <2>4, ReachesNext
<1>8. Come(h[n], n, e)
  <2> HIDE DEF Q
  <2>1. n \in Q
    BY <1>6, <1>7, NumberInduction
  <2> QED BY <2>1 DEF Q
<1>9. PICK c \in ConfigStates : c = h[n]
  <2>1. n \in 0 .. n
    OBVIOUS
  <2> QED BY <2>1
<1>10. /\ Len(c.settings) = n
       /\ \A j \in 1 .. n : c.settings[j] = Member(Settings[j], Effective(e, Settings[j]))
       /\ \A j \in 1 .. n : Entry(c.ini, Settings[j]) = Effective(e, Settings[j])
       /\ Keeps(c.ini, e)
  BY <1>8, <1>9 DEF Come
<1>11. \A j \in 1 .. n : ~Missing(Settings[j], Effective(e, Settings[j]))
  BY <1>1, EffectiveIs
<1>12. SameSettings(c.ini, e)
  <2>1. \A j \in 1 .. n : Effective(c.ini, Settings[j]) = Effective(e, Settings[j])
    <3>1. ASSUME NEW j \in 1 .. n PROVE Effective(c.ini, Settings[j]) = Effective(e, Settings[j])
      <4>1. PICK v : v = Effective(e, Settings[j])
        OBVIOUS
      <4>2. Entry(c.ini, Settings[j]) = v /\ ~Missing(Settings[j], v)
        BY <1>10, <1>11, <4>1
      <4>3. Effective(c.ini, Settings[j]) = v
        BY <4>2 DEF Effective
      <4> QED BY <4>1, <4>3
    <3> QED BY <3>1
  <2> QED BY <1>1, <2>1 DEF SameSettings
<1>13. Configured(lines) = c
  BY <1>2, <1>3, <1>5, <1>9 DEF Configured
<1> QED BY <1>1, <1>2, <1>10, <1>11, <1>12, <1>13 DEF Derived

(* What is written and read back is what was to be written. *)
LEMMA PlainCarries ==
    ASSUME PlainTexts, NEW lines \in Seq(Lines), NEW d \in Structures
    PROVE  Carries(lines, d)
<1>1. \A s : Has(d, s) => s \in PlainSections
  BY MapAt DEF Structures, PlainTexts
<1>2. \A s, k : HasKey(d, s, k) => k \in PlainKeys
  BY MapValue DEF PlainTexts
<1>3. \A i \in DOMAIN lines : Fits(lines[i], d)
  <2>1. \A i \in DOMAIN lines : lines[i] \in Lines
    BY LenProperties, ElementOfSeq
  <2> QED BY <2>1, PlainFits
<1> QED BY <1>1, <1>2, <1>3 DEF Carries, AllFit

LEMMA WrittenIsDerived ==
    ASSUME PlainTexts, NEW f, f.lines \in Seq(Lines), f.exists \/ f.lines = <<>>, NEW d \in Structures, Trimmed(d)
    PROVE  Derived(Reader(Written(f, d)).data, d)
<1>1. PICK out \in Seq(Lines) : out = Written(f, d) /\ Faithful(out, d)
  <2>1. Carries(f.lines, d)
    BY PlainCarries
  <2> QED BY <2>1, WrittenIsFaithful DEF Faithful
<1>2. PICK r \in Structures : r = Reader(out).data
  BY <1>1, Rereads
<1>3. /\ \A s, k : HasKey(r, s, k) <=> HasKey(d, s, k)
      /\ \A s, k : HasKey(d, s, k) => At(At(r, s), k) = At(At(d, s), k)
  BY <1>1, <1>2, Rereads DEF Trimmed
<1>4. \A x : Entry(r, x) = Entry(d, x)
  BY <1>3, EntryIs
<1>5. SameSettings(r, d)
  BY <1>4 DEF SameSettings, Effective
<1>6. Keeps(r, d)
  BY <1>3 DEF Keeps
<1> QED BY <1>1, <1>2, <1>5, <1>6 DEF Derived

LEMMA WrittenComments ==
    ASSUME PlainTexts, NEW f, f.lines \in Seq(Lines), ~f.exists => f.lines = <<>>, NEW d \in Structures
    PROVE  Comments(Written(f, d)) = Comments(f.lines)
<1>1. CASE f.exists
  BY <1>1, CommentsKept DEF Written
<1>2. CASE ~f.exists
  <2>1. PICK F : F = {l \in Lines : l.type = "comment"}
    OBVIOUS
  <2>2. Followed(F) /\ \A s : Comments(s) = Only(s, F)
    BY <2>1 DEF Followed, Comments
  <2>3. Only(Generated(d), F) = <<>>
    BY <2>2, GeneratedKeeps
  <2>4. Only(<<>>, F) = <<>>
    BY OnlyEmpty
  <2> QED BY <1>2, <2>2, <2>3, <2>4 DEF Written
<1> QED BY <1>1, <1>2

LEMMA Crossed ==
    ASSUME NEW l, l = [type |-> l.type, name |-> l.name, value |-> l.value, byHand |-> l.byHand]
    PROVE  [l EXCEPT !.type = "unknown", !.name = NoName, !.value = NoName]
           = [type |-> "unknown", name |-> NoName, value |-> NoName, byHand |-> l.byHand]
<1>1. PICK x : x = [l EXCEPT !.type = "unknown"]
  OBVIOUS
<1>2. x = [type |-> "unknown", name |-> l.name, value |-> l.value, byHand |-> l.byHand]
  BY <1>1
<1>3. PICK y : y = [x EXCEPT !.name = NoName]
  OBVIOUS
<1>4. y = [type |-> "unknown", name |-> NoName, value |-> l.value, byHand |-> l.byHand]
  BY <1>2, <1>3
<1>5. [y EXCEPT !.value = NoName] = [type |-> "unknown", name |-> NoName, value |-> NoName, byHand |-> l.byHand]
  BY <1>4
<1>6. [[[l EXCEPT !.type = "unknown"] EXCEPT !.name = NoName] EXCEPT !.value = NoName]
      = [y EXCEPT !.value = NoName]
  BY <1>1, <1>3, Zenon
<1> QED BY <1>5, <1>6, Zenon

LEMMA TornLines == \A l \in Lines : Torn(l) \subseteq Lines
<1>1. ASSUME NEW l \in Lines PROVE [l EXCEPT !.type = "unknown", !.name = NoName, !.value = NoName] \in Lines
  <2>1. l = [type |-> l.type, name |-> l.name, value |-> l.value, byHand |-> l.byHand] /\ l.byHand \in BOOLEAN
    BY LineKinds
  <2>2. [l EXCEPT !.type = "unknown", !.name = NoName, !.value = NoName]
        = [type |-> "unknown", name |-> NoName, value |-> NoName, byHand |-> l.byHand]
    BY <2>1, Crossed, Zenon
  <2> QED BY <2>1, <2>2 DEF Lines
<1>2. ASSUME NEW l \in Lines, l.type = "keyvalue", NEW v \in Cut[l.value] PROVE [l EXCEPT !.value = Trim[v]] \in Lines
  <2>1. l.value \in Values
    BY <1>2, LineKinds
  <2>2. v \in Values
    BY <1>2, <2>1, NumberAssumption
  <2>3. Trim[v] \in Read
    BY <2>2 DEF Read
  <2> QED BY <1>2, <2>3, MadeLines
<1> QED BY <1>1, <1>2, Zenon DEF Torn

-----------------------------------------------------------------------------
(* The server's start. *)

Configuring == {"write", "flush", "database", "up"}   \* where the settings are there

ConfigTypeOK ==
    /\ pc \in {"down", "configure"} \cup Configuring
    /\ file \in [exists : BOOLEAN, lines : Seq(Lines)]
    /\ file.exists \/ file.lines = <<>>
    /\ ini \in Structures
    /\ pending \in Seq(Lines) /\ (pc = "flush" \/ pending = <<>>)
    /\ pc = "flush" => file.exists
    /\ edited \in Seq(Lines)
    /\ pc = "write" => Trimmed(ini)
    /\ pc = "up" => usersTable

Useful == pc \in Configuring => /\ settings \in Seq(Members) /\ Len(settings) = Len(Settings)
                         /\ \A i \in DOMAIN Settings : \E v : /\ settings[i] = Member(Settings[i], v)
                                                              /\ ~Missing(Settings[i], v)

(* What will be in the file when the lines that are on their way are there. *)
OnItsWay == file.lines \o pending

AsEdited ==
    PlainTexts /\ ~harmed =>
      /\ Derived(Reader(OnItsWay).data, Reader(edited).data)
      /\ Comments(OnItsWay) = Comments(edited)
      /\ pc = "write" => Derived(ini, Reader(edited).data)
      /\ pc \in Configuring => \A i \in DOMAIN Settings :
                           settings[i] = Member(Settings[i], Effective(Reader(edited).data, Settings[i]))

ConfigInv == ConfigTypeOK /\ Useful /\ AsEdited

LEMMA NothingOnItsWay ==
    ASSUME ConfigTypeOK, pending = <<>>
    PROVE  OnItsWay = file.lines
<1>1. file.lines \in Seq(Lines)
  BY DEF ConfigTypeOK
<1> QED BY <1>1, ConcatEmptySeq DEF OnItsWay

LEMMA ConfigInvInit == Init => ConfigInv
<1> SUFFICES ASSUME Init PROVE ConfigInv
  OBVIOUS
<1> USE DEF Init
<1>1. ConfigTypeOK
  <2>1. <<>> \in Seq(Lines) /\ <<>> \in Structures
    BY EmptySeq, MapEmpty DEF Structures
  <2> QED BY <2>1 DEF ConfigTypeOK
<1>2. Useful
  BY DEF Useful, Configuring
<1>3. AsEdited
  <2>1. OnItsWay = edited
    BY <1>1, NothingOnItsWay
  <2> QED BY <2>1, DerivedFromItself DEF AsEdited, Configuring
<1> QED BY <1>1, <1>2, <1>3 DEF ConfigInv

LEMMA EditKeepsInv == ConfigInv /\ Edit => ConfigInv'
<1> SUFFICES ASSUME ConfigInv, Edit PROVE ConfigInv'
  OBVIOUS
<1>1. PICK lines \in EditedFiles : file' = [exists |-> TRUE, lines |-> lines] /\ edited' = lines
  BY DEF Edit
<1>2. /\ pc \in {"down", "up"} /\ pc' = "down" /\ ~harmed'
      /\ ini' = ini /\ pending' = pending
  BY DEF Edit
<1>3. lines \in Seq(Lines)
  BY EditedAssumption
<1>4. pending' = <<>>
  BY <1>2 DEF ConfigInv, ConfigTypeOK
<1>5. ConfigTypeOK'
  BY <1>1, <1>2, <1>3, <1>4 DEF ConfigInv, ConfigTypeOK, Configuring
<1>6. Useful'
  BY <1>2 DEF Useful, Configuring
<1>7. AsEdited'
  <2>1. OnItsWay' = edited'
    BY <1>1, <1>3, <1>4, ConcatEmptySeq DEF OnItsWay
  <2> QED BY <1>2, <2>1, DerivedFromItself DEF AsEdited, Configuring
<1> QED BY <1>5, <1>6, <1>7 DEF ConfigInv

LEMMA ReadConfigKeepsInv == ConfigInv /\ ReadConfig => ConfigInv'
<1> SUFFICES ASSUME ConfigInv, ReadConfig PROVE ConfigInv'
  OBVIOUS
<1>1. PICK lines \in Seq(Lines) : lines = file.lines
  BY DEF ConfigInv, ConfigTypeOK
<1>2. PICK c \in ConfigStates : c = Configured(lines)
  BY Configures
<1>3. /\ pc = "configure" /\ pc' = "write" /\ ini' = c.ini /\ settings' = c.settings
      /\ file' = file /\ pending' = pending /\ edited' = edited /\ harmed' = harmed
  BY <1>1, <1>2 DEF ReadConfig
<1>4. c.ini \in Structures /\ Trimmed(c.ini) /\ c.settings \in Seq(Members)
  BY DEF ConfigStates
<1>5. PICK r : r = Reader(lines).data
  OBVIOUS
<1>6. /\ Len(c.settings) = Len(Settings)
      /\ \A i \in DOMAIN Settings : /\ c.settings[i] = Member(Settings[i], Effective(r, Settings[i]))
                                    /\ ~Missing(Settings[i], Effective(r, Settings[i]))
      /\ Derived(c.ini, r)
  BY <1>2, <1>5, Configures
<1>7. ConfigTypeOK'
  BY <1>3, <1>4 DEF ConfigInv, ConfigTypeOK, Configuring
<1>8. Useful'
  BY <1>3, <1>4, <1>6 DEF Useful
<1>9. AsEdited'
  <2> SUFFICES ASSUME PlainTexts, ~harmed' PROVE AsEdited'
    BY DEF AsEdited
  <2>1. PICK e : e = Reader(edited).data
    OBVIOUS
  <2>2. pending = <<>>
    BY <1>3 DEF ConfigInv, ConfigTypeOK
  <2>3. OnItsWay = lines /\ OnItsWay' = OnItsWay
    BY <1>1, <1>3, <2>2, NothingOnItsWay DEF ConfigInv, OnItsWay
  <2>4. Derived(r, e) /\ Comments(lines) = Comments(edited)
    BY <1>3, <1>5, <2>1, <2>3 DEF ConfigInv, AsEdited
  <2>5. Derived(c.ini, e)
    BY <1>6, <2>4, DerivedTwice
  <2>6. \A i \in DOMAIN Settings : c.settings[i] = Member(Settings[i], Effective(e, Settings[i]))
    BY <1>6, <2>4 DEF Derived, SameSettings
  <2> QED BY <1>3, <1>5, <2>1, <2>3, <2>4, <2>5, <2>6 DEF AsEdited
<1> QED BY <1>7, <1>8, <1>9 DEF ConfigInv

LEMMA WriteOpensKeepsInv == ConfigInv /\ WriteOpens => ConfigInv'
<1> SUFFICES ASSUME ConfigInv, WriteOpens PROVE ConfigInv'
  OBVIOUS
<1>1. PICK f, d : f = file /\ d = ini
  OBVIOUS
<1>2. /\ f \in [exists : BOOLEAN, lines : Seq(Lines)] /\ f.lines \in Seq(Lines)
      /\ f.exists \/ f.lines = <<>>
      /\ d \in Structures /\ Trimmed(d) /\ pending = <<>> /\ pc = "write"
  BY <1>1 DEF ConfigInv, ConfigTypeOK, WriteOpens
<1>3. PICK out \in Seq(Lines) : out = Written(f, d) /\ (PlainTexts => Derived(Reader(out).data, d))
  BY <1>2, WrittenType, WrittenIsDerived
<1>4. /\ pending' = out /\ file' = [exists |-> TRUE, lines |-> <<>>] /\ pc' = "flush"
      /\ ini' = ini /\ settings' = settings /\ edited' = edited /\ harmed' = harmed
  BY <1>1, <1>3 DEF WriteOpens
<1>5. ConfigTypeOK'
  BY <1>4, EmptySeq DEF ConfigInv, ConfigTypeOK, Configuring
<1>6. Useful'
  BY <1>2, <1>4 DEF ConfigInv, Useful, Configuring
<1>7. AsEdited'
  <2> SUFFICES ASSUME PlainTexts, ~harmed' PROVE AsEdited'
    BY DEF AsEdited
  <2>1. PICK e : e = Reader(edited).data
    OBVIOUS
  <2>2. OnItsWay = f.lines
    BY <1>1, <1>2, NothingOnItsWay DEF ConfigInv
  <2>3. OnItsWay' = out
    BY <1>4, ConcatEmptySeq DEF OnItsWay
  <2>4. /\ Comments(f.lines) = Comments(edited) /\ Derived(d, e)
        /\ \A i \in DOMAIN Settings : settings[i] = Member(Settings[i], Effective(e, Settings[i]))
    BY <1>1, <1>2, <1>4, <2>1, <2>2 DEF ConfigInv, AsEdited, Configuring
  <2>5. Derived(Reader(out).data, e)
    BY <1>3, <2>4, DerivedTwice
  <2>6. Comments(out) = Comments(edited)
    BY <1>2, <1>3, <2>4, WrittenComments
  <2> QED BY <1>4, <2>1, <2>3, <2>4, <2>5, <2>6 DEF AsEdited
<1> QED BY <1>5, <1>6, <1>7 DEF ConfigInv

LEMMA FlushKeepsInv == ConfigInv /\ Flush => ConfigInv'
<1> SUFFICES ASSUME ConfigInv, Flush PROVE ConfigInv'
  OBVIOUS
<1>1. PICK old \in Seq(Lines), on \in Seq(Lines) : old = file.lines /\ on = pending
  BY DEF ConfigInv, ConfigTypeOK
<1>2. /\ pc = "flush" /\ on # <<>> /\ file' = [file EXCEPT !.lines = Append(old, Head(on))]
      /\ pending' = Tail(on) /\ pc' = pc
      /\ ini' = ini /\ settings' = settings /\ edited' = edited /\ harmed' = harmed
      /\ usersTable' = usersTable
  BY <1>1 DEF Flush
<1>3. PICK first \in Lines, rest \in Seq(Lines) : first = Head(on) /\ rest = Tail(on)
  BY <1>2, HeadTailProperties
<1>4. Append(old, first) \in Seq(Lines) /\ Append(old, first) = old \o <<first>> /\ <<first>> \in Seq(Lines)
  BY AppendProperties, AppendIsConcat
<1>5. on = <<first>> \o rest
  BY <1>2, <1>3, HeadTailAppend
<1>6. Append(old, first) \o rest = old \o on
  BY <1>4, <1>5, ConcatAssociative
<1>7. ConfigTypeOK'
  <2>1. file' \in [exists : BOOLEAN, lines : Seq(Lines)] /\ file'.exists
    <3>1. file \in [exists : BOOLEAN, lines : Seq(Lines)]
      BY DEF ConfigInv, ConfigTypeOK
    <3>2. file.exists
      BY <1>1, <1>2 DEF ConfigInv, ConfigTypeOK
    <3> QED BY <1>2, <1>3, <1>4, <3>1, <3>2
  <2> QED BY <1>2, <1>3, <2>1 DEF ConfigInv, ConfigTypeOK
<1>8. Useful'
  BY <1>2 DEF ConfigInv, Useful
<1>9. OnItsWay' = OnItsWay
  <2>1. file'.lines = Append(old, first)
    BY <1>2, <1>3 DEF ConfigInv, ConfigTypeOK
  <2> QED BY <1>1, <1>2, <1>3, <1>6, <2>1 DEF OnItsWay
<1>10. AsEdited'
  BY <1>2, <1>9 DEF ConfigInv, AsEdited
<1> QED BY <1>7, <1>8, <1>10 DEF ConfigInv

LEMMA BreakOff ==
    ASSUME ConfigTypeOK, WriteBreaksOff
    PROVE  /\ file' \in [exists : BOOLEAN, lines : Seq(Lines)] /\ (file'.exists \/ file'.lines = <<>>)
           /\ pending' = <<>> /\ harmed' /\ pc = "flush"
<1>1. PICK old \in Seq(Lines), on \in Seq(Lines) : old = file.lines /\ on = pending
  BY DEF ConfigTypeOK
<1>2. on # <<>> /\ pending' = <<>> /\ harmed' /\ pc = "flush"
  BY <1>1 DEF WriteBreaksOff, ConfigTypeOK
<1>3. PICK first \in Lines : first = Head(on)
  BY <1>2, HeadTailProperties
<1>4. file \in [exists : BOOLEAN, lines : Seq(Lines)] /\ (file.exists \/ file.lines = <<>>)
  BY DEF ConfigTypeOK
<1>5. CASE file' = file
  BY <1>2, <1>4, <1>5
<1>6. ASSUME NEW line \in Torn(first), file' = [file EXCEPT !.lines = Append(old, line)]
      PROVE  file' \in [exists : BOOLEAN, lines : Seq(Lines)] /\ (file'.exists \/ file'.lines = <<>>)
  <2>1. line \in Lines
    BY <1>3, <1>6, TornLines
  <2>2. Append(old, line) \in Seq(Lines)
    BY <2>1, AppendProperties
  <2>3. file.exists
    BY <1>2 DEF ConfigTypeOK
  <2> QED BY <1>4, <1>6, <2>2, <2>3
<1> QED BY <1>1, <1>2, <1>3, <1>5, <1>6 DEF WriteBreaksOff

LEMMA CutShortKeepsInv == ConfigInv /\ (WriteFails \/ (Crash /\ WriteBreaksOff)) => ConfigInv'
<1> SUFFICES ASSUME ConfigInv, WriteFails \/ (Crash /\ WriteBreaksOff) PROVE ConfigInv'
  OBVIOUS
<1>1. ConfigTypeOK /\ WriteBreaksOff
  BY DEF ConfigInv, WriteFails
<1>2. /\ file' \in [exists : BOOLEAN, lines : Seq(Lines)] /\ (file'.exists \/ file'.lines = <<>>)
      /\ pending' = <<>> /\ harmed' /\ pc = "flush"
  BY <1>1, BreakOff
<1>3. edited' = edited /\ usersTable' = usersTable
  BY DEF WriteFails, Crash
<1>4. \/ pc' = "database" /\ ini' = ini /\ settings' = settings
      \/ pc' = "down" /\ ini' = <<>> /\ settings' = <<>>
  BY DEF WriteFails, Crash
<1>5. <<>> \in Seq(Lines) /\ <<>> \in Structures
  BY EmptySeq, MapEmpty DEF Structures
<1>6. ConfigTypeOK'
  BY <1>1, <1>2, <1>3, <1>4, <1>5 DEF ConfigTypeOK, Configuring
<1>7. Useful'
  BY <1>2, <1>4 DEF ConfigInv, Useful, Configuring
<1>8. AsEdited'
  BY <1>2 DEF AsEdited
<1> QED BY <1>6, <1>7, <1>8 DEF ConfigInv

(* The steps that leave the file and what is on its way alone. *)
QuietStep ==
    /\ file' = file /\ pending' = pending /\ edited' = edited /\ harmed' = harmed
    /\ \/ pc = "down" /\ pc' = "configure" /\ ini' = ini /\ settings' = settings /\ usersTable' = usersTable
       \/ pc = "write" /\ pc' = "database" /\ ini' = ini /\ settings' = settings /\ usersTable' = usersTable
       \/ pc = "flush" /\ pending = <<>> /\ pc' = "database" /\ ini' = ini /\ settings' = settings
          /\ usersTable' = usersTable
       \/ pc = "database" /\ pc' = "up" /\ ini' = ini /\ settings' = settings /\ usersTable'
       \/ pending = <<>> /\ pc' = "down" /\ ini' = <<>> /\ settings' = <<>> /\ usersTable' = usersTable
       \/ pc' = pc /\ ini' = ini /\ settings' = settings /\ usersTable' = usersTable

LEMMA QuietStepKeepsInv == ConfigInv /\ QuietStep => ConfigInv'
<1> SUFFICES ASSUME ConfigInv, QuietStep PROVE ConfigInv'
  OBVIOUS
<1>1. ConfigTypeOK'
  <2>1. <<>> \in Structures
    BY MapEmpty DEF Structures
  <2> QED BY <2>1 DEF ConfigInv, ConfigTypeOK, QuietStep, Configuring
<1>2. Useful'
  BY DEF ConfigInv, Useful, QuietStep, Configuring
<1>3. AsEdited'
  <2>1. OnItsWay' = OnItsWay
    BY DEF OnItsWay, QuietStep
  <2> QED BY <2>1 DEF ConfigInv, AsEdited, QuietStep, Configuring
<1> QED BY <1>1, <1>2, <1>3 DEF ConfigInv

LEMMA ConfigInvStep == ConfigInv /\ [Next]_vars => ConfigInv'
<1> SUFFICES ASSUME ConfigInv, [Next]_vars PROVE ConfigInv'
  OBVIOUS
<1>1. CASE Edit
  BY <1>1, EditKeepsInv
<1>2. CASE Start
  <2>1. QuietStep
    BY <1>2 DEF Start, QuietStep
  <2> QED BY <2>1, QuietStepKeepsInv
<1>3. CASE ReadConfig
  BY <1>3, ReadConfigKeepsInv
<1>4. CASE WriteOpens
  BY <1>4, WriteOpensKeepsInv
<1>5. CASE WriteRefused
  <2>1. QuietStep
    BY <1>5 DEF WriteRefused, QuietStep
  <2> QED BY <2>1, QuietStepKeepsInv
<1>6. CASE Flush
  BY <1>6, FlushKeepsInv
<1>7. CASE WriteEnds
  <2>1. QuietStep
    BY <1>7 DEF WriteEnds, QuietStep
  <2> QED BY <2>1, QuietStepKeepsInv
<1>8. CASE WriteFails
  BY <1>8, CutShortKeepsInv
<1>9. CASE OpenDatabase
  <2>1. QuietStep
    BY <1>9 DEF OpenDatabase, QuietStep
  <2> QED BY <2>1, QuietStepKeepsInv
<1>10. CASE Crash
  <2>1. CASE WriteBreaksOff
    BY <1>10, <2>1, CutShortKeepsInv
  <2>2. CASE pending = <<>> /\ UNCHANGED <<file, pending, harmed>>
    <3>1. QuietStep
      BY <1>10, <2>2 DEF Crash, QuietStep
    <3> QED BY <3>1, QuietStepKeepsInv
  <2> QED BY <1>10, <2>1, <2>2 DEF Crash
<1>11. CASE UNCHANGED vars
  <2>1. QuietStep
    BY <1>11 DEF vars, QuietStep
  <2> QED BY <2>1, QuietStepKeepsInv
<1> QED BY <1>1, <1>2, <1>3, <1>4, <1>5, <1>6, <1>7, <1>8, <1>9, <1>10, <1>11 DEF Next

LEMMA ConfigInvAlways == Spec => []ConfigInv
<1>1. ConfigInv /\ [Next]_vars => ConfigInv'
  BY ConfigInvStep
<1> QED BY <1>1, ConfigInvInit, PTL DEF Spec

(* A server that is up has its table and all its settings, none of them    *)
(* empty or 0: after any edit, any line lost or cut short, any number of   *)
(* starts of Server::Server, for any list of settings and any file.        *)
THEOREM EveryServerIsConfigured == Spec => []UpIsConfigured
<1>1. ConfigInv => UpIsConfigured
  <2> SUFFICES ASSUME ConfigInv, pc = "up" PROVE UpIsConfigured
    BY DEF UpIsConfigured
  <2>1. /\ settings \in Seq(Members) /\ Len(settings) = Len(Settings)
        /\ \A i \in DOMAIN Settings : \E v : /\ settings[i] = Member(Settings[i], v)
                                             /\ ~Missing(Settings[i], v)
    BY DEF ConfigInv, Useful, Configuring
  <2>2. DOMAIN settings = DOMAIN Settings
    BY <2>1, SettingsAre
  <2>3. ASSUME NEW i \in DOMAIN settings
        PROVE  settings[i] # IF Settings[i].kind = "text" THEN Empty ELSE 0
    BY <2>1, <2>2 DEF Member, Missing
  <2> QED BY <2>1, <2>3 DEF ConfigInv, ConfigTypeOK, UpIsConfigured
<1> QED BY <1>1, ConfigInvAlways, PTL

(* Until a write is cut short, and where all texts are plain, every start  *)
(* runs with what the administrator's file says, or with the default where *)
(* the file says nothing usable: what the starts write back never changes  *)
(* a setting.                                                              *)
THEOREM AdministratorAlwaysRules == Spec => []AdministratorRules
<1>1. ConfigInv => AdministratorRules
  <2> SUFFICES ASSUME ConfigInv, PlainTexts, pc = "up", ~harmed PROVE AdministratorRules
    BY DEF AdministratorRules
  <2>1. \A i \in DOMAIN Settings :
           settings[i] = Member(Settings[i], Effective(Reader(edited).data, Settings[i]))
    BY DEF ConfigInv, AsEdited, Configuring
  <2> QED BY <2>1 DEF AdministratorRules, Effective
<1> QED BY <1>1, ConfigInvAlways, PTL

LEMMA Values3Are ==
    ASSUME NEW d \in Structures
    PROVE  \A e : e \in Values3(d) <=> \E s, k : HasKey(d, s, k) /\ e = <<s, k, At(At(d, s), k)>>
<1>1. PICK part : part = [i \in DOMAIN d |-> {<<d[i].key, e.key, e.val>> : e \in ToSet(d[i].val)}]
  OBVIOUS
<1>2. Values3(d) = UNION {part[i] : i \in DOMAIN d}
  BY <1>1 DEF Values3
<1>3. ASSUME NEW i \in DOMAIN d, NEW e \in part[i]
      PROVE  \E s, k : HasKey(d, s, k) /\ e = <<s, k, At(At(d, s), k)>>
  <2>1. Has(d, d[i].key) /\ At(d, d[i].key) = d[i].val /\ d[i].val \in Collections
    BY MapPair, MapPositions DEF Structures
  <2>2. PICK x \in ToSet(d[i].val) : e = <<d[i].key, x.key, x.val>>
    BY <1>1, <1>3
  <2>3. PICK j \in DOMAIN d[i].val : x = d[i].val[j]
    BY <2>2 DEF ToSet
  <2>4. Has(d[i].val, x.key) /\ At(d[i].val, x.key) = x.val
    BY <2>1, <2>3, MapPair DEF Collections
  <2>5. HasKey(d, d[i].key, x.key) /\ At(At(d, d[i].key), x.key) = x.val
    BY <2>1, <2>4 DEF HasKey
  <2> QED BY <2>2, <2>5
<1>4. ASSUME NEW s, NEW k, HasKey(d, s, k)
      PROVE  <<s, k, At(At(d, s), k)>> \in Values3(d)
  <2>1. PICK i \in DOMAIN d : d[i].key = s /\ d[i].val = At(d, s)
    BY <1>4, MapAt DEF Structures, HasKey
  <2>2. At(d, s) \in Collections
    BY <1>4, MapAt DEF Structures, HasKey
  <2>3. PICK j \in DOMAIN At(d, s) : At(d, s)[j].key = k /\ At(d, s)[j].val = At(At(d, s), k)
    BY <1>4, <2>2, MapAt DEF Collections, HasKey
  <2>4. At(d, s)[j] \in ToSet(d[i].val)
    BY <2>1, <2>3 DEF ToSet
  <2>5. <<d[i].key, At(d, s)[j].key, At(d, s)[j].val>> \in part[i]
    BY <1>1, <2>1, <2>4
  <2> QED BY <1>2, <2>1, <2>3, <2>5
<1> QED BY <1>2, <1>3, <1>4

(* Until a write is cut short, and where all texts are plain, the file     *)
(* goes on holding every comment of the administrator, in its place among  *)
(* the comments, and every value but those the server had to replace by a  *)
(* default: the starts that rewrite it with INIFile::write take nothing    *)
(* else out.                                                               *)
THEOREM NothingElseIsTouched == Spec => []NothingElseTouched
<1>1. ConfigInv => NothingElseTouched
  <2> SUFFICES ASSUME ConfigInv, PlainTexts, pc = "up", ~harmed PROVE NothingElseTouched
    BY DEF NothingElseTouched
  <2>1. pending = <<>> /\ file.lines \in Seq(Lines) /\ edited \in Seq(Lines)
    BY DEF ConfigInv, ConfigTypeOK
  <2>2. OnItsWay = file.lines
    BY <2>1, NothingOnItsWay DEF ConfigInv
  <2>3. PICK m \in Structures : m = Reader(file.lines).data
    BY <2>1, ReadIsTrimmed
  <2>4. PICK e \in Structures : e = Reader(edited).data
    BY <2>1, ReadIsTrimmed
  <2>5. Keeps(m, e) /\ Comments(file.lines) = Comments(edited)
    BY <2>2, <2>3, <2>4 DEF ConfigInv, AsEdited, Derived
  <2>6. ASSUME NEW x \in Values3(e)
        PROVE  \/ x \in Values3(m)
               \/ \E i \in DOMAIN Settings : /\ Settings[i].section = x[1] /\ Settings[i].key = x[2]
                                             /\ Missing(Settings[i], x[3])
    <3>1. PICK s, k : HasKey(e, s, k) /\ x = <<s, k, At(At(e, s), k)>>
      BY <2>6, Values3Are
    <3>2. CASE At(At(m, s), k) = At(At(e, s), k)
      <4>1. HasKey(m, s, k) /\ x = <<s, k, At(At(m, s), k)>>
        BY <2>5, <3>1, <3>2 DEF Keeps
      <4> QED BY <4>1, Values3Are
    <3>3. CASE Defaulted(s, k, At(At(e, s), k))
      BY <3>1, <3>3 DEF Defaulted
    <3> QED BY <2>5, <3>1, <3>2, <3>3 DEF Keeps
  <2> QED BY <2>3, <2>4, <2>5, <2>6 DEF NothingElseTouched
<1> QED BY <1>1, ConfigInvAlways, PTL
=============================================================================
