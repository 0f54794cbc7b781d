--------------------------- MODULE SequenceLemmas ---------------------------
(***************************************************************************)
(* What the proofs of several components need to know of natural numbers   *)
(* and of sequences: induction, for sets instead of operators, least and   *)
(* greatest elements, and FlattenSeq by its parts.                         *)
(***************************************************************************)
EXTENDS Integers, SequencesExt, TLAPS, SequenceTheorems, WellFoundedInduction

(* Induction over the natural numbers, for a set. *)
LEMMA Induction ==
  ASSUME NEW T, \A n \in Nat : (\A k \in Nat : k < n => k \in T) => n \in T
  PROVE  Nat \subseteq T
<1> SUFFICES ASSUME Nat \ T # {}
             PROVE  FALSE
  OBVIOUS
<1>1. PICK n \in Nat \ T : \A k \in Nat \ T : ~(<<k, n>> \in OpToRel(<, Nat))
  BY NatLessThanWellFounded, WFMin, Zenon
<1>2. \A k \in Nat \ T : ~(k < n)
  BY <1>1 DEF OpToRel
<1> QED
  BY <1>2

(* From one number to the next. *)
LEMMA Steps ==
  ASSUME NEW T, 0 \in T, \A n \in Nat : n \in T => n + 1 \in T
  PROVE  Nat \subseteq T
<1>1. ASSUME NEW n \in Nat, \A k \in Nat : k < n => k \in T
      PROVE  n \in T
  <2>1. CASE n = 0
    BY <2>1
  <2>2. CASE n # 0
    <3>1. n - 1 \in Nat /\ n - 1 < n /\ (n - 1) + 1 = n
      BY <2>2
    <3>2. n - 1 \in T
      BY <1>1, <3>1
    <3>3. (n - 1) + 1 \in T
      BY <3>1, <3>2
    <3> QED
      BY <3>1, <3>3
  <2> QED
    BY <2>1, <2>2
<1> QED
  BY <1>1, Induction, Zenon

(* A set of natural numbers has a least element. *)
LEMMA LeastExists ==
  ASSUME NEW S, S \subseteq Nat, S # {}
  PROVE  \E n \in S : \A k \in S : n <= k
<1>1. PICK n \in S : \A k \in S : ~(<<k, n>> \in OpToRel(<, Nat))
  BY NatLessThanWellFounded, WFMin, Zenon
<1>2. \A k \in S : ~(k < n)
  BY <1>1 DEF OpToRel
<1> QED
  BY <1>2

(* Min is that element. *)
LEMMA MinIs ==
  ASSUME NEW S \in SUBSET Nat, S # {}
  PROVE  Min(S) \in S /\ \A k \in S : Min(S) <= k
<1>1. \E n \in S : \A k \in S : n <= k
  BY LeastExists
<1> QED
  BY <1>1, Zenon DEF Min

(* A set of natural numbers that are bounded has a greatest element. *)
LEMMA MaxIs ==
  ASSUME NEW b \in Nat, NEW S \in SUBSET (0..b), S # {}
  PROVE  Max(S) \in S /\ \A k \in S : k <= Max(S)
<1> DEFINE T == {b - k : k \in S}
<1>1. T \subseteq Nat /\ T # {}
  <2>1. \A k \in S : b - k \in Nat
    OBVIOUS
  <2>2. T \subseteq Nat
    BY <2>1
  <2>3. PICK k \in S : TRUE
    OBVIOUS
  <2>4. b - k \in T
    BY Zenon
  <2> QED
    BY <2>2, <2>4
<1>2. PICK m \in T : \A k \in T : m <= k
  <2> HIDE DEF T
  <2> QED
    BY <1>1, LeastExists
<1>3. PICK n \in S : m = b - n
  BY <1>2
<1>4. \A k \in S : b - n <= b - k
  BY <1>2, <1>3
<1>5. \A k \in S : k <= n
  BY <1>4
<1> QED
  BY <1>3, <1>5, Zenon DEF Max

(* Induction over sequences, for a set. *)
LEMMA SequenceInduction ==
  ASSUME NEW S, NEW T, <<>> \in T,
         \A x \in S, s \in Seq(S) : s \in T => <<x>> \o s \in T
  PROVE  Seq(S) \subseteq T
<1> DEFINE N == {n \in Nat : \A s \in Seq(S) : Len(s) = n => s \in T}
<1>1. 0 \in N
  BY EmptySeq
<1>2. ASSUME NEW n \in Nat, n \in N
      PROVE  n + 1 \in N
  <2>1. SUFFICES ASSUME NEW s \in Seq(S), Len(s) = n + 1
                 PROVE  s \in T
    OBVIOUS
  <2>2. s # <<>>
    BY <2>1, EmptySeq
  <2>3. s = <<Head(s)>> \o Tail(s) /\ Head(s) \in S /\ Tail(s) \in Seq(S) /\ Len(Tail(s)) = n
    BY <2>1, <2>2, HeadTailProperties, SMT
  <2>4. Tail(s) \in T
    BY <1>2, <2>3
  <2>5. <<Head(s)>> \o Tail(s) \in T
    BY <2>3, <2>4
  <2> QED
    BY <2>3, <2>5
<1> HIDE DEF N
<1>3. Nat \subseteq N
  BY <1>1, <1>2, Steps, Zenon
<1> QED
  BY <1>3 DEF N

-----------------------------------------------------------------------------
(* Sequences that are joined.                                              *)

(* Concatenation is associative. *)
LEMMA Associate ==
  ASSUME NEW S
  PROVE  \A s, t, u \in Seq(S) : (s \o t) \o u = s \o (t \o u)
OBVIOUS

(* Associativity for three given sequences. *)
LEMMA AssociateThree ==
  ASSUME NEW S, NEW s \in Seq(S), NEW t \in Seq(S), NEW u \in Seq(S)
  PROVE  (s \o t) \o u = s \o (t \o u)
BY Associate

(* FlattenSeq is a recursive function, which exists by induction. *)
Joined(ss) == CHOOSE f : f = [i \in 1..Len(ss) |-> IF i = 1 THEN ss[i] ELSE f[i - 1] \o ss[i]]

(* FlattenSeq by the function that it is defined with. *)
LEMMA FlattenIsJoined ==
  ASSUME NEW ss
  PROVE  FlattenSeq(ss) = IF Len(ss) = 0 THEN ss ELSE Joined(ss)[Len(ss)]
BY DEF FlattenSeq, Joined

(* There is such a function, from one length to the next. *)
LEMMA JoinExists ==
  ASSUME NEW ss, NEW n \in Nat
  PROVE  \E f : f = [i \in 1..n |-> IF i = 1 THEN ss[i] ELSE f[i - 1] \o ss[i]]
<1> DEFINE Join(f, m) == [i \in 1..m |-> IF i = 1 THEN ss[i] ELSE f[i - 1] \o ss[i]]
           T == {m \in Nat : \E f : f = Join(f, m)}
<1>1. 0 \in T
  <2> DEFINE g == [i \in 1..0 |-> IF i = 1 THEN ss[i] ELSE ss[i]]
  <2>1. g = Join(g, 0)
    OBVIOUS
  <2> QED
    BY <2>1
<1>2. ASSUME NEW m \in Nat, m \in T
      PROVE  m + 1 \in T
  <2>1. PICK f : f = Join(f, m)
    BY <1>2
  <2> DEFINE g == [i \in 1..m + 1 |-> IF i <= m THEN f[i] ELSE IF i = 1 THEN ss[i] ELSE f[i - 1] \o ss[i]]
  <2>2. \A i \in 1..m : g[i] = f[i]
    OBVIOUS
  <2>3. \A i \in 1..m : f[i] = IF i = 1 THEN ss[i] ELSE f[i - 1] \o ss[i]
    BY <2>1, Zenon
  <2>4. ASSUME NEW i \in 1..m + 1
        PROVE  g[i] = IF i = 1 THEN ss[i] ELSE g[i - 1] \o ss[i]
    <3>1. CASE i <= m
      <4>1. i \in 1..m /\ (i # 1 => i - 1 \in 1..m)
        BY <3>1
      <4> QED
        BY <2>2, <2>3, <4>1, Zenon
    <3>2. CASE i = m + 1
      <4>1. g[i] = IF i = 1 THEN ss[i] ELSE f[i - 1] \o ss[i]
        BY <3>2
      <4>2. i # 1 => i - 1 \in 1..m
        BY <3>2
      <4> QED
        BY <2>2, <4>1, <4>2, Zenon
    <3> QED
      BY <3>1, <3>2
  <2>5. g = Join(g, m + 1)
    <3>1. g = [i \in 1..m + 1 |-> g[i]]
      OBVIOUS
    <3> HIDE DEF g
    <3> QED
      BY <2>4, <3>1, Zenon
  <2> HIDE DEF g, Join
  <2> QED
    BY <2>5
<1> HIDE DEF T
<1>3. n \in T
  BY <1>1, <1>2, Steps, Zenon
<1> QED
  BY <1>3 DEF T

(* Nothing joins to nothing. *)
LEMMA FlattenEmpty == FlattenSeq(<<>>) = <<>>
<1>1. Len(<<>>) = 0
  BY EmptySeq
<1> QED
  BY <1>1, FlattenIsJoined

(* The prefixes of the joined sequence. *)
LEMMA FlattenIs ==
  ASSUME NEW S, NEW ss \in Seq(Seq(S)), Len(ss) # 0
  PROVE  \E f : /\ f[1] = ss[1] /\ FlattenSeq(ss) = f[Len(ss)]
                /\ \A i \in 1..Len(ss) : i # 1 => f[i] = f[i - 1] \o ss[i]
                /\ \A i \in 1..Len(ss) : f[i] \in Seq(S)
<1> DEFINE n == Len(ss)
           f == Joined(ss)
<1>1. n \in Nat /\ \A i \in 1..n : ss[i] \in Seq(S)
  OBVIOUS
<1>2. f = [i \in 1..n |-> IF i = 1 THEN ss[i] ELSE f[i - 1] \o ss[i]]
  <2>1. \E g : g = [i \in 1..n |-> IF i = 1 THEN ss[i] ELSE g[i - 1] \o ss[i]]
    BY <1>1, JoinExists
  <2>2. Joined(ss) = CHOOSE g : g = [i \in 1..n |-> IF i = 1 THEN ss[i] ELSE g[i - 1] \o ss[i]]
    BY Zenon DEF Joined
  <2> QED
    BY <2>1, <2>2, Zenon
<1>3. FlattenSeq(ss) = f[n]
  BY FlattenIsJoined
<1> HIDE DEF f, n
<1>4. \A i \in 1..n : f[i] = IF i = 1 THEN ss[i] ELSE f[i - 1] \o ss[i]
  BY <1>2, Zenon
<1>5. n # 0
  BY DEF n
<1>6. 1 \in 1..n
  BY <1>1, <1>5
<1> DEFINE T == {m \in Nat : m + 1 \in 1..n => f[m + 1] \in Seq(S)}
<1>7. 0 \in T
  BY <1>1, <1>4, <1>6
<1>8. ASSUME NEW m \in Nat, m \in T
      PROVE  m + 1 \in T
  <2>1. SUFFICES ASSUME (m + 1) + 1 \in 1..n
                 PROVE  f[(m + 1) + 1] \in Seq(S)
    OBVIOUS
  <2>2. m + 1 \in 1..n /\ (m + 1) + 1 # 1 /\ ((m + 1) + 1) - 1 = m + 1
    BY <1>1, <2>1
  <2>3. f[m + 1] \in Seq(S)
    BY <1>8, <2>2
  <2>4. f[(m + 1) + 1] = f[m + 1] \o ss[(m + 1) + 1]
    BY <1>4, <2>1, <2>2
  <2>5. ss[(m + 1) + 1] \in Seq(S)
    BY <1>1, <2>1
  <2> QED
    BY <2>3, <2>4, <2>5, ConcatProperties
<1>9. ASSUME NEW i \in 1..n
      PROVE  f[i] \in Seq(S)
  <2> HIDE DEF T
  <2>1. Nat \subseteq T
    BY <1>7, <1>8, Steps, Zenon
  <2>2. i - 1 \in Nat /\ (i - 1) + 1 = i
    BY <1>1
  <2>3. i - 1 \in T
    BY <2>1, <2>2
  <2> QED
    BY <2>2, <2>3 DEF T
<1>10. f[1] = ss[1]
  BY <1>4, <1>6, Zenon
<1>11. \A i \in 1..n : i # 1 => f[i] = f[i - 1] \o ss[i]
  BY <1>4, Zenon
<1> QED
  BY <1>3, <1>9, <1>10, <1>11, Zenon DEF n

(* What is joined has the elements of its parts. *)
LEMMA FlattenType ==
  ASSUME NEW S, NEW ss \in Seq(Seq(S))
  PROVE  FlattenSeq(ss) \in Seq(S)
<1>1. CASE Len(ss) = 0
  BY <1>1, EmptySeq, FlattenEmpty
<1>2. CASE Len(ss) # 0
  <2>1. PICK f : FlattenSeq(ss) = f[Len(ss)] /\ \A i \in 1..Len(ss) : f[i] \in Seq(S)
    BY <1>2, FlattenIs
  <2>2. Len(ss) \in 1..Len(ss)
    BY <1>2
  <2> QED
    BY <2>1, <2>2
<1> QED
  BY <1>1, <1>2

(* The first of the sequences comes first. *)
LEMMA FlattenCons ==
  ASSUME NEW S, NEW ss \in Seq(Seq(S)), ss # <<>>
  PROVE  FlattenSeq(ss) = ss[1] \o FlattenSeq(Tail(ss)) /\ Tail(ss) \in Seq(Seq(S)) /\ ss[1] \in Seq(S)
<1> DEFINE n == Len(ss)
           tt == Tail(ss)
           a == ss[1]
<1>1. n \in Nat /\ n # 0 /\ 1 \in 1..n
  BY EmptySeq
<1>2. a \in Seq(S)
  BY <1>1
<1>3. tt \in Seq(Seq(S)) /\ Len(tt) = n - 1 /\ \A i \in 1..n - 1 : tt[i] = ss[i + 1]
  OBVIOUS
<1>4. PICK f : /\ f[1] = a /\ FlattenSeq(ss) = f[n]
               /\ \A i \in 1..n : i # 1 => f[i] = f[i - 1] \o ss[i]
  <2>1. Len(ss) # 0
    BY <1>1 DEF n
  <2>2. PICK g : /\ g[1] = ss[1] /\ FlattenSeq(ss) = g[Len(ss)]
                 /\ \A i \in 1..Len(ss) : i # 1 => g[i] = g[i - 1] \o ss[i]
                 /\ \A i \in 1..Len(ss) : g[i] \in Seq(S)
    BY <2>1, FlattenIs
  <2> QED
    BY <2>2, Zenon DEF n, a
<1> HIDE DEF n, tt, a
<1>5. CASE n = 1
  <2>1. tt = <<>>
    BY <1>3, <1>5, EmptySeq
  <2>2. FlattenSeq(ss) = a
    BY <1>4, <1>5
  <2>3. FlattenSeq(tt) = <<>>
    BY <2>1, FlattenEmpty, Zenon
  <2>4. a \o <<>> = a
    BY <1>2, ConcatEmptySeq, Zenon
  <2>5. FlattenSeq(ss) = a \o FlattenSeq(tt)
    BY <2>2, <2>3, <2>4, Zenon
  <2> QED
    BY <1>2, <1>3, <2>5, Zenon DEF tt, a
<1>6. CASE n # 1
  <2>1. Len(tt) # 0
    BY <1>1, <1>3, <1>6
  <2>2. PICK g : /\ g[1] = tt[1] /\ FlattenSeq(tt) = g[n - 1]
                 /\ \A i \in 1..n - 1 : i # 1 => g[i] = g[i - 1] \o tt[i]
                 /\ \A i \in 1..n - 1 : g[i] \in Seq(S)
    <3>1. PICK g : /\ g[1] = tt[1] /\ FlattenSeq(tt) = g[Len(tt)]
                   /\ \A i \in 1..Len(tt) : i # 1 => g[i] = g[i - 1] \o tt[i]
                   /\ \A i \in 1..Len(tt) : g[i] \in Seq(S)
      BY <1>3, <2>1, FlattenIs
    <3> QED
      BY <1>3, <3>1
  <2> DEFINE T == {m \in Nat : m + 1 \in 1..n - 1 => f[m + 2] = a \o g[m + 1]}
  <2>3. 0 \in T
    <3>1. 2 \in 1..n /\ 2 # 1 /\ 1 \in 1..n - 1
      BY <1>1, <1>6
    <3>2. f[2] = f[2 - 1] \o ss[2]
      BY <1>4, <3>1, Zenon
    <3>3. tt[1] = ss[1 + 1]
      BY <1>3, <3>1
    <3>4. f[0 + 2] = a \o g[0 + 1]
      <4>1. 0 + 2 = 2 /\ 0 + 1 = 1 /\ 2 - 1 = 1 /\ 1 + 1 = 2
        OBVIOUS
      <4> QED
        BY <1>4, <2>2, <3>2, <3>3, <4>1, Zenon
    <3> QED
      BY <3>4
  <2>4. ASSUME NEW m \in Nat, m \in T
        PROVE  m + 1 \in T
    <3>1. SUFFICES ASSUME (m + 1) + 1 \in 1..n - 1
                   PROVE  f[(m + 1) + 2] = a \o g[(m + 1) + 1]
      OBVIOUS
    <3>2. /\ m + 1 \in 1..n - 1 /\ (m + 1) + 1 # 1 /\ ((m + 1) + 1) - 1 = m + 1
          /\ (m + 1) + 2 \in 1..n /\ (m + 1) + 2 # 1 /\ ((m + 1) + 2) - 1 = m + 2
          /\ ((m + 1) + 1) + 1 = (m + 1) + 2
      BY <1>1, <3>1
    <3>3. f[m + 2] = a \o g[m + 1] /\ g[m + 1] \in Seq(S)
      BY <2>2, <2>4, <3>2
    <3>4. f[(m + 1) + 2] = f[m + 2] \o ss[(m + 1) + 2]
      BY <1>4, <3>2
    <3>5. g[(m + 1) + 1] = g[m + 1] \o tt[(m + 1) + 1]
      BY <2>2, <3>1, <3>2
    <3>6. tt[(m + 1) + 1] = ss[(m + 1) + 2] /\ tt[(m + 1) + 1] \in Seq(S)
      BY <1>3, <3>1, <3>2
    <3>7. (a \o g[m + 1]) \o tt[(m + 1) + 1] = a \o (g[m + 1] \o tt[(m + 1) + 1])
      <4> DEFINE u == g[m + 1]
                 v == tt[(m + 1) + 1]
      <4>1. u \in Seq(S) /\ v \in Seq(S)
        BY <3>3, <3>6
      <4> HIDE DEF u, v
      <4>2. (a \o u) \o v = a \o (u \o v)
        BY <1>2, <4>1
      <4> QED
        BY <4>2 DEF u, v
    <3> QED
      BY <3>3, <3>4, <3>5, <3>6, <3>7, Zenon
  <2>5. f[n] = a \o g[n - 1]
    <3> HIDE DEF T
    <3>1. Nat \subseteq T
      BY <2>3, <2>4, Steps, Zenon
    <3>2. n - 2 \in Nat /\ (n - 2) + 1 = n - 1 /\ (n - 2) + 2 = n /\ n - 1 \in 1..n - 1
      BY <1>1, <1>6
    <3>3. n - 2 \in T
      BY <3>1, <3>2
    <3> QED
      BY <3>2, <3>3 DEF T
  <2> QED
    BY <1>2, <1>3, <1>4, <2>2, <2>5 DEF tt, a
<1> QED
  BY <1>5, <1>6

(* From(s, k): what the sequences of s from k on join to. *)
From(s, k) == FlattenSeq(SubSeq(s, k, Len(s)))

(* The k-th sequence comes before those behind it. *)
LEMMA FromStep ==
  ASSUME NEW S, NEW s \in Seq(Seq(S)), NEW k \in 1..Len(s)
  PROVE  From(s, k) = s[k] \o From(s, k + 1) /\ s[k] \in Seq(S) /\ From(s, k + 1) \in Seq(S)
<1> DEFINE t == SubSeq(s, k, Len(s))
           u == SubSeq(s, k + 1, Len(s))
           n == Len(s)
<1>1. n \in Nat /\ k \in Nat /\ k >= 1 /\ k <= n
  OBVIOUS
<1>2. t \in Seq(Seq(S)) /\ Len(t) = n + 1 - k /\ \A i \in 1..n + 1 - k : t[i] = s[k + i - 1]
  BY <1>1
<1>3. u \in Seq(Seq(S)) /\ Len(u) = n - k /\ \A i \in 1..n - k : u[i] = s[k + 1 + i - 1]
  BY <1>1
<1> HIDE DEF t, u
<1>4. t # <<>> /\ t[1] = s[k]
  BY <1>1, <1>2
<1>5. Tail(t) \in Seq(Seq(S)) /\ Len(Tail(t)) = n - k /\ \A i \in 1..n - k : Tail(t)[i] = t[i + 1]
  BY <1>1, <1>2, <1>4
<1>6. \A i \in 1..n - k : t[i + 1] = u[i]
  BY <1>1, <1>2, <1>3
<1>7. Tail(t) = u
  BY <1>3, <1>5, <1>6, SeqEqual
<1>8. FlattenSeq(t) = t[1] \o FlattenSeq(u) /\ t[1] \in Seq(S)
  BY <1>2, <1>4, <1>7, FlattenCons
<1>9. FlattenSeq(u) \in Seq(S)
  BY <1>3, FlattenType
<1> QED
  BY <1>4, <1>8, <1>9, Zenon DEF From, t, u

(* What is left has the elements of its parts. *)
LEMMA FromType ==
  ASSUME NEW S, NEW s \in Seq(Seq(S)), NEW k \in 1..Len(s) + 1
  PROVE  From(s, k) \in Seq(S)
<1>1. SubSeq(s, k, Len(s)) \in Seq(Seq(S))
  OBVIOUS
<1> QED
  BY <1>1, FlattenType DEF From

(* At first everything is left, and nothing at last. *)
LEMMA FromEnds ==
  ASSUME NEW S, NEW s \in Seq(Seq(S))
  PROVE  From(s, 1) = FlattenSeq(s) /\ From(s, Len(s) + 1) = <<>>
<1>1. SubSeq(s, 1, Len(s)) = s /\ SubSeq(s, Len(s) + 1, Len(s)) = <<>>
  OBVIOUS
<1> QED
  BY <1>1, FlattenEmpty DEF From

=============================================================================
