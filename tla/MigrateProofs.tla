--------------------------- MODULE MigrateProofs ---------------------------
(***************************************************************************)
(* Proofs about Migrate for any number of processes, any set of files and  *)
(* any texts in them: first what the loop cuts out of a text, and what a   *)
(* reader takes it to say; then what processes make of the files.          *)
(***************************************************************************)
EXTENDS Migrate, SequenceLemmas

-----------------------------------------------------------------------------
(* How a text is cut.                                                      *)

(* Where the semicolons are. *)
Marks(t) == {i \in 1..Len(t) : t[i] = ";"}

(* The semicolons behind a byte are among them. *)
LEMMA SemicolonsAreMarks ==
  ASSUME NEW t \in Seq(Alphabet), NEW n \in Nat
  PROVE  Semicolons(t, n) = {i \in Marks(t) : n < i}
<1>1. Len(t) \in Nat
  OBVIOUS
<1>2. \A i : i \in n + 1..Len(t) <=> i \in 1..Len(t) /\ n < i
  BY <1>1
<1> QED
  BY <1>2, Zenon DEF Semicolons, Marks

(* The loop cuts at the next semicolon, or at the end if there is none. *)
LEMMA CutAtIs ==
  ASSUME NEW t \in Seq(Alphabet), NEW n \in Nat, n < Len(t)
  PROVE  /\ CutAt(t, n) \in n + 1..Len(t)
         /\ \A j \in n + 1..CutAt(t, n) - 1 : j \notin Marks(t)
         /\ CutAt(t, n) \in Marks(t) \/ CutAt(t, n) = Len(t)
<1> DEFINE L == Len(t)
           M == Marks(t)
           B == {i \in M : n < i}
           c == CutAt(t, n)
<1>1. L \in Nat /\ n < L
  OBVIOUS
<1>2. M \subseteq 1..L
  BY DEF Marks
<1>3. c = IF B # {} THEN Min(B) ELSE L
  BY SemicolonsAreMarks, Zenon DEF CutAt
<1> SUFFICES /\ c \in n + 1..L
             /\ \A j \in n + 1..c - 1 : j \notin M
             /\ c \in M \/ c = L
  BY Zenon
<1> HIDE DEF L, M, c
<1>4. CASE B = {}
  BY <1>1, <1>3, <1>4
<1>5. CASE B # {}
  <2>1. B \in SUBSET Nat
    <3>1. \A k \in 1..L : k \in Nat
      BY <1>1
    <3> QED
      BY <1>2, <3>1
  <2>2. c \in B /\ \A k \in B : c <= k
    <3> HIDE DEF B
    <3> QED
      BY <1>3, <1>5, <2>1, MinIs, Zenon
  <2> QED
    BY <1>1, <1>2, <2>2
<1> QED
  BY <1>4, <1>5

(* A piece ends before the next semicolon, or at the end. *)
LEMMA EndOfIs ==
  ASSUME NEW t \in Seq(Alphabet), NEW n \in 0..Len(t)
  PROVE  /\ EndOf(t, n + 1) \in n..Len(t)
         /\ \A j \in n + 1..EndOf(t, n + 1) : j \notin Marks(t)
         /\ EndOf(t, n + 1) < Len(t) => EndOf(t, n + 1) + 1 \in Marks(t)
<1> DEFINE L == Len(t)
           M == Marks(t)
           E == {e \in n..L : \A j \in n + 1..e : j \notin M}
           m == EndOf(t, n + 1)
<1>1. L \in Nat /\ n \in 0..L
  OBVIOUS
<1>2. m = Max(E)
  <2>1. (n + 1) - 1 = n
    OBVIOUS
  <2>2. \A e \in n..L : \A j \in n + 1..e : j \in 1..L
    BY <1>1
  <2>3. \A e \in n..L : (\A j \in n + 1..e : t[j] # ";") <=> \A j \in n + 1..e : j \notin M
    BY <2>2, Zenon DEF M, L, Marks
  <2>4. {e \in n..L : \A j \in n + 1..e : t[j] # ";"} = E
    BY <2>3, Zenon
  <2> QED
    BY <2>1, <2>4, Zenon DEF EndOf
<1> SUFFICES /\ m \in n..L
             /\ \A j \in n + 1..m : j \notin M
             /\ m < L => m + 1 \in M
  BY Zenon
<1> HIDE DEF L, M, m
<1>3. E \in SUBSET (0..L) /\ n \in E
  BY <1>1
<1>4. m \in E /\ \A k \in E : k <= m
  <2> HIDE DEF E
  <2> QED
    BY <1>1, <1>2, <1>3, MaxIs, Zenon
<1>5. ASSUME m < L, m + 1 \notin M
      PROVE  FALSE
  <2>1. m \in n..L /\ \A j \in n + 1..m : j \notin M
    BY <1>4
  <2>2. m + 1 \in E
    BY <1>1, <1>5, <2>1
  <2> QED
    BY <1>1, <1>4, <2>1, <2>2
<1> QED
  BY <1>4, <1>5

(* The loop and the reader agree on where a piece ends: at a semicolon, *)
(* or not at all. *)
LEMMA CutMeetsEnd ==
  ASSUME NEW t \in Seq(Alphabet), NEW n \in Nat, n < Len(t)
  PROVE  \/ /\ CutAt(t, n) \in Marks(t)
            /\ EndOf(t, n + 1) = CutAt(t, n) - 1 /\ EndOf(t, n + 1) < Len(t)
         \/ /\ CutAt(t, n) \notin Marks(t) /\ CutAt(t, n) = Len(t)
            /\ EndOf(t, n + 1) = Len(t)
<1> DEFINE L == Len(t)
           M == Marks(t)
           c == CutAt(t, n)
           m == EndOf(t, n + 1)
<1>1. L \in Nat /\ n \in 0..L /\ n < L
  OBVIOUS
<1>2. c \in n + 1..L /\ (\A j \in n + 1..c - 1 : j \notin M) /\ (c \in M \/ c = L)
  BY CutAtIs, Zenon
<1>3. m \in n..L /\ (\A j \in n + 1..m : j \notin M) /\ (m < L => m + 1 \in M)
  BY <1>1, EndOfIs, Zenon
<1> HIDE DEF L, M, c, m
<1>4. CASE c \in M
  BY <1>1, <1>2, <1>3, <1>4 DEF L, M, c, m
<1>5. CASE c \notin M
  <2>1. c = L /\ m = L
    BY <1>1, <1>2, <1>3, <1>5
  <2> QED
    BY <1>5, <2>1 DEF L, M, c, m
<1> QED
  BY <1>4, <1>5

(* What the loop sends of one piece. *)
Taken(t, n) == IF Cut(t, n) = <<>> THEN <<>> ELSE <<Trim(Cut(t, n))>>

(* The function that Queries is defined with. *)
Sent(t) ==
  CHOOSE f : f = [n \in 0..Len(t) |->
                    IF n = Len(t) THEN <<>> ELSE Taken(t, n) \o f[CutAt(t, n)]]

(* There is such a function, from the end of the text to its beginning. *)
LEMMA SentExists ==
  ASSUME NEW t \in Seq(Alphabet)
  PROVE  \E f : f = [n \in 0..Len(t) |->
                       IF n = Len(t) THEN <<>> ELSE Taken(t, n) \o f[CutAt(t, n)]]
<1> DEFINE L == Len(t)
           Behind(f, k) == [n \in L - k..L |-> IF n = L THEN <<>> ELSE Taken(t, n) \o f[CutAt(t, n)]]
           T == {k \in Nat : k <= L => \E f : f = Behind(f, k)}
<1>1. L \in Nat
  OBVIOUS
<1>2. \A n \in Nat : n < L => CutAt(t, n) \in n + 1..L
  BY CutAtIs, Zenon
<1> HIDE DEF L
<1>3. 0 \in T
  <2> DEFINE g == [n \in L..L |-> IF n = L THEN <<>> ELSE Taken(t, n)]
  <2>1. \A n \in L..L : n = L
    BY <1>1
  <2>2. L - 0 = L
    BY <1>1
  <2>3. g = Behind(g, 0)
    BY <2>1, <2>2, Zenon
  <2> HIDE DEF g, Behind
  <2> QED
    BY <2>3
<1>4. ASSUME NEW k \in Nat, k \in T
      PROVE  k + 1 \in T
  <2>1. SUFFICES ASSUME k + 1 <= L
                 PROVE  \E f : f = Behind(f, k + 1)
    OBVIOUS
  <2>2. PICK f : f = Behind(f, k)
    BY <1>1, <1>4, <2>1
  <2> DEFINE m == L - (k + 1)
             g == [n \in m..L |-> IF n = m THEN Taken(t, m) \o f[CutAt(t, m)] ELSE f[n]]
  <2>3. m \in Nat /\ m < L /\ L - k = m + 1
    BY <1>1, <2>1
  <2>4. \A n \in m + 1..L : f[n] = IF n = L THEN <<>> ELSE Taken(t, n) \o f[CutAt(t, n)]
    BY <2>2, <2>3, Zenon
  <2>5. \A n \in m + 1..L : g[n] = f[n] /\ n # m
    <3>1. \A n \in m + 1..L : n \in m..L /\ n # m
      BY <1>1, <2>3
    <3> QED
      BY <3>1, Zenon
  <2>6. \A n \in m..L : n # L => CutAt(t, n) \in m + 1..L /\ g[CutAt(t, n)] = f[CutAt(t, n)]
    <3>1. ASSUME NEW n \in m..L, n # L
          PROVE  CutAt(t, n) \in m + 1..L
      <4>1. n \in Nat /\ n < L
        BY <1>1, <2>3, <3>1
      <4>2. CutAt(t, n) \in n + 1..L
        BY <1>2, <4>1
      <4> HIDE DEF m
      <4> QED
        BY <1>1, <2>3, <4>2
    <3> QED
      BY <2>5, <3>1, Zenon
  <2>7. m \in m..L /\ m # L /\ \A n \in m..L : n = m \/ n \in m + 1..L
    BY <1>1, <2>3
  <2>8. g[m] = Taken(t, m) \o f[CutAt(t, m)]
    BY <2>7, Zenon
  <2>9. g = [n \in m..L |-> g[n]]
    OBVIOUS
  <2> HIDE DEF g, m
  <2>10. ASSUME NEW n \in m..L
         PROVE  g[n] = IF n = L THEN <<>> ELSE Taken(t, n) \o g[CutAt(t, n)]
    <3>1. CASE n = m
      BY <2>6, <2>7, <2>8, <3>1, Zenon
    <3>2. CASE n \in m + 1..L
      BY <2>4, <2>5, <2>6, <3>2, Zenon
    <3> QED
      BY <2>7, <3>1, <3>2
  <2>11. g = Behind(g, k + 1)
    BY <2>9, <2>10, Zenon DEF m
  <2> HIDE DEF Behind
  <2> QED
    BY <2>11
<1>5. \E f : f = Behind(f, L)
  <2> HIDE DEF T
  <2>1. L \in T
    BY <1>1, <1>3, <1>4, Steps, Zenon
  <2> HIDE DEF Behind
  <2> QED
    BY <1>1, <2>1 DEF T
<1>6. L - L = 0
  BY <1>1
<1> QED
  BY <1>5, <1>6, Zenon DEF L

(* The queries, piece by piece. *)
LEMMA SentIs ==
  ASSUME NEW t \in Seq(Alphabet)
  PROVE  /\ Queries(t) = Sent(t)[0]
         /\ Sent(t)[Len(t)] = <<>>
         /\ \A n \in Nat : n < Len(t) => Sent(t)[n] = Taken(t, n) \o Sent(t)[CutAt(t, n)]
<1> DEFINE L == Len(t)
           f == Sent(t)
<1>1. L \in Nat
  OBVIOUS
<1>2. f = [n \in 0..L |-> IF n = L THEN <<>> ELSE Taken(t, n) \o f[CutAt(t, n)]]
  BY SentExists, Zenon DEF Sent
<1>3. Queries(t) = f[0]
  BY Zenon DEF Queries, Sent, Taken
<1> HIDE DEF f, L
<1>4. L \in 0..L /\ \A n \in Nat : n < L => n \in 0..L /\ n # L
  BY <1>1
<1>5. f[L] = <<>>
  BY <1>2, <1>4, Zenon
<1>6. \A n \in Nat : n < L => f[n] = Taken(t, n) \o f[CutAt(t, n)]
  BY <1>2, <1>4, Zenon
<1> QED
  BY <1>3, <1>5, <1>6, Zenon DEF f, L

(* A piece of a text is a text. *)
LEMMA TrimType ==
  ASSUME NEW t \in Seq(Alphabet)
  PROVE  Trim(t) \in Seq(Alphabet)
<1> DEFINE I == {i \in DOMAIN t : t[i] \notin Space}
<1>1. CASE I = {}
  BY <1>1, EmptySeq DEF Trim
<1>2. CASE I # {}
  <2>1. Trim(t) = SubSeq(t, Min(I), Max(I))
    BY <1>2, Zenon DEF Trim
  <2>2. Len(t) \in Nat /\ I \subseteq 1..Len(t)
    OBVIOUS
  <2> HIDE DEF I
  <2>3. I \in SUBSET Nat /\ I \in SUBSET (0..Len(t))
    BY <2>2
  <2>4. Min(I) \in I /\ Max(I) \in I
    BY <1>2, <2>2, <2>3, MinIs, MaxIs, Zenon
  <2>5. Min(I) \in 1..Len(t) /\ Max(I) \in 1..Len(t)
    BY <2>2, <2>4
  <2> QED
    BY <2>1, <2>5
<1> QED
  BY <1>1, <1>2

(* What is sent of a piece is a sequence of texts. *)
LEMMA TakenType ==
  ASSUME NEW t \in Seq(Alphabet), NEW n \in Nat, n < Len(t)
  PROVE  Cut(t, n) \in Seq(Alphabet) /\ Taken(t, n) \in Seq(Seq(Alphabet))
<1> DEFINE c == CutAt(t, n)
           q == Cut(t, n)
<1>1. c \in n + 1..Len(t)
  BY CutAtIs, Zenon
<1>2. q = SubSeq(t, n + 1, c - 1)
  BY DEF Cut
<1> HIDE DEF c
<1>3. q \in Seq(Alphabet)
  BY <1>1, <1>2
<1> HIDE DEF q
<1>4. Trim(q) \in Seq(Alphabet)
  BY <1>3, TrimType
<1>5. <<Trim(q)>> \in Seq(Seq(Alphabet)) /\ <<>> \in Seq(Seq(Alphabet))
  BY <1>4
<1>6. Taken(t, n) = <<>> \/ Taken(t, n) = <<Trim(q)>>
  BY Zenon DEF Taken, q
<1> QED
  BY <1>3, <1>5, <1>6 DEF q

(* The queries are texts, whatever the text that they are cut out of. *)
LEMMA SentType ==
  ASSUME NEW t \in Seq(Alphabet), NEW n \in 0..Len(t)
  PROVE  Sent(t)[n] \in Seq(Seq(Alphabet))
<1> DEFINE L == Len(t)
           f == Sent(t)
           T == {k \in Nat : k <= L => f[L - k] \in Seq(Seq(Alphabet))}
<1>1. L \in Nat /\ n \in 0..L
  OBVIOUS
<1>2. f[L] = <<>> /\ \A i \in Nat : i < L => f[i] = Taken(t, i) \o f[CutAt(t, i)]
  BY SentIs, Zenon
<1>3. \A i \in Nat : i < L => CutAt(t, i) \in i + 1..L /\ Taken(t, i) \in Seq(Seq(Alphabet))
  BY CutAtIs, TakenType, Zenon
<1> HIDE DEF L, f
<1>4. ASSUME NEW k \in Nat, \A j \in Nat : j < k => j \in T
      PROVE  k \in T
  <2>1. SUFFICES ASSUME k <= L
                 PROVE  f[L - k] \in Seq(Seq(Alphabet))
    OBVIOUS
  <2>2. CASE k = 0
    <3>1. L - k = L
      BY <1>1, <2>2
    <3> QED
      BY <1>2, <3>1, EmptySeq
  <2>3. CASE k # 0
    <3> DEFINE i == L - k
               c == CutAt(t, i)
    <3>1. i \in Nat /\ i < L
      BY <1>1, <2>1, <2>3
    <3>2. c \in i + 1..L /\ Taken(t, i) \in Seq(Seq(Alphabet)) /\ f[i] = Taken(t, i) \o f[c]
      BY <1>2, <1>3, <3>1
    <3>3. L - c \in Nat /\ L - c < k /\ L - c <= L /\ L - (L - c) = c
      <4> HIDE DEF c
      <4> QED
        BY <1>1, <2>1, <3>1, <3>2
    <3>4. L - c \in T
      BY <1>4, <3>3, Zenon
    <3>5. f[c] \in Seq(Seq(Alphabet))
      <4> HIDE DEF c
      <4> QED
        BY <3>3, <3>4
    <3> HIDE DEF c, i
    <3>6. Taken(t, i) \o f[c] \in Seq(Seq(Alphabet))
      BY <3>2, <3>5, ConcatProperties
    <3> QED
      BY <3>2, <3>6 DEF i
  <2> QED
    BY <2>2, <2>3
<1>5. L - n \in T
  <2> HIDE DEF T
  <2>1. Nat \subseteq T
    BY <1>4, Induction, Zenon
  <2> QED
    BY <1>1, <2>1
<1>6. L - n <= L /\ L - (L - n) = n
  BY <1>1
<1> QED
  BY <1>5, <1>6 DEF f

(* The number of statements of a file is a number. *)
LEMMA CountType == Count \in [Files -> Nat]
<1>1. \A f \in Files : Content[f] \in Seq(Alphabet)
  BY MigrateAssumption DEF MigrateAssumption
<1>2. ASSUME NEW f \in Files
      PROVE  Len(Queries(Content[f])) \in Nat
  <2> DEFINE t == Content[f]
  <2>1. t \in Seq(Alphabet)
    BY <1>1
  <2> HIDE DEF t
  <2>2. 0 \in 0..Len(t)
    BY <2>1
  <2>3. Queries(t) \in Seq(Seq(Alphabet))
    BY <2>1, <2>2, SentIs, SentType
  <2>4. Len(Queries(t)) \in Nat
    BY <2>3
  <2> QED
    BY <2>4 DEF t
<1> QED
  BY <1>2 DEF Count


(* The bytes that are not white space. *)
Ink(t) == {i \in DOMAIN t : t[i] \notin Space}

(* A blank text is trimmed to nothing, any other from its first to its     *)
(* last byte that is not white space.                                      *)
LEMMA TrimIs ==
  ASSUME NEW t \in Seq(Alphabet)
  PROVE  /\ Ink(t) \in SUBSET (1..Len(t))
         /\ Blank(t) <=> Ink(t) = {}
         /\ Blank(t) => Trim(t) = <<>>
         /\ ~Blank(t) => /\ Trim(t) = SubSeq(t, Min(Ink(t)), Max(Ink(t))) /\ Trim(t) # <<>>
                         /\ Min(Ink(t)) \in Ink(t) /\ \A i \in Ink(t) : Min(Ink(t)) <= i
                         /\ Max(Ink(t)) \in Ink(t) /\ \A i \in Ink(t) : i <= Max(Ink(t))
<1> DEFINE I == Ink(t)
<1>1. Len(t) \in Nat /\ DOMAIN t = 1..Len(t)
  OBVIOUS
<1>2. I \subseteq 1..Len(t)
  BY <1>1 DEF Ink
<1>3. Blank(t) <=> I = {}
  BY Zenon DEF Blank, Ink
<1>4. Trim(t) = IF I = {} THEN <<>> ELSE SubSeq(t, Min(I), Max(I))
  BY Zenon DEF Trim, Ink
<1> SUFFICES ASSUME I # {}
             PROVE  /\ SubSeq(t, Min(I), Max(I)) # <<>>
                    /\ Min(I) \in I /\ \A i \in I : Min(I) <= i
                    /\ Max(I) \in I /\ \A i \in I : i <= Max(I)
  BY <1>2, <1>3, <1>4, Zenon
<1> HIDE DEF I
<1>5. I \in SUBSET Nat /\ I \in SUBSET (0..Len(t))
  BY <1>1, <1>2
<1>6. Min(I) \in I /\ (\A i \in I : Min(I) <= i) /\ Max(I) \in I /\ (\A i \in I : i <= Max(I))
  BY <1>1, <1>5, MinIs, MaxIs, Zenon
<1>7. Min(I) \in 1..Len(t) /\ Max(I) \in 1..Len(t) /\ Min(I) <= Max(I)
  BY <1>2, <1>6
<1>8. Len(SubSeq(t, Min(I), Max(I))) # 0
  BY <1>1, <1>7
<1> QED
  BY <1>6, <1>8, EmptySeq

(* The last byte of a text and what is before it. *)
LEMMA FrontIs ==
  ASSUME NEW t \in Seq(Alphabet), t # <<>>
  PROVE  /\ Front(t) \in Seq(Alphabet) /\ Len(Front(t)) = Len(t) - 1
         /\ Ink(Front(t)) = {i \in Ink(t) : i # Len(t)}
         /\ Last(t) \in Space <=> Len(t) \notin Ink(t)
<1> DEFINE L == Len(t)
           u == Front(t)
<1>1. L \in Nat /\ L # 0 /\ DOMAIN t = 1..L
  BY EmptySeq
<1>2. u = SubSeq(t, 1, L - 1)
  BY DEF Front
<1>3. u \in Seq(Alphabet) /\ Len(u) = L - 1 /\ \A i \in 1..L - 1 : u[i] = t[i]
  BY <1>1, <1>2
<1>4. DOMAIN u = 1..L - 1
  BY <1>1, <1>3
<1>5. \A i : i \in 1..L - 1 <=> i \in 1..L /\ i # L
  BY <1>1
<1>6. L \in 1..L
  BY <1>1
<1>7. Last(t) = t[L]
  BY DEF Last
<1> HIDE DEF u, L
<1>8. Ink(u) = {i \in Ink(t) : i # L}
  <2>1. \A i : i \in DOMAIN u <=> i \in DOMAIN t /\ i # L
    BY <1>1, <1>4, <1>5, Zenon
  <2>2. \A i \in DOMAIN u : u[i] = t[i]
    BY <1>3, <1>4, Zenon
  <2>3. \A i : i \in Ink(u) <=> i \in Ink(t) /\ i # L
    BY <2>1, <2>2, Zenon DEF Ink
  <2> QED
    BY <2>3, Zenon
<1>9. Last(t) \in Space <=> L \notin Ink(t)
  BY <1>1, <1>6, <1>7, Zenon DEF Ink
<1> QED
  BY <1>3, <1>8, <1>9 DEF L, u

(* Without its last byte a text says the same exactly if that byte is      *)
(* white space.                                                            *)
LEMMA TrimFront ==
  ASSUME NEW t \in Seq(Alphabet), t # <<>>
  PROVE  /\ Last(t) \in Space => (Blank(Front(t)) <=> Blank(t)) /\ Trim(Front(t)) = Trim(t)
         /\ Last(t) \notin Space => ~Blank(t) /\ Trim(Front(t)) # Trim(t)
<1> DEFINE L == Len(t)
           u == Front(t)
           I == Ink(t)
           J == Ink(u)
<1>1. L \in Nat /\ L # 0
  BY EmptySeq
<1>2. u \in Seq(Alphabet) /\ Len(u) = L - 1 /\ J = {i \in I : i # L} /\ (Last(t) \in Space <=> L \notin I)
  BY FrontIs
<1>3. /\ I \in SUBSET (1..L) /\ (Blank(t) <=> I = {})
      /\ Blank(t) => Trim(t) = <<>>
      /\ ~Blank(t) => /\ Trim(t) = SubSeq(t, Min(I), Max(I)) /\ Trim(t) # <<>>
                      /\ Min(I) \in I /\ \A i \in I : Min(I) <= i
                      /\ Max(I) \in I /\ \A i \in I : i <= Max(I)
  BY TrimIs, Zenon
<1>4. /\ J \in SUBSET (1..Len(u)) /\ (Blank(u) <=> J = {})
      /\ Blank(u) => Trim(u) = <<>>
      /\ ~Blank(u) => /\ Trim(u) = SubSeq(u, Min(J), Max(J)) /\ Trim(u) # <<>>
                      /\ Min(J) \in J /\ \A i \in J : Min(J) <= i
                      /\ Max(J) \in J /\ \A i \in J : i <= Max(J)
  BY <1>2, TrimIs, Zenon
<1>5. u = SubSeq(t, 1, L - 1)
  BY DEF Front
<1> HIDE DEF L, I, J
<1>6. ASSUME L \notin I
      PROVE  (Blank(u) <=> Blank(t)) /\ Trim(u) = Trim(t)
  <2>1. I = J
    BY <1>2, <1>6
  <2>2. CASE Blank(t)
    BY <1>3, <1>4, <2>1, <2>2, Zenon
  <2>3. CASE ~Blank(t)
    <3> DEFINE a == Min(I)
               b == Max(I)
    <3>1. a \in 1..L - 1 /\ b \in 1..L - 1
      <4>1. a \in I /\ b \in I
        BY <1>3, <2>3, Zenon
      <4> HIDE DEF a, b
      <4> QED
        BY <1>1, <1>3, <1>6, <4>1
    <3>2. Trim(t) = SubSeq(t, a, b) /\ Trim(u) = SubSeq(u, a, b) /\ ~Blank(u)
      BY <1>3, <1>4, <2>1, <2>3, Zenon
    <3> HIDE DEF a, b
    <3>3. SubSeq(SubSeq(t, 1, L - 1), a, b) = SubSeq(t, a, b)
      <4>1. L - 1 \in 1..L /\ 1 \in 1..L /\ a \in 1..(L - 1) - 1 + 1 /\ b \in 1..(L - 1) - 1 + 1
        BY <1>1, <3>1
      <4>2. SubSeq(SubSeq(t, 1, L - 1), a, b) = SubSeq(t, 1 + a - 1, 1 + b - 1)
        BY <4>1, SubSeqOfSubSeq DEF L
      <4>3. 1 + a - 1 = a /\ 1 + b - 1 = b
        BY <3>1
      <4> QED
        BY <4>2, <4>3
    <3> QED
      BY <1>5, <2>3, <3>2, <3>3, Zenon
  <2> QED
    BY <2>2, <2>3
<1>7. ASSUME L \in I
      PROVE  ~Blank(t) /\ Trim(u) # Trim(t)
  <2>1. ~Blank(t)
    BY <1>3, <1>7
  <2>2. CASE Blank(u)
    BY <1>3, <1>4, <2>1, <2>2, Zenon
  <2>3. CASE ~Blank(u)
    <3> DEFINE a == Min(I)
               b == Max(I)
               c == Min(J)
               d == Max(J)
    <3>1. a \in I /\ b \in I /\ c \in J /\ d \in J /\ (\A i \in I : i <= b /\ a <= i) /\ \A i \in J : c <= i
      BY <1>3, <1>4, <2>1, <2>3, Zenon
    <3>2. Trim(t) = SubSeq(t, a, b) /\ Trim(u) = SubSeq(u, c, d)
      BY <1>3, <1>4, <2>1, <2>3, Zenon
    <3> HIDE DEF a, b, c, d
    <3>3. b = L /\ a \in 1..L /\ c \in 1..L - 1 /\ d \in 1..L - 1 /\ a <= c
      BY <1>1, <1>2, <1>3, <1>4, <1>7, <3>1
    <3>4. Len(SubSeq(t, a, b)) = L - a + 1
      BY <1>1, <3>3 DEF L
    <3>5. Len(SubSeq(u, c, d)) <= L - 1 - c + 1
      BY <1>1, <1>2, <3>3
    <3> QED
      BY <1>1, <2>1, <3>2, <3>3, <3>4, <3>5
  <2> QED
    BY <2>2, <2>3
<1> QED
  BY <1>2, <1>6, <1>7 DEF L, I

(* What the reader takes from a place of a text, if a piece begins there.  *)
Mean(t, i) == IF i \in Starts(t) /\ ~Blank(Piece(t, i)) THEN <<Trim(Piece(t, i))>> ELSE <<>>

Means(t) == [i \in 1..Len(t) + 1 |-> Mean(t, i)]

(* Statements are texts that are not empty. *)
NonEmpty == Seq(Alphabet) \ {<<>>}

(* A piece is a text. *)
LEMMA PieceType ==
  ASSUME NEW t \in Seq(Alphabet), NEW n \in 0..Len(t)
  PROVE  Piece(t, n + 1) \in Seq(Alphabet)
<1> DEFINE e == EndOf(t, n + 1)
<1>1. e \in n..Len(t)
  BY EndOfIs, Zenon
<1>2. Piece(t, n + 1) = SubSeq(t, n + 1, e)
  BY DEF Piece
<1> HIDE DEF e
<1>3. \A i \in n + 1..e : t[i] \in Alphabet
  BY <1>1
<1>4. n + 1 \in Int /\ e \in Int
  BY <1>1
<1> QED
  BY <1>2, <1>3, <1>4, SubSeqProperties

(* The reader takes statements. *)
LEMMA MeansType ==
  ASSUME NEW t \in Seq(Alphabet)
  PROVE  /\ Means(t) \in Seq(Seq(NonEmpty)) /\ Len(Means(t)) = Len(t) + 1
         /\ \A i \in 1..Len(t) + 1 : Means(t)[i] = Mean(t, i)
         /\ Meant(t) = FlattenSeq(Means(t))
<1> DEFINE L == Len(t)
<1>1. L \in Nat
  OBVIOUS
<1>2. ASSUME NEW i \in 1..L + 1
      PROVE  Mean(t, i) \in Seq(NonEmpty)
  <2> DEFINE p == Piece(t, i)
  <2>1. i - 1 \in 0..Len(t) /\ (i - 1) + 1 = i
    BY <1>1
  <2>2. p \in Seq(Alphabet)
    BY <2>1, PieceType
  <2>3. ~Blank(p) => Trim(p) \in NonEmpty
    BY <2>2, TrimType, TrimIs, Zenon DEF NonEmpty
  <2>4. Mean(t, i) = <<>> \/ (Mean(t, i) = <<Trim(p)>> /\ ~Blank(p))
    BY Zenon DEF Mean
  <2> HIDE DEF p
  <2>5. ~Blank(p) => <<Trim(p)>> \in Seq(NonEmpty)
    BY <2>3
  <2>6. <<>> \in Seq(NonEmpty)
    OBVIOUS
  <2> QED
    BY <2>4, <2>5, <2>6, Zenon
<1>3. Meant(t) = FlattenSeq(Means(t))
  BY Zenon DEF Meant, Means, Mean
<1>4. Means(t) = [i \in 1..L + 1 |-> Mean(t, i)]
  BY DEF Means
<1> HIDE DEF L
<1>5. Means(t) \in Seq(Seq(NonEmpty)) /\ Len(Means(t)) = L + 1 /\ \A i \in 1..L + 1 : Means(t)[i] = Mean(t, i)
  BY <1>1, <1>2, <1>4
<1> QED
  BY <1>3, <1>5 DEF L

(* A piece begins behind each semicolon, and nowhere else but at first. *)
LEMMA StartsAre ==
  ASSUME NEW t \in Seq(Alphabet), NEW n \in Nat
  PROVE  n + 1 \in Starts(t) <=> n = 0 \/ n \in Marks(t)
<1> DEFINE L == Len(t)
<1>1. L \in Nat
  OBVIOUS
<1>2. (n + 1) - 1 = n /\ (n + 1 = 1 <=> n = 0) /\ (n + 1 \in 2..L + 1 <=> n \in 1..L)
  BY <1>1
<1> HIDE DEF L
<1> QED
  BY <1>2, Zenon DEF Starts, Marks, L

(* Pieces begin in the text, or right behind it. *)
LEMMA StartsAreIn ==
  ASSUME NEW t \in Seq(Alphabet)
  PROVE  \A i \in Starts(t) : i \in 1..Len(t) + 1
<1>1. Len(t) \in Nat
  OBVIOUS
<1>2. \A i \in Starts(t) : i = 1 \/ i \in 2..Len(t) + 1
  BY Zenon DEF Starts
<1> QED
  BY <1>1, <1>2

(* Where no piece begins there is nothing to take. *)
LEMMA SkipBytes ==
  ASSUME NEW t \in Seq(Alphabet), NEW k \in Nat, NEW m \in Nat,
         1 <= k, k <= m, m <= Len(t) + 2, \A i \in k..m - 1 : i \notin Starts(t)
  PROVE  From(Means(t), k) = From(Means(t), m)
<1> DEFINE L == Len(t)
           F(i) == From(Means(t), i)
           T == {j \in Nat : k + j <= m => F(k + j) = F(k)}
<1>1. L \in Nat
  OBVIOUS
<1>2. ASSUME NEW i \in k..m - 1
      PROVE  F(i) = F(i + 1)
  <2>1. i \in 1..L + 1
    BY <1>1
  <2>2. Means(t) \in Seq(Seq(NonEmpty)) /\ Len(Means(t)) = L + 1 /\ Means(t)[i] = Mean(t, i)
    BY <2>1, MeansType, Zenon
  <2>3. Mean(t, i) = <<>>
    BY <1>2, Zenon DEF Mean
  <2>4. F(i) = <<>> \o F(i + 1) /\ F(i + 1) \in Seq(NonEmpty)
    BY <2>1, <2>2, <2>3, FromStep
  <2> QED
    BY <2>4, ConcatEmptySeq, Zenon
<1> HIDE DEF F
<1>3. 0 \in T
  BY DEF T
<1>4. ASSUME NEW j \in Nat, j \in T
      PROVE  j + 1 \in T
  <2>1. k + j + 1 <= m => k + j \in k..m - 1 /\ k + j <= m /\ (k + j) + 1 = k + (j + 1)
    OBVIOUS
  <2> QED
    BY <1>2, <1>4, <2>1
<1>5. m - k \in T
  <2> HIDE DEF T
  <2>1. Nat \subseteq T
    BY <1>3, <1>4, Steps, Zenon
  <2>2. m - k \in Nat
    OBVIOUS
  <2> QED
    BY <2>1, <2>2
<1>6. F(k + (m - k)) = F(k) /\ k + (m - k) = m
  BY <1>5
<1> QED
  BY <1>6 DEF F


(* Nothing is blank. *)
LEMMA EmptyIsBlank == Blank(<<>>)
<1>1. <<>> \in Seq(Alphabet) /\ Len(<<>>) = 0
  BY EmptySeq
<1>2. Ink(<<>>) \in SUBSET (1..Len(<<>>)) /\ (Blank(<<>>) <=> Ink(<<>>) = {})
  BY <1>1, TrimIs, Zenon
<1>3. 1..0 = {}
  OBVIOUS
<1> QED
  BY <1>1, <1>2, <1>3

(* Of a piece that a semicolon closes the loop takes what the reader takes *)
(* if it suits; if it does not, an empty query.                            *)
LEMMA ClosedPiece ==
  ASSUME NEW t \in Seq(Alphabet), NEW n \in Nat, n < Len(t),
         n + 1 \in Starts(t), CutAt(t, n) \in Marks(t)
  PROVE  /\ Suits(t, n + 1) => Taken(t, n) = Mean(t, n + 1)
         /\ ~Suits(t, n + 1) => Taken(t, n) = <<<<>>>> /\ Mean(t, n + 1) = <<>>
<1> DEFINE p == Piece(t, n + 1)
<1>1. EndOf(t, n + 1) = CutAt(t, n) - 1 /\ EndOf(t, n + 1) < Len(t)
  BY CutMeetsEnd, Zenon
<1>2. Cut(t, n) = p
  BY <1>1, Zenon DEF Cut, Piece
<1>3. Suits(t, n + 1) <=> p = <<>> \/ ~Blank(p)
  BY <1>1, Zenon DEF Suits
<1>4. p \in Seq(Alphabet)
  BY <1>2, TakenType
<1>5. Blank(p) => Trim(p) = <<>>
  BY <1>4, TrimIs, Zenon
<1>6. Taken(t, n) = IF p = <<>> THEN <<>> ELSE <<Trim(p)>>
  BY <1>2, Zenon DEF Taken
<1>7. Mean(t, n + 1) = IF ~Blank(p) THEN <<Trim(p)>> ELSE <<>>
  BY Zenon DEF Mean
<1> HIDE DEF p
<1> QED
  BY <1>3, <1>5, <1>6, <1>7, EmptyIsBlank, Zenon

(* Of the last piece, if nothing closes it, the loop takes what the reader *)
(* takes exactly if it suits.                                              *)
LEMMA OpenPiece ==
  ASSUME NEW t \in Seq(Alphabet), NEW n \in Nat, n < Len(t),
         n + 1 \in Starts(t), CutAt(t, n) \notin Marks(t)
  PROVE  Suits(t, n + 1) <=> Taken(t, n) = Mean(t, n + 1)
<1> DEFINE L == Len(t)
           p == Piece(t, n + 1)
           q == Front(p)
<1>1. L \in Nat /\ n < L
  OBVIOUS
<1>2. CutAt(t, n) = L /\ EndOf(t, n + 1) = L
  BY CutMeetsEnd, Zenon
<1>3. p = SubSeq(t, n + 1, L)
  BY <1>2, Zenon DEF Piece
<1>4. p \in Seq(Alphabet) /\ Len(p) = L - n
  <2>1. n + 1 \in Int /\ L \in Int /\ n + 1 <= L /\ L - (n + 1) + 1 = L - n
    BY <1>1
  <2>2. \A i \in n + 1..L : t[i] \in Alphabet
    BY <1>1
  <2> HIDE DEF p, L
  <2>3. p \in Seq(Alphabet) /\ Len(p) = L - (n + 1) + 1
    BY <1>3, <2>1, <2>2, SubSeqProperties
  <2> QED
    BY <2>1, <2>3
<1>5. p # <<>>
  <2> HIDE DEF p
  <2> QED
    BY <1>1, <1>4, EmptySeq
<1>6. q = SubSeq(t, n + 1, L - 1)
  <2>1. n + 1 \in 1..Len(t) /\ L \in n + 1..Len(t)
    BY <1>1
  <2>2. q = SubSeq(p, 1, L - n - 1)
    BY <1>4, Zenon DEF Front
  <2>3. SubSeq(SubSeq(t, n + 1, L), 1, L - n - 1) = SubSeq(t, n + 1, L - 1)
    <3>1. CASE L - n - 1 = 0
      <4>1. SubSeq(SubSeq(t, n + 1, L), 1, L - n - 1) = <<>>
        BY <3>1
      <4>2. SubSeq(t, n + 1, L - 1) = <<>>
        BY <1>1, <3>1
      <4> QED
        BY <4>1, <4>2
    <3>2. CASE L - n - 1 # 0
      <4> DEFINE m == L - n - 1
      <4>1. L \in 1..Len(t) /\ 1 \in 1..L - (n + 1) + 1 /\ m \in 1..L - (n + 1) + 1
        BY <1>1, <3>2
      <4>2. (n + 1) + 1 - 1 = n + 1 /\ (n + 1) + m - 1 = L - 1
        BY <1>1
      <4> HIDE DEF m
      <4>3. SubSeq(SubSeq(t, n + 1, L), 1, m) = SubSeq(t, (n + 1) + 1 - 1, (n + 1) + m - 1)
        BY <2>1, <4>1, SubSeqOfSubSeq
      <4> QED
        BY <4>2, <4>3 DEF m
    <3> QED
      BY <3>1, <3>2
  <2> QED
    BY <1>3, <2>2, <2>3, Zenon
<1>7. Cut(t, n) = q
  BY <1>2, <1>6, Zenon DEF Cut
<1>8. Suits(t, n + 1) <=> Last(p) \in Space /\ (q = <<>> \/ ~Blank(q))
  <2>1. ~(EndOf(t, n + 1) < Len(t))
    BY <1>1, <1>2
  <2> QED
    BY <1>5, <2>1, Zenon DEF Suits
<1>9. q \in Seq(Alphabet)
  BY <1>7, TakenType
<1>10. Taken(t, n) = IF q = <<>> THEN <<>> ELSE <<Trim(q)>>
  BY <1>7, Zenon DEF Taken
<1>11. Mean(t, n + 1) = IF ~Blank(p) THEN <<Trim(p)>> ELSE <<>>
  BY Zenon DEF Mean
<1>12. /\ Last(p) \in Space => (Blank(q) <=> Blank(p)) /\ Trim(q) = Trim(p)
       /\ Last(p) \notin Space => ~Blank(p) /\ Trim(q) # Trim(p)
  BY <1>4, <1>5, TrimFront, Zenon
<1> HIDE DEF p, q
<1>13. \A x, y : <<x>> # <<>> /\ (<<x>> = <<y>> <=> x = y)
  OBVIOUS
<1> QED
  BY <1>8, <1>10, <1>11, <1>12, <1>13, EmptyIsBlank, Zenon

(* The pieces behind n bytes. *)
SuitsFrom(t, n) == \A i \in Starts(t) : n < i => Suits(t, i)

(* Behind the last byte there is an empty piece, if any. *)
LEMMA SuitsAtEnd ==
  ASSUME NEW t \in Seq(Alphabet), Len(t) + 1 \in Starts(t)
  PROVE  SuitsFrom(t, Len(t)) /\ Mean(t, Len(t) + 1) = <<>>
<1> DEFINE L == Len(t)
           p == Piece(t, L + 1)
<1>1. L \in Nat /\ L \in 0..L
  OBVIOUS
<1>2. EndOf(t, L + 1) = L
  <2>1. EndOf(t, L + 1) \in L..L
    BY <1>1, EndOfIs, Zenon
  <2> QED
    BY <1>1, <2>1
<1>3. p = SubSeq(t, L + 1, L)
  BY <1>2, Zenon DEF Piece
<1>4. p = <<>>
  BY <1>1, <1>3
<1>5. Front(p) = <<>>
  <2>1. Front(<<>>) = <<>>
    BY EmptySeq DEF Front
  <2> QED
    BY <1>4, <2>1
<1>6. ~(EndOf(t, L + 1) < L)
  BY <1>1, <1>2
<1>7. Suits(t, L + 1)
  BY <1>4, <1>5, <1>6, Zenon DEF Suits
<1>8. \A i \in Starts(t) : L < i => i = L + 1
  <2>1. \A i \in Starts(t) : i \in 1..L + 1
    BY StartsAreIn, Zenon
  <2> HIDE DEF L
  <2> QED
    BY <1>1, <2>1
<1>9. SuitsFrom(t, L)
  BY <1>7, <1>8, Zenon DEF SuitsFrom
<1>10. Mean(t, L + 1) = <<>>
  BY <1>4, EmptyIsBlank, Zenon DEF Mean
<1> QED
  BY <1>9, <1>10

(* The pieces behind n bytes are the next one and those behind it. *)
LEMMA SuitsStep ==
  ASSUME NEW t \in Seq(Alphabet), NEW n \in Nat, n < Len(t), n + 1 \in Starts(t)
  PROVE  /\ CutAt(t, n) \in Marks(t) =>
              (SuitsFrom(t, n) <=> Suits(t, n + 1) /\ SuitsFrom(t, CutAt(t, n)))
         /\ CutAt(t, n) \notin Marks(t) => (SuitsFrom(t, n) <=> Suits(t, n + 1))
         /\ \A i \in n + 2..CutAt(t, n) : i \notin Starts(t)
<1> DEFINE L == Len(t)
           M == Marks(t)
           c == CutAt(t, n)
           X == Starts(t)
<1>1. L \in Nat /\ n < L
  OBVIOUS
<1>2. c \in n + 1..L /\ (\A j \in n + 1..c - 1 : j \notin M) /\ (c \in M \/ c = L)
  BY CutAtIs, Zenon
<1>3. M \subseteq 1..L
  BY DEF Marks
<1>4. \A i \in X : i \in 1..L + 1
  BY StartsAreIn, Zenon
<1>5. \A k \in Nat : k + 1 \in X <=> k = 0 \/ k \in M
  BY StartsAre, Zenon
<1> HIDE DEF X, M, L, c
<1>6. ASSUME NEW i \in X, n + 1 < i
      PROVE  i - 1 \in M /\ c < i
  <2>1. i - 1 \in Nat /\ (i - 1) + 1 = i /\ i - 1 # 0
    BY <1>4, <1>6
  <2>2. i - 1 \in M
    BY <1>5, <2>1
  <2> QED
    BY <1>1, <1>2, <1>3, <1>6, <2>1, <2>2
<1>7. \A i \in X : n < i => i = n + 1 \/ c < i
  BY <1>1, <1>4, <1>6
<1>8. \A i \in X : c < i => n < i
  BY <1>1, <1>2, <1>4
<1>9. c \notin M => \A i \in X : n < i => i = n + 1
  BY <1>1, <1>2, <1>3, <1>4, <1>6
<1>10. n < n + 1 /\ n + 1 \in X
  BY DEF X
<1>11. \A i \in n + 2..c : i \notin X
  BY <1>1, <1>2, <1>6
<1>12. c \in M => (SuitsFrom(t, n) <=> Suits(t, n + 1) /\ SuitsFrom(t, c))
  BY <1>7, <1>8, <1>10, Zenon DEF SuitsFrom, X
<1>13. c \notin M => (SuitsFrom(t, n) <=> Suits(t, n + 1))
  BY <1>9, <1>10, Zenon DEF SuitsFrom, X
<1> QED
  BY <1>11, <1>12, <1>13 DEF c, M, X

(* What the reader takes from the pieces behind n bytes. *)
MeantFrom(t, n) == From(Means(t), n + 1)

(* The next statement is taken from the next piece. *)
LEMMA MeantStep ==
  ASSUME NEW t \in Seq(Alphabet), NEW n \in Nat, n < Len(t), n + 1 \in Starts(t)
  PROVE  /\ Mean(t, n + 1) \in Seq(NonEmpty)
         /\ CutAt(t, n) \in Marks(t) =>
              /\ MeantFrom(t, n) = Mean(t, n + 1) \o MeantFrom(t, CutAt(t, n))
              /\ MeantFrom(t, CutAt(t, n)) \in Seq(NonEmpty)
         /\ CutAt(t, n) \notin Marks(t) => MeantFrom(t, n) = Mean(t, n + 1)
<1> DEFINE L == Len(t)
           M == Marks(t)
           c == CutAt(t, n)
           ms == Means(t)
<1>1. L \in Nat /\ n < L
  OBVIOUS
<1>2. /\ ms \in Seq(Seq(NonEmpty)) /\ Len(ms) = L + 1
      /\ \A i \in 1..L + 1 : ms[i] = Mean(t, i)
  BY MeansType, Zenon
<1>3. c \in n + 1..L /\ (c \in M \/ c = L)
  BY CutAtIs, Zenon
<1>4. \A i \in n + 2..c : i \notin Starts(t)
  BY SuitsStep, Zenon
<1>5. ~(L \in M) => L + 1 \notin Starts(t)
  BY <1>1, StartsAre
<1>6. \A k, m \in Nat : 1 <= k /\ k <= m /\ m <= L + 2 /\ (\A i \in k..m - 1 : i \notin Starts(t))
                          => From(ms, k) = From(ms, m)
  BY SkipBytes, Zenon
<1> HIDE DEF L, M, c, ms
<1>7. n + 1 \in 1..Len(ms) /\ (n + 1) + 1 = n + 2
  BY <1>1, <1>2
<1>8. From(ms, n + 1) = Mean(t, n + 1) \o From(ms, n + 2) /\ Mean(t, n + 1) \in Seq(NonEmpty)
  <2>1. From(ms, n + 1) = ms[n + 1] \o From(ms, (n + 1) + 1) /\ ms[n + 1] \in Seq(NonEmpty)
    BY <1>2, <1>7, FromStep, Zenon
  <2> QED
    BY <1>2, <1>7, <2>1
<1>9. ASSUME c \in M
      PROVE  From(ms, n + 2) = From(ms, c + 1) /\ From(ms, c + 1) \in Seq(NonEmpty)
  <2>1. n + 2 \in Nat /\ c + 1 \in Nat /\ 1 <= n + 2 /\ n + 2 <= c + 1 /\ c + 1 <= L + 2 /\ (c + 1) - 1 = c
    BY <1>1, <1>3
  <2>2. From(ms, n + 2) = From(ms, c + 1)
    BY <1>4, <1>6, <2>1, Zenon
  <2>3. c + 1 \in 1..Len(ms) + 1
    BY <1>1, <1>2, <1>3
  <2>4. From(ms, c + 1) \in Seq(NonEmpty)
    BY <1>2, <2>3, FromType, Zenon
  <2> QED
    BY <2>2, <2>4
<1>10. ASSUME c \notin M
       PROVE  From(ms, n + 2) = <<>>
  <2>1. n + 2 \in Nat /\ L + 2 \in Nat /\ 1 <= n + 2 /\ n + 2 <= L + 2 /\ L + 2 <= L + 2
    BY <1>1
  <2>2. c = L
    BY <1>3, <1>10
  <2>3. \A i \in n + 2..(L + 2) - 1 : i \in n + 2..c \/ i = L + 1
    BY <1>1, <2>2
  <2>4. \A i \in n + 2..(L + 2) - 1 : i \notin Starts(t)
    BY <1>4, <1>5, <1>10, <2>2, <2>3, Zenon
  <2>5. From(ms, n + 2) = From(ms, L + 2)
    BY <1>6, <2>1, <2>4, Zenon
  <2>6. From(ms, Len(ms) + 1) = <<>> /\ Len(ms) + 1 = L + 2
    <3>1. From(ms, Len(ms) + 1) = <<>>
      BY <1>2, FromEnds, Zenon
    <3>2. Len(ms) + 1 = L + 2
      BY <1>1, <1>2
    <3> QED
      BY <3>1, <3>2
  <2> QED
    BY <2>5, <2>6
<1>11. Mean(t, n + 1) \o <<>> = Mean(t, n + 1)
  BY <1>8, ConcatEmptySeq, Zenon
<1>12. CASE c \in M
  BY <1>8, <1>9, <1>12, Zenon DEF MeantFrom, c, M, ms
<1>13. CASE c \notin M
  BY <1>8, <1>10, <1>11, <1>13, Zenon DEF MeantFrom, c, M, ms
<1> QED
  BY <1>12, <1>13

(* An empty query is no statement: what begins with one is not what the    *)
(* reader takes.                                                           *)
LEMMA EmptyQuery ==
  ASSUME NEW a \in Seq(Seq(Alphabet)), NEW b \in Seq(NonEmpty)
  PROVE  <<<<>>>> \o a # b
<1> DEFINE e == <<>>
<1>1. e \in Seq(Alphabet) /\ e \notin NonEmpty
  BY DEF NonEmpty
<1> HIDE DEF e
<1>2. (<<e>> \o a)[1] = e /\ Len(<<e>> \o a) # 0
  BY <1>1
<1>3. Len(b) # 0 => b[1] \in NonEmpty
  OBVIOUS
<1>4. <<e>> \o a # b
  BY <1>1, <1>2, <1>3
<1> QED
  BY <1>4 DEF e

(* From one piece to the next, the loop and the reader stay apart, or      *)
(* together if the piece suits.                                            *)
LEMMA CutWellStep ==
  ASSUME NEW t \in Seq(Alphabet), NEW n \in Nat, n < Len(t), n + 1 \in Starts(t),
         CutAt(t, n) \in Marks(t) =>
           (Sent(t)[CutAt(t, n)] = MeantFrom(t, CutAt(t, n)) <=> SuitsFrom(t, CutAt(t, n)))
  PROVE  Sent(t)[n] = MeantFrom(t, n) <=> SuitsFrom(t, n)
<1> DEFINE c == CutAt(t, n)
           a == Taken(t, n)
           m == Mean(t, n + 1)
           s == Sent(t)[c]
           r == MeantFrom(t, c)
<1>1. Sent(t)[n] = a \o s
  BY SentIs, Zenon
<1>2. a \in Seq(Seq(Alphabet)) /\ s \in Seq(Seq(Alphabet))
  <2>1. c \in n + 1..Len(t)
    BY CutAtIs, Zenon
  <2>2. c \in 0..Len(t)
    <3> HIDE DEF c
    <3> QED
      BY <2>1
  <2> QED
    BY <2>2, TakenType, SentType, Zenon
<1>3. m \in Seq(NonEmpty)
  BY MeantStep, Zenon
<1>4. Seq(NonEmpty) \subseteq Seq(Seq(Alphabet))
  <2>1. NonEmpty \subseteq Seq(Alphabet)
    BY DEF NonEmpty
  <2> HIDE DEF NonEmpty
  <2> QED
    BY <2>1, SeqMonotonic
<1>5. CASE c \in Marks(t)
  <2>1. SuitsFrom(t, n) <=> Suits(t, n + 1) /\ SuitsFrom(t, c)
    BY <1>5, SuitsStep, Zenon
  <2>2. MeantFrom(t, n) = m \o r /\ r \in Seq(NonEmpty)
    BY <1>5, MeantStep, Zenon
  <2>3. s = r <=> SuitsFrom(t, c)
    BY <1>5, Zenon
  <2>4. /\ Suits(t, n + 1) => a = m
        /\ ~Suits(t, n + 1) => a = <<<<>>>> /\ m = <<>>
    BY <1>5, ClosedPiece, Zenon
  <2> HIDE DEF c, a, m, s, r
  <2>5. CASE Suits(t, n + 1)
    <3>1. r \in Seq(Seq(Alphabet))
      BY <1>4, <2>2
    <3>2. a \o s = a \o r => s = r
      BY <1>2, <3>1, ConcatSimplifications, Zenon
    <3> QED
      BY <1>1, <2>1, <2>2, <2>3, <2>4, <2>5, <3>2, Zenon
  <2>6. CASE ~Suits(t, n + 1)
    <3>1. <<>> \o r = r
      BY <2>2, ConcatEmptySeq, Zenon
    <3>2. <<<<>>>> \o s # r
      BY <1>2, <2>2, EmptyQuery, Zenon
    <3> QED
      BY <1>1, <2>1, <2>2, <2>4, <2>6, <3>1, <3>2, Zenon
  <2> QED
    BY <2>5, <2>6
<1>6. CASE c \notin Marks(t)
  <2>1. SuitsFrom(t, n) <=> Suits(t, n + 1)
    BY <1>6, SuitsStep, Zenon
  <2>2. MeantFrom(t, n) = m
    BY <1>6, MeantStep, Zenon
  <2>3. Suits(t, n + 1) <=> a = m
    BY <1>6, OpenPiece, Zenon
  <2>4. c = Len(t)
    BY <1>6, CutAtIs, Zenon
  <2>5. s = <<>>
    BY <2>4, SentIs, Zenon
  <2>6. a \o <<>> = a
    BY <1>2, ConcatEmptySeq, Zenon
  <2> HIDE DEF c, a, m, s, r
  <2> QED
    BY <1>1, <2>1, <2>2, <2>3, <2>5, <2>6, Zenon
<1> QED
  BY <1>5, <1>6

(* Whatever bytes a file consists of, the loop sends what a reader takes   *)
(* it to say exactly if each of its pieces suits.                          *)
LEMMA EveryTextIsCutWell == \A t \in Seq(Alphabet) : CutWell(t)
<1> SUFFICES ASSUME NEW t \in Seq(Alphabet)
             PROVE  CutWell(t)
  OBVIOUS
<1> DEFINE L == Len(t)
           Agree(n) == Sent(t)[n] = MeantFrom(t, n) <=> SuitsFrom(t, n)
           T == {k \in Nat : k <= L /\ (L - k) + 1 \in Starts(t) => Agree(L - k)}
<1>1. L \in Nat
  OBVIOUS
<1>2. ASSUME NEW k \in Nat, \A j \in Nat : j < k => j \in T
      PROVE  k \in T
  <2> DEFINE n == L - k
             c == CutAt(t, n)
  <2>1. SUFFICES ASSUME k <= L, n + 1 \in Starts(t)
                 PROVE  Agree(n)
    BY Zenon
  <2>2. CASE k = 0
    <3>1. n = L
      BY <1>1, <2>2
    <3>2. L + 1 \in Starts(t)
      BY <2>1, <3>1
    <3>3. SuitsFrom(t, L) /\ Mean(t, L + 1) = <<>>
      BY <3>2, SuitsAtEnd, Zenon
    <3>4. Sent(t)[L] = <<>>
      BY SentIs, Zenon
    <3>5. MeantFrom(t, L) = <<>>
      <4>1. /\ Means(t) \in Seq(Seq(NonEmpty)) /\ Len(Means(t)) = L + 1
            /\ \A i \in 1..L + 1 : Means(t)[i] = Mean(t, i)
        BY MeansType, Zenon
      <4> HIDE DEF L
      <4>2. L + 1 \in 1..L + 1
        BY <1>1
      <4>3. From(Means(t), L + 1) = Means(t)[L + 1] \o From(Means(t), (L + 1) + 1)
        BY <4>1, <4>2, FromStep, Zenon
      <4>4. From(Means(t), (L + 1) + 1) = <<>>
        BY <4>1, FromEnds, Zenon
      <4>5. <<>> \o <<>> = <<>>
        BY EmptySeq, ConcatEmptySeq
      <4> QED
        BY <3>3, <4>1, <4>2, <4>3, <4>4, <4>5, Zenon DEF MeantFrom
    <3> QED
      BY <3>1, <3>3, <3>4, <3>5, Zenon
  <2>3. CASE k # 0
    <3>1. n \in Nat /\ n < L
      BY <1>1, <2>1, <2>3
    <3>2. c \in n + 1..L
      BY <3>1, CutAtIs, Zenon
    <3>3. L - c \in Nat /\ L - c < k /\ L - c <= L /\ L - (L - c) = c /\ c \in Nat
      <4> HIDE DEF c
      <4> QED
        BY <1>1, <2>1, <3>1, <3>2
    <3>4. L - c \in T
      BY <1>2, <3>3, Zenon
    <3>5. c \in Marks(t) => c + 1 \in Starts(t)
      BY <3>3, StartsAre, Zenon
    <3>6. c \in Marks(t) => Agree(c)
      <4> HIDE DEF c, Agree
      <4>1. L - c <= L /\ (L - c \in T) /\ L - (L - c) = c
        BY <3>3, <3>4
      <4>2. (L - (L - c)) + 1 \in Starts(t) => Agree(L - (L - c))
        BY <4>1, Zenon
      <4> QED
        BY <3>5, <4>1, <4>2
    <3> HIDE DEF n
    <3>7. n + 1 \in Starts(t)
      BY <2>1
    <3> QED
      BY <3>1, <3>6, <3>7, CutWellStep, Zenon DEF L
  <2> QED
    BY <2>2, <2>3
<1>3. L \in T
  <2> HIDE DEF T
  <2>1. Nat \subseteq T
    BY <1>2, Induction, Zenon
  <2> QED
    BY <1>1, <2>1
<1>4. L - L = 0 /\ 0 + 1 = 1 /\ L <= L
  BY <1>1
<1>5. 1 \in Starts(t)
  BY Zenon DEF Starts
<1>6. Agree(0)
  <2> HIDE DEF Agree
  <2> QED
    BY <1>3, <1>4, <1>5
<1>7. Queries(t) = Sent(t)[0]
  BY SentIs, Zenon
<1>8. Meant(t) = MeantFrom(t, 0)
  <2>1. Means(t) \in Seq(Seq(NonEmpty)) /\ Meant(t) = FlattenSeq(Means(t))
    BY MeansType, Zenon
  <2>2. From(Means(t), 1) = FlattenSeq(Means(t))
    BY <2>1, FromEnds, Zenon
  <2> QED
    BY <1>4, <2>1, <2>2, Zenon DEF MeantFrom
<1>9. SuitsFrom(t, 0) <=> \A i \in Starts(t) : Suits(t, i)
  <2>1. \A i \in Starts(t) : 0 < i
    BY <1>1, StartsAreIn
  <2> QED
    BY <2>1, Zenon DEF SuitsFrom
<1> QED
  BY <1>6, <1>7, <1>8, <1>9, Zenon DEF CutWell

-----------------------------------------------------------------------------
(* What processes make of the files.                                       *)

(* What a process knows of the database.  Files it does not plan to record *)
(* are complete, and so is the beginning of the file it is in.  Others can *)
(* only add to the schema and to the recorded files, so it stays true.     *)
Knowledge ==
  \A m \in Migrators : pc[m] = "loop" =>
    /\ \A f \in Files \ todo[m] : recorded[f] > 0
    /\ \A f \in todo[m] : IsFirst(f, todo[m]) =>
         place[m] <= Count[f] /\ \A k \in 1..place[m] : <<f, k>> \in schema

(* Processes at work at the same time are noticed, and one that works      *)
(* alone finds no row of a file it is going to record.                     *)
Alone ==
  ~overlap =>
    /\ \A m, n \in Migrators : Working(m) /\ Working(n) => m = n
    /\ \A m \in Migrators : pc[m] = "loop" => \A f \in todo[m] : recorded[f] = 0

IInv ==
  /\ TypeOK
  /\ Knowledge
  /\ RecordedMeansApplied
  /\ InOrder
  /\ SuccessMeansMigrated
  /\ Alone
  /\ RecordedOnceAlone

(* The order of the files is that of their numbers. *)
LEMMA FilesAreNumbered == Files \subseteq Nat
BY MigrateAssumption DEF MigrateAssumption

LEMMA InitIInv == Init => IInv
<1> SUFFICES ASSUME Init
             PROVE  IInv
  OBVIOUS
<1>1. TypeOK
  <2>1. recorded \in [Files -> 0..2]
    BY DEF Init
  <2>2. todo \in [Migrators -> SUBSET Files]
    BY DEF Init
  <2> QED
    BY <2>1, <2>2 DEF Init, TypeOK
<1>2. Knowledge /\ SuccessMeansMigrated
  BY DEF Init, Knowledge, SuccessMeansMigrated
<1>3. RecordedMeansApplied /\ InOrder /\ RecordedOnceAlone
  BY DEF Init, RecordedMeansApplied, InOrder, RecordedOnceAlone
<1>4. Alone
  BY DEF Init, Alone, Working
<1> QED
  BY <1>1, <1>2, <1>3, <1>4 DEF IInv

LEMMA StepIInv == IInv /\ [Next]_vars => IInv'
<1> SUFFICES ASSUME IInv, [Next]_vars
             PROVE  IInv'
  OBVIOUS
<1> USE FilesAreNumbered, CountType
    DEF IInv, TypeOK, Knowledge, RecordedMeansApplied, InOrder,
        SuccessMeansMigrated, Alone, RecordedOnceAlone, Working, InEffect, IsFirst
<1>1. CASE UNCHANGED vars
  BY <1>1 DEF vars, Statements
<1>2. ASSUME NEW m \in Migrators, Start(m)
      PROVE  IInv'
  <2>1. UNCHANGED <<todo, place, table, schema, recorded>>
    BY <1>2 DEF Start
  <2>2. TypeOK'
    BY <1>2, <2>1 DEF Start, Statements
  <2>3. RecordedMeansApplied' /\ InOrder'
    BY <2>1
  <2>4. SuccessMeansMigrated' /\ Knowledge'
    BY <1>2, <2>1 DEF Start
  <2>5. Alone' /\ RecordedOnceAlone'
    BY <1>2, <2>1 DEF Start
  <2> QED
    BY <2>2, <2>3, <2>4, <2>5
<1>3. ASSUME NEW m \in Migrators, CreateTable(m)
      PROVE  IInv'
  BY <1>3 DEF CreateTable, Statements
<1>4. ASSUME NEW m \in Migrators, Applied(m)
      PROVE  IInv'
  <2>1. UNCHANGED <<table, schema, recorded, overlap>>
    BY <1>4 DEF Applied
  <2>2. TypeOK'
    <3>1. {f \in Files : recorded[f] = 0} \in SUBSET Files
      OBVIOUS
    <3> QED
      BY <1>4, <2>1, <3>1 DEF Applied, Statements
  <2>3. RecordedMeansApplied' /\ InOrder' /\ RecordedOnceAlone'
    BY <2>1
  <2>4. SuccessMeansMigrated'
    BY <1>4, <2>1 DEF Applied
  <2>5. Knowledge'
    BY <1>4, <2>1 DEF Applied
  <2>6. Alone'
    BY <1>4, <2>1 DEF Applied
  <2> QED
    BY <2>2, <2>3, <2>4, <2>5, <2>6
<1>5. ASSUME NEW m \in Migrators, Exec(m)
      PROVE  IInv'
  <2>1. PICK f \in todo[m] :
          /\ IsFirst(f, todo[m])
          /\ place[m] < Count[f]
          /\ schema' = schema \cup {<<f, place[m] + 1>>}
          /\ place' = [place EXCEPT ![m] = place[m] + 1]
    BY <1>5 DEF Exec
  <2>2. /\ f \in Files
        /\ place[m] + 1 \in 1..Count[f]
        /\ \A k \in 1..place[m] : <<f, k>> \in schema
        /\ \A g \in Files : g < f => InEffect(g)
    BY <1>5, <2>1 DEF Exec
  <2>3. UNCHANGED <<pc, todo, table, recorded, overlap>>
    BY <1>5 DEF Exec
  <2>4. TypeOK'
    BY <2>1, <2>2, <2>3 DEF Statements
  <2>5. \A g \in Files : InEffect(g) => InEffect(g)'
    BY <2>1
  <2>6. RecordedMeansApplied' /\ SuccessMeansMigrated' /\ Alone' /\ RecordedOnceAlone'
    BY <2>3, <2>5
  <2>7. InOrder'
    <3>1. ASSUME NEW s \in schema'
          PROVE  /\ \A k \in 1..s[2] : <<s[1], k>> \in schema'
                 /\ \A g \in Files : g < s[1] => InEffect(g)'
      <4>1. CASE s \in schema
        BY <4>1, <2>1, <2>5
      <4>2. CASE s = <<f, place[m] + 1>>
        <5>1. \A k \in 1..(place[m] + 1) : k \in 1..place[m] \/ k = place[m] + 1
          OBVIOUS
        <5> QED
          BY <4>2, <5>1, <2>1, <2>2, <2>5
      <4> QED
        BY <4>1, <4>2, <2>1
    <3> QED
      BY <3>1
  <2>8. Knowledge'
    <3>1. ASSUME NEW n \in Migrators, pc[n] = "loop", NEW g \in todo[n], IsFirst(g, todo[n])
          PROVE  place'[n] <= Count[g] /\ \A k \in 1..place'[n] : <<g, k>> \in schema'
      <4>1. CASE n = m
        <5>1. g = f
          <6>1. f <= g /\ g <= f
            BY <4>1, <3>1, <2>1
          <6>2. f \in Nat /\ g \in Nat
            BY <2>2
          <6> QED
            BY <6>1, <6>2
        <5>2. \A k \in 1..(place[m] + 1) : k \in 1..place[m] \/ k = place[m] + 1
          OBVIOUS
        <5> QED
          BY <4>1, <5>1, <5>2, <2>1, <2>2
      <4>2. CASE n # m
        BY <4>2, <3>1, <2>1
      <4> QED
        BY <4>1, <4>2
    <3> QED
      BY <3>1, <2>3
  <2> QED
    BY <2>4, <2>6, <2>7, <2>8
<1>6. ASSUME NEW m \in Migrators, Save(m)
      PROVE  IInv'
  BY <1>6 DEF Save, Statements
<1>7. ASSUME NEW m \in Migrators, Finish(m)
      PROVE  IInv'
  BY <1>7 DEF Finish, Statements
<1>8. ASSUME NEW m \in Migrators, Abort(m)
      PROVE  IInv'
  BY <1>8 DEF Abort, Statements
<1> QED
  BY <1>1, <1>2, <1>3, <1>4, <1>5, <1>6, <1>7, <1>8 DEF Next, Step

LEMMA Invariance == Spec => []IInv
BY InitIInv, StepIInv, PTL DEF Spec

-----------------------------------------------------------------------------
(* The variables keep their types: no process executes more statements     *)
(* than a file has.                                                        *)
THEOREM TypeCorrect == Spec => []TypeOK
BY Invariance, PTL DEF IInv

(* However processes overlap, die and are run again, a file is recorded    *)
(* only when all of its statements have taken effect.                      *)
THEOREM RecordsAreSound == Spec => []RecordedMeansApplied
BY Invariance, PTL DEF IInv

(* However processes overlap, a statement takes effect after all those     *)
(* before it.                                                              *)
THEOREM OrderIsKept == Spec => []InOrder
BY Invariance, PTL DEF IInv

(* A process that exits with success leaves a complete schema. *)
THEOREM SuccessIsSound == Spec => []SuccessMeansMigrated
BY Invariance, PTL DEF IInv

(* Without overlap no file is recorded twice, whatever crashes there are.  *)
THEOREM RecordsAreUnique == Spec => []RecordedOnceAlone
BY Invariance, PTL DEF IInv

(* Whatever bytes a text consists of, and however long it is, the loop     *)
(* sends its statements exactly if each is followed by a semicolon, and    *)
(* the last of them by at most one byte.                                   *)
THEOREM TextsAreCutWell ==
  /\ \A t \in Seq(Alphabet) : CutWell(t)
  /\ Spec => []QueriesAreStatements
<1>1. BoundedSeq(Alphabet, MaxLength) \subseteq Seq(Alphabet)
  <2>1. \A m \in 0..MaxLength : m \in Nat
    BY MigrateAssumption DEF MigrateAssumption
  <2>2. \A m \in Nat : [1..m -> Alphabet] \subseteq Seq(Alphabet)
    OBVIOUS
  <2>3. BoundedSeq(Alphabet, MaxLength) = UNION {[1..m -> Alphabet] : m \in 0..MaxLength}
    BY DEF BoundedSeq, SeqOf
  <2> QED
    BY <2>1, <2>2, <2>3, Zenon
<1>2. QueriesAreStatements
  BY <1>1, EveryTextIsCutWell, Zenon DEF QueriesAreStatements
<1>3. Spec => []QueriesAreStatements
  BY <1>2, PTL
<1> QED
  BY <1>3, EveryTextIsCutWell

(* Both levels together: of a file that is written to suit the loop, each  *)
(* statement that a reader sees has been sent as it stands, and has taken  *)
(* effect, once the file is recorded.                                      *)
MeantIsApplied ==
  \A f \in Files :
    recorded[f] > 0 /\ (\A i \in Starts(Content[f]) : Suits(Content[f], i))
      => \A k \in DOMAIN Meant(Content[f]) :
           Queries(Content[f])[k] = Meant(Content[f])[k] /\ <<f, k>> \in schema

(* However processes overlap and die, a recorded file has done what it     *)
(* says.                                                                   *)
THEOREM RecordsAreMeant == Spec => []MeantIsApplied
<1>1. ASSUME RecordedMeansApplied, NEW f \in Files, recorded[f] > 0,
             \A i \in Starts(Content[f]) : Suits(Content[f], i)
      PROVE  \A k \in DOMAIN Meant(Content[f]) :
               Queries(Content[f])[k] = Meant(Content[f])[k] /\ <<f, k>> \in schema
  <2> DEFINE t == Content[f]
             q == Queries(t)
  <2>1. t \in Seq(Alphabet)
    BY MigrateAssumption DEF MigrateAssumption
  <2>2. q = Meant(t)
    BY <1>1, <2>1, EveryTextIsCutWell, Zenon DEF CutWell
  <2>3. q \in Seq(Seq(Alphabet))
    <3> HIDE DEF t
    <3>1. 0 \in 0..Len(t)
      BY <2>1
    <3> QED
      BY <2>1, <3>1, SentIs, SentType, Zenon
  <2>4. DOMAIN q = 1..Len(q)
    <3> HIDE DEF q
    <3> QED
      BY <2>3
  <2>5. Count[f] = Len(q)
    BY Zenon DEF Count
  <2>6. \A k \in 1..Count[f] : <<f, k>> \in schema
    BY <1>1, Zenon DEF RecordedMeansApplied, InEffect
  <2> QED
    BY <2>2, <2>4, <2>5, <2>6, Zenon
<1>2. RecordedMeansApplied => MeantIsApplied
  BY <1>1, Zenon DEF MeantIsApplied
<1> QED
  BY <1>2, Invariance, PTL DEF IInv

=============================================================================
