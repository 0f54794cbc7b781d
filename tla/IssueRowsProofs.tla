-------------------------- MODULE IssueRowsProofs --------------------------
(***************************************************************************)
(* Proofs about IssueRows for events of any length, with any exceptions.   *)
(***************************************************************************)
EXTENDS IssueRows, SequenceLemmas

Numbered(k) == {n \in 1..N : exc[n].id = k}

(* The exception that parentHash finds. *)
First(k) == CHOOSE n \in Numbered(k) : \A l \in Numbered(k) : n <= l

(* What it returns when the exceptions before i are all that is computed.  *)
Link(i) ==
  LET p == exc[i].parent
  IN IF p < 1 \/ Numbered(p) = {} \/ First(p) >= i THEN NoHash ELSE hash[First(p)]

(* The hashes of the first m exceptions are computed, each of them linked  *)
(* to one before it.                                                       *)
HashedUpTo(m) ==
  /\ m \in 0..N
  /\ \A i \in 1..N : hash[i] = NoHash <=> i > m
  /\ \A i \in 1..m : hash[i] = Combine(Link(i), exc[i].body)
  /\ pc # "hash" => m = N

Hashing == pc # "sort" => Sorted(exc) /\ \E m \in Nat : HashedUpTo(m)

(* The one cell that column x gets for the message, and for exception i.   *)
BaseCell(x) ==
  IF x \in DOMAIN Base THEN Base[x]
  ELSE IF x \in DOMAIN User THEN User[x]
  ELSE IF request THEN WithRequest[x] ELSE NoRequest[x]

MessageCell(x) == IF x \in DOMAIN Message THEN Message[x] ELSE BaseCell(x)

ExceptionCell(i, x) == IF x \in DOMAIN Exception(i) THEN Exception(i)[x] ELSE BaseCell(x)

(* The rows so far: of the message, once it was its turn, and of the first *)
(* exceptions.                                                             *)
Heading == IF pc \in {"exceptions", "done"} THEN Offset ELSE 0

Values(s) == {s[k] : k \in DOMAIN s}

(* The column s holds the cell of the message, if head is 1, and those of  *)
(* the first n exceptions.                                                 *)
IsColumn(s, head, n, own, of) ==
  /\ s \in Seq(Values(s))
  /\ Len(s) = head + n
  /\ head = 1 => s[1] = own
  /\ \A k \in 1..n : s[head + k] = of[k]

Of(x) == [k \in Nat |-> ExceptionCell(k, x)]

RowCount ==
  /\ row \in 0..N
  /\ pc \notin {"exceptions", "done"} => row = 0
  /\ Complete => row = N

RowsSoFar ==
  /\ RowCount
  /\ DOMAIN cols = Columns
  /\ \A x \in Columns : IsColumn(cols[x], Heading, row, MessageCell(x), Of(x))

(* There are as many hashes as exceptions once the sort is done.           *)
IInv ==
  /\ exc \in Seq(Exceptions)
  /\ pc \in {"sort", "hash", "message", "exceptions", "done"}
  /\ message \in BOOLEAN
  /\ pc # "sort" => DOMAIN hash = 1..N
  /\ Hashing
  /\ RowsSoFar

-----------------------------------------------------------------------------
(* No column is filled by two of the functions that append a row, and none *)
(* is left out.                                                            *)
LEMMA ColumnsAreShared ==
  ASSUME NEW x \in Columns
  PROVE  LET b == x \in DOMAIN Base
             u == x \in DOMAIN User
             r == x \in DOMAIN WithRequest
             m == x \in DOMAIN Message
         IN /\ x \in DOMAIN NoRequest <=> r
            /\ \A i : x \in DOMAIN Exception(i) <=> m
            /\ \/ b /\ ~u /\ ~r /\ ~m
               \/ ~b /\ u /\ ~r /\ ~m
               \/ ~b /\ ~u /\ r /\ ~m
               \/ ~b /\ ~u /\ ~r /\ m
  BY DEF Columns, Base, User, WithRequest, NoRequest, Message, Exception

LEMMA OneCell ==
  ASSUME NEW x \in Columns
  PROVE  /\ MessageCells(x) = <<MessageCell(x)>>
         /\ \A i : ExceptionCells(i, x) = <<ExceptionCell(i, x)>>
<1> DEFINE R == IF request THEN WithRequest ELSE NoRequest
<1>1. /\ \A c : <<c>> \o <<>> = <<c>> /\ <<>> \o <<c>> = <<c>>
      /\ <<>> \o <<>> = <<>>
  OBVIOUS
<1>2. BaseCells(x) = Cells(Base, x) \o Cells(User, x) \o Cells(R, x)
  BY DEF BaseCells
<1>3. x \in DOMAIN R <=> x \in DOMAIN WithRequest
  BY ColumnsAreShared
<1>4. CASE x \in DOMAIN Message
  <2>1. x \notin DOMAIN Base /\ x \notin DOMAIN User /\ x \notin DOMAIN R
    BY <1>3, <1>4, ColumnsAreShared, Zenon
  <2>2. BaseCells(x) = <<>>
    BY <1>1, <1>2, <2>1, Zenon DEF Cells
  <2>3. MessageCells(x) = <<MessageCell(x)>>
    BY <1>1, <1>4, <2>2, Zenon DEF MessageCells, MessageCell, Cells
  <2>4. ASSUME NEW i PROVE ExceptionCells(i, x) = <<ExceptionCell(i, x)>>
    <3>1. x \in DOMAIN Exception(i)
      BY <1>4, ColumnsAreShared, Zenon
    <3> QED
      BY <1>1, <2>2, <3>1, Zenon DEF ExceptionCells, ExceptionCell, Cells
  <2> QED
    BY <2>3, <2>4
<1>5. CASE x \notin DOMAIN Message
  <2>1. BaseCells(x) = <<BaseCell(x)>>
    <3>1. CASE x \in DOMAIN Base
      <4>1. x \notin DOMAIN User /\ x \notin DOMAIN R
        BY <1>3, <3>1, ColumnsAreShared, Zenon
      <4> QED
        BY <1>1, <1>2, <3>1, <4>1, Zenon DEF Cells, BaseCell
    <3>2. CASE x \in DOMAIN User
      <4>1. x \notin DOMAIN Base /\ x \notin DOMAIN R
        BY <1>3, <3>2, ColumnsAreShared, Zenon
      <4> QED
        BY <1>1, <1>2, <3>2, <4>1, Zenon DEF Cells, BaseCell
    <3>3. CASE x \in DOMAIN WithRequest
      <4>1. x \notin DOMAIN Base /\ x \notin DOMAIN User /\ x \in DOMAIN R
        BY <1>3, <3>3, ColumnsAreShared, Zenon
      <4>2. R[x] = BaseCell(x)
        BY <4>1, Zenon DEF BaseCell
      <4> QED
        BY <1>1, <1>2, <4>1, <4>2, Zenon DEF Cells
    <3> QED
      BY <1>5, <3>1, <3>2, <3>3, ColumnsAreShared, Zenon
  <2>2. MessageCells(x) = <<MessageCell(x)>>
    BY <1>1, <1>5, <2>1, Zenon DEF MessageCells, MessageCell, Cells
  <2>3. ASSUME NEW i PROVE ExceptionCells(i, x) = <<ExceptionCell(i, x)>>
    <3>1. x \notin DOMAIN Exception(i)
      BY <1>5, ColumnsAreShared, Zenon
    <3> QED
      BY <1>1, <2>1, <3>1, Zenon DEF ExceptionCells, ExceptionCell, Cells
  <2> QED
    BY <2>2, <2>3
<1> QED
  BY <1>4, <1>5

(* What the columns of the message, the exceptions and the hashes hold. *)
LEMMA OwnCells ==
  /\ {"IssueHash", "Message", "Exception.ParentHash"} \cup ExceptionColumns \subseteq Columns
  /\ MessageCell("Exception.ParentHash") = NoHash
  /\ MessageCell("Message") = FromEvent
  /\ \A x \in ExceptionColumns : MessageCell(x) = Empty
  /\ \A i : /\ ExceptionCell(i, "IssueHash") = hash[i]
            /\ ExceptionCell(i, "Exception.ParentHash") = ParentHash(exc[i])
            /\ ExceptionCell(i, "Message") = Empty
            /\ \A x \in ExceptionColumns : ExceptionCell(i, x) = exc[i].body
<1>1. {"IssueHash", "Message", "Exception.ParentHash"} \cup ExceptionColumns \subseteq Columns
  BY DEF Columns, ExceptionColumns
<1>2. /\ MessageCell("Exception.ParentHash") = NoHash
      /\ MessageCell("Message") = FromEvent
      /\ \A x \in ExceptionColumns : MessageCell(x) = Empty
  BY DEF MessageCell, Message, ExceptionColumns
<1>3. \A i : /\ ExceptionCell(i, "IssueHash") = hash[i]
            /\ ExceptionCell(i, "Exception.ParentHash") = ParentHash(exc[i])
            /\ ExceptionCell(i, "Message") = Empty
            /\ \A x \in ExceptionColumns : ExceptionCell(i, x) = exc[i].body
  BY DEF ExceptionCell, Exception, ExceptionColumns
<1> QED
  BY <1>1, <1>2, <1>3

(* A parent that is found is one of the exceptions. *)
LEMMA FirstIsNumbered ==
  ASSUME exc \in Seq(Exceptions), NEW k, Numbered(k) # {}
  PROVE  First(k) \in Numbered(k) /\ First(k) \in 1..N
<1>1. Numbered(k) \subseteq Nat
  BY DEF Numbered, N
<1>2. \E n \in Numbered(k) : \A l \in Numbered(k) : n <= l
  BY <1>1, LeastExists
<1>3. First(k) \in Numbered(k)
  BY <1>2, Zenon DEF First
<1> QED
  BY <1>3 DEF Numbered

LEMMA ParentHashIsFirst ==
  ASSUME NEW x
  PROVE  ParentHash(x) = IF x.parent < 1 \/ Numbered(x.parent) = {} THEN NoHash
                         ELSE hash[First(x.parent)]
BY DEF ParentHash, Numbered, First

LEMMA ParentIsHashed ==
  ASSUME exc \in Seq(Exceptions), NEW i \in 1..N, ParentHash(exc[i]) # NoHash
  PROVE  \E n \in 1..N : ParentHash(exc[i]) = hash[n]
BY ParentHashIsFirst, FirstIsNumbered

(* Where m exceptions are hashed, parentHash finds for the next one what   *)
(* it is to be linked to.                                                  *)
LEMMA ParentHashIsLink ==
  ASSUME exc \in Seq(Exceptions), NEW m \in Nat, HashedUpTo(m), m < N
  PROVE  ParentHash(exc[m + 1]) = Link(m + 1)
<1> DEFINE p == exc[m + 1].parent
<1>1. CASE p < 1 \/ Numbered(p) = {}
  BY <1>1, ParentHashIsFirst DEF Link
<1>2. CASE ~(p < 1 \/ Numbered(p) = {})
  <2>1. First(p) \in 1..N /\ N \in Nat
    BY <1>2, FirstIsNumbered DEF N
  <2>2. First(p) >= m + 1 => hash[First(p)] = NoHash
    BY <2>1 DEF HashedUpTo
  <2> QED
    BY <1>2, <2>2, ParentHashIsFirst DEF Link
<1> QED
  BY <1>1, <1>2

LEMMA HashStep ==
  ASSUME IInv, Hash
  PROVE  Hashing'
<1> USE DEF IInv
<1>1. PICK m \in Nat : HashedUpTo(m)
  BY DEF Hash, Hashing
<1>2. pc = "hash" /\ exc' = exc /\ N' = N /\ N \in Nat /\ DOMAIN hash = 1..N /\ m <= N
  BY <1>1 DEF Hash, N, HashedUpTo
<1>3. Sorted(exc)'
  BY <1>2 DEF Hashing, Sorted, Compare
<1>4. /\ \A k : Numbered(k)' = Numbered(k)
      /\ \A k : First(k)' = First(k)
  BY <1>2 DEF Numbered, First
<1>5. CASE m = N
  <2>1. hash' = hash /\ pc' = "message"
    BY <1>1, <1>2, <1>5 DEF Hash, HashedUpTo
  <2>2. \A i : Link(i)' = Link(i)
    BY <1>2, <1>4, <2>1 DEF Link
  <2>3. HashedUpTo(m)'
    BY <1>1, <1>2, <1>5, <2>1, <2>2 DEF HashedUpTo
  <2> QED
    BY <1>1, <1>3, <2>3 DEF Hashing
<1>6. CASE m < N
  <2> DEFINE ready == {n \in 1..N : hash[n] = NoHash /\ \A k \in 1..n-1 : hash[k] # NoHash}
             h == Combine(ParentHash(exc[m + 1]), exc[m + 1].body)
  <2>1. ready = {m + 1}
    BY <1>1, <1>2, <1>6 DEF HashedUpTo
  <2>2. hash' = [hash EXCEPT ![m + 1] = h] /\ pc' = pc
    <3>1. \E n \in 1..N : hash[n] = NoHash
      BY <2>1
    <3>2. (CHOOSE n \in 1..N : hash[n] = NoHash /\ \A k \in 1..n-1 : hash[k] # NoHash) = m + 1
      BY <2>1
    <3> QED
      BY <3>1, <3>2 DEF Hash
  <2>3. h = Combine(Link(m + 1), exc[m + 1].body)
    BY <1>1, <1>6, ParentHashIsLink
  <2>4. h # NoHash
    BY DEF Combine, NoHash
  <2> HIDE DEF h
  <2>5. \A n \in 1..N : hash'[n] = IF n = m + 1 THEN h ELSE hash[n]
    BY <1>2, <2>2
  <2>6. ASSUME NEW i \in 1..(m + 1)
        PROVE  Link(i)' = Link(i)
    <3> DEFINE p == exc[i].parent
    <3>1. CASE p < 1 \/ Numbered(p) = {} \/ First(p) >= i
      BY <1>2, <1>4, <3>1 DEF Link
    <3>2. CASE ~(p < 1 \/ Numbered(p) = {} \/ First(p) >= i)
      <4>1. First(p) \in 1..N /\ First(p) # m + 1
        BY <3>2, FirstIsNumbered
      <4>2. hash'[First(p)] = hash[First(p)]
        BY <2>5, <4>1
      <4> QED
        BY <1>2, <1>4, <3>2, <4>2 DEF Link
    <3> QED
      BY <3>1, <3>2
  <2>7. HashedUpTo(m + 1)'
    <3>1. m + 1 \in 0..N /\ pc' = "hash"
      BY <1>2, <1>6, <2>2
    <3>2. \A i \in 1..N : hash'[i] = NoHash <=> i > m + 1
      BY <1>1, <1>2, <2>4, <2>5 DEF HashedUpTo
    <3>3. ASSUME NEW i \in 1..(m + 1)
          PROVE  hash'[i] = Combine(Link(i)', exc'[i].body)
      <4>1. i \in 1..N /\ Link(i)' = Link(i) /\ exc' = exc
        BY <1>2, <1>6, <2>6
      <4>2. CASE i = m + 1
        BY <2>3, <2>5, <4>1, <4>2
      <4>3. CASE i # m + 1
        <5>1. i \in 1..m
          BY <4>3
        <5> QED
          BY <1>1, <2>5, <4>1, <4>3, <5>1 DEF HashedUpTo
      <4> QED
        BY <4>2, <4>3
    <3> QED
      BY <1>2, <3>1, <3>2, <3>3 DEF HashedUpTo, Combine
  <2> QED
    BY <1>1, <1>3, <2>7 DEF Hashing
<1> QED
  BY <1>2, <1>5, <1>6

-----------------------------------------------------------------------------
LEMMA HashingStays ==
  ASSUME Hashing, UNCHANGED <<exc, hash>>, pc' = pc \/ pc \notin {"sort", "hash"}
  PROVE  Hashing'
<1>1. N' = N /\ Sorted(exc)' = Sorted(exc)
  BY DEF N, Sorted, Compare
<1>2. /\ \A k : Numbered(k)' = Numbered(k)
      /\ \A k : First(k)' = First(k)
  BY <1>1 DEF Numbered, First
<1>3. \A i : Link(i)' = Link(i)
  BY <1>2 DEF Link
<1>4. \A m : HashedUpTo(m) => HashedUpTo(m)'
  BY <1>1, <1>3 DEF HashedUpTo
<1> QED
  BY <1>1, <1>4 DEF Hashing

(* What append writes depends on the event and its hashes only. *)
LEMMA CellsStay ==
  ASSUME UNCHANGED <<exc, hash, message, request>>
  PROVE  /\ \A x : MessageCell(x)' = MessageCell(x)
         /\ \A x : Of(x)' = Of(x)
<1>1. N' = N
  BY DEF N
<1>2. \A y : ParentHash(y)' = ParentHash(y)
  BY <1>1 DEF ParentHash
<1>3. \A x : BaseCell(x)' = BaseCell(x)
  BY DEF BaseCell, Base, User, WithRequest, NoRequest
<1>4. Message' = Message
  BY DEF Message, MessageHash
<1>5. ASSUME NEW i PROVE Exception(i)' = Exception(i)
  <2>1. ParentHash(exc[i])' = ParentHash(exc[i])
    BY <1>2
  <2> QED
    BY <2>1 DEF Exception
<1>6. \A x : MessageCell(x)' = MessageCell(x)
  BY <1>3, <1>4 DEF MessageCell
<1>7. \A i, x : ExceptionCell(i, x)' = ExceptionCell(i, x)
  BY <1>3, <1>5 DEF ExceptionCell
<1>8. \A x : Of(x)' = Of(x)
  BY <1>7 DEF Of
<1> QED
  BY <1>6, <1>8

LEMMA OwnValues ==
  ASSUME NEW S, NEW t \in Seq(S)
  PROVE  t \in Seq(Values(t))
BY DEF Values

(* A cell more at the end of a column. *)
OneMore(t, s, c) ==
  /\ t \in Seq(Values(t))
  /\ Len(t) = Len(s) + 1
  /\ t[Len(s) + 1] = c
  /\ \A k \in 1..Len(s) : t[k] = s[k]

LEMMA OneMoreCell ==
  ASSUME NEW s, s \in Seq(Values(s)), NEW c, NEW t, t = s \o <<c>>
  PROVE  OneMore(t, s, c)
<1> DEFINE S == Values(s) \cup {c}
<1>1. Values(s) \subseteq S /\ c \in S
  BY DEF Values
<1> HIDE DEF S
<1>2. s \in Seq(S) /\ <<c>> \in Seq(S) /\ Len(<<c>>) = 1 /\ <<c>>[1] = c
  BY <1>1
<1>3. /\ t \in Seq(S)
      /\ Len(t) = Len(s) + 1
      /\ \A k \in 1..(Len(s) + 1) : t[k] = IF k <= Len(s) THEN s[k] ELSE <<c>>[k - Len(s)]
  BY <1>2, ConcatProperties
<1>4. Len(s) \in Nat
  BY <1>2
<1>5. t[Len(s) + 1] = c /\ \A k \in 1..Len(s) : t[k] = s[k]
  BY <1>2, <1>3, <1>4
<1>6. t \in Seq(Values(t))
  BY <1>3, OwnValues, Zenon
<1> QED
  BY <1>3, <1>5, <1>6 DEF OneMore

LEMMA NoCell ==
  ASSUME NEW own, NEW of
  PROVE  IsColumn(<<>>, 0, 0, own, of)
BY DEF IsColumn

LEMMA FirstCell ==
  ASSUME NEW s, NEW own, NEW of, IsColumn(s, 0, 0, own, of)
  PROVE  IsColumn(s \o <<own>>, 1, 0, own, of)
<1>1. s \in Seq(Values(s))
  BY DEF IsColumn
<1>2. PICK t : t = s \o <<own>>
  OBVIOUS
<1>3. OneMore(t, s, own)
  BY <1>1, <1>2, OneMoreCell, Zenon
<1>4. Len(s) = 0
  BY DEF IsColumn
<1>5. IsColumn(t, 1, 0, own, of)
  BY <1>3, <1>4 DEF IsColumn, OneMore
<1> QED
  BY <1>2, <1>5

LEMMA NextCell ==
  ASSUME NEW s, NEW head \in {0, 1}, NEW n \in Nat, NEW own, NEW of,
         IsColumn(s, head, n, own, of)
  PROVE  IsColumn(s \o <<of[n + 1]>>, head, n + 1, own, of)
<1> DEFINE c == of[n + 1]
<1>1. /\ s \in Seq(Values(s))
      /\ Len(s) = head + n
      /\ head = 1 => s[1] = own
      /\ \A k \in 1..n : s[head + k] = of[k]
  BY DEF IsColumn
<1> HIDE DEF c
<1>2. PICK t : t = s \o <<c>>
  OBVIOUS
<1>3. s \in Seq(Values(s))
  BY <1>1
<1>4. OneMore(t, s, c)
  BY <1>2, <1>3, OneMoreCell, Zenon
<1>5. Len(t) = head + (n + 1) /\ t[head + (n + 1)] = c
  BY <1>1, <1>4 DEF OneMore
<1>6. head = 1 => t[1] = own
  BY <1>1, <1>4 DEF OneMore
<1>7. ASSUME NEW k \in 1..(n + 1)
      PROVE  t[head + k] = of[k]
  <2>1. CASE k = n + 1
    BY <1>5, <2>1 DEF c
  <2>2. CASE k # n + 1
    <3>1. k \in 1..n /\ head + k \in 1..Len(s)
      BY <1>1, <2>2
    <3> QED
      BY <1>1, <1>4, <3>1 DEF OneMore
  <2> QED
    BY <2>1, <2>2
<1>8. IsColumn(t, head, n + 1, own, of)
  BY <1>4, <1>5, <1>6, <1>7 DEF IsColumn, OneMore
<1> QED
  BY <1>2, <1>8 DEF c

LEMMA InitIInv == Init => IInv
<1> SUFFICES ASSUME Init
             PROVE  IInv
  OBVIOUS
<1>1. exc \in Seq(Exceptions)
  BY IssueRowsAssumption DEF Init, IssueRowsAssumption
<1>2. N \in Nat
  BY <1>1 DEF N
<1>3. RowCount /\ Heading = 0 /\ row = 0
  BY <1>2 DEF Init, RowCount, Heading, Complete
<1>4. DOMAIN cols = Columns /\ \A x \in Columns : cols[x] = <<>>
  BY DEF Init
<1>5. RowsSoFar
  BY <1>3, <1>4, NoCell DEF RowsSoFar
<1> QED
  BY <1>1, <1>5 DEF Init, IInv, Hashing

(* While the hashes are computed there are no rows. *)
LEMMA NoRowsYet ==
  ASSUME IInv, UNCHANGED rowvars, N' = N,
         pc \in {"sort", "hash"}, pc' \in {"hash", "message"}
  PROVE  RowsSoFar'
<1>1. N \in Nat
  BY DEF IInv, N
<1>2. row = 0 /\ row' = 0 /\ Heading = 0 /\ Heading' = 0 /\ cols' = cols
  BY DEF IInv, RowsSoFar, RowCount, Heading, rowvars
<1>3. RowCount'
  BY <1>1, <1>2 DEF RowCount, Complete
<1>4. DOMAIN cols = Columns /\ \A x \in Columns : cols[x] = <<>>
  <2>1. ASSUME NEW x \in Columns PROVE cols[x] = <<>>
    <3>1. cols[x] \in Seq(Values(cols[x])) /\ Len(cols[x]) = 0
      BY <1>2 DEF IInv, RowsSoFar, IsColumn
    <3> QED
      BY <3>1, EmptySeq, Zenon
  <2> QED
    BY <2>1 DEF IInv, RowsSoFar
<1>5. ASSUME NEW x \in Columns
      PROVE  IsColumn(cols[x], Heading, row, MessageCell(x), Of(x))'
  <2>1. IsColumn(<<>>, 0, 0, MessageCell(x)', Of(x)')
    BY NoCell, Zenon
  <2> QED
    BY <1>2, <1>4, <2>1, Zenon
<1>6. DOMAIN cols' = Columns
  BY <1>2, <1>4
<1> QED
  BY <1>3, <1>5, <1>6, Zenon DEF RowsSoFar

LEMMA StepIInv == IInv /\ [Next]_vars => IInv'
<1> SUFFICES ASSUME IInv, [Next]_vars
             PROVE  IInv'
  OBVIOUS
<1>1. CASE Sort
  <2>1. PICK p \in Bijection(1..N, 1..N) : exc' = [i \in 1..N |-> exc[p[i]]]
    BY <1>1 DEF Sort, Rearranged, N
  <2>2. p \in [1..N -> 1..N]
    BY DEF Bijection, Injection, Surjection
  <2>3. exc' \in Seq(Exceptions) /\ N' = N
    BY <2>1, <2>2 DEF IInv, N
  <2>4. /\ N \in Nat /\ hash' = [n \in 1..N |-> NoHash] /\ Sorted(exc')
        /\ pc = "sort" /\ pc' = "hash" /\ message' = message /\ UNCHANGED rowvars
    BY <1>1 DEF IInv, Sort, N, event
  <2>5. HashedUpTo(0)'
    BY <2>3, <2>4 DEF HashedUpTo
  <2>6. Hashing'
    BY <2>4, <2>5 DEF Hashing, Sorted, Compare
  <2>7. RowsSoFar'
    BY <2>3, <2>4, NoRowsYet
  <2> QED
    BY <2>3, <2>4, <2>6, <2>7 DEF IInv
<1>2. CASE Hash
  <2>1. N' = N /\ exc' = exc /\ message' = message /\ UNCHANGED rowvars
    BY <1>2 DEF Hash, N, event
  <2>2. DOMAIN hash' = DOMAIN hash
    BY <1>2 DEF Hash
  <2>3. pc = "hash" /\ pc' \in {"hash", "message"}
    BY <1>2 DEF Hash
  <2>4. Hashing'
    BY <1>2, HashStep
  <2>5. RowsSoFar'
    BY <2>1, <2>3, NoRowsYet
  <2> QED
    BY <2>1, <2>2, <2>3, <2>4, <2>5 DEF IInv
<1>3. CASE AppendMessage
  <2>1. /\ UNCHANGED <<exc, hash, message, request, row>> /\ N' = N
        /\ pc = "message" /\ pc' = "exceptions"
        /\ cols' = IF message THEN [x \in Columns |-> cols[x] \o MessageCells(x)] ELSE cols
    BY <1>3 DEF AppendMessage, event, N
  <2>2. row = 0 /\ row' = 0 /\ Heading = 0 /\ Heading' = Offset /\ Offset = IF message THEN 1 ELSE 0
    BY <2>1 DEF IInv, RowsSoFar, RowCount, Heading, Offset
  <2>3. Hashing'
    BY <2>1, HashingStays DEF IInv
  <2>4. RowCount'
    BY <2>1 DEF IInv, RowsSoFar, RowCount, Complete
  <2>5. DOMAIN cols' = Columns
    BY <2>1 DEF IInv, RowsSoFar
  <2>6. ASSUME NEW x \in Columns
        PROVE  IsColumn(cols[x], Heading, row, MessageCell(x), Of(x))'
    <3>1. IsColumn(cols[x], 0, 0, MessageCell(x), Of(x))
      BY <2>2 DEF IInv, RowsSoFar
    <3>2. MessageCell(x)' = MessageCell(x) /\ Of(x)' = Of(x)
      BY <2>1, CellsStay
    <3>3. CASE message
      <4>1. cols'[x] = cols[x] \o <<MessageCell(x)>>
        BY <2>1, <3>3, OneCell
      <4>2. Heading' = 1 /\ row' = 0
        BY <2>2, <3>3
      <4> QED
        BY <3>1, <3>2, <4>1, <4>2, FirstCell
    <3>4. CASE ~message
      <4>1. cols'[x] = cols[x] /\ Heading' = 0 /\ row' = 0
        BY <2>1, <2>2, <3>4
      <4> QED
        BY <3>1, <3>2, <4>1
    <3> QED
      BY <3>3, <3>4
  <2>7. RowsSoFar'
    BY <2>4, <2>5, <2>6, Zenon DEF RowsSoFar
  <2> QED
    BY <2>1, <2>3, <2>7 DEF IInv
<1>4. CASE AppendException
  <2>1. UNCHANGED <<exc, hash, message, request>> /\ N' = N /\ pc = "exceptions"
    BY <1>4 DEF AppendException, event, N
  <2>2. N \in Nat /\ row \in 0..N /\ Heading = Offset /\ Offset \in {0, 1}
    BY <2>1 DEF IInv, RowsSoFar, RowCount, Heading, Offset, N
  <2>3. Offset' = Offset /\ pc' \in {"exceptions", "done"} /\ Heading' = Heading
    BY <1>4, <2>1, <2>2 DEF AppendException, Offset, Heading
  <2>4. Hashing'
    BY <2>1, <2>3, HashingStays DEF IInv
  <2>5. DOMAIN cols = Columns
        /\ \A x \in Columns : IsColumn(cols[x], Heading, row, MessageCell(x), Of(x))
    BY DEF IInv, RowsSoFar
  <2>6. \A x : MessageCell(x)' = MessageCell(x) /\ Of(x)' = Of(x)
    BY <2>1, CellsStay
  <2>7. ASSUME row < N
      PROVE  RowsSoFar'
    <3>1. /\ cols' = [x \in Columns |-> cols[x] \o ExceptionCells(row + 1, x)]
          /\ row' = row + 1 /\ pc' = pc
      BY <1>4, <2>7 DEF AppendException
    <3>2. RowCount'
      BY <2>1, <2>2, <2>7, <3>1 DEF RowCount, Complete
    <3>3. DOMAIN cols' = Columns
      BY <3>1
    <3>4. ASSUME NEW x \in Columns
          PROVE  IsColumn(cols[x], Heading, row, MessageCell(x), Of(x))'
      <4>1. Of(x)[row + 1] = ExceptionCell(row + 1, x)
        BY <2>2 DEF Of
      <4>2. cols'[x] = cols[x] \o <<Of(x)[row + 1]>>
        BY <3>1, <4>1, OneCell
      <4>3. Heading \in {0, 1} /\ row \in Nat
        BY <2>2
      <4>4. IsColumn(cols[x] \o <<Of(x)[row + 1]>>, Heading, row + 1, MessageCell(x), Of(x))
        BY <2>5, <4>3, NextCell, Zenon
      <4> QED
        BY <2>3, <2>6, <3>1, <4>2, <4>4, Zenon
    <3> QED
      BY <3>2, <3>3, <3>4, Zenon DEF RowsSoFar
  <2>8. ASSUME ~(row < N)
      PROVE  RowsSoFar'
    <3>1. pc' = "done" /\ cols' = cols /\ row' = row /\ row = N
      BY <1>4, <2>2, <2>8 DEF AppendException, rowvars
    <3>2. RowCount'
      BY <2>1, <2>2, <3>1 DEF RowCount
    <3> QED
      BY <2>3, <2>5, <2>6, <3>1, <3>2 DEF RowsSoFar
  <2>9. RowsSoFar'
    BY <2>7, <2>8
  <2> QED
    BY <2>1, <2>3, <2>4, <2>9 DEF IInv
<1>5. CASE UNCHANGED vars
  <2>1. UNCHANGED <<exc, hash, cols, row, pc, message, request>> /\ N' = N
    BY <1>5 DEF vars, rowvars, event, N
  <2>2. Heading' = Heading /\ RowCount' = RowCount
    BY <2>1 DEF Offset, Heading, Complete, RowCount
  <2>3. \A x : MessageCell(x)' = MessageCell(x) /\ Of(x)' = Of(x)
    BY <2>1, CellsStay
  <2>4. RowsSoFar'
    BY <2>1, <2>2, <2>3, Zenon DEF IInv, RowsSoFar
  <2>5. Hashing'
    BY <2>1, HashingStays DEF IInv
  <2> QED
    BY <2>1, <2>4, <2>5 DEF IInv
<1> QED
  BY <1>1, <1>2, <1>3, <1>4, <1>5 DEF Next, Done

LEMMA Invariance == Spec => []IInv
  BY InitIInv, StepIInv, PTL DEF Spec

-----------------------------------------------------------------------------
LEMMA WholeColumns ==
  ASSUME IInv, Complete, NEW x \in Columns
  PROVE  /\ Len(cols[x]) = Offset + N /\ DOMAIN cols[x] = 1..(Offset + N)
         /\ Offset = 1 => cols[x][1] = MessageCell(x)
         /\ \A n \in 1..N : cols[x][Offset + n] = ExceptionCell(n, x)
<1>1. row = N /\ Heading = Offset /\ N \in Nat
  BY DEF IInv, RowsSoFar, RowCount, Heading, Complete, N
<1>2. IsColumn(cols[x], Offset, N, MessageCell(x), Of(x))
  BY <1>1 DEF IInv, RowsSoFar
<1>3. \A n \in 1..N : Of(x)[n] = ExceptionCell(n, x)
  BY <1>1 DEF Of
<1> QED
  BY <1>1, <1>2, <1>3 DEF IsColumn

(* Whatever an event has and lacks, append leaves the columns aligned: one *)
(* cell in each for the message and for every exception.                   *)
THEOREM RowsAreWhole == Spec => []RowsComplete
<1>1. IInv => RowsComplete
  <2> SUFFICES ASSUME IInv, Complete
               PROVE  RowsComplete
    BY DEF RowsComplete
  <2>1. /\ \A x \in Columns : Len(cols[x]) = Offset + N
        /\ \A x \in Columns : Offset = 1 => cols[x][1] = MessageCell(x)
        /\ \A x \in Columns : \A n \in 1..N : cols[x][Offset + n] = ExceptionCell(n, x)
    BY WholeColumns
  <2>2. message => Offset = 1
    BY DEF Offset
  <2> QED
    BY <2>1, <2>2, OwnCells DEF RowsComplete
<1> QED
  BY <1>1, Invariance, PTL

(* A parent hash that is stored is the hash of a row of the same event.    *)
THEOREM ParentsAreRows == Spec => []ParentsResolve
<1>1. IInv => ParentsResolve
  <2> DEFINE parents == cols["Exception.ParentHash"]
             hashes == cols["IssueHash"]
  <2> SUFFICES ASSUME IInv, Complete, NEW r \in DOMAIN parents, parents[r] # NoHash
               PROVE  \E q \in DOMAIN hashes : hashes[q] = parents[r]
    BY DEF ParentsResolve
  <2>1. /\ DOMAIN parents = 1..(Offset + N) /\ DOMAIN hashes = 1..(Offset + N)
        /\ message => parents[1] = NoHash
        /\ \A n \in 1..N : /\ parents[Offset + n] = ParentHash(exc[n])
                           /\ hashes[Offset + n] = hash[n]
    BY OwnCells, WholeColumns DEF Offset
  <2>2. N \in Nat /\ Offset \in {0, 1} /\ (Offset = 1 => message)
    BY DEF IInv, N, Offset
  <2> HIDE DEF parents, hashes
  <2>3. r \in 1..(Offset + N) /\ ~(Offset = 1 /\ r = 1)
    BY <2>1, <2>2
  <2>4. r - Offset \in 1..N /\ r = Offset + (r - Offset)
    BY <2>2, <2>3
  <2>5. PICK n \in 1..N : parents[r] = hash[n]
    BY <2>1, <2>4, ParentIsHashed DEF IInv
  <2>6. Offset + n \in DOMAIN hashes /\ hashes[Offset + n] = hash[n]
    BY <2>1, <2>2
  <2> QED
    BY <2>5, <2>6
<1> QED
  BY <1>1, Invariance, PTL

-----------------------------------------------------------------------------
(* What the sort has done.                                                 *)
LEMMA NoOverflow ==
  ASSUME NEW n \in -MaxInt..MaxInt
  PROVE  Wrap(n) = n
BY IssueRowsAssumption DEF IssueRowsAssumption, Wrap

LEMMA ExceptionType ==
  ASSUME exc \in Seq(Exceptions), NEW i \in 1..N
  PROVE  exc[i] \in Exceptions /\ exc[i].id \in IDs /\ exc[i].parent \in IDs
<1>1. exc[i] \in Exceptions
  BY DEF N
<1> QED
  BY <1>1 DEF Exceptions

LEMMA IDsAreInts ==
  MaxInt \in Nat /\ \A k \in IDs : k \in Int /\ -(MaxInt + 1) <= k /\ k <= MaxInt
BY IssueRowsAssumption DEF IssueRowsAssumption

LEMMA NeighboursAscend ==
  ASSUME exc \in Seq(Exceptions), Sorted(exc), InReach, NEW i \in 1..N, i + 1 \in 1..N
  PROVE  exc[i].id <= exc[i + 1].id
<1> DEFINE a == exc[i].id
           b == exc[i + 1].id
<1>1. a \in Int /\ b \in Int /\ MaxInt \in Nat
  BY ExceptionType, IDsAreInts
<1>2. a - b \in -MaxInt..MaxInt /\ b - a \in -MaxInt..MaxInt
  BY <1>1 DEF InReach
<1>3. Wrap(a - b) = a - b /\ Wrap(b - a) = b - a
  BY <1>2, NoOverflow, Zenon
<1>4. i \in 1..Len(exc)-1
  BY DEF N
<1>5. Wrap(b - a) >= 0 \/ Wrap(a - b) < 0
  BY <1>4 DEF Sorted, Compare
<1> QED
  BY <1>1, <1>3, <1>5

LEMMA Ascending ==
  ASSUME exc \in Seq(Exceptions), Sorted(exc), InReach,
         NEW i \in 1..N, NEW j \in 1..N, i <= j
  PROVE  exc[i].id <= exc[j].id
<1> DEFINE T == {d \in Nat : i + d \in 1..N => exc[i].id <= exc[i + d].id}
<1>1. N \in Nat
  BY DEF N
<1>2. ASSUME NEW d \in Nat, \A k \in Nat : k < d => k \in T
      PROVE  d \in T
  <2>1. CASE d = 0
    <3>1. i + d = i /\ exc[i].id <= exc[i].id
      BY <2>1, ExceptionType, IDsAreInts
    <3> QED
      BY <3>1
  <2>2. CASE d # 0 /\ i + d \in 1..N
    <3>1. d - 1 \in T /\ i + (d - 1) \in 1..N /\ (i + (d - 1)) + 1 = i + d
      BY <1>1, <1>2, <2>2
    <3>2. exc[i].id <= exc[i + (d - 1)].id
      BY <3>1
    <3>3. exc[i + (d - 1)].id <= exc[i + d].id
      BY <2>2, <3>1, NeighboursAscend
    <3>4. exc[i].id \in Int /\ exc[i + (d - 1)].id \in Int /\ exc[i + d].id \in Int
      BY <2>2, <3>1, ExceptionType, IDsAreInts
    <3> QED
      BY <3>2, <3>3, <3>4
  <2> QED
    BY <2>1, <2>2
<1> HIDE DEF T
<1>3. Nat \subseteq T
  BY <1>2, Induction
<1>4. j - i \in T /\ i + (j - i) = j
  BY <1>1, <1>3
<1> QED
  BY <1>4 DEF T

LEMMA OnlyOne ==
  ASSUME exc \in Seq(Exceptions), DistinctIDs, NEW i \in 1..N
  PROVE  /\ Numbered(exc[i].id) = {i} /\ First(exc[i].id) = i
         /\ WithID(exc[i].id) = exc[i] /\ HasID(exc[i].id)
<1>1. Numbered(exc[i].id) = {i}
  BY DEF Numbered, DistinctIDs
<1>2. First(exc[i].id) = i
  BY <1>1, FirstIsNumbered
<1>3. (CHOOSE n \in 1..N : exc[n].id = exc[i].id) = i
  BY DEF DistinctIDs
<1> QED
  BY <1>1, <1>2, <1>3 DEF WithID, HasID

(* Where ids are distinct and in reach, an exception comes before those of *)
(* greater id, and no others.                                              *)
LEMMA OrderIsByID ==
  ASSUME exc \in Seq(Exceptions), Sorted(exc), InReach, DistinctIDs,
         NEW i \in 1..N, NEW j \in 1..N
  PROVE  j < i <=> exc[j].id < exc[i].id
<1>1. exc[i].id \in Int /\ exc[j].id \in Int
  BY ExceptionType, IDsAreInts
<1>2. j <= i => exc[j].id <= exc[i].id
  BY Ascending
<1>3. i <= j => exc[i].id <= exc[j].id
  BY Ascending
<1>4. exc[i].id = exc[j].id <=> i = j
  BY DEF DistinctIDs
<1> QED
  BY <1>1, <1>2, <1>3, <1>4

-----------------------------------------------------------------------------
(* Chain is defined: the link that an id needs belongs to a smaller one.   *)
ChainOf(f, k) ==
  LET x == WithID(k)
      known == x.parent > 0 /\ HasID(x.parent) /\ x.parent < k
  IN IF HasID(k) THEN Combine(IF known THEN f[x.parent] ELSE NoHash, x.body) ELSE NoHash

Below(n) == {k \in IDs : k < n - (MaxInt + 1)}

LEMMA WithIDType ==
  ASSUME exc \in Seq(Exceptions), NEW k, HasID(k)
  PROVE  WithID(k) \in Exceptions /\ WithID(k).parent \in IDs
<1>1. PICK n \in 1..N : WithID(k) = exc[n]
  BY Zenon DEF HasID, WithID
<1> QED
  BY <1>1, ExceptionType

LEMMA ChainExists ==
  ASSUME exc \in Seq(Exceptions)
  PROVE  \E f : f = [k \in IDs |-> ChainOf(f, k)]
<1> DEFINE T == {n \in Nat : \E f : f = [k \in Below(n) |-> ChainOf(f, k)]}
<1>1. MaxInt \in Nat /\ \A k \in IDs : k \in Int /\ -(MaxInt + 1) <= k /\ k <= MaxInt
  BY IDsAreInts
<1>2. ASSUME NEW n \in Nat, \A l \in Nat : l < n => l \in T
      PROVE  n \in T
  <2>1. CASE n = 0
    <3>1. Below(0) = {}
      BY <1>1 DEF Below
    <3> DEFINE e == [k \in {} |-> ChainOf(<<>>, k)]
    <3>2. e = [k \in Below(0) |-> ChainOf(e, k)]
      BY <3>1
    <3> QED
      BY <2>1, <3>2
  <2>2. CASE n # 0
    <3>1. n - 1 \in T
      BY <1>2, <2>2
    <3>2. PICK f : f = [k \in Below(n - 1) |-> ChainOf(f, k)]
      BY <3>1
    <3> DEFINE g == [k \in Below(n) |-> ChainOf(f, k)]
    <3>3. Below(n - 1) \subseteq Below(n)
      BY <1>1 DEF Below
    <3>4. \A k \in Below(n - 1) : g[k] = f[k]
      BY <3>2, <3>3
    <3>5. ASSUME NEW k \in Below(n)
          PROVE  ChainOf(f, k) = ChainOf(g, k)
      <4>1. k \in Int /\ (\A p \in IDs : p < k => p \in Below(n - 1))
        BY <1>1 DEF Below
      <4>2. CASE HasID(k) /\ WithID(k).parent < k
        <5>1. WithID(k).parent \in Below(n - 1)
          BY <4>1, <4>2, WithIDType
        <5>2. g[WithID(k).parent] = f[WithID(k).parent]
          BY <3>4, <5>1
        <5> HIDE DEF g
        <5> QED
          BY <5>2 DEF ChainOf
      <4>3. CASE ~(HasID(k) /\ WithID(k).parent < k)
        BY <4>3 DEF ChainOf
      <4> QED
        BY <4>2, <4>3
    <3>6. g = [k \in Below(n) |-> ChainOf(g, k)]
      BY <3>5
    <3> QED
      BY <3>6
  <2> QED
    BY <2>1, <2>2
<1> HIDE DEF T
<1>3. 2 * (MaxInt + 1) \in T
  BY <1>1, <1>2, Induction
<1>4. Below(2 * (MaxInt + 1)) = IDs
  BY <1>1 DEF Below
<1> QED
  BY <1>3, <1>4 DEF T

LEMMA ChainEquation ==
  ASSUME exc \in Seq(Exceptions), NEW k \in IDs
  PROVE  Chain[k] = ChainOf(Chain, k)
<1>1. Chain = CHOOSE f : f = [l \in IDs |-> ChainOf(f, l)]
  BY DEF Chain, ChainOf
<1>2. Chain = [l \in IDs |-> ChainOf(Chain, l)]
  BY <1>1, ChainExists, Zenon
<1> QED
  BY <1>2

-----------------------------------------------------------------------------
LEMMA DoneIsHashed ==
  ASSUME IInv, Complete
  PROVE  /\ exc \in Seq(Exceptions) /\ Sorted(exc)
         /\ \A i \in 1..N : hash[i] = Combine(Link(i), exc[i].body)
<1>1. PICK m \in Nat : HashedUpTo(m)
  BY DEF IInv, Complete, Hashing
<1>2. m = N
  BY <1>1 DEF HashedUpTo, Complete
<1> QED
  BY <1>1, <1>2 DEF IInv, Complete, Hashing, HashedUpTo

(* Of two exceptions, one is linked to the other if it names it and has    *)
(* the greater id.                                                         *)
LEMMA LinkIsByID ==
  ASSUME exc \in Seq(Exceptions), Sorted(exc), InReach, DistinctIDs, NEW i \in 1..N
  PROVE  LET p == exc[i].parent
         IN Link(i) = IF p > 0 /\ HasID(p) /\ p < exc[i].id THEN hash[First(p)] ELSE NoHash
<1> DEFINE p == exc[i].parent
<1>1. p \in Int
  BY ExceptionType, IDsAreInts
<1>2. HasID(p) <=> Numbered(p) # {}
  BY DEF HasID, Numbered
<1>3. HasID(p) => First(p) \in 1..N /\ exc[First(p)].id = p
  BY <1>2, FirstIsNumbered DEF Numbered
<1>4. HasID(p) => (First(p) < i <=> p < exc[i].id)
  BY <1>3, OrderIsByID
<1>5. HasID(p) => First(p) \in Int /\ i \in Int
  BY <1>3
<1> QED
  BY <1>1, <1>2, <1>4, <1>5 DEF Link

LEMMA HashIsChain ==
  ASSUME exc \in Seq(Exceptions), Sorted(exc), InReach, DistinctIDs,
         \A i \in 1..N : hash[i] = Combine(Link(i), exc[i].body)
  PROVE  \A i \in 1..N : hash[i] = Chain[exc[i].id]
<1> DEFINE T == {i \in Nat : i \in 1..N => hash[i] = Chain[exc[i].id]}
<1>1. ASSUME NEW i \in Nat, \A j \in Nat : j < i => j \in T, i \in 1..N
      PROVE  hash[i] = Chain[exc[i].id]
  <2> DEFINE p == exc[i].parent
             known == p > 0 /\ HasID(p) /\ p < exc[i].id
  <2>1. Chain[exc[i].id] = Combine(IF known THEN Chain[p] ELSE NoHash, exc[i].body)
    BY <1>1, ExceptionType, ChainEquation, OnlyOne DEF ChainOf
  <2>2. Link(i) = IF known THEN hash[First(p)] ELSE NoHash
    BY <1>1, LinkIsByID
  <2>3. CASE known
    <3>1. First(p) \in 1..N /\ exc[First(p)].id = p
      BY <2>3, FirstIsNumbered DEF HasID, Numbered
    <3>2. First(p) < i
      BY <1>1, <2>3, <3>1, OrderIsByID
    <3>3. hash[First(p)] = Chain[p]
      BY <1>1, <3>1, <3>2
    <3> QED
      BY <1>1, <2>1, <2>2, <2>3, <3>3
  <2>4. CASE ~known
    BY <1>1, <2>1, <2>2, <2>4
  <2> QED
    BY <2>3, <2>4
<1>2. \A i \in Nat : (\A j \in Nat : j < i => j \in T) => i \in T
  BY <1>1
<1> HIDE DEF T
<1>3. Nat \subseteq T
  BY <1>2, Induction
<1>4. 1..N \subseteq Nat
  BY DEF N
<1> QED
  BY <1>3, <1>4 DEF T

(* With distinct ids that are in reach of each other, the hash of an       *)
(* exception is a function of its chain of parents, however many there are *)
(* and in whatever order the client listed them.                           *)
THEOREM HashesAreChains == Spec => []OrderInsensitive
<1>1. IInv => OrderInsensitive
  BY DoneIsHashed, HashIsChain DEF OrderInsensitive
<1> QED
  BY <1>1, Invariance, PTL

(* Where parents come before their children, the parent hash in the row of *)
(* an exception is the one that its own hash was computed with.            *)
THEOREM ParentsAgree == Spec => []ParentAgrees
<1>1. IInv => ParentAgrees
  <2> SUFFICES ASSUME IInv, Complete, DistinctIDs, InReach,
                      \A i \in 1..N : exc[i].parent < exc[i].id \/ ~HasID(exc[i].parent),
                      NEW i \in 1..N
               PROVE  cols["Exception.ParentHash"][Offset + i] = cols["IssueHash"][Offset + i][1]
    BY DEF ParentAgrees
  <2>1. exc \in Seq(Exceptions) /\ Sorted(exc) /\ hash[i] = Combine(Link(i), exc[i].body)
    BY DoneIsHashed
  <2>2. cols["Exception.ParentHash"][Offset + i] = ParentHash(exc[i])
    BY OwnCells, WholeColumns
  <2>3. cols["IssueHash"][Offset + i] = hash[i]
    BY OwnCells, WholeColumns
  <2>4. ParentHash(exc[i]) = Link(i)
    <3> DEFINE p == exc[i].parent
    <3>1. p \in Int
      BY <2>1, ExceptionType, IDsAreInts
    <3>2. HasID(p) <=> Numbered(p) # {}
      BY DEF HasID, Numbered
    <3>3. Link(i) = IF p > 0 /\ HasID(p) /\ p < exc[i].id THEN hash[First(p)] ELSE NoHash
      BY <2>1, LinkIsByID
    <3> QED
      BY <3>1, <3>2, <3>3, ParentHashIsFirst
  <2>5. hash[i][1] = Link(i)
    BY <2>1 DEF Combine
  <2> QED
    BY <2>2, <2>3, <2>4, <2>5
<1> QED
  BY <1>1, Invariance, PTL

=============================================================================
