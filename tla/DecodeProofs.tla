---------------------------- MODULE DecodeProofs ----------------------------
(***************************************************************************)
(* Proofs about Decode for envelopes of any length and any nesting.        *)
(*                                                                         *)
(* What a document says is given by Leaves, without a decoder; how the     *)
(* decoder gets there is told by what is left of the document: the members *)
(* from the current one on, those of the objects that are open first.      *)
(* Each step takes from what is left exactly what it adds to the event.    *)
(***************************************************************************)
EXTENDS Decode, SequenceLemmas

-----------------------------------------------------------------------------
(* Items and their leaves.                                                 *)
Item == [path : Seq(Names), value : Values]

ItemOf(m, prefix) == [path |-> prefix \o m.key, value |-> m.value]

Flat(items) == \A i \in DOMAIN items : items[i].value.kind # "object"

(* The item of a member. *)
LEMMA ItemType ==
  ASSUME NEW m \in Members, NEW prefix \in Seq(Names)
  PROVE  ItemOf(m, prefix) \in Item
BY ConcatProperties DEF ItemOf, Item, Members

(* The items of an object, one for each of its members. *)
LEMMA ItemsType ==
  ASSUME NEW members \in Seq(Members), NEW prefix \in Seq(Names)
  PROVE  /\ Items(members, prefix) \in Seq(Item)
         /\ Len(Items(members, prefix)) = Len(members)
         /\ \A i \in 1..Len(members) : Items(members, prefix)[i] = ItemOf(members[i], prefix)
<1>1. \A i \in 1..Len(members) : members[i] \in Members /\ ItemOf(members[i], prefix) \in Item
  BY ItemType
<1>2. Items(members, prefix) = [i \in 1..Len(members) |-> ItemOf(members[i], prefix)]
  BY DEF Items, ItemOf
<1>3. Len(members) \in Nat
  OBVIOUS
<1> DEFINE s == Items(members, prefix)
<1> HIDE DEF s
<1>4. s = [i \in 1..Len(members) |-> ItemOf(members[i], prefix)]
  BY <1>2 DEF s
<1>5. s \in Seq(Item) /\ Len(s) = Len(members) /\ \A i \in 1..Len(members) : s[i] = ItemOf(members[i], prefix)
  BY <1>1, <1>3, <1>4
<1> QED
  BY <1>5 DEF s

(* An empty object has no items. *)
LEMMA ItemsEmpty ==
  ASSUME NEW prefix \in Seq(Names)
  PROVE  Items(<<>>, prefix) = <<>>
<1>1. <<>> \in Seq(Members) /\ Len(<<>>) = 0
  BY EmptySeq
<1>2. Items(<<>>, prefix) \in Seq(Item) /\ Len(Items(<<>>, prefix)) = 0
  BY <1>1, ItemsType
<1> QED
  BY <1>2, EmptySeq

(* The item of the first member comes first. *)
LEMMA ItemsCons ==
  ASSUME NEW members \in Seq(Members), members # <<>>, NEW prefix \in Seq(Names)
  PROVE  /\ Items(members, prefix) = <<ItemOf(Head(members), prefix)>> \o Items(Tail(members), prefix)
         /\ ItemOf(Head(members), prefix) \in Item
         /\ Tail(members) \in Seq(Members)
<1> DEFINE s == Items(members, prefix)
           t == Items(Tail(members), prefix)
           n == Len(members)
<1>1. /\ n \in Nat /\ n # 0 /\ Head(members) = members[1] /\ Head(members) \in Members
      /\ Tail(members) \in Seq(Members) /\ Len(Tail(members)) = n - 1
      /\ \A i \in 1..n - 1 : Tail(members)[i] = members[i + 1]
  BY EmptySeq
<1>2. s \in Seq(Item) /\ Len(s) = n /\ \A i \in 1..n : s[i] = ItemOf(members[i], prefix)
  BY ItemsType
<1>3. t \in Seq(Item) /\ Len(t) = n - 1 /\ \A i \in 1..n - 1 : t[i] = ItemOf(members[i + 1], prefix)
  <2> DEFINE rest == Tail(members)
  <2>1. rest \in Seq(Members) /\ Len(rest) = n - 1 /\ \A i \in 1..n - 1 : rest[i] = members[i + 1]
    BY <1>1
  <2> HIDE DEF rest
  <2>2. /\ Items(rest, prefix) \in Seq(Item) /\ Len(Items(rest, prefix)) = n - 1
        /\ \A i \in 1..n - 1 : Items(rest, prefix)[i] = ItemOf(rest[i], prefix)
    BY <2>1, ItemsType
  <2> QED
    BY <2>1, <2>2 DEF rest
<1>4. ItemOf(Head(members), prefix) \in Item
  BY <1>1, ItemType
<1> HIDE DEF s, t, n
<1>5. s # <<>> /\ Head(s) = ItemOf(Head(members), prefix)
  BY <1>1, <1>2
<1>6. s = <<Head(s)>> \o Tail(s) /\ Tail(s) \in Seq(Item) /\ Len(Tail(s)) = n - 1
      /\ \A i \in 1..n - 1 : Tail(s)[i] = s[i + 1]
  BY <1>1, <1>2, <1>5, HeadTailProperties, SMT
<1>7. \A i \in 1..n - 1 : Tail(s)[i] = t[i]
  BY <1>1, <1>2, <1>3, <1>6
<1>8. Tail(s) = t
  BY <1>3, <1>6, <1>7, SeqEqual
<1> QED
  BY <1>1, <1>4, <1>5, <1>6, <1>8 DEF s, t

(* What ValuesAssumption says of an object. *)
LEMMA MembersOfObject ==
  ASSUME NEW v \in Values, v.kind = "object"
  PROVE  v.members \in Seq(Members)
BY ValuesAssumption DEF ValuesAssumption

(* Opening an item gives items. *)
LEMMA OpenedType ==
  ASSUME NEW x \in Item
  PROVE  Opened(x) \in Seq(Item)
<1>1. x.path \in Seq(Names) /\ x.value \in Values
  BY DEF Item
<1>2. CASE x.value.kind = "object"
  BY <1>1, <1>2, MembersOfObject, ItemsType DEF Opened
<1>3. CASE x.value.kind # "object"
  BY <1>3 DEF Opened
<1> QED
  BY <1>2, <1>3

(* The first item is opened first. *)
LEMMA OpenAllCons ==
  ASSUME NEW x \in Item, NEW s \in Seq(Item)
  PROVE  OpenAll(<<x>> \o s) = Opened(x) \o OpenAll(s) /\ OpenAll(s) \in Seq(Item)
<1> DEFINE xs == <<x>> \o s
           os == [i \in DOMAIN s |-> Opened(s[i])]
           oxs == [i \in DOMAIN xs |-> Opened(xs[i])]
           n == Len(s)
<1>1. n \in Nat /\ DOMAIN s = 1..n /\ \A i \in 1..n : s[i] \in Item
  OBVIOUS
<1>2. /\ xs \in Seq(Item) /\ Len(xs) = n + 1 /\ DOMAIN xs = 1..n + 1
      /\ xs[1] = x /\ \A i \in 1..n : xs[i + 1] = s[i]
  OBVIOUS
<1>3. OpenAll(s) = FlattenSeq(os) /\ OpenAll(xs) = FlattenSeq(oxs)
  BY DEF OpenAll
<1> HIDE DEF xs, n
<1>4. os = [i \in 1..n |-> Opened(s[i])] /\ oxs = [i \in 1..n + 1 |-> Opened(xs[i])]
  BY <1>1, <1>2
<1>5. \A i \in 1..n : Opened(s[i]) \in Seq(Item)
  BY <1>1, OpenedType
<1>6. \A i \in 1..n + 1 : Opened(xs[i]) \in Seq(Item)
  BY <1>1, <1>2, OpenedType
<1> HIDE DEF os, oxs
<1>7. os \in Seq(Seq(Item)) /\ Len(os) = n /\ \A i \in 1..n : os[i] = Opened(s[i])
  BY <1>1, <1>4, <1>5
<1>8. oxs \in Seq(Seq(Item)) /\ Len(oxs) = n + 1 /\ \A i \in 1..n + 1 : oxs[i] = Opened(xs[i])
  BY <1>1, <1>4, <1>6
<1>9. oxs # <<>> /\ oxs[1] = Opened(x)
  BY <1>1, <1>2, <1>8
<1>10. Tail(oxs) \in Seq(Seq(Item)) /\ Len(Tail(oxs)) = n /\ \A i \in 1..n : Tail(oxs)[i] = os[i]
  BY <1>1, <1>2, <1>7, <1>8, <1>9
<1>11. Tail(oxs) = os
  BY <1>7, <1>10, SeqEqual
<1>12. FlattenSeq(oxs) = oxs[1] \o FlattenSeq(os)
  BY <1>8, <1>9, <1>11, FlattenCons
<1>13. FlattenSeq(os) \in Seq(Item)
  BY <1>7, FlattenType
<1> QED
  BY <1>3, <1>9, <1>12, <1>13 DEF xs

(* There is nothing to open in nothing. *)
LEMMA OpenAllEmpty == OpenAll(<<>>) = <<>>
<1> DEFINE os == [i \in DOMAIN <<>> |-> Opened(<<>>[i])]
<1>1. OpenAll(<<>>) = FlattenSeq(os)
  BY DEF OpenAll
<1>2. os = <<>>
  OBVIOUS
<1> QED
  BY <1>1, <1>2, FlattenEmpty

(* Opening items gives items. *)
LEMMA OpenAllType ==
  ASSUME NEW s \in Seq(Item)
  PROVE  OpenAll(s) \in Seq(Item)
<1>1. CASE s = <<>>
  BY <1>1, OpenAllEmpty
<1>2. CASE s # <<>>
  <2>1. Head(s) \in Item /\ Tail(s) \in Seq(Item) /\ s = <<Head(s)>> \o Tail(s)
    BY <1>2, HeadTailProperties, SMT
  <2>2. Opened(Head(s)) \in Seq(Item) /\ OpenAll(Tail(s)) \in Seq(Item)
    BY <2>1, OpenedType, OpenAllCons
  <2>3. OpenAll(<<Head(s)>> \o Tail(s)) = Opened(Head(s)) \o OpenAll(Tail(s))
    BY <2>1, OpenAllCons
  <2> QED
    BY <2>1, <2>2, <2>3, ConcatProperties
<1> QED
  BY <1>1, <1>2

(* A sequence of one item. *)
LEMMA OneItem ==
  ASSUME NEW x \in Item
  PROVE  <<x>> \in Seq(Item) /\ Len(<<x>>) = 1 /\ <<x>>[1] = x
OBVIOUS

(* Concatenation is associative, in a form that is easily cited. *)
Associates(s, t, u) == (s \o t) \o u = s \o (t \o u)

LEMMA AssociateItems ==
  ASSUME NEW s \in Seq(Item), NEW t \in Seq(Item), NEW u \in Seq(Item)
  PROVE  Associates(s, t, u)
BY Associate DEF Associates

(* Opening distributes over concatenation. *)
LEMMA OpenAllConcat ==
  ASSUME NEW s \in Seq(Item), NEW t \in Seq(Item)
  PROVE  OpenAll(s \o t) = OpenAll(s) \o OpenAll(t)
<1> DEFINE T == {u \in Seq(Item) : OpenAll(u \o t) = OpenAll(u) \o OpenAll(t)}
<1>1. <<>> \in T
  <2>1. OpenAll(<<>> \o t) = OpenAll(t) /\ OpenAll(t) \in Seq(Item)
    BY ConcatEmptySeq, OpenAllType
  <2>2. OpenAll(<<>>) \o OpenAll(t) = OpenAll(t)
    BY <2>1, OpenAllEmpty, ConcatEmptySeq
  <2>3. <<>> \in Seq(Item)
    BY EmptySeq
  <2> QED
    BY <2>1, <2>2, <2>3
<1>2. ASSUME NEW x \in Item, NEW u \in Seq(Item), u \in T
      PROVE  <<x>> \o u \in T
  <2>1. /\ <<x>> \in Seq(Item) /\ u \o t \in Seq(Item) /\ <<x>> \o u \in Seq(Item)
        /\ Opened(x) \in Seq(Item) /\ OpenAll(u) \in Seq(Item) /\ OpenAll(t) \in Seq(Item)
    BY OneItem, ConcatProperties, OpenedType, OpenAllType
  <2>2. (<<x>> \o u) \o t = <<x>> \o (u \o t)
    <3> DEFINE o == <<x>>
    <3>1. o \in Seq(Item)
      BY <2>1
    <3> HIDE DEF o
    <3>2. (o \o u) \o t = o \o (u \o t)
      BY <3>1
    <3> QED
      BY <3>2 DEF o
  <2>3. OpenAll(<<x>> \o (u \o t)) = Opened(x) \o OpenAll(u \o t)
    BY <2>1, OpenAllCons
  <2>4. OpenAll(<<x>> \o u) = Opened(x) \o OpenAll(u)
    BY OpenAllCons
  <2>5. OpenAll(u \o t) = OpenAll(u) \o OpenAll(t)
    BY <1>2
  <2>6. (Opened(x) \o OpenAll(u)) \o OpenAll(t) = Opened(x) \o (OpenAll(u) \o OpenAll(t))
    <3> DEFINE a == Opened(x)
               b == OpenAll(u)
               c == OpenAll(t)
    <3>1. a \in Seq(Item) /\ b \in Seq(Item) /\ c \in Seq(Item)
      BY <2>1
    <3> HIDE DEF a, b, c
    <3>2. Associates(a, b, c)
      BY <3>1, AssociateItems, Zenon
    <3> QED
      BY <3>2, Zenon DEF a, b, c, Associates
  <2>7. OpenAll((<<x>> \o u) \o t) = OpenAll(<<x>> \o u) \o OpenAll(t)
    BY <2>2, <2>3, <2>4, <2>5, <2>6, Zenon
  <2> QED
    BY <2>1, <2>7
<1> HIDE DEF T
<1>3. Seq(Item) \subseteq T
  BY <1>1, <1>2, SequenceInduction, Zenon
<1> QED
  BY <1>3 DEF T

(* Opening a sequence of one item. *)
LEMMA OpenAllOne ==
  ASSUME NEW x \in Item
  PROVE  OpenAll(<<x>>) = Opened(x)
<1> DEFINE e == <<>>
           o == <<x>>
<1>1. e \in Seq(Item) /\ o \in Seq(Item)
  BY EmptySeq, OneItem
<1>2. OpenAll(o \o e) = Opened(x) \o OpenAll(e)
  BY <1>1, OpenAllCons
<1>3. o \o e = o /\ Opened(x) \o e = Opened(x) /\ OpenAll(e) = e
  <2>1. Opened(x) \in Seq(Item)
    BY OpenedType
  <2> HIDE DEF o
  <2> QED
    BY <1>1, <2>1, ConcatEmptySeq, OpenAllEmpty
<1> QED
  BY <1>2, <1>3, Zenon

(* A sequence has no objects if neither its head nor its tail has. *)
LEMMA FlatCons ==
  ASSUME NEW x \in Item, NEW s \in Seq(Item)
  PROVE  Flat(<<x>> \o s) <=> x.value.kind # "object" /\ Flat(s)
<1> DEFINE xs == <<x>> \o s
           n == Len(s)
<1>1. n \in Nat /\ DOMAIN s = 1..n
  OBVIOUS
<1>2. DOMAIN xs = 1..n + 1 /\ xs[1] = x /\ \A i \in 1..n : xs[i + 1] = s[i]
  OBVIOUS
<1> HIDE DEF xs, n
<1>3. \A i \in 1..n + 1 : i = 1 \/ (i - 1 \in 1..n /\ (i - 1) + 1 = i)
  BY <1>1
<1>4. 1 \in 1..n + 1 /\ \A i \in 1..n : i + 1 \in 1..n + 1
  BY <1>1
<1>5. ASSUME x.value.kind # "object", Flat(s)
      PROVE  Flat(xs)
  <2>1. \A i \in 1..n : s[i].value.kind # "object"
    BY <1>1, <1>5, Zenon DEF Flat
  <2>2. \A i \in 1..n + 1 : xs[i].value.kind # "object"
    BY <1>2, <1>3, <1>5, <2>1, Zenon
  <2> QED
    BY <1>2, <2>2, Zenon DEF Flat
<1>6. ASSUME Flat(xs)
      PROVE  x.value.kind # "object" /\ Flat(s)
  <2>1. \A i \in 1..n + 1 : xs[i].value.kind # "object"
    BY <1>2, <1>6, Zenon DEF Flat
  <2>2. \A i \in 1..n : s[i].value.kind # "object"
    BY <1>2, <1>4, <2>1, Zenon
  <2> QED
    BY <1>1, <1>2, <1>4, <2>1, <2>2, Zenon DEF Flat
<1> QED
  BY <1>5, <1>6 DEF xs

(* Where no item is an object there is nothing to open. *)
LEMMA OpenAllOfFlat ==
  ASSUME NEW s \in Seq(Item), Flat(s)
  PROVE  OpenAll(s) = s
<1> DEFINE T == {u \in Seq(Item) : Flat(u) => OpenAll(u) = u}
<1>1. <<>> \in T
  BY OpenAllEmpty, EmptySeq
<1>2. ASSUME NEW x \in Item, NEW u \in Seq(Item), u \in T
      PROVE  <<x>> \o u \in T
  <2>1. <<x>> \o u \in Seq(Item)
    BY OneItem, ConcatProperties
  <2>2. ASSUME Flat(<<x>> \o u)
        PROVE  OpenAll(<<x>> \o u) = <<x>> \o u
    <3>1. Opened(x) = <<x>> /\ OpenAll(u) = u
      BY <1>2, <2>2, FlatCons DEF Opened
    <3> QED
      BY <3>1, OpenAllCons
  <2> QED
    BY <2>1, <2>2
<1> HIDE DEF T
<1>3. Seq(Item) \subseteq T
  BY <1>1, <1>2, SequenceInduction, Zenon
<1> QED
  BY <1>3 DEF T

(* Opened MaxDepth times, a sequence of items has only leaves. *)
LEMMA LeavesIs ==
  ASSUME NEW s
  PROVE  \E f : /\ f = [n \in 0..MaxDepth |-> IF n = 0 THEN s ELSE OpenAll(f[n - 1])]
                /\ Leaves(s) = f[MaxDepth]
<1> DEFINE Nest(f, m) == [n \in 0..m |-> IF n = 0 THEN s ELSE OpenAll(f[n - 1])]
           T == {m \in Nat : \E f : f = Nest(f, m)}
<1>1. 0 \in T
  <2> DEFINE g == [n \in 0..0 |-> s]
  <2>1. g = Nest(g, 0)
    OBVIOUS
  <2> QED
    BY <2>1
<1>2. ASSUME NEW m \in Nat, m \in T
      PROVE  m + 1 \in T
  <2>1. PICK f : f = Nest(f, m)
    BY <1>2
  <2> DEFINE g == [n \in 0..m + 1 |-> IF n <= m THEN f[n] ELSE OpenAll(f[m])]
  <2>2. (\A n \in 0..m : g[n] = f[n]) /\ g[m + 1] = OpenAll(f[m])
    OBVIOUS
  <2>3. \A n \in 0..m : f[n] = IF n = 0 THEN s ELSE OpenAll(f[n - 1])
    BY <2>1, Zenon
  <2>4. ASSUME NEW n \in 0..m + 1
        PROVE  g[n] = IF n = 0 THEN s ELSE OpenAll(g[n - 1])
    <3>1. CASE n <= m
      <4>1. n \in 0..m /\ (n # 0 => n - 1 \in 0..m)
        BY <3>1
      <4> QED
        BY <2>2, <2>3, <4>1, Zenon
    <3>2. CASE n = m + 1
      <4>1. n # 0 /\ n - 1 = m /\ m \in 0..m
        BY <3>2
      <4> QED
        BY <2>2, <3>2, <4>1, Zenon
    <3> QED
      BY <3>1, <3>2
  <2>5. g = Nest(g, m + 1)
    <3>1. g = [n \in 0..m + 1 |-> g[n]]
      OBVIOUS
    <3> HIDE DEF g
    <3> QED
      BY <2>4, <3>1, Zenon
  <2> HIDE DEF g, Nest
  <2> QED
    BY <2>5
<1>3. MaxDepth \in T
  <2> HIDE DEF T
  <2>1. MaxDepth \in Nat
    BY ValuesAssumption, Zenon DEF ValuesAssumption
  <2> QED
    BY <1>1, <1>2, <2>1, Steps, Zenon
<1> DEFINE Within == CHOOSE f : f = [n \in 0..MaxDepth |-> IF n = 0 THEN s ELSE OpenAll(f[n - 1])]
<1>4. Within = [n \in 0..MaxDepth |-> IF n = 0 THEN s ELSE OpenAll(Within[n - 1])]
  BY <1>3, Zenon
<1>5. Leaves(s) = Within[MaxDepth]
  BY DEF Leaves
<1> HIDE DEF Within
<1> QED
  BY <1>4, <1>5

(* Leaves by its steps. *)
LEMMA LeavesSteps ==
  ASSUME NEW s
  PROVE  \E f : /\ f[0] = s /\ Leaves(s) = f[MaxDepth]
                /\ \A n \in 1..MaxDepth : f[n] = OpenAll(f[n - 1])
<1>1. PICK f : /\ f = [n \in 0..MaxDepth |-> IF n = 0 THEN s ELSE OpenAll(f[n - 1])]
               /\ Leaves(s) = f[MaxDepth]
  BY LeavesIs
<1>2. \A n \in 0..MaxDepth : f[n] = IF n = 0 THEN s ELSE OpenAll(f[n - 1])
  BY <1>1, Zenon
<1>3. 0 \in 0..MaxDepth /\ \A n \in 1..MaxDepth : n \in 0..MaxDepth /\ n # 0
  BY ValuesAssumption DEF ValuesAssumption
<1> QED
  BY <1>1, <1>2, <1>3, Zenon

(* Whoever opens as often gets the same. *)
LEMMA LeavesOnce ==
  ASSUME NEW s, NEW h, h[0] = s, \A n \in 1..MaxDepth : h[n] = OpenAll(h[n - 1])
  PROVE  h[MaxDepth] = Leaves(s)
<1>1. PICK f : /\ f[0] = s /\ Leaves(s) = f[MaxDepth]
               /\ \A n \in 1..MaxDepth : f[n] = OpenAll(f[n - 1])
  BY LeavesSteps
<1>2. MaxDepth \in Nat
  BY ValuesAssumption, Zenon DEF ValuesAssumption
<1> DEFINE T == {n \in Nat : n <= MaxDepth => h[n] = f[n]}
<1>3. 0 \in T
  BY <1>1
<1>4. ASSUME NEW n \in Nat, n \in T
      PROVE  n + 1 \in T
  <2>1. n + 1 <= MaxDepth => n + 1 \in 1..MaxDepth /\ (n + 1) - 1 = n /\ n <= MaxDepth
    BY <1>2
  <2> QED
    BY <1>1, <1>4, <2>1
<1>5. MaxDepth \in T
  <2> HIDE DEF T
  <2> QED
    BY <1>2, <1>3, <1>4, Steps, Zenon
<1>6. MaxDepth <= MaxDepth
  BY <1>2
<1> QED
  BY <1>1, <1>5, <1>6

(* What can be left after n rounds. *)
Low(n) == {x \in Item : x.value.kind = "object" => Depth[x.value] + n <= MaxDepth}

(* An item opened after n rounds leaves items of n + 1 rounds. *)
LEMMA OpenedLow ==
  ASSUME NEW n \in Nat, NEW x \in Low(n)
  PROVE  Opened(x) \in Seq(Low(n + 1))
<1>1. x \in Item /\ x.path \in Seq(Names) /\ x.value \in Values
  BY DEF Item, Low
<1>2. CASE x.value.kind = "object"
  <2>1. x.value.members \in Seq(Members)
    BY <1>1, <1>2, MembersOfObject
  <2> DEFINE ms == x.value.members
             s == Items(ms, x.path)
  <2>2. s \in Seq(Item) /\ Len(s) = Len(ms) /\ \A i \in 1..Len(ms) : s[i] = ItemOf(ms[i], x.path)
    BY <1>1, <2>1, ItemsType
  <2>3. ASSUME NEW i \in 1..Len(ms)
        PROVE  s[i] \in Low(n + 1)
    <3>1. s[i] \in Item /\ s[i].value = ms[i].value
      <4>1. s \in Seq(Item) /\ i \in 1..Len(s) /\ s[i] = ItemOf(ms[i], x.path)
        BY <2>2
      <4>2. ItemOf(ms[i], x.path).value = ms[i].value
        BY Zenon DEF ItemOf
      <4> HIDE DEF s
      <4>3. s[i] \in Item
        BY <4>1
      <4> QED
        BY <4>1, <4>2, <4>3, Zenon
    <3>2. ms[i].value \in Values /\ Depth[ms[i].value] < Depth[x.value]
      <4>1. \A k \in DOMAIN x.value.members : Depth[x.value.members[k].value] < Depth[x.value]
        BY <1>1, <1>2, ValuesAssumption, Zenon DEF ValuesAssumption
      <4>2. i \in DOMAIN x.value.members /\ ms[i] \in Members
        BY <2>1
      <4>3. ms[i].value \in Values
        BY <4>2 DEF Members
      <4> QED
        BY <4>1, <4>2, <4>3
    <3>3. Depth[x.value] + n <= MaxDepth
      BY <1>2 DEF Low
    <3>4. Depth[ms[i].value] \in Nat /\ Depth[x.value] \in Nat /\ MaxDepth \in Nat
      BY <1>1, <3>2, ValuesAssumption DEF ValuesAssumption
    <3>5. Depth[ms[i].value] + (n + 1) <= MaxDepth
      <4>1. \A x1, y1, z1 \in Nat : x1 < y1 /\ y1 + n <= z1 => x1 + (n + 1) <= z1
        OBVIOUS
      <4> QED
        BY <3>2, <3>3, <3>4, <4>1, Zenon
    <3> QED
      BY <3>1, <3>5, Zenon DEF Low
  <2>4. Opened(x) = s
    BY <1>2 DEF Opened
  <2> HIDE DEF ms, s
  <2>5. s \in Seq(Low(n + 1))
    BY <2>2, <2>3
  <2> QED
    BY <2>4, <2>5
<1>3. CASE x.value.kind # "object"
  <2>1. x \in Low(n + 1)
    BY <1>1, <1>3 DEF Low
  <2>2. Opened(x) = <<x>>
    BY <1>3 DEF Opened
  <2> QED
    BY <2>1, <2>2
<1> QED
  BY <1>2, <1>3

(* A whole sequence of items, likewise. *)
LEMMA OpenAllLow ==
  ASSUME NEW n \in Nat, NEW s \in Seq(Low(n))
  PROVE  OpenAll(s) \in Seq(Low(n + 1))
<1> DEFINE os == [i \in DOMAIN s |-> Opened(s[i])]
<1>1. \A i \in 1..Len(s) : Opened(s[i]) \in Seq(Low(n + 1))
  BY OpenedLow
<1>2. os = [i \in 1..Len(s) |-> Opened(s[i])] /\ Len(s) \in Nat
  OBVIOUS
<1>3. OpenAll(s) = FlattenSeq(os)
  BY DEF OpenAll
<1> HIDE DEF os
<1>4. os \in Seq(Seq(Low(n + 1)))
  BY <1>1, <1>2
<1> QED
  BY <1>3, <1>4, FlattenType

(* No object is left among the leaves, because MaxDepth rounds open them all. *)
LEMMA LeavesLow ==
  ASSUME NEW s \in Seq(Item)
  PROVE  Leaves(s) \in Seq(Item) /\ Flat(Leaves(s))
<1>1. PICK f : /\ f[0] = s /\ Leaves(s) = f[MaxDepth]
               /\ \A n \in 1..MaxDepth : f[n] = OpenAll(f[n - 1])
  BY LeavesSteps
<1>2. MaxDepth \in Nat /\ MaxDepth <= MaxDepth
  BY ValuesAssumption DEF ValuesAssumption
<1> DEFINE T == {n \in Nat : n <= MaxDepth => f[n] \in Seq(Low(n))}
<1>3. 0 \in T
  <2>1. \A x \in Item : x \in Low(0)
    <3> TAKE x \in Item
    <3>1. x.value \in Values
      BY DEF Item
    <3>2. Depth[x.value] \in 0..MaxDepth
      BY <3>1, ValuesAssumption DEF ValuesAssumption
    <3>3. Depth[x.value] + 0 <= MaxDepth
      BY <1>2, <3>2
    <3> QED
      BY <3>3 DEF Low
  <2>2. s \in Seq(Low(0))
    BY <2>1
  <2> QED
    BY <1>1, <2>2
<1>4. ASSUME NEW n \in Nat, n \in T
      PROVE  n + 1 \in T
  <2>1. SUFFICES ASSUME n + 1 <= MaxDepth
                 PROVE  f[n + 1] \in Seq(Low(n + 1))
    OBVIOUS
  <2>2. n + 1 \in 1..MaxDepth /\ (n + 1) - 1 = n /\ n <= MaxDepth
    BY <1>2, <2>1
  <2>3. f[n] \in Seq(Low(n)) /\ f[n + 1] = OpenAll(f[n])
    BY <1>1, <1>4, <2>2
  <2> QED
    BY <2>3, OpenAllLow
<1>5. MaxDepth \in T
  <2> HIDE DEF T
  <2> QED
    BY <1>2, <1>3, <1>4, Steps, Zenon
<1>6. Leaves(s) \in Seq(Low(MaxDepth))
  BY <1>1, <1>2, <1>5
<1>7. \A x \in Low(MaxDepth) : x \in Item /\ x.value.kind # "object"
  <2> TAKE x \in Low(MaxDepth)
  <2>1. x \in Item /\ x.value \in Values
    BY DEF Low, Item
  <2>2. ASSUME x.value.kind = "object"
        PROVE  FALSE
    <3>1. Depth[x.value] + MaxDepth <= MaxDepth
      BY <2>2, Zenon DEF Low
    <3>2. Depth[x.value] \in Nat /\ Depth[x.value] # 0
      BY <1>2, <2>1, <2>2, ValuesAssumption DEF ValuesAssumption
    <3> QED
      BY <1>2, <3>1, <3>2
  <2> QED
    BY <2>1, <2>2
<1>8. Leaves(s) \in Seq(Item) /\ \A i \in DOMAIN Leaves(s) : Leaves(s)[i] \in Low(MaxDepth)
  BY <1>6, <1>7
<1> QED
  BY <1>7, <1>8 DEF Flat

(* The leaves of two sequences, one after the other. *)
LEMMA LeavesConcat ==
  ASSUME NEW s \in Seq(Item), NEW t \in Seq(Item)
  PROVE  Leaves(s \o t) = Leaves(s) \o Leaves(t)
<1>1. PICK f : /\ f[0] = s /\ Leaves(s) = f[MaxDepth]
               /\ \A n \in 1..MaxDepth : f[n] = OpenAll(f[n - 1])
  BY LeavesSteps
<1>2. PICK g : /\ g[0] = t /\ Leaves(t) = g[MaxDepth]
               /\ \A n \in 1..MaxDepth : g[n] = OpenAll(g[n - 1])
  BY LeavesSteps
<1>3. MaxDepth \in Nat
  BY ValuesAssumption, Zenon DEF ValuesAssumption
<1> DEFINE T == {n \in Nat : n <= MaxDepth => f[n] \in Seq(Item) /\ g[n] \in Seq(Item)}
<1>4. 0 \in T
  BY <1>1, <1>2
<1>5. ASSUME NEW n \in Nat, n \in T
      PROVE  n + 1 \in T
  <2>1. SUFFICES ASSUME n + 1 <= MaxDepth
                 PROVE  f[n + 1] \in Seq(Item) /\ g[n + 1] \in Seq(Item)
    OBVIOUS
  <2>2. n + 1 \in 1..MaxDepth /\ (n + 1) - 1 = n /\ n <= MaxDepth
    BY <1>3, <2>1
  <2>3. f[n] \in Seq(Item) /\ g[n] \in Seq(Item) /\ f[n + 1] = OpenAll(f[n]) /\ g[n + 1] = OpenAll(g[n])
    BY <1>1, <1>2, <1>5, <2>2
  <2> QED
    BY <2>3, OpenAllType
<1>6. \A n \in 0..MaxDepth : f[n] \in Seq(Item) /\ g[n] \in Seq(Item)
  <2> HIDE DEF T
  <2>1. Nat \subseteq T
    BY <1>4, <1>5, Steps, Zenon
  <2> TAKE n \in 0..MaxDepth
  <2>2. n \in Nat /\ n <= MaxDepth
    BY <1>3
  <2>3. n \in T
    BY <2>1, <2>2
  <2> QED
    BY <2>2, <2>3 DEF T
<1> DEFINE h == [n \in 0..MaxDepth |-> f[n] \o g[n]]
<1>7. 0 \in 0..MaxDepth /\ MaxDepth \in 0..MaxDepth
      /\ \A n \in 1..MaxDepth : n \in 0..MaxDepth /\ n - 1 \in 0..MaxDepth
  BY <1>3
<1>8. \A n \in 0..MaxDepth : h[n] = f[n] \o g[n]
  OBVIOUS
<1> HIDE DEF h
<1>9. h[0] = s \o t /\ h[MaxDepth] = Leaves(s) \o Leaves(t)
  BY <1>1, <1>2, <1>7, <1>8, Zenon
<1>10. ASSUME NEW n \in 1..MaxDepth
       PROVE  h[n] = OpenAll(h[n - 1])
  <2>1. OpenAll(f[n - 1] \o g[n - 1]) = OpenAll(f[n - 1]) \o OpenAll(g[n - 1])
    BY <1>6, <1>7, OpenAllConcat
  <2>2. f[n] = OpenAll(f[n - 1]) /\ g[n] = OpenAll(g[n - 1])
    BY <1>1, <1>2
  <2> QED
    BY <1>7, <1>8, <2>1, <2>2, Zenon
<1> QED
  BY <1>9, <1>10, LeavesOnce, Zenon

(* It makes no difference whether something was opened before. *)
LEMMA LeavesOpen ==
  ASSUME NEW s \in Seq(Item)
  PROVE  Leaves(OpenAll(s)) = Leaves(s)
<1>1. PICK f : /\ f[0] = s /\ Leaves(s) = f[MaxDepth]
               /\ \A n \in 1..MaxDepth : f[n] = OpenAll(f[n - 1])
  BY LeavesSteps
<1>2. MaxDepth \in Nat
  BY ValuesAssumption, Zenon DEF ValuesAssumption
<1> DEFINE h == [n \in 0..MaxDepth |-> OpenAll(f[n])]
<1>3. 0 \in 0..MaxDepth /\ MaxDepth \in 0..MaxDepth
      /\ \A n \in 1..MaxDepth : n \in 0..MaxDepth /\ n - 1 \in 0..MaxDepth
  BY <1>2
<1>4. \A n \in 0..MaxDepth : h[n] = OpenAll(f[n])
  OBVIOUS
<1> HIDE DEF h
<1>5. OpenAll(Leaves(s)) = Leaves(s)
  BY LeavesLow, OpenAllOfFlat
<1>6. h[0] = OpenAll(s) /\ h[MaxDepth] = Leaves(s)
  BY <1>1, <1>3, <1>4, <1>5, Zenon
<1>7. \A n \in 1..MaxDepth : h[n] = OpenAll(h[n - 1])
  BY <1>1, <1>3, <1>4, Zenon
<1> QED
  BY <1>6, <1>7, LeavesOnce, Zenon

(* Leaves are their own leaves. *)
LEMMA LeavesOfFlat ==
  ASSUME NEW s \in Seq(Item), Flat(s)
  PROVE  Leaves(s) = s
<1> DEFINE h == [n \in 0..MaxDepth |-> s]
<1>1. 0 \in 0..MaxDepth /\ MaxDepth \in 0..MaxDepth
      /\ \A n \in 1..MaxDepth : n \in 0..MaxDepth /\ n - 1 \in 0..MaxDepth
  BY ValuesAssumption DEF ValuesAssumption
<1>2. \A n \in 0..MaxDepth : h[n] = s
  OBVIOUS
<1> HIDE DEF h
<1>3. OpenAll(s) = s
  BY OpenAllOfFlat
<1>4. h[0] = s /\ h[MaxDepth] = s /\ \A n \in 1..MaxDepth : h[n] = OpenAll(h[n - 1])
  BY <1>1, <1>2, <1>3, Zenon
<1> QED
  BY <1>4, LeavesOnce, Zenon

(* The leaves of the first item come first. *)
LEMMA LeavesCons ==
  ASSUME NEW x \in Item, NEW s \in Seq(Item)
  PROVE  Leaves(<<x>> \o s) = Leaves(Opened(x)) \o Leaves(s)
<1>1. <<x>> \in Seq(Item) /\ OpenAll(<<x>>) = Opened(x)
  BY OneItem, OpenAllOne
<1>2. Leaves(<<x>> \o s) = Leaves(<<x>>) \o Leaves(s)
  BY <1>1, LeavesConcat
<1>3. Leaves(OpenAll(<<x>>)) = Leaves(<<x>>)
  BY <1>1, LeavesOpen
<1> QED
  BY <1>1, <1>2, <1>3, Zenon

-----------------------------------------------------------------------------
(* What is left of the document.                                           *)

(* The contexts of a member, as items without a path. *)
Named(m) == IF IsTrace(m) THEN <<>> ELSE <<[path |-> <<>>, value |-> m.value]>>

(* The item of a context is an item. *)
LEMMA NamedType ==
  ASSUME NEW m \in Members
  PROVE  /\ Named(m) \in Seq(Item)
         /\ ~IsTrace(m) => [path |-> <<>>, value |-> m.value] \in Item
<1>1. <<>> \in Seq(Names) /\ m.value \in Values
  BY EmptySeq DEF Members
<1>2. [path |-> <<>>, value |-> m.value] \in Item
  BY <1>1 DEF Item
<1> DEFINE x == [path |-> <<>>, value |-> m.value]
<1> HIDE DEF x
<1>3. x \in Item /\ Named(m) = IF IsTrace(m) THEN <<>> ELSE <<x>>
  BY <1>2 DEF x, Named
<1>4. Named(m) \in Seq(Item)
  BY <1>3, EmptySeq
<1> QED
  BY <1>2, <1>4

(* Contexts by the items of each context. *)
LEMMA ContextsIs ==
  ASSUME NEW members \in Seq(Members)
  PROVE  \E s \in Seq(Seq(Item)) :
           /\ Contexts(members) = FlattenSeq(s) /\ Len(s) = Len(members)
           /\ \A i \in 1..Len(members) : s[i] = Named(members[i])
<1> DEFINE s == [i \in DOMAIN members |-> Named(members[i])]
<1>1. Contexts(members) = FlattenSeq(s)
  BY DEF Contexts, Named
<1>2. s = [i \in 1..Len(members) |-> Named(members[i])] /\ Len(members) \in Nat
  OBVIOUS
<1>3. \A i \in 1..Len(members) : Named(members[i]) \in Seq(Item)
  <2>1. \A i \in 1..Len(members) : members[i] \in Members
    OBVIOUS
  <2> QED
    BY <2>1, NamedType
<1> HIDE DEF s
<1>4. s \in Seq(Seq(Item)) /\ Len(s) = Len(members) /\ \A i \in 1..Len(members) : s[i] = Named(members[i])
  BY <1>2, <1>3
<1> QED
  BY <1>1, <1>4

(* Contexts are items. *)
LEMMA ContextsType ==
  ASSUME NEW members \in Seq(Members)
  PROVE  Contexts(members) \in Seq(Item)
BY ContextsIs, FlattenType

(* No contexts, no items. *)
LEMMA ContextsEmpty == Contexts(<<>>) = <<>>
<1>1. <<>> \in Seq(Members) /\ Len(<<>>) = 0
  BY EmptySeq
<1>2. PICK s \in Seq(Seq(Item)) : Contexts(<<>>) = FlattenSeq(s) /\ Len(s) = Len(<<>>)
  BY <1>1, ContextsIs
<1>3. s = <<>>
  BY <1>1, <1>2, EmptySeq
<1> QED
  BY <1>2, <1>3, FlattenEmpty

(* The first context comes first. *)
LEMMA ContextsCons ==
  ASSUME NEW members \in Seq(Members), members # <<>>
  PROVE  /\ Contexts(members) = Named(Head(members)) \o Contexts(Tail(members))
         /\ Head(members) \in Members /\ Tail(members) \in Seq(Members)
<1> DEFINE n == Len(members)
           rest == Tail(members)
<1>1. /\ n \in Nat /\ n # 0 /\ Head(members) = members[1] /\ Head(members) \in Members
      /\ rest \in Seq(Members) /\ Len(rest) = n - 1
      /\ \A i \in 1..n - 1 : rest[i] = members[i + 1]
  BY EmptySeq
<1>2. PICK s \in Seq(Seq(Item)) :
           /\ Contexts(members) = FlattenSeq(s) /\ Len(s) = n
           /\ \A i \in 1..n : s[i] = Named(members[i])
  BY ContextsIs
<1> HIDE DEF n, rest
<1>3. PICK t \in Seq(Seq(Item)) :
           /\ Contexts(rest) = FlattenSeq(t) /\ Len(t) = n - 1
           /\ \A i \in 1..n - 1 : t[i] = Named(rest[i])
  <2>1. PICK t \in Seq(Seq(Item)) :
           /\ Contexts(rest) = FlattenSeq(t) /\ Len(t) = Len(rest)
           /\ \A i \in 1..Len(rest) : t[i] = Named(rest[i])
    BY <1>1, ContextsIs
  <2> QED
    BY <1>1, <2>1
<1>4. s # <<>> /\ s[1] = Named(Head(members))
  BY <1>1, <1>2
<1>5. Tail(s) \in Seq(Seq(Item)) /\ Len(Tail(s)) = n - 1 /\ \A i \in 1..n - 1 : Tail(s)[i] = s[i + 1]
  BY <1>1, <1>2, <1>4
<1>6. \A i \in 1..n - 1 : s[i + 1] = t[i]
  BY <1>1, <1>2, <1>3
<1>7. Tail(s) = t
  BY <1>3, <1>5, <1>6, SeqEqual
<1>8. FlattenSeq(s) = s[1] \o FlattenSeq(t)
  BY <1>4, <1>7, FlattenCons
<1> QED
  BY <1>1, <1>2, <1>3, <1>4, <1>8, Zenon DEF rest

(* The objects that are open, the innermost first. *)
Frames == [rest : Seq(Members), prefix : Seq(Names)]

Listed(key, n, frame) ==
  IF n = 1 /\ key = "contexts" THEN Contexts(frame.rest) ELSE Items(frame.rest, frame.prefix)

Open(key, st) == FlattenSeq([i \in 1..Len(st) |-> Listed(key, Len(st) + 1 - i, st[Len(st) + 1 - i])])

(* The rest of an open object, as items. *)
LEMMA ListedType ==
  ASSUME NEW key, NEW n, NEW frame \in Frames
  PROVE  Listed(key, n, frame) \in Seq(Item)
<1>1. frame.rest \in Seq(Members) /\ frame.prefix \in Seq(Names)
  BY DEF Frames
<1> QED
  BY <1>1, ContextsType, ItemsType, Zenon DEF Listed

(* Open by the objects of the stack. *)
LEMMA OpenIs ==
  ASSUME NEW key, NEW st \in Seq(Frames)
  PROVE  \E s \in Seq(Seq(Item)) :
           /\ Open(key, st) = FlattenSeq(s) /\ Len(s) = Len(st)
           /\ \A i \in 1..Len(st) : s[i] = Listed(key, Len(st) + 1 - i, st[Len(st) + 1 - i])
<1> DEFINE s == [i \in 1..Len(st) |-> Listed(key, Len(st) + 1 - i, st[Len(st) + 1 - i])]
<1>1. Open(key, st) = FlattenSeq(s)
  BY DEF Open
<1>2. Len(st) \in Nat /\ \A i \in 1..Len(st) : st[Len(st) + 1 - i] \in Frames
  <2>1. Len(st) \in Nat /\ \A i \in 1..Len(st) : Len(st) + 1 - i \in 1..Len(st)
    OBVIOUS
  <2>2. \A j \in 1..Len(st) : st[j] \in Frames
    OBVIOUS
  <2> QED
    BY <2>1, <2>2, Zenon
<1>3. \A i \in 1..Len(st) : Listed(key, Len(st) + 1 - i, st[Len(st) + 1 - i]) \in Seq(Item)
  BY <1>2, ListedType
<1>4. s \in Seq(Seq(Item)) /\ Len(s) = Len(st)
      /\ \A i \in 1..Len(st) : s[i] = Listed(key, Len(st) + 1 - i, st[Len(st) + 1 - i])
  BY <1>2, <1>3
<1> HIDE DEF s
<1> QED
  BY <1>1, <1>4

(* Nothing is open on an empty stack. *)
LEMMA OpenEmpty ==
  ASSUME NEW key
  PROVE  Open(key, <<>>) = <<>>
<1>1. <<>> \in Seq(Frames) /\ Len(<<>>) = 0
  BY EmptySeq
<1>2. PICK s \in Seq(Seq(Item)) : Open(key, <<>>) = FlattenSeq(s) /\ Len(s) = Len(<<>>)
  BY <1>1, OpenIs
<1>3. s = <<>>
  BY <1>1, <1>2, EmptySeq
<1> QED
  BY <1>2, <1>3, FlattenEmpty

(* The rests of the objects on the stack are items. *)
LEMMA OpenType ==
  ASSUME NEW key, NEW st \in Seq(Frames)
  PROVE  Open(key, st) \in Seq(Item)
BY OpenIs, FlattenType

(* The innermost object comes first. *)
LEMMA OpenAppend ==
  ASSUME NEW key, NEW st \in Seq(Frames), NEW frame \in Frames
  PROVE  /\ Append(st, frame) \in Seq(Frames)
         /\ Open(key, Append(st, frame)) = Listed(key, Len(st) + 1, frame) \o Open(key, st)
<1> DEFINE n == Len(st)
           st1 == Append(st, frame)
<1>1. n \in Nat
  OBVIOUS
<1>2. st1 \in Seq(Frames) /\ Len(st1) = n + 1 /\ st1[n + 1] = frame /\ \A i \in 1..n : st1[i] = st[i]
  OBVIOUS
<1>3. PICK t \in Seq(Seq(Item)) :
           /\ Open(key, st) = FlattenSeq(t) /\ Len(t) = n
           /\ \A i \in 1..n : t[i] = Listed(key, n + 1 - i, st[n + 1 - i])
  BY OpenIs
<1> HIDE DEF n, st1
<1>4. PICK s \in Seq(Seq(Item)) :
           /\ Open(key, st1) = FlattenSeq(s) /\ Len(s) = n + 1
           /\ \A i \in 1..n + 1 : s[i] = Listed(key, (n + 1) + 1 - i, st1[(n + 1) + 1 - i])
  <2>1. PICK s \in Seq(Seq(Item)) :
           /\ Open(key, st1) = FlattenSeq(s) /\ Len(s) = Len(st1)
           /\ \A i \in 1..Len(st1) : s[i] = Listed(key, Len(st1) + 1 - i, st1[Len(st1) + 1 - i])
    BY <1>2, OpenIs
  <2> QED
    BY <1>2, <2>1, Zenon
<1>5. s # <<>> /\ s[1] = Listed(key, n + 1, frame)
  <2>1. 1 \in 1..n + 1 /\ (n + 1) + 1 - 1 = n + 1
    BY <1>1
  <2>2. s[1] = Listed(key, n + 1, frame)
    BY <1>2, <1>4, <2>1, Zenon
  <2> QED
    BY <1>1, <1>4, <2>2
<1>6. Tail(s) \in Seq(Seq(Item)) /\ Len(Tail(s)) = n /\ \A i \in 1..n : Tail(s)[i] = s[i + 1]
  BY <1>1, <1>4, <1>5
<1>7. ASSUME NEW i \in 1..n
      PROVE  s[i + 1] = t[i]
  <2>1. i + 1 \in 1..n + 1 /\ (n + 1) + 1 - (i + 1) = n + 1 - i /\ n + 1 - i \in 1..n
    BY <1>1
  <2>2. s[i + 1] = Listed(key, (n + 1) + 1 - (i + 1), st1[(n + 1) + 1 - (i + 1)])
    BY <1>4, <2>1, Zenon
  <2>3. s[i + 1] = Listed(key, n + 1 - i, st1[n + 1 - i])
    BY <2>1, <2>2, Zenon
  <2>4. st1[n + 1 - i] = st[n + 1 - i]
    BY <1>2, <2>1, Zenon
  <2>5. t[i] = Listed(key, n + 1 - i, st[n + 1 - i])
    BY <1>3, Zenon
  <2> QED
    BY <2>3, <2>4, <2>5, Zenon
<1>8. Tail(s) = t
  <2>1. \A i \in 1..n : Tail(s)[i] = t[i]
    BY <1>6, <1>7, Zenon
  <2> QED
    BY <1>3, <1>6, <2>1, SeqEqual
<1>9. FlattenSeq(s) = s[1] \o FlattenSeq(t)
  BY <1>4, <1>5, <1>8, FlattenCons
<1> QED
  BY <1>2, <1>3, <1>4, <1>5, <1>9, Zenon DEF n, st1

(* What the member of a document adds to the map called key. *)
Maps == {"contexts", "user"}

Says(key, v) == IF key = "contexts" THEN ContextItems(v) ELSE UserItems(v)

Said(key, d) ==
  [i \in DOMAIN d.members |-> IF d.members[i].key = key THEN Says(key, d.members[i].value) ELSE <<>>]

(* What DocsAssumption says of the members of a document. *)
LEMMA DocMembers ==
  ASSUME NEW d \in Docs
  PROVE  /\ Len(d.members) \in Nat /\ DOMAIN d.members = 1..Len(d.members)
         /\ \A i \in 1..Len(d.members) : d.members[i] \in Range(d.members)
<1>1. d.members \in Seq(Range(d.members))
  BY DocsAssumption, Zenon DEF DocsAssumption
<1> DEFINE s == d.members
           R == Range(d.members)
<1>2. s \in Seq(R)
  BY <1>1
<1> HIDE DEF s, R
<1>3. Len(s) \in Nat /\ DOMAIN s = 1..Len(s) /\ \A i \in 1..Len(s) : s[i] \in R
  BY <1>2
<1> QED
  BY <1>3, Zenon DEF s, R

(* What a member says is a sequence of items. *)
LEMMA SaysType ==
  ASSUME NEW d \in Docs, NEW key \in Maps, NEW i \in 1..Len(d.members), d.members[i].key = key
  PROVE  /\ Says(key, d.members[i].value) \in Seq(Item)
         /\ d.members[i].value.kind = "object" => d.members[i].value.members \in Seq(Members)
<1> DEFINE v == d.members[i].value
<1>1. d.members[i] \in Range(d.members) /\ d.members[i].key \in {"contexts", "user"}
  BY DocMembers, Zenon DEF Maps
<1>2. v.kind = "object" => v.members \in Seq(Members)
  BY <1>1, DocsAssumption, Zenon DEF DocsAssumption
<1> HIDE DEF v
<1>3. <<>> \in Seq(Item) /\ <<>> \in Seq(Names)
  BY EmptySeq
<1>4. ContextItems(v) \in Seq(Item)
  BY <1>2, <1>3, ContextsType, Zenon DEF ContextItems
<1>5. UserItems(v) \in Seq(Item)
  BY <1>2, <1>3, ItemsType, Zenon DEF UserItems
<1>6. Says(key, v) \in Seq(Item)
  BY <1>4, <1>5, Zenon DEF Says
<1> QED
  BY <1>2, <1>6 DEF v

(* What each of the members says. *)
LEMMA SaidType ==
  ASSUME NEW d \in Docs, NEW key \in Maps
  PROVE  /\ Said(key, d) \in Seq(Seq(Item)) /\ Len(Said(key, d)) = Len(d.members)
         /\ \A i \in 1..Len(d.members) :
              Said(key, d)[i] = IF d.members[i].key = key THEN Says(key, d.members[i].value) ELSE <<>>
<1> DEFINE n == Len(d.members)
           V(i) == IF d.members[i].key = key THEN Says(key, d.members[i].value) ELSE <<>>
           s == Said(key, d)
<1>1. n \in Nat /\ DOMAIN d.members = 1..n
  BY DocMembers
<1>2. \A i \in 1..n : V(i) \in Seq(Item)
  BY SaysType, EmptySeq
<1>3. s = [i \in 1..n |-> V(i)]
  BY <1>1, Zenon DEF Said
<1> HIDE DEF n, V, s
<1>4. s \in Seq(Seq(Item)) /\ Len(s) = n /\ \A i \in 1..n : s[i] = V(i)
  BY <1>1, <1>2, <1>3
<1> QED
  BY <1>4, Zenon DEF n, V, s

(* The leaves that are left: of the members from k on, or of the objects   *)
(* that are open within member k and the members behind it.                *)
Behind(key, d, k, st) == Leaves(Open(key, st) \o From(Said(key, d), k + 1))

Left(key, d, k, st) ==
  IF st = <<>> THEN Leaves(From(Said(key, d), k))
  ELSE Behind(key, d, k, IF d.members[k].key = key THEN st ELSE <<>>)

(* What is left of the innermost object, and then what is behind it. *)
LEMMA BehindAppend ==
  ASSUME NEW d \in Docs, NEW key \in Maps, NEW k \in 1..Len(d.members),
         NEW st \in Seq(Frames), NEW frame \in Frames
  PROVE  /\ Behind(key, d, k, Append(st, frame)) = Leaves(Listed(key, Len(st) + 1, frame)) \o Behind(key, d, k, st)
         /\ Behind(key, d, k, st) \in Seq(Item)
         /\ Listed(key, Len(st) + 1, frame) \in Seq(Item)
<1> DEFINE F == From(Said(key, d), k + 1)
           a == Listed(key, Len(st) + 1, frame)
           b == Open(key, st)
<1>1. F \in Seq(Item)
  BY SaidType, FromStep
<1>2. a \in Seq(Item) /\ b \in Seq(Item)
  BY ListedType, OpenType
<1>3. Open(key, Append(st, frame)) = a \o b
  BY OpenAppend
<1> HIDE DEF F, a, b
<1>4. (a \o b) \o F = a \o (b \o F) /\ b \o F \in Seq(Item)
  <2>1. Associates(a, b, F)
    BY <1>1, <1>2, AssociateItems, Zenon
  <2>2. b \o F \in Seq(Item)
    BY <1>1, <1>2, ConcatProperties, Zenon
  <2> QED
    BY <2>1, <2>2, Zenon DEF Associates
<1>5. Leaves(a \o (b \o F)) = Leaves(a) \o Leaves(b \o F)
  BY <1>2, <1>4, LeavesConcat
<1>6. Leaves(b \o F) \in Seq(Item)
  BY <1>4, LeavesLow
<1>7. Behind(key, d, k, Append(st, frame)) = Leaves((a \o b) \o F)
  BY <1>3, Zenon DEF Behind, F
<1>8. Behind(key, d, k, st) = Leaves(b \o F)
  BY Zenon DEF Behind, F, b
<1>9. /\ Behind(key, d, k, Append(st, frame)) = Leaves(a) \o Behind(key, d, k, st)
      /\ Behind(key, d, k, st) \in Seq(Item)
  BY <1>4, <1>5, <1>6, <1>7, <1>8, Zenon
<1> QED
  BY <1>2, <1>9, Zenon DEF a

(* What is left of a member that has not begun, and then what is behind it. *)
LEMMA BehindEmpty ==
  ASSUME NEW d \in Docs, NEW key \in Maps, NEW k \in 1..Len(d.members)
  PROVE  /\ Behind(key, d, k, <<>>) = Leaves(From(Said(key, d), k + 1))
         /\ Leaves(From(Said(key, d), k)) = Leaves(Said(key, d)[k]) \o Behind(key, d, k, <<>>)
         /\ Behind(key, d, k, <<>>) \in Seq(Item)
<1> DEFINE F == From(Said(key, d), k + 1)
           G == From(Said(key, d), k)
           a == Said(key, d)[k]
<1>1. G = a \o F /\ F \in Seq(Item) /\ a \in Seq(Item)
  BY SaidType, FromStep
<1>2. Behind(key, d, k, <<>>) = Leaves(<<>> \o F)
  BY OpenEmpty, Zenon DEF Behind
<1> HIDE DEF F, G, a
<1>3. Leaves(G) = Leaves(a) \o Leaves(F)
  BY <1>1, LeavesConcat
<1>4. <<>> \o F = F
  BY <1>1, ConcatEmptySeq
<1>5. Leaves(F) \in Seq(Item)
  BY <1>1, LeavesLow
<1> QED
  BY <1>2, <1>3, <1>4, <1>5, Zenon DEF F, G, a

(* Nothing has no leaves. *)
LEMMA LeavesEmpty == Leaves(<<>>) = <<>>
<1>1. <<>> \in Seq(Item) /\ Flat(<<>>)
  BY EmptySeq DEF Flat
<1> QED
  BY <1>1, LeavesOfFlat

(* A member that says nothing about this map. *)
LEMMA LeftOfOther ==
  ASSUME NEW d \in Docs, NEW key \in Maps, NEW k \in 1..Len(d.members), d.members[k].key # key
  PROVE  /\ Left(key, d, k + 1, <<>>) = Left(key, d, k, <<>>)
         /\ \A st : Left(key, d, k, st) = Left(key, d, k, <<>>)
<1>1. Said(key, d)[k] = <<>>
  BY SaidType, Zenon
<1>2. /\ Behind(key, d, k, <<>>) = Leaves(From(Said(key, d), k + 1))
      /\ Leaves(From(Said(key, d), k)) = Leaves(<<>>) \o Behind(key, d, k, <<>>)
      /\ Behind(key, d, k, <<>>) \in Seq(Item)
  BY <1>1, BehindEmpty
<1>3. Leaves(<<>>) \o Behind(key, d, k, <<>>) = Behind(key, d, k, <<>>)
  BY <1>2, LeavesEmpty, ConcatEmptySeq
<1> QED
  BY <1>2, <1>3, Zenon DEF Left

(* OpenObject. *)
LEMMA LeftOfObject ==
  ASSUME NEW d \in Docs, NEW key \in Maps, NEW k \in 1..Len(d.members), d.members[k].key \in Maps,
         d.members[k].value.kind = "object"
  PROVE  LET frame == [rest |-> d.members[k].value.members, prefix |-> <<>>]
         IN /\ frame \in Frames /\ <<frame>> \in Seq(Frames)
            /\ Left(key, d, k, <<frame>>) = Left(key, d, k, <<>>)
<1> DEFINE frame == [rest |-> d.members[k].value.members, prefix |-> <<>>]
           ms == d.members[k].value.members
           own == d.members[k].key
<1>1. ms \in Seq(Members) /\ <<>> \in Seq(Names)
  BY SaysType, EmptySeq
<1>2. frame \in Frames /\ frame.rest = ms /\ frame.prefix = <<>>
  BY <1>1 DEF Frames
<1> HIDE DEF frame
<1>3. <<frame>> \in Seq(Frames) /\ <<frame>> # <<>> /\ <<frame>> = Append(<<>>, frame) /\ <<>> \in Seq(Frames)
      /\ Len(<<>>) + 1 = 1
  BY <1>2
<1>4. ASSUME own # key
      PROVE  Left(key, d, k, <<frame>>) = Left(key, d, k, <<>>)
  BY <1>4, LeftOfOther
<1>5. ASSUME own = key
      PROVE  Left(key, d, k, <<frame>>) = Left(key, d, k, <<>>)
  <2>1. Left(key, d, k, <<frame>>) = Behind(key, d, k, Append(<<>>, frame))
    BY <1>3, <1>5, Zenon DEF Left
  <2>2. Behind(key, d, k, Append(<<>>, frame)) = Leaves(Listed(key, 1, frame)) \o Behind(key, d, k, <<>>)
    <3>1. Behind(key, d, k, Append(<<>>, frame)) = Leaves(Listed(key, Len(<<>>) + 1, frame)) \o Behind(key, d, k, <<>>)
      BY <1>2, <1>3, BehindAppend
    <3> QED
      BY <1>3, <3>1, Zenon
  <2>3. Said(key, d)[k] = Says(key, d.members[k].value)
    BY <1>5, SaidType
  <2>4. Says(key, d.members[k].value) = Listed(key, 1, frame)
    BY <1>2, Zenon DEF Says, Listed, ContextItems, UserItems
  <2>5. Left(key, d, k, <<>>) = Leaves(Said(key, d)[k]) \o Behind(key, d, k, <<>>)
    BY BehindEmpty, Zenon DEF Left
  <2> QED
    BY <2>1, <2>2, <2>3, <2>4, <2>5, Zenon
<1>6. /\ frame \in Frames /\ <<frame>> \in Seq(Frames)
      /\ Left(key, d, k, <<frame>>) = Left(key, d, k, <<>>)
  BY <1>2, <1>3, <1>4, <1>5
<1> QED
  BY <1>6 DEF frame

(* The rest of a frame is never touched but for its first member. *)
Pop(frame) == [frame EXCEPT !.rest = Tail(@)]

(* A frame without its first member. *)
LEMMA PopIs ==
  ASSUME NEW frame \in Frames, frame.rest # <<>>
  PROVE  /\ Pop(frame) \in Frames /\ Pop(frame).rest = Tail(frame.rest) /\ Pop(frame).prefix = frame.prefix
         /\ Head(frame.rest) \in Members /\ frame.prefix \in Seq(Names) /\ frame.rest \in Seq(Members)
<1>1. frame.rest \in Seq(Members) /\ frame.prefix \in Seq(Names)
  BY DEF Frames
<1>2. Head(frame.rest) \in Members /\ Tail(frame.rest) \in Seq(Members)
  BY <1>1
<1> DEFINE r == Tail(frame.rest)
<1>3. r \in Seq(Members) /\ Pop(frame) = [frame EXCEPT !.rest = r]
  BY <1>2 DEF Pop
<1> HIDE DEF r
<1>4. [frame EXCEPT !.rest = r] = [rest |-> r, prefix |-> frame.prefix]
  BY DEF Frames
<1>5. Pop(frame) \in Frames /\ Pop(frame).rest = r /\ Pop(frame).prefix = frame.prefix
  BY <1>1, <1>3, <1>4 DEF Frames
<1> QED
  BY <1>1, <1>2, <1>5 DEF r

(* The leaves of the first member of a frame, and then those of the rest. *)
LEMMA ItemsHead ==
  ASSUME NEW frame \in Frames, frame.rest # <<>>, NEW key, NEW n, n # 1 \/ key # "contexts"
  PROVE  LET x == ItemOf(Head(frame.rest), frame.prefix)
         IN /\ x \in Item
            /\ Leaves(Listed(key, n, frame)) = Leaves(Opened(x)) \o Leaves(Listed(key, n, Pop(frame)))
<1> DEFINE x == ItemOf(Head(frame.rest), frame.prefix)
           t == Items(Tail(frame.rest), frame.prefix)
<1>1. frame.rest \in Seq(Members) /\ frame.prefix \in Seq(Names)
      /\ Pop(frame).rest = Tail(frame.rest) /\ Pop(frame).prefix = frame.prefix
  BY PopIs
<1>2. Items(frame.rest, frame.prefix) = <<x>> \o t /\ x \in Item /\ Tail(frame.rest) \in Seq(Members)
  BY <1>1, ItemsCons
<1>3. t \in Seq(Item)
  BY <1>1, <1>2, ItemsType
<1>4. Listed(key, n, frame) = <<x>> \o t /\ Listed(key, n, Pop(frame)) = t
  BY <1>1, <1>2, Zenon DEF Listed
<1> HIDE DEF x, t
<1>5. Leaves(<<x>> \o t) = Leaves(Opened(x)) \o Leaves(t)
  BY <1>2, <1>3, LeavesCons
<1>6. x \in Item /\ Leaves(Listed(key, n, frame)) = Leaves(Opened(x)) \o Leaves(Listed(key, n, Pop(frame)))
  BY <1>2, <1>4, <1>5, Zenon
<1> QED
  BY <1>6 DEF x

(* A stack with a frame on it is not empty. *)
LEMMA AppendIs ==
  ASSUME NEW S, NEW st \in Seq(S), NEW frame \in S
  PROVE  Append(st, frame) # <<>>
BY EmptySeq, AppendProperties

(* Stacks of one and of two frames. *)
LEMMA OneOrTwo ==
  ASSUME NEW S
  PROVE  /\ <<>> \in Seq(S) /\ Len(<<>>) + 1 = 1
         /\ \A f \in S : Append(<<>>, f) = <<f>>
         /\ \A f, g \in S : Append(<<f>>, g) = <<f, g>>
         /\ \A f \in S : <<f>> \in Seq(S) /\ <<f>> # <<>> /\ Len(<<f>>) + 1 = 2
<1>1. <<>> \in Seq(S) /\ Len(<<>>) + 1 = 1
  BY EmptySeq
<1>2. \A f \in S : Append(<<>>, f) = <<f>>
  OBVIOUS
<1>3. ASSUME NEW f \in S, NEW g \in S
      PROVE  Append(<<f>>, g) = <<f, g>>
  <2> DEFINE s == Append(<<f>>, g)
             t == <<f, g>>
  <2>1. s \in Seq(S) /\ Len(s) = 2 /\ s[1] = f /\ s[2] = g
    OBVIOUS
  <2>2. t \in Seq(S) /\ Len(t) = 2 /\ t[1] = f /\ t[2] = g
    OBVIOUS
  <2> HIDE DEF s, t
  <2>3. \A i \in 1..Len(s) : s[i] = t[i]
    <3>1. \A i \in 1..2 : i = 1 \/ i = 2
      OBVIOUS
    <3> QED
      BY <2>1, <2>2, <3>1, Zenon
  <2>4. s = t
    BY <2>1, <2>2, <2>3, SeqEqual
  <2> QED
    BY <2>4 DEF s, t
<1>4. \A f \in S : <<f>> \in Seq(S) /\ <<f>> # <<>> /\ Len(<<f>>) + 1 = 2
  OBVIOUS
<1> QED
  BY <1>1, <1>2, <1>3, <1>4

(* What is left, by the innermost object. *)
LEMMA LeftOfTop ==
  ASSUME NEW d \in Docs, NEW key \in Maps, NEW k \in 1..Len(d.members), d.members[k].key = key,
         NEW st \in Seq(Frames), NEW frame \in Frames
  PROVE  /\ Left(key, d, k, Append(st, frame)) = Leaves(Listed(key, Len(st) + 1, frame)) \o Behind(key, d, k, st)
         /\ Leaves(Listed(key, Len(st) + 1, frame)) \in Seq(Item)
         /\ Behind(key, d, k, st) \in Seq(Item)
<1>1. Append(st, frame) # <<>>
  BY AppendIs
<1>2. Left(key, d, k, Append(st, frame)) = Behind(key, d, k, Append(st, frame))
  BY <1>1, Zenon DEF Left
<1>3. /\ Behind(key, d, k, Append(st, frame)) = Leaves(Listed(key, Len(st) + 1, frame)) \o Behind(key, d, k, st)
      /\ Behind(key, d, k, st) \in Seq(Item)
      /\ Listed(key, Len(st) + 1, frame) \in Seq(Item)
  BY BehindAppend
<1>4. Leaves(Listed(key, Len(st) + 1, frame)) \in Seq(Item)
  BY <1>3, LeavesLow
<1> QED
  BY <1>2, <1>3, <1>4, Zenon

(* The first member of the innermost object. *)
LEMMA LeftOfHead ==
  ASSUME NEW d \in Docs, NEW key \in Maps, NEW k \in 1..Len(d.members), d.members[k].key = key,
         NEW st \in Seq(Frames), NEW frame \in Frames, frame.rest # <<>>, st # <<>> \/ key # "contexts"
  PROVE  /\ ItemOf(Head(frame.rest), frame.prefix) \in Item
         /\ Left(key, d, k, Append(st, frame)) =
              Leaves(Opened(ItemOf(Head(frame.rest), frame.prefix))) \o Left(key, d, k, Append(st, Pop(frame)))
         /\ Left(key, d, k, Append(st, Pop(frame))) \in Seq(Item)
<1> DEFINE x == ItemOf(Head(frame.rest), frame.prefix)
           n == Len(st) + 1
           a == Leaves(Opened(x))
           b == Leaves(Listed(key, n, Pop(frame)))
           c == Behind(key, d, k, st)
<1>1. n # 1 \/ key # "contexts"
  <2>1. st # <<>> => n # 1
    BY EmptySeq
  <2> QED
    BY <2>1, Zenon
<1>2. x \in Item /\ Leaves(Listed(key, n, frame)) = a \o b
  BY <1>1, ItemsHead
<1>3. Pop(frame) \in Frames
  BY PopIs
<1>4. Left(key, d, k, Append(st, frame)) = (a \o b) \o c
  BY <1>2, LeftOfTop, ZenonT(60)
<1>5. Left(key, d, k, Append(st, Pop(frame))) = b \o c /\ b \in Seq(Item) /\ c \in Seq(Item)
  BY <1>3, LeftOfTop, SMTT(30)
<1>6. a \in Seq(Item)
  BY <1>2, OpenedType, LeavesLow
<1> HIDE DEF x, a, b, c
<1>7. (a \o b) \o c = a \o (b \o c) /\ b \o c \in Seq(Item)
  <2>1. (a \o b) \o c = a \o (b \o c)
    <3>1. a \in Seq(Item) /\ b \in Seq(Item) /\ c \in Seq(Item)
      BY <1>5, <1>6, Zenon
    <3> QED
      BY <3>1, AssociateItems, Zenon DEF Associates
  <2>2. b \o c \in Seq(Item)
    BY <1>5, ConcatProperties, Zenon
  <2> QED
    BY <2>1, <2>2, Zenon
<1>8. Left(key, d, k, Append(st, frame)) = a \o Left(key, d, k, Append(st, Pop(frame)))
  BY <1>4, <1>5, <1>7, Zenon
<1>9. Left(key, d, k, Append(st, Pop(frame))) \in Seq(Item)
  BY <1>5, <1>7
<1> QED
  BY <1>2, <1>8, <1>9 DEF x, a

(* DecodeLeaf and DecodeInvalid. *)
LEMMA LeftOfLeaf ==
  ASSUME NEW d \in Docs, NEW key \in Maps, NEW k \in 1..Len(d.members), d.members[k].key = key,
         NEW st \in Seq(Frames), NEW frame \in Frames, frame.rest # <<>>, st # <<>> \/ key # "contexts",
         Head(frame.rest).value.kind # "object"
  PROVE  Left(key, d, k, Append(st, frame)) =
           <<ItemOf(Head(frame.rest), frame.prefix)>> \o Left(key, d, k, Append(st, Pop(frame)))
<1> DEFINE x == ItemOf(Head(frame.rest), frame.prefix)
<1>1. x \in Item
  BY LeftOfHead
<1>2. Left(key, d, k, Append(st, frame)) = Leaves(Opened(x)) \o Left(key, d, k, Append(st, Pop(frame)))
  BY LeftOfHead
<1>3. x.value.kind # "object"
  BY Zenon DEF ItemOf
<1> HIDE DEF x
<1>4. Opened(x) = <<x>>
  BY <1>3, Zenon DEF Opened
<1>5. <<x>> \in Seq(Item) /\ Flat(<<x>>)
  BY <1>1, <1>3 DEF Flat
<1>6. Leaves(<<x>>) = <<x>>
  BY <1>5, LeavesOfFlat
<1> QED
  BY <1>2, <1>4, <1>6, Zenon DEF x

(* DecodeNested. *)
Inner(frame) == [rest |-> Head(frame.rest).value.members, prefix |-> frame.prefix \o Head(frame.rest).key]

LEMMA LeftOfNested ==
  ASSUME NEW d \in Docs, NEW key \in Maps, NEW k \in 1..Len(d.members), d.members[k].key = key,
         NEW st \in Seq(Frames), NEW frame \in Frames, frame.rest # <<>>, st # <<>> \/ key # "contexts",
         Head(frame.rest).value.kind = "object"
  PROVE  /\ Inner(frame) \in Frames
         /\ Left(key, d, k, Append(Append(st, Pop(frame)), Inner(frame))) = Left(key, d, k, Append(st, frame))
<1> DEFINE m == Head(frame.rest)
           x == ItemOf(m, frame.prefix)
           st1 == Append(st, Pop(frame))
           inner == Inner(frame)
<1>1. m \in Members /\ frame.prefix \in Seq(Names) /\ Pop(frame) \in Frames
  BY PopIs
<1>2. m.value \in Values /\ m.key \in Seq(Names)
  BY <1>1 DEF Members
<1>3. m.value.members \in Seq(Members)
  BY <1>2, MembersOfObject
<1>4. inner \in Frames /\ inner.rest = m.value.members /\ inner.prefix = frame.prefix \o m.key
  BY <1>1, <1>2, <1>3, ConcatProperties DEF Frames, Inner
<1>5. x.path = frame.prefix \o m.key /\ x.value = m.value
  BY Zenon DEF ItemOf
<1>6. Opened(x) = Items(inner.rest, inner.prefix)
  BY <1>4, <1>5, Zenon DEF Opened
<1>7. Left(key, d, k, Append(st, frame)) = Leaves(Opened(x)) \o Left(key, d, k, st1)
  BY LeftOfHead
<1>8. st1 \in Seq(Frames) /\ st1 # <<>> /\ Len(st1) + 1 # 1
  BY <1>1
<1> HIDE DEF st1, x, m, inner
<1>9. Left(key, d, k, Append(st1, inner)) = Leaves(Listed(key, Len(st1) + 1, inner)) \o Behind(key, d, k, st1)
  BY <1>4, <1>8, LeftOfTop
<1>10. Listed(key, Len(st1) + 1, inner) = Items(inner.rest, inner.prefix)
  BY <1>8, Zenon DEF Listed
<1>11. Left(key, d, k, st1) = Behind(key, d, k, st1)
  BY <1>8, Zenon DEF Left
<1> QED
  BY <1>4, <1>6, <1>7, <1>9, <1>10, <1>11, Zenon DEF st1, inner

(* DecodeContext. *)
LEMMA LeftOfContext ==
  ASSUME NEW d \in Docs, NEW k \in 1..Len(d.members), d.members[k].key = "contexts",
         NEW frame \in Frames, frame.rest # <<>>, NEW m, m = Head(frame.rest),
         m.value.kind = "object",
         NEW inner, inner = [rest |-> m.value.members, prefix |-> <<>>]
  PROVE  /\ inner \in Frames
         /\ IsTrace(m) => Left("contexts", d, k, <<Pop(frame)>>) = Left("contexts", d, k, <<frame>>)
         /\ ~IsTrace(m) => Left("contexts", d, k, <<Pop(frame), inner>>) = Left("contexts", d, k, <<frame>>)
<1> DEFINE key == "contexts"
<1>1. key \in Maps
  BY DEF Maps
<1>2. m \in Members /\ frame.rest \in Seq(Members) /\ Pop(frame) \in Frames /\ Pop(frame).rest = Tail(frame.rest)
  BY PopIs
<1>3. Contexts(frame.rest) = Named(m) \o Contexts(Pop(frame).rest) /\ Pop(frame).rest \in Seq(Members)
  BY <1>2, ContextsCons
<1>4. Listed(key, 1, frame) = Contexts(frame.rest) /\ Listed(key, 1, Pop(frame)) = Contexts(Pop(frame).rest)
  BY Zenon DEF Listed
<1>5. m.value.members \in Seq(Members) /\ <<>> \in Seq(Names)
  <2>1. m.value \in Values
    BY <1>2 DEF Members
  <2> QED
    BY <2>1, MembersOfObject, EmptySeq
<1>6. inner \in Frames /\ inner.rest = m.value.members /\ inner.prefix = <<>>
  BY <1>5 DEF Frames
<1>7. /\ <<>> \in Seq(Frames) /\ Len(<<>>) + 1 = 1
      /\ \A f \in Frames : Append(<<>>, f) = <<f>>
      /\ \A f, g \in Frames : Append(<<f>>, g) = <<f, g>>
      /\ \A f \in Frames : <<f>> \in Seq(Frames) /\ <<f>> # <<>> /\ Len(<<f>>) + 1 = 2
  BY OneOrTwo
<1> HIDE DEF key
<1> DEFINE a == Named(m)
           b == Contexts(Pop(frame).rest)
           c == Behind(key, d, k, <<>>)
<1>8. a \in Seq(Item) /\ b \in Seq(Item) /\ c \in Seq(Item)
  BY <1>1, <1>2, <1>3, NamedType, ContextsType, BehindEmpty
<1>9. \A f \in Frames : Left(key, d, k, <<f>>) = Leaves(Listed(key, 1, f)) \o c
  <2> TAKE f \in Frames
  <2>1. d.members[k].key = key
    BY Zenon DEF key
  <2>2. Left(key, d, k, Append(<<>>, f)) = Leaves(Listed(key, Len(<<>>) + 1, f)) \o c
    BY <1>1, <1>7, <2>1, LeftOfTop
  <2> QED
    BY <1>7, <2>2, Zenon
<1>10. Left(key, d, k, <<frame>>) = Leaves(a \o b) \o c /\ Left(key, d, k, <<Pop(frame)>>) = Leaves(b) \o c
  BY <1>2, <1>3, <1>4, <1>9, Zenon
<1> HIDE DEF a, b, c
<1>11. Leaves(a \o b) = Leaves(a) \o Leaves(b) /\ Leaves(a) \in Seq(Item) /\ Leaves(b) \in Seq(Item)
  BY <1>8, LeavesConcat, LeavesLow
<1>12. ASSUME IsTrace(m)
       PROVE  Left(key, d, k, <<Pop(frame)>>) = Left(key, d, k, <<frame>>)
  <2>1. a = <<>>
    BY <1>12, Zenon DEF a, Named
  <2>2. <<>> \o Leaves(b) = Leaves(b)
    BY <1>11, ConcatEmptySeq
  <2> QED
    BY <1>10, <1>11, <2>1, <2>2, LeavesEmpty, Zenon
<1>13. ASSUME ~IsTrace(m)
       PROVE  Left(key, d, k, <<Pop(frame), inner>>) = Left(key, d, k, <<frame>>)
  <2> DEFINE x == [path |-> <<>>, value |-> m.value]
  <2>1. x \in Item
    BY <1>2, <1>13, NamedType
  <2>2. a = <<x>>
    BY <1>13, Zenon DEF a, Named
  <2>3. x.value = m.value /\ x.path = <<>>
    BY Zenon
  <2> HIDE DEF x
  <2>4. OpenAll(a) = Opened(x)
    BY <2>1, <2>2, OpenAllOne
  <2>5. Opened(x) = Items(inner.rest, inner.prefix)
    BY <1>6, <2>3, Zenon DEF Opened
  <2>6. Leaves(a) = Leaves(Items(inner.rest, inner.prefix))
    BY <1>8, <2>4, <2>5, LeavesOpen
  <2> DEFINE st == <<Pop(frame)>>
  <2>7. st \in Seq(Frames) /\ st # <<>> /\ Append(st, inner) = <<Pop(frame), inner>> /\ Len(st) + 1 = 2
    BY <1>2, <1>6, <1>7
  <2>8. d.members[k].key = key
    BY Zenon DEF key
  <2> HIDE DEF st
  <2>9. Left(key, d, k, Append(st, inner)) = Leaves(Listed(key, Len(st) + 1, inner)) \o Behind(key, d, k, st)
    BY <1>1, <1>6, <2>7, <2>8, LeftOfTop
  <2>10. Listed(key, Len(st) + 1, inner) = Items(inner.rest, inner.prefix)
    <3>1. 2 # 1
      OBVIOUS
    <3> QED
      BY <2>7, <3>1, Zenon DEF Listed
  <2>11. Left(key, d, k, st) = Behind(key, d, k, st)
    BY <2>7, <2>8, Zenon DEF Left
  <2>12. Left(key, d, k, st) = Leaves(b) \o c
    BY <1>10, Zenon DEF st
  <2>13. (Leaves(a) \o Leaves(b)) \o c = Leaves(a) \o (Leaves(b) \o c)
    <3> DEFINE u == Leaves(a)
               v == Leaves(b)
    <3>1. u \in Seq(Item) /\ v \in Seq(Item) /\ c \in Seq(Item)
      BY <1>8, <1>11
    <3> HIDE DEF u, v
    <3>2. (u \o v) \o c = u \o (v \o c)
      BY <3>1, AssociateThree
    <3> QED
      BY <3>2 DEF u, v
  <2> QED
    BY <1>10, <1>11, <2>6, <2>7, <2>9, <2>10, <2>11, <2>12, <2>13, Zenon
<1> QED
  BY <1>6, <1>12, <1>13 DEF key

(* Close. *)
LEMMA LeftOfEnd ==
  ASSUME NEW d \in Docs, NEW key \in Maps, NEW k \in 1..Len(d.members),
         NEW st \in Seq(Frames), NEW frame \in Frames, frame.rest = <<>>
  PROVE  Left(key, d, k, Append(st, frame)) = Left(key, d, IF st = <<>> THEN k + 1 ELSE k, st)
<1>1. Append(st, frame) # <<>>
  BY AppendIs
<1>2. ASSUME d.members[k].key # key
      PROVE  Left(key, d, k, Append(st, frame)) = Left(key, d, IF st = <<>> THEN k + 1 ELSE k, st)
  <2>1. /\ Left(key, d, k + 1, <<>>) = Left(key, d, k, <<>>)
        /\ \A t : Left(key, d, k, t) = Left(key, d, k, <<>>)
    BY <1>2, LeftOfOther
  <2> QED
    BY <2>1, Zenon
<1>3. ASSUME d.members[k].key = key
      PROVE  Left(key, d, k, Append(st, frame)) = Left(key, d, IF st = <<>> THEN k + 1 ELSE k, st)
  <2>1. Listed(key, Len(st) + 1, frame) = <<>>
    <3>1. frame.prefix \in Seq(Names)
      BY DEF Frames
    <3> QED
      BY <3>1, ContextsEmpty, ItemsEmpty, Zenon DEF Listed
  <2>2. /\ Left(key, d, k, Append(st, frame)) = Leaves(Listed(key, Len(st) + 1, frame)) \o Behind(key, d, k, st)
        /\ Behind(key, d, k, st) \in Seq(Item)
    BY <1>3, LeftOfTop
  <2>3. <<>> \o Behind(key, d, k, st) = Behind(key, d, k, st)
    BY <2>2, ConcatEmptySeq
  <2>4. Left(key, d, k, Append(st, frame)) = Behind(key, d, k, st)
    BY <2>1, <2>2, <2>3, LeavesEmpty, Zenon
  <2>5. Behind(key, d, k, <<>>) = Left(key, d, k + 1, <<>>)
    BY BehindEmpty, Zenon DEF Left
  <2>6. st # <<>> => Behind(key, d, k, st) = Left(key, d, k, st)
    BY <1>3, Zenon DEF Left
  <2> QED
    BY <2>4, <2>5, <2>6, Zenon
<1> QED
  BY <1>2, <1>3, Zenon

-----------------------------------------------------------------------------
(* The map so far.                                                         *)

(* The leaves are those that the map was made of and those that are left.  *)
Split(key, d, k, st, W) ==
  /\ W \in Seq(Item) /\ \A i \in DOMAIN W : W[i].value.kind = "leaf"
  /\ W \o Left(key, d, k, st) = Leaves(FlattenSeq(Said(key, d)))

Progress(key, d, k, st, map) ==
  \E W : Split(key, d, k, st, W) /\ IsFlattened(map, W)

(* At the beginning all is left and the map is empty. *)
LEMMA ProgressStart ==
  ASSUME NEW d \in Docs, NEW key \in Maps
  PROVE  Progress(key, d, 1, <<>>, <<>>)
<1>1. From(Said(key, d), 1) = FlattenSeq(Said(key, d))
  BY SaidType, FromEnds
<1>2. FlattenSeq(Said(key, d)) \in Seq(Item)
  BY SaidType, FlattenType
<1>3. Leaves(FlattenSeq(Said(key, d))) \in Seq(Item)
  BY <1>2, LeavesLow
<1>4. <<>> \o Leaves(FlattenSeq(Said(key, d))) = Leaves(FlattenSeq(Said(key, d)))
  BY <1>3, ConcatEmptySeq
<1>5. Left(key, d, 1, <<>>) = Leaves(FlattenSeq(Said(key, d)))
  BY <1>1, Zenon DEF Left
<1>6. <<>> \in Seq(Item) /\ DOMAIN <<>> = {}
  BY EmptySeq
<1>7. Split(key, d, 1, <<>>, <<>>)
  BY <1>4, <1>5, <1>6, Zenon DEF Split
<1>8. IsFlattened(<<>>, <<>>)
  <2>1. DOMAIN <<>> = {<<>>[i].path : i \in DOMAIN <<>>}
    BY <1>6
  <2>2. \A i \in DOMAIN <<>> : FALSE
    BY <1>6
  <2> QED
    BY <2>1, <2>2, Zenon DEF IsFlattened
<1> QED
  BY <1>7, <1>8, Zenon DEF Progress

(* A map that is not touched goes with any stack that has the same left. *)
LEMMA ProgressKept ==
  ASSUME NEW key, NEW d, NEW k, NEW st, NEW k2, NEW st2, NEW map, Progress(key, d, k, st, map),
         Left(key, d, k2, st2) = Left(key, d, k, st)
  PROVE  Progress(key, d, k2, st2, map)
BY Zenon DEF Progress, Split

Written(map, x) == [p \in DOMAIN map \cup {x.path} |-> IF p = x.path THEN x.value.v ELSE map[p]]

(* One more leaf in the map is one more leaf among those it is made of. *)
LEMMA PutFlattened ==
  ASSUME NEW W \in Seq(Item), NEW x \in Item, NEW map, IsFlattened(map, W)
  PROVE  IsFlattened(Written(map, x), Append(W, x))
<1> DEFINE n == Len(W)
           W2 == Append(W, x)
           q == x.path
           v == x.value.v
           map2 == [p \in DOMAIN map \cup {q} |-> IF p = q THEN v ELSE map[p]]
<1>1. n \in Nat /\ DOMAIN W = 1..n
  OBVIOUS
<1>2. DOMAIN W2 = 1..n + 1 /\ W2[n + 1] = x /\ \A i \in 1..n : W2[i] = W[i]
  OBVIOUS
<1>3. DOMAIN map = {W[i].path : i \in 1..n}
      /\ \A i \in 1..n : \/ map[W[i].path] = W[i].value.v
                         \/ \E j \in 1..n : j > i /\ W[j].path = W[i].path
  BY <1>1, Zenon DEF IsFlattened
<1>4. DOMAIN map2 = DOMAIN map \cup {q}
  OBVIOUS
<1>5. \A p \in DOMAIN map \cup {q} : map2[p] = IF p = q THEN v ELSE map[p]
  OBVIOUS
<1> HIDE DEF n, W2, map2
<1>6. n + 1 \in 1..n + 1 /\ (\A i \in 1..n : i \in 1..n + 1 /\ n + 1 > i)
      /\ \A i \in 1..n + 1 : i = n + 1 \/ i \in 1..n
  BY <1>1
<1>7. DOMAIN map2 = {W2[i].path : i \in 1..n + 1}
  BY <1>2, <1>3, <1>4, <1>6 DEF q
<1>8. ASSUME NEW i \in 1..n + 1
      PROVE  \/ map2[W2[i].path] = W2[i].value.v
             \/ \E j \in 1..n + 1 : j > i /\ W2[j].path = W2[i].path
  <2>1. CASE i = n + 1
    <3>1. q \in DOMAIN map \cup {q}
      OBVIOUS
    <3>2. map2[q] = v
      BY <1>5, <3>1, Zenon
    <3> QED
      BY <1>2, <2>1, <3>2, Zenon DEF q, v
  <2>2. CASE i \in 1..n /\ W[i].path = q
    BY <1>2, <1>6, <2>2, Zenon DEF q
  <2>3. CASE i \in 1..n /\ W[i].path # q
    <3>1. W[i].path \in DOMAIN map
      BY <1>3, <2>3
    <3>2. map2[W[i].path] = map[W[i].path]
      BY <1>5, <2>3, <3>1
    <3>3. W2[i] = W[i] /\ map2[W2[i].path] = map[W[i].path]
      BY <1>2, <2>3, <3>2, Zenon
    <3>4. CASE map[W[i].path] = W[i].value.v
      BY <3>3, <3>4, Zenon
    <3>5. CASE \E j \in 1..n : j > i /\ W[j].path = W[i].path
      <4>1. PICK j \in 1..n : j > i /\ W[j].path = W[i].path
        BY <3>5
      <4>2. j \in 1..n + 1 /\ W2[j] = W[j]
        BY <1>2, <1>6, Zenon
      <4> QED
        BY <3>3, <4>1, <4>2, Zenon
    <3> QED
      BY <1>3, <2>3, <3>4, <3>5, Zenon
  <2> QED
    BY <1>6, <2>1, <2>2, <2>3, Zenon
<1>9. IsFlattened(map2, W2)
  BY <1>2, <1>7, <1>8, Zenon DEF IsFlattened
<1> QED
  BY <1>9 DEF map2, W2, q, v, Written

(* A leaf moves from what is left into the map. *)
LEMMA ProgressLeaf ==
  ASSUME NEW key, NEW d, NEW k, NEW st, NEW st2, NEW map, Progress(key, d, k, st, map),
         NEW x \in Item, x.value.kind = "leaf",
         Left(key, d, k, st) = <<x>> \o Left(key, d, k, st2), Left(key, d, k, st2) \in Seq(Item)
  PROVE  Progress(key, d, k, st2, Written(map, x))
<1>1. PICK W : Split(key, d, k, st, W) /\ IsFlattened(map, W)
  BY Zenon DEF Progress
<1> DEFINE L == Left(key, d, k, st2)
           all == Leaves(FlattenSeq(Said(key, d)))
           leaf(y) == y.value.kind = "leaf"
<1>2. W \in Seq(Item) /\ L \in Seq(Item) /\ W \o (<<x>> \o L) = all
  BY <1>1, Zenon DEF Split
<1>3. (\A i \in DOMAIN W : leaf(W[i])) /\ leaf(x)
  BY <1>1, Zenon DEF Split
<1> HIDE DEF L, all, leaf
<1>4. /\ Append(W, x) = W \o <<x>> /\ <<x>> \in Seq(Item) /\ Append(W, x) \in Seq(Item)
      /\ DOMAIN Append(W, x) = 1..Len(W) + 1 /\ DOMAIN W = 1..Len(W) /\ Len(W) \in Nat
      /\ Append(W, x)[Len(W) + 1] = x /\ \A i \in 1..Len(W) : Append(W, x)[i] = W[i]
  BY <1>2
<1>5. Append(W, x) \o L = all
  <2>1. (W \o <<x>>) \o L = W \o (<<x>> \o L)
    BY <1>2, <1>4, AssociateThree
  <2> QED
    BY <1>2, <1>4, <2>1, Zenon
<1>6. \A i \in DOMAIN Append(W, x) : leaf(Append(W, x)[i])
  <2>1. \A i \in 1..Len(W) + 1 : i = Len(W) + 1 \/ i \in 1..Len(W)
    BY <1>4
  <2> QED
    BY <1>3, <1>4, <2>1, Zenon
<1>7. Split(key, d, k, st2, Append(W, x))
  BY <1>4, <1>5, <1>6, Zenon DEF Split, L, all, leaf
<1>8. IsFlattened(Written(map, x), Append(W, x))
  BY <1>1, <1>2, PutFlattened
<1> QED
  BY <1>7, <1>8, Zenon DEF Progress

(* An invalid value on top is one of the leaves. *)
LEMMA InvalidIsSaid ==
  ASSUME NEW key, NEW d, NEW k, NEW st, NEW map, Progress(key, d, k, st, map),
         NEW x \in Item, NEW L \in Seq(Item), Left(key, d, k, st) = <<x>> \o L
  PROVE  \E i \in DOMAIN Leaves(FlattenSeq(Said(key, d))) : Leaves(FlattenSeq(Said(key, d)))[i] = x
<1>1. PICK W : Split(key, d, k, st, W)
  BY Zenon DEF Progress
<1> DEFINE all == Leaves(FlattenSeq(Said(key, d)))
<1>2. W \in Seq(Item) /\ W \o (<<x>> \o L) = all
  BY <1>1, Zenon DEF Split
<1> HIDE DEF all
<1>3. <<x>> \o L \in Seq(Item) /\ Len(<<x>> \o L) = Len(L) + 1 /\ (<<x>> \o L)[1] = x
  OBVIOUS
<1> DEFINE T == <<x>> \o L
<1>4. T \in Seq(Item) /\ Len(T) = Len(L) + 1 /\ T[1] = x /\ Len(L) \in Nat /\ Len(W) \in Nat
  BY <1>2, <1>3
<1>5. W \o T = all
  BY <1>2
<1> HIDE DEF T
<1>6. Len(W) + 1 \in DOMAIN (W \o T) /\ (W \o T)[Len(W) + 1] = T[1]
  BY <1>2, <1>4
<1> QED
  BY <1>4, <1>5, <1>6, Zenon DEF all

(* At the end the map is made of all leaves, and no other value was met. *)
LEMMA ProgressEnd ==
  ASSUME NEW d \in Docs, NEW key \in Maps, NEW map, Progress(key, d, Len(d.members) + 1, <<>>, map)
  PROVE  /\ IsFlattened(map, Leaves(FlattenSeq(Said(key, d))))
         /\ \A i \in DOMAIN Leaves(FlattenSeq(Said(key, d))) : Leaves(FlattenSeq(Said(key, d)))[i].value.kind = "leaf"
<1>1. PICK W : Split(key, d, Len(d.members) + 1, <<>>, W) /\ IsFlattened(map, W)
  BY Zenon DEF Progress
<1>2. From(Said(key, d), Len(d.members) + 1) = <<>>
  BY SaidType, FromEnds
<1>3. Left(key, d, Len(d.members) + 1, <<>>) = <<>>
  BY <1>2, LeavesEmpty, Zenon DEF Left
<1>4. W \in Seq(Item) /\ W \o <<>> = Leaves(FlattenSeq(Said(key, d)))
  BY <1>1, <1>3, Zenon DEF Split
<1>5. W \o <<>> = W
  BY <1>4, ConcatEmptySeq
<1>6. W = Leaves(FlattenSeq(Said(key, d)))
  BY <1>4, <1>5, Zenon
<1> QED
  BY <1>1, <1>6, Zenon DEF Split

-----------------------------------------------------------------------------
(* Types.                                                                  *)

(* The member that is decoded is one of the document, or the end. *)
Within == doc \in Docs /\ at \in 1..Len(doc.members) + 1

(* Objects are open within contexts and user only, and while they are, the *)
(* member is not passed.                                                   *)
Nested ==
  /\ stack \in Seq(Frames)
  /\ stack # <<>> => at \in 1..Len(doc.members) /\ Key \in Maps /\ Value.kind = "object"

Fields == {"timestamp", "contexts", "user", "exceptions"}

TypeInv == Within /\ Nested /\ DOMAIN ev = Fields

(* A member that has not been passed has a successor. *)
LEMMA Advance ==
  ASSUME Within, at <= Len(doc.members)
  PROVE  at \in 1..Len(doc.members) /\ at + 1 \in 1..Len(doc.members) + 1
<1>1. Len(doc.members) \in Nat
  BY DocMembers DEF Within
<1> QED
  BY <1>1 DEF Within

(* A stack that is not empty, by its top and what is beneath. *)
LEMMA StackIs ==
  ASSUME NEW st \in Seq(Frames), st # <<>>
  PROVE  /\ Front(st) \in Seq(Frames) /\ Last(st) \in Frames /\ st = Append(Front(st), Last(st))
         /\ Len(st) = Len(Front(st)) + 1 /\ Len(Front(st)) \in Nat
         /\ Len(st) = 1 <=> Front(st) = <<>>
         /\ Len(st) > 1 <=> Front(st) # <<>>
         /\ Front(st) = <<>> => st = <<Last(st)>> /\ st[1] = Last(st)
         /\ Front(st) # <<>> => Front(st)[1] = st[1]
<1>1. Len(st) \in Nat /\ Len(st) # 0
  BY EmptySeq
<1>2. Front(st) \in Seq(Frames) /\ Len(Front(st)) = Len(st) - 1
      /\ \A i \in 1..Len(st) - 1 : Front(st)[i] = st[i]
  <2>1. Front(st) = SubSeq(st, 1, Len(st) - 1)
    BY Zenon DEF Front
  <2> DEFINE n == Len(st) - 1
  <2>2. n \in 0..Len(st)
    BY <1>1
  <2>3. SubSeq(st, 1, n) \in Seq(Frames) /\ Len(SubSeq(st, 1, n)) = n /\ \A i \in 1..n : SubSeq(st, 1, n)[i] = st[i]
    <3> HIDE DEF n
    <3> QED
      BY <2>2
  <2> QED
    BY <2>1, <2>3, Zenon
<1>3. Last(st) \in Frames /\ Last(st) = st[Len(st)]
  BY <1>1 DEF Last
<1> DEFINE t == Front(st)
           f == Last(st)
           n == Len(st)
<1> HIDE DEF t, f
<1>4. t \in Seq(Frames) /\ Len(t) = n - 1 /\ f \in Frames /\ f = st[n] /\ \A i \in 1..n - 1 : t[i] = st[i]
  BY <1>2, <1>3 DEF t, f
<1>5. Append(t, f) \in Seq(Frames) /\ Len(Append(t, f)) = n /\ Append(t, f)[n] = f
      /\ \A i \in 1..n - 1 : Append(t, f)[i] = t[i]
  BY <1>1, <1>4
<1>6. \A i \in 1..n : Append(t, f)[i] = st[i]
  BY <1>1, <1>4, <1>5
<1>7. st = Append(t, f)
  BY <1>4, <1>5, <1>6, SeqEqual
<1>8. Len(t) \in Nat /\ (Len(t) = 0 <=> t = <<>>) /\ n = Len(t) + 1 /\ (n = 1 <=> Len(t) = 0)
      /\ (n > 1 <=> Len(t) # 0)
  BY <1>1, <1>4, EmptySeq
<1>9. t = <<>> => st = <<f>> /\ st[1] = f
  <2>1. Append(<<>>, f) = <<f>> /\ <<f>>[1] = f
    BY <1>4
  <2> QED
    BY <1>7, <2>1
<1>10. t # <<>> => t[1] = st[1]
  BY <1>1, <1>4, <1>8
<1>11. /\ t \in Seq(Frames) /\ f \in Frames /\ st = Append(t, f)
       /\ Len(st) = Len(t) + 1 /\ Len(t) \in Nat
       /\ Len(st) = 1 <=> t = <<>>
       /\ Len(st) > 1 <=> t # <<>>
       /\ t = <<>> => st = <<f>> /\ st[1] = f
       /\ t # <<>> => t[1] = st[1]
  BY <1>4, <1>7, <1>8, <1>9, <1>10, Zenon
<1> QED
  BY <1>11 DEF t, f

(* What the actions within objects find on the stack. *)
LEMMA TopIs ==
  ASSUME Nested, stack # <<>>, Top.rest # <<>>
  PROVE  /\ Beneath \in Seq(Frames) /\ Top \in Frames /\ stack = Append(Beneath, Top)
         /\ Rest = Pop(Top) /\ Pop(Top) \in Frames
         /\ Head(Top.rest) \in Members /\ Top.prefix \in Seq(Names) /\ Top.rest \in Seq(Members)
         /\ Append(Beneath, Rest) \in Seq(Frames) /\ Append(Beneath, Rest) # <<>>
         /\ Rest.rest = Tail(Top.rest)
<1>1. Beneath \in Seq(Frames) /\ Top \in Frames /\ stack = Append(Beneath, Top)
  BY StackIs, Zenon DEF Nested, Beneath, Top
<1>2. Rest = Pop(Top)
  BY Zenon DEF Rest, Pop
<1>3. /\ Pop(Top) \in Frames /\ Head(Top.rest) \in Members /\ Top.prefix \in Seq(Names)
      /\ Top.rest \in Seq(Members) /\ Pop(Top).rest = Tail(Top.rest)
  BY <1>1, PopIs
<1>4. Append(Beneath, Pop(Top)) \in Seq(Frames) /\ Append(Beneath, Pop(Top)) # <<>>
  BY <1>1, <1>3, AppendProperties, AppendIs
<1> QED
  BY <1>1, <1>2, <1>3, <1>4, Zenon

(* The frame of an object. *)
LEMMA InnerIs ==
  ASSUME NEW m \in Members, m.value.kind = "object", NEW prefix \in Seq(Names)
  PROVE  [rest |-> m.value.members, prefix |-> prefix] \in Frames
<1>1. m.value \in Values
  BY DEF Members
<1>2. m.value.members \in Seq(Members)
  BY <1>1, MembersOfObject
<1> QED
  BY <1>2 DEF Frames

(* Fail, and whatever else leaves the stack and the member alone. *)
LEMMA TypeStays ==
  ASSUME TypeInv, UNCHANGED <<doc, at, stack, ev>>
  PROVE  TypeInv'
BY Zenon DEF TypeInv, Within, Nested, Key, Value

(* Steps that pass a member. *)
LEMMA TypeAdvances ==
  ASSUME TypeInv, at <= Len(doc.members), at' = at + 1, UNCHANGED doc, stack' = <<>>, DOMAIN ev' = Fields
  PROVE  TypeInv'
<1>1. Within'
  BY Advance, Zenon DEF TypeInv, Within
<1>2. Nested'
  BY EmptySeq, Zenon DEF Nested
<1> QED
  BY <1>1, <1>2, Zenon DEF TypeInv

(* Steps within a member that is an object. *)
LEMMA TypeNests ==
  ASSUME TypeInv, UNCHANGED <<doc, at>>, at \in 1..Len(doc.members), Key \in Maps, Value.kind = "object",
         stack' \in Seq(Frames), DOMAIN ev' = Fields
  PROVE  TypeInv'
BY Zenon DEF TypeInv, Within, Nested, Key, Value

(* What Member finds. *)
LEMMA MemberIs ==
  ASSUME TypeInv, NEW key, Member(key)
  PROVE  /\ at \in 1..Len(doc.members) /\ at + 1 \in 1..Len(doc.members) + 1
         /\ stack = <<>> /\ Key = key /\ at <= Len(doc.members)
<1>1. Within /\ at <= Len(doc.members) /\ stack = <<>> /\ Key = key
  BY Zenon DEF Member, TypeInv
<1> QED
  BY <1>1, Advance

(* DecodeContexts and DecodeUser. *)
LEMMA OpenObjectTyped ==
  ASSUME TypeInv, NEW key \in Maps, OpenObject(key)
  PROVE  TypeInv'
<1>1. at \in 1..Len(doc.members) /\ Key = key /\ doc \in Docs
  BY MemberIs, Zenon DEF OpenObject, TypeInv, Within
<1>2. CASE Value.kind = "object"
  <2>1. stack' = <<[rest |-> Value.members, prefix |-> <<>>]>> /\ UNCHANGED <<doc, at, ev, pc>>
    BY <1>2, Zenon DEF OpenObject
  <2>2. <<[rest |-> Value.members, prefix |-> <<>>]>> \in Seq(Frames)
    BY <1>1, <1>2, LeftOfObject, Zenon DEF Key, Value
  <2>3. DOMAIN ev' = Fields
    BY <2>1, Zenon DEF TypeInv
  <2> QED
    BY <1>1, <1>2, <2>1, <2>2, <2>3, TypeNests, Zenon
<1>3. CASE Value.kind # "object"
  <2>1. UNCHANGED <<doc, at, stack, ev>>
    BY <1>3, Zenon DEF OpenObject, Fail
  <2> QED
    BY <2>1, TypeStays, Zenon
<1> QED
  BY <1>2, <1>3, Zenon

(* DecodeContext keeps the types. *)
LEMMA DecodeContextTyped ==
  ASSUME TypeInv, DecodeContext
  PROVE  TypeInv'
<1> DEFINE m == Head(Top.rest)
           inner == [rest |-> m.value.members, prefix |-> <<>>]
<1>1. stack # <<>> /\ Top.rest # <<>>
  <2>1. Len(stack) = 1 /\ Top.rest # <<>>
    BY Zenon DEF DecodeContext
  <2>2. Len(<<>>) # 1
    BY EmptySeq
  <2> QED
    BY <2>1, <2>2, Zenon
<1>2. at \in 1..Len(doc.members) /\ Key \in Maps /\ Value.kind = "object"
  BY <1>1, Zenon DEF TypeInv, Nested
<1>3. Rest \in Frames /\ m \in Members
  BY <1>1, TopIs, Zenon DEF TypeInv
<1>4. CASE UNCHANGED <<doc, at, stack, ev>>
  BY <1>4, TypeStays, Zenon
<1>5. CASE /\ m.value.kind = "object" /\ UNCHANGED <<doc, at, ev, pc>>
           /\ stack' = <<Rest>> \/ stack' = <<Rest, inner>>
  <2>1. inner \in Frames
    BY <1>3, <1>5, InnerIs, EmptySeq
  <2> HIDE DEF inner
  <2>2. <<Rest>> \in Seq(Frames) /\ <<Rest, inner>> \in Seq(Frames)
    BY <1>3, <2>1
  <2>3. stack' \in Seq(Frames)
    BY <1>5, <2>2, Zenon
  <2>4. DOMAIN ev' = Fields
    BY <1>5, Zenon DEF TypeInv
  <2> QED
    BY <1>2, <1>5, <2>3, <2>4, TypeNests, Zenon
<1> QED
  BY <1>4, <1>5, Zenon DEF DecodeContext, Fail

(* What InMap finds. *)
LEMMA InMapIs ==
  ASSUME TypeInv, NEW kind, InMap(kind)
  PROVE  /\ stack # <<>> /\ Top.rest # <<>> /\ at \in 1..Len(doc.members) /\ Key \in Maps /\ Value.kind = "object"
         /\ Head(Top.rest).value.kind = kind /\ pc = "event"
         /\ Beneath # <<>> \/ Key # "contexts"
<1>1. /\ stack # <<>> /\ Top.rest # <<>> /\ Head(Top.rest).value.kind = kind /\ pc = "event"
      /\ Key = "user" \/ Len(stack) > 1
  BY Zenon DEF InMap
<1>2. at \in 1..Len(doc.members) /\ Key \in Maps /\ Value.kind = "object"
  BY <1>1, Zenon DEF TypeInv, Nested
<1>3. Len(stack) > 1 => Beneath # <<>>
  BY <1>1, StackIs, Zenon DEF TypeInv, Nested, Beneath
<1>4. Key = "user" => Key # "contexts"
  OBVIOUS
<1> QED
  BY <1>1, <1>2, <1>3, <1>4, Zenon

(* DecodeLeaf keeps the types. *)
LEMMA DecodeLeafTyped ==
  ASSUME TypeInv, DecodeLeaf
  PROVE  TypeInv'
<1>1. stack # <<>> /\ Top.rest # <<>> /\ at \in 1..Len(doc.members) /\ Key \in Maps /\ Value.kind = "object"
  BY InMapIs, Zenon DEF DecodeLeaf
<1>2. stack' = Append(Beneath, Rest) /\ UNCHANGED <<doc, at, pc>>
  BY Zenon DEF DecodeLeaf
<1>3. DOMAIN ev' = Fields
  BY DEF DecodeLeaf, Put, TypeInv
<1>4. Append(Beneath, Rest) \in Seq(Frames)
  BY <1>1, TopIs, Zenon DEF TypeInv
<1> QED
  BY <1>1, <1>2, <1>3, <1>4, TypeNests, Zenon

(* The stack after DecodeNested. *)
LEMMA NestedStack ==
  ASSUME TypeInv, DecodeNested
  PROVE  Inner(Top) \in Frames /\ stack' = Append(Append(Beneath, Pop(Top)), Inner(Top))
<1> DEFINE m == Head(Top.rest)
           path == Top.prefix \o m.key
           inner == [rest |-> m.value.members, prefix |-> path]
<1>1. stack # <<>> /\ Top.rest # <<>> /\ m.value.kind = "object"
  BY InMapIs, Zenon DEF DecodeNested
<1>2. /\ m \in Members /\ Top.prefix \in Seq(Names) /\ Rest = Pop(Top)
      /\ Append(Beneath, Rest) \in Seq(Frames)
  BY <1>1, TopIs, Zenon DEF TypeInv
<1>3. path \in Seq(Names)
  <2>1. m.key \in Seq(Names)
    BY <1>2 DEF Members
  <2> QED
    BY <1>2, <2>1, ConcatProperties
<1>4. stack' = Append(Beneath, Rest) \o <<inner>>
  BY Zenon DEF DecodeNested, Path
<1> HIDE DEF path, m
<1>5. inner \in Frames
  BY <1>1, <1>2, <1>3, InnerIs
<1> DEFINE st == Append(Beneath, Rest)
<1> HIDE DEF inner, st
<1>6. st \in Seq(Frames)
  BY <1>2, Zenon DEF st
<1>7. st \o <<inner>> = Append(st, inner)
  BY <1>5, <1>6, AppendProperties
<1>8. stack' = Append(st, inner)
  BY <1>4, <1>7, Zenon DEF st
<1> QED
  <2>1. inner = Inner(Top)
    BY Zenon DEF inner, Inner, path, m
  <2> QED
    BY <1>2, <1>5, <1>8, <2>1, Zenon DEF st

(* DecodeNested keeps the types. *)
LEMMA DecodeNestedTyped ==
  ASSUME TypeInv, DecodeNested
  PROVE  TypeInv'
<1>1. stack # <<>> /\ Top.rest # <<>> /\ at \in 1..Len(doc.members) /\ Key \in Maps /\ Value.kind = "object"
  BY InMapIs, Zenon DEF DecodeNested
<1>2. UNCHANGED <<doc, at, ev, pc>>
  BY Zenon DEF DecodeNested
<1>3. DOMAIN ev' = Fields
  BY <1>2, Zenon DEF TypeInv
<1>4. Append(Beneath, Pop(Top)) \in Seq(Frames)
  BY <1>1, TopIs, Zenon DEF TypeInv
<1>5. stack' \in Seq(Frames)
  BY <1>4, NestedStack, AppendProperties
<1> QED
  BY <1>1, <1>2, <1>3, <1>5, TypeNests, Zenon

(* Close keeps the types. *)
LEMMA CloseTyped ==
  ASSUME TypeInv, Close
  PROVE  TypeInv'
<1>1. stack # <<>> /\ stack' = Beneath /\ UNCHANGED <<doc, ev, pc>> /\ at' = IF Len(stack) = 1 THEN at + 1 ELSE at
  BY Zenon DEF Close
<1>2. at \in 1..Len(doc.members) /\ Key \in Maps /\ Value.kind = "object" /\ Within
  BY <1>1, Zenon DEF TypeInv, Nested
<1>3. Beneath \in Seq(Frames) /\ (Len(stack) = 1 <=> Beneath = <<>>)
  BY <1>1, StackIs, Zenon DEF TypeInv, Nested, Beneath
<1>4. DOMAIN ev' = Fields
  BY <1>1, Zenon DEF TypeInv
<1>5. CASE Len(stack) = 1
  <2>1. at <= Len(doc.members)
    <3>1. Len(doc.members) \in Nat
      BY <1>2, DocMembers DEF Within
    <3> QED
      BY <1>2, <3>1
  <2> QED
    BY <1>1, <1>3, <1>4, <1>5, <2>1, TypeAdvances, Zenon
<1>6. CASE Len(stack) # 1
  BY <1>1, <1>2, <1>3, <1>4, <1>6, TypeNests, Zenon
<1> QED
  BY <1>5, <1>6, Zenon

(* The actions that take nothing from the stack but a whole member.        *)
LEMMA PassTyped ==
  ASSUME TypeInv, DecodeTimestamp \/ DecodeException \/ DecodeOther
  PROVE  TypeInv'
<1>1. CASE UNCHANGED <<doc, at, stack, ev>>
  BY <1>1, TypeStays, Zenon
<1>2. CASE \E key : Member(key) /\ at' = at + 1 /\ UNCHANGED <<doc, stack>> /\ DOMAIN ev' = DOMAIN ev
  <2>1. at <= Len(doc.members) /\ stack = <<>>
    BY <1>2, Zenon DEF Member
  <2>2. DOMAIN ev' = Fields
    BY <1>2, Zenon DEF TypeInv
  <2> QED
    BY <1>2, <2>1, <2>2, TypeAdvances, Zenon
<1>3. CASE DecodeTimestamp
  <2>1. CASE (Value.kind = "number" /\ Value.fraction # <<>> /\ ~OutOfReach(Value)) \/ Value.kind = "date"
    <3>1. Member("timestamp") /\ at' = at + 1 /\ UNCHANGED <<doc, stack>> /\ DOMAIN ev' = DOMAIN ev
      BY <1>3, <2>1 DEF DecodeTimestamp
    <3> QED
      BY <1>2, <3>1, Zenon
  <2>2. CASE ~((Value.kind = "number" /\ Value.fraction # <<>> /\ ~OutOfReach(Value)) \/ Value.kind = "date")
    <3>1. Fail
      BY <1>3, <2>2 DEF DecodeTimestamp
    <3> QED
      BY <1>1, <3>1, Zenon DEF Fail
  <2> QED
    BY <2>1, <2>2, Zenon
<1>4. CASE DecodeException
  <2>1. CASE Value.form \in {"array", "object"}
    <3>1. Member("exception") /\ at' = at + 1 /\ UNCHANGED <<doc, stack>> /\ DOMAIN ev' = DOMAIN ev
      BY <1>4, <2>1 DEF DecodeException
    <3> QED
      BY <1>2, <3>1, Zenon
  <2>2. CASE Value.form \notin {"array", "object"}
    <3>1. Fail
      BY <1>4, <2>2, Zenon DEF DecodeException
    <3> QED
      BY <1>1, <3>1, Zenon DEF Fail
  <2> QED
    BY <2>1, <2>2, Zenon
<1>5. CASE DecodeOther
  <2>1. CASE Value.kind # "invalid"
    <3>1. Member("other") /\ at' = at + 1 /\ UNCHANGED <<doc, stack>> /\ DOMAIN ev' = DOMAIN ev
      BY <1>5, <2>1, Zenon DEF DecodeOther
    <3> QED
      BY <1>2, <3>1, Zenon
  <2>2. CASE Value.kind = "invalid"
    BY <1>1, <1>5, <2>2, Zenon DEF DecodeOther, Fail
  <2> QED
    BY <2>1, <2>2, Zenon
<1> QED
  BY <1>3, <1>4, <1>5, Zenon

(* Every step keeps the types. *)
LEMMA NextTyped ==
  ASSUME TypeInv, [Next]_vars
  PROVE  TypeInv'
<1>1. CASE UNCHANGED <<doc, at, stack, ev>>
  BY <1>1, TypeStays, Zenon
<1>2. CASE DecodeHeader \/ Finish \/ Returned \/ DecodeInvalid \/ UNCHANGED vars
  BY <1>1, <1>2, Zenon DEF DecodeHeader, Finish, Returned, DecodeInvalid, Fail, vars
<1>3. CASE DecodeTimestamp \/ DecodeException \/ DecodeOther
  BY <1>3, PassTyped, Zenon
<1>4. CASE DecodeContexts \/ DecodeUser
  <2>1. "contexts" \in Maps /\ "user" \in Maps
    BY DEF Maps
  <2> QED
    BY <1>4, <2>1, OpenObjectTyped, Zenon DEF DecodeContexts, DecodeUser
<1>5. CASE DecodeContext
  BY <1>5, DecodeContextTyped, Zenon
<1>6. CASE DecodeLeaf
  BY <1>6, DecodeLeafTyped, Zenon
<1>7. CASE DecodeNested
  BY <1>7, DecodeNestedTyped, Zenon
<1>8. CASE Close
  BY <1>8, CloseTyped, Zenon
<1> QED
  BY <1>2, <1>3, <1>4, <1>5, <1>6, <1>7, <1>8, Zenon DEF Next

(* The types at the beginning. *)
LEMMA InitTyped == Init => TypeInv
<1> SUFFICES ASSUME Init
             PROVE  TypeInv
  OBVIOUS
<1>1. doc \in Docs /\ at = 1 /\ stack = <<>> /\ ev = NoEvent
  BY Zenon DEF Init
<1>2. Within
  <2>1. Len(doc.members) \in Nat
    BY <1>1, DocMembers
  <2>2. 1 \in 1..Len(doc.members) + 1
    BY <2>1
  <2> QED
    BY <1>1, <2>2, Zenon DEF Within
<1>3. Nested
  BY <1>1, EmptySeq, Zenon DEF Nested
<1>4. DOMAIN ev = Fields
  BY <1>1 DEF NoEvent, Fields
<1> QED
  BY <1>2, <1>3, <1>4, Zenon DEF TypeInv

-----------------------------------------------------------------------------
(* The phases of Decode.                                                   *)
Busy ==
  \/ DecodeTimestamp \/ DecodeException \/ DecodeOther
  \/ DecodeContexts \/ DecodeUser \/ DecodeContext
  \/ DecodeLeaf \/ DecodeNested \/ DecodeInvalid \/ Close

(* The steps on a document. *)
LEMMA BusyIs ==
  ASSUME Busy
  PROVE  pc = "event" /\ doc' = doc /\ pc' \in {"event", "error"}
<1>1. pc = "event"
  BY Zenon DEF Busy, DecodeTimestamp, DecodeException, DecodeOther, DecodeContexts, DecodeUser, OpenObject,
       DecodeContext, DecodeLeaf, DecodeNested, DecodeInvalid, Close, InMap, Member
<1>2. CASE Fail
  BY <1>1, <1>2, Zenon DEF Fail
<1>3. CASE UNCHANGED <<doc, pc>>
  BY <1>1, <1>3, Zenon
<1>4. CASE DecodeTimestamp
  BY <1>1, <1>4 DEF DecodeTimestamp, Fail
<1>5. CASE DecodeException \/ DecodeContexts \/ DecodeUser \/ DecodeContext \/ DecodeInvalid \/ DecodeOther
  BY <1>2, <1>3, <1>5, Zenon DEF DecodeException, DecodeContexts, DecodeUser, OpenObject, DecodeContext, DecodeInvalid,
       DecodeOther
<1>6. CASE DecodeLeaf \/ DecodeNested \/ Close
  BY <1>3, <1>6, Zenon DEF DecodeLeaf, DecodeNested, Close
<1> QED
  BY <1>4, <1>5, <1>6, Zenon DEF Busy

(* All steps, by phase. *)
LEMMA NextIs ==
  ASSUME [Next]_vars
  PROVE  DecodeHeader \/ Busy \/ Finish \/ UNCHANGED vars
BY Zenon DEF Next, Busy, Returned

(* What is known of the document and of the event in each phase. *)
Phases ==
  /\ pc = "header" => at = 1 /\ stack = <<>> /\ ev = NoEvent
  /\ pc = "none" => doc.type \notin {"event", "invalid"} /\ ev = NoEvent
  /\ pc \in {"event", "ok"} => doc.type = "event"
  /\ pc = "ok" => at = Len(doc.members) + 1 /\ stack = <<>>

(* The first phase. *)
LEMMA InitPhases == Init => Phases
BY DEF Init, Phases

(* Finish comes after the last member. *)
LEMMA FinishIs ==
  ASSUME TypeInv, Finish
  PROVE  /\ pc = "event" /\ stack = <<>> /\ at = Len(doc.members) + 1 /\ pc' = "ok"
         /\ UNCHANGED <<doc, at, stack, ev>>
<1>1. at > Len(doc.members) /\ at \in 1..Len(doc.members) + 1 /\ doc \in Docs
  BY Zenon DEF Finish, TypeInv, Within
<1>2. Len(doc.members) \in Nat
  BY <1>1, DocMembers
<1>3. at = Len(doc.members) + 1
  BY <1>1, <1>2
<1> QED
  BY <1>3, Zenon DEF Finish

(* Every step keeps the phases. *)
LEMMA NextPhases ==
  ASSUME TypeInv, Phases, [Next]_vars
  PROVE  Phases'
<1>1. CASE DecodeHeader
  BY <1>1 DEF DecodeHeader, Phases
<1>2. CASE Busy
  BY <1>2, BusyIs DEF Phases
<1>3. CASE Finish
  <2>1. /\ pc = "event" /\ stack = <<>> /\ at = Len(doc.members) + 1 /\ pc' = "ok"
        /\ UNCHANGED <<doc, at, stack, ev>>
    BY <1>3, FinishIs
  <2> QED
    BY <2>1 DEF Phases
<1>4. CASE UNCHANGED vars
  BY <1>4, Zenon DEF Phases, vars
<1> QED
  BY <1>1, <1>2, <1>3, <1>4, NextIs, Zenon

-----------------------------------------------------------------------------
(* The maps.                                                               *)

(* What is in the maps and what is left are together what the document     *)
(* says.                                                                   *)
Flattening ==
  pc \in {"event", "ok"} => \A key \in Maps : Progress(key, doc, at, stack, ev[key])

(* A step that adds to no map takes nothing from what is left. *)
LEMMA FlatStays ==
  ASSUME Flattening, pc = "event", doc' = doc, NEW key \in Maps, ev'[key] = ev[key],
         Left(key, doc, at', stack') = Left(key, doc, at, stack)
  PROVE  Progress(key, doc, at, stack, ev[key])'
<1>1. Progress(key, doc, at, stack, ev[key])
  BY DEF Flattening
<1>2. Progress(key, doc, at', stack', ev[key])
  BY <1>1, ProgressKept, Zenon
<1> QED
  BY <1>2, Zenon

(* DecodeHeader: all of the document is left. *)
LEMMA HeaderFlattens ==
  ASSUME TypeInv, Phases, DecodeHeader
  PROVE  Flattening'
<1>1. pc = "header" /\ UNCHANGED <<doc, at, stack, ev>>
  BY Zenon DEF DecodeHeader
<1>2. at = 1 /\ stack = <<>> /\ ev = NoEvent /\ doc \in Docs
  BY <1>1, Zenon DEF Phases, TypeInv, Within
<1>3. ASSUME NEW key \in Maps
      PROVE  Progress(key, doc, at, stack, ev[key])'
  <2>1. ev[key] = <<>>
    BY <1>2 DEF Maps, NoEvent
  <2>2. Progress(key, doc, 1, <<>>, <<>>)
    BY <1>2, ProgressStart
  <2> QED
    BY <1>1, <1>2, <2>1, <2>2, Zenon
<1> QED
  BY <1>3, Zenon DEF Flattening

(* DecodeOther, where it does not fail. *)
LEMMA Passes ==
  ASSUME DecodeOther, pc' = "event"
  PROVE  Member("other") /\ at' = at + 1 /\ UNCHANGED <<doc, stack, ev>> /\ Value.kind # "invalid"
BY DEF DecodeOther, Fail

(* Members that say nothing about a map. *)
LEMMA PassFlattens ==
  ASSUME TypeInv, Flattening, pc = "event", DecodeTimestamp \/ DecodeException \/ DecodeOther, pc' = "event"
  PROVE  Flattening'
<1>1. ASSUME NEW key \in Maps
      PROVE  Progress(key, doc, at, stack, ev[key])'
  <2>1. /\ at' = at + 1 /\ UNCHANGED <<doc, stack>> /\ ev'[key] = ev[key]
        /\ \E other \in {"timestamp", "exception", "other"} : Member(other)
    <3>1. CASE DecodeTimestamp
      BY <3>1 DEF DecodeTimestamp, Fail, Maps, TypeInv, Fields
    <3>2. CASE DecodeException
      <4> DEFINE seen == ev.exceptions \o [i \in DOMAIN Value.values |-> [id     |-> PlusOne(Value.values[i].id),
                                                      parent |-> PlusOne(Value.values[i].parent)]]
      <4>1. Member("exception") /\ at' = at + 1 /\ UNCHANGED <<doc, stack>> /\ ev' = [ev EXCEPT !.exceptions = seen]
        BY <3>2 DEF DecodeException, Fail
      <4> HIDE DEF seen
      <4> QED
        BY <4>1 DEF Maps, TypeInv, Fields
    <3>3. CASE DecodeOther
      BY <3>3, Passes, Zenon
    <3> QED
      BY <3>1, <3>2, <3>3, Zenon
  <2>2. at \in 1..Len(doc.members) /\ stack = <<>> /\ Key \in {"timestamp", "exception", "other"} /\ doc \in Docs
    BY <2>1, MemberIs, Zenon DEF TypeInv, Within
  <2>3. Key # key
    BY <2>2 DEF Maps
  <2>4. Left(key, doc, at + 1, <<>>) = Left(key, doc, at, <<>>)
    BY <2>2, <2>3, LeftOfOther, Zenon DEF Key
  <2> QED
    BY <2>1, <2>2, <2>4, FlatStays, Zenon
<1> QED
  BY <1>1, Zenon DEF Flattening

(* DecodeContexts and DecodeUser: what the member says is now on the stack. *)
LEMMA ObjectFlattens ==
  ASSUME TypeInv, Flattening, pc = "event", NEW own \in Maps, OpenObject(own), pc' = "event"
  PROVE  Flattening'
<1>1. Value.kind = "object" /\ stack' = <<[rest |-> Value.members, prefix |-> <<>>]>> /\ UNCHANGED <<doc, at, ev>>
  BY DEF OpenObject, Fail
<1>2. at \in 1..Len(doc.members) /\ stack = <<>> /\ Key = own /\ doc \in Docs
  BY MemberIs, Zenon DEF OpenObject, TypeInv, Within
<1>3. ASSUME NEW key \in Maps
      PROVE  Progress(key, doc, at, stack, ev[key])'
  <2>1. Left(key, doc, at, stack') = Left(key, doc, at, <<>>)
    BY <1>1, <1>2, LeftOfObject, Zenon DEF Key, Value
  <2> QED
    BY <1>1, <1>2, <2>1, FlatStays, Zenon
<1> QED
  BY <1>3, Zenon DEF Flattening

(* DecodeContext: a trace says nothing, any other context what is in it. *)
LEMMA ContextFlattens ==
  ASSUME TypeInv, Flattening, pc = "event", DecodeContext, pc' = "event"
  PROVE  Flattening'
<1> DEFINE m == Head(Top.rest)
           inner == [rest |-> m.value.members, prefix |-> <<>>]
<1>1. Len(stack) = 1 /\ Top.rest # <<>> /\ Key = "contexts"
  BY Zenon DEF DecodeContext
<1>2. stack # <<>>
  <2>1. Len(<<>>) # 1
    BY EmptySeq
  <2> QED
    BY <1>1, <2>1, Zenon
<1>3. stack = <<Top>> /\ Top \in Frames
  BY <1>1, <1>2, StackIs, Zenon DEF TypeInv, Nested, Top
<1>4. Rest = Pop(Top) /\ at \in 1..Len(doc.members) /\ doc \in Docs
  BY <1>1, <1>2, TopIs, Zenon DEF TypeInv, Nested, Within
<1>5. m.value.kind = "object" /\ UNCHANGED <<doc, at, ev>>
      /\ stack' = IF IsTrace(m) THEN <<Rest>> ELSE <<Rest, inner>>
  BY DEF DecodeContext, Fail
<1>6. /\ IsTrace(m) => Left("contexts", doc, at, <<Pop(Top)>>) = Left("contexts", doc, at, <<Top>>)
      /\ ~IsTrace(m) => Left("contexts", doc, at, <<Pop(Top), inner>>) = Left("contexts", doc, at, <<Top>>)
  BY <1>1, <1>3, <1>4, <1>5, LeftOfContext, Zenon DEF Key
<1>7. Left("contexts", doc, at, stack') = Left("contexts", doc, at, stack)
  BY <1>3, <1>4, <1>5, <1>6, Zenon
<1>8. ASSUME NEW key \in Maps
      PROVE  Progress(key, doc, at, stack, ev[key])'
  <2>1. CASE key = "contexts"
    BY <1>5, <1>7, <2>1, FlatStays, Zenon
  <2>2. CASE key # "contexts"
    <3>1. Left(key, doc, at, stack') = Left(key, doc, at, <<>>) /\ Left(key, doc, at, stack) = Left(key, doc, at, <<>>)
      BY <1>1, <1>4, <2>2, LeftOfOther, Zenon DEF Key
    <3> QED
      BY <1>5, <3>1, FlatStays, Zenon
  <2> QED
    BY <2>1, <2>2, Zenon
<1> QED
  BY <1>8, Zenon DEF Flattening

(* Only the map of the member that is decoded is touched. *)
LEMMA OthersFlatten ==
  ASSUME TypeInv, Flattening, pc = "event", doc' = doc, at' = at, stack # <<>>,
         NEW key \in Maps, key # Key, ev'[key] = ev[key]
  PROVE  Progress(key, doc, at, stack, ev[key])'
<1>1. at \in 1..Len(doc.members) /\ doc \in Docs
  BY Zenon DEF TypeInv, Nested, Within
<1>2. Left(key, doc, at, stack') = Left(key, doc, at, <<>>) /\ Left(key, doc, at, stack) = Left(key, doc, at, <<>>)
  BY <1>1, LeftOfOther, Zenon DEF Key
<1> QED
  BY <1>2, FlatStays, Zenon

(* DecodeLeaf: the path that it writes is that of the leaf. *)
LEMMA LeafFlattens ==
  ASSUME TypeInv, Flattening, pc = "event", DecodeLeaf
  PROVE  Flattening'
<1> DEFINE m == Head(Top.rest)
           x == ItemOf(m, Top.prefix)
<1>1. /\ stack # <<>> /\ Top.rest # <<>> /\ at \in 1..Len(doc.members) /\ Key \in Maps
      /\ m.value.kind = "leaf"
      /\ Beneath # <<>> \/ Key # "contexts"
  BY InMapIs, Zenon DEF DecodeLeaf
<1>2. /\ Beneath \in Seq(Frames) /\ Top \in Frames /\ stack = Append(Beneath, Top) /\ Rest = Pop(Top)
  BY <1>1, TopIs, Zenon DEF TypeInv
<1>3. doc \in Docs /\ doc' = doc /\ at' = at /\ stack' = Append(Beneath, Pop(Top))
  BY <1>2, Zenon DEF TypeInv, Within, DecodeLeaf
<1>4. x.path = Path /\ x.value = m.value
  BY Zenon DEF ItemOf, Path
<1>5. /\ ev' = [ev EXCEPT ![Key] = [p \in DOMAIN ev[Key] \cup {x.path} |->
                                     IF p = x.path THEN x.value.v ELSE ev[Key][p]]]
  <2>1. Put(Path, m.value.v)
    BY Zenon DEF DecodeLeaf
  <2> HIDE DEF x, m
  <2> QED
    BY <1>4, <2>1 DEF Put
<1>6. doc.members[at].key = Key
  BY Zenon DEF Key
<1>7. "leaf" # "object"
  OBVIOUS
<1>8. x \in Item /\ Left(Key, doc, at, Append(Beneath, Pop(Top))) \in Seq(Item)
  BY <1>1, <1>2, <1>3, <1>6, LeftOfHead, Zenon
<1>9. Left(Key, doc, at, Append(Beneath, Top)) = <<x>> \o Left(Key, doc, at, Append(Beneath, Pop(Top)))
  BY <1>1, <1>2, <1>3, <1>6, <1>7, LeftOfLeaf, Zenon
<1>10. x.value.kind = "leaf"
  BY <1>1, <1>4, Zenon
<1> HIDE DEF x, m
<1>11. Progress(Key, doc, at, stack, ev[Key])
  BY <1>1, Zenon DEF Flattening
<1> DEFINE map == Written(ev[Key], x)
<1>12. Progress(Key, doc, at, stack', map)
  BY <1>2, <1>3, <1>8, <1>9, <1>10, <1>11, ProgressLeaf, Zenon
<1>13. Key \in DOMAIN ev
  BY <1>1 DEF TypeInv, Fields, Maps
<1>14. ev' = [ev EXCEPT ![Key] = map]
  BY <1>5 DEF Written
<1> HIDE DEF map
<1>15. ev'[Key] = map /\ \A key \in Maps : key # Key => ev'[key] = ev[key]
  <2>1. \A key \in Maps : key \in DOMAIN ev
    BY DEF TypeInv, Fields, Maps
  <2> QED
    BY <1>13, <1>14, <2>1
<1>16. ASSUME NEW key \in Maps
       PROVE  Progress(key, doc, at, stack, ev[key])'
  <2>1. CASE key = Key
    BY <1>3, <1>12, <1>15, <2>1, Zenon
  <2>2. CASE key # Key
    BY <1>1, <1>3, <1>15, <2>2, OthersFlatten, Zenon
  <2> QED
    BY <2>1, <2>2, Zenon
<1> QED
  BY <1>16, Zenon DEF Flattening

(* DecodeNested: the members of the object come before the rest. *)
LEMMA NestedFlattens ==
  ASSUME TypeInv, Flattening, pc = "event", DecodeNested
  PROVE  Flattening'
<1> DEFINE m == Head(Top.rest)
<1>1. /\ stack # <<>> /\ Top.rest # <<>> /\ at \in 1..Len(doc.members) /\ Key \in Maps
      /\ m.value.kind = "object"
      /\ Beneath # <<>> \/ Key # "contexts"
  BY InMapIs, Zenon DEF DecodeNested
<1>2. /\ Beneath \in Seq(Frames) /\ Top \in Frames /\ stack = Append(Beneath, Top)
  BY <1>1, TopIs, Zenon DEF TypeInv
<1>3. doc \in Docs /\ doc' = doc /\ at' = at /\ ev' = ev
  BY Zenon DEF TypeInv, Within, DecodeNested
<1>4. stack' = Append(Append(Beneath, Pop(Top)), Inner(Top))
  BY NestedStack
<1>5. doc.members[at].key = Key
  BY Zenon DEF Key
<1>6. Left(Key, doc, at, Append(Append(Beneath, Pop(Top)), Inner(Top))) = Left(Key, doc, at, Append(Beneath, Top))
  <2>1. Top.rest # <<>> /\ Head(Top.rest).value.kind = "object"
    BY <1>1
  <2>2. ASSUME NEW key \in Maps, doc.members[at].key = key, Beneath # <<>> \/ key # "contexts"
        PROVE  Left(key, doc, at, Append(Append(Beneath, Pop(Top)), Inner(Top))) = Left(key, doc, at, Append(Beneath, Top))
    <3>1. doc \in Docs /\ at \in 1..Len(doc.members) /\ Beneath \in Seq(Frames) /\ Top \in Frames
      BY <1>1, <1>2, <1>3, Zenon
    <3> QED
      BY <2>1, <2>2, <3>1, LeftOfNested, ZenonT(60)
  <2>3. Key \in Maps /\ (Beneath # <<>> \/ Key # "contexts")
    BY <1>1, Zenon
  <2> QED
    BY <1>5, <2>2, <2>3, Zenon
<1>7. ASSUME NEW key \in Maps
      PROVE  Progress(key, doc, at, stack, ev[key])'
  <2>1. CASE key = Key
    BY <1>2, <1>3, <1>4, <1>6, <2>1, FlatStays, Zenon
  <2>2. CASE key # Key
    BY <1>1, <1>3, <2>2, OthersFlatten, Zenon
  <2> QED
    BY <2>1, <2>2, Zenon
<1> QED
  BY <1>7, Zenon DEF Flattening

(* Close: nothing of the object is left. *)
LEMMA CloseFlattens ==
  ASSUME TypeInv, Flattening, pc = "event", Close
  PROVE  Flattening'
<1>1. stack # <<>> /\ Top.rest = <<>> /\ stack' = Beneath /\ UNCHANGED <<doc, ev, pc>>
      /\ at' = IF Len(stack) = 1 THEN at + 1 ELSE at
  BY Zenon DEF Close
<1>2. at \in 1..Len(doc.members) /\ doc \in Docs
  BY <1>1, Zenon DEF TypeInv, Nested, Within
<1>3. /\ Beneath \in Seq(Frames) /\ Top \in Frames /\ stack = Append(Beneath, Top)
      /\ Len(stack) = 1 <=> Beneath = <<>>
  BY <1>1, StackIs, Zenon DEF TypeInv, Nested, Beneath, Top
<1>4. at' = IF Beneath = <<>> THEN at + 1 ELSE at
  BY <1>1, <1>3, Zenon
<1>5. ASSUME NEW key \in Maps
      PROVE  Progress(key, doc, at, stack, ev[key])'
  <2>1. Left(key, doc, at, Append(Beneath, Top)) = Left(key, doc, IF Beneath = <<>> THEN at + 1 ELSE at, Beneath)
    BY <1>1, <1>2, <1>3, LeftOfEnd, Zenon
  <2> QED
    BY <1>1, <1>3, <1>4, <2>1, FlatStays, Zenon
<1> QED
  BY <1>5, Zenon DEF Flattening

(* Every step keeps the maps and what is left in step. *)
LEMMA NextFlattens ==
  ASSUME TypeInv, Phases, Flattening, [Next]_vars
  PROVE  Flattening'
<1>1. CASE DecodeHeader
  BY <1>1, HeaderFlattens
<1>2. CASE Busy
  <2>1. pc = "event" /\ pc' \in {"event", "error"}
    BY <1>2, BusyIs
  <2>2. CASE pc' = "error"
    BY <2>2 DEF Flattening
  <2>3. CASE pc' = "event"
    <3>1. CASE DecodeTimestamp \/ DecodeException \/ DecodeOther
      BY <2>1, <2>3, <3>1, PassFlattens, Zenon
    <3>2. CASE DecodeContexts \/ DecodeUser
      <4>1. "contexts" \in Maps /\ "user" \in Maps
        BY DEF Maps
      <4> QED
        BY <2>1, <2>3, <3>2, <4>1, ObjectFlattens, Zenon DEF DecodeContexts, DecodeUser
    <3>3. CASE DecodeContext
      BY <2>1, <2>3, <3>3, ContextFlattens, Zenon
    <3>4. CASE DecodeLeaf
      BY <2>1, <3>4, LeafFlattens, Zenon
    <3>5. CASE DecodeNested
      BY <2>1, <3>5, NestedFlattens, Zenon
    <3>6. CASE DecodeInvalid
      BY <2>3, <3>6 DEF DecodeInvalid, Fail
    <3>7. CASE Close
      BY <2>1, <3>7, CloseFlattens, Zenon
    <3> QED
      BY <1>2, <3>1, <3>2, <3>3, <3>4, <3>5, <3>6, <3>7, Zenon DEF Busy
  <2> QED
    BY <2>1, <2>2, <2>3
<1>3. CASE Finish
  <2>1. pc = "event" /\ UNCHANGED <<doc, at, stack, ev>>
    BY <1>3, FinishIs
  <2>2. \A key \in Maps : Progress(key, doc, at, stack, ev[key])
    BY <2>1 DEF Flattening
  <2> QED
    BY <2>1, <2>2, Zenon DEF Flattening
<1>4. CASE UNCHANGED vars
  BY <1>4, Zenon DEF Flattening, vars
<1> QED
  BY <1>1, <1>2, <1>3, <1>4, NextIs, Zenon

(* The leaves of the properties are those of the invariant. *)
LEMMA SaidByEach ==
  /\ ContextLeaves = Leaves(FlattenSeq(Said("contexts", doc)))
  /\ UserLeaves = Leaves(FlattenSeq(Said("user", doc)))
<1>1. \A v : Says("contexts", v) = ContextItems(v)
  BY Zenon DEF Says
<1>2. \A v : Says("user", v) = UserItems(v)
  <2>1. "user" # "contexts"
    OBVIOUS
  <2> QED
    BY <2>1, Zenon DEF Says
<1>3. Each("contexts", ContextItems) = FlattenSeq(Said("contexts", doc))
  BY <1>1, Zenon DEF Each, Said
<1>4. Each("user", UserItems) = FlattenSeq(Said("user", doc))
  BY <1>2, Zenon DEF Each, Said
<1> QED
  BY <1>3, <1>4, Zenon DEF ContextLeaves, UserLeaves

Whole(d) ==
  /\ \A i \in DOMAIN d.members : IsMember(d.members[i])
  /\ \A key \in Maps : \A i \in DOMAIN Leaves(FlattenSeq(Said(key, d))) :
       Leaves(FlattenSeq(Said(key, d)))[i].value.kind = "leaf"

(* WellFormed, by what each member says. *)
LEMMA WellFormedIsWhole == WellFormed <=> Whole(doc)
<1>1. \A key : key \in Maps <=> key = "contexts" \/ key = "user"
  BY DEF Maps
<1> QED
  BY <1>1, SaidByEach, Zenon DEF WellFormed, Whole

(* The maps at the end. *)
LEMMA EndIsFlattened ==
  ASSUME TypeInv, Phases, Flattening, pc = "ok"
  PROVE  /\ LastLeafWins
         /\ \A key \in Maps : \A i \in DOMAIN Leaves(FlattenSeq(Said(key, doc))) :
              Leaves(FlattenSeq(Said(key, doc)))[i].value.kind = "leaf"
<1>1. at = Len(doc.members) + 1 /\ stack = <<>> /\ doc \in Docs
  BY Zenon DEF Phases, TypeInv, Within
<1>2. \A key \in Maps : Progress(key, doc, at, stack, ev[key])
  BY DEF Flattening
<1>3. ASSUME NEW key \in Maps
      PROVE  /\ IsFlattened(ev[key], Leaves(FlattenSeq(Said(key, doc))))
             /\ \A i \in DOMAIN Leaves(FlattenSeq(Said(key, doc))) :
                  Leaves(FlattenSeq(Said(key, doc)))[i].value.kind = "leaf"
  <2>1. Progress(key, doc, Len(doc.members) + 1, <<>>, ev[key])
    BY <1>1, <1>2, Zenon
  <2> QED
    BY <1>1, <2>1, ProgressEnd, Zenon
<1>4. "contexts" \in Maps /\ "user" \in Maps
  BY DEF Maps
<1>5. IsFlattened(ev["contexts"], ContextLeaves) /\ IsFlattened(ev["user"], UserLeaves)
  BY <1>3, <1>4, SaidByEach, Zenon
<1>6. LastLeafWins
  BY <1>5 DEF LastLeafWins
<1> QED
  BY <1>3, <1>6, Zenon

-----------------------------------------------------------------------------
(* What is refused.                                                        *)
InContexts(all, rest) ==
  /\ \A i \in DOMAIN all : IsContext(all[i]) \/ \E j \in DOMAIN rest : rest[j] = all[i]
  /\ \A j \in DOMAIN rest : \E i \in DOMAIN all : all[i] = rest[j]

(* One context more is well formed. *)
LEMMA NextContext ==
  ASSUME NEW all, NEW rest \in Seq(Members), rest # <<>>, IsContext(Head(rest)), InContexts(all, rest)
  PROVE  InContexts(all, Tail(rest))
<1> DEFINE n == Len(rest)
           t == Tail(rest)
<1>1. n \in Nat /\ DOMAIN rest = 1..n /\ Head(rest) = rest[1]
  OBVIOUS
<1>2. t \in Seq(Members) /\ DOMAIN t = 1..n - 1 /\ \A j \in 1..n - 1 : t[j] = rest[j + 1]
  OBVIOUS
<1> HIDE DEF n, t
<1>3. /\ \A j \in 1..n : j = 1 \/ (j - 1 \in 1..n - 1 /\ (j - 1) + 1 = j)
      /\ \A j \in 1..n - 1 : j + 1 \in 1..n
  BY <1>1
<1>4. \A i \in DOMAIN all : IsContext(all[i]) \/ \E j \in DOMAIN t : t[j] = all[i]
  <2> TAKE i \in DOMAIN all
  <2>1. IsContext(all[i]) \/ \E j \in 1..n : rest[j] = all[i]
    BY <1>1, Zenon DEF InContexts
  <2>2. ASSUME NEW j \in 1..n, rest[j] = all[i]
        PROVE  IsContext(all[i]) \/ \E k \in DOMAIN t : t[k] = all[i]
    <3>1. CASE j = 1
      BY <1>1, <2>2, <3>1, Zenon
    <3>2. CASE j # 1
      <4>1. j - 1 \in 1..n - 1 /\ (j - 1) + 1 = j
        BY <1>3, <3>2, Zenon
      <4>2. t[j - 1] = rest[j]
        BY <1>2, <4>1, Zenon
      <4> QED
        BY <1>2, <2>2, <4>1, <4>2, Zenon
    <3> QED
      BY <3>1, <3>2
  <2> QED
    BY <2>1, <2>2, Zenon
<1>5. \A j \in DOMAIN t : \E i \in DOMAIN all : all[i] = t[j]
  <2> TAKE j \in DOMAIN t
  <2>1. j + 1 \in 1..n /\ t[j] = rest[j + 1]
    BY <1>2, <1>3, Zenon
  <2>2. \A k \in 1..n : \E i \in DOMAIN all : all[i] = rest[k]
    BY <1>1, Zenon DEF InContexts
  <2> QED
    BY <2>1, <2>2
<1> QED
  BY <1>4, <1>5, Zenon DEF InContexts, t

(* The members before this one are well formed, and of this one what was   *)
(* taken from the stack.                                                   *)
Reading ==
  pc \in {"event", "ok"} =>
    /\ \A i \in 1..at - 1 : IsMember(doc.members[i])
    /\ stack # <<>> /\ Key = "contexts" => InContexts(Value.members, stack[1].rest)

(* IsMember by the key of the member. *)
LEMMA MemberKinds ==
  ASSUME NEW m
  PROVE  /\ m.key = "timestamp" => (IsMember(m) <=> m.value.kind \in {"number", "exponent", "date"})
         /\ m.key = "exception" => (IsMember(m) <=> m.value.form # "invalid")
         /\ m.key = "contexts" => (IsMember(m) <=> /\ m.value.kind = "object"
                                                   /\ \A i \in DOMAIN m.value.members : IsContext(m.value.members[i]))
         /\ m.key = "user" => (IsMember(m) <=> m.value.kind = "object")
         /\ m.key = "other" => (IsMember(m) <=> m.value.kind # "invalid")
BY DEF IsMember

(* The member at is well formed and the next one is at its beginning. *)
LEMMA ReadAdvances ==
  ASSUME TypeInv, Reading, pc = "event", at \in 1..Len(doc.members), IsMember(doc.members[at]),
         doc' = doc, at' = at + 1, stack' = <<>>
  PROVE  Reading'
<1>1. at \in Nat
  <2>1. Len(doc.members) \in Nat
    BY DocMembers DEF TypeInv, Within
  <2> QED
    BY <2>1
<1>2. \A i \in 1..at' - 1 : i \in 1..at - 1 \/ i = at
  BY <1>1
<1>3. \A i \in 1..at - 1 : IsMember(doc.members[i])
  BY DEF Reading
<1>4. \A i \in 1..at' - 1 : IsMember(doc'.members[i])
  BY <1>2, <1>3, Zenon
<1> QED
  BY <1>4, Zenon DEF Reading

(* The object that is open at the bottom has not changed. *)
LEMMA ReadNests ==
  ASSUME TypeInv, Reading, pc = "event", doc' = doc, at' = at,
         Key = "contexts" => InContexts(Value.members, stack'[1].rest)
  PROVE  Reading'
<1>1. \A i \in 1..at - 1 : IsMember(doc.members[i])
  BY DEF Reading
<1> QED
  BY <1>1, Zenon DEF Reading, Key, Value

(* Members that are decoded in one step. *)
LEMMA PassReads ==
  ASSUME TypeInv, Reading, pc = "event", DecodeTimestamp \/ DecodeException \/ DecodeOther, pc' = "event"
  PROVE  Reading'
<1>1. ASSUME NEW key, Member(key), at' = at + 1, UNCHANGED <<doc, stack>>, IsMember(doc.members[at])
      PROVE  Reading'
  <2>1. at \in 1..Len(doc.members) /\ stack = <<>>
    BY <1>1, MemberIs, Zenon
  <2> QED
    BY <1>1, <2>1, ReadAdvances, Zenon
<1>2. \A key : Member(key) => doc.members[at].key = key
  BY Zenon DEF Member, Key
<1>3. CASE DecodeTimestamp
  <2>1. /\ Member("timestamp") /\ at' = at + 1 /\ UNCHANGED <<doc, stack>>
        /\ Value.kind \in {"number", "exponent", "date"}
    BY <1>3 DEF DecodeTimestamp, Fail
  <2>2. IsMember(doc.members[at])
    BY <1>2, <2>1, MemberKinds, Zenon DEF Value
  <2> QED
    BY <1>1, <2>1, <2>2, Zenon
<1>4. CASE DecodeException
  <2>1. /\ Member("exception") /\ at' = at + 1 /\ UNCHANGED <<doc, stack>>
        /\ Value.form \in {"array", "object"}
    BY <1>4 DEF DecodeException, Fail
  <2>2. Value.form # "invalid"
    BY <2>1
  <2>3. IsMember(doc.members[at])
    BY <1>2, <2>1, <2>2, MemberKinds, Zenon DEF Value
  <2> QED
    BY <1>1, <2>1, <2>3, Zenon
<1>5. CASE DecodeOther
  <2>1. Member("other") /\ at' = at + 1 /\ UNCHANGED <<doc, stack>> /\ Value.kind # "invalid"
    BY <1>5, Passes, Zenon
  <2>2. IsMember(doc.members[at])
    BY <1>2, <2>1, MemberKinds, Zenon DEF Value
  <2> QED
    BY <1>1, <2>1, <2>2, Zenon
<1> QED
  BY <1>3, <1>4, <1>5, Zenon

(* DecodeContexts and DecodeUser keep Reading. *)
LEMMA ObjectReads ==
  ASSUME TypeInv, Reading, pc = "event", NEW own \in Maps, OpenObject(own), pc' = "event"
  PROVE  Reading'
<1>1. stack' = <<[rest |-> Value.members, prefix |-> <<>>]>> /\ UNCHANGED <<doc, at, ev>>
  BY DEF OpenObject, Fail
<1>2. stack'[1].rest = Value.members
  <2> DEFINE frame == [rest |-> Value.members, prefix |-> <<>>]
  <2>1. frame.rest = Value.members
    BY Zenon
  <2> HIDE DEF frame
  <2>2. <<frame>>[1] = frame
    OBVIOUS
  <2>3. stack' = <<frame>>
    BY <1>1 DEF frame
  <2> QED
    BY <2>1, <2>2, <2>3, Zenon
<1>3. InContexts(Value.members, Value.members)
  BY Zenon DEF InContexts
<1> QED
  BY <1>1, <1>2, <1>3, ReadNests, Zenon

(* The stack of DecodeContext. *)
LEMMA BottomIs ==
  ASSUME TypeInv, DecodeContext
  PROVE  /\ stack = <<Top>> /\ stack[1] = Top /\ Top.rest # <<>> /\ Top.rest \in Seq(Members) /\ Rest.rest = Tail(Top.rest)
         /\ Rest \in Frames /\ Head(Top.rest) \in Members
         /\ at \in 1..Len(doc.members) /\ Key = "contexts" /\ stack # <<>> /\ pc = "event"
<1>1. Len(stack) = 1 /\ Top.rest # <<>> /\ Key = "contexts" /\ pc = "event"
  BY Zenon DEF DecodeContext
<1>2. stack # <<>>
  <2>1. Len(<<>>) # 1
    BY EmptySeq
  <2> QED
    BY <1>1, <2>1, Zenon
<1>3. stack = <<Top>> /\ stack[1] = Top
  BY <1>1, <1>2, StackIs, Zenon DEF TypeInv, Nested, Top
<1>4. /\ Top.rest \in Seq(Members) /\ Rest.rest = Tail(Top.rest) /\ Rest \in Frames
      /\ Head(Top.rest) \in Members
  BY <1>1, <1>2, TopIs, Zenon DEF TypeInv
<1> QED
  BY <1>1, <1>2, <1>3, <1>4, Zenon DEF TypeInv, Nested

(* DecodeContext has found a context. *)
LEMMA ContextReads ==
  ASSUME TypeInv, Reading, pc = "event", DecodeContext, pc' = "event"
  PROVE  Reading'
<1> DEFINE m == Head(Top.rest)
           inner == [rest |-> m.value.members, prefix |-> <<>>]
<1>1. /\ IsContext(m) /\ UNCHANGED <<doc, at>>
      /\ stack' = <<Rest>> \/ stack' = <<Rest, inner>>
  BY DEF DecodeContext, Fail, IsContext
<1>2. InContexts(Value.members, Top.rest)
  BY BottomIs, Zenon DEF Reading
<1>3. InContexts(Value.members, Tail(Top.rest))
  BY <1>1, <1>2, BottomIs, NextContext, Zenon
<1>4. stack'[1] = Rest
  <2> HIDE DEF inner
  <2>1. <<Rest>>[1] = Rest /\ <<Rest, inner>>[1] = Rest
    OBVIOUS
  <2> QED
    BY <1>1, <2>1, Zenon
<1>5. stack'[1].rest = Tail(Top.rest)
  BY <1>4, BottomIs, Zenon
<1> QED
  BY <1>1, <1>3, <1>5, ReadNests, Zenon

(* DecodeLeaf and DecodeNested leave the contexts on the stack. *)
LEMMA InMapReads ==
  ASSUME TypeInv, Reading, pc = "event", DecodeLeaf \/ DecodeNested
  PROVE  Reading'
<1>1. \E kind : InMap(kind)
  BY Zenon DEF DecodeLeaf, DecodeNested
<1>2. stack # <<>> /\ Top.rest # <<>> /\ (Key = "contexts" => Beneath # <<>>)
  BY <1>1, InMapIs, Zenon
<1>3. /\ Beneath \in Seq(Frames) /\ Pop(Top) \in Frames /\ Rest = Pop(Top)
      /\ Append(Beneath, Pop(Top)) \in Seq(Frames)
  BY <1>2, TopIs, Zenon DEF TypeInv
<1>4. /\ doc' = doc /\ at' = at
      /\ \/ stack' = Append(Beneath, Pop(Top))
         \/ stack' = Append(Append(Beneath, Pop(Top)), Inner(Top)) /\ Inner(Top) \in Frames
  BY <1>3, NestedStack, Zenon DEF DecodeLeaf, DecodeNested
<1>5. ASSUME Key = "contexts"
      PROVE  InContexts(Value.members, stack'[1].rest)
  <2>1. Beneath # <<>> /\ Beneath[1] = stack[1]
    BY <1>2, <1>5, StackIs, Zenon DEF TypeInv, Nested, Beneath
  <2>2. \A S : \A st \in Seq(S), f \in S : st # <<>> => Append(st, f)[1] = st[1] /\ Append(st, f) # <<>>
    OBVIOUS
  <2>3. Append(Beneath, Pop(Top))[1] = Beneath[1] /\ Append(Beneath, Pop(Top)) # <<>>
    BY <1>3, <2>1, <2>2, Zenon
  <2>4. Inner(Top) \in Frames => Append(Append(Beneath, Pop(Top)), Inner(Top))[1] = Append(Beneath, Pop(Top))[1]
    BY <1>3, <2>2, <2>3, Zenon
  <2>5. stack'[1] = stack[1]
    BY <1>4, <2>1, <2>3, <2>4, Zenon
  <2>6. InContexts(Value.members, stack[1].rest)
    BY <1>2, <1>5, Zenon DEF Reading
  <2> QED
    BY <2>5, <2>6, Zenon
<1> QED
  BY <1>4, <1>5, ReadNests, Zenon

(* Close: all contexts of the member are well formed. *)
LEMMA CloseReads ==
  ASSUME TypeInv, Reading, pc = "event", Close
  PROVE  Reading'
<1>1. stack # <<>> /\ Top.rest = <<>> /\ stack' = Beneath /\ UNCHANGED <<doc, ev, pc>>
      /\ at' = IF Len(stack) = 1 THEN at + 1 ELSE at
  BY Zenon DEF Close
<1>2. at \in 1..Len(doc.members) /\ Key \in Maps /\ Value.kind = "object"
  BY <1>1, Zenon DEF TypeInv, Nested
<1>3. /\ Len(stack) = 1 <=> Beneath = <<>>
      /\ Beneath = <<>> => stack[1] = Top
      /\ Beneath # <<>> => Beneath[1] = stack[1]
  BY <1>1, StackIs, Zenon DEF TypeInv, Nested, Beneath, Top
<1>4. Key = "contexts" => InContexts(Value.members, stack[1].rest)
  BY <1>1, Zenon DEF Reading
<1>5. CASE Beneath = <<>>
  <2>1. IsMember(doc.members[at])
    <3>1. CASE Key = "contexts"
      <4>1. \A i \in DOMAIN Value.members : IsContext(Value.members[i])
        <5>1. InContexts(Value.members, <<>>)
          BY <1>1, <1>3, <1>4, <1>5, <3>1, Zenon
        <5>2. DOMAIN <<>> = {}
          BY EmptySeq
        <5> QED
          BY <5>1, <5>2 DEF InContexts
      <4> QED
        BY <1>2, <3>1, <4>1, MemberKinds, Zenon DEF Key, Value
    <3>2. CASE Key = "user"
      BY <1>2, <3>2, MemberKinds, Zenon DEF Key, Value
    <3> QED
      BY <1>2, <3>1, <3>2 DEF Maps
  <2> QED
    BY <1>1, <1>2, <1>3, <1>5, <2>1, ReadAdvances, Zenon
<1>6. CASE Beneath # <<>>
  BY <1>1, <1>3, <1>4, <1>6, ReadNests, Zenon
<1> QED
  BY <1>5, <1>6, Zenon

(* Every step keeps Reading. *)
LEMMA NextReads ==
  ASSUME TypeInv, Phases, Reading, [Next]_vars
  PROVE  Reading'
<1>1. CASE DecodeHeader
  <2>1. pc = "header" /\ UNCHANGED <<doc, at, stack, ev>>
    BY <1>1, Zenon DEF DecodeHeader
  <2>2. at' = 1 /\ stack' = <<>>
    BY <2>1, Zenon DEF Phases
  <2>3. 1..at' - 1 = {}
    BY <2>2
  <2> QED
    BY <2>2, <2>3 DEF Reading
<1>2. CASE Busy
  <2>1. pc = "event" /\ pc' \in {"event", "error"}
    BY <1>2, BusyIs
  <2>2. CASE pc' = "error"
    BY <2>2 DEF Reading
  <2>3. CASE pc' = "event"
    <3>1. CASE DecodeTimestamp \/ DecodeException \/ DecodeOther
      BY <2>1, <2>3, <3>1, PassReads, Zenon
    <3>2. CASE DecodeContexts \/ DecodeUser
      <4>1. "contexts" \in Maps /\ "user" \in Maps
        BY DEF Maps
      <4> QED
        BY <2>1, <2>3, <3>2, <4>1, ObjectReads, Zenon DEF DecodeContexts, DecodeUser
    <3>3. CASE DecodeContext
      BY <2>1, <2>3, <3>3, ContextReads, Zenon
    <3>4. CASE DecodeLeaf \/ DecodeNested
      BY <2>1, <3>4, InMapReads, Zenon
    <3>5. CASE DecodeInvalid
      BY <2>3, <3>5 DEF DecodeInvalid, Fail
    <3>6. CASE Close
      BY <2>1, <3>6, CloseReads, Zenon
    <3> QED
      BY <1>2, <3>1, <3>2, <3>3, <3>4, <3>5, <3>6, Zenon DEF Busy
  <2> QED
    BY <2>1, <2>2, <2>3
<1>3. CASE Finish
  <2>1. pc = "event" /\ UNCHANGED <<doc, at, stack, ev>>
    BY <1>3, FinishIs
  <2>2. /\ \A i \in 1..at - 1 : IsMember(doc.members[i])
        /\ stack # <<>> /\ Key = "contexts" => InContexts(Value.members, stack[1].rest)
    BY <2>1 DEF Reading
  <2> QED
    BY <2>1, <2>2, Zenon DEF Reading, Key, Value
<1>4. CASE UNCHANGED vars
  BY <1>4, Zenon DEF Reading, Key, Value, vars
<1> QED
  BY <1>1, <1>2, <1>3, <1>4, NextIs, Zenon

(* Whatever was refused had something wrong in it, or a timestamp of the   *)
(* kinds that the code does not read.                                      *)
Unread(d) == \E i \in DOMAIN d.members : d.members[i].key = "timestamp"
                                        /\ (IsInteger(d.members[i].value) \/ OutOfReach(d.members[i].value))

Refusing == pc = "error" => doc.type = "invalid" \/ ~Whole(doc) \/ Unread(doc)

LEMMA UnreadIs == Unread(doc) => HasTimestamp(IsInteger) \/ HasTimestamp(OutOfReach)
BY Zenon DEF Unread, HasTimestamp

(* The member at is not well formed. *)
LEMMA BadMember ==
  ASSUME TypeInv, at \in 1..Len(doc.members), ~IsMember(doc.members[at])
  PROVE  ~Whole(doc)
<1>1. at \in DOMAIN doc.members
  BY DocMembers, Zenon DEF TypeInv, Within
<1> QED
  BY <1>1, Zenon DEF Whole

(* Each step that fails has found what is not well formed or not read. *)
LEMMA BusyRefuses ==
  ASSUME TypeInv, Flattening, Reading, Busy, pc' = "error"
  PROVE  ~Whole(doc) \/ Unread(doc)
<1>1. pc = "event"
  BY BusyIs
<1>2. \A key : Member(key) => doc.members[at].key = key /\ at \in 1..Len(doc.members)
  BY MemberIs, Zenon DEF Key
<1>3. pc' # pc
  BY <1>1
<1>4. CASE DecodeTimestamp
  <2>1. /\ Member("timestamp")
        /\ Value.kind # "date"
        /\ ~(Value.kind = "number" /\ Value.fraction # <<>> /\ ~OutOfReach(Value))
    BY <1>3, <1>4 DEF DecodeTimestamp
  <2>2. doc.members[at].key = "timestamp" /\ Value = doc.members[at].value /\ at \in 1..Len(doc.members)
    BY <1>2, <2>1, Zenon DEF Value
  <2>3. CASE IsInteger(Value) \/ OutOfReach(Value)
    <3>1. at \in DOMAIN doc.members
      BY <2>2, DocMembers, Zenon DEF TypeInv, Within
    <3> QED
      BY <2>2, <2>3, <3>1, Zenon DEF Unread
  <2>4. CASE ~IsInteger(Value) /\ ~OutOfReach(Value)
    <3>1. Value.kind # "number" /\ Value.kind # "exponent"
      BY <2>1, <2>4, Zenon DEF IsInteger, OutOfReach
    <3>2. Value.kind \notin {"number", "exponent", "date"}
      BY <2>1, <3>1
    <3> QED
      BY <2>2, <3>2, MemberKinds, BadMember, Zenon
  <2> QED
    BY <2>3, <2>4, Zenon
<1>5. CASE DecodeException
  <2>1. Member("exception") /\ Value.form \notin {"array", "object"}
    BY <1>3, <1>5, Zenon DEF DecodeException
  <2>2. at \in 1..Len(doc.members) /\ doc.members[at].key = "exception"
    BY <1>2, <2>1, Zenon
  <2>3. Value.form \in {"array", "object", "invalid"}
    <3>1. doc.members[at] \in Range(doc.members) /\ doc \in Docs
      BY <2>2, DocMembers, Zenon DEF TypeInv, Within
    <3> QED
      BY <2>2, <3>1, DocsAssumption, Zenon DEF DocsAssumption, Value
  <2>4. Value.form = "invalid"
    BY <2>1, <2>3
  <2> QED
    BY <2>2, <2>4, MemberKinds, BadMember, Zenon DEF Value
<1>6. CASE DecodeContexts
  <2>1. Member("contexts") /\ Value.kind # "object"
    BY <1>3, <1>6, Zenon DEF DecodeContexts, OpenObject
  <2> QED
    BY <1>2, <2>1, MemberKinds, BadMember, Zenon DEF Value
<1>7. CASE DecodeUser
  <2>1. Member("user") /\ Value.kind # "object"
    BY <1>3, <1>7, Zenon DEF DecodeUser, OpenObject
  <2> QED
    BY <1>2, <2>1, MemberKinds, BadMember, Zenon DEF Value
<1>8. CASE DecodeContext
  <2> DEFINE m == Head(Top.rest)
  <2>1. ~IsContext(m)
    BY <1>3, <1>8, Zenon DEF DecodeContext, IsContext
  <2>2. /\ stack[1] = Top /\ Top.rest # <<>> /\ Top.rest \in Seq(Members) /\ stack # <<>>
        /\ at \in 1..Len(doc.members) /\ Key = "contexts"
    BY <1>8, BottomIs, Zenon
  <2>3. InContexts(Value.members, Top.rest)
    BY <1>1, <2>2, Zenon DEF Reading
  <2>4. 1 \in DOMAIN Top.rest /\ m = Top.rest[1]
    <3> DEFINE r == Top.rest
    <3>1. r # <<>> /\ r \in Seq(Members)
      BY <2>2
    <3> HIDE DEF r
    <3>2. 1 \in DOMAIN r /\ Head(r) = r[1]
      BY <3>1, EmptySeq
    <3> QED
      BY <3>2 DEF r
  <2>5. \E i \in DOMAIN Value.members : Value.members[i] = m
    <3> HIDE DEF m
    <3>1. \A j \in DOMAIN Top.rest : \E i \in DOMAIN Value.members : Value.members[i] = Top.rest[j]
      BY <2>3, Zenon DEF InContexts
    <3>2. \E i \in DOMAIN Value.members : Value.members[i] = Top.rest[1]
      BY <2>4, <3>1, Zenon
    <3> QED
      BY <2>4, <3>2, Zenon
  <2>6. ~IsMember(doc.members[at])
    <3> DEFINE dm == doc.members[at]
    <3> HIDE DEF dm, m
    <3>1. dm.key = "contexts" /\ \E i \in DOMAIN dm.value.members : dm.value.members[i] = m
      <4>1. Key = dm.key /\ Value = dm.value
        BY DEF Key, Value, dm
      <4>2. dm.key = "contexts"
        BY <2>2, <4>1, Zenon
      <4> QED
        BY <2>5, <4>1, <4>2, Zenon
    <3>2. IsMember(dm) => \A i \in DOMAIN dm.value.members : IsContext(dm.value.members[i])
      BY <3>1, MemberKinds, Zenon
    <3> QED
      BY <2>1, <3>1, <3>2, Zenon DEF dm
  <2> QED
    BY <2>2, <2>6, BadMember, Zenon
<1>9. CASE DecodeInvalid
  <2> DEFINE m == Head(Top.rest)
             x == ItemOf(m, Top.prefix)
             all == Leaves(FlattenSeq(Said(Key, doc)))
  <2>1. /\ stack # <<>> /\ Top.rest # <<>> /\ at \in 1..Len(doc.members) /\ Key \in Maps
        /\ m.value.kind = "invalid"
        /\ Beneath # <<>> \/ Key # "contexts"
    BY <1>9, InMapIs, Zenon DEF DecodeInvalid
  <2>2. /\ Beneath \in Seq(Frames) /\ Top \in Frames /\ stack = Append(Beneath, Top)
    BY <2>1, TopIs, Zenon DEF TypeInv
  <2>3. doc \in Docs /\ doc.members[at].key = Key
    BY Zenon DEF TypeInv, Within, Key
  <2>4. "invalid" # "object" /\ "invalid" # "leaf"
    OBVIOUS
  <2>5. x \in Item /\ Left(Key, doc, at, Append(Beneath, Pop(Top))) \in Seq(Item)
    BY <2>1, <2>2, <2>3, LeftOfHead, Zenon
  <2>6. Left(Key, doc, at, Append(Beneath, Top)) = <<x>> \o Left(Key, doc, at, Append(Beneath, Pop(Top)))
    BY <2>1, <2>2, <2>3, <2>4, LeftOfLeaf, Zenon
  <2>7. x.value = m.value
    BY Zenon DEF ItemOf
  <2>8. Progress(Key, doc, at, stack, ev[Key])
    BY <1>1, <2>1 DEF Flattening
  <2> HIDE DEF x, m
  <2>9. \E i \in DOMAIN all : all[i] = x
    <3> DEFINE L == Left(Key, doc, at, Append(Beneath, Pop(Top)))
    <3>1. Left(Key, doc, at, stack) = <<x>> \o L /\ L \in Seq(Item)
      BY <2>2, <2>5, <2>6, Zenon
    <3> HIDE DEF L
    <3>2. \E i \in DOMAIN Leaves(FlattenSeq(Said(Key, doc))) : Leaves(FlattenSeq(Said(Key, doc)))[i] = x
      BY <2>5, <2>8, <3>1, InvalidIsSaid, SMTT(30)
    <3> QED
      BY <3>2
  <2>10. x.value.kind # "leaf"
    BY <2>1, <2>4, <2>7, Zenon
  <2> QED
    BY <2>1, <2>9, <2>10, Zenon DEF Whole
<1>10. CASE DecodeLeaf \/ DecodeNested \/ Close
  BY <1>3, <1>10, Zenon DEF DecodeLeaf, DecodeNested, Close
<1>11. CASE DecodeOther
  <2>1. Member("other") /\ Value.kind = "invalid"
    BY <1>3, <1>11, Zenon DEF DecodeOther
  <2> QED
    BY <1>2, <2>1, MemberKinds, BadMember, Zenon DEF Value
<1> QED
  BY <1>4, <1>5, <1>6, <1>7, <1>8, <1>9, <1>10, <1>11, Zenon DEF Busy

(* Every step keeps Refusing. *)
LEMMA NextRefuses ==
  ASSUME TypeInv, Flattening, Reading, Refusing, [Next]_vars
  PROVE  Refusing'
<1>1. CASE DecodeHeader
  BY <1>1 DEF DecodeHeader, Refusing
<1>2. CASE Busy
  BY <1>2, BusyRefuses, BusyIs, Zenon DEF Refusing
<1>3. CASE Finish
  BY <1>3 DEF Finish, Refusing
<1>4. CASE UNCHANGED vars
  BY <1>4, Zenon DEF Refusing, vars
<1> QED
  BY <1>1, <1>2, <1>3, <1>4, NextIs, Zenon

(* At the end all of the document is well formed. *)
LEMMA EndIsWhole ==
  ASSUME TypeInv, Phases, Flattening, Reading, pc = "ok"
  PROVE  Whole(doc)
<1>1. at = Len(doc.members) + 1 /\ doc \in Docs
  BY Zenon DEF Phases, TypeInv, Within
<1>2. \A i \in 1..at - 1 : IsMember(doc.members[i])
  BY DEF Reading
<1>3. DOMAIN doc.members = 1..at - 1
  BY <1>1, DocMembers
<1> QED
  BY <1>2, <1>3, EndIsFlattened, Zenon DEF Whole

(* The property from the invariant. *)
LEMMA Wholeness ==
  ASSUME TypeInv, Phases, Flattening, Reading, Refusing
  PROVE  WholeOrRefused
BY EndIsWhole, WellFormedIsWhole, UnreadIs DEF WholeOrRefused, Phases, Refusing

-----------------------------------------------------------------------------
(* Exceptions.                                                             *)

(* What each member of a document adds to the exceptions. *)
Sending(d) ==
  [i \in DOMAIN d.members |-> IF d.members[i].key = "exception" THEN d.members[i].value.values ELSE <<>>]

(* The exceptions of each member. *)
LEMMA SendingType ==
  ASSUME NEW d \in Docs
  PROVE  /\ Sending(d) \in Seq(Seq(Exceptions)) /\ Len(Sending(d)) = Len(d.members)
         /\ \A i \in 1..Len(d.members) :
              Sending(d)[i] = IF d.members[i].key = "exception" THEN d.members[i].value.values ELSE <<>>
<1> DEFINE n == Len(d.members)
           V(i) == IF d.members[i].key = "exception" THEN d.members[i].value.values ELSE <<>>
           s == Sending(d)
<1>1. n \in Nat /\ DOMAIN d.members = 1..n
  BY DocMembers
<1>2. \A i \in 1..n : V(i) \in Seq(Exceptions)
  <2> TAKE i \in 1..n
  <2>1. d.members[i] \in Range(d.members)
    BY DocMembers
  <2>2. d.members[i].key = "exception" => d.members[i].value.values \in Seq(Exceptions)
    BY <2>1, DocsAssumption, Zenon DEF DocsAssumption
  <2>3. <<>> \in Seq(Exceptions)
    BY EmptySeq
  <2> QED
    BY <2>2, <2>3, Zenon
<1>3. s = [i \in 1..n |-> V(i)]
  BY <1>1, Zenon DEF Sending
<1> HIDE DEF n, V, s
<1>4. s \in Seq(Seq(Exceptions)) /\ Len(s) = n /\ \A i \in 1..n : s[i] = V(i)
  BY <1>1, <1>2, <1>3
<1> QED
  BY <1>4, Zenon DEF n, V, s

(* Sent joins them. *)
LEMMA SentIs == Sent = FlattenSeq(Sending(doc))
BY DEF Sent, Each, Sending

(* A concatenation by its elements. *)
LEMMA ConcatIs ==
  ASSUME NEW S, NEW s \in Seq(S), NEW t \in Seq(S)
  PROVE  /\ s \o t \in Seq(S) /\ Len(s) \in Nat /\ Len(t) \in Nat /\ Len(s \o t) = Len(s) + Len(t)
         /\ \A i \in 1..Len(s) : (s \o t)[i] = s[i]
         /\ \A i \in 1..Len(s) + Len(t) : i > Len(s) => (s \o t)[i] = t[i - Len(s)]
OBVIOUS

Shift(sent) == [id |-> PlusOne(sent.id), parent |-> PlusOne(sent.parent)]

Shifted(W) == [i \in DOMAIN W |-> Shift(W[i])]

(* Shifting distributes over concatenation. *)
LEMMA ShiftedConcat ==
  ASSUME NEW V \in Seq(Exceptions), NEW W \in Seq(Exceptions)
  PROVE  Shifted(V \o W) = Shifted(V) \o Shifted(W)
<1> DEFINE R == {Shift(e) : e \in Exceptions}
           m == Len(V)
           n == Len(W)
           VW == V \o W
<1>1. \A U \in Seq(Exceptions) : /\ Shifted(U) \in Seq(R) /\ Len(Shifted(U)) = Len(U)
                                 /\ \A i \in 1..Len(U) : Shifted(U)[i] = Shift(U[i])
  <2> TAKE U \in Seq(Exceptions)
  <2>1. Len(U) \in Nat /\ DOMAIN U = 1..Len(U) /\ \A i \in 1..Len(U) : U[i] \in Exceptions
    OBVIOUS
  <2>2. \A i \in 1..Len(U) : Shift(U[i]) \in R
    BY <2>1
  <2>3. Shifted(U) = [i \in 1..Len(U) |-> Shift(U[i])]
    BY <2>1, Zenon DEF Shifted
  <2> DEFINE s == Shifted(U)
  <2> HIDE DEF s, R
  <2>4. s = [i \in 1..Len(U) |-> Shift(U[i])]
    BY <2>3 DEF s
  <2>5. s \in Seq(R) /\ Len(s) = Len(U) /\ \A i \in 1..Len(U) : s[i] = Shift(U[i])
    BY <2>1, <2>2, <2>4
  <2> QED
    BY <2>5 DEF s
<1>2. /\ VW \in Seq(Exceptions) /\ m \in Nat /\ n \in Nat /\ Len(VW) = m + n
      /\ \A i \in 1..m : VW[i] = V[i]
      /\ \A i \in 1..m + n : i > m => VW[i] = W[i - m]
  BY ConcatProperties
<1> HIDE DEF R, VW
<1> DEFINE s == Shifted(V)
           t == Shifted(W)
           u == Shifted(VW)
<1>3. s \in Seq(R) /\ Len(s) = m /\ \A i \in 1..m : s[i] = Shift(V[i])
  BY <1>1, Zenon
<1>4. t \in Seq(R) /\ Len(t) = n /\ \A i \in 1..n : t[i] = Shift(W[i])
  BY <1>1, Zenon
<1>5. u \in Seq(R) /\ Len(u) = m + n /\ \A i \in 1..m + n : u[i] = Shift(VW[i])
  BY <1>1, <1>2, Zenon
<1> HIDE DEF s, t, u, m, n
<1>6. s \o t \in Seq(R) /\ Len(s \o t) = m + n
      /\ (\A i \in 1..m : (s \o t)[i] = s[i])
      /\ \A i \in 1..m + n : i > m => (s \o t)[i] = t[i - m]
  <2>1. s \o t \in Seq(R) /\ Len(s \o t) = Len(s) + Len(t)
        /\ (\A i \in 1..Len(s) : (s \o t)[i] = s[i])
        /\ \A i \in 1..Len(s) + Len(t) : i > Len(s) => (s \o t)[i] = t[i - Len(s)]
    BY <1>3, <1>4, ConcatIs, ZenonT(60)
  <2>2. Len(s) = m /\ Len(t) = n
    BY <1>3, <1>4, Zenon
  <2> QED
    BY <2>1, <2>2, Zenon
<1>7. ASSUME NEW i \in 1..m + n
      PROVE  u[i] = (s \o t)[i]
  <2>1. CASE i <= m
    <3>1. i \in 1..m
      BY <1>2, <2>1
    <3>2. u[i] = Shift(V[i])
      BY <1>2, <1>5, <3>1, Zenon
    <3>3. (s \o t)[i] = Shift(V[i])
      BY <1>3, <1>6, <3>1, Zenon
    <3> QED
      BY <3>2, <3>3, Zenon
  <2>2. CASE i > m
    <3>1. i - m \in 1..n
      BY <1>2, <2>2
    <3> QED
      <4>1. (s \o t)[i] = t[i - m]
        BY <1>6, <2>2
      <4>2. t[i - m] = Shift(W[i - m])
        BY <1>4, <3>1
      <4>3. VW[i] = W[i - m]
        BY <1>2, <2>2
      <4>4. u[i] = Shift(VW[i])
        BY <1>5
      <4> QED
        BY <4>1, <4>2, <4>3, <4>4, Zenon
  <2>3. i <= m \/ i > m
    BY <1>2
  <2> QED
    BY <2>1, <2>2, <2>3, Zenon
<1>8. u = s \o t
  BY <1>5, <1>6, <1>7, SeqEqual
<1> QED
  BY <1>8 DEF s, t, u, VW

(* The exceptions of the event are those of the members before this one,   *)
(* shifted.                                                                *)
Shifting ==
  pc \in {"event", "ok"} =>
    \E W \in Seq(Exceptions) :
      /\ W \o From(Sending(doc), at) = FlattenSeq(Sending(doc))
      /\ ev.exceptions = Shifted(W)

(* DecodeHeader: nothing is shifted yet. *)
LEMMA HeaderShifts ==
  ASSUME TypeInv, Phases, DecodeHeader
  PROVE  Shifting'
<1>1. pc = "header" /\ UNCHANGED <<doc, at, stack, ev>>
  BY Zenon DEF DecodeHeader
<1>2. at = 1 /\ ev = NoEvent /\ doc \in Docs
  BY <1>1, Zenon DEF Phases, TypeInv, Within
<1>3. ev.exceptions = <<>>
  BY <1>2 DEF NoEvent
<1> DEFINE s == Sending(doc)
<1>4. s \in Seq(Seq(Exceptions))
  BY <1>2, SendingType
<1>5. From(s, 1) = FlattenSeq(s) /\ FlattenSeq(s) \in Seq(Exceptions)
  BY <1>4, FromEnds, FlattenType
<1>6. <<>> \o FlattenSeq(s) = FlattenSeq(s)
  BY <1>5, ConcatEmptySeq
<1>7. <<>> \in Seq(Exceptions) /\ Shifted(<<>>) = <<>>
  BY EmptySeq DEF Shifted
<1>8. \E W \in Seq(Exceptions) : W \o From(s, at) = FlattenSeq(s) /\ ev.exceptions = Shifted(W)
  BY <1>2, <1>3, <1>5, <1>6, <1>7, Zenon
<1> QED
  BY <1>1, <1>8, Zenon DEF Shifting

(* Nothing that is sent is passed, or all that the member says is shifted. *)
LEMMA ShiftStays ==
  ASSUME TypeInv, Shifting, pc = "event", doc' = doc, ev'.exceptions = ev.exceptions,
         at' = at \/ (at' = at + 1 /\ at \in 1..Len(doc.members) /\ Key # "exception")
  PROVE  Shifting'
<1> DEFINE s == Sending(doc)
<1>1. doc \in Docs
  BY Zenon DEF TypeInv, Within
<1>2. From(s, at') = From(s, at)
  <2>1. CASE at' = at
    BY <2>1
  <2>2. CASE at' # at
    <3>1. s \in Seq(Seq(Exceptions)) /\ at \in 1..Len(s) /\ s[at] = <<>>
      <4>1. at \in 1..Len(doc.members) /\ doc.members[at].key # "exception"
        BY <2>2, Zenon DEF Key
      <4> QED
        BY <1>1, <4>1, SendingType, Zenon
    <3> HIDE DEF s
    <3>2. From(s, at) = <<>> \o From(s, at + 1) /\ From(s, at + 1) \in Seq(Exceptions)
      BY <3>1, FromStep
    <3>3. <<>> \o From(s, at + 1) = From(s, at + 1)
      BY <3>2, ConcatEmptySeq
    <3> QED
      BY <2>2, <3>2, <3>3, Zenon
  <2> QED
    BY <2>1, <2>2, Zenon
<1>3. PICK W \in Seq(Exceptions) : W \o From(s, at) = FlattenSeq(s) /\ ev.exceptions = Shifted(W)
  BY DEF Shifting
<1>4. W \o From(s, at') = FlattenSeq(s) /\ ev'.exceptions = Shifted(W)
  BY <1>2, <1>3, Zenon
<1> QED
  BY <1>4, Zenon DEF Shifting

(* DecodeException: the exceptions of this member come last. *)
LEMMA ExceptionShifts ==
  ASSUME TypeInv, Shifting, pc = "event", DecodeException, pc' = "event"
  PROVE  Shifting'
<1> DEFINE s == Sending(doc)
           V == Value.values
<1>1. Member("exception") /\ at' = at + 1 /\ doc' = doc
      /\ ev' = [ev EXCEPT !.exceptions = ev.exceptions \o Shifted(V)]
  BY DEF DecodeException, Fail, Shifted, Shift
<1>2. doc \in Docs /\ at \in 1..Len(doc.members) /\ doc.members[at].key = "exception"
  BY <1>1, MemberIs, Zenon DEF TypeInv, Within, Key
<1>3. s \in Seq(Seq(Exceptions)) /\ at \in 1..Len(s) /\ s[at] = V
  BY <1>2, SendingType, Zenon DEF Value
<1>4. ev'.exceptions = ev.exceptions \o Shifted(V)
  BY <1>1 DEF TypeInv, Fields
<1> HIDE DEF V
<1>5. PICK W \in Seq(Exceptions) : W \o From(s, at) = FlattenSeq(s) /\ ev.exceptions = Shifted(W)
  BY DEF Shifting
<1> HIDE DEF s
<1>6. From(s, at) = V \o From(s, at + 1) /\ V \in Seq(Exceptions) /\ From(s, at + 1) \in Seq(Exceptions)
  BY <1>3, FromStep
<1>7. (W \o V) \o From(s, at + 1) = W \o (V \o From(s, at + 1))
  BY <1>6, AssociateThree, SMTT(30)
<1>8. W \o V \in Seq(Exceptions)
  BY <1>6, ConcatProperties
<1>9. Shifted(W \o V) = Shifted(W) \o Shifted(V)
  BY <1>6, ShiftedConcat
<1>10. (W \o V) \o From(s, at') = FlattenSeq(s) /\ ev'.exceptions = Shifted(W \o V)
  BY <1>1, <1>4, <1>5, <1>6, <1>7, <1>9, Zenon
<1> QED
  BY <1>1, <1>8, <1>10, Zenon DEF Shifting, s

(* Every step keeps Shifting. *)
LEMMA NextShifts ==
  ASSUME TypeInv, Phases, Shifting, [Next]_vars
  PROVE  Shifting'
<1>1. CASE DecodeHeader
  BY <1>1, HeaderShifts
<1>2. CASE Busy
  <2>1. pc = "event" /\ pc' \in {"event", "error"} /\ doc' = doc
    BY <1>2, BusyIs
  <2>2. CASE pc' = "error"
    BY <2>2 DEF Shifting
  <2>3. CASE pc' = "event"
    <3>1. ASSUME NEW key, Member(key), key # "exception", at' = at + 1, ev'.exceptions = ev.exceptions
          PROVE  Shifting'
      <4>1. at \in 1..Len(doc.members) /\ Key # "exception"
        BY <3>1, MemberIs, Zenon
      <4> QED
        BY <2>1, <3>1, <4>1, ShiftStays, Zenon
    <3>2. ASSUME at' = at, ev'.exceptions = ev.exceptions
          PROVE  Shifting'
      BY <2>1, <3>2, ShiftStays, Zenon
    <3>3. CASE DecodeTimestamp
      <4>1. Member("timestamp") /\ "timestamp" # "exception" /\ at' = at + 1 /\ ev'.exceptions = ev.exceptions
        BY <2>3, <3>3 DEF DecodeTimestamp, Fail, TypeInv, Fields
      <4> QED
        BY <3>1, <4>1, Zenon
    <3>4. CASE DecodeException
      BY <2>1, <2>3, <3>4, ExceptionShifts, Zenon
    <3>5. CASE DecodeOther
      <4>1. Member("other") /\ "other" # "exception" /\ at' = at + 1 /\ ev'.exceptions = ev.exceptions
        BY <2>3, <3>5, Passes
      <4> QED
        BY <3>1, <4>1, Zenon
    <3>6. CASE DecodeContexts \/ DecodeUser \/ DecodeContext \/ DecodeNested
      <4>1. UNCHANGED <<at, ev>>
        BY <2>3, <3>6 DEF DecodeContexts, DecodeUser, OpenObject, DecodeContext, DecodeNested, Fail
      <4> QED
        BY <3>2, <4>1, Zenon
    <3>7. CASE DecodeLeaf
      <4>1. Key \in Maps /\ at' = at
        BY <3>7, InMapIs, Zenon DEF DecodeLeaf
      <4>2. Key # "exceptions" /\ "exceptions" \in DOMAIN ev
        BY <4>1 DEF Maps, TypeInv, Fields
      <4>3. \E f : ev' = [ev EXCEPT ![Key] = f]
        BY <3>7, Zenon DEF DecodeLeaf, Put
      <4>4. ev'.exceptions = ev.exceptions
        BY <4>2, <4>3
      <4> QED
        BY <3>2, <4>1, <4>4, Zenon
    <3>8. CASE DecodeInvalid
      BY <2>3, <3>8 DEF DecodeInvalid, Fail
    <3>9. CASE Close
      <4>1. stack # <<>> /\ ev' = ev /\ (at' = at + 1 \/ at' = at)
        BY <3>9, Zenon DEF Close
      <4>2. at \in 1..Len(doc.members) /\ Key \in Maps
        BY <4>1, Zenon DEF TypeInv, Nested
      <4>3. Key # "exception"
        BY <4>2 DEF Maps
      <4> QED
        BY <2>1, <4>1, <4>2, <4>3, ShiftStays, Zenon
    <3> QED
      BY <1>2, <3>3, <3>4, <3>5, <3>6, <3>7, <3>8, <3>9, Zenon DEF Busy
  <2> QED
    BY <2>1, <2>2, <2>3
<1>3. CASE Finish
  <2>1. pc = "event" /\ UNCHANGED <<doc, at, stack, ev>>
    BY <1>3, FinishIs
  <2>2. \E W \in Seq(Exceptions) :
           W \o From(Sending(doc), at) = FlattenSeq(Sending(doc)) /\ ev.exceptions = Shifted(W)
    BY <2>1 DEF Shifting
  <2> QED
    BY <2>1, <2>2, Zenon DEF Shifting
<1>4. CASE UNCHANGED vars
  BY <1>4, Zenon DEF Shifting, vars
<1> QED
  BY <1>1, <1>2, <1>3, <1>4, NextIs, Zenon

(* Numbers that a client plainly counts with are told apart when shifted.  *)
LEMMA PlainShift ==
  ASSUME NEW g \in Given, g = <<>> \/ g[1] \in 0..MaxInt - 1
  PROVE  \/ g = <<>> /\ PlusOne(g) = 0
         \/ \E n \in Nat : g = <<n>> /\ PlusOne(g) = n + 1
<1>1. CASE g = <<>>
  BY <1>1, Zenon DEF PlusOne
<1>2. CASE g # <<>>
  <2>1. MaxInt \in Nat
    BY DocsAssumption, Zenon DEF DocsAssumption
  <2>2. PICK n \in -MaxInt-1..MaxInt : g = <<n>>
    BY <1>2 DEF Given
  <2>3. g[1] = n
    BY <2>2
  <2>4. n \in Nat /\ n + 1 <= MaxInt
    BY <1>2, <2>1, <2>3
  <2>5. PlusOne(g) = Wrap(n + 1)
    BY <1>2, <2>3, Zenon DEF PlusOne
  <2>6. Wrap(n + 1) = n + 1
    BY <2>1, <2>4 DEF Wrap
  <2> QED
    BY <2>2, <2>4, <2>5, <2>6, Zenon
<1> QED
  BY <1>1, <1>2, Zenon

(* Shifted numbers are equal, and not 0, exactly if the numbers are given and equal. *)
LEMMA PlainLinks ==
  ASSUME NEW p \in Given, NEW q \in Given,
         p = <<>> \/ p[1] \in 0..MaxInt - 1, q = <<>> \/ q[1] \in 0..MaxInt - 1
  PROVE  PlusOne(p) # 0 /\ PlusOne(p) = PlusOne(q) <=> p # <<>> /\ p = q
<1>1. \/ p = <<>> /\ PlusOne(p) = 0
      \/ \E n \in Nat : p = <<n>> /\ PlusOne(p) = n + 1
  BY PlainShift
<1>2. \/ q = <<>> /\ PlusOne(q) = 0
      \/ \E n \in Nat : q = <<n>> /\ PlusOne(q) = n + 1
  BY PlainShift
<1> DEFINE a == PlusOne(p)
           b == PlusOne(q)
<1> HIDE DEF a, b
<1>3. \/ p = <<>> /\ a = 0
      \/ \E n \in Nat : p = <<n>> /\ a = n + 1
  BY <1>1 DEF a
<1>4. \/ q = <<>> /\ b = 0
      \/ \E n \in Nat : q = <<n>> /\ b = n + 1
  BY <1>2 DEF b
<1>5. \A m, n \in Nat : (<<m>> = <<n>> <=> m = n) /\ <<m>> # <<>>
  OBVIOUS
<1>6. a # 0 /\ a = b <=> p # <<>> /\ p = q
  BY <1>3, <1>4, <1>5
<1> QED
  BY <1>6 DEF a, b

(* The property from the invariant. *)
LEMMA Links ==
  ASSUME TypeInv, Phases, Shifting
  PROVE  LinksSurvive
<1> SUFFICES ASSUME pc = "ok"
             PROVE  LinksSurvive
  BY DEF LinksSurvive
<1>1. at = Len(doc.members) + 1 /\ doc \in Docs
  BY Zenon DEF Phases, TypeInv, Within
<1> DEFINE s == Sending(doc)
<1>2. s \in Seq(Seq(Exceptions)) /\ at = Len(s) + 1
  BY <1>1, SendingType, Zenon
<1>3. PICK W \in Seq(Exceptions) : W \o From(s, at) = FlattenSeq(s) /\ ev.exceptions = Shifted(W)
  BY DEF Shifting
<1>4. FlattenSeq(s) = Sent
  BY SentIs
<1> HIDE DEF s
<1>5. From(s, at) = <<>>
  BY <1>2, FromEnds
<1>6. W \o <<>> = W
  BY ConcatEmptySeq
<1>7. W = Sent
  BY <1>3, <1>4, <1>5, <1>6, Zenon
<1>8. Sent \in Seq(Exceptions) /\ ev.exceptions = Shifted(Sent)
  BY <1>3, <1>7, Zenon
<1>9. \A V \in Seq(Exceptions) : /\ Len(Shifted(V)) = Len(V)
                                 /\ \A i \in DOMAIN V : Shifted(V)[i] = Shift(V[i]) /\ V[i] \in Exceptions
  <2> TAKE V \in Seq(Exceptions)
  <2>1. Len(V) \in Nat /\ DOMAIN V = 1..Len(V) /\ \A i \in 1..Len(V) : V[i] \in Exceptions
    OBVIOUS
  <2>2. Shifted(V) = [i \in 1..Len(V) |-> Shift(V[i])]
    BY <2>1, Zenon DEF Shifted
  <2>3. Len(Shifted(V)) = Len(V)
    BY <2>1, <2>2
  <2> QED
    BY <2>1, <2>2, <2>3
<1>10. Len(ev.exceptions) = Len(Sent)
  BY <1>8, <1>9, Zenon
<1>11. ASSUME NEW i \in DOMAIN Sent
       PROVE  /\ Sent[i].id \in Given /\ Sent[i].parent \in Given
              /\ ev.exceptions[i].id = PlusOne(Sent[i].id) /\ ev.exceptions[i].parent = PlusOne(Sent[i].parent)
  <2>1. ev.exceptions[i] = Shift(Sent[i]) /\ Sent[i] \in Exceptions
    BY <1>8, <1>9, Zenon
  <2>2. Shift(Sent[i]).id = PlusOne(Sent[i].id) /\ Shift(Sent[i]).parent = PlusOne(Sent[i].parent)
    BY Zenon DEF Shift
  <2>3. Sent[i].id \in Given /\ Sent[i].parent \in Given
    BY <2>1 DEF Exceptions
  <2> QED
    BY <2>1, <2>2, <2>3, Zenon
<1>12. ASSUME NEW i \in DOMAIN Sent, NEW j \in DOMAIN Sent,
              Sent[i].parent = <<>> \/ Sent[i].parent[1] \in 0..MaxInt - 1,
              Sent[j].id = <<>> \/ Sent[j].id[1] \in 0..MaxInt - 1
       PROVE  ev.exceptions[i].parent # 0 /\ ev.exceptions[i].parent = ev.exceptions[j].id
                <=> Sent[i].parent # <<>> /\ Sent[i].parent = Sent[j].id
  <2> DEFINE p == Sent[i].parent
             q == Sent[j].id
  <2>1. p \in Given /\ q \in Given /\ ev.exceptions[i].parent = PlusOne(p) /\ ev.exceptions[j].id = PlusOne(q)
    BY <1>11, Zenon
  <2>2. (p = <<>> \/ p[1] \in 0..MaxInt - 1) /\ (q = <<>> \/ q[1] \in 0..MaxInt - 1)
    BY <1>12
  <2> HIDE DEF p, q
  <2>3. PlusOne(p) # 0 /\ PlusOne(p) = PlusOne(q) <=> p # <<>> /\ p = q
    BY <2>1, <2>2, PlainLinks
  <2>4. ev.exceptions[i].parent # 0 /\ ev.exceptions[i].parent = ev.exceptions[j].id <=> p # <<>> /\ p = q
    BY <2>1, <2>3, Zenon
  <2> QED
    BY <2>4 DEF p, q
<1> QED
  BY <1>10, <1>12, Zenon DEF LinksSurvive

-----------------------------------------------------------------------------
(* Timestamps.                                                             *)
Time(v) == IF v.kind = "number" THEN <<v.whole, Nanoseconds(v.fraction)>> ELSE Exact(v)

(* Member i is the last timestamp before member k. *)
LastBefore(d, k, i) ==
  d.members[i].key = "timestamp" /\ \A j \in i + 1..k - 1 : d.members[j].key # "timestamp"

(* The timestamp of the event is the last one before this member. *)
Timing ==
  pc \in {"event", "ok"} =>
    \A i \in 1..at - 1 : LastBefore(doc, at, i) => ev.timestamp = Time(doc.members[i].value)

(* Steps that pass no timestamp. *)
LEMMA TimeStays ==
  ASSUME TypeInv, Timing, pc = "event", doc' = doc, ev'.timestamp = ev.timestamp,
         at' = at \/ (at' = at + 1 /\ at \in 1..Len(doc.members) /\ Key # "timestamp")
  PROVE  Timing'
<1>1. at \in Nat
  <2>1. Len(doc.members) \in Nat /\ at \in 1..Len(doc.members) + 1
    BY DocMembers DEF TypeInv, Within
  <2> QED
    BY <2>1
<1>2. \A i \in 1..at - 1 : LastBefore(doc, at, i) => ev.timestamp = Time(doc.members[i].value)
  BY DEF Timing
<1>3. ASSUME NEW i \in 1..at' - 1, LastBefore(doc, at', i)
      PROVE  ev'.timestamp = Time(doc.members[i].value)
  <2>1. CASE at' = at
    BY <1>2, <1>3, <2>1, Zenon
  <2>2. CASE at' # at
    <3>1. Key # "timestamp" /\ at' = at + 1
      BY <2>2, Zenon
    <3>2. i # at
      BY <1>3, <3>1, Zenon DEF LastBefore, Key
    <3>3. i \in 1..at - 1 /\ \A j \in i + 1..at - 1 : j \in i + 1..at' - 1
      BY <1>1, <3>1, <3>2
    <3>4. LastBefore(doc, at, i)
      BY <1>3, <3>3, Zenon DEF LastBefore
    <3> QED
      BY <1>2, <3>3, <3>4, Zenon
  <2> QED
    BY <2>1, <2>2, Zenon
<1> QED
  BY <1>3, Zenon DEF Timing

(* DecodeTimestamp: this timestamp is now the last. *)
LEMMA TimestampTimes ==
  ASSUME TypeInv, Timing, DecodeTimestamp, pc' = "event"
  PROVE  Timing'
<1>1. /\ Member("timestamp") /\ at' = at + 1 /\ doc' = doc
      /\ ev'.timestamp = Time(Value)
  BY DEF DecodeTimestamp, Fail, TypeInv, Fields, Time
<1>2. at \in 1..Len(doc.members) /\ doc.members[at].key = "timestamp" /\ Value = doc.members[at].value
  BY <1>1, MemberIs, Zenon DEF Key, Value
<1>3. at \in Nat
  <2>1. Len(doc.members) \in Nat
    BY DocMembers DEF TypeInv, Within
  <2> QED
    BY <1>2, <2>1
<1>4. ASSUME NEW i \in 1..at' - 1, LastBefore(doc, at', i)
      PROVE  ev'.timestamp = Time(doc.members[i].value)
  <2>1. CASE i = at
    BY <1>1, <1>2, <2>1, Zenon
  <2>2. CASE i # at
    <3>1. at \in i + 1..at' - 1
      BY <1>1, <1>3, <2>2
    <3> QED
      BY <1>2, <1>4, <3>1, Zenon DEF LastBefore
  <2> QED
    BY <2>1, <2>2, Zenon
<1> QED
  BY <1>1, <1>4, Zenon DEF Timing

(* Every step keeps Timing. *)
LEMMA NextTimes ==
  ASSUME TypeInv, Phases, Timing, [Next]_vars
  PROVE  Timing'
<1>1. CASE DecodeHeader
  <2>1. pc = "header" /\ UNCHANGED <<doc, at, stack, ev>>
    BY <1>1, Zenon DEF DecodeHeader
  <2>2. at' = 1
    BY <2>1, Zenon DEF Phases
  <2>3. 1..at' - 1 = {}
    BY <2>2
  <2> QED
    BY <2>3 DEF Timing
<1>2. CASE Busy
  <2>1. pc = "event" /\ pc' \in {"event", "error"} /\ doc' = doc
    BY <1>2, BusyIs
  <2>2. CASE pc' = "error"
    BY <2>2 DEF Timing
  <2>3. CASE pc' = "event"
    <3>1. ASSUME NEW key, Member(key), key # "timestamp", at' = at + 1, ev'.timestamp = ev.timestamp
          PROVE  Timing'
      <4>1. at \in 1..Len(doc.members) /\ Key # "timestamp"
        BY <3>1, MemberIs, Zenon
      <4> QED
        BY <2>1, <3>1, <4>1, TimeStays, Zenon
    <3>2. ASSUME at' = at, ev'.timestamp = ev.timestamp
          PROVE  Timing'
      BY <2>1, <3>2, TimeStays, Zenon
    <3>3. CASE DecodeTimestamp
      BY <2>3, <3>3, TimestampTimes, Zenon
    <3>4. CASE DecodeException
      <4> DEFINE seen == ev.exceptions \o [i \in DOMAIN Value.values |-> [id     |-> PlusOne(Value.values[i].id),
                                                      parent |-> PlusOne(Value.values[i].parent)]]
      <4>1. Member("exception") /\ at' = at + 1 /\ ev' = [ev EXCEPT !.exceptions = seen]
        BY <2>3, <3>4 DEF DecodeException, Fail
      <4> HIDE DEF seen
      <4>2. "exception" # "timestamp" /\ ev'.timestamp = ev.timestamp
        BY <4>1 DEF TypeInv, Fields
      <4> QED
        BY <3>1, <4>1, <4>2, Zenon
    <3>5. CASE DecodeOther
      <4>1. Member("other") /\ "other" # "timestamp" /\ at' = at + 1 /\ ev'.timestamp = ev.timestamp
        BY <2>3, <3>5, Passes
      <4> QED
        BY <3>1, <4>1, Zenon
    <3>6. CASE DecodeContexts \/ DecodeUser \/ DecodeContext \/ DecodeNested
      <4>1. UNCHANGED <<at, ev>>
        BY <2>3, <3>6 DEF DecodeContexts, DecodeUser, OpenObject, DecodeContext, DecodeNested, Fail
      <4> QED
        BY <3>2, <4>1, Zenon
    <3>7. CASE DecodeLeaf
      <4>1. Key \in Maps /\ at' = at
        BY <3>7, InMapIs, Zenon DEF DecodeLeaf
      <4>2. Key # "timestamp" /\ "timestamp" \in DOMAIN ev
        BY <4>1 DEF Maps, TypeInv, Fields
      <4>3. \E f : ev' = [ev EXCEPT ![Key] = f]
        BY <3>7, Zenon DEF DecodeLeaf, Put
      <4>4. ev'.timestamp = ev.timestamp
        BY <4>2, <4>3
      <4> QED
        BY <3>2, <4>1, <4>4, Zenon
    <3>8. CASE DecodeInvalid
      BY <2>3, <3>8 DEF DecodeInvalid, Fail
    <3>9. CASE Close
      <4>1. stack # <<>> /\ ev' = ev /\ (at' = at + 1 \/ at' = at)
        BY <3>9, Zenon DEF Close
      <4>2. at \in 1..Len(doc.members) /\ Key \in Maps
        BY <4>1, Zenon DEF TypeInv, Nested
      <4>3. Key # "timestamp"
        BY <4>2 DEF Maps
      <4> QED
        BY <2>1, <4>1, <4>2, <4>3, TimeStays, Zenon
    <3> QED
      BY <1>2, <3>3, <3>4, <3>5, <3>6, <3>7, <3>8, <3>9, Zenon DEF Busy
  <2> QED
    BY <2>1, <2>2, <2>3
<1>3. CASE Finish
  <2>1. pc = "event" /\ UNCHANGED <<doc, at, stack, ev>>
    BY <1>3, FinishIs
  <2>2. \A i \in 1..at - 1 : LastBefore(doc, at, i) => ev.timestamp = Time(doc.members[i].value)
    BY <2>1 DEF Timing
  <2> QED
    BY <2>1, <2>2, Zenon DEF Timing
<1>4. CASE UNCHANGED vars
  BY <1>4, Zenon DEF Timing, vars
<1> QED
  BY <1>1, <1>2, <1>3, <1>4, NextIs, Zenon

(* Number is a recursive function, which exists by induction.              *)
LEMMA ReadExists ==
  ASSUME NEW digits, NEW len \in Nat
  PROVE  \E f : f = [n \in 0..len |-> IF n = 0 THEN 0 ELSE 10 * f[n - 1] + digits[n]]
<1> DEFINE Read(f, m) == [n \in 0..m |-> IF n = 0 THEN 0 ELSE 10 * f[n - 1] + digits[n]]
           T == {m \in Nat : \E f : f = Read(f, m)}
<1>1. 0 \in T
  <2> DEFINE g == [n \in 0..0 |-> 0]
  <2>1. g = Read(g, 0)
    OBVIOUS
  <2> QED
    BY <2>1
<1>2. ASSUME NEW m \in Nat, m \in T
      PROVE  m + 1 \in T
  <2>1. PICK f : f = Read(f, m)
    BY <1>2
  <2> DEFINE g == [n \in 0..m + 1 |-> IF n <= m THEN f[n] ELSE 10 * f[m] + digits[n]]
  <2>2. (\A n \in 0..m : g[n] = f[n]) /\ g[m + 1] = 10 * f[m] + digits[m + 1]
    OBVIOUS
  <2>3. \A n \in 0..m : f[n] = IF n = 0 THEN 0 ELSE 10 * f[n - 1] + digits[n]
    BY <2>1, Zenon
  <2>4. ASSUME NEW n \in 0..m + 1
        PROVE  g[n] = IF n = 0 THEN 0 ELSE 10 * g[n - 1] + digits[n]
    <3>1. CASE n <= m
      <4>1. n \in 0..m /\ (n # 0 => n - 1 \in 0..m)
        BY <3>1
      <4> QED
        BY <2>2, <2>3, <4>1, Zenon
    <3>2. CASE n = m + 1
      <4>1. n # 0 /\ n - 1 = m /\ m \in 0..m
        BY <3>2
      <4> QED
        BY <2>2, <3>2, <4>1, Zenon
    <3> QED
      BY <3>1, <3>2
  <2>5. g = Read(g, m + 1)
    <3>1. g = [n \in 0..m + 1 |-> g[n]]
      OBVIOUS
    <3> HIDE DEF g
    <3> QED
      BY <2>4, <3>1, Zenon
  <2> HIDE DEF g, Read
  <2> QED
    BY <2>5
<1>3. len \in T
  <2> HIDE DEF T
  <2> QED
    BY <1>1, <1>2, Steps, Zenon
<1> QED
  BY <1>3

(* Number by its steps. *)
LEMMA NumberSteps ==
  ASSUME NEW digits, Len(digits) \in Nat
  PROVE  \E f : /\ f[0] = 0 /\ Number(digits) = f[Len(digits)]
                /\ \A n \in 1..Len(digits) : f[n] = 10 * f[n - 1] + digits[n]
<1> DEFINE len == Len(digits)
           f == CHOOSE f : f = [n \in 0..len |-> IF n = 0 THEN 0 ELSE 10 * f[n - 1] + digits[n]]
<1>1. Number(digits) = f[len]
  BY DEF Number
<1>2. \E g : g = [n \in 0..len |-> IF n = 0 THEN 0 ELSE 10 * g[n - 1] + digits[n]]
  BY ReadExists
<1>3. f = [n \in 0..len |-> IF n = 0 THEN 0 ELSE 10 * f[n - 1] + digits[n]]
  BY <1>2, Zenon
<1> HIDE DEF f
<1>4. \A n \in 0..len : f[n] = IF n = 0 THEN 0 ELSE 10 * f[n - 1] + digits[n]
  BY <1>3, Zenon
<1>5. 0 \in 0..len /\ \A n \in 1..len : n \in 0..len /\ n # 0
  OBVIOUS
<1> QED
  BY <1>1, <1>4, <1>5, Zenon

(* Each zero at the end is a factor of ten. *)
Padded(digits) == [i \in 1..9 |-> IF i <= Len(digits) THEN digits[i] ELSE 0]

(* Both numbers agree up to the digits that there are, and then the padded one is multiplied by ten. *)
LEMMA PaddedIs ==
  ASSUME NEW digits \in Seq(0..9), Len(digits) <= 9
  PROVE  \E g : /\ g[Len(digits)] = Number(digits) /\ Number(Padded(digits)) = g[9] /\ Number(digits) \in Nat
                /\ \A n \in 1..9 : n > Len(digits) => g[n] = 10 * g[n - 1]
<1> DEFINE m == Len(digits)
           p == Padded(digits)
<1>1. m \in Nat /\ m <= 9 /\ \A i \in 1..m : digits[i] \in 0..9
  OBVIOUS
<1>2. p = [i \in 1..9 |-> IF i <= m THEN digits[i] ELSE 0]
  BY DEF Padded
<1> HIDE DEF p
<1>3. Len(p) = 9 /\ (\A i \in 1..m : p[i] = digits[i]) /\ \A i \in 1..9 : i > m => p[i] = 0
  BY <1>1, <1>2
<1>4. PICK f : /\ f[0] = 0 /\ Number(digits) = f[m]
               /\ \A n \in 1..m : f[n] = 10 * f[n - 1] + digits[n]
  BY <1>1, NumberSteps
<1>5. PICK g : /\ g[0] = 0 /\ Number(p) = g[9]
               /\ \A n \in 1..9 : g[n] = 10 * g[n - 1] + p[n]
  <2>1. Len(p) \in Nat
    BY <1>3
  <2>2. \E g : /\ g[0] = 0 /\ Number(p) = g[Len(p)]
               /\ \A n \in 1..Len(p) : g[n] = 10 * g[n - 1] + p[n]
    BY <2>1, NumberSteps
  <2> QED
    BY <1>3, <2>2, Zenon
<1> HIDE DEF m
<1> DEFINE T == {n \in Nat : n <= m => f[n] \in Nat /\ g[n] = f[n]}
<1>6. 0 \in T
  BY <1>4, <1>5
<1>7. ASSUME NEW n \in Nat, n \in T
      PROVE  n + 1 \in T
  <2>1. SUFFICES ASSUME n + 1 <= m
                 PROVE  f[n + 1] \in Nat /\ g[n + 1] = f[n + 1]
    OBVIOUS
  <2>2. n + 1 \in 1..m /\ n + 1 \in 1..9 /\ (n + 1) - 1 = n /\ n <= m
    BY <1>1, <2>1
  <2>3. f[n] \in Nat /\ g[n] = f[n]
    BY <1>7, <2>2
  <2>4. f[n + 1] = 10 * f[n] + digits[n + 1]
    BY <1>4, <2>2
  <2>5. g[n + 1] = 10 * g[n] + p[n + 1]
    BY <1>5, <2>2
  <2>6. p[n + 1] = digits[n + 1] /\ digits[n + 1] \in 0..9
    BY <1>1, <1>3, <2>2
  <2>7. f[n + 1] = g[n + 1]
    BY <2>3, <2>4, <2>5, <2>6, Zenon
  <2>8. \A x \in Nat, y \in 0..9 : 10 * x + y \in Nat
    OBVIOUS
  <2>9. 10 * f[n] + digits[n + 1] \in Nat
    BY <2>3, <2>6, <2>8, Zenon
  <2> QED
    BY <2>4, <2>7, <2>9, Zenon
<1>8. m \in T
  <2> HIDE DEF T
  <2> QED
    BY <1>1, <1>6, <1>7, Steps, Zenon
<1>9. f[m] \in Nat /\ g[m] = f[m]
  BY <1>1, <1>8
<1> DEFINE U == {n \in Nat : n <= 9 => g[n] \in Nat}
<1>10. 0 \in U
  BY <1>5
<1>11. ASSUME NEW n \in Nat, n \in U
       PROVE  n + 1 \in U
  <2>1. SUFFICES ASSUME n + 1 <= 9
                 PROVE  g[n + 1] \in Nat
    OBVIOUS
  <2>2. n + 1 \in 1..9 /\ (n + 1) - 1 = n /\ n <= 9
    BY <2>1
  <2>3. g[n] \in Nat
    BY <1>11, <2>2
  <2>4. g[n + 1] = 10 * g[n] + p[n + 1]
    BY <1>5, <2>2
  <2>5. p[n + 1] \in 0..9
    <3>1. CASE n + 1 <= m
      <4>1. n + 1 \in 1..m
        BY <1>1, <3>1
      <4> QED
        BY <1>1, <1>3, <4>1
    <3>2. CASE n + 1 > m
      BY <1>3, <2>2, <3>2
    <3> QED
      BY <1>1, <3>1, <3>2
  <2>6. \A x \in Nat, y \in 0..9 : 10 * x + y \in Nat
    OBVIOUS
  <2>7. 10 * g[n] + p[n + 1] \in Nat
    BY <2>3, <2>5, <2>6, Zenon
  <2> QED
    BY <2>4, <2>7, Zenon
<1>12. \A n \in 0..9 : g[n] \in Nat
  <2> HIDE DEF U
  <2>1. Nat \subseteq U
    BY <1>10, <1>11, Steps, Zenon
  <2> TAKE n \in 0..9
  <2>2. n \in U /\ n <= 9
    BY <2>1
  <2> QED
    BY <2>2 DEF U
<1>13. ASSUME NEW n \in 1..9, n > m
       PROVE  g[n] = 10 * g[n - 1]
  <2>1. g[n] = 10 * g[n - 1] + p[n] /\ p[n] = 0
    BY <1>3, <1>5, <1>13
  <2>2. n - 1 \in 0..9
    OBVIOUS
  <2>3. g[n - 1] \in Nat
    BY <1>12, <2>2
  <2> QED
    BY <2>1, <2>3
<1>14. /\ g[m] = Number(digits) /\ Number(p) = g[9] /\ Number(digits) \in Nat
       /\ \A n \in 1..9 : n > m => g[n] = 10 * g[n - 1]
  BY <1>4, <1>5, <1>9, <1>13, Zenon
<1> QED
  BY <1>14 DEF m, p

(* What Nanoseconds multiplies by. *)
Scale(m) == IF m < 4 THEN 1000000 ELSE IF m < 7 THEN 1000 ELSE 1

(* The scale for m digits is the power of ten that is missing, for three   *)
(* values of m only.                                                       *)
LEMMA ScaleIsRight ==
  ASSUME NEW m \in 0..9, NEW a \in Nat, NEW g, g[m] = a,
         \A n \in 1..9 : n > m => g[n] = 10 * g[n - 1]
  PROVE  a * Scale(m) = g[9]
           <=> m = 3 \/ m = 6 \/ m = 9 \/ a = 0
<1>1. /\ (m < 1 => g[1] = 10 * g[0]) /\ (m < 2 => g[2] = 10 * g[1])
      /\ (m < 3 => g[3] = 10 * g[2]) /\ (m < 4 => g[4] = 10 * g[3])
      /\ (m < 5 => g[5] = 10 * g[4]) /\ (m < 6 => g[6] = 10 * g[5])
      /\ (m < 7 => g[7] = 10 * g[6]) /\ (m < 8 => g[8] = 10 * g[7])
      /\ (m < 9 => g[9] = 10 * g[8])
  <2>1. /\ 1 - 1 = 0 /\ 2 - 1 = 1 /\ 3 - 1 = 2 /\ 4 - 1 = 3 /\ 5 - 1 = 4
        /\ 6 - 1 = 5 /\ 7 - 1 = 6 /\ 8 - 1 = 7 /\ 9 - 1 = 8
    OBVIOUS
  <2>2. \A n \in {1, 2, 3, 4, 5, 6, 7, 8, 9} : n \in 1..9
    OBVIOUS
  <2> QED
    BY <2>1, <2>2
<1>2. CASE m = 0
  BY <1>1, <1>2, SMT DEF Scale
<1>3. CASE m = 1
  BY <1>1, <1>3, SMT DEF Scale
<1>4. CASE m = 2
  BY <1>1, <1>4, SMT DEF Scale
<1>5. CASE m = 3
  BY <1>1, <1>5, SMT DEF Scale
<1>6. CASE m = 4
  BY <1>1, <1>6, SMT DEF Scale
<1>7. CASE m = 5
  BY <1>1, <1>7, SMT DEF Scale
<1>8. CASE m = 6
  BY <1>1, <1>8, SMT DEF Scale
<1>9. CASE m \in {7, 8, 9}
  BY <1>1, <1>9, SMT DEF Scale
<1> QED
  BY <1>2, <1>3, <1>4, <1>5, <1>6, <1>7, <1>8, <1>9

(* Three, six or nine digits are taken for what they are, and so is a      *)
(* fraction of nothing but zeros; every other one is not.                  *)
LEMMA NanosecondsScope ==
  ASSUME NEW digits \in Seq(0..9), Len(digits) <= 9
  PROVE  Nanoseconds(digits) = Number(Padded(digits))
           <=> Len(digits) \in {3, 6, 9} \/ Number(digits) = 0
<1> DEFINE m == Len(digits)
           a == Number(digits)
<1>1. PICK g : /\ g[m] = a /\ Number(Padded(digits)) = g[9] /\ a \in Nat
               /\ \A n \in 1..9 : n > m => g[n] = 10 * g[n - 1]
  BY PaddedIs
<1>2. m \in 0..9
  <2>1. m \in Nat
    OBVIOUS
  <2>2. \A n \in Nat : n <= 9 => n \in 0..9
    OBVIOUS
  <2> QED
    BY <2>1, <2>2, Zenon
<1>3. Nanoseconds(digits) = a * Scale(m)
  BY SMT DEF Nanoseconds, Scale
<1>4. a * Scale(m) = g[9]
        <=> m = 3 \/ m = 6 \/ m = 9 \/ a = 0
  <2> HIDE DEF m, a
  <2> QED
    BY <1>1, <1>2, ScaleIsRight, Zenon
<1> QED
  BY <1>1, <1>3, <1>4, Zenon

(* Where the timestamp of the event is right. *)
FractionsInScope ==
  pc = "ok" => \A i \in DOMAIN doc.members : IsLast("timestamp", i) =>
    LET ts == doc.members[i].value
    IN ts.kind = "number" /\ Len(ts.fraction) <= 9 =>
         (ev.timestamp = Exact(ts)
            <=> Len(ts.fraction) \in {3, 6, 9} \/ Number(ts.fraction) = 0)

(* It follows from the invariant. *)
LEMMA Precisions ==
  ASSUME TypeInv, Phases, Timing
  PROVE  FractionsInScope
<1> SUFFICES ASSUME pc = "ok", NEW i \in DOMAIN doc.members, IsLast("timestamp", i),
                    doc.members[i].value.kind = "number", Len(doc.members[i].value.fraction) <= 9
             PROVE  ev.timestamp = Exact(doc.members[i].value)
                      <=> \/ Len(doc.members[i].value.fraction) \in {3, 6, 9}
                          \/ Number(doc.members[i].value.fraction) = 0
  BY Zenon DEF FractionsInScope
<1> DEFINE ts == doc.members[i].value
<1>1. at = Len(doc.members) + 1 /\ doc \in Docs
  BY Zenon DEF Phases, TypeInv, Within
<1>2. /\ DOMAIN doc.members = 1..Len(doc.members) /\ Len(doc.members) \in Nat
      /\ doc.members[i] \in Range(doc.members)
  BY <1>1, DocMembers
<1>3. doc.members[i].key = "timestamp"
      /\ \A j \in 1..Len(doc.members) : j > i => doc.members[j].key # "timestamp"
  BY <1>2, Zenon DEF IsLast
<1>4. i \in 1..at - 1 /\ \A j \in i + 1..at - 1 : j \in 1..Len(doc.members) /\ j > i
  BY <1>1, <1>2
<1>5. LastBefore(doc, at, i)
  BY <1>3, <1>4, Zenon DEF LastBefore
<1>6. ev.timestamp = Time(ts)
  BY <1>4, <1>5 DEF Timing
<1>7. ts.fraction \in Seq(0..9)
  BY <1>1, <1>2, <1>3, DocsAssumption, Zenon DEF DocsAssumption
<1>8. Nanoseconds(ts.fraction) = Number(Padded(ts.fraction))
        <=> Len(ts.fraction) \in {3, 6, 9} \/ Number(ts.fraction) = 0
  BY <1>7, NanosecondsScope
<1>9. Time(ts) = <<ts.whole, Nanoseconds(ts.fraction)>>
  BY Zenon DEF Time
<1>10. Exact(ts) = <<ts.whole, Number(Padded(ts.fraction))>>
  BY Zenon DEF Exact, Padded
<1>11. ev.timestamp = Exact(ts) <=> Nanoseconds(ts.fraction) = Number(Padded(ts.fraction))
  <2>1. \A w, x, y : <<w, x>> = <<w, y>> <=> x = y
    OBVIOUS
  <2> DEFINE N == Nanoseconds(ts.fraction)
             B == Number(Padded(ts.fraction))
             read == ev.timestamp
             exact == Exact(ts)
             whole == ts.whole
  <2>2. read = <<whole, N>>
    BY <1>6, <1>9, Zenon
  <2>3. exact = <<whole, B>>
    BY <1>10, Zenon
  <2>4. read = exact <=> N = B
    <3> HIDE DEF N, B, read, exact, whole
    <3> QED
      BY <2>1, <2>2, <2>3
  <2> QED
    BY <2>4, Zenon
<1> QED
  BY <1>8, <1>11, Zenon

-----------------------------------------------------------------------------
(* The theorems.                                                           *)

IInv == TypeInv /\ Phases /\ Flattening /\ Reading /\ Refusing /\ Shifting /\ Timing

(* The invariant at the beginning. *)
LEMMA InitHolds == Init => IInv
<1> SUFFICES ASSUME Init
             PROVE  IInv
  OBVIOUS
<1>1. TypeInv /\ Phases
  BY InitTyped, InitPhases
<1>2. Flattening /\ Reading /\ Refusing /\ Shifting /\ Timing
  BY DEF Init, Flattening, Reading, Refusing, Shifting, Timing
<1> QED
  BY <1>1, <1>2 DEF IInv

(* Every step keeps the invariant. *)
LEMMA NextHolds == IInv /\ [Next]_vars => IInv'
<1> SUFFICES ASSUME IInv, [Next]_vars
             PROVE  IInv'
  OBVIOUS
<1>1. TypeInv /\ Phases /\ Flattening /\ Reading /\ Refusing /\ Shifting /\ Timing
  BY Zenon DEF IInv
<1>2. TypeInv' /\ Phases'
  BY <1>1, NextTyped, NextPhases, Zenon
<1>3. Flattening' /\ Reading' /\ Refusing'
  BY <1>1, NextFlattens, NextReads, NextRefuses, Zenon
<1>4. Shifting' /\ Timing'
  BY <1>1, NextShifts, NextTimes, Zenon
<1> QED
  BY <1>2, <1>3, <1>4, Zenon DEF IInv

(* The invariant of the decoder. *)
LEMMA Invariance == Spec => []IInv
BY InitHolds, NextHolds, PTL DEF Spec

(* The maps of contexts and user hold the leaves of the document by their  *)
(* whole paths, the last one of each path, and nothing else: decodeMap.    *)
THEOREM MapsAreFlattened == Spec => []LastLeafWins
<1>1. IInv => LastLeafWins
  <2>1. pc # "ok" => LastLeafWins
    BY Zenon DEF LastLeafWins
  <2> QED
    BY <2>1, EndIsFlattened, Zenon DEF IInv
<1> QED
  BY <1>1, Invariance, PTL

(* What the column UserData shows: the last leaf of a user that is called  *)
(* data as a whole.  A value that is nested in an object called data never *)
(* gets there, since its path goes on.                                     *)
UserDataInScope ==
  pc = "ok" =>
    LET I == {i \in DOMAIN UserLeaves : UserLeaves[i].path = <<"data">>}
    IN IF I = {} THEN UserData = "{}" ELSE UserData = UserLeaves[Max(I)].value.v

(* How far UserDataKept is from the truth: the decoder's names and those   *)
(* that appendUser looks up meet in leaves only.                           *)
THEOREM UserDataScope == Spec => []UserDataInScope
<1>1. IInv => UserDataInScope
  <2> SUFFICES ASSUME IInv, pc = "ok"
               PROVE  UserDataInScope
    BY Zenon DEF UserDataInScope
  <2> DEFINE L == UserLeaves
             I == {i \in DOMAIN L : L[i].path = <<"data">>}
             map == ev.user
             data == <<"data">>
  <2>1. L \in Seq(Item)
    <3>1. FlattenSeq(Said("user", doc)) \in Seq(Item)
      BY SaidType, FlattenType, Zenon DEF IInv, TypeInv, Within, Maps
    <3> QED
      BY <3>1, LeavesLow, SaidByEach, Zenon
  <2>2. IsFlattened(map, L)
    BY EndIsFlattened, Zenon DEF IInv, LastLeafWins
  <2>3. /\ DOMAIN map = {L[i].path : i \in DOMAIN L}
        /\ \A i \in DOMAIN L : \/ map[L[i].path] = L[i].value.v
                               \/ \E j \in DOMAIN L : j > i /\ L[j].path = L[i].path
    BY <2>2, Zenon DEF IsFlattened
  <2>4. Len(L) \in Nat /\ DOMAIN L = 1..Len(L)
    BY <2>1
  <2> HIDE DEF L, map, data
  <2>5. data \in DOMAIN map <=> I # {}
    BY <2>3 DEF data
  <2>6. ASSUME I # {}
        PROVE  map[data] = L[Max(I)].value.v
    <3>1. I \in SUBSET (0..Len(L))
      BY <2>4
    <3>2. Max(I) \in I /\ \A k \in I : k <= Max(I)
      <4> HIDE DEF I
      <4> QED
        BY <2>4, <2>6, <3>1, MaxIs, Zenon
    <3>3. ~ \E j \in DOMAIN L : j > Max(I) /\ L[j].path = data
      <4>1. ASSUME NEW j \in DOMAIN L, L[j].path = data
            PROVE  j \in I
        BY <4>1 DEF data
      <4> DEFINE n == Max(I)
      <4>2. n \in Nat /\ \A j \in DOMAIN L : j \in Nat
        BY <2>4, <3>2
      <4>3. \A j, k \in Nat : j > k => ~(j <= k)
        OBVIOUS
      <4> HIDE DEF I
      <4> QED
        BY <3>2, <4>1, <4>2, <4>3, Zenon
    <3>4. Max(I) \in DOMAIN L /\ L[Max(I)].path = data
      BY <3>2 DEF data
    <3> HIDE DEF I
    <3> QED
      BY <2>3, <3>3, <3>4, Zenon
  <2>7. UserData = IF data \in DOMAIN map THEN map[data] ELSE "{}"
    BY Zenon DEF UserData, map, data
  <2>8. IF I = {} THEN UserData = "{}" ELSE UserData = L[Max(I)].value.v
    BY <2>5, <2>6, <2>7
  <2> QED
    BY <2>8, Zenon DEF UserDataInScope, L
<1> QED
  BY <1>1, Invariance, PTL

(* What Decode accepts is well formed as a whole, at any depth, so that no *)
(* error is lost between decodeMap and the handler; what it refuses is     *)
(* not, unless it has a timestamp that is an integer or out of the reach   *)
(* of ParseInt.                                                            *)
THEOREM EventsAreWhole == Spec => []WholeOrRefused
<1>1. IInv => WholeOrRefused
  BY Wholeness, Zenon DEF IInv
<1> QED
  BY <1>1, Invariance, PTL

(* Adding one to the numbers of exceptions keeps who is whose parent, for  *)
(* numbers of any client that does not count to the greatest int.          *)
THEOREM LinksAreKept == Spec => []LinksSurvive
<1>1. IInv => LinksSurvive
  BY Links, Zenon DEF IInv
<1> QED
  BY <1>1, Invariance, PTL

(* decodeTimestamp reads three, six and nine digits exactly, and the last  *)
(* timestamp of a document counts.                                         *)
THEOREM PrecisionsAreExact == Spec => []CommonPrecisions
<1>1. FractionsInScope => CommonPrecisions
  <2>1. \A n \in {3, 6, 9} : n <= 9
    OBVIOUS
  <2> QED
    BY <2>1, Zenon DEF FractionsInScope, CommonPrecisions
<1>2. IInv => CommonPrecisions
  BY <1>1, Precisions, Zenon DEF IInv
<1> QED
  BY <1>2, Invariance, PTL

(* How far TimestampsAreRead is from the truth: up to nanoseconds, the     *)
(* fraction of a timestamp is read rightly if it has three, six or nine    *)
(* digits or is zero, and wrongly in all other cases.                      *)
THEOREM FractionScope == Spec => []FractionsInScope
<1>1. IInv => FractionsInScope
  BY Precisions, Zenon DEF IInv
<1> QED
  BY <1>1, Invariance, PTL

=============================================================================
