------------------------------- MODULE Decode -------------------------------
(***************************************************************************)
(* bugpack/envelope/decoder.go: how one envelope is decoded, token by      *)
(* token, into the event that a handler batches.                           *)
(*                                                                         *)
(* An envelope is what the parser jx (external) makes of the body: the     *)
(* header of its first item and the members of the object that follows,    *)
(* in the order of the document.  Only the members whose decoding has more *)
(* to get wrong than the type of a value are told apart: timestamp,        *)
(* contexts, user, exception.                                              *)
(* A value that is refused for its syntax or its type is "invalid".  The v *)
(* of a leaf is what decodeMap has read, for a number after Float64.       *)
(*                                                                         *)
(* Names are sequences of the parts between their dots, so that            *)
(* Sprintf("%s.%s", ...) in decodeMap is concatenation, and "a.b" is the   *)
(* path of a member a.b as well as of b within a.                          *)
(***************************************************************************)
EXTENDS Integers, SequencesExt

CONSTANTS
  Docs,           \* the envelopes explored
  Names,          \* the parts of names
  Values,         \* the values within contexts and users, and those within them
  Depth,          \* how deep a value is nested
  MaxDepth,       \* the limit that jx sets to nesting
  MaxInt,         \* the greatest Go int
  MaxInt64        \* the greatest number that ParseInt returns

(* The members of an object within contexts or user. *)
Members == [key : Seq(Names), value : Values]

(* A number that may be missing. *)
Given == {<<>>} \cup {<<n>> : n \in -MaxInt-1..MaxInt}

Exceptions == [id : Given, parent : Given]

ASSUME ValuesAssumption ==
  /\ MaxDepth \in Nat
  /\ Depth \in [Values -> 0..MaxDepth]
  /\ \A v \in Values :
       /\ v.kind \in {"leaf", "invalid", "object"}
       /\ v.kind = "object" =>
            /\ Depth[v] # 0
            /\ v.members \in Seq(Members)
            /\ \A i \in DOMAIN v.members : Depth[v.members[i].value] < Depth[v]

ASSUME DocsAssumption ==
  /\ MaxInt \in Nat
  /\ \A d \in Docs :
       /\ d.members \in Seq(Range(d.members))
       /\ \A m \in Range(d.members) :
            /\ m.key = "timestamp" =>
                 /\ m.value.kind \in {"number", "exponent", "date", "text", "invalid"}
                 /\ m.value.fraction \in Seq(0..9)
            /\ m.key = "exception" =>
                 m.value.form \in {"array", "object", "invalid"} /\ m.value.values \in Seq(Exceptions)
            /\ m.key \in {"contexts", "user"} /\ m.value.kind = "object" => m.value.members \in Seq(Members)

VARIABLES
  doc,            \* [type, members]
  at,             \* the member of the event that is decoded
  stack,          \* the objects within contexts or user that are open, innermost last
  ev,             \* Event: timestamp <<s, ns>>, contexts, user, exceptions
  pc              \* "header", "event", or how Decode returned: "ok",
                  \* "none" (ErrNonEventType) or "error"

vars == <<doc, at, stack, ev, pc>>

NoEvent == [timestamp |-> <<0, 0>>, contexts |-> <<>>, user |-> <<>>, exceptions |-> <<>>]

Init ==
  /\ doc \in Docs
  /\ at = 1
  /\ stack = <<>>
  /\ ev = NoEvent
  /\ pc = "header"

Fail ==
  /\ pc' = "error"
  /\ UNCHANGED <<doc, at, stack, ev>>

(* Header.Decode, and the type of the item. *)
DecodeHeader ==
  /\ pc = "header"
  /\ pc' = CASE doc.type = "invalid" -> "error"
             [] doc.type = "event"   -> "event"
             [] OTHER                -> "none"
  /\ UNCHANGED <<doc, at, stack, ev>>

Key == doc.members[at].key

Value == doc.members[at].value

(* The member whose key Event.Decode has just read. *)
Member(key) ==
  /\ pc = "event" /\ stack = <<>>
  /\ at <= Len(doc.members)
  /\ Key = key

-----------------------------------------------------------------------------
(* Timestamps.                                                             *)

Number(digits) ==
  LET Read[n \in 0..Len(digits)] == IF n = 0 THEN 0 ELSE 10 * Read[n - 1] + digits[n]
  IN Read[Len(digits)]

(* Faulty: six digits are taken for nanoseconds. *)
NanosecondsSix(digits) ==
  Number(digits) * (IF Len(digits) < 4 THEN 1000000 ELSE IF Len(digits) < 6 THEN 1000 ELSE 1)

(* The fraction of a number: its digits count milli-, micro- or            *)
(* nanoseconds, depending on how many there are.                           *)
Nanoseconds(digits) ==
  Number(digits) * (IF Len(digits) < 4 THEN 1000000 ELSE IF Len(digits) < 7 THEN 1000 ELSE 1)

(* Nine digits of a fraction are nanoseconds. *)
Exact(ts) ==
  <<ts.whole, Number([i \in 1..9 |-> IF i <= Len(ts.fraction) THEN ts.fraction[i] ELSE 0])>>

(* ParseInt, on both sides of the dot, wants digits only and not too many. *)
OutOfReach(ts) ==
  \/ ts.kind = "exponent"
  \/ ts.kind = "number" /\ (ts.whole > MaxInt64 \/ Number(ts.fraction) > MaxInt64)

(* decodeTimestamp.  A number without a dot is read twice, by Raw and then *)
(* by Int64, which finds the comma or brace after it and fails.  A string  *)
(* is a date or, for time.Parse, just a text.                              *)
DecodeTimestamp ==
  /\ Member("timestamp")
  /\ CASE Value.kind = "number" /\ Value.fraction # <<>> /\ ~OutOfReach(Value) ->
            /\ ev' = [ev EXCEPT !.timestamp = <<Value.whole, Nanoseconds(Value.fraction)>>]
            /\ at' = at + 1
            /\ UNCHANGED <<doc, stack, pc>>
       [] Value.kind = "date" ->
            /\ ev' = [ev EXCEPT !.timestamp = Exact(Value)]
            /\ at' = at + 1
            /\ UNCHANGED <<doc, stack, pc>>
       [] OTHER -> Fail

-----------------------------------------------------------------------------
(* Exceptions.                                                             *)

(* Go's int wraps around. *)
Wrap(n) == IF n > MaxInt THEN n - 2 * (MaxInt + 1) ELSE n

(* Faulty: as the client sent it. *)
PlusNone(given) == IF given = <<>> THEN 0 ELSE given[1]

(* plusOne, and the zero value of a member that is missing. *)
PlusOne(given) == IF given = <<>> THEN 0 ELSE Wrap(given[1] + 1)

(* Array.Decode appends, also to what an earlier member has left there. *)
DecodeException ==
  /\ Member("exception")
  /\ IF Value.form \in {"array", "object"}
     THEN /\ ev' = [ev EXCEPT !.exceptions = @ \o
                      [i \in DOMAIN Value.values |-> [id     |-> PlusOne(Value.values[i].id),
                                                      parent |-> PlusOne(Value.values[i].parent)]]]
          /\ at' = at + 1
          /\ UNCHANGED <<doc, stack, pc>>
     ELSE Fail

-----------------------------------------------------------------------------
(* Contexts, an object of objects flattened into one map, and the user, an *)
(* object flattened into another.                                          *)

OpenObject(key) ==
  /\ Member(key)
  /\ IF Value.kind = "object"
     THEN /\ stack' = <<[rest |-> Value.members, prefix |-> <<>>]>>
          /\ UNCHANGED <<doc, at, ev, pc>>
     ELSE Fail

DecodeContexts == OpenObject("contexts")

DecodeUser == OpenObject("user")

Top == Last(stack)

Rest == [Top EXCEPT !.rest = Tail(@)]

Beneath == Front(stack)

(* decodeTrace wants values that jx accepts. *)
IsTrace(m) == m.key = <<"trace">>

Readable(m) == \A i \in DOMAIN m.value.members : m.value.members[i].value.kind # "invalid"

(* A context by its name: decodeTrace for the one called trace, decodeMap  *)
(* for all others, which forgets the name.                                 *)
DecodeContext ==
  /\ pc = "event" /\ Len(stack) = 1 /\ Top.rest # <<>>
  /\ Key = "contexts"
  /\ LET m == Head(Top.rest)
     IN IF m.value.kind # "object" \/ (IsTrace(m) /\ ~Readable(m)) THEN Fail
        ELSE /\ stack' = IF IsTrace(m)
                         THEN <<Rest>>
                         ELSE <<Rest, [rest |-> m.value.members, prefix |-> <<>>]>>
             /\ UNCHANGED <<doc, at, ev, pc>>

(* Within decodeMap: the members of the user, and those of a context. *)
InMap(kind) ==
  /\ pc = "event" /\ stack # <<>> /\ Top.rest # <<>>
  /\ Key = "user" \/ Len(stack) > 1
  /\ Head(Top.rest).value.kind = kind

Path == Top.prefix \o Head(Top.rest).key

(* The map behind dst, which is &e.Contexts or &e.User, at path. *)
Put(path, v) ==
  ev' = [ev EXCEPT ![Key] = [p \in DOMAIN @ \cup {path} |-> IF p = path THEN v ELSE @[p]]]

(* Faulty: the prefix is forgotten. *)
DecodeLeafBare ==
  /\ InMap("leaf")
  /\ Put(Head(Top.rest).key, Head(Top.rest).value.v)
  /\ stack' = Append(Beneath, Rest)
  /\ UNCHANGED <<doc, at, pc>>

DecodeLeaf ==
  /\ InMap("leaf")
  /\ Put(Path, Head(Top.rest).value.v)
  /\ stack' = Append(Beneath, Rest)
  /\ UNCHANGED <<doc, at, pc>>

(* decodeMap calls itself with the same map and a longer prefix. *)
DecodeNested ==
  /\ InMap("object")
  /\ stack' = Append(Beneath, Rest)
                \o <<[rest |-> Head(Top.rest).value.members, prefix |-> Path]>>
  /\ UNCHANGED <<doc, at, ev, pc>>

(* Faulty: an object within an object ends in silence where it is invalid. *)
DecodeInvalidSilently ==
  /\ InMap("invalid")
  /\ stack' = Beneath
  /\ UNCHANGED <<doc, at, ev, pc>>

DecodeInvalid == InMap("invalid") /\ Fail

(* The end of an object. *)
Close ==
  /\ pc = "event" /\ stack # <<>> /\ Top.rest = <<>>
  /\ stack' = Beneath
  /\ at' = (IF Len(stack) = 1 THEN at + 1 ELSE at)
  /\ UNCHANGED <<doc, ev, pc>>

-----------------------------------------------------------------------------

(* A member that is read for its type, or just skipped. *)
DecodeOther ==
  /\ Member("other")
  /\ IF Value.kind = "invalid" THEN Fail
     ELSE at' = at + 1 /\ UNCHANGED <<doc, stack, ev, pc>>

Finish ==
  /\ pc = "event" /\ stack = <<>> /\ at > Len(doc.members)
  /\ pc' = "ok"
  /\ UNCHANGED <<doc, at, stack, ev>>

(* chbuf.appendUser: the column UserData of the rows of the event. *)
UserData == IF <<"data">> \in DOMAIN ev.user THEN ev.user[<<"data">>] ELSE "{}"

Returned == pc \in {"ok", "none", "error"} /\ UNCHANGED vars

Next ==
  \/ DecodeHeader
  \/ DecodeTimestamp \/ DecodeException \/ DecodeOther
  \/ DecodeContexts \/ DecodeUser \/ DecodeContext
  \/ DecodeLeaf \/ DecodeNested \/ DecodeInvalid \/ Close
  \/ Finish
  \/ Returned

Spec == Init /\ [][Next]_vars

-----------------------------------------------------------------------------
(* What the document says, without a decoder.                              *)

(* What members called key say, one after the other. *)
Each(key, Says(_)) ==
  FlattenSeq([i \in DOMAIN doc.members |->
    IF doc.members[i].key = key THEN Says(doc.members[i].value) ELSE <<>>])

IsLast(key, i) ==
  /\ doc.members[i].key = key
  /\ \A j \in DOMAIN doc.members : j > i => doc.members[j].key # key

(* The members of an object by their paths. *)
Items(members, prefix) ==
  [i \in DOMAIN members |-> [path |-> prefix \o members[i].key, value |-> members[i].value]]

Opened(item) ==
  IF item.value.kind = "object" THEN Items(item.value.members, item.path) ELSE <<item>>

OpenAll(items) == FlattenSeq([i \in DOMAIN items |-> Opened(items[i])])

(* The leaves of all items in the order of the document. *)
Leaves(items) ==
  LET Within[n \in 0..MaxDepth] == IF n = 0 THEN items ELSE OpenAll(Within[n - 1]) IN Within[MaxDepth]

UserItems(v) == IF v.kind = "object" THEN Items(v.members, <<>>) ELSE <<>>

UserLeaves == Leaves(Each("user", UserItems))

(* The name of a context is not part of the paths within it. *)
Contexts(members) ==
  FlattenSeq([i \in DOMAIN members |->
    IF IsTrace(members[i]) THEN <<>> ELSE <<[path |-> <<>>, value |-> members[i].value]>>])

ContextItems(v) == IF v.kind = "object" THEN Contexts(v.members) ELSE <<>>

ContextLeaves == Leaves(Each("contexts", ContextItems))

Sent == Each("exception", LAMBDA v : v.values)

IsContext(m) == m.value.kind = "object" /\ (IsTrace(m) => Readable(m))

IsMember(m) ==
  CASE m.key = "timestamp" -> m.value.kind \in {"number", "exponent", "date"}
    [] m.key = "exception" -> m.value.form # "invalid"
    [] m.key = "contexts"  ->
         m.value.kind = "object" /\ \A i \in DOMAIN m.value.members : IsContext(m.value.members[i])
    [] m.key = "user"      -> m.value.kind = "object"
    [] OTHER -> m.value.kind # "invalid"

WellFormed ==
  /\ \A i \in DOMAIN doc.members : IsMember(doc.members[i])
  /\ \A i \in DOMAIN ContextLeaves : ContextLeaves[i].value.kind = "leaf"
  /\ \A i \in DOMAIN UserLeaves : UserLeaves[i].value.kind = "leaf"

(* Fractions of three, six and nine digits, as SDKs print milli-, micro-   *)
(* and nanoseconds, are read exactly.                                      *)
CommonPrecisions ==
  pc = "ok" => \A i \in DOMAIN doc.members : IsLast("timestamp", i) =>
    LET ts == doc.members[i].value
    IN ts.kind = "number" /\ Len(ts.fraction) \in {3, 6, 9} => ev.timestamp = Exact(ts)

IsFlattened(map, leaves) ==
  /\ DOMAIN map = {leaves[i].path : i \in DOMAIN leaves}
  /\ \A i \in DOMAIN leaves :
       \/ map[leaves[i].path] = leaves[i].value.v
       \/ \E j \in DOMAIN leaves : j > i /\ leaves[j].path = leaves[i].path

(* Nothing in the contexts or in the user disappears but for a later value *)
(* of the same path, whether that path was written with dots or by         *)
(* nesting, and whatever contexts the two are in; and nothing gets from    *)
(* the one map into the other.                                             *)
LastLeafWins ==
  pc = "ok" => IsFlattened(ev.contexts, ContextLeaves) /\ IsFlattened(ev.user, UserLeaves)

(* Data that the client sends with the user, an object with some value in  *)
(* it, is not empty in the rows of the event.                              *)
UserDataKept ==
  LET sent == \E m \in Range(doc.members) :
                /\ m.key = "user" /\ m.value.kind = "object"
                /\ \E data \in Range(m.value.members) :
                     /\ data.key = <<"data">> /\ data.value.kind = "object"
                     /\ Leaves(Items(data.value.members, <<>>)) # <<>>
  IN pc = "ok" /\ sent => UserData # "{}"

(* The links between exceptions survive the shift of their numbers: a      *)
(* parent is found by the decoded numbers exactly if the client named it,  *)
(* and one that the client left out is told apart from number 0.           *)
LinksSurvive ==
  pc = "ok" =>
    /\ Len(ev.exceptions) = Len(Sent)
    /\ \A i, j \in DOMAIN Sent :
         LET parent == Sent[i].parent
             id     == Sent[j].id
             plain(given) == given = <<>> \/ given[1] \in 0..MaxInt-1
         IN plain(parent) /\ plain(id) =>
              (ev.exceptions[i].parent # 0 /\ ev.exceptions[i].parent = ev.exceptions[j].id
                 <=> parent # <<>> /\ parent = id)

IsInteger(ts) == ts.kind = "number" /\ ts.fraction = <<>>

(* What one of the timestamps is. *)
HasTimestamp(Is(_)) ==
  \E i \in DOMAIN doc.members : doc.members[i].key = "timestamp" /\ Is(doc.members[i].value)

(* An error at any depth refuses the whole event: what is batched was      *)
(* decoded to its end.  And nothing else does, but for a timestamp that is *)
(* an integer or out of ParseInt's reach.                                  *)
WholeOrRefused ==
  /\ pc = "ok" => doc.type = "event" /\ WellFormed
  /\ pc = "error" => \/ doc.type = "invalid" \/ ~WellFormed
                     \/ HasTimestamp(IsInteger) \/ HasTimestamp(OutOfReach)
  /\ pc = "none" => doc.type \notin {"event", "invalid"} /\ ev = NoEvent

(* A timestamp is read for what it is.  One in whole seconds, for which    *)
(* decodeTimestamp has a branch of its own, refuses no event, and a        *)
(* fraction counts by its digits, however many the client prints (the      *)
(* shortest form of a float drops the last zeros).  Neither holds.         *)
TimestampsAreRead ==
  /\ pc = "error" => doc.type = "invalid" \/ ~WellFormed \/ HasTimestamp(OutOfReach)
  /\ pc = "ok" => \A i \in DOMAIN doc.members : IsLast("timestamp", i) =>
       LET ts == doc.members[i].value
       IN ts.kind = "number" => ev.timestamp = Exact(ts)

=============================================================================
