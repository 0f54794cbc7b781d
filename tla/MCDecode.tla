------------------------------ MODULE MCDecode ------------------------------
(***************************************************************************)
(* The envelopes explored: every timestamp up to ten digits of 0 and 1, of *)
(* which those of ten ones are out of reach; every pair of exceptions with *)
(* numbers from -1 to the greatest one; contexts and users of two levels   *)
(* with names that collide; and pairs of members.                          *)
(***************************************************************************)
EXTENDS Decode

MCTimestamp(kinds, wholes, fractions) == [kind : kinds, whole : wholes, fraction : fractions]

MCTimestamps ==
  MCTimestamp({"number"}, {0, 1}, BoundedSeq({0, 1}, 10))
    \cup MCTimestamp({"number"}, {MaxInt64 + 1}, {<<>>, <<1>>})
    \cup MCTimestamp({"exponent", "date"}, {1}, {<<>>, <<1>>})
    \cup MCTimestamp({"text", "invalid"}, {0}, {<<>>})

MCGiven == {<<>>} \cup {<<n>> : n \in -1..MaxInt}

MCExceptions ==
  [form : {"array", "object", "invalid"},
   values : BoundedSeq([id : MCGiven, parent : MCGiven], 2)]

MCMembers(names, values, n) == BoundedSeq([key : names, value : values], n)

MCLeaves == {[kind |-> "leaf", v |-> "nil"], [kind |-> "leaf", v |-> "x"], [kind |-> "invalid"]}

MCObjects(members) == {[kind |-> "object", members |-> s] : s \in members}

MCNames == {<<"a">>, <<"b">>, <<"a", "b">>}

MCFlat == MCObjects(MCMembers(MCNames, MCLeaves, 1))

MCNested == MCObjects(MCMembers(MCNames, MCLeaves \cup MCFlat, 2))

MCContexts ==
  MCObjects(MCMembers({<<"os">>, <<"trace">>}, MCFlat \cup MCLeaves, 2)
              \cup MCMembers({<<"os">>}, MCNested, 1))
    \cup {[kind |-> "invalid"]}

(* The user: names that collide with the members of its data. *)
MCUserNames == {<<"id">>, <<"data">>, <<"data", "id">>}

MCUserData == MCObjects(MCMembers(MCUserNames, MCLeaves, 1))

MCUsers == MCObjects(MCMembers(MCUserNames, MCLeaves \cup MCUserData, 2)) \cup {[kind |-> "invalid"]}

MCMember(k, values) == {[key |-> k, value |-> v] : v \in values}

(* One member of each kind, good and bad. *)
MCFew ==
  LET x == [kind |-> "leaf", v |-> "x"]
      nil == [kind |-> "leaf", v |-> "nil"]
      context(n, v) == [kind |-> "object", members |->
        <<[key |-> <<n>>, value |-> [kind |-> "object", members |-> <<[key |-> <<"a">>, value |-> v]>>]]>>]
  IN MCMember("timestamp", {ts \in MCTimestamps : Len(ts.fraction) \in {0, 3} /\ (ts.kind = "number" => ts.whole = 0)})
       \cup MCMember("contexts", {context("os", x), context("app", nil), context("app", [kind |-> "invalid"])})
       \cup MCMember("user", MCUserData)
       \cup MCMember("exception", {e \in MCExceptions : Len(e.values) <= 1 /\ \A i \in DOMAIN e.values :
                                     e.values[i].id = <<0>> /\ e.values[i].parent \in {<<>>, <<0>>}})
       \cup MCMember("other", {[kind |-> "leaf", v |-> "x"], [kind |-> "invalid"]})

MCBodies ==
  {<<m>> : m \in MCMember("timestamp", MCTimestamps)
                   \cup MCMember("exception", MCExceptions)
                   \cup MCMember("contexts", MCContexts)
                   \cup MCMember("user", MCUsers)}
    \cup BoundedSeq(MCFew, 2)

MCParts == {"a", "b", "id", "data", "os", "app", "trace"}

MCValues == MCLeaves \cup MCFlat \cup MCNested \cup MCUserData

RECURSIVE MCDepthOf(_)
MCDepthOf(v) ==
  IF v.kind # "object" THEN 0
  ELSE 1 + Max({0} \cup {MCDepthOf(v.members[i].value) : i \in DOMAIN v.members})

MCDepth == [v \in MCValues |-> MCDepthOf(v)]

MCDocs ==
  {[type |-> "event", members |-> s] : s \in MCBodies}
    \cup [type : {"session", "invalid"}, members : BoundedSeq(MCFew, 1)]

=============================================================================
