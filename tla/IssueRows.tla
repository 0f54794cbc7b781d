----------------------------- MODULE IssueRows -----------------------------
(***************************************************************************)
(* bugpack/batcher/chbuf: how one event becomes the rows of issue_event.   *)
(*                                                                         *)
(* calcHash sorts the exceptions of the event in place, then hashes them   *)
(* one after the other; the hash of an exception takes in the hash of its  *)
(* parent, looked up in what is computed so far.  append writes a row for  *)
(* the message and one per exception, and looks the parents up again, now  *)
(* that all hashes are known.  A row is not written as one: each of the    *)
(* functions that append calls adds a cell to each of its own columns.     *)
(*                                                                         *)
(* A hash is the term it was computed from: xxh3 is taken to be free of    *)
(* collisions and never 0.  NoHash stands for 0.  Of other values a cell   *)
(* tells where it is from: FromEvent, an exception, or nowhere (Empty).    *)
(***************************************************************************)
EXTENDS Integers, Sequences, Functions

CONSTANTS
  Bodies,         \* level, module, type, value and frames of an exception
  IDs,            \* the exception ids of the events explored
  MaxInt,         \* the greatest int
  MaxExceptions,  \* bound on the length of Envelope.Exception
  FromEvent, Empty

ASSUME IssueRowsAssumption ==
  /\ MaxInt \in Nat /\ MaxExceptions \in Nat
  /\ IDs \subseteq -(MaxInt + 1)..MaxInt

(* Mechanism.ID and Parent are the client's numbers plus one; 0: missing.  *)
Exceptions == [id : IDs, parent : IDs, body : Bodies]

NoHash == <<>>

(* The columns of the insert, with the members of its tuples. *)
Columns ==
  {"Project", "IssueHash", "Level", "Message", "Exception.ParentHash", "Exception.Module",
   "Exception.Type", "Exception.Value", "Exception.Frames", "ClientIP", "SDK.Name",
   "SDK.Version", "Platform", "ServerName", "Environment", "Release", "User.ID", "User.IP",
   "User.Email", "User.Username", "User.Name", "UserData", "Context", "Tags", "Request.URL",
   "Request.Method", "Request.Data", "Request.QueryString", "Request.Cookies",
   "Request.Headers", "Request.Environ", "TraceID", "SpanID", "Timestamp"}

VARIABLES
  message,      \* the event has a message
  request,      \* it has a request
  exc,          \* Envelope.Exception
  hash,         \* excHash
  cols,         \* the cells appended to each column of the buffer
  row,          \* the exceptions that have a row
  pc            \* "sort", "hash", "message", "exceptions" or "done"

event == <<message, request>>
rowvars == <<cols, row>>
vars == <<event, exc, hash, rowvars, pc>>

N == Len(exc)

-----------------------------------------------------------------------------

Wrap(n) == ((n + MaxInt + 1) % (2 * (MaxInt + 1))) - (MaxInt + 1)

(* Faulty: the operands are swapped. *)
CompareSwapped(a, b) == Wrap(b.id - a.id)

(* The function given to slices.SortFunc; a difference may overflow.       *)
Compare(a, b) == Wrap(a.id - b.id)

(* What the sort promises of neighbours (it sorts by insertion what is as  *)
(* short as this): the later one did not move before the earlier one, or   *)
(* the earlier one did before the later.  Equal ids come in either order.  *)
Sorted(s) ==
  \A i \in 1..Len(s)-1 : Compare(s[i+1], s[i]) >= 0 \/ Compare(s[i], s[i+1]) < 0

Rearranged(s) == {[i \in 1..Len(s) |-> s[p[i]]] : p \in Bijection(1..Len(s), 1..Len(s))}

(* parentHash: the entry of the first exception with the id of the parent. *)
ParentHash(x) ==
  LET found == {n \in 1..N : exc[n].id = x.parent}
  IN IF x.parent < 1 \/ found = {} THEN NoHash
     ELSE hash[CHOOSE n \in found : \A k \in found : n <= k]

(* What exceptionFields gives to hashTuple. *)
Combine(parent, body) == <<parent, body>>

-----------------------------------------------------------------------------

Init ==
  /\ message \in BOOLEAN /\ request \in BOOLEAN
  /\ exc \in UNION {[1..n -> Exceptions] : n \in 0..MaxExceptions}
  /\ hash = <<>>
  /\ cols = [x \in Columns |-> <<>>] /\ row = 0
  /\ pc = "sort"

(* Faulty: the exceptions are hashed in the order of the client. *)
SortNot ==
  /\ pc = "sort"
  /\ hash' = [n \in 1..N |-> NoHash]
  /\ pc' = "hash"
  /\ UNCHANGED <<event, exc, rowvars>>

(* calcHash up to its loop: a fresh excHash, all zero. *)
Sort ==
  /\ pc = "sort"
  /\ exc' \in {s \in Rearranged(exc) : Sorted(s)}
  /\ hash' = [n \in 1..N |-> NoHash]
  /\ pc' = "hash"
  /\ UNCHANGED <<event, rowvars>>

(* The loop of calcHash; i is the first entry that is not computed yet. *)
Hash ==
  /\ pc = "hash"
  /\ IF \E n \in 1..N : hash[n] = NoHash
     THEN LET i == CHOOSE n \in 1..N : hash[n] = NoHash /\ \A k \in 1..n-1 : hash[k] # NoHash
          IN /\ hash' = [hash EXCEPT ![i] = Combine(ParentHash(exc[i]), exc[i].body)]
             /\ UNCHANGED pc
     ELSE pc' = "message" /\ UNCHANGED hash
  /\ UNCHANGED <<event, exc, rowvars>>

-----------------------------------------------------------------------------
(* The append functions: each adds a cell to each of these columns.        *)

(* appendBase itself *)
Base ==
  [x \in {"Project", "Level", "ClientIP", "SDK.Name", "SDK.Version", "Platform", "ServerName",
          "Environment", "Release", "Context", "Tags", "TraceID", "SpanID", "Timestamp"}
     |-> FromEvent]

(* appendUser: five of the client's keys by a table, then the data *)
User ==
  [x \in {"User.ID", "User.IP", "User.Email", "User.Username", "User.Name", "UserData"}
     |-> FromEvent]

(* Faulty: one column is forgotten where the function returns early. *)
NoRequestShort ==
  [x \in {"Request.URL", "Request.Method", "Request.Data", "Request.QueryString",
          "Request.Cookies", "Request.Headers"} |-> Empty]

(* appendRequest up to its early return *)
NoRequest ==
  [x \in {"Request.URL", "Request.Method", "Request.Data", "Request.QueryString",
          "Request.Cookies", "Request.Headers", "Request.Environ"} |-> Empty]

(* and after it *)
WithRequest ==
  [x \in {"Request.URL", "Request.Method", "Request.Data", "Request.QueryString",
          "Request.Cookies", "Request.Headers", "Request.Environ"} |-> FromEvent]

MessageHash == <<FromEvent>>

(* appendMessage itself *)
Message ==
  [x \in {"IssueHash", "Message", "Exception.Module", "Exception.Type", "Exception.Value",
          "Exception.Frames", "Exception.ParentHash"}
     |-> CASE x = "IssueHash" -> MessageHash
           [] x = "Message" -> FromEvent
           [] x = "Exception.ParentHash" -> NoHash
           [] OTHER -> Empty]

(* appendException itself *)
Exception(i) ==
  [x \in {"IssueHash", "Message", "Exception.Module", "Exception.Type", "Exception.Value",
          "Exception.Frames", "Exception.ParentHash"}
     |-> CASE x = "IssueHash" -> hash[i]
           [] x = "Message" -> Empty
           [] x = "Exception.ParentHash" -> ParentHash(exc[i])
           [] OTHER -> exc[i].body]

(* The cells that column x gets from a function, from appendBase with the  *)
(* two that it calls, and from all that append one row.                    *)
Cells(f, x) == IF x \in DOMAIN f THEN <<f[x]>> ELSE <<>>

BaseCells(x) ==
  Cells(Base, x) \o Cells(User, x) \o Cells(IF request THEN WithRequest ELSE NoRequest, x)

MessageCells(x) == BaseCells(x) \o Cells(Message, x)

ExceptionCells(i, x) == BaseCells(x) \o Cells(Exception(i), x)

(* append, its first half *)
AppendMessage ==
  /\ pc = "message"
  /\ cols' = (IF message THEN [x \in Columns |-> cols[x] \o MessageCells(x)] ELSE cols)
  /\ pc' = "exceptions"
  /\ UNCHANGED <<event, exc, hash, row>>

(* Faulty: only the outermost exception leaves a row. *)
AppendLast ==
  /\ pc = "exceptions"
  /\ IF row < N
     THEN /\ cols' = [x \in Columns |-> cols[x] \o ExceptionCells(N, x)]
          /\ row' = N
          /\ UNCHANGED pc
     ELSE pc' = "done" /\ UNCHANGED rowvars
  /\ UNCHANGED <<event, exc, hash>>

(* range e.Exception *)
AppendException ==
  /\ pc = "exceptions"
  /\ IF row < N
     THEN /\ cols' = [x \in Columns |-> cols[x] \o ExceptionCells(row + 1, x)]
          /\ row' = row + 1
          /\ UNCHANGED pc
     ELSE pc' = "done" /\ UNCHANGED rowvars
  /\ UNCHANGED <<event, exc, hash>>

Done == pc = "done" /\ UNCHANGED vars

Next == Sort \/ Hash \/ AppendMessage \/ AppendException \/ Done

Spec == Init /\ [][Next]_vars

-----------------------------------------------------------------------------
(* What the hash is meant to be, without any order: an exception with a    *)
(* parent of smaller id is identified by its whole chain of parents.       *)
DistinctIDs == \A i, j \in 1..N : exc[i].id = exc[j].id => i = j

HasID(k) == \E n \in 1..N : exc[n].id = k

WithID(k) == exc[CHOOSE n \in 1..N : exc[n].id = k]

Chain[k \in IDs] ==
  LET x == WithID(k)
      known == x.parent > 0 /\ HasID(x.parent) /\ x.parent < k
  IN IF HasID(k) THEN Combine(IF known THEN Chain[x.parent] ELSE NoHash, x.body) ELSE NoHash

Complete == pc = "done"

Offset == IF message THEN 1 ELSE 0

(* The hash groups events into issues, so it must not depend on the order  *)
(* in which the client listed the exceptions: with distinct ids, of which  *)
(* no two are further apart than an int reaches, it is a function of the   *)
(* exception and its chain of parents.                                     *)
InReach == \A i, j \in 1..N : exc[i].id - exc[j].id <= MaxInt

OrderInsensitive ==
  Complete /\ DistinctIDs /\ InReach => \A i \in 1..N : hash[i] = Chain[exc[i].id]

(* A stored ParentHash leads to a row of the same event: the exceptions of *)
(* an event can be followed from child to parent by their hashes.          *)
ParentsResolve ==
  Complete =>
    \A r \in DOMAIN cols["Exception.ParentHash"] :
      LET p == cols["Exception.ParentHash"][r]
      IN p # NoHash => \E q \in DOMAIN cols["IssueHash"] : cols["IssueHash"][q] = p

(* Where ids are distinct and parents come before their children, the      *)
(* stored ParentHash is the one that went into the hash of the row, though *)
(* the two are looked up at different times.                               *)
ParentAgrees ==
  Complete /\ DistinctIDs /\ InReach /\ (\A i \in 1..N : exc[i].parent < exc[i].id \/ ~HasID(exc[i].parent))
    => \A i \in 1..N : cols["Exception.ParentHash"][Offset + i] = cols["IssueHash"][Offset + i][1]

(* The message and every exception leave exactly one cell in every column, *)
(* so that the cells at one place are one row, whatever the event lacks    *)
(* and whichever of the functions fill the columns; what tells rows apart  *)
(* is that of its own exception, or the message.  An event without them    *)
(* leaves no row: this is Rows in Batcher.                                 *)
ExceptionColumns == {"Exception.Module", "Exception.Type", "Exception.Value", "Exception.Frames"}

RowsComplete ==
  Complete =>
    /\ \A x \in Columns : Len(cols[x]) = Offset + N
    /\ \A i \in 1..N : /\ cols["Message"][Offset + i] = Empty
                        /\ \A x \in ExceptionColumns : cols[x][Offset + i] = exc[i].body
    /\ message => /\ cols["Message"][1] = FromEvent
                  /\ \A x \in ExceptionColumns : cols[x][1] = Empty

=============================================================================
