------------------------------ MODULE Migrate ------------------------------
(***************************************************************************)
(* bugpack/chconn/migrate.go: `bugpack migrate`, possibly run by several   *)
(* processes at once (one per replica that is deployed) and run again      *)
(* after one of them died or the database refused a query.                 *)
(*                                                                         *)
(* A migration file is a number in the order of the file names, and a      *)
(* statement is a pair <<file, place in the file>>: the statements are the *)
(* queries that the loop of migrate cuts out of the text of the file.      *)
(* Every statement is CREATE ... IF NOT EXISTS: executing it again changes *)
(* nothing.  There are no transactions: each statement takes effect on its *)
(* own, and so does the row that records the file.                         *)
(*                                                                         *)
(* A process that ends early, killed or by an error of conn.Do, takes      *)
(* Abort.  A query that was executed although its answer was lost is the   *)
(* query followed by Abort.                                                *)
(***************************************************************************)
EXTENDS Naturals, MigrationText

CONSTANTS
  Migrators,    \* the processes
  Files,        \* the embedded files, numbered in the order of their names
  Content,      \* the text of each file
  MaxLength     \* bound on the length of the texts that are cut by themselves

ASSUME MigrateAssumption ==
  /\ Files \subseteq Nat
  /\ Content \in [Files -> Seq(Alphabet)]
  /\ MaxLength \in Nat

VARIABLES
  pc,           \* where each process is; "ok" and "failed" are exit codes 0 and 1
  todo,         \* names: the files each process has still to record
  place,        \* the statements it has executed of the file it is in
  table,        \* the table migrations exists
  schema,       \* the statements that have taken effect
  recorded,     \* the rows of each file in the table migrations (2: two or more)
  overlap       \* two processes were at work at the same time

vars == <<pc, todo, place, table, schema, recorded, overlap>>

(* The number of statements in each file. *)
Count == [f \in Files |-> Len(Queries(Content[f]))]

Statements == {s \in Files \X Nat : s[2] \in 1..Count[s[1]]}

Working(m) == pc[m] \in {"create", "select", "loop"}

(* The file a process is in: the first of the sorted names. *)
IsFirst(f, S) == f \in S /\ \A g \in S : f <= g

TypeOK ==
  /\ pc \in [Migrators -> {"off", "create", "select", "loop", "ok", "failed"}]
  /\ todo \in [Migrators -> SUBSET Files]
  /\ place \in [Migrators -> Nat]
  /\ table \in BOOLEAN
  /\ schema \subseteq Statements
  /\ recorded \in [Files -> 0..2]
  /\ overlap \in BOOLEAN

Init ==
  /\ pc = [m \in Migrators |-> "off"]
  /\ todo = [m \in Migrators |-> {}]
  /\ place = [m \in Migrators |-> 0]
  /\ table = FALSE
  /\ schema = {}
  /\ recorded = [f \in Files |-> 0]
  /\ overlap = FALSE

-----------------------------------------------------------------------------

(* The command is run, for the first time or again. *)
Start(m) ==
  /\ ~Working(m)
  /\ pc' = [pc EXCEPT ![m] = "create"]
  /\ overlap' = (overlap \/ \E n \in Migrators : Working(n))
  /\ UNCHANGED <<todo, place, table, schema, recorded>>

(* CREATE TABLE IF NOT EXISTS migrations *)
CreateTable(m) ==
  /\ pc[m] = "create"
  /\ table' = TRUE
  /\ pc' = [pc EXCEPT ![m] = "select"]
  /\ UNCHANGED <<todo, place, schema, recorded, overlap>>

(* Faulty: the table of migrations is not consulted. *)
AppliedNone(m) ==
  /\ pc[m] = "select"
  /\ table
  /\ todo' = [todo EXCEPT ![m] = Files]
  /\ place' = [place EXCEPT ![m] = 0]
  /\ pc' = [pc EXCEPT ![m] = "loop"]
  /\ UNCHANGED <<table, schema, recorded, overlap>>

(* Applied, and the names that are left when what it returned is skipped. *)
Applied(m) ==
  /\ pc[m] = "select"
  /\ table
  /\ todo' = [todo EXCEPT ![m] = {f \in Files : recorded[f] = 0}]
  /\ place' = [place EXCEPT ![m] = 0]
  /\ pc' = [pc EXCEPT ![m] = "loop"]
  /\ UNCHANGED <<table, schema, recorded, overlap>>

(* Faulty: the names are not sorted. *)
ExecAnyFile(m) ==
  /\ pc[m] = "loop"
  /\ \E f \in todo[m] :
       /\ place[m] < Count[f]
       /\ schema' = schema \cup {<<f, place[m] + 1>>}
       /\ place' = [place EXCEPT ![m] = @ + 1]
  /\ UNCHANGED <<pc, todo, table, recorded, overlap>>

(* One turn of the loop in migrate: the next statement is executed. *)
Exec(m) ==
  /\ pc[m] = "loop"
  /\ \E f \in todo[m] :
       /\ IsFirst(f, todo[m])
       /\ place[m] < Count[f]
       /\ schema' = schema \cup {<<f, place[m] + 1>>}
       /\ place' = [place EXCEPT ![m] = @ + 1]
  /\ UNCHANGED <<pc, todo, table, recorded, overlap>>

(* Faulty: the error of migrate is ignored. *)
SaveUnchecked(m) ==
  /\ pc[m] = "loop"
  /\ \E f \in todo[m] :
       /\ IsFirst(f, todo[m])
       /\ recorded' = [recorded EXCEPT ![f] = IF @ = 0 THEN 1 ELSE 2]
       /\ todo' = [todo EXCEPT ![m] = @ \ {f}]
       /\ place' = [place EXCEPT ![m] = 0]
  /\ UNCHANGED <<pc, table, schema, overlap>>

(* Faulty: the place in the file is not reset for the next one. *)
SaveKeepsPlace(m) ==
  /\ pc[m] = "loop"
  /\ \E f \in todo[m] :
       /\ IsFirst(f, todo[m])
       /\ place[m] = Count[f]
       /\ recorded' = [recorded EXCEPT ![f] = IF @ = 0 THEN 1 ELSE 2]
       /\ todo' = [todo EXCEPT ![m] = @ \ {f}]
  /\ UNCHANGED <<pc, place, table, schema, overlap>>

(* save, once migrate has returned without an error; the table has no key  *)
(* that would refuse a second row.                                         *)
Save(m) ==
  /\ pc[m] = "loop"
  /\ \E f \in todo[m] :
       /\ IsFirst(f, todo[m])
       /\ place[m] = Count[f]
       /\ recorded' = [recorded EXCEPT ![f] = IF @ = 0 THEN 1 ELSE 2]
       /\ todo' = [todo EXCEPT ![m] = @ \ {f}]
       /\ place' = [place EXCEPT ![m] = 0]
  /\ UNCHANGED <<pc, table, schema, overlap>>

(* Faulty: the first file ends the loop. *)
FinishEarly(m) ==
  /\ pc[m] = "loop"
  /\ todo[m] # Files
  /\ pc' = [pc EXCEPT ![m] = "ok"]
  /\ UNCHANGED <<todo, place, table, schema, recorded, overlap>>

(* Migrate returns nil. *)
Finish(m) ==
  /\ pc[m] = "loop"
  /\ todo[m] = {}
  /\ pc' = [pc EXCEPT ![m] = "ok"]
  /\ UNCHANGED <<todo, place, table, schema, recorded, overlap>>

(* An error ends the command, or it is killed. *)
Abort(m) ==
  /\ Working(m)
  /\ pc' = [pc EXCEPT ![m] = "failed"]
  /\ UNCHANGED <<todo, place, table, schema, recorded, overlap>>

Step(m) == CreateTable(m) \/ Applied(m) \/ Exec(m) \/ Save(m) \/ Finish(m)

Next == \E m \in Migrators : Start(m) \/ Step(m) \/ Abort(m)

Spec == Init /\ [][Next]_vars

(* A process that runs proceeds, and whoever deploys runs a failed command *)
(* again.                                                                  *)
Fairness == \A m \in Migrators :
  /\ WF_vars(Step(m))
  /\ WF_vars(pc[m] \in {"off", "failed"} /\ Start(m))

FairSpec == Spec /\ Fairness

-----------------------------------------------------------------------------
(* A text is sent statement by statement exactly if it is written with a   *)
(* semicolon after each of them and at most one byte after the last.  In   *)
(* other files a statement loses its last byte, or an empty query is sent, *)
(* which the database refuses.  This is about texts alone, so it is        *)
(* evaluated once, before the first process starts.                        *)
QueriesAreStatements ==
  (\A m \in Migrators : pc[m] = "off")
    => \A t \in BoundedSeq(Alphabet, MaxLength) : CutWell(t)

InEffect(f) == \A k \in 1..Count[f] : <<f, k>> \in schema

(* A recorded file is skipped for ever, so it must be complete: neither a  *)
(* crash between two statements nor another process at work may record a   *)
(* file of which a statement never took effect.                            *)
RecordedMeansApplied == \A f \in Files : recorded[f] > 0 => InEffect(f)

(* Statements refer to what earlier ones created (a materialized view to   *)
(* its tables): none takes effect before all those preceding it, in its    *)
(* file and in the files before, whoever executes them.                    *)
InOrder ==
  \A s \in schema :
    /\ \A k \in 1..s[2] : <<s[1], k>> \in schema
    /\ \A f \in Files : f < s[1] => InEffect(f)

(* The server is started once the command has succeeded: then the schema   *)
(* is complete and all of it is recorded.                                  *)
SuccessMeansMigrated ==
  (\E m \in Migrators : pc[m] = "ok") => \A f \in Files : recorded[f] > 0 /\ InEffect(f)

(* A file is recorded twice only when two processes overlapped: a crash,   *)
(* or an answer that is lost, never has that effect.                       *)
RecordedOnceAlone == ~overlap => \A f \in Files : recorded[f] < 2

(* If the failures end, the schema gets complete, from wherever they left  *)
(* it.                                                                     *)
EventuallyMigrated ==
  <>[][\A m \in Migrators : ~Abort(m)]_vars
    => <>(\A f \in Files : recorded[f] > 0 /\ InEffect(f))

=============================================================================
