--------------------------- MODULE MigrationText ---------------------------
(***************************************************************************)
(* The loop of migrate in bugpack/chconn/migrate.go: the text of a file is *)
(* cut at its semicolons, and each piece is sent as a query.               *)
(*                                                                         *)
(* Queries follows the loop.  Meant is what a reader takes the file to     *)
(* say: what stands between semicolons, unless it is blank.                *)
(*                                                                         *)
(* Migrate runs the files: its statements are the queries of their texts.  *)
(***************************************************************************)
EXTENDS Naturals, SequencesExt

CONSTANTS
  Alphabet      \* the bytes that texts are made of

(* The bytes that bytes.Trim is given. *)
Space == {"\n", "\t", " "}

Blank(t) == \A i \in DOMAIN t : t[i] \in Space

Trim(t) ==
  LET I == {i \in DOMAIN t : t[i] \notin Space}
  IN IF I = {} THEN <<>> ELSE SubSeq(t, Min(I), Max(I))

(* The semicolons behind the first n bytes. *)
Semicolons(b, n) == {i \in n + 1..Len(b) : b[i] = ";"}

(* Faulty: the last two bytes are cut off. *)
CutAtEarly(b, n) ==
  IF Semicolons(b, n) # {} THEN Min(Semicolons(b, n))
  ELSE IF Len(b) > n + 1 THEN Len(b) - 1 ELSE n + 1

(* Where the next piece ends when n bytes are done: at a semicolon, or at  *)
(* the last byte, which then is not part of it.                            *)
CutAt(b, n) ==
  IF Semicolons(b, n) # {} THEN Min(Semicolons(b, n)) ELSE Len(b)

Cut(b, n) == SubSeq(b, n + 1, CutAt(b, n) - 1)

(* Sent[n] is what the loop sends once n bytes are done. *)
Queries(b) ==
  LET Sent[n \in 0..Len(b)] ==
        IF n = Len(b) THEN <<>>
        ELSE (IF Cut(b, n) = <<>> THEN <<>> ELSE <<Trim(Cut(b, n))>>) \o Sent[CutAt(b, n)]
  IN Sent[0]

-----------------------------------------------------------------------------
(* The pieces of a text: each begins at the first byte or behind a         *)
(* semicolon, and goes on as long as there is none.                        *)
Starts(t) == {1} \cup {i \in 2..Len(t) + 1 : t[i - 1] = ";"}

EndOf(t, i) == Max({e \in i - 1..Len(t) : \A j \in i..e : t[j] # ";"})

Piece(t, i) == SubSeq(t, i, EndOf(t, i))

Meant(t) ==
  FlattenSeq([i \in 1..Len(t) + 1 |->
                IF i \in Starts(t) /\ ~Blank(Piece(t, i)) THEN <<Trim(Piece(t, i))>> ELSE <<>>])

(* A piece that suits the loop: closed by a semicolon, it is empty or says *)
(* something; else its last byte is white space, and that is so without it. *)
Suits(t, i) ==
  LET closed == EndOf(t, i) < Len(t)
      taken  == IF closed THEN Piece(t, i) ELSE Front(Piece(t, i))
  IN /\ closed \/ Piece(t, i) = <<>> \/ Last(Piece(t, i)) \in Space
     /\ taken = <<>> \/ ~Blank(taken)

(* The loop sends the statements of a text exactly if the text suits it.   *)
CutWell(t) == Queries(t) = Meant(t) <=> \A i \in Starts(t) : Suits(t, i)

=============================================================================
