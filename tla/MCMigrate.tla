----------------------------- MODULE MCMigrate -----------------------------
(***************************************************************************)
(* Two processes and three files: two statements, one that ends without a  *)
(* semicolon, and nothing but a newline.  Texts consist of a letter, the   *)
(* semicolon and white space of two kinds.                                 *)
(***************************************************************************)
EXTENDS Migrate

MCFiles == 1..3

MCAlphabet == {"x", ";", "\n", " "}

MCContent == <<<<"x", ";", "\n", "x", ";", "\n">>, <<"x", "\n">>, <<"\n">>>>

=============================================================================
