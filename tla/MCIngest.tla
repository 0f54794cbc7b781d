------------------------------ MODULE MCIngest ------------------------------
(***************************************************************************)
(* An instance of Ingest: the empty conjunction, a field filter, a         *)
(* conjunction of both on a second level, a filter of an unknown type, a   *)
(* conjunction with a null in it, and a number where a filter should be.   *)
(*                                                                         *)
(* A header has parameters of three names, one of which ends like that of  *)
(* the key, and values that are a key, nothing, or a key after the name of *)
(* its parameter.                                                          *)
(***************************************************************************)
EXTENDS Ingest

CONSTANTS n1, n2, n3, n4, n5, n6

MCKind ==
  n1 :> "and" @@ n2 :> "contains" @@ n3 :> "and" @@ n4 :> "invalid" @@ n5 :> "and" @@ n6 :> "other"

MCSubs ==
  n1 :> <<>> @@ n2 :> <<>> @@ n3 :> <<n1, n2>> @@ n4 :> <<>> @@ n5 :> <<n3, Null>> @@ n6 :> <<>>

MCWords == Keys \cup {"sentry_key=", "sentry_client=", "x_"}

MCParamNames == {<<"sentry_key=">>, <<"sentry_client=">>, <<"x_", "sentry_key=">>}

MCValues == {<<>>, <<"sentry_key=", "k1">>} \cup {<<k>> : k \in Keys}

=============================================================================
