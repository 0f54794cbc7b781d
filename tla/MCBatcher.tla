----------------------------- MODULE MCBatcher -----------------------------
(***************************************************************************)
(* Small instances of Batcher.  Event e0 leaves no row behind (neither a   *)
(* message nor an exception), e1 and e3 leave one row each and e2 two, so  *)
(* that with Limit 2 a buffer is filled exactly, by one event or by two,   *)
(* overshot, or flushed below its limit.                                   *)
(***************************************************************************)
EXTENDS Batcher, TLC

CONSTANTS e0, e1, e2, e3

MCRows == (e0 :> 0) @@ (e1 :> 1) @@ (e2 :> 2) @@ (e3 :> 1)

MCRowsOf == [e \in Events |-> MCRows[e]]

(* Workers and buffers are interchangeable; used where no liveness is      *)
(* checked.                                                                *)
MCSymmetry == Permutations(Workers) \cup Permutations(Bufs)

=============================================================================
