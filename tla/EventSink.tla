----------------------------- MODULE EventSink -----------------------------
(***************************************************************************)
(* What the Batcher interface of bugpack/batcher promises to the request   *)
(* handlers that call Batch and to the process that calls Serve and        *)
(* Shutdown: a ledger of what became of every event.                       *)
(*                                                                         *)
(* An event is submitted, and is then either taken over by the service or  *)
(* dropped, the latter only when the service was told to stop or has       *)
(* failed.  An event that was taken over is eventually stored or, but only *)
(* after a flush has reported an error, lost.  Serve returns nil only      *)
(* after a stop request and when every event taken over is stored; when    *)
(* an event was lost it returns an error.                                  *)
(***************************************************************************)
CONSTANT Events         \* the events that leave at least one row behind

VARIABLES
  fate,                 \* what became of each event
  stopping,             \* Shutdown was called
  failed,               \* a flush was given up with an error
  result                \* "running", or what Serve returned: "nil" or "error"

svars == <<fate, stopping, failed, result>>

Fates == {"none", "pending", "accepted", "stored", "lost", "dropped"}

Accepted == {e \in Events : fate[e] = "accepted"}

SinkTypeOK ==
  /\ fate \in [Events -> Fates]
  /\ stopping \in BOOLEAN
  /\ failed \in BOOLEAN
  /\ result \in {"running", "nil", "error"}

Init ==
  /\ fate = [e \in Events |-> "none"]
  /\ stopping = FALSE
  /\ failed = FALSE
  /\ result = "running"

-----------------------------------------------------------------------------

Submit(e) ==
  /\ fate[e] = "none"
  /\ fate' = [fate EXCEPT ![e] = "pending"]
  /\ UNCHANGED <<stopping, failed, result>>

Accept(e) ==
  /\ fate[e] = "pending"
  /\ result = "running"
  /\ fate' = [fate EXCEPT ![e] = "accepted"]
  /\ UNCHANGED <<stopping, failed, result>>

Drop(e) ==
  /\ fate[e] = "pending"
  /\ stopping \/ failed
  /\ fate' = [fate EXCEPT ![e] = "dropped"]
  /\ UNCHANGED <<stopping, failed, result>>

(* One insert reaches the database with the events of S. *)
Store(S) ==
  /\ result = "running"
  /\ fate' = [e \in Events |-> IF e \in S THEN "stored" ELSE fate[e]]
  /\ UNCHANGED <<stopping, failed, result>>

(* A flush is given up: its last attempt had stored S, and L is lost. *)
GiveUp(S, L) ==
  /\ result = "running"
  /\ failed' = TRUE
  /\ fate' = [e \in Events |-> IF e \in S THEN "stored"
                               ELSE IF e \in L THEN "lost" ELSE fate[e]]
  /\ UNCHANGED <<stopping, result>>

(* After a failure the events that no flush has taken yet are abandoned. *)
Abandon(L) ==
  /\ result = "running"
  /\ failed
  /\ fate' = [e \in Events |-> IF e \in L THEN "lost" ELSE fate[e]]
  /\ UNCHANGED <<stopping, failed, result>>

Stop ==
  /\ ~stopping
  /\ stopping' = TRUE
  /\ UNCHANGED <<fate, failed, result>>

Return ==
  /\ result = "running"
  /\ Accepted = {}
  /\ \/ /\ stopping
        /\ \A e \in Events : fate[e] # "lost"
        /\ result' = "nil"
     \/ /\ failed
        /\ result' = "error"
  /\ UNCHANGED <<fate, stopping, failed>>

Next ==
  \/ \E e \in Events : Submit(e) \/ Accept(e) \/ Drop(e)
  \/ \E S \in SUBSET Accepted : Store(S) \/ Abandon(S)
  \/ \E S \in SUBSET Accepted : \E L \in SUBSET Accepted : GiveUp(S, L)
  \/ Stop
  \/ Return

Spec == Init /\ [][Next]_svars

=============================================================================
