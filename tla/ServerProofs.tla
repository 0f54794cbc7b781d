---------------------------- MODULE ServerProofs ----------------------------
(***************************************************************************)
(* Proofs about Server for any set of requests.                            *)
(***************************************************************************)
EXTENDS Server, TLAPS

(* How far the shutdown has come, from the listener to the batcher. *)
Sequence ==
  /\ stopping => main = "waiting"
  /\ main # "listening" => listener = "closed"
  /\ listener = "closed" => interrupted \/ lerr

(* What the batcher owes for the events it took over or dropped. *)
Ledger ==
  /\ result # "running" => Batcher!Accepted = {}
  /\ watcherFirst /\ result = "nil" => \A r \in Requests : fate[r] # "lost"
  /\ \A r \in Requests : fate[r] = "lost" => failed
  /\ \A r \in Requests : fate[r] = "dropped" => stopping \/ failed

(* Where a request is, and what its event may have become by then. *)
Handlers ==
  /\ \A r \in Requests : req[r] \in {"none", "serving", "reading", "decoded"} => fate[r] = "none"
  /\ \A r \in Requests : fate[r] = "pending" => req[r] = "batching"
  /\ \A r \in Requests : answer[r] = "ok" => req[r] = "answered"

IInv ==
  /\ TypeOK
  /\ Sequence
  /\ Ledger
  /\ Handlers
  /\ exit = "0" => result = "nil"

LEMMA InitIInv == Init => IInv
  BY DEF Init, IInv, TypeOK, Sequence, Ledger, Handlers, Batcher!Init,
         Batcher!SinkTypeOK, Batcher!Fates, Batcher!Accepted

LEMMA StepIInv == IInv /\ [Next]_vars => IInv'
<1> SUFFICES ASSUME IInv, [Next]_vars
             PROVE  IInv'
  OBVIOUS
<1> USE DEF IInv, TypeOK, Sequence, Ledger, Handlers, Alive, Answer,
            Batcher!SinkTypeOK, Batcher!Fates, Batcher!Accepted
<1>1. ASSUME NEW r \in Requests, Accept(r) \/ Read(r)
      PROVE  IInv'
  BY <1>1 DEF Accept, Read, startvars, sinkvars, procvars
<1>2. ASSUME NEW r \in Requests, Refuse(r) \/ Health(r) \/ PanicInFilter(r) \/ FilteredOut(r)
      PROVE  IInv'
  BY <1>2 DEF Refuse, Health, PanicInFilter, FilteredOut, startvars, sinkvars, procvars
<1>3. ASSUME NEW r \in Requests, Decoded(r)
      PROVE  IInv'
  BY <1>3 DEF Decoded, startvars, sinkvars, procvars
<1>4. ASSUME NEW r \in Requests, CallBatch(r)
      PROVE  IInv'
  BY <1>4 DEF CallBatch, Batcher!Submit, startvars, procvars
<1>5. ASSUME NEW r \in Requests, BatchReturns(r)
      PROVE  IInv'
  BY <1>5 DEF BatchReturns, startvars, sinkvars, procvars
<1>6. ASSUME BatcherStep
      PROVE  IInv'
  <2> USE <1>6 DEF BatcherStep, startvars, httpvars, procvars
  <2>1. ASSUME NEW r \in Requests, BatcherAccepts(r)
        PROVE  IInv'
    BY <2>1 DEF BatcherAccepts, Batcher!Accept
  <2>2. ASSUME NEW r \in Requests, Batcher!Drop(r)
        PROVE  IInv'
    BY <2>2 DEF Batcher!Drop
  <2>3. ASSUME NEW S \in SUBSET Batcher!Accepted, Batcher!Store(S)
        PROVE  IInv'
    BY <2>3 DEF Batcher!Store
  <2>4. ASSUME NEW L \in SUBSET Batcher!Accepted, Batcher!Abandon(L)
        PROVE  IInv'
    BY <2>4 DEF Batcher!Abandon
  <2>5. ASSUME NEW S \in SUBSET Batcher!Accepted, NEW L \in SUBSET Batcher!Accepted,
               Batcher!GiveUp(S, L)
        PROVE  IInv'
    BY <2>5 DEF Batcher!GiveUp
  <2>6. ASSUME Batcher!Return
        PROVE  IInv'
    BY <2>6 DEF Batcher!Return
  <2>7. ASSUME LateReturn
        PROVE  IInv'
    BY <2>7 DEF LateReturn
  <2> QED
    BY <2>1, <2>2, <2>3, <2>4, <2>5, <2>6, <2>7 DEF BatcherSettles
<1>7. ASSUME Listen
      PROVE  IInv'
  BY <1>7 DEF Listen, startvars, sinkvars, httpvars
<1>8. ASSUME Interrupt
      PROVE  IInv'
  BY <1>8 DEF Interrupt, startvars, sinkvars, httpvars
<1>9. ASSUME ListenReturns
      PROVE  IInv'
  BY <1>9 DEF ListenReturns, startvars, sinkvars, httpvars
<1>10. ASSUME StopBatcher
       PROVE  IInv'
  BY <1>10 DEF StopBatcher, Batcher!Stop, startvars, httpvars
<1>11. ASSUME Exit
       PROVE  IInv'
  BY <1>11 DEF Exit, startvars, sinkvars, httpvars
<1>12. ASSUME Kill
       PROVE  IInv'
  BY <1>12 DEF Kill, startvars, sinkvars, httpvars
<1>13. ASSUME UNCHANGED vars
       PROVE  IInv'
  BY <1>13 DEF vars, startvars, sinkvars, httpvars, procvars
<1>14. ASSUME ListenFails
       PROVE  IInv'
  BY <1>14 DEF ListenFails, startvars, sinkvars, httpvars
<1> QED
  <2> HIDE DEF IInv
  <2> QED
    BY <1>1, <1>2, <1>3, <1>4, <1>5, <1>6, <1>7, <1>8, <1>9, <1>10, <1>11, <1>12, <1>13,
       <1>14
    DEF Next, Dead

LEMMA Invariance == Spec => []IInv
  BY InitIInv, StepIInv, PTL DEF Spec

-----------------------------------------------------------------------------

(* The variables of the process and of its ledger keep their types. *)
THEOREM TypeCorrect == Spec => []TypeOK
<1>1. IInv => TypeOK
  BY DEF IInv
<1> QED
  BY <1>1, Invariance, PTL

(* serve stops the batcher only when no connection is accepted any more. *)
THEOREM StopIsLast == Spec => []StoppedAfterListener
<1>1. IInv => StoppedAfterListener
  BY DEF IInv, Sequence, StoppedAfterListener
<1> QED
  BY <1>1, Invariance, PTL

(* Exit code 0, and a watcher of Serve that was there in time: no event    *)
(* that Batch took over is lost or left in a buffer.                       *)
THEOREM CleanExit == Spec => []CleanExitKeepsAll
<1>1. IInv => CleanExitKeepsAll
  BY DEF IInv, Ledger, CleanExitKeepsAll, Batcher!Accepted
<1> QED
  BY <1>1, Invariance, PTL

(* The answer 200 of a server that was not stopped and whose flushes were  *)
(* not given up: the event is kept, or was not to be stored.               *)
THEOREM AckIsKept == Spec => []NormalAckIsKept
<1>1. IInv => NormalAckIsKept
  BY DEF IInv, TypeOK, Sequence, Ledger, Handlers, NormalAckIsKept,
         Batcher!SinkTypeOK, Batcher!Fates
<1> QED
  BY <1>1, Invariance, PTL

=============================================================================
