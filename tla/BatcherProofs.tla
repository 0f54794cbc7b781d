--------------------------- MODULE BatcherProofs ---------------------------
(***************************************************************************)
(* Proofs about Batcher for any number of events, workers and buffers, any *)
(* rows per event and any limit, with and without retries and deadlines:   *)
(* its invariants first, then that it implements the ledger of EventSink.  *)
(***************************************************************************)
EXTENDS Batcher, FiniteSetTheorems, TLAPS

-----------------------------------------------------------------------------
(* A worker holds a buffer exactly while it is inside flush, the part of   *)
(* BufferOwnership that the types depend on.                               *)
HoldsWhileFlushing ==
  \A w \in Workers : held[w] # NoBuf <=> wpc[w] \in {"flushing", "backoff"}

TypeInv == TypeOK /\ HoldsWhileFlushing

LEMMA TypeInvariance == Spec => []TypeInv
<1>1. Init => TypeInv
  <2> SUFFICES ASSUME Init
               PROVE  TypeInv
    OBVIOUS
  <2>1. val \in [Bufs -> SUBSET Events] /\ nrows \in [Bufs -> Nat]
    BY DEF Init
  <2>2. upc \in {"starting", "parked", "stopping", "done"}
    BY DEF Init
  <2> QED
    BY <2>1, <2>2 DEF Init, TypeInv, TypeOK, HoldsWhileFlushing
<1>2. TypeInv /\ [Next]_vars => TypeInv'
  <2> SUFFICES ASSUME TypeInv, [Next]_vars
               PROVE  TypeInv'
    OBVIOUS
  <2>0. Rows \in [Events -> Nat] /\ NoBuf \notin Bufs
    BY BatcherAssumption DEF BatcherAssumption
  <2> USE <2>0
      DEF TypeInv, TypeOK, HoldsWhileFlushing, callvars, recvvars, bufvars, workvars, watchvars, dbvars
  <2>1. CASE UNCHANGED vars
    BY <2>1 DEF vars
  <2>2. ASSUME NEW e \in Events, Batch(e)
        PROVE  TypeInv'
    BY <2>2 DEF Batch
  <2>3. ASSUME NEW e \in Events, BatchDropped(e)
        PROVE  TypeInv'
    BY <2>3 DEF BatchDropped
  <2>4. CASE Shutdown
    BY <2>4 DEF Shutdown
  <2>5. ASSUME NEW e \in Events, RecvEvent(e)
        PROVE  TypeInv'
    BY <2>5 DEF RecvEvent, Visible
  <2>6. CASE RecvTimeout
    BY <2>6 DEF RecvTimeout
  <2>7. CASE RecvDone
    BY <2>7 DEF RecvDone
  <2>8. CASE RecvCanceled
    BY <2>8 DEF RecvCanceled
  <2>9. ASSUME NEW w \in Workers, Handoff(w)
        PROVE  TypeInv'
    BY <2>9 DEF Handoff
  <2>10. CASE GetBuf
    BY <2>10 DEF GetBuf
  <2>11. ASSUME NEW b \in Bufs, PoolEvict(b)
         PROVE  TypeInv'
    BY <2>11 DEF PoolEvict
  <2>12. ASSUME NEW w \in Workers, FlushOk(w)
         PROVE  TypeInv'
    BY <2>12 DEF FlushOk, Insert
  <2>13. ASSUME NEW w \in Workers, FlushFail(w)
         PROVE  TypeInv'
    <3>1. wpc' = [wpc EXCEPT ![w] = "failed"] /\ held' = [held EXCEPT ![w] = NoBuf]
      BY <2>13 DEF FlushFail, ReportError
    <3>2. HoldsWhileFlushing' /\ wpc' \in [Workers -> {"idle", "flushing", "backoff", "exited", "failed"}]
          /\ held' \in [Workers -> Bufs \cup {NoBuf}]
      BY <3>1
    <3>3. errs' \in BOOLEAN /\ upc' \in {"starting", "parked", "stopping", "done"} /\ rerr' \in BOOLEAN
      BY <2>13 DEF FlushFail, ReportError
    <3>4. stored' \in SUBSET Events /\ dup' \in SUBSET Events
      BY <2>13 DEF FlushFail, Insert, ReportError
    <3> QED
      BY <2>13, <3>2, <3>3, <3>4 DEF FlushFail, ReportError
  <2>14. ASSUME NEW w \in Workers, FlushRetry(w)
         PROVE  TypeInv'
    BY <2>14 DEF FlushRetry, Insert
  <2>15. ASSUME NEW w \in Workers, BackoffElapsed(w)
         PROVE  TypeInv'
    BY <2>15 DEF BackoffElapsed
  <2>16. ASSUME NEW w \in Workers, BackoffCanceled(w)
         PROVE  TypeInv'
    <3>1. wpc' = [wpc EXCEPT ![w] = "failed"] /\ held' = [held EXCEPT ![w] = NoBuf]
      BY <2>16 DEF BackoffCanceled, ReportError
    <3>2. HoldsWhileFlushing' /\ wpc' \in [Workers -> {"idle", "flushing", "backoff", "exited", "failed"}]
          /\ held' \in [Workers -> Bufs \cup {NoBuf}]
      BY <3>1
    <3>3. errs' \in BOOLEAN /\ upc' \in {"starting", "parked", "stopping", "done"} /\ rerr' \in BOOLEAN
      BY <2>16 DEF BackoffCanceled, ReportError
    <3>4. stored' \in SUBSET Events /\ dup' \in SUBSET Events
      BY <2>16 DEF BackoffCanceled
    <3> QED
      BY <2>16, <3>2, <3>3, <3>4 DEF BackoffCanceled, ReportError
  <2>17. ASSUME NEW w \in Workers, WorkerExit(w)
         PROVE  TypeInv'
    BY <2>17 DEF WorkerExit
  <2>18. CASE CloseWdone
    BY <2>18 DEF CloseWdone
  <2>19. CASE WatcherSelect
    BY <2>19 DEF WatcherSelect
  <2>20. CASE StopFlash
    BY <2>20 DEF StopFlash
  <2>21. CASE ServeReturn
    BY <2>21 DEF ServeReturn
  <2>22. CASE Rest
    BY <2>22 DEF Rest, vars
  <2> QED
    BY <2>1, <2>2, <2>3, <2>4, <2>5, <2>6, <2>7, <2>8, <2>9, <2>10, <2>11,
       <2>12, <2>13, <2>14, <2>15, <2>16, <2>17, <2>18, <2>19, <2>20, <2>21,
       <2>22 DEF Next, Receiver, Worker
<1> QED
  BY <1>1, <1>2, PTL DEF Spec

(* The variables keep their types: in particular the receiver always has a *)
(* buffer, and row counts are natural numbers.                             *)
THEOREM TypeCorrect == Spec => []TypeOK
BY TypeInvariance, PTL DEF TypeInv

-----------------------------------------------------------------------------
(* The inductive invariant for the buffers.  What does not concern the     *)
(* ownership holds of every buffer, also of one that is not in use.        *)

Filling == rpc \in {"select", "handoff"}

Ownership ==
  /\ Filling => cur \notin pool
  /\ \A w \in Workers : held[w] # NoBuf => held[w] \notin pool
  /\ \A w \in Workers : held[w] # NoBuf /\ Filling => held[w] # cur
  /\ \A v, w \in Workers : held[v] = held[w] /\ held[v] # NoBuf => v = w

Contents ==
  /\ \A b \in Bufs : val[b] \subseteq {e \in Visible : call[e] = "accepted"}
  /\ \A b \in Bufs : val[b] = {} <=> nrows[b] = 0
  /\ \A b \in Bufs : nrows[b] < Limit \/ \E e \in val[b] : nrows[b] < Limit + Rows[e]
  /\ rpc = "select" => nrows[cur] < Limit
  /\ rpc = "handoff" => val[cur] # {}
  /\ \A w \in Workers : held[w] # NoBuf => val[held[w]] # {}

BufferInv == Ownership /\ PooledBuffersEmpty /\ Contents

LEMMA BufferInvariance == Spec => []BufferInv
<1>1. Init => BufferInv
  <2> SUFFICES ASSUME Init
               PROVE  BufferInv
    OBVIOUS
  <2>1. \A b \in Bufs : val[b] = {} /\ nrows[b] = 0
    BY DEF Init
  <2>2. \A w \in Workers : held[w] = NoBuf
    BY DEF Init
  <2> QED
    BY <2>1, <2>2, BatcherAssumption
    DEF BatcherAssumption, Init, BufferInv, Ownership, PooledBuffersEmpty, Contents, Filling
<1>2. TypeInv /\ BufferInv /\ [Next]_vars => BufferInv'
  <2> SUFFICES ASSUME TypeInv, BufferInv, [Next]_vars
               PROVE  BufferInv'
    OBVIOUS
  <2> USE BatcherAssumption
      DEF BatcherAssumption, TypeInv, TypeOK, HoldsWhileFlushing, BufferInv, Ownership,
          PooledBuffersEmpty, Contents, Filling, Visible,
          callvars, recvvars, bufvars, workvars, watchvars, dbvars
  <2>1. CASE UNCHANGED vars
    BY <2>1 DEF vars
  <2>2. ASSUME NEW e \in Events, Batch(e)
         PROVE  BufferInv'
    BY <2>2 DEF Batch
  <2>3. ASSUME NEW e \in Events, BatchDropped(e)
         PROVE  BufferInv'
    BY <2>3 DEF BatchDropped
  <2>4. CASE Shutdown
    BY <2>4 DEF Shutdown
  <2>5. ASSUME NEW e \in Events, RecvEvent(e)
         PROVE  BufferInv'
    BY <2>5 DEF RecvEvent, Visible
  <2>6. CASE RecvTimeout
    BY <2>6 DEF RecvTimeout, Empty
  <2>7. CASE RecvDone
    BY <2>7 DEF RecvDone, Empty
  <2>8. CASE RecvCanceled
    BY <2>8 DEF RecvCanceled
  <2>9. ASSUME NEW w \in Workers, Handoff(w)
         PROVE  BufferInv'
    BY <2>9 DEF Handoff
  <2>10. CASE GetBuf
    BY <2>10 DEF GetBuf, LiveBufs, HeldBufs, CurBufs
  <2>11. ASSUME NEW b \in Bufs, PoolEvict(b)
         PROVE  BufferInv'
    BY <2>11 DEF PoolEvict
  <2>12. ASSUME NEW w \in Workers, FlushOk(w)
         PROVE  BufferInv'
    BY <2>12 DEF FlushOk, Insert
  <2>13. ASSUME NEW w \in Workers, FlushFail(w)
         PROVE  BufferInv'
    BY <2>13 DEF FlushFail, Insert, ReportError
  <2>14. ASSUME NEW w \in Workers, FlushRetry(w)
         PROVE  BufferInv'
    BY <2>14 DEF FlushRetry, Insert
  <2>15. ASSUME NEW w \in Workers, BackoffElapsed(w)
         PROVE  BufferInv'
    BY <2>15 DEF BackoffElapsed
  <2>16. ASSUME NEW w \in Workers, BackoffCanceled(w)
         PROVE  BufferInv'
    BY <2>16 DEF BackoffCanceled, ReportError
  <2>17. ASSUME NEW w \in Workers, WorkerExit(w)
         PROVE  BufferInv'
    BY <2>17 DEF WorkerExit
  <2>18. CASE CloseWdone
    BY <2>18 DEF CloseWdone
  <2>19. CASE WatcherSelect
    BY <2>19 DEF WatcherSelect
  <2>20. CASE StopFlash
    BY <2>20 DEF StopFlash
  <2>21. CASE ServeReturn
    BY <2>21 DEF ServeReturn
  <2>22. CASE Rest
    BY <2>22 DEF Rest, vars
  <2> QED
    BY <2>1, <2>2, <2>3, <2>4, <2>5, <2>6, <2>7, <2>8, <2>9, <2>10, <2>11,
       <2>12, <2>13, <2>14, <2>15, <2>16, <2>17, <2>18, <2>19, <2>20, <2>21, <2>22
    DEF Next, Receiver, Worker
<1> QED
  BY <1>1, <1>2, TypeInvariance, PTL DEF Spec

(* A buffer is filled, flushed by one worker or pooled, never two of these. *)
THEOREM OwnershipCorrect == Spec => []BufferOwnership
<1>1. TypeInv /\ BufferInv => BufferOwnership
  <2> SUFFICES ASSUME TypeInv, BufferInv
               PROVE  BufferOwnership
    OBVIOUS
  <2> USE DEF TypeInv, TypeOK, HoldsWhileFlushing, BufferInv, Ownership, Filling
  <2>1. CurBufs \cap (HeldBufs \cup pool) = {}
    BY DEF CurBufs, HeldBufs
  <2>2. HeldBufs \cap pool = {}
    BY DEF HeldBufs
  <2>3. \A w \in Workers : held[w] # NoBuf <=> wpc[w] \in {"flushing", "backoff"}
    OBVIOUS
  <2>4. \A v, w \in Workers : held[v] = held[w] /\ held[v] # NoBuf => v = w
    OBVIOUS
  <2> HIDE DEF TypeInv, TypeOK, HoldsWhileFlushing, BufferInv, Ownership, Filling
  <2> QED
    BY <2>1, <2>2, <2>3, <2>4 DEF BufferOwnership
<1> QED
  BY <1>1, TypeInvariance, BufferInvariance, PTL

(* The receiver starts every batch with an empty buffer. *)
THEOREM PoolCorrect == Spec => []PooledBuffersEmpty
BY BufferInvariance, PTL DEF BufferInv

(* No empty flush, and no batch beyond the limit plus one event. *)
THEOREM BatchSizeCorrect == Spec => []BatchSize
<1>1. TypeInv /\ BufferInv => BatchSize
  BY DEF TypeInv, TypeOK, BufferInv, Contents, BatchSize, LiveBufs, CurBufs, HeldBufs
<1> QED
  BY <1>1, TypeInvariance, BufferInvariance, PTL

(* What a worker flushes does not change under its hands. *)
THEOREM RetryCorrect == Spec => RetrySendsSameBatch
<1>1. TypeInv /\ BufferInv /\ [Next]_vars =>
        \A w \in Workers :
          held[w] # NoBuf /\ held'[w] = held[w] => /\ val'[held[w]] = val[held[w]]
                                                   /\ nrows'[held[w]] = nrows[held[w]]
  <2> SUFFICES ASSUME TypeInv, BufferInv, [Next]_vars,
                      NEW w \in Workers, held[w] # NoBuf, held'[w] = held[w]
               PROVE  val'[held[w]] = val[held[w]] /\ nrows'[held[w]] = nrows[held[w]]
    OBVIOUS
  <2> USE DEF TypeInv, TypeOK, HoldsWhileFlushing, BufferInv, Ownership, Filling,
              callvars, recvvars, bufvars, workvars, watchvars, dbvars
  <2>1. CASE UNCHANGED <<val, nrows>>
    BY <2>1
  <2>2. ASSUME NEW e \in Events, RecvEvent(e)
        PROVE  val'[held[w]] = val[held[w]] /\ nrows'[held[w]] = nrows[held[w]]
    BY <2>2 DEF RecvEvent
  <2>3. CASE GetBuf
    BY <2>3 DEF GetBuf, LiveBufs, HeldBufs
  <2>4. ASSUME NEW v \in Workers, FlushOk(v)
        PROVE  val'[held[w]] = val[held[w]] /\ nrows'[held[w]] = nrows[held[w]]
    BY <2>4 DEF FlushOk
  <2> QED
    BY <2>1, <2>2, <2>3, <2>4
    DEF Next, vars, Receiver, Worker, Batch, BatchDropped, Shutdown, RecvTimeout,
        RecvDone, RecvCanceled, Handoff, PoolEvict, FlushFail, FlushRetry,
        BackoffElapsed, BackoffCanceled, WorkerExit, CloseWdone, WatcherSelect,
        StopFlash, ServeReturn, Rest
<1> QED
  BY <1>1, TypeInvariance, BufferInvariance, PTL DEF Spec, RetrySendsSameBatch

-----------------------------------------------------------------------------
(* How an error travels from a worker to the watcher and to Serve.  When   *)
(* the watcher is parked before the first flush, no error is overlooked.   *)
ErrorInv ==
  /\ errs \/ rerr \/ canceled \/ upc = "stopping" => Failed
  /\ upc = "stopping" => rerr
  /\ upc = "done" => rerr \/ wdone
  /\ wdone => \A w \in Workers : wpc[w] \in {"exited", "failed"}
  /\ served => wdone /\ rpc = "closed"
  /\ WatcherFirst => upc # "starting" /\ (Failed => rerr)

LEMMA ErrorInvariance == Spec => []ErrorInv
<1>1. Init => ErrorInv
  BY DEF Init, ErrorInv, Failed
<1>2. TypeInv /\ ErrorInv /\ [Next]_vars => ErrorInv'
  <2> SUFFICES ASSUME TypeInv, ErrorInv, [Next]_vars
               PROVE  ErrorInv'
    OBVIOUS
  <2> USE BatcherAssumption
      DEF BatcherAssumption, TypeInv, TypeOK, HoldsWhileFlushing, ErrorInv, Failed,
          callvars, recvvars, bufvars, workvars, watchvars, dbvars
  <2>1. CASE UNCHANGED vars
    BY <2>1 DEF vars
  <2>2. ASSUME NEW e \in Events, Batch(e)
         PROVE  ErrorInv'
    BY <2>2 DEF Batch
  <2>3. ASSUME NEW e \in Events, BatchDropped(e)
         PROVE  ErrorInv'
    BY <2>3 DEF BatchDropped
  <2>4. CASE Shutdown
    BY <2>4 DEF Shutdown
  <2>5. ASSUME NEW e \in Events, RecvEvent(e)
         PROVE  ErrorInv'
    BY <2>5 DEF RecvEvent, Visible
  <2>6. CASE RecvTimeout
    BY <2>6 DEF RecvTimeout, Empty
  <2>7. CASE RecvDone
    BY <2>7 DEF RecvDone, Empty
  <2>8. CASE RecvCanceled
    BY <2>8 DEF RecvCanceled
  <2>9. ASSUME NEW w \in Workers, Handoff(w)
         PROVE  ErrorInv'
    BY <2>9 DEF Handoff
  <2>10. CASE GetBuf
    BY <2>10 DEF GetBuf, LiveBufs, HeldBufs, CurBufs
  <2>11. ASSUME NEW b \in Bufs, PoolEvict(b)
         PROVE  ErrorInv'
    BY <2>11 DEF PoolEvict
  <2>12. ASSUME NEW w \in Workers, FlushOk(w)
         PROVE  ErrorInv'
    BY <2>12 DEF FlushOk, Insert
  <2>13. ASSUME NEW w \in Workers, FlushFail(w)
         PROVE  ErrorInv'
    BY <2>13 DEF FlushFail, Insert, ReportError
  <2>14. ASSUME NEW w \in Workers, FlushRetry(w)
         PROVE  ErrorInv'
    BY <2>14 DEF FlushRetry, Insert
  <2>15. ASSUME NEW w \in Workers, BackoffElapsed(w)
         PROVE  ErrorInv'
    BY <2>15 DEF BackoffElapsed
  <2>16. ASSUME NEW w \in Workers, BackoffCanceled(w)
         PROVE  ErrorInv'
    BY <2>16 DEF BackoffCanceled, ReportError
  <2>17. ASSUME NEW w \in Workers, WorkerExit(w)
         PROVE  ErrorInv'
    BY <2>17 DEF WorkerExit
  <2>18. CASE CloseWdone
    BY <2>18 DEF CloseWdone
  <2>19. CASE WatcherSelect
    BY <2>19 DEF WatcherSelect
  <2>20. CASE StopFlash
    BY <2>20 DEF StopFlash
  <2>21. CASE ServeReturn
    BY <2>21 DEF ServeReturn
  <2>22. CASE Rest
    BY <2>22 DEF Rest, vars
  <2> QED
    BY <2>1, <2>2, <2>3, <2>4, <2>5, <2>6, <2>7, <2>8, <2>9, <2>10, <2>11,
       <2>12, <2>13, <2>14, <2>15, <2>16, <2>17, <2>18, <2>19, <2>20, <2>21, <2>22
    DEF Next, Receiver, Worker
<1> QED
  BY <1>1, <1>2, TypeInvariance, PTL DEF Spec

-----------------------------------------------------------------------------
(* Conservation: where an event that was handed over is to be found. *)
Found(e) ==
  \/ e \in stored
  \/ Filling /\ e \in val[cur]
  \/ \E w \in Workers : held[w] # NoBuf /\ e \in val[held[w]]

Conservation ==
  ~Failed => \A e \in Visible : call[e] = "accepted" => Found(e)

LEMMA ConservationInvariance == Spec => []Conservation
<1>1. Init => Conservation
  BY DEF Init, Conservation, Visible
<1>2. TypeInv /\ BufferInv /\ ErrorInv /\ Conservation /\ [Next]_vars => Conservation'
  <2> SUFFICES ASSUME TypeInv, BufferInv, ErrorInv, Conservation, [Next]_vars
               PROVE  Conservation'
    OBVIOUS
  <2> USE BatcherAssumption
      DEF BatcherAssumption, TypeInv, TypeOK, HoldsWhileFlushing, BufferInv, Ownership,
          PooledBuffersEmpty, Contents, Filling, Visible, ErrorInv, Failed, Conservation, Found,
          callvars, recvvars, bufvars, workvars, watchvars, dbvars
  <2>1. CASE UNCHANGED vars
    BY <2>1 DEF vars
  <2>2. ASSUME NEW e \in Events, Batch(e)
         PROVE  Conservation'
    BY <2>2 DEF Batch
  <2>3. ASSUME NEW e \in Events, BatchDropped(e)
         PROVE  Conservation'
    BY <2>3 DEF BatchDropped
  <2>4. CASE Shutdown
    BY <2>4 DEF Shutdown
  <2>5. ASSUME NEW e \in Events, RecvEvent(e)
         PROVE  Conservation'
    BY <2>5 DEF RecvEvent, Visible
  <2>6. CASE RecvTimeout
    BY <2>6 DEF RecvTimeout, Empty
  <2>7. CASE RecvDone
    BY <2>7 DEF RecvDone, Empty
  <2>8. CASE RecvCanceled
    BY <2>8 DEF RecvCanceled
  <2>9. ASSUME NEW w \in Workers, Handoff(w)
         PROVE  Conservation'
    BY <2>9 DEF Handoff
  <2>10. CASE GetBuf
    BY <2>10 DEF GetBuf, LiveBufs, HeldBufs, CurBufs
  <2>11. ASSUME NEW b \in Bufs, PoolEvict(b)
         PROVE  Conservation'
    BY <2>11 DEF PoolEvict
  <2>12. ASSUME NEW w \in Workers, FlushOk(w)
         PROVE  Conservation'
    BY <2>12 DEF FlushOk, Insert
  <2>13. ASSUME NEW w \in Workers, FlushFail(w)
         PROVE  Conservation'
    BY <2>13 DEF FlushFail, Insert, ReportError
  <2>14. ASSUME NEW w \in Workers, FlushRetry(w)
         PROVE  Conservation'
    BY <2>14 DEF FlushRetry, Insert
  <2>15. ASSUME NEW w \in Workers, BackoffElapsed(w)
         PROVE  Conservation'
    BY <2>15 DEF BackoffElapsed
  <2>16. ASSUME NEW w \in Workers, BackoffCanceled(w)
         PROVE  Conservation'
    BY <2>16 DEF BackoffCanceled, ReportError
  <2>17. ASSUME NEW w \in Workers, WorkerExit(w)
         PROVE  Conservation'
    BY <2>17 DEF WorkerExit
  <2>18. CASE CloseWdone
    BY <2>18 DEF CloseWdone
  <2>19. CASE WatcherSelect
    BY <2>19 DEF WatcherSelect
  <2>20. CASE StopFlash
    BY <2>20 DEF StopFlash
  <2>21. CASE ServeReturn
    BY <2>21 DEF ServeReturn
  <2>22. CASE Rest
    BY <2>22 DEF Rest, vars
  <2> QED
    BY <2>1, <2>2, <2>3, <2>4, <2>5, <2>6, <2>7, <2>8, <2>9, <2>10, <2>11,
       <2>12, <2>13, <2>14, <2>15, <2>16, <2>17, <2>18, <2>19, <2>20, <2>21, <2>22
    DEF Next, Receiver, Worker
<1> QED
  BY <1>1, <1>2, TypeInvariance, BufferInvariance, ErrorInvariance, PTL DEF Spec

(* Until a flush is given up, every event handed over is stored or waits   *)
(* in a buffer that is going to be flushed.                                *)
THEOREM NothingLost == Spec => []NothingLostBeforeFailure
<1>1. TypeInv /\ Conservation => NothingLostBeforeFailure
  BY DEF TypeInv, TypeOK, Conservation, Found, Filling, NothingLostBeforeFailure,
         InFlight, LiveBufs, CurBufs, HeldBufs
<1> QED
  BY <1>1, TypeInvariance, ConservationInvariance, PTL

(* If the watcher is parked before the first flush, Serve returns nil only *)
(* when everything handed over is stored.                                  *)
THEOREM CleanServe == WatcherFirst /\ Spec => []CleanServeStoresAll
<1> SUFFICES ASSUME WatcherFirst
             PROVE  Spec => []CleanServeStoresAll
  OBVIOUS
<1>1. TypeInv /\ ErrorInv /\ Conservation => CleanServeStoresAll
  BY BatcherAssumption
  DEF BatcherAssumption, TypeInv, TypeOK, HoldsWhileFlushing, ErrorInv, Conservation,
      Found, Filling, CleanServeStoresAll
<1> QED
  BY <1>1, TypeInvariance, ErrorInvariance, ConservationInvariance, PTL

-----------------------------------------------------------------------------
(* Nobody is left behind.                                                  *)

(* The receiver ends on Shutdown or when flushing is canceled. *)
EndInv ==
  /\ stop => done
  /\ rpc = "closed" => stop \/ canceled

LEMMA EndInvariance == Spec => []EndInv
<1>1. Init => EndInv
  BY DEF Init, EndInv
<1>2. EndInv /\ [Next]_vars => EndInv'
  BY DEF EndInv, Next, Receiver, Worker, vars, callvars, recvvars, watchvars, ReportError,
         Batch, BatchDropped, Shutdown, RecvEvent, RecvTimeout, RecvDone, RecvCanceled,
         Handoff, GetBuf, PoolEvict, FlushOk, FlushFail, FlushRetry, BackoffElapsed,
         BackoffCanceled, WorkerExit, CloseWdone, WatcherSelect, StopFlash, ServeReturn, Rest
<1> QED
  BY <1>1, <1>2, PTL DEF Spec

(* Workers end in peace only behind the receiver, and an error that the    *)
(* watcher has taken leads to the cancellation.                            *)
OrderlyEnd ==
  /\ \A w \in Workers : wpc[w] = "exited" => rpc = "closed"
  /\ rerr => upc = "stopping" \/ canceled
  /\ upc = "parked" => ~wdone

LEMMA OrderlyEndInvariance == Spec => []OrderlyEnd
<1>1. Init => OrderlyEnd
  BY DEF Init, OrderlyEnd
<1>2. TypeInv /\ OrderlyEnd /\ [Next]_vars => OrderlyEnd'
  <2> SUFFICES ASSUME TypeInv, OrderlyEnd, [Next]_vars
               PROVE  OrderlyEnd'
    OBVIOUS
  <2> USE DEF TypeInv, TypeOK, OrderlyEnd,
          callvars, recvvars, bufvars, workvars, watchvars, dbvars
  <2>1. CASE UNCHANGED vars
    BY <2>1 DEF vars
  <2>2. ASSUME NEW e \in Events, Batch(e) \/ BatchDropped(e) \/ RecvEvent(e)
        PROVE  OrderlyEnd'
    BY <2>2 DEF Batch, BatchDropped, RecvEvent
  <2>3. CASE Shutdown \/ RecvTimeout \/ RecvDone \/ RecvCanceled \/ GetBuf
    BY <2>3 DEF Shutdown, RecvTimeout, RecvDone, RecvCanceled, GetBuf
  <2>4. ASSUME NEW b \in Bufs, PoolEvict(b)
        PROVE  OrderlyEnd'
    BY <2>4 DEF PoolEvict
  <2>5. ASSUME NEW w \in Workers, Handoff(w) \/ FlushOk(w) \/ FlushRetry(w)
        PROVE  OrderlyEnd'
    BY <2>5 DEF Handoff, FlushOk, FlushRetry
  <2>6. ASSUME NEW w \in Workers, FlushFail(w) \/ BackoffCanceled(w)
        PROVE  OrderlyEnd'
    BY <2>6 DEF FlushFail, BackoffCanceled, ReportError
  <2>7. ASSUME NEW w \in Workers, BackoffElapsed(w) \/ WorkerExit(w)
        PROVE  OrderlyEnd'
    BY <2>7 DEF BackoffElapsed, WorkerExit
  <2>8. CASE CloseWdone \/ WatcherSelect \/ StopFlash \/ ServeReturn
    BY <2>8 DEF CloseWdone, WatcherSelect, StopFlash, ServeReturn
  <2>9. CASE Rest
    BY <2>9 DEF Rest, vars
  <2> QED
    BY <2>1, <2>2, <2>3, <2>4, <2>5, <2>6, <2>7, <2>8, <2>9 DEF Next, Receiver, Worker
<1> QED
  BY <1>1, <1>2, TypeInvariance, PTL DEF Spec

(* A receiver that waits on toflash is not left alone: as long as it has   *)
(* not returned, a worker is there that takes the buffer now or once its   *)
(* flush is over, or else the last of them failed and the cancellation     *)
(* that frees the receiver has come or is on its way.                      *)
ReceiverNotDeserted ==
  \/ rpc = "closed"
  \/ \E w \in Workers : wpc[w] \in {"idle", "flushing", "backoff"}
  \/ upc = "stopping"
  \/ canceled

(* If the watcher is parked before the first flush, the receiver never     *)
(* waits on toflash for workers that are all gone.                         *)
THEOREM NeverDeserted == WatcherFirst /\ Spec => []ReceiverNotDeserted
<1> SUFFICES ASSUME WatcherFirst
             PROVE  Spec => []ReceiverNotDeserted
  OBVIOUS
<1>1. TypeInv /\ ErrorInv /\ OrderlyEnd => ReceiverNotDeserted
  BY BatcherAssumption
  DEF BatcherAssumption, TypeInv, TypeOK, ErrorInv, OrderlyEnd, Failed, ReceiverNotDeserted
<1> QED
  BY <1>1, TypeInvariance, ErrorInvariance, OrderlyEndInvariance, PTL

(* There are fewer buffers in the hands of workers than there are workers  *)
(* or buffers, so that pool.Get finds memory for one more.                 *)
LEMMA RoomForOneMore == TypeInv => Bufs \ HeldBufs # {}
<1> SUFFICES ASSUME TypeInv
             PROVE  Bufs \ HeldBufs # {}
  OBVIOUS
<1> DEFINE Held == {held[w] : w \in Workers}
<1>1. Held \in SUBSET (Bufs \cup {NoBuf})
  BY DEF TypeInv, TypeOK
<1>2. [w \in Workers |-> held[w]] \in Surjection(Workers, Held)
  BY DEF Surjection
<1>3. IsFiniteSet(Held) /\ Cardinality(Held) <= Cardinality(Workers)
  BY <1>2, FS_Surjection, BatcherAssumption DEF BatcherAssumption
<1>4. ASSUME Bufs \subseteq Held
      PROVE  FALSE
  <2>1. Cardinality(Bufs) <= Cardinality(Held)
    BY <1>3, <1>4, FS_Subset
  <2>2. Cardinality(Bufs) \in Nat /\ Cardinality(Held) \in Nat /\ Cardinality(Workers) \in Nat
    BY <1>3, FS_CardinalityType, BatcherAssumption DEF BatcherAssumption
  <2> QED
    BY <1>3, <2>1, <2>2, BatcherAssumption DEF BatcherAssumption
<1> QED
  BY <1>4 DEF HeldBufs

(* Where a goroutine of Serve is not waiting for another one: a case of    *)
(* its select is ready, or it is not at a select.  A flush ends by itself, *)
(* and so does a backoff.                                                  *)
ReceiverReady ==
  \/ /\ rpc = "select"
     /\ ~Empty(cur) \/ done \/ canceled \/ \E e \in Events : call[e] = "sending"
  \/ /\ rpc = "handoff"
     /\ canceled \/ \E w \in Workers : wpc[w] = "idle"
  \/ /\ rpc = "getbuf"
     /\ Bufs \ LiveBufs # {}

WorkerReady(w) ==
  \/ wpc[w] \in {"flushing", "backoff"}
  \/ wpc[w] = "idle" /\ rpc = "closed"

ServerReady ==
  \/ ~wdone /\ \A w \in Workers : wpc[w] \in {"exited", "failed"}
  \/ upc \in {"starting", "stopping"}
  \/ ~served /\ wdone /\ upc = "done" /\ rpc = "closed"

NobodyIsStuck ==
  /\ (done \/ Failed) /\ ~served
       => ReceiverReady \/ (\E w \in Workers : WorkerReady(w)) \/ ServerReady
  /\ \A e \in Events : call[e] = "sending"
       => done \/ canceled \/ ReceiverReady \/ (\E w \in Workers : WorkerReady(w)) \/ ServerReady

(* Serve has no deadlock: after Shutdown or an error, and for as long as a *)
(* caller of Batch waits, somebody can go on until Serve has returned and  *)
(* the caller is released.                                                 *)
THEOREM NoDeadlock == WatcherFirst /\ Spec => []NobodyIsStuck
<1> SUFFICES ASSUME WatcherFirst
             PROVE  Spec => []NobodyIsStuck
  OBVIOUS
<1>1. TypeInv /\ ErrorInv /\ EndInv /\ OrderlyEnd => NobodyIsStuck
  <2> SUFFICES ASSUME TypeInv, ErrorInv, EndInv, OrderlyEnd, ~ReceiverReady, ~ServerReady,
                      \A w \in Workers : ~WorkerReady(w)
               PROVE  /\ done \/ Failed => served
                      /\ \A e \in Events : call[e] = "sending" => done \/ canceled
    BY DEF NobodyIsStuck
  <2>1. Failed => canceled
    BY DEF ErrorInv, OrderlyEnd, ServerReady
  <2>2. CASE rpc = "select"
    BY <2>1, <2>2 DEF ReceiverReady
  <2>3. CASE rpc = "handoff"
    <3>1. ~canceled /\ \A w \in Workers : wpc[w] # "idle"
      BY <2>3 DEF ReceiverReady
    <3>2. \A w \in Workers : wpc[w] = "failed"
      BY <2>3, <3>1 DEF WorkerReady, OrderlyEnd, TypeInv, TypeOK
    <3> QED
      BY <2>1, <3>1, <3>2, BatcherAssumption DEF Failed, BatcherAssumption
  <2>4. CASE rpc = "getbuf"
    BY <2>4, RoomForOneMore DEF ReceiverReady, LiveBufs, CurBufs
  <2>5. CASE rpc = "closed"
    <3>1. done \/ canceled
      BY <2>5 DEF EndInv
    <3>2. \A w \in Workers : wpc[w] \in {"exited", "failed"}
      BY <2>5 DEF WorkerReady, TypeInv, TypeOK
    <3>3. wdone
      BY <3>2 DEF ServerReady
    <3>4. upc = "done"
      BY <3>3 DEF ServerReady, OrderlyEnd, TypeInv, TypeOK
    <3> QED
      BY <2>5, <3>1, <3>3, <3>4 DEF ServerReady
  <2> QED
    BY <2>2, <2>3, <2>4, <2>5 DEF TypeInv, TypeOK
<1> QED
  BY <1>1, TypeInvariance, ErrorInvariance, EndInvariance, OrderlyEndInvariance, PTL

-----------------------------------------------------------------------------
(* A block that was not sent again is new to the table, and no event is in *)
(* two blocks.                                                             *)
OnceInv ==
  /\ \A v, w \in Workers : v # w /\ held[v] # NoBuf /\ held[w] # NoBuf
                             => val[held[v]] \cap val[held[w]] = {}
  /\ \A w \in Workers : held[w] # NoBuf /\ Filling => val[held[w]] \cap val[cur] = {}
  /\ Filling => val[cur] \cap stored = {}
  /\ \A w \in Workers : held[w] # NoBuf => val[held[w]] \cap stored \subseteq retried
  /\ dup \subseteq retried
  /\ stored \subseteq {e \in Visible : call[e] = "accepted"}
  /\ ~RetryEnable => retried = {}

LEMMA OnceInvariance == Spec => []OnceInv
<1>1. Init => OnceInv
  BY DEF Init, OnceInv
<1>2. TypeInv /\ BufferInv /\ OnceInv /\ [Next]_vars => OnceInv'
  <2> SUFFICES ASSUME TypeInv, BufferInv, OnceInv, [Next]_vars
               PROVE  OnceInv'
    OBVIOUS
  <2> USE BatcherAssumption
      DEF BatcherAssumption, TypeInv, TypeOK, HoldsWhileFlushing, BufferInv, Ownership,
          PooledBuffersEmpty, Contents, Filling, Visible, OnceInv,
          callvars, recvvars, bufvars, workvars, watchvars, dbvars
  <2>1. CASE UNCHANGED vars
    BY <2>1 DEF vars
  <2>2. ASSUME NEW e \in Events, Batch(e)
         PROVE  OnceInv'
    BY <2>2 DEF Batch
  <2>3. ASSUME NEW e \in Events, BatchDropped(e)
         PROVE  OnceInv'
    BY <2>3 DEF BatchDropped
  <2>4. CASE Shutdown
    BY <2>4 DEF Shutdown
  <2>5. ASSUME NEW e \in Events, RecvEvent(e)
         PROVE  OnceInv'
    BY <2>5 DEF RecvEvent, Visible
  <2>6. CASE RecvTimeout
    BY <2>6 DEF RecvTimeout, Empty
  <2>7. CASE RecvDone
    BY <2>7 DEF RecvDone, Empty
  <2>8. CASE RecvCanceled
    BY <2>8 DEF RecvCanceled
  <2>9. ASSUME NEW w \in Workers, Handoff(w)
         PROVE  OnceInv'
    BY <2>9 DEF Handoff
  <2>10. CASE GetBuf
    BY <2>10 DEF GetBuf, LiveBufs, HeldBufs, CurBufs
  <2>11. ASSUME NEW b \in Bufs, PoolEvict(b)
         PROVE  OnceInv'
    BY <2>11 DEF PoolEvict
  <2>12. ASSUME NEW w \in Workers, FlushOk(w)
         PROVE  OnceInv'
    BY <2>12 DEF FlushOk, Insert
  <2>13. ASSUME NEW w \in Workers, FlushFail(w)
         PROVE  OnceInv'
    BY <2>13 DEF FlushFail, Insert, ReportError
  <2>14. ASSUME NEW w \in Workers, FlushRetry(w)
         PROVE  OnceInv'
    BY <2>14 DEF FlushRetry, Insert
  <2>15. ASSUME NEW w \in Workers, BackoffElapsed(w)
         PROVE  OnceInv'
    BY <2>15 DEF BackoffElapsed
  <2>16. ASSUME NEW w \in Workers, BackoffCanceled(w)
         PROVE  OnceInv'
    BY <2>16 DEF BackoffCanceled, ReportError
  <2>17. ASSUME NEW w \in Workers, WorkerExit(w)
         PROVE  OnceInv'
    BY <2>17 DEF WorkerExit
  <2>18. CASE CloseWdone
    BY <2>18 DEF CloseWdone
  <2>19. CASE WatcherSelect
    BY <2>19 DEF WatcherSelect
  <2>20. CASE StopFlash
    BY <2>20 DEF StopFlash
  <2>21. CASE ServeReturn
    BY <2>21 DEF ServeReturn
  <2>22. CASE Rest
    BY <2>22 DEF Rest, vars
  <2> QED
    BY <2>1, <2>2, <2>3, <2>4, <2>5, <2>6, <2>7, <2>8, <2>9, <2>10, <2>11,
       <2>12, <2>13, <2>14, <2>15, <2>16, <2>17, <2>18, <2>19, <2>20, <2>21, <2>22
    DEF Next, Receiver, Worker
<1> QED
  BY <1>1, <1>2, TypeInvariance, BufferInvariance, PTL DEF Spec

(* No event is stored twice unless its batch was sent again. *)
THEOREM AtMostOnce == Spec => []OnlyRetriesDuplicate
<1>1. OnceInv => OnlyRetriesDuplicate
  BY DEF OnceInv, OnlyRetriesDuplicate
<1> QED
  BY <1>1, OnceInvariance, PTL

(* With retries disabled no event is stored twice at all. *)
THEOREM AtMostOnceWithoutRetry == ~RetryEnable /\ Spec => [](dup = {})
<1> SUFFICES ASSUME ~RetryEnable
             PROVE  Spec => [](dup = {})
  OBVIOUS
<1>1. OnceInv => dup = {}
  BY DEF OnceInv
<1> QED
  BY <1>1, OnceInvariance, PTL

-----------------------------------------------------------------------------
(* Batcher implements EventSink when the watcher is parked before the      *)
(* first flush: each step of the batcher is a step of the ledger, or       *)
(* changes nothing that the ledger sees.                                   *)

Inv == TypeInv /\ BufferInv /\ ErrorInv /\ Conservation /\ OnceInv /\ EndInv

LEMMA Invariants == Spec => []Inv
  BY TypeInvariance, BufferInvariance, ErrorInvariance, ConservationInvariance,
     OnceInvariance, EndInvariance, PTL DEF Inv

-----------------------------------------------------------------------------
(* The ledger without UNION.                                               *)

Home(e) ==
  \/ Filling /\ e \in val[cur]
  \/ \E w \in Workers : held[w] # NoBuf /\ e \in val[held[w]]

Fate(e) ==
  IF e \in stored THEN "stored"
  ELSE IF call[e] = "accepted" THEN IF Home(e) THEN "accepted" ELSE "lost"
  ELSE CallFate[call[e]]

Ledger == [e \in Visible |-> FateOf(e)]

LEMMA HomeIsInFlight == \A e : e \in InFlight <=> Home(e)
  BY DEF InFlight, LiveBufs, CurBufs, HeldBufs, Home, Filling

LEMMA LedgerIsFate == Ledger = [e \in Visible |-> Fate(e)]
<1>1. ASSUME NEW e \in Visible
      PROVE  FateOf(e) = Fate(e)
  BY HomeIsInFlight DEF FateOf, Fate
<1> QED
  BY <1>1 DEF Ledger

-----------------------------------------------------------------------------

LEMMA InitMaps == Init => Sink!Init
<1> SUFFICES ASSUME Init
             PROVE  Sink!Init
  OBVIOUS
<1>1. Ledger = [e \in Visible |-> "none"]
  BY LedgerIsFate DEF Init, Fate, Visible, CallFate
<1>2. ~Failed /\ Result = "running"
  BY DEF Init, Failed, Result
<1> QED
  BY <1>1, <1>2 DEF Init, Sink!Init, Ledger

(* What the ledger sees does not change. *)
Quiet == Ledger' = Ledger /\ done' = done /\ Failed' = Failed /\ Result' = Result

LEMMA QuietMaps == Quiet => UNCHANGED Sink!svars
  BY DEF Quiet, Ledger, Sink!svars

LEMMA QuietWhenUnmoved ==
  ASSUME stored' = stored, call' = call, \A e \in Visible : Home(e)' <=> Home(e)
  PROVE  Ledger' = Ledger
<1>1. (Ledger = [e \in Visible |-> Fate(e)])'
  BY LedgerIsFate, PTL
<1>2. Visible' = Visible
  BY DEF Visible
<1>3. ASSUME NEW e \in Visible
      PROVE  Fate(e)' = Fate(e)
  BY DEF Fate, CallFate
<1> QED
  BY <1>1, <1>2, <1>3, LedgerIsFate

-----------------------------------------------------------------------------
(* What the ledger calls accepted. *)
LEMMA AcceptedIsHome ==
  ASSUME TypeInv
  PROVE  Sink!Accepted = {e \in Visible : call[e] = "accepted" /\ e \notin stored /\ Home(e)}
<1>1. Sink!Accepted = {e \in Visible : Ledger[e] = "accepted"}
  BY DEF Sink!Accepted, Ledger
<1>2. ASSUME NEW e \in Visible
      PROVE  Fate(e) = "accepted" <=> call[e] = "accepted" /\ e \notin stored /\ Home(e)
  BY DEF Fate, CallFate, TypeInv, TypeOK, Visible
<1> QED
  BY <1>1, <1>2, LedgerIsFate

LEMMA LedgerIsFateNext == Visible' = Visible /\ Ledger' = [e \in Visible |-> Fate(e)']
<1>1. (Ledger = [e \in Visible |-> Fate(e)])'
  BY LedgerIsFate, PTL
<1>2. Visible' = Visible
  BY DEF Visible
<1> QED
  BY <1>1, <1>2

(* Callers. *)
LEMMA BatchMaps ==
  ASSUME Inv, NEW e \in Events, Batch(e)
  PROVE  [Sink!Next]_Sink!svars
<1>1. done' = done /\ Failed' = Failed /\ Result' = Result
  BY DEF Batch, recvvars, workvars, watchvars, Failed, Result
<1>2. \A x : Home(x)' <=> Home(x)
  BY DEF Batch, Home, Filling, recvvars, bufvars, workvars
<1>3. \A x \in Visible : x # e => Fate(x)' = Fate(x)
  BY <1>2 DEF Batch, Fate, dbvars, Inv, TypeInv, TypeOK, Visible
<1>4. CASE e \in Visible
  <2>1. Fate(e) = "none" /\ Fate(e)' = "pending"
    BY <1>4 DEF Batch, Fate, CallFate, dbvars, Inv, OnceInv, TypeInv, TypeOK, Visible
  <2>2. Ledger[e] = "none" /\ Ledger' = [Ledger EXCEPT ![e] = "pending"]
    BY <1>3, <1>4, <2>1, LedgerIsFate, LedgerIsFateNext
  <2>3. Sink!Submit(e)
    BY <1>1, <2>2 DEF Sink!Submit, Ledger
  <2> QED
    BY <1>4, <2>3 DEF Sink!Next
<1>5. CASE e \notin Visible
  <2>1. Ledger' = Ledger
    BY <1>3, <1>5, LedgerIsFate, LedgerIsFateNext
  <2> QED
    BY <1>1, <2>1, QuietMaps DEF Quiet
<1> QED
  BY <1>4, <1>5

LEMMA BatchDroppedMaps ==
  ASSUME Inv, NEW e \in Events, BatchDropped(e)
  PROVE  [Sink!Next]_Sink!svars
<1>1. done' = done /\ Failed' = Failed /\ Result' = Result
  BY DEF BatchDropped, recvvars, workvars, watchvars, Failed, Result
<1>2. \A x : Home(x)' <=> Home(x)
  BY DEF BatchDropped, Home, Filling, recvvars, bufvars, workvars
<1>3. \A x \in Visible : x # e => Fate(x)' = Fate(x)
  BY <1>2 DEF BatchDropped, Fate, dbvars, Inv, TypeInv, TypeOK, Visible
<1>4. CASE e \in Visible
  <2>1. Fate(e) = "pending" /\ Fate(e)' = "dropped"
    BY <1>4 DEF BatchDropped, Fate, CallFate, dbvars, Inv, OnceInv, TypeInv, TypeOK, Visible
  <2>2. Ledger[e] = "pending" /\ Ledger' = [Ledger EXCEPT ![e] = "dropped"]
    BY <1>3, <1>4, <2>1, LedgerIsFate, LedgerIsFateNext
  <2>3. done \/ Failed
    BY DEF BatchDropped, Inv, ErrorInv
  <2>4. Sink!Drop(e)
    BY <1>1, <2>2, <2>3 DEF Sink!Drop, Ledger
  <2> QED
    BY <1>4, <2>4 DEF Sink!Next
<1>5. CASE e \notin Visible
  <2>1. Ledger' = Ledger
    BY <1>3, <1>5, LedgerIsFate, LedgerIsFateNext
  <2> QED
    BY <1>1, <2>1, QuietMaps DEF Quiet
<1> QED
  BY <1>4, <1>5

LEMMA ShutdownMaps ==
  ASSUME Inv, Shutdown
  PROVE  [Sink!Next]_Sink!svars
<1>1. Failed' = Failed /\ Result' = Result
  BY DEF Shutdown, workvars, watchvars, Failed, Result
<1>2. \A x : Home(x)' <=> Home(x)
  BY DEF Shutdown, Home, Filling, recvvars, bufvars, workvars
<1>3. Ledger' = Ledger
  BY <1>2, QuietWhenUnmoved DEF Shutdown, dbvars
<1>4. Sink!Stop
  BY <1>1, <1>3 DEF Shutdown, Sink!Stop, Ledger
<1> QED
  BY <1>4 DEF Sink!Next

(* The receiver. *)
LEMMA RecvEventMaps ==
  ASSUME Inv, NEW e \in Events, RecvEvent(e)
  PROVE  [Sink!Next]_Sink!svars
<1>1. done' = done /\ Failed' = Failed /\ Result' = Result
  BY DEF RecvEvent, workvars, watchvars, Failed, Result
<1>2. Result = "running"
  BY DEF RecvEvent, Result, Inv, ErrorInv
<1>3. /\ cur' = cur /\ held' = held /\ stored' = stored
      /\ Filling /\ Filling'
      /\ val' = [val EXCEPT ![cur] = @ \cup ({e} \cap Visible)]
      /\ call' = [call EXCEPT ![e] = "accepted"]
      /\ call[e] = "sending"
      /\ cur \in Bufs /\ val \in [Bufs -> SUBSET Events] /\ held \in [Workers -> Bufs \cup {NoBuf}]
      /\ call \in [Events -> {"idle", "sending", "accepted", "dropped"}]
  BY DEF RecvEvent, Filling, workvars, dbvars, Inv, TypeInv, TypeOK
<1>4. \A w \in Workers : held[w] # NoBuf => held[w] # cur
  BY <1>3 DEF Inv, BufferInv, Ownership
<1>5. \A w \in Workers : held[w] # NoBuf => val'[held'[w]] = val[held[w]]
  BY <1>3, <1>4
<1>6. val'[cur'] = val[cur] \cup ({e} \cap Visible)
  BY <1>3
<1>7. ASSUME NEW x \in Visible, x # e
      PROVE  Fate(x)' = Fate(x)
  <2>1. Home(x)' <=> Home(x)
    BY <1>3, <1>5, <1>6, <1>7 DEF Home
  <2> QED
    BY <1>3, <1>7, <2>1 DEF Fate, Visible
<1>8. CASE e \in Visible
  <2>1. Home(e)'
    BY <1>3, <1>6, <1>8 DEF Home
  <2>2. Fate(e) = "pending" /\ Fate(e)' = "accepted"
    BY <1>3, <2>1 DEF Fate, CallFate, Inv, OnceInv
  <2>3. Ledger[e] = "pending" /\ Ledger' = [Ledger EXCEPT ![e] = "accepted"]
    BY <1>7, <1>8, <2>2, LedgerIsFate, LedgerIsFateNext
  <2>4. Sink!Accept(e)
    BY <1>1, <1>2, <2>3 DEF Sink!Accept, Ledger
  <2> QED
    BY <1>8, <2>4 DEF Sink!Next
<1>9. CASE e \notin Visible
  <2>1. Ledger' = Ledger
    BY <1>7, <1>9, LedgerIsFate, LedgerIsFateNext
  <2> QED
    BY <1>1, <2>1, QuietMaps DEF Quiet
<1> QED
  BY <1>8, <1>9

(* Steps that move a buffer, or nothing, without changing what becomes of  *)
(* the events.                                                             *)
LEMMA MovesMap ==
  ASSUME Inv, \/ RecvTimeout \/ RecvDone
              \/ \E w \in Workers : Handoff(w)
              \/ GetBuf
              \/ \E b \in Bufs : PoolEvict(b)
  PROVE  [Sink!Next]_Sink!svars
<1> DEFINE Still == /\ done' = done /\ stored' = stored /\ call' = call
                    /\ Failed' = Failed /\ Result' = Result
<1>1. SUFFICES Still /\ \A e \in Visible : Home(e)' <=> Home(e)
  BY QuietWhenUnmoved, QuietMaps DEF Quiet
<1>2. CASE RecvTimeout
  BY <1>2 DEF RecvTimeout, Failed, Result, callvars, bufvars, workvars, watchvars, dbvars,
              Home, Filling
<1>3. CASE RecvDone
  <2>1. Still
    BY <1>3 DEF RecvDone, Failed, Result, callvars, workvars, watchvars, dbvars
  <2>2. rpc' = "closed" => val[cur] = {}
    BY <1>3 DEF RecvDone, Empty, Inv, BufferInv, Contents, TypeInv, TypeOK
  <2>3. \A e \in Visible : Home(e)' <=> Home(e)
    BY <1>3, <2>2 DEF RecvDone, Home, Filling, bufvars, workvars
  <2> QED
    BY <2>1, <2>3
<1>4. ASSUME NEW w \in Workers, Handoff(w)
      PROVE  Still /\ \A e \in Visible : Home(e)' <=> Home(e)
  <2>1. held \in [Workers -> Bufs \cup {NoBuf}] /\ held[w] = NoBuf /\ cur \in Bufs /\ cur # NoBuf
    BY <1>4, BatcherAssumption
    DEF Handoff, BatcherAssumption, Inv, TypeInv, TypeOK, HoldsWhileFlushing
  <2>2. Failed' = Failed
    BY <1>4 DEF Handoff, Failed, Inv, TypeInv, TypeOK
  <2>3. Still
    BY <1>4, <2>2 DEF Handoff, Result, callvars, watchvars, dbvars
  <2>4. Filling /\ ~Filling' /\ val' = val /\ held' = [held EXCEPT ![w] = cur]
    BY <1>4 DEF Handoff, Filling, bufvars
  <2>5. \A e \in Visible : Home(e)' <=> Home(e)
    BY <2>1, <2>4 DEF Home
  <2> QED
    BY <2>3, <2>5
<1>5. CASE GetBuf
  <2>1. Still
    BY <1>5 DEF GetBuf, Failed, Result, callvars, workvars, watchvars, dbvars
  <2>2. PICK b \in Bufs \ LiveBufs :
          /\ cur' = b
          /\ b \in pool => val' = val
          /\ b \notin pool => val' = [val EXCEPT ![b] = {}]
    BY <1>5 DEF GetBuf
  <2>3. val \in [Bufs -> SUBSET Events] /\ held \in [Workers -> Bufs \cup {NoBuf}] /\ held' = held
    BY <1>5 DEF GetBuf, workvars, Inv, TypeInv, TypeOK
  <2>4. val'[cur'] = {}
    BY <2>2, <2>3 DEF Inv, BufferInv, PooledBuffersEmpty
  <2>5. \A w \in Workers : held[w] # NoBuf => held[w] # b
    BY <2>2, <2>3 DEF LiveBufs, HeldBufs
  <2>6. \A w \in Workers : held[w] # NoBuf => val'[held'[w]] = val[held[w]]
    BY <2>2, <2>3, <2>5
  <2>7. ~Filling
    BY <1>5 DEF GetBuf, Filling
  <2>8. \A e \in Visible : Home(e)' <=> Home(e)
    BY <2>3, <2>4, <2>6, <2>7 DEF Home
  <2> QED
    BY <2>1, <2>8
<1>6. ASSUME NEW b \in Bufs, PoolEvict(b)
      PROVE  Still /\ \A e \in Visible : Home(e)' <=> Home(e)
  BY <1>6 DEF PoolEvict, Failed, Result, callvars, recvvars, workvars, watchvars, dbvars,
              Home, Filling
<1> QED
  BY <1>2, <1>3, <1>4, <1>5, <1>6

(* The receiver abandons its buffer: a failure has been reported. *)
LEMMA RecvCanceledMaps ==
  ASSUME Inv, RecvCanceled
  PROVE  [Sink!Next]_Sink!svars
<1> DEFINE L == {e \in Sink!Accepted : ~Home(e)'}
<1>1. done' = done /\ Failed' = Failed /\ Result' = Result /\ stored' = stored /\ call' = call
  BY DEF RecvCanceled, callvars, workvars, watchvars, dbvars, Failed, Result
<1>2. Failed /\ Result = "running"
  BY DEF RecvCanceled, Result, Inv, ErrorInv
<1>3. \A e : Home(e)' => Home(e)
  BY DEF RecvCanceled, Home, Filling, bufvars, workvars
<1>4. ASSUME NEW e \in Visible
      PROVE  Fate(e)' = IF e \in L THEN "lost" ELSE Fate(e)
  BY <1>1, <1>3, AcceptedIsHome DEF Fate, Inv
<1>5. Ledger' = [e \in Visible |-> IF e \in L THEN "lost" ELSE Ledger[e]]
  BY <1>4, LedgerIsFate, LedgerIsFateNext
<1>6. Sink!Abandon(L)
  BY <1>1, <1>2, <1>5 DEF Sink!Abandon, Ledger
<1> QED
  BY <1>6 DEF Sink!Next

-----------------------------------------------------------------------------
(* Workers.  A worker that holds a buffer keeps Serve from returning. *)
LEMMA HoldingIsRunning ==
  ASSUME Inv, NEW w \in Workers, wpc[w] \in {"flushing", "backoff"}
  PROVE  /\ held[w] \in Bufs /\ held[w] # NoBuf
         /\ ~served
         /\ \A v \in Workers : v # w /\ held[v] # NoBuf => held[v] # held[w]
         /\ Filling => held[w] # cur
  BY BatcherAssumption
  DEF BatcherAssumption, Inv, TypeInv, TypeOK, HoldsWhileFlushing, BufferInv, Ownership, ErrorInv

LEMMA FlushOkMaps ==
  ASSUME Inv, NEW w \in Workers, FlushOk(w)
  PROVE  [Sink!Next]_Sink!svars
<1> DEFINE S == {e \in Sink!Accepted : e \in val[held[w]]}
<1>1. /\ held[w] \in Bufs /\ held[w] # NoBuf
      /\ ~served
      /\ \A v \in Workers : v # w /\ held[v] # NoBuf => held[v] # held[w]
      /\ Filling => held[w] # cur
  BY HoldingIsRunning DEF FlushOk
<1>2. /\ done' = done /\ Failed' = Failed /\ Result' = Result /\ call' = call
      /\ Result = "running"
  BY <1>1 DEF FlushOk, callvars, watchvars, Failed, Result, Inv, TypeInv, TypeOK
<1>3. /\ val' = [val EXCEPT ![held[w]] = {}]
      /\ held' = [held EXCEPT ![w] = NoBuf]
      /\ stored' = stored \cup val[held[w]]
      /\ cur' = cur /\ rpc' = rpc
      /\ val \in [Bufs -> SUBSET Events] /\ held \in [Workers -> Bufs \cup {NoBuf}]
      /\ cur \in Bufs
  BY DEF FlushOk, Insert, recvvars, Inv, TypeInv, TypeOK
<1>4. ASSUME NEW e \in Visible, e \notin val[held[w]]
      PROVE  Home(e)' <=> Home(e)
  <2>1. Filling' <=> Filling
    BY <1>3 DEF Filling
  <2>2. Filling => val'[cur'] = val[cur]
    BY <1>1, <1>3
  <2>3. \A v \in Workers : v # w => held'[v] = held[v] /\ (held[v] # NoBuf => val'[held'[v]] = val[held[v]])
    BY <1>1, <1>3
  <2>4. held'[w] = NoBuf
    BY <1>3
  <2> QED
    BY <1>4, <2>1, <2>2, <2>3, <2>4 DEF Home
<1>5. ASSUME NEW e \in Visible, e \in val[held[w]], e \notin stored
      PROVE  e \in S
  BY <1>1, <1>5, AcceptedIsHome DEF Home, Inv, BufferInv, Contents
<1>6. ASSUME NEW e \in Visible
      PROVE  Fate(e)' = IF e \in S THEN "stored" ELSE Fate(e)
  BY <1>2, <1>3, <1>4, <1>5 DEF Fate
<1>7. Ledger' = [e \in Visible |-> IF e \in S THEN "stored" ELSE Ledger[e]]
  BY <1>6, LedgerIsFate, LedgerIsFateNext
<1>8. Sink!Store(S)
  BY <1>2, <1>7 DEF Sink!Store, Ledger
<1> QED
  BY <1>8 DEF Sink!Next

LEMMA FlushRetryMaps ==
  ASSUME Inv, NEW w \in Workers, FlushRetry(w)
  PROVE  [Sink!Next]_Sink!svars
<1>1. ~served
  BY HoldingIsRunning DEF FlushRetry
<1>2. /\ done' = done /\ Failed' = Failed /\ Result' = Result /\ call' = call
      /\ Result = "running"
  BY <1>1 DEF FlushRetry, callvars, watchvars, Failed, Result, Inv, TypeInv, TypeOK
<1>3. PICK T \in SUBSET val[held[w]] : stored' = stored \cup T
  BY DEF FlushRetry, Insert
<1> DEFINE S == {e \in Sink!Accepted : e \in T}
<1>4. \A e : Home(e)' <=> Home(e)
  BY DEF FlushRetry, Home, Filling, recvvars, bufvars
<1>5. ASSUME NEW e \in Visible, e \in T, e \notin stored
      PROVE  e \in S
  BY <1>5, AcceptedIsHome, HoldingIsRunning
  DEF FlushRetry, Home, Inv, BufferInv, Contents
<1>6. ASSUME NEW e \in Visible
      PROVE  Fate(e)' = IF e \in S THEN "stored" ELSE Fate(e)
  BY <1>2, <1>3, <1>4, <1>5 DEF Fate
<1>7. Ledger' = [e \in Visible |-> IF e \in S THEN "stored" ELSE Ledger[e]]
  BY <1>6, LedgerIsFate, LedgerIsFateNext
<1>8. Sink!Store(S)
  BY <1>2, <1>7 DEF Sink!Store, Ledger
<1> QED
  BY <1>8 DEF Sink!Next

(* A worker leaves with its buffer, of which the events of T are stored. *)
LEMMA GiveUpMaps ==
  ASSUME Inv, NEW w \in Workers, NEW T \in SUBSET val[held[w]],
         wpc[w] \in {"flushing", "backoff"}, ReportError(w),
         stored' = stored \cup T, UNCHANGED <<callvars, recvvars, bufvars, served>>
  PROVE  [Sink!Next]_Sink!svars
<1> DEFINE S == {e \in Sink!Accepted : e \in T}
           L == {e \in Sink!Accepted : ~Home(e)'}
<1>1. held[w] \in Bufs /\ held[w] # NoBuf /\ ~served
  BY HoldingIsRunning
<1>2. /\ done' = done /\ call' = call
      /\ Result = "running" /\ Result' = "running"
  BY <1>1 DEF callvars, Result
<1>3. Failed'
  BY DEF ReportError, Failed, Inv, TypeInv, TypeOK
<1>4. \A e : Home(e)' => Home(e)
  <2>1. /\ val' = val /\ cur' = cur /\ Filling' = Filling
        /\ held' = [held EXCEPT ![w] = NoBuf] /\ held \in [Workers -> Bufs \cup {NoBuf}]
    BY DEF ReportError, recvvars, bufvars, Filling, Inv, TypeInv, TypeOK
  <2> QED
    BY <2>1 DEF Home
<1>5. ASSUME NEW e \in Visible, e \in T, e \notin stored
      PROVE  e \in S
  BY <1>1, <1>5, AcceptedIsHome DEF Home, Inv, BufferInv, Contents
<1>6. ASSUME NEW e \in Visible
      PROVE  Fate(e)' = IF e \in S THEN "stored" ELSE IF e \in L THEN "lost" ELSE Fate(e)
  BY <1>2, <1>4, <1>5, AcceptedIsHome DEF Fate, Inv
<1>7. Ledger' = [e \in Visible |-> IF e \in S THEN "stored"
                                   ELSE IF e \in L THEN "lost" ELSE Ledger[e]]
  BY <1>6, LedgerIsFate, LedgerIsFateNext
<1>8. Sink!GiveUp(S, L)
  BY <1>2, <1>3, <1>7 DEF Sink!GiveUp, Ledger
<1> QED
  BY <1>8 DEF Sink!Next

LEMMA FlushFailMaps ==
  ASSUME Inv, NEW w \in Workers, FlushFail(w)
  PROVE  [Sink!Next]_Sink!svars
<1>1. PICK T \in SUBSET val[held[w]] : stored' = stored \cup T
  BY DEF FlushFail, Insert
<1> QED
  BY <1>1, GiveUpMaps DEF FlushFail

LEMMA BackoffCanceledMaps ==
  ASSUME Inv, NEW w \in Workers, BackoffCanceled(w)
  PROVE  [Sink!Next]_Sink!svars
<1>1. {} \in SUBSET val[held[w]] /\ stored' = stored \cup {}
  BY DEF BackoffCanceled, dbvars
<1> QED
  BY <1>1, GiveUpMaps DEF BackoffCanceled

(* Steps within Serve that the ledger does not see. *)
LEMMA InnerMaps ==
  ASSUME WatcherFirst, Inv,
         \/ \E w \in Workers : BackoffElapsed(w) \/ WorkerExit(w)
         \/ CloseWdone \/ WatcherSelect \/ StopFlash \/ Rest \/ UNCHANGED vars
  PROVE  [Sink!Next]_Sink!svars
<1>1. /\ done' = done /\ stored' = stored /\ call' = call
      /\ val' = val /\ held' = held /\ cur' = cur /\ rpc' = rpc
      /\ served' = served /\ rerr' = rerr
  BY DEF BackoffElapsed, WorkerExit, CloseWdone, WatcherSelect, StopFlash, Rest, vars,
         callvars, recvvars, bufvars, workvars, watchvars, dbvars, Inv, ErrorInv
<1>2. Failed' = Failed
  <2>1. \A w \in Workers : wpc'[w] = "failed" <=> wpc[w] = "failed"
    BY DEF BackoffElapsed, WorkerExit, CloseWdone, WatcherSelect, StopFlash, Rest, vars,
           workvars, Inv, TypeInv, TypeOK
  <2> QED
    BY <2>1 DEF Failed
<1>3. Ledger' = Ledger
  BY <1>1, QuietWhenUnmoved DEF Home, Filling
<1>4. Quiet
  BY <1>1, <1>2, <1>3 DEF Quiet, Result
<1> QED
  BY <1>4, QuietMaps

(* Serve returns nil only after Shutdown and with everything stored. *)
LEMMA ServeReturnMaps ==
  ASSUME WatcherFirst, Inv, ServeReturn
  PROVE  [Sink!Next]_Sink!svars
<1>1. done' = done /\ Failed' = Failed /\ stored' = stored /\ call' = call /\ ~served
  BY DEF ServeReturn, callvars, workvars, dbvars, Failed
<1>2. Result = "running" /\ Result' = IF rerr THEN "error" ELSE "nil"
  BY DEF ServeReturn, watchvars, Result
<1>3. \A e : Home(e)' <=> Home(e)
  BY DEF ServeReturn, Home, Filling, recvvars, bufvars, workvars
<1>4. Ledger' = Ledger
  BY <1>1, <1>3, QuietWhenUnmoved
<1>5. \A e : ~Home(e)
  BY DEF ServeReturn, Home, Filling, Inv, ErrorInv, TypeInv, HoldsWhileFlushing
<1>6. Sink!Accepted = {}
  BY <1>5, AcceptedIsHome DEF Inv
<1>7. CASE rerr
  <2>1. Failed
    BY <1>7 DEF Inv, ErrorInv
  <2>2. Sink!Return
    BY <1>1, <1>2, <1>4, <1>6, <1>7, <2>1 DEF Sink!Return, Ledger
  <2> QED
    BY <2>2 DEF Sink!Next
<1>8. CASE ~rerr
  <2>1. ~Failed
    BY <1>8 DEF Inv, ErrorInv
  <2>2. done
    BY <2>1 DEF ServeReturn, Inv, ErrorInv, EndInv
  <2>3. ASSUME NEW e \in Visible
        PROVE  Fate(e) # "lost"
    <3>1. call[e] = "accepted" => e \in stored
      BY <1>5, <2>1 DEF Inv, Conservation, Found, Home
    <3> QED
      BY <3>1 DEF Fate, CallFate, Inv, TypeInv, TypeOK, Visible
  <2>4. \A e \in Visible : Ledger[e] # "lost"
    BY <2>3, LedgerIsFate
  <2>5. Sink!Return
    BY <1>1, <1>2, <1>4, <1>6, <1>8, <2>2, <2>4 DEF Sink!Return, Ledger
  <2> QED
    BY <2>5 DEF Sink!Next
<1> QED
  BY <1>7, <1>8

-----------------------------------------------------------------------------
(* The batcher keeps the promises of EventSink: what Batch, Serve and      *)
(* Shutdown do in any order is what the ledger allows, provided that the   *)
(* watcher is parked before the first flush.                               *)
THEOREM Refinement == WatcherFirst /\ Spec => ImplementsSink
<1> SUFFICES ASSUME WatcherFirst
             PROVE  Spec => ImplementsSink
  OBVIOUS
<1>1. Inv /\ [Next]_vars => [Sink!Next]_Sink!svars
  <2> SUFFICES ASSUME Inv, [Next]_vars
               PROVE  [Sink!Next]_Sink!svars
    OBVIOUS
  <2> QED
    BY BatchMaps, BatchDroppedMaps, ShutdownMaps, RecvEventMaps, MovesMap, RecvCanceledMaps,
       FlushOkMaps, FlushRetryMaps, FlushFailMaps, BackoffCanceledMaps, InnerMaps,
       ServeReturnMaps
    DEF Next, Receiver, Worker
<1> QED
  BY InitMaps, <1>1, Invariants, PTL DEF Spec, ImplementsSink, Sink!Spec

=============================================================================
