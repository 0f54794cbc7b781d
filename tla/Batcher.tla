------------------------------ MODULE Batcher ------------------------------
(***************************************************************************)
(* bugpack/batcher/batcher.go: the goroutines of one running Batcher.      *)
(*                                                                         *)
(*   callers   one HTTP handler goroutine per event, inside Batch          *)
(*   receiver  the goroutine of receive, which fills one buffer at a time  *)
(*   workers   the FlushWorkers goroutines of Serve, which flush buffers   *)
(*   waiter    the goroutine that waits for the workers and closes wdone   *)
(*   watcher   the goroutine that takes the first worker error and cancels *)
(*             the flushing context                                        *)
(*   server    the goroutine that called Serve, waiting in cg.Wait         *)
(*                                                                         *)
(* A select is modelled as the Go specification has it: any case that can  *)
(* proceed may be chosen.  The watcher is modelled one level closer to the *)
(* runtime, because the order matters there: once it is parked in its      *)
(* select, the first case to become ready is the one it takes; before that *)
(* it finds whatever is ready when it gets to run.                         *)
(*                                                                         *)
(* Time is abstracted: a timer may expire whenever its goroutine waits for *)
(* it.  Appending an event and testing the buffer is one step, since the   *)
(* buffer belongs to the receiver alone (BufferOwnership).                 *)
(***************************************************************************)
EXTENDS Naturals, FiniteSets

CONSTANTS
  Events,         \* the events, one Batch call each
  Rows,           \* the rows an event adds to a buffer (values.append)
  Limit,          \* rows at which a buffer is full (chbuf: limit)
  Workers,        \* the FlushWorkers goroutines
  Bufs,           \* the buffers memory has room for
  NoBuf,          \* "holds no buffer"
  RetryEnable,    \* Config.RetryBackoff.Enable
  FlushTimeout,   \* is Config.FlushTimeout > 0 ?
  WatcherFirst    \* is the watcher parked before the first buffer is flushed?

ASSUME BatcherAssumption ==
  /\ Rows \in [Events -> Nat]
  /\ Limit \in Nat \ {0}
  /\ IsFiniteSet(Bufs) /\ IsFiniteSet(Workers)
  /\ Workers # {}
  /\ Cardinality(Bufs) > Cardinality(Workers)
  /\ NoBuf \notin Bufs
  /\ RetryEnable \in BOOLEAN
  /\ FlushTimeout \in BOOLEAN
  /\ WatcherFirst \in BOOLEAN

VARIABLES
  call,       \* the caller of Batch for each event
  done,       \* done is closed (Shutdown)
  canceled,   \* ctxflash is canceled (stopflash)
  rpc,        \* where the receiver is
  stop,       \* receive's local variable stop
  cur,        \* receive's local variable c, the buffer being filled
  val,        \* the events whose rows are in each buffer
  nrows,      \* the rows in each buffer
  pool,       \* the buffers in the sync.Pool
  wpc,        \* where each worker is
  held,       \* the buffer each worker is flushing
  errs,       \* the channel errs holds an error
  upc,        \* where the watcher is
  rerr,       \* Serve's local variable rerr is not nil
  wdone,      \* wdone is closed
  served,     \* Serve has returned
  stored,     \* events in the table issue_event
  dup,        \* events inserted into it more than once
  retried     \* events of batches that were sent again after an error

callvars  == <<call, done>>
recvvars  == <<rpc, stop, cur>>
bufvars   == <<val, nrows, pool>>
workvars  == <<wpc, held>>
watchvars == <<errs, upc, rerr, canceled>>
dbvars    == <<stored, dup, retried>>
vars == <<callvars, recvvars, bufvars, workvars, watchvars, wdone, served, dbvars>>

-----------------------------------------------------------------------------

Visible == {e \in Events : Rows[e] > 0}     \* events that leave a row behind

Empty(b) == nrows[b] = 0

(* The buffer of the receiver: c is not used between the send on toflash  *)
(* and the next pool.Get, nor after receive has returned.                 *)
CurBufs == IF rpc \in {"select", "handoff"} THEN {cur} ELSE {}

HeldBufs == {held[w] : w \in Workers} \ {NoBuf}

LiveBufs == CurBufs \cup HeldBufs

InFlight == UNION {val[b] : b \in LiveBufs}

Failed == \E w \in Workers : wpc[w] = "failed"

TypeOK ==
  /\ call \in [Events -> {"idle", "sending", "accepted", "dropped"}]
  /\ done \in BOOLEAN
  /\ canceled \in BOOLEAN
  /\ rpc \in {"select", "handoff", "getbuf", "closed"}
  /\ stop \in BOOLEAN
  /\ cur \in Bufs
  /\ val \in [Bufs -> SUBSET Events]
  /\ nrows \in [Bufs -> Nat]
  /\ pool \in SUBSET Bufs
  /\ wpc \in [Workers -> {"idle", "flushing", "backoff", "exited", "failed"}]
  /\ held \in [Workers -> Bufs \cup {NoBuf}]
  /\ errs \in BOOLEAN
  /\ upc \in {"starting", "parked", "stopping", "done"}
  /\ rerr \in BOOLEAN
  /\ wdone \in BOOLEAN
  /\ served \in BOOLEAN
  /\ stored \in SUBSET Events
  /\ dup \in SUBSET Events
  /\ retried \in SUBSET Events

(* New and the start of Serve: the goroutines exist, receive has taken its *)
(* first buffer from the pool and waits.                                   *)
Init ==
  /\ call = [e \in Events |-> "idle"]
  /\ done = FALSE
  /\ canceled = FALSE
  /\ rpc = "select"
  /\ stop = FALSE
  /\ cur \in Bufs
  /\ val = [b \in Bufs |-> {}]
  /\ nrows = [b \in Bufs |-> 0]
  /\ pool = {}
  /\ wpc = [w \in Workers |-> "idle"]
  /\ held = [w \in Workers |-> NoBuf]
  /\ errs = FALSE
  /\ upc = (IF WatcherFirst THEN "parked" ELSE "starting")
  /\ rerr = FALSE
  /\ wdone = FALSE
  /\ served = FALSE
  /\ stored = {}
  /\ dup = {}
  /\ retried = {}

-----------------------------------------------------------------------------
(* Callers.                                                                *)

(* A handler calls Batch and waits in its select. *)
Batch(e) ==
  /\ call[e] = "idle"
  /\ call' = [call EXCEPT ![e] = "sending"]
  /\ UNCHANGED <<done, recvvars, bufvars, workvars, watchvars, wdone, served, dbvars>>

(* Faulty: without the case on ctxflash. *)
BatchDroppedOnDone(e) ==
  /\ call[e] = "sending"
  /\ done
  /\ call' = [call EXCEPT ![e] = "dropped"]
  /\ UNCHANGED <<done, recvvars, bufvars, workvars, watchvars, wdone, served, dbvars>>

(* Faulty: with a default case. *)
BatchDroppedWhenBusy(e) ==
  /\ call[e] = "sending"
  /\ call' = [call EXCEPT ![e] = "dropped"]
  /\ UNCHANGED <<done, recvvars, bufvars, workvars, watchvars, wdone, served, dbvars>>

(* Batch returns without having handed the event over. *)
BatchDropped(e) ==
  /\ call[e] = "sending"
  /\ done \/ canceled
  /\ call' = [call EXCEPT ![e] = "dropped"]
  /\ UNCHANGED <<done, recvvars, bufvars, workvars, watchvars, wdone, served, dbvars>>

Shutdown ==
  /\ ~done
  /\ done' = TRUE
  /\ UNCHANGED <<call, recvvars, bufvars, workvars, watchvars, wdone, served, dbvars>>

-----------------------------------------------------------------------------
(* The receiver.                                                           *)

(* case e := <-b.events: an event without rows leaves the buffer as it was *)
RecvEvent(e) ==
  LET total == nrows[cur] + Rows[e]
  IN /\ rpc = "select"
     /\ call[e] = "sending"
     /\ call' = [call EXCEPT ![e] = "accepted"]
     /\ val' = [val EXCEPT ![cur] = @ \cup ({e} \cap Visible)]
     /\ nrows' = [nrows EXCEPT ![cur] = total]
     /\ rpc' = (IF total >= Limit THEN "handoff" ELSE "select")
     /\ UNCHANGED <<done, stop, cur, pool, workvars, watchvars, wdone, served, dbvars>>

(* Faulty: without the test for an empty buffer. *)
RecvTimeoutEmpty ==
  /\ rpc = "select"
  /\ rpc' = "handoff"
  /\ UNCHANGED <<callvars, stop, cur, bufvars, workvars, watchvars, wdone, served, dbvars>>

(* Faulty: the timer is not armed while the buffer is below its limit. *)
RecvTimeoutFull ==
  /\ rpc = "select"
  /\ nrows[cur] >= Limit
  /\ rpc' = "handoff"
  /\ UNCHANGED <<callvars, stop, cur, bufvars, workvars, watchvars, wdone, served, dbvars>>

(* case <-t.C: an empty buffer is kept, which changes nothing here *)
RecvTimeout ==
  /\ rpc = "select"
  /\ ~Empty(cur)
  /\ rpc' = "handoff"
  /\ UNCHANGED <<callvars, stop, cur, bufvars, workvars, watchvars, wdone, served, dbvars>>

(* Faulty: returns at once, as the case on ctxflash does. *)
RecvDoneReturns ==
  /\ rpc = "select"
  /\ done
  /\ rpc' = "closed"
  /\ UNCHANGED <<callvars, stop, cur, bufvars, workvars, watchvars, wdone, served, dbvars>>

(* Faulty: stop is not set. *)
RecvDoneLoops ==
  /\ rpc = "select"
  /\ done
  /\ rpc' = (IF Empty(cur) THEN "select" ELSE "handoff")
  /\ UNCHANGED <<callvars, stop, cur, bufvars, workvars, watchvars, wdone, served, dbvars>>

(* case <-b.done: what is left is handed over before the loop ends *)
RecvDone ==
  /\ rpc = "select"
  /\ done
  /\ stop' = TRUE
  /\ rpc' = (IF Empty(cur) THEN "closed" ELSE "handoff")
  /\ UNCHANGED <<callvars, cur, bufvars, workvars, watchvars, wdone, served, dbvars>>

(* case <-b.ctxflash.Done(), in either select: the buffer is abandoned *)
RecvCanceled ==
  /\ rpc \in {"select", "handoff"}
  /\ canceled
  /\ rpc' = "closed"
  /\ UNCHANGED <<callvars, stop, cur, bufvars, workvars, watchvars, wdone, served, dbvars>>

(* case b.toflash <- c, received by worker w *)
Handoff(w) ==
  /\ rpc = "handoff"
  /\ wpc[w] = "idle"
  /\ wpc' = [wpc EXCEPT ![w] = "flushing"]
  /\ held' = [held EXCEPT ![w] = cur]
  /\ rpc' = "getbuf"
  /\ UNCHANGED <<callvars, stop, cur, bufvars, watchvars, wdone, served, dbvars>>

(* Faulty: a pool without New returns nil when it is empty. *)
GetBufNil ==
  /\ rpc = "getbuf"
  /\ IF pool = {} THEN cur' = NoBuf /\ UNCHANGED pool
     ELSE \E b \in pool : cur' = b /\ pool' = pool \ {b}
  /\ rpc' = (IF stop THEN "closed" ELSE "select")
  /\ UNCHANGED <<callvars, stop, val, nrows, workvars, watchvars, wdone, served, dbvars>>

(* c = b.pool.Get(): a pooled buffer as it was put, or a new empty one     *)
GetBuf ==
  /\ rpc = "getbuf"
  /\ \E b \in Bufs \ LiveBufs :
       /\ cur' = b
       /\ pool' = pool \ {b}
       /\ \/ b \in pool /\ UNCHANGED <<val, nrows>>
          \/ /\ b \notin pool
             /\ val' = [val EXCEPT ![b] = {}]
             /\ nrows' = [nrows EXCEPT ![b] = 0]
  /\ rpc' = (IF stop THEN "closed" ELSE "select")
  /\ UNCHANGED <<callvars, stop, workvars, watchvars, wdone, served, dbvars>>

(* The runtime may empty a sync.Pool at any time. *)
PoolEvict(b) ==
  /\ b \in pool
  /\ pool' = pool \ {b}
  /\ UNCHANGED <<callvars, recvvars, val, nrows, workvars, watchvars, wdone, served, dbvars>>

Receiver ==
  \/ \E e \in Events : RecvEvent(e)
  \/ RecvTimeout
  \/ RecvDone
  \/ RecvCanceled
  \/ \E w \in Workers : Handoff(w)
  \/ GetBuf

-----------------------------------------------------------------------------
(* The workers: the loop in Serve and the method flush.                    *)

(* The rows of the events in S reach the table. *)
Insert(S) ==
  /\ stored' = stored \cup S
  /\ dup' = dup \cup (S \cap stored)

(* Faulty: the buffer is put into the pool as it is. *)
FlushOkNoReset(w) ==
  /\ wpc[w] = "flushing"
  /\ Insert(val[held[w]])
  /\ pool' = pool \cup {held[w]}
  /\ wpc' = [wpc EXCEPT ![w] = "idle"]
  /\ held' = [held EXCEPT ![w] = NoBuf]
  /\ UNCHANGED <<callvars, recvvars, val, nrows, watchvars, wdone, served, retried>>

(* buf.Flush succeeds: the whole block is inserted, the buffer is reset    *)
(* and goes back to the pool.                                              *)
FlushOk(w) ==
  /\ wpc[w] = "flushing"
  /\ Insert(val[held[w]])
  /\ val' = [val EXCEPT ![held[w]] = {}]
  /\ nrows' = [nrows EXCEPT ![held[w]] = 0]
  /\ pool' = pool \cup {held[w]}
  /\ wpc' = [wpc EXCEPT ![w] = "idle"]
  /\ held' = [held EXCEPT ![w] = NoBuf]
  /\ UNCHANGED <<callvars, recvvars, watchvars, wdone, served, retried>>

(* The worker offers its error to errs and returns.  The parked watcher is *)
(* handed the error; otherwise it stays in errs, or is discarded when errs *)
(* is full already.                                                        *)
ReportError(w) ==
  /\ wpc' = [wpc EXCEPT ![w] = "failed"]
  /\ held' = [held EXCEPT ![w] = NoBuf]
  /\ \/ /\ upc = "parked"
        /\ upc' = "stopping"
        /\ rerr' = TRUE
        /\ UNCHANGED errs
     \/ /\ upc # "parked"
        /\ errs' = TRUE
        /\ UNCHANGED <<upc, rerr>>
  /\ UNCHANGED canceled

(* Faulty: the buffer is put into the pool whatever the outcome. *)
FlushFailPut(w) ==
  /\ wpc[w] = "flushing"
  /\ ~RetryEnable \/ FlushTimeout
  /\ \E S \in SUBSET val[held[w]] : Insert(S)
  /\ pool' = pool \cup {held[w]}
  /\ ReportError(w)
  /\ UNCHANGED <<callvars, recvvars, val, nrows, wdone, served, retried>>

(* buf.Flush fails and flush returns the error: retrying is disabled, or   *)
(* the next attempt would start after the deadline ("out of time").  The   *)
(* server may have inserted part of the block (one part per partition), or *)
(* all of it, before the error.                                            *)
FlushFail(w) ==
  /\ wpc[w] = "flushing"
  /\ ~RetryEnable \/ FlushTimeout
  /\ \E S \in SUBSET val[held[w]] : Insert(S)
  /\ ReportError(w)
  /\ UNCHANGED <<callvars, recvvars, bufvars, wdone, served, retried>>

(* Faulty: the buffer is put into the pool before the next attempt. *)
FlushRetryPut(w) ==
  /\ wpc[w] = "flushing"
  /\ RetryEnable
  /\ \E S \in SUBSET val[held[w]] : Insert(S)
  /\ retried' = retried \cup val[held[w]]
  /\ wpc' = [wpc EXCEPT ![w] = "backoff"]
  /\ pool' = pool \cup {held[w]}
  /\ UNCHANGED <<callvars, recvvars, val, nrows, held, watchvars, wdone, served>>

(* Faulty: Flush resets the buffer whatever the outcome. *)
FlushRetryReset(w) ==
  /\ wpc[w] = "flushing"
  /\ RetryEnable
  /\ \E S \in SUBSET val[held[w]] : Insert(S)
  /\ retried' = retried \cup val[held[w]]
  /\ wpc' = [wpc EXCEPT ![w] = "backoff"]
  /\ val' = [val EXCEPT ![held[w]] = {}]
  /\ nrows' = [nrows EXCEPT ![held[w]] = 0]
  /\ UNCHANGED <<callvars, recvvars, pool, held, watchvars, wdone, served>>

(* buf.Flush fails and the worker waits for its next attempt. *)
FlushRetry(w) ==
  /\ wpc[w] = "flushing"
  /\ RetryEnable
  /\ \E S \in SUBSET val[held[w]] : Insert(S)
  /\ retried' = retried \cup val[held[w]]
  /\ wpc' = [wpc EXCEPT ![w] = "backoff"]
  /\ UNCHANGED <<callvars, recvvars, bufvars, held, watchvars, wdone, served>>

(* Faulty: the timer is not reset, only a cancellation ends the wait. *)
BackoffElapsedCanceled(w) ==
  /\ wpc[w] = "backoff"
  /\ canceled
  /\ wpc' = [wpc EXCEPT ![w] = "flushing"]
  /\ UNCHANGED <<callvars, recvvars, bufvars, held, watchvars, wdone, served, dbvars>>

(* case <-timer.C in flush *)
BackoffElapsed(w) ==
  /\ wpc[w] = "backoff"
  /\ wpc' = [wpc EXCEPT ![w] = "flushing"]
  /\ UNCHANGED <<callvars, recvvars, bufvars, held, watchvars, wdone, served, dbvars>>

(* Faulty: flush returns nil. *)
BackoffCanceledSilently(w) ==
  /\ wpc[w] = "backoff"
  /\ canceled \/ FlushTimeout
  /\ wpc' = [wpc EXCEPT ![w] = "idle"]
  /\ held' = [held EXCEPT ![w] = NoBuf]
  /\ UNCHANGED <<callvars, recvvars, bufvars, watchvars, wdone, served, dbvars>>

(* case <-ctx.Done() in flush: the context of the batcher was canceled, or *)
(* its deadline has passed ("retry canceled").                             *)
BackoffCanceled(w) ==
  /\ wpc[w] = "backoff"
  /\ canceled \/ FlushTimeout
  /\ ReportError(w)
  /\ UNCHANGED <<callvars, recvvars, bufvars, wdone, served, dbvars>>

(* Faulty: toflash is never closed, workers end by cancellation only. *)
WorkerExitCanceled(w) ==
  /\ wpc[w] = "idle"
  /\ canceled
  /\ wpc' = [wpc EXCEPT ![w] = "exited"]
  /\ UNCHANGED <<callvars, recvvars, bufvars, held, watchvars, wdone, served, dbvars>>

(* The range over toflash ends when receive has closed it. *)
WorkerExit(w) ==
  /\ wpc[w] = "idle"
  /\ rpc = "closed"
  /\ wpc' = [wpc EXCEPT ![w] = "exited"]
  /\ UNCHANGED <<callvars, recvvars, bufvars, held, watchvars, wdone, served, dbvars>>

Worker(w) ==
  \/ FlushOk(w)
  \/ FlushFail(w)
  \/ FlushRetry(w)
  \/ BackoffElapsed(w)
  \/ BackoffCanceled(w)
  \/ WorkerExit(w)

-----------------------------------------------------------------------------
(* The waiter, the watcher and the server.                                 *)

(* wg.Wait returns and wdone is closed, which wakes a parked watcher. *)
CloseWdone ==
  /\ ~wdone
  /\ \A w \in Workers : wpc[w] \in {"exited", "failed"}
  /\ wdone' = TRUE
  /\ upc' = (IF upc = "parked" THEN "done" ELSE upc)
  /\ UNCHANGED <<callvars, recvvars, bufvars, workvars, errs, rerr, canceled, served, dbvars>>

(* The watcher reaches its select: any ready case, or it parks. *)
WatcherSelect ==
  /\ upc = "starting"
  /\ \/ /\ errs
        /\ errs' = FALSE
        /\ rerr' = TRUE
        /\ upc' = "stopping"
     \/ /\ wdone
        /\ upc' = "done"
        /\ UNCHANGED <<errs, rerr>>
     \/ /\ ~errs /\ ~wdone
        /\ upc' = "parked"
        /\ UNCHANGED <<errs, rerr>>
  /\ UNCHANGED <<callvars, recvvars, bufvars, workvars, canceled, wdone, served, dbvars>>

(* Faulty: keeps the error for Serve without canceling the context. *)
StopFlashForgotten ==
  /\ upc = "stopping"
  /\ upc' = "done"
  /\ UNCHANGED <<callvars, recvvars, bufvars, workvars, errs, rerr, canceled, wdone, served, dbvars>>

(* b.stopflash() *)
StopFlash ==
  /\ upc = "stopping"
  /\ upc' = "done"
  /\ canceled' = TRUE
  /\ UNCHANGED <<callvars, recvvars, bufvars, workvars, errs, rerr, wdone, served, dbvars>>

(* cg.Wait returns: waiter, watcher and receiver have finished. *)
ServeReturn ==
  /\ ~served
  /\ wdone
  /\ upc = "done"
  /\ rpc = "closed"
  /\ served' = TRUE
  /\ UNCHANGED <<callvars, recvvars, bufvars, workvars, watchvars, wdone, dbvars>>

(* The program may rest once Serve has returned and no caller waits. *)
Rest ==
  /\ served
  /\ \A e \in Events : call[e] # "sending"
  /\ UNCHANGED vars

Next ==
  \/ \E e \in Events : Batch(e) \/ BatchDropped(e)
  \/ Shutdown
  \/ Receiver
  \/ \E b \in Bufs : PoolEvict(b)
  \/ \E w \in Workers : Worker(w)
  \/ CloseWdone
  \/ WatcherSelect
  \/ StopFlash
  \/ ServeReturn
  \/ Rest

Spec == Init /\ [][Next]_vars

-----------------------------------------------------------------------------
(* Fairness.  A goroutine that can run runs; a select whose cases stay     *)
(* ready is not delayed for ever, and it chooses among ready cases at      *)
(* random, so that a case ready infinitely often is taken: the             *)
(* cancellation of a backoff.  With a FlushTimeout that case also stands   *)
(* for the deadline, which the sum of the positive delays reaches.         *)
(* Nobody is obliged to call Batch or Shutdown.                            *)
Fairness ==
  /\ WF_vars(Receiver)
  /\ \A e \in Events : WF_vars(BatchDropped(e))
  /\ \A w \in Workers : WF_vars(Worker(w)) /\ SF_vars(BackoffCanceled(w))
  /\ WF_vars(CloseWdone)
  /\ WF_vars(WatcherSelect)
  /\ WF_vars(StopFlash)
  /\ WF_vars(ServeReturn)

FairSpec == Spec /\ Fairness

(* The database comes back: a flush that is retried for ever succeeds.     *)
DatabaseRecovers == \A w \in Workers : SF_vars(FlushOk(w))

RecoverySpec == FairSpec /\ DatabaseRecovers

-----------------------------------------------------------------------------
(* Safety.                                                                 *)

(* Buffers are not locked: this is what keeps receiver and workers apart.  *)
(* A buffer is filled by the receiver, flushed by one worker or waits in   *)
(* the pool, and never two of these; a worker holds one exactly while it   *)
(* is inside flush.                                                        *)
BufferOwnership ==
  /\ \A w \in Workers : held[w] # NoBuf <=> wpc[w] \in {"flushing", "backoff"}
  /\ \A v, w \in Workers : held[v] = held[w] /\ held[v] # NoBuf => v = w
  /\ CurBufs \cap (HeldBufs \cup pool) = {}
  /\ HeldBufs \cap pool = {}

(* A buffer taken from the pool carries no rows of an earlier batch, so    *)
(* that no event is stored twice on a path without errors.                 *)
PooledBuffersEmpty == \A b \in pool : val[b] = {} /\ nrows[b] = 0

(* No flush of an empty buffer, and a batch exceeds the limit by less than *)
(* the rows of one of its events (Append tests the limit after adding).    *)
BatchSize ==
  /\ \A b \in HeldBufs : val[b] # {}
  /\ \A b \in LiveBufs : nrows[b] < Limit \/ \E e \in val[b] : nrows[b] < Limit + Rows[e]

(* As long as no flush was given up, an event that Batch handed over is in *)
(* the table or in a buffer that will be flushed: it cannot fall between   *)
(* receiver, pool and workers, nor be left behind by a shutdown.           *)
NothingLostBeforeFailure ==
  ~Failed => \A e \in Visible : call[e] = "accepted" => e \in stored \cup InFlight

(* Serve returning nil is a receipt: every event handed over is stored,    *)
(* whatever errors the flushes met and retried on the way.                 *)
CleanServeStoresAll ==
  served /\ ~rerr => \A e \in Visible : call[e] = "accepted" => e \in stored

(* Only a retry stores an event twice: whatever the interleaving, and      *)
(* whatever became of other batches, an event whose batch was not sent     *)
(* again after an error is in the table at most once.  With retries        *)
(* disabled that is every event.                                           *)
OnlyRetriesDuplicate == dup \subseteq retried

(* While a worker holds a buffer, through all its retries, the rows in it  *)
(* stay those of the first attempt.                                        *)
RetrySendsSameBatch ==
  [][\A w \in Workers :
       held[w] # NoBuf /\ held'[w] = held[w] => /\ val'[held[w]] = val[held[w]]
                                                /\ nrows'[held[w]] = nrows[held[w]]]_vars

-----------------------------------------------------------------------------
(* Liveness.                                                               *)

(* A flush that was given up cancels the flushing context: workers stop    *)
(* retrying, and callers and receiver do not wait for workers that left.   *)
ErrorStopsFlushing == Failed ~> canceled

(* After Shutdown, and after a flush was given up, Serve returns. *)
ServeEnds == done \/ Failed ~> served

(* Batch returns: it is not held up for ever by workers that are all busy, *)
(* gone, or waiting to retry.                                              *)
BatchReturns == \A e \in Events : call[e] = "sending" ~> call[e] # "sending"

(* An event handed over does not stay in a buffer for ever: it is stored,  *)
(* unless a flush was given up.                                            *)
AcceptedSettles ==
  \A e \in Visible : call[e] = "accepted" ~> e \in stored \/ Failed

-----------------------------------------------------------------------------
(* The batcher implements the ledger of EventSink, seen from the events    *)
(* that leave a row behind.                                                *)
CallFate == [idle |-> "none", sending |-> "pending", dropped |-> "dropped"]

FateOf(e) ==
  IF e \in stored THEN "stored"
  ELSE IF call[e] = "accepted" THEN IF e \in InFlight THEN "accepted" ELSE "lost"
  ELSE CallFate[call[e]]

Result == IF ~served THEN "running" ELSE IF rerr THEN "error" ELSE "nil"

Sink == INSTANCE EventSink
        WITH Events   <- Visible,
             fate     <- [e \in Visible |-> FateOf(e)],
             stopping <- done,
             failed   <- Failed,
             result   <- Result

(* Every behaviour of the batcher is one of the ledger: an event is only   *)
(* dropped after Shutdown or a failure, only lost after a failure, and     *)
(* Serve reports a loss.                                                   *)
ImplementsSink == Sink!Spec

=============================================================================
