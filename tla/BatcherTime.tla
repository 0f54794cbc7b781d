---------------------------- MODULE BatcherTime ----------------------------
(***************************************************************************)
(* bugpack/batcher/batcher.go once more, with time: how long a row waits   *)
(* in the buffer, the receiver for a worker, a worker for its database.    *)
(*                                                                         *)
(* Batcher has every interleaving and no clock; here the clock counts and  *)
(* what Batcher already shows is condensed: the buffer after a hand-off is *)
(* an empty one, and the waiter closes wdone as soon as the workers have   *)
(* left.  The watcher is the one of Batcher: it may run late and then take *)
(* wdone although there is an error.                                       *)
(*                                                                         *)
(* Clocks run as under testing/synctest, which the tests of the batcher    *)
(* use: time passes only while every goroutine waits.  Timers and          *)
(* deadlines count down, stop watches count up, so that no clock grows     *)
(* without bound.  Of buf.Flush the model takes what batcher.go asks of    *)
(* it: it is back when its context ends.                                   *)
(***************************************************************************)
EXTENDS Integers

CONSTANTS
  Workers,          \* the FlushWorkers goroutines
  Limit,            \* rows at which a buffer is full (chbuf: limit)
  MaxRows,          \* bound on the rows of one event
  MaxIdle,          \* bound on the events without rows while a row waits
  MaxDeserted,      \* bound on the time shown of a receiver left alone
  BatchTimeout, FlushTimeout,           \* Config; no deadline: 0
  InitialInterval, MaxInterval,         \* Config.RetryBackoff
  Multiplier, RandomizationFactor       \* the same, in percent

ASSUME BatcherTimeAssumption ==
  /\ Workers # {}
  /\ {Limit, BatchTimeout} \subseteq Nat \ {0}
  /\ {MaxRows, MaxIdle, MaxDeserted, FlushTimeout} \subseteq Nat
  /\ {InitialInterval, MaxInterval, Multiplier, RandomizationFactor} \subseteq Nat

VARIABLES
  retry,        \* Config.RetryBackoff.Enable, fixed at the start
  watcherFirst, \* the watcher waits before the first flush, fixed as well
  pc,           \* where receive is: its first select, its second, returned
  stop,         \* receive's local variable stop
  rows,         \* the rows in its buffer
  timer,        \* what is left of the batch timer t
  age,          \* since the first of these rows came
  idle,         \* events without rows received since then
  blocked,      \* since the receiver reached the second select
  upc,          \* where the watcher is
  canceled,     \* ctxflash is canceled
  at,           \* where each worker is
  job           \* the local variables of its flush

recvvars == <<pc, stop, rows, timer, age, idle, blocked>>
startvars == <<retry, watcherFirst>>
watchvars == <<upc, canceled>>
vars == <<startvars, recvvars, watchvars, at, job>>

HasDeadline == FlushTimeout > 0

Working(w) == at[w] \in {"flushing", "backoff"}

(* left counts down to the deadline, spent up from the start; failures are *)
(* the attempts that failed, interval is the one of the backoff (0 before  *)
(* its first use), pause what is left of the timer between attempts.       *)
Jobs == [left : Nat, spent : Nat, failures : Nat, interval : Nat, pause : Nat]

NewJob(time) == [left |-> time, spent |-> 0, failures |-> 0, interval |-> 0, pause |-> 0]

NoJob == NewJob(0)

Init ==
  /\ retry \in BOOLEAN /\ watcherFirst \in BOOLEAN
  /\ pc = "select" /\ stop = FALSE
  /\ rows = 0 /\ age = 0 /\ idle = 0 /\ blocked = 0
  /\ timer = BatchTimeout
  /\ upc = (IF watcherFirst THEN "parked" ELSE "starting")
  /\ canceled = FALSE
  /\ at = [w \in Workers |-> "idle"]
  /\ job = [w \in Workers |-> NoJob]

-----------------------------------------------------------------------------
(* The receiver.                                                           *)

(* Faulty: the timer is added to, not reset. *)
ArmLate == timer + BatchTimeout

(* t.Reset, at the head of the loop *)
Arm == BatchTimeout

(* case e := <-b.events, for an event of n rows *)
Receive(n) ==
  /\ pc = "select"
  /\ n > 0 \/ idle < MaxIdle
  /\ rows' = rows + n
  /\ age' = (IF rows = 0 THEN 0 ELSE age)
  /\ idle' = (IF rows > 0 /\ n = 0 THEN idle + 1 ELSE idle)
  /\ IF rows' >= Limit THEN pc' = "handoff" /\ blocked' = 0 /\ UNCHANGED timer
     ELSE timer' = Arm /\ UNCHANGED <<pc, blocked>>
  /\ UNCHANGED <<startvars, stop, watchvars, at, job>>

(* case <-t.C *)
BatchTimer ==
  /\ pc = "select"
  /\ timer = 0
  /\ IF rows > 0 THEN pc' = "handoff" /\ blocked' = 0 /\ UNCHANGED timer
     ELSE timer' = Arm /\ UNCHANGED <<pc, blocked>>
  /\ UNCHANGED <<startvars, stop, rows, age, idle, watchvars, at, job>>

(* case <-b.done *)
Shutdown ==
  /\ pc = "select"
  /\ stop' = TRUE
  /\ pc' = (IF rows > 0 THEN "handoff" ELSE "closed")
  /\ blocked' = 0
  /\ UNCHANGED <<startvars, rows, timer, age, idle, watchvars, at, job>>

(* case <-b.ctxflash.Done(), in either select *)
ReceiveCanceled ==
  /\ pc \in {"select", "handoff"}
  /\ canceled
  /\ pc' = "closed"
  /\ UNCHANGED <<startvars, stop, rows, timer, age, idle, blocked, watchvars, at, job>>

(* case b.toflash <- c: worker w begins to flush, with a deadline of its   *)
(* own; the receiver goes on with an empty buffer.                         *)
Handoff(w) ==
  /\ pc = "handoff"
  /\ at[w] = "idle"
  /\ pc' = (IF stop THEN "closed" ELSE "select")
  /\ rows' = 0 /\ age' = 0 /\ idle' = 0 /\ blocked' = 0
  /\ timer' = Arm
  /\ at' = [at EXCEPT ![w] = "flushing"]
  /\ job' = [job EXCEPT ![w] = NewJob(FlushTimeout)]
  /\ UNCHANGED <<startvars, stop, watchvars>>

-----------------------------------------------------------------------------
(* The workers, inside flush.                                              *)

(* flush returns nil. *)
FlushOk(w) ==
  /\ at[w] = "flushing"
  /\ at' = [at EXCEPT ![w] = "idle"]
  /\ job' = [job EXCEPT ![w] = NoJob]
  /\ UNCHANGED <<startvars, recvvars, watchvars>>

(* flush returns an error: the worker reports it and leaves.  The parked   *)
(* watcher is handed the error, otherwise the first one stays in errs.     *)
GiveUp(w) ==
  /\ at' = [at EXCEPT ![w] = "gone"]
  /\ job' = [job EXCEPT ![w] = NoJob]
  /\ upc' = (IF upc = "parked" THEN "stopping" ELSE upc)

(* ExponentialBackOff.NextBackOff: a delay around the current interval, in *)
(* whole units of time; the interval is then multiplied, which makes it    *)
(* grow up to MaxInterval, or shrink down to 0 and begin again.  A factor  *)
(* of more than 100 percent also gives delays below 0, which are none.     *)
Current(j) == IF j.interval = 0 THEN InitialInterval ELSE j.interval

Shortest(i) == IF RandomizationFactor >= 100 THEN 0 ELSE ((100 - RandomizationFactor) * i) \div 100

Delays(i) == Shortest(i)..(((100 + RandomizationFactor) * i + 99) \div 100)

Grown(i) ==
  IF i * Multiplier >= 100 * MaxInterval THEN MaxInterval ELSE (i * Multiplier) \div 100

(* Faulty: the deadline must have passed already. *)
OutOfTimeNow(w, delay) == HasDeadline /\ job[w].left = 0

(* The next attempt would start after the deadline. *)
OutOfTime(w, delay) == HasDeadline /\ job[w].left < delay

(* An attempt fails: retries are disabled, or there is no time for one. *)
FlushFail(w) ==
  /\ at[w] = "flushing"
  /\ retry => \E delay \in Delays(Current(job[w])) : OutOfTime(w, delay)
  /\ GiveUp(w)
  /\ UNCHANGED <<startvars, recvvars, canceled>>

(* Faulty: the timer, created with 0, is not reset. *)
PauseNone(delay) == 0

(* timer.Reset(delay) *)
Pause(delay) == delay

Failed(j, delay) ==
  [left |-> j.left, spent |-> j.spent, failures |-> j.failures + 1,
   interval |-> Grown(Current(j)), pause |-> Pause(delay)]

(* An attempt fails, and the worker waits for the next one. *)
FlushRetry(w) ==
  /\ at[w] = "flushing"
  /\ retry
  /\ at' = [at EXCEPT ![w] = "backoff"]
  /\ \E delay \in Delays(Current(job[w])) :
       /\ ~OutOfTime(w, delay)
       /\ job' = [job EXCEPT ![w] = Failed(job[w], delay)]
  /\ UNCHANGED <<startvars, recvvars, watchvars>>

(* Faulty: each attempt has a deadline of its own. *)
RetryRenewed(w) ==
  /\ at[w] = "backoff"
  /\ job[w].pause = 0
  /\ at' = [at EXCEPT ![w] = "flushing"]
  /\ job' = [job EXCEPT ![w].left = FlushTimeout]
  /\ UNCHANGED <<startvars, recvvars, watchvars>>

(* case <-timer.C: the next attempt *)
Retry(w) ==
  /\ at[w] = "backoff"
  /\ job[w].pause = 0
  /\ at' = [at EXCEPT ![w] = "flushing"]
  /\ UNCHANGED <<startvars, recvvars, watchvars, job>>

(* case <-ctx.Done() *)
RetryCanceled(w) ==
  /\ at[w] = "backoff"
  /\ canceled \/ (HasDeadline /\ job[w].left = 0)
  /\ GiveUp(w)
  /\ UNCHANGED <<startvars, recvvars, canceled>>

Worker(w) == FlushOk(w) \/ FlushFail(w) \/ FlushRetry(w) \/ Retry(w) \/ RetryCanceled(w)

-----------------------------------------------------------------------------
(* The watcher.                                                            *)

(* The range over toflash has ended for every worker: wdone is closed. *)
WorkersDone == \A w \in Workers : at[w] = "gone" \/ (at[w] = "idle" /\ pc = "closed")

(* The watcher reaches its select late.  errs and wdone may both be ready, *)
(* and it may choose either; if none is, it parks.                         *)
WatcherSelect ==
  /\ upc = "starting"
  /\ \/ (\E w \in Workers : at[w] = "gone") /\ upc' = "stopping"
     \/ WorkersDone /\ upc' = "done"
     \/ (\A w \in Workers : at[w] # "gone") /\ ~WorkersDone /\ upc' = "parked"
  /\ UNCHANGED <<startvars, recvvars, canceled, at, job>>

(* case <-wdone, of the parked watcher *)
WatcherWoken ==
  /\ upc = "parked"
  /\ WorkersDone
  /\ upc' = "done"
  /\ UNCHANGED <<startvars, recvvars, canceled, at, job>>

(* b.stopflash() *)
StopFlash ==
  /\ upc = "stopping"
  /\ upc' = "done"
  /\ canceled' = TRUE
  /\ UNCHANGED <<startvars, recvvars, at, job>>

Watcher == WatcherSelect \/ WatcherWoken \/ StopFlash

-----------------------------------------------------------------------------
(* The receiver offers a buffer that nobody will take, and nobody cancels: *)
(* the watcher dropped the error of the last worker.                       *)
Deserted ==
  /\ pc = "handoff"
  /\ upc = "done" /\ ~canceled
  /\ \A w \in Workers : at[w] = "gone"

(* Every goroutine waits: no case of a select is ready, and an attempt     *)
(* takes its time within its context.                                      *)
Quiet ==
  /\ upc \notin {"starting", "stopping"}
  /\ upc = "parked" => ~WorkersDone
  /\ pc # "closed" => ~canceled
  /\ pc = "select" => timer > 0
  /\ \A w \in Workers :
       /\ pc = "handoff" => at[w] # "idle"
       /\ Working(w) => ~canceled /\ (HasDeadline => job[w].left > 0)
       /\ at[w] = "backoff" => job[w].pause > 0

Aged(w) ==
  [left |-> IF HasDeadline THEN job[w].left - 1 ELSE job[w].left,
   spent |-> job[w].spent + 1,
   failures |-> job[w].failures, interval |-> job[w].interval,
   pause |-> IF at[w] = "backoff" THEN job[w].pause - 1 ELSE job[w].pause]

(* One unit of time passes. *)
Tick ==
  /\ Quiet
  /\ Deserted => blocked < MaxDeserted
  /\ timer' = (IF pc = "select" THEN timer - 1 ELSE timer)
  /\ age' = (IF pc # "closed" /\ rows > 0 THEN age + 1 ELSE age)
  /\ blocked' = (IF pc = "handoff" THEN blocked + 1 ELSE blocked)
  /\ job' = [w \in Workers |-> IF Working(w) THEN Aged(w) ELSE job[w]]
  /\ UNCHANGED <<startvars, pc, stop, rows, idle, watchvars, at>>

(* What follows is more of the same. *)
Rest == Deserted /\ blocked >= MaxDeserted /\ UNCHANGED vars

Next ==
  \/ \E n \in 0..MaxRows : Receive(n)
  \/ BatchTimer
  \/ Shutdown
  \/ ReceiveCanceled
  \/ \E w \in Workers : Handoff(w) \/ Worker(w)
  \/ Watcher
  \/ Tick
  \/ Rest

Spec == Init /\ [][Next]_vars

-----------------------------------------------------------------------------
TypeOK ==
  /\ retry \in BOOLEAN /\ watcherFirst \in BOOLEAN
  /\ upc \in {"starting", "parked", "stopping", "done"}
  /\ pc \in {"select", "handoff", "closed"}
  /\ stop \in BOOLEAN /\ canceled \in BOOLEAN
  /\ rows \in Nat /\ timer \in Nat /\ age \in Nat /\ idle \in Nat /\ blocked \in Nat
  /\ at \in [Workers -> {"idle", "flushing", "backoff", "gone"}]
  /\ job \in [Workers -> Jobs]

(* The batch timer is armed again by every event, with or without rows, so *)
(* BatchTimeout does not bound how long a row stays in the buffer.  What   *)
(* does: one BatchTimeout for each row that joins it (fewer than Limit),   *)
(* one for each event without rows, and the time no worker is free.        *)
OldestRowWaits ==
  pc # "closed" /\ rows > 0 =>
    age <= BatchTimeout * (rows + idle) + (IF pc = "handoff" THEN blocked ELSE 0)

(* With a deadline for flushes the receiver, and with it every caller of   *)
(* Batch, is not kept waiting for longer than one flush may last, whether  *)
(* workers succeed, retry or give up, unless the watcher came too late and *)
(* dropped the error that should have freed the receiver.                  *)
HandoffBounded ==
  watcherFirst /\ HasDeadline /\ pc = "handoff" => blocked <= FlushTimeout

(* A flush with all its retries is over by its deadline, and a worker does *)
(* not wait for an attempt that it could not make any more.                *)
DeadlineKept ==
  HasDeadline =>
    \A w \in Workers : Working(w) => job[w].spent + job[w].pause <= FlushTimeout

(* Retries do not press on a database in trouble: between two attempts     *)
(* passes at least the least delay that the configuration allows for.  A   *)
(* Multiplier below 1, which nothing refuses, lets the intervals shrink    *)
(* away and is left out; without retries there is nothing to keep apart.   *)
Lowest == IF InitialInterval <= MaxInterval THEN InitialInterval ELSE MaxInterval

RetriesSpaced ==
  Multiplier >= 100 =>
    \A w \in Workers : at[w] = "flushing" =>
      job[w].spent >= job[w].failures * Shortest(Lowest)

=============================================================================
