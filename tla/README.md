# Verification of bugpack

bugpack is a small Sentry-compatible server: clients post *envelopes* over
HTTP, the server decodes and filters them, collects them in batches and inserts
the batches into ClickHouse. This directory holds TLA+ models of the parts of
it where order, failure and concurrency decide whether an event survives, TLC
configurations that check them on small instances, and TLAPS proofs of the main
safety properties for every value of the parameters.

Paths below are relative to the repository (`src/`).

## 1. Inventory

| Component | State it keeps | Operations | Talks to |
|---|---|---|---|
| **batcher** `bugpack/batcher/batcher.go` | channels `done`, `events`, `toflash`; context `ctxflash`; the pool of buffers; locals of `Serve` (`errs`, `wdone`, `rerr`) and `receive` (`c`, `stop`) | `Batch`, `Serve`, `Shutdown`; inside: `receive`, the flush workers, `flush`, the waiter and the watcher | handlers (channel `events`), ClickHouse (`Buffer.Flush`), the server process |
| **chbuf buffers** `bugpack/batcher/chbuf/chbuf.go` | columns of `issue_event`, row count against `limit` | `Append`, `Empty`, `Flush`, the conversion `Envelope` | batcher, hashing |
| **issue hashing and rows** `chbuf/hash.go`, `chbuf.go` | hashes of one event, the sorted exceptions | `calcHash`, `parentHash`, `values.append` | runs in the handler (hash) and in the receiver (rows) |
| **server process** `bugpack/serve.go`, `main.go` | listener, signal, exit code | `serve`: start, interrupt, stop, wait, exit | batcher, `http.Server` |
| **ingester** `bugpack/ingester/handler.go` | one request | `ServeHTTP`, `projectKey` | configuration, decoder, filters, `Batch` |
| **migrations** `bugpack/chconn/migrate.go`, `bugpack/migrate.go` | table `migrations`, the schema | `Migrate`, `migrate`, `save`, `Applied` | ClickHouse, other processes that migrate |
| **envelope decoder** `bugpack/envelope/*.go` | the envelope under construction | `Decode` | handler |
| **configuration, filters** `bugpack/config`, `bugpack/envelope/filters` | projects, named filters and references to them | `Load`, `Project`, `Filter` | handler |
| **connection pool, column plumbing, schema, test helpers** | — | — | third-party or without state |

### Behaviours that are hard, and what makes each component correct

* **batcher.** Six kinds of goroutine meet in four `select` statements. Buffers
  carry no lock and travel receiver → worker → pool → receiver. A flush may
  fail, take effect in part, be retried, run into its deadline or be canceled
  by another worker's failure; `Shutdown` may come at any of these moments.
  Correct means: a buffer has one owner and is empty when it is reused; what is
  retried is what was sent; no event that was handed over falls between the
  goroutines; `Serve` returns nil only if all of them are stored; nobody waits
  for ever.
* **batcher, in time.** The batch timer is armed again in every turn of a loop, a
  flush and all its retries share one deadline, and one timer serves all the pauses
  between attempts. Correct means: a row leaves the buffer within a bound that the
  configuration gives, the receiver waits no longer than a flush may last, no
  attempt starts after the deadline, and attempts are apart.
* **server.** The listener is closed, `ListenAndServe` returns at once, and the
  batcher is stopped while handlers are still reading, some of them for ever, since
  the server has no `ReadTimeout`; the listener may also fail late; the error of the
  batcher is looked at last. Correct means: the batcher is stopped after the listener,
  exit code 0 implies that nothing taken over was lost, each interrupt or
  listen error ends the process.
* **migrations.** No transactions and no lock: processes overlap and die
  between any two queries. Correct means: a recorded file is complete,
  statements take effect in order, success implies a complete schema. Below that, a
  text is cut at its semicolons by a loop that has no grammar of it; correct means
  that the queries are the statements that a reader sees.
* **hashing.** The hash that groups events into issues must not depend on the
  order in which a client lists its exceptions, and stored parent hashes must
  lead somewhere although they are looked up twice, at different times. The
  subtraction in the sort may overflow. The columns of a row are filled by six functions,
  and one cell too few shifts a column against the others.
* **decoder.** Sequential; boundary cases of numbers, names that collide when
  nested objects are flattened, and errors deep inside an event that is half decoded.
* **configuration, filters, ingester.** A document is resolved while maps are walked in
  random order; the key of a project is cut out of a header; filters may panic.
  Correct means: a document is accepted exactly if every reference in it has a
  target, an event is filed under the project whose key was sent, and it is never
  dropped behind an answer of 200 because of a filter. The code reads names off the text
  of a YAML node and keys off the text of a header, so the first two hold only in part
  (section 5).

`PROJECT.json` lists the hazards one by one, each at its line and with the
properties that would notice it.

## 2. Modules

| Module | Models | Rests on |
|---|---|---|
| `EventSink` | what the batcher promises: a ledger of the fate of each event | — |
| `Batcher`, `MCBatcher` | every goroutine of a running batcher, without a clock | instantiates `EventSink` for the refinement |
| `BatcherProofs` | proofs of the safety properties of `Batcher`, and that it implements `EventSink` | `Batcher`, `EventSink` |
| `BatcherTime` | `receive` and `flush` with timers, deadlines and the backoff | condenses what `Batcher` shows |
| `BatcherTimeProofs` | proofs of its bounds | `BatcherTime` |
| `Server` | `serve` and `ServeHTTP` over the ledger | instantiates `EventSink` as the batcher |
| `ServerProofs` | proofs about `Server` | `Server` |
| `Ingest`, `MCIngest` | from the configuration file to projects and filters, and from a header to `Batch` | the inside of the handlers of `Server` |
| `IngestProofs` | proofs about loading, filtering and the header | `Ingest` |
| `MigrationText` | how the text of a file is cut into queries | — |
| `Migrate`, `MCMigrate` | `bugpack migrate`, in several processes | runs the queries of `MigrationText` |
| `MigrateProofs` | proofs about the processes and about the texts | `Migrate` |
| `Decode`, `MCDecode` | from the body of a request to an event | — |
| `DecodeProofs` | proofs of the properties of `Decode` that hold | `Decode` |
| `IssueRows`, `MCIssueRows` | from an event to hashes and rows | gives `Rows` of `Batcher` its meaning |
| `IssueRowsProofs` | proofs about hashes and columns | `IssueRows` |
| `SequenceLemmas` | induction, least and greatest elements, concatenation and `FlattenSeq` | used by the proofs about `Decode`, `Ingest`, `IssueRows` and `Migrate` |

The composition is by contract. `Batcher` is shown to implement `EventSink`;
`Server` uses `EventSink` in the place of the batcher, so that the interleavings
of handlers, signal and main are explored against everything a batcher may do,
without the state of its goroutines.

An operator whose comment starts with "Faulty:" is not part of a specification.
It is the action that follows it with a mistake in it, and is kept to show
that a property notices the mistake (`PROJECT.json`, "mutants").

### Batcher

| State | Code |
|---|---|
| `call[e]` | where the handler of event `e` is: before `Batch`, in its `select`, or returned by way of `events` / by way of `done` or `ctxflash` |
| `done`, `canceled`, `wdone` | the channels `done` and `wdone` are closed, `ctxflash` is canceled |
| `rpc`, `stop`, `cur` | `receive`: the first `select`, the second, between send and `pool.Get`, returned; its locals `stop` and `c` |
| `val[b]`, `nrows[b]`, `pool` | contents of the buffers, and the `sync.Pool` |
| `wpc[w]`, `held[w]` | a worker in its `range`, in `buf.Flush`, in the backoff `select`, returned; its buffer |
| `errs`, `upc`, `rerr`, `served` | the channel `errs` (capacity 1), the watcher, the result of `Serve` |
| `stored`, `dup` | the table `issue_event`: which events are in it, and which were inserted again |
| `retried` | history: the events of batches that were sent again after an error |

There is one action per case of each `select` and per outcome of `Flush`. An
insert that reports an error may have taken effect for any subset of its events
(ClickHouse inserts one part per partition, and an answer may be lost after the
whole block was inserted), so `FlushFail` and `FlushRetry` store any `S`.
`sync.Pool` may be emptied by the runtime (`PoolEvict`); a `Get` returns any
pooled buffer or a new one.

The watcher is modelled one step closer to the runtime than the rest. A
goroutine that is already parked in its `select` is woken by the first case
that becomes ready; one that arrives late picks at random among those that are
ready. This distinction is the constant `WatcherFirst`, see section 5.

### BatcherTime

| State | Code |
|---|---|
| `timer` | what is left of the batch timer `t` of `receive` |
| `job[w].left`, `.pause`, `.interval` | the deadline of `flush`, its local `timer`, the current interval of the `ExponentialBackOff` |
| `rows`, `pc`, `stop`, `at[w]` | as in `Batcher`, but of the buffer only the number of its rows |
| `upc`, `canceled`, `watcherFirst` | the watcher of `Serve` and `ctxflash`; whether the watcher is parked before the first flush (either, from the start) |
| `age`, `idle`, `blocked`, `job[w].spent`, `.failures` | stop watches and counters that the properties speak of |

`Tick` passes one unit of time, and only while every goroutine waits (`Quiet`): so
runs time under `testing/synctest`, which the tests of the batcher use. Clocks
count down to their ends, so that the state space is finite without a bound on
time but for a receiver that is left alone (`Deserted`): it waits for ever, and the model
shows `MaxDeserted` units of that. An attempt may fail at once or last as long as its
context. A delay of the backoff is any integer within the randomization around the current
interval, which is multiplied by `Multiplier`, a number of hundredths: 150 is the default
of the code, and one below 100, which the code accepts, makes the interval shrink. The
interleavings that `Batcher` explores are condensed in two places: the next buffer is an
empty one, and `wdone` is closed as soon as the workers have left. The watcher is that of
`Batcher`, step by step: a worker that gives up leaves its error, `WatcherSelect` is the
choice of a watcher that came late, and `StopFlash` cancels `ctxflash`.

### Server

`req` and `answer` follow a request through `ServeHTTP`; `listener`, `main`,
`lerr` and `exit` follow `serve` from `ListenAndServe` to the exit code;
`fate`, `stopping`, `failed` and `result` are the variables of the ledger.
A handler has the headers when it starts (`Accept`); `Refuse` and `Health` answer at once,
`Read` goes on to the body, and `Decoded` is the return of `event.Decode`, with an event,
with another type of item, or with an error. The filters abort the request
(`PanicInFilter`), sort the event out or let it pass (`FilteredOut`, `CallBatch`).
`http.Server` is external: `Shutdown` closes the listener, `ListenAndServe`
returns at once, handlers that run go on as long as the process lives. `ListenFails` is its
return with another error, before the listener was open or long after. `Kill`
is every other way to end, SIGTERM included: only `os.Interrupt` is handled.

The batcher that the code has implements the ledger only if the watcher of `Serve` is there
in time. `Server` does not take that for granted: with `watcherFirst` FALSE, `LateReturn`
lets `Serve` return nil after a loss, and nothing obliges the batcher to go on (a receiver
that is left alone does not). `flushesEnd` says whether flushes come to an end at all: a
`FlushTimeout` is set, or the database recovers. Properties that need one of these
conditions name it (`watcherFirst`, `BatcherEnds`); both values are initial states.

### Ingest

One behaviour loads one document and serves one request; requests share nothing
but the configuration. `DecodeFilter` is `filter.UnmarshalYAML`, `Resolve` one
turn of the loop over the projects (any order, as Go walks maps), `Authorize` the
header and the lookup, `AskAnd` and `AskOther` the filters, one call per step.
A document is a set of filters (`Nodes`) that are named, written in a project or
inside another one; null entries, missing names and nodes that are neither mapping nor
string (kind `other`) are among its values.

A reference is written in one of two styles, plain or marked. What the code stores is what
`StringNode.String()` gives, and that is the value of the scalar for a plain one only: one
in quotes keeps them (`String`). Comments would be kept too, but the decoder is not asked
for them; `marked` covers whatever that text has besides the value.

A header is a text, the sequence of its parts: a scheme, and parameters with commas between
them, whose names and values are sequences of `Words`, so that the text `sentry_key=` may
stand inside a name or a value. `ProjectKey` searches that text as the code does. The
reference (`WellFormed`, `Required`, `Meant`) reads document and header as a whole;
`clear` records whether the name of the key stands in anything before the key, its own
parameter excepted. An error of `Load` and a panic in it are one outcome, `failed`.

### Migrate and MigrationText

A file is a number in the order of the names, a statement a pair (file, place).
`Step(m)` is one query of process `m`, `Abort(m)` an error or a kill between
any two of them, `Start(m)` a run or a rerun. `overlap` is a history variable:
whether two processes ever were at work at once.

The statements of a file are the queries that the loop of `migrate` cuts out of its text
(`Content`): `Count` is how many there are. `Queries` follows that loop from semicolon to
semicolon, `Sent[n]` being what is sent once `n` bytes are done; `Meant` is what a reader
takes the text to say. To that reader, as to the loop, every semicolon ends a statement,
also one inside quotes or a comment: what SQL makes of those is not part of the reference.

### IssueRows

One behaviour is the way of one event: `Sort` (ties in either order, as
`slices.SortFunc` leaves them), `Hash` (one exception per step), `AppendMessage` and
`AppendException` (one exception per step).
A hash is the term it was computed from; xxh3 is assumed to be free of
collisions and never 0. `Compare` subtracts ids in a word of `MaxInt` (`Wrap`), as the
code does; the sort promises order between neighbours only, which is all that is left
of it once a difference overflows. `Columns` are the names of the INSERT (`makeValues`). Rows are not
written as such: `Base`, `User`, `NoRequest`, `WithRequest`, `Message` and `Exception(i)`
are the append functions of `chbuf.go`, each with the columns to which it adds a cell, the
two ways through `appendRequest` apart. `Cells` adds them up column by column, so that a
column which one of them forgets, or which two of them fill, is out of step with the others.

### Decode

One behaviour is the decoding of one envelope, with one action per case of
`Event.Decode` and of the calls below it; `stack` holds the calls of `decodeMap`
that are open, of contexts and of the user alike. Names are sequences of the parts between
their dots, which is all that the concatenation in `decodeMap` can tell apart. The reference
(`Leaves`, `Exact`, `WellFormed`) reads the document as a whole, without stack or map:
`Leaves` opens every object of a sequence at once, and does so `MaxDepth` times. That
there is such a limit to nesting is a promise of jx, which refuses what is deeper;
`Depth` says of each value how deep it is. `Names` and `Values` are the parts of names and
the values that documents are made of; the value of a leaf is what `decodeMap` has read,
for a number after its way through `Float64`.

A timestamp is a number with or without a fraction, a number with an exponent, a string
that is a date or just a text, or of another type. `ParseInt` refuses an exponent, and a
number above `MaxInt64` on either side of the dot (`OutOfReach`). Members that are read for
their type or skipped (plain strings, request, tags, extra) are one kind, `DecodeOther`,
which refuses the event if the value is invalid. The width of the machine word is the
constant `MaxInt`. `UserData` is the one column of a row that is looked up again by
name, in `appendUser`: decoder and buffer have to agree on that name.

## 3. What is checked

| Run | Configuration | Shows |
|---|---|---|
| `batcher_safe` | 4 events, 2 workers, 3 buffers, retries and deadline, watcher at any time | `TypeOK`, `BufferOwnership`, `PooledBuffersEmpty`, `BatchSize`, `NothingLostBeforeFailure`, `OnlyRetriesDuplicate`, `RetrySendsSameBatch` |
| `batcher_live` | 2 events, deadline, a database that may refuse for ever, watcher parked first | `ImplementsSink` (refinement of `EventSink`), `CleanServeStoresAll`, `ErrorStopsFlushing`, `ServeEnds`, `BatchReturns`, `AcceptedSettles` |
| `batcher_recover` | no deadline, a database that recovers | `ServeEnds`, `AcceptedSettles` |
| `batcher_late_watcher` | one worker, watcher at any time | **violates** `ErrorStopsFlushing`: the first finding of section 5 |
| `batcher_time` | 2 workers, watcher first or late, limit 3, timeouts of 2 and 5 units, backoff from 2 to 3 units by a factor of 1.5, randomized by 50 per cent | `OldestRowWaits`, `HandoffBounded`, `DeadlineKept`, `RetriesSpaced` |
| `server` | 2 requests, watcher first or late, flushes that end or do not | `CleanExitKeepsAll`, `NormalAckIsKept`, `StopsInTheEnd`, `RequestsEnd` |
| `ingest` | all documents over 2 keys, 1 name in 2 styles and 6 filters, all headers of at most 2 parameters of 3 names and 4 values | `LoadExact`, `RoutedAsSent`, `FilteredOrAborted` |
| `migrate` | 2 processes, files of 2, 1 and 0 statements; all texts of at most 5 bytes | `QueriesAreStatements`, `RecordedMeansApplied`, `InOrder`, `SuccessMeansMigrated`, `RecordedOnceAlone`, `EventuallyMigrated` |
| `issue_rows` | all events of at most 3 exceptions, with or without message and request, with ids and parents in -3, 0, 1, 2, two bodies, a word of -4..3 | `OrderInsensitive`, `ParentsResolve`, `ParentAgrees`, `RowsComplete` |
| `decode` | timestamps of every kind, with 0 to 10 digits, pairs of exceptions, contexts and users of two levels, pairs of members | `CommonPrecisions`, `LastLeafWins`, `LinksSurvive`, `WholeOrRefused` |
| `decode_timestamp` | as `decode` | **violates** `TimestampsAreRead`: the second finding of section 5 |
| `decode_user` | as `decode` | **violates** `UserDataKept`: the third finding of section 5 |

Deadlock is checked in every run but two. In `batcher_safe` and `batcher_late_watcher`
the batcher can get stuck for good: that is the first finding, and with three
events that leave rows it needs two failing workers only. `batcher_live` and
`batcher_recover`, with the watcher parked first, are free of deadlock; `NoDeadlock`
(section 4) is why, for any number of workers.

### Bounds, and why they are enough

* *Batcher.* `batcher_safe` has events of zero, one, one and two rows with limit 2: a
  buffer is left below its limit, filled exactly by one event or by two, and
  overshot, and an event may leave no trace. Two workers are the least with which one
  fails while another flushes, waits or is idle. Three events with rows fill both
  workers and leave the receiver with a batch that nobody takes. There is one buffer
  more than there are workers: receiver and workers can own no more at once, and any
  of them is reused. The runs of liveness and of the refinement have two events with
  rows, the least with which two batches are under way together; an event without
  rows is none of the ledger's. Symmetry of workers and buffers is used in
  `batcher_safe` only, where every property is a safety property.
* *BatcherTime.* The interval grows from 2 to 3 and then stands at its maximum; pauses are
  1 to 3 units, then 1 to 5, so that a `FlushTimeout` of 5 has room for up to six attempts
  and is passed in a first pause as well as in a later one. `BatchTimeout` 2 and limit 3 let
  a row wait for two others and for one event without rows (`MaxIdle`). A receiver that is
  left alone is shown for 6 units, one more than `HandoffBounded` would allow
  (`MaxDeserted`). Retries on and off, and both kinds of watcher, are initial states.
* *Ingest.* Two projects, so that one resolves while another fails, and a key that
  belongs to the other one; two entries in all, so that a name is used twice. The six
  filters are the empty conjunction, a field filter, a conjunction of both, an unknown
  type, a conjunction with a null in it, and a node that is no mapping. Parameters are
  called `sentry_key=`, `sentry_client=` and `x_sentry_key=`, and among the values is a key
  with the name before it: with two of them the name of the key is found in the right
  place, before it, in a name, and in a value.
* *MigrationText.* A letter, the semicolon and two kinds of white space; five bytes are
  two statements with something before, between and after them.
* *Server.* Two requests, so that one is under way in any state while another
  is answered, and a flush may keep one and lose one.
* *Migrate.* Two processes, because what a third one would add is one more
  writer, and writers only add to the schema; three files, so that there is one
  before and one after, and one without statements.
* *IssueRows.* Three exceptions are the least with a chain of two parents and,
  at once, an order of the list that differs from the order of the ids; ids and
  parents from 0 (missing) to 2 include equal ids, cycles, a parent that is
  absent and a parent that is the exception itself. The id -3 lies out of reach of 2 in
  a word of -4..3, so that differences overflow.
* *Decode.* Nine digits are nanoseconds; two digits (0 and 1) suffice to tell scales and
  leading zeros apart. With `MaxInt64` 1099999999 the fraction of ten ones is out of reach
  and most others of ten digits are not. Names `a`, `b` and `a.b` on two levels give every kind of
  collision: between contexts, within one, and of a dotted name with a nested
  one; `id`, `data` and `data.id` do the same in a user. No value is nested deeper than
  `MaxDepth` 2. Numbers of exceptions run from -1 to the greatest int (3), so that 0,
  missing and overflow all occur.

### Fairness

* `Batcher`: weak fairness of each goroutine that has something to do. Strong
  fairness only of the cancellation of a backoff: that `select` is entered again and
  again, and Go chooses among ready cases at random; where a `FlushTimeout` is
  set the action is also the deadline, which retries cannot put off for ever
  because their delays are positive. Nobody is obliged to call `Batch` or
  `Shutdown`. The database owes nothing in `batcher_live`; in `batcher_recover`
  a flush that is tried infinitely often succeeds at last (`DatabaseRecovers`).
* `Server`: main proceeds, and so do handlers, but for one that waits for its body
  (`Decoded` has no fairness: the server sets no `ReadTimeout`, and no client is obliged to
  send). The batcher is obliged only under `BatcherEnds`, and then as far as the liveness
  runs of `Batcher` show it; a batcher that was told to stop releases the callers of
  `Batch` in any case, since `done` is closed. No signal is obliged, and a listener that is
  open need not fail.
* `Migrate`: a running process proceeds, and a failed command is run again.
  `EventuallyMigrated` assumes that failures end at some point, not when.
* `BatcherTime`, `Ingest`, `IssueRows` and `Decode` state no fairness: their properties
  are safety properties, bounded waiting included.

## 4. What is proved

All theorems hold for any number of events, workers, buffers, requests, processes, files,
exceptions, projects, filters, parameters of a header and members of an envelope, for any
nesting and any timeouts, from the assumptions that the modules name: `BatcherAssumption`,
`BatcherTimeAssumption`, `MigrateAssumption`, `IssueRowsAssumption`, `IngestAssumption`,
`HeaderAssumption`, `AbsentAssumption`, `ValuesAssumption`, `DocsAssumption`. Three of them
say more than what things look like. `BatcherAssumption`: there is a worker, since `New`
panics otherwise (`batcher.go:84`), and memory has room for more buffers than there are
workers. `HeaderAssumption`: there is no comma in a name or a value of a header.
`ValuesAssumption`: what is in an object is nested less deep than the object, up to
`MaxDepth`, so that no document goes on for ever.

`BatcherProofs`, along inductive invariants that build on each other:

1. `TypeInv`: `TypeOK`, and a worker holds a buffer exactly while it is in
   `flush`. → `TypeCorrect`.
2. `BufferInv`: where each buffer is (`Ownership`), that pooled ones are empty,
   and what is in the others (`Contents`: only events that were handed over,
   rows and events vanish together, the limit is exceeded by less than one
   event). `BufferOwnership` alone is not inductive: that `FlushOk` keeps the
   pool empty, or `Handoff` never passes an empty buffer on, needs `Contents`.
   → `OwnershipCorrect`, `PoolCorrect`, `BatchSizeCorrect`, `RetryCorrect` (an
   action property).
3. `ErrorInv`: how an error travels from worker to watcher to `Serve`, and
   `Conservation`: where an event that was handed over is to be found.
   → `NothingLost`, and `CleanServe` under `WatcherFirst`.
4. `OrderlyEnd`: workers end in peace only behind the receiver, an error that the watcher
   has taken leads to the cancellation, and a parked watcher has not missed `wdone`. With
   `ErrorInv` it says that a receiver whose workers are all gone is about to be freed.
   → `NeverDeserted` under `WatcherFirst`. From there `NoDeadlock` goes through the places
   where the receiver can be: whenever Serve ought to end or a caller waits, a case of some
   `select` is ready (`ReceiverReady`, `WorkerReady`, `ServerReady`: the guards of the
   actions, written out because `ENABLED` is out of the prover's reach). That `pool.Get`
   finds memory for one more buffer is a matter of counting (`RoomForOneMore`).
5. `OnceInv`: no event is in two live buffers, and one that is both in a buffer and in
   the table was in a batch that has been sent again. → `AtMostOnce`, and
   `AtMostOnceWithoutRetry` under `~RetryEnable`.

Its last part is `Refinement`, that is `WatcherFirst /\ Spec => ImplementsSink`. Each
action of `Batcher` maps to one of `EventSink` or to a stutter: the cases of `Batch` to
`Submit`, `Accept` and `Drop`, an insert to `Store`, a worker that leaves to `GiveUp`, a
receiver that returns with a buffer to `Abandon`, everything else inside `Serve` to a
stutter. The steps rest on all the invariants above, and on `EndInv` (the receiver ends by
`Shutdown` or by cancellation) for the result of `Serve`.

`BatcherTimeProofs`: `IInv` relates clocks to each other. The batch timer runs down
as the oldest row ages (`Receiver`); stop watch and deadline of a flush add up to
`FlushTimeout`, and a pause fits into what is left (`Deadlines`); while the receiver
waits, every worker that flushes has done so for at least as long (`Waiting`); a watcher
that was there in time leaves no error alone, so that a receiver whose workers are gone is
freed before time passes (`Watching`); each failure is paid for by a pause of at least the
least delay (`Pauses`). None of the four bounds
is inductive without its part: the properties speak of clocks that only count up.
The arithmetic of the backoff (with a `Multiplier` of at least 1, in hundredths, intervals
never fall below the lesser of `InitialInterval` and `MaxInterval`, delays never below the
randomization around that) is in lemmas of its own; with a smaller one it does not hold, and
`RetriesSpaced` says nothing. `ReceiverIsFreed` is about a watcher that is there in time;
the other bounds hold whenever it runs. → `TypeCorrect`, `RowsAreHandedOver`, `ReceiverIsFreed`,
`FlushIsTimely`, `RetriesPause`.

`IssueRowsProofs`: the columns of the append functions are each filled by exactly one of
them, whatever the request (`ColumnsAreShared`), so that a row adds one cell to every column
(`OneCell`, `OwnCells`): this is where a column that a function forgets would show.
`IInv` says that there are as many hashes as exceptions once the
sort is done, that every column has the cells of the rows appended so far (`RowsSoFar`), and
how far `Hash` has come (`Hashing`): each exception before that point has the hash that
its body and the `Link` to its parent give, where a `Link` leads only to exceptions
before it. `ParentHash` takes the first exception with an id; that there is a first one is
`LeastExists`, from the well-foundedness of the natural numbers. → `RowsAreWhole`,
`ParentsAreRows`. `OrderInsensitive` speaks of `Chain`, a recursive function of ids, and
`Hashing` of places in the sorted sequence: with ids in reach of each other the
subtraction does not overflow, and neighbours in order make the whole sequence ascend
(`Ascending`), so that the one order is the other. Then every hash is the `Chain` of its
id, from the first exception to the last. → `HashesAreChains`, `ParentsAgree`.

`MigrateProofs`: `IInv` adds to the properties what a process knows
(`Knowledge`: files it does not plan to record are recorded, the first
`place[m]` statements of the file it is in are in effect) and what it means to be
alone (`Alone`). The point of the argument is that others only add to schema and
records, so that what a process learned at `Applied` stays true while others run
past it. → `TypeCorrect`, `RecordsAreSound`, `OrderIsKept`, `SuccessIsSound`,
`RecordsAreUnique`.

Below the statements, `MigrateProofs` shows that every text is cut as `CutWell` says,
whatever its length. Loop and reader cut a piece at the same semicolon (`CutMeetsEnd`), and
trim to the same statement if the byte that the loop leaves out is white space
(`TrimFront`). So one piece is sent as it is meant exactly if it `Suits`: for a piece with a
semicolon this is `ClosedPiece`, for the last one `OpenPiece`. From there the proof goes by
induction from the end of the text to its beginning (`CutWellStep`). That one bad piece
cannot be made up for by the next ones is the point of the other direction: what a bad piece
sends too much is an empty query, and no statement that is meant is empty (`EmptyQuery`).
→ `TextsAreCutWell`, which contains `[]QueriesAreStatements`. Both levels meet in
`RecordsAreMeant`: if the text of a recorded file suits the loop, each statement that a
reader finds in it has been sent as it stands, and has taken effect.

`ServerProofs`: `IInv` orders the shutdown (`Sequence`), says what the ledger
owes (`Ledger`) and where the event of each request is (`Handlers`).
`CleanExitKeepsAll` needs `Ledger`, since exit code 0 speaks of `result` only.
→ `TypeCorrect`, `StopIsLast`, `CleanExit`, `AckIsKept`. Together with
`Refinement` they carry over from the ledger to the batcher that the code has.

`IngestProofs`: the reference, `Inside`, is the least set that is closed under the
filters of a conjunction, while the code walks: `UnmarshalYAML` decodes what is nested in a
filter, `AND.Filter` asks it. `Decoding` and `Asking` say that there is a set of filters
seen so far which, together with those still to come, covers where the walk began and the
conjuncts of all that was seen (`Covered`). With nothing left to come that set is closed, so
it holds `Inside` (`InsideIsLeast`); that nothing outside of `Inside` is met is the other
half (`InsideIsClosed`). `Resolving` says that projects behind the loop are as they should be
and those ahead as they were written, whatever the order. → `LoadIsExact`,
`FiltersAreAsked`. The proofs do not rest on the nesting being free of circles.
What a reference stands for comes from its text; that this is the filter of its name
exactly if it is plain is `FilterNamedIs` and `ResolvedIsMeant`.
`KeyIsMeant` says that `projectKey` finds in the text of a header what the client means by
its parameters, if nothing before the key has its name inside. The text grows by one
parameter at a time (`HeaderGrows`); a key once found stays found (`ProjectKeyStays`), a
parameter without the name in its text adds none (`NoneOfConcat`), and one that is the key
is found where it begins (`ProjectKeyFound`). `KeyOfHeader` puts that together by induction
over the parameters. `Routing` carries the key from there to the project and the event.
→ `RoutesAreSent`.

`DecodeProofs`: the reference reads the document at once and the decoder goes through it
token by token, so the invariant is about what is still to come. `Left` is the sequence of
leaves that are left for one map, of the objects on the stack, innermost first, and of the
members behind; `Flattening` says that some sequence of leaves followed by `Left` is all
of them, and that the map is what that first sequence gives. The lemmas about `Leaves` say
that it does not matter when an object is opened (`LeavesOpen`), so that `DecodeNested`,
which opens one, and `Close`, which leaves one, change nothing of `Left`, while
`DecodeLeaf` moves its first element into the map. → `MapsAreFlattened`. `Reading` says
that the members before this one are well formed, and so are the contexts of this one that
are no longer on the stack; `Refusing` that a step that fails has found something that is
not (an invalid value that is met is one of the leaves), or a timestamp that is well formed
and yet not read (`Unread`): an integer, or one out of reach. → `EventsAreWhole`. `Shifting`
says the same of exceptions that `Flattening` says of leaves, and a shift keeps numbers
apart below the greatest int (`PlainLinks`). → `LinksAreKept`. `Timing` says that the
timestamp of the event is the last one that was read; that three, six and nine digits are
what the padded fraction says is arithmetic (`PaddedIs`, `NanosecondsAreExact`). →
`PrecisionsAreExact`, and `FractionScope` for all other numbers of digits (section 5).
`UserDataScope` reads off the flattened map what reaches the column `UserData`.
`LastLeafWins` alone is far from inductive: it speaks of finished documents only.

Some of these proofs are by induction over data: on the place in a sequence or a text, the
nesting of an object, an id. The theorems of the library for it take an operator as a
parameter, which the installed provers cannot instantiate; `Induction` in `SequenceLemmas`
states it for a set instead and follows from the well-foundedness of the natural numbers
(`NatLessThanWellFounded`, `WFMin`). The same argument shows of each recursive function
(`Chain`, `FlattenSeq`, `Leaves`, `Number`, `Sent`) that there is one, without which its
definition says nothing.

Every invariant and every action property that a passing run checks is stated by a theorem,
and so is the refinement. Model-checked only are the liveness properties
(`ErrorStopsFlushing`, `ServeEnds`, `BatchReturns`, `AcceptedSettles`, `StopsInTheEnd`,
`RequestsEnd`, `EventuallyMigrated`), because fairness and `ENABLED` are out of the prover's
reach. What is proved in their place is what a safety property can say of them: `NoDeadlock`
without a clock, `ReceiverIsFreed`, `RowsAreHandedOver` and `FlushIsTimely` with one.
The properties that are violated (section 5) are in runs only; what holds next to two of
them is proved (`FractionScope`, `UserDataScope`, `EventsAreWhole`).

## 5. Findings

### An error may be overlooked

`batcher.go:116` says of `ctxflash`: "Flushing context. Canceled after first
worker error." The watcher (`batcher.go:159-165`) chooses between `errs` and
`wdone`. If it is first scheduled only after all workers have failed, and the
waiter has closed `wdone`, both cases are ready and it may take `wdone`. The error
is then never read, the context is never canceled, and `Serve` returns nil
although a batch was lost; or, if the receiver has not returned yet, it waits on
`toflash` for workers that are gone, with every caller of `Batch` behind it.
`batcher_late_watcher` shows it with one worker. The window is small: the first
flush of each worker would have to fail before the watcher runs at all.

With the watcher parked before the first flush the error always reaches it. What rests on
that says so:

* in `Batcher`, where it is the constant `WatcherFirst`: the runs `batcher_live` and
  `batcher_recover`, and the theorems `CleanServe`, `NeverDeserted`, `NoDeadlock` and
  `Refinement`;
* in `BatcherTime`, where it is the variable `watcherFirst`: `HandoffBounded` and its
  theorem `ReceiverIsFreed`. A receiver left alone waits without bound;
* in `Server`, likewise: `CleanExitKeepsAll` and its theorem `CleanExit`. With a late
  watcher the process may exit with code 0 after a loss. `StopsInTheEnd` and `RequestsEnd`
  presuppose it as part of `BatcherEnds`.

`batcher_safe`, the other properties of `batcher_time` and `server`, and the other theorems
do without.

### Timestamps are refused or misread

`decodeTimestamp` has a branch for numbers without a dot (`decoder.go:125-131`). It calls
`Int64` after `Raw` has consumed the number, finds what comes behind it, and fails: the
whole event is refused (`decode_timestamp`, `TimestampsAreRead`). The reference, `WellFormed`,
takes such a timestamp for what it is; `WholeOrRefused` and its theorem `EventsAreWhole` say
that besides ill-formed events only those are refused that have an integer for a timestamp,
or one that `ParseInt` cannot hold.

With a dot, `decoder.go:141-145` scales the digits behind it by 10^6 if there are fewer than
four, and by 10^3 if there are fewer than seven. That is right for three, six and nine
digits (`CommonPrecisions`), and wrong for others: `.8` becomes 8 milliseconds.
`FractionScope` says how far this goes: a fraction of at most nine digits is read rightly if
it has three, six or nine of them or is zero, and in no other case. The run stops at the
integer, which it meets first; the theorem speaks of all fractions.

The README of the repository promises to work with the existing SDKs
(`README.md:10`). `sentry/testdata/python_raise_same_during_capture_1.json:8` shows the form
in which one of them prints a time that is a float, `1772227617.81917`: the shortest, which
leaves out the last digit whenever that is zero. (The item of that sample is a
`client_report`, which bugpack does not decode as an event; the sample shows the form only.)

### The data of a user is lost

`decodeMap` flattens every object into dotted names (`decoder.go:437`), also the one that
a client sends as `data` of the user: `{"data": {"origin": "source code"}}` is decoded to
the name `data.origin`. `appendUser` looks for `data` (`chbuf.go:290`), finds it only if
it is no object, and writes `{}` to the column `UserData` otherwise (`decode_user`;
`UserDataScope` says exactly when). The test of the buffer (`chbuf_test.go:33`) builds its
event by hand, with a map as `data`, which the decoder never makes;
`sentry/testdata/go_captureExceptionScoped_0.json:81` records a request that has one.

### Divergences that the properties name

Two more came up while the modules were written. No run is spent on them: a property that
holds says exactly where the code departs from what one would expect.

* A reference in quotes has no target. `lazyRef = s.String()` (`config/decode.go:144`) keeps
  the text of the YAML node, with the quotes in it if the name was written in quotes. The
  filter of that name is then reported as not found (`decode.go:63`) although it is there,
  and the configuration is refused. `LoadExact` says so: a document is accepted exactly if
  it is well formed *and* its references are plain. The test `ProjectFilter/ref`
  (`decode_test.go:134`) has the plain form only. `LogFormat` is read in the same way
  (`decode.go:77`).
* Another parameter may be taken for the key. `projectKey` (`handler.go:138-152`) takes what
  follows the first `sentry_key=` in the header, also at the end of the name of another
  parameter or inside a value. `RoutedAsSent` is therefore about headers in which nothing
  before the key has its name inside (`clear`). The test of `projectKey` expects of a name
  that is merely alike, `sentry_keys=`, that it is no key (`handler_test.go:17`); none of
  its headers has a parameter that is alike at its end.

## 6. What is not modelled, and why

* Members of an event that are read and stored as they are: plain strings, tags, the
  request, extra, frames with their context lines (`frame.go`). Whether they are accepted
  or refuse the event is all that a property could be about; `Decode` has one kind of
  member for all of them.
* Times before 1970, whose fraction `decodeTimestamp` adds where it should subtract, and
  what `Float64` makes of numbers that a float cannot hold.
  `parent.go` is used by nothing.
* That `appendUser` stores an id that is a number as an empty string (`chbuf.go:283-287`),
  and that an event without contexts is stored with the JSON `null` (`chbuf.go:32-35`: the
  guard compares with nil, and `json.Marshal` of a nil map is the text `null`). What
  ClickHouse makes of `null` in a JSON column decides whether this matters.
* `clientIP`, among it that an `X-Forwarded-For` with a single address is ignored, and the
  plain members of the configuration.
* `NewField` ignores the comparison that it is given (`filters/field.go:28`). As long as a
  field filter panics when it is asked, `contains` and `equals` behave alike, and the
  test `Filter/contains` of `decode_test.go` passes either way.
* Later items of an envelope: `Decode` looks at the first one only, and an event
  that comes after another item is answered 200 and not stored.
* What the code does and no document forbids: a server whose batcher has ended
  with an error goes on answering 200 (`serve.go:109` is reached only after the
  listener is closed), events of requests under way at an interrupt are dropped
  and answered 200, and SIGTERM leaves the buffers unflushed. The models contain
  these behaviours; the properties of `Server` say what holds nevertheless.
* ClickHouse itself (the insert of a block, which may take effect in part, is the external
  part of `Batcher`), `chpool`, HTTP, logging and tracing, the schema and its views,
  test helpers, benchmark and samples.

## 7. Plan

Done, in this order: `EventSink` and `Batcher` with its runs; `BatcherProofs`;
`Migrate` and `MigrateProofs`; `Server`; `IssueRows`; the refinement and `ServerProofs`;
`Decode`; `BatcherTime` and its proofs; `Ingest` and `IngestProofs`; `MigrationText`; columns
and word width of `IssueRows` and its proofs; the user in `Decode`; what may be stored twice
in `Batcher`, with retries as well as without; chains of parents, the header and the decoder
proved; the loop of `MigrationText` as a recursive function, `Migrate` on top of it and the
proof that its queries are the statements; freedom from deadlock; the scopes of two findings;
late watchers in `BatcherTime` and `Server`, listeners that fail late and clients that do not
send; rows column by column; the texts of references and headers; every kind of timestamp.

What is left depends on the code: filters that decide something (`Ingest` has a place
for them, `AskOther`), breadcrumbs, and the storage of `Extra`, which the code announces in
comments. A refinement without `WatcherFirst` would need a ledger in which `Serve` may miss
a loss; it is better to repair the watcher.
