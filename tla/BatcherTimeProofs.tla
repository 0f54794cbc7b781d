------------------------- MODULE BatcherTimeProofs -------------------------
(***************************************************************************)
(* Proofs about BatcherTime for every configuration: any number of         *)
(* workers, any limit, timeouts and backoff.                               *)
(***************************************************************************)
EXTENDS BatcherTime, TLAPS

(* The batch timer runs down as the oldest row ages. *)
Receiver ==
  rows > 0 =>
    /\ pc = "select" => age + timer <= BatchTimeout * (rows + idle)
    /\ pc = "handoff" => age <= BatchTimeout * (rows + idle) + blocked

(* Stop watch and deadline of a flush add up, and a pause fits into what   *)
(* is left of it.                                                          *)
Deadlines ==
  \A w \in Workers :
    /\ ~Working(w) => job[w] = NoJob
    /\ at[w] = "flushing" => job[w].pause = 0
    /\ HasDeadline /\ Working(w) => /\ job[w].spent + job[w].left = FlushTimeout
                                    /\ job[w].pause <= job[w].left

(* Each working flush lasts for at least as long as the receiver waits.    *)
Waiting == pc = "handoff" => \A w \in Workers : Working(w) => blocked <= job[w].spent

(* A watcher that is there in time leaves no worker's error alone.         *)
Watching ==
  watcherFirst =>
    /\ upc # "starting"
    /\ \A w \in Workers : at[w] = "gone" => canceled \/ upc = "stopping"
    /\ upc = "done" => canceled \/ (pc = "closed" /\ \A w \in Workers : at[w] = "idle")

LeastDelay == Shortest(Lowest)

(* Each failed attempt has been, or is being, paid for by a pause. *)
Pauses ==
  Multiplier >= 100 =>
    \A w \in Workers :
      /\ job[w].interval = 0 \/ job[w].interval >= Lowest
      /\ job[w].spent + job[w].pause >= job[w].failures * LeastDelay

IInv == TypeOK /\ Receiver /\ Deadlines /\ Waiting /\ Watching /\ Pauses /\ HandoffBounded

-----------------------------------------------------------------------------
LEMMA Monotone == \A a, b, c \in Nat : b <= c => a * b <= a * c
  OBVIOUS

LEMMA OneMore == \A a, b \in Nat : (a + 1) * b = a * b + b
  OBVIOUS

LEMMA ShortestType == ASSUME NEW i \in Nat PROVE Shortest(i) \in Nat
<1>1. CASE RandomizationFactor >= 100
  BY <1>1 DEF Shortest
<1>2. CASE ~(RandomizationFactor >= 100)
  <2>1. 100 - RandomizationFactor \in Nat
    BY <1>2, BatcherTimeAssumption DEF BatcherTimeAssumption
  <2>2. (100 - RandomizationFactor) * i \in Nat
    BY <2>1
  <2> QED
    BY <1>2, <2>2 DEF Shortest
<1> QED
  BY <1>1, <1>2

LEMMA LeastDelayType == LeastDelay \in Nat /\ Lowest \in Nat
  BY BatcherTimeAssumption, ShortestType DEF BatcherTimeAssumption, LeastDelay, Lowest

(* An interval stays a number, and those of a backoff never fall below the *)
(* lower one of its first and its greatest interval, unless they shrink.   *)
LEMMA IntervalsGrow ==
  ASSUME NEW i \in Nat
  PROVE  /\ Grown(i) \in Nat
         /\ Multiplier >= 100 /\ i >= Lowest => Grown(i) >= Lowest
<1> USE BatcherTimeAssumption DEF BatcherTimeAssumption
<1> DEFINE P == i * Multiplier
<1>1. P \in Nat /\ Multiplier \in Nat /\ MaxInterval \in Nat
  OBVIOUS
<1>2. Multiplier >= 100 => i * 100 <= P
  BY <1>1, Monotone
<1>3. Lowest <= MaxInterval
  BY DEF Lowest
<1>4. Grown(i) = IF P >= 100 * MaxInterval THEN MaxInterval ELSE P \div 100
  BY DEF Grown
<1> HIDE DEF P
<1>5. P \div 100 \in Nat /\ (Multiplier >= 100 => i <= P \div 100)
  BY <1>1, <1>2
<1> QED
  BY <1>1, <1>3, <1>4, <1>5, LeastDelayType

LEMMA DelayIsLong ==
  ASSUME NEW i \in Nat, NEW d \in Delays(i)
  PROVE  d \in Nat /\ (i >= Lowest => d >= LeastDelay)
<1>1. Shortest(i) \in Nat
  BY ShortestType
<1>2. d \in Int /\ d >= Shortest(i)
  <2>1. ((100 + RandomizationFactor) * i + 99) \div 100 \in Int
    BY BatcherTimeAssumption DEF BatcherTimeAssumption
  <2> QED
    BY <1>1, <2>1 DEF Delays
<1>3. ASSUME i >= Lowest
      PROVE  Shortest(i) >= LeastDelay
  <2>1. CASE RandomizationFactor >= 100
    BY <2>1 DEF Shortest, LeastDelay
  <2>2. CASE ~(RandomizationFactor >= 100)
    <3> DEFINE F == 100 - RandomizationFactor
    <3>1. F \in Nat
      BY <2>2, BatcherTimeAssumption DEF BatcherTimeAssumption
    <3>2. F * Lowest <= F * i /\ F * Lowest \in Nat /\ F * i \in Nat
      BY <1>3, <3>1, Monotone, LeastDelayType
    <3>3. Shortest(i) = (F * i) \div 100 /\ LeastDelay = (F * Lowest) \div 100
      BY <2>2 DEF Shortest, LeastDelay
    <3> HIDE DEF F
    <3> DEFINE A == F * Lowest
               B == F * i
    <3> HIDE DEF A, B
    <3>4. A \in Nat /\ B \in Nat /\ A <= B
      BY <3>2 DEF A, B
    <3>5. A \div 100 <= B \div 100
      BY <3>4
    <3> QED
      BY <3>3, <3>4, <3>5, <1>1, LeastDelayType DEF A, B
  <2> QED
    BY <2>1, <2>2
<1> QED
  BY <1>1, <1>2, <1>3, LeastDelayType

LEMMA CurrentIsLong ==
  ASSUME NEW j \in Jobs
  PROVE  /\ Current(j) \in Nat
         /\ j.interval = 0 \/ j.interval >= Lowest => Current(j) >= Lowest
  BY BatcherTimeAssumption, LeastDelayType DEF BatcherTimeAssumption, Current, Jobs, Lowest

-----------------------------------------------------------------------------
LEMMA InitIInv == Init => IInv
<1> SUFFICES ASSUME Init
             PROVE  IInv
  OBVIOUS
<1> USE BatcherTimeAssumption DEF BatcherTimeAssumption, Init
<1>1. TypeOK
  BY DEF TypeOK, NoJob, NewJob, Jobs
<1>2. Receiver /\ Deadlines /\ Waiting /\ Watching /\ HandoffBounded
  BY DEF Receiver, Deadlines, Waiting, Watching, HandoffBounded, Working
<1>3. Pauses
  <2>1. 0 * LeastDelay = 0
    BY LeastDelayType
  <2>2. 0 + 0 >= 0
    OBVIOUS
  <2>3. \A w \in Workers : job[w].interval = 0 /\ job[w].spent = 0
                           /\ job[w].pause = 0 /\ job[w].failures = 0
    BY DEF NoJob, NewJob
  <2> QED
    BY <2>1, <2>2, <2>3 DEF Pauses
<1> QED
  BY <1>1, <1>2, <1>3 DEF IInv

(* Steps of the receiver leave the workers alone. *)
LEMMA ReceiverStep ==
  ASSUME IInv, UNCHANGED <<startvars, watchvars, at, job>>, pc = "closed" => pc' = "closed",
         TypeOK', Receiver', pc' = "handoff" => blocked' = 0 \/ UNCHANGED <<pc, blocked>>
  PROVE  IInv'
<1>1. Deadlines' /\ Pauses'
  BY DEF IInv, Deadlines, Pauses, Working
<1>2. Waiting' /\ Watching'
  BY DEF IInv, TypeOK, Jobs, Waiting, Watching, Working, startvars, watchvars
<1>3. HandoffBounded'
  BY BatcherTimeAssumption DEF BatcherTimeAssumption, IInv, HandoffBounded, HasDeadline, startvars
<1> QED
  BY <1>1, <1>2, <1>3 DEF IInv

(* A worker is done with its flush: it no longer has a job. *)
LEMMA WorkerLeaves ==
  ASSUME IInv, NEW w \in Workers, Working(w), UNCHANGED <<startvars, recvvars, canceled>>,
         job' = [job EXCEPT ![w] = NoJob],
         \/ at' = [at EXCEPT ![w] = "idle"] /\ UNCHANGED upc
         \/ at' = [at EXCEPT ![w] = "gone"] /\ upc' = IF upc = "parked" THEN "stopping" ELSE upc
  PROVE  IInv'
<1> USE DEF IInv, startvars, recvvars
<1>1. TypeOK'
  BY DEF TypeOK, NoJob, NewJob, Jobs
<1>2. Receiver' /\ HandoffBounded'
  BY DEF Receiver, HandoffBounded
<1>3. Deadlines' /\ Waiting'
  BY DEF TypeOK, Deadlines, Waiting, Working
<1>4. Watching'
  BY DEF TypeOK, Watching, Working
<1>5. Pauses'
  BY LeastDelayType DEF TypeOK, Pauses, NoJob, NewJob
<1> QED
  BY <1>1, <1>2, <1>3, <1>4, <1>5

(* Steps of the watcher leave the others alone. *)
LEMMA WatcherStep ==
  ASSUME IInv, UNCHANGED <<startvars, recvvars, at, job>>, TypeOK', Watching'
  PROVE  IInv'
  BY DEF IInv, startvars, recvvars, Receiver, Deadlines, Waiting, Working, Pauses, HandoffBounded

LEMMA StepIInv == IInv /\ [Next]_vars => IInv'
<1> SUFFICES ASSUME IInv, [Next]_vars
             PROVE  IInv'
  OBVIOUS
<1> USE BatcherTimeAssumption DEF BatcherTimeAssumption
<1> DEFINE K == rows + idle
<1>1. ASSUME NEW n \in 0..MaxRows, Receive(n)
      PROVE  IInv'
  <2>1. TypeOK'
    BY <1>1 DEF IInv, TypeOK, Receive, Arm, startvars, watchvars
  <2>2. Receiver'
    <3>1. CASE rows = 0
      <4>1. rows' > 0 => rows' + idle' >= 1 /\ rows' + idle' \in Nat /\ age' = 0
        BY <1>1, <3>1 DEF IInv, TypeOK, Receive
      <4>2. rows' > 0 => BatchTimeout * 1 <= BatchTimeout * (rows' + idle')
        BY <4>1, Monotone
      <4> QED
        BY <1>1, <3>1, <4>1, <4>2, <2>1 DEF TypeOK, Receiver, Receive, Arm
    <3>2. CASE rows > 0
      <4>1. K \in Nat /\ rows' + idle' \in Nat /\ K + 1 <= rows' + idle' /\ age' = age
        BY <1>1, <3>2 DEF IInv, TypeOK, Receive
      <4>2. BatchTimeout * (K + 1) <= BatchTimeout * (rows' + idle')
        BY <4>1, Monotone
      <4>3. BatchTimeout * (K + 1) = BatchTimeout * K + BatchTimeout
        BY <4>1
      <4>4. age + timer <= BatchTimeout * K
        BY <1>1, <3>2 DEF IInv, Receiver, Receive
      <4> HIDE DEF K
      <4> QED
        BY <1>1, <3>2, <4>1, <4>2, <4>3, <4>4, <2>1 DEF IInv, TypeOK, Receiver, Receive, Arm
    <3> QED
      BY <3>1, <3>2 DEF IInv, TypeOK
  <2> QED
    BY <1>1, <2>1, <2>2, ReceiverStep DEF Receive
<1>2. CASE BatchTimer
  <2>1. TypeOK'
    BY <1>2 DEF IInv, TypeOK, BatchTimer, Arm, startvars, watchvars
  <2>2. Receiver'
    BY <1>2, <2>1 DEF IInv, TypeOK, Receiver, BatchTimer
  <2> QED
    BY <1>2, <2>1, <2>2, ReceiverStep DEF BatchTimer
<1>3. CASE Shutdown
  <2>1. TypeOK'
    BY <1>3 DEF IInv, TypeOK, Shutdown, startvars, watchvars
  <2>2. Receiver'
    <3>1. BatchTimeout * K \in Nat
      BY DEF IInv, TypeOK
    <3> HIDE DEF K
    <3> QED
      BY <1>3, <2>1, <3>1 DEF IInv, TypeOK, Receiver, Shutdown, K
  <2> QED
    BY <1>3, <2>1, <2>2, ReceiverStep DEF Shutdown
<1>4. CASE ReceiveCanceled
  <2>1. TypeOK' /\ Receiver'
    BY <1>4 DEF IInv, TypeOK, Receiver, ReceiveCanceled, startvars, watchvars
  <2> QED
    BY <1>4, <2>1, ReceiverStep DEF ReceiveCanceled
<1>5. ASSUME NEW w \in Workers, Handoff(w)
      PROVE  IInv'
  <2> USE <1>5 DEF IInv, Handoff, startvars, watchvars
  <2>0. job[w] = NoJob
    BY DEF Deadlines, Working
  <2>1. TypeOK'
    BY DEF TypeOK, Jobs, NewJob, Arm
  <2>2. Receiver' /\ HandoffBounded'
    BY DEF Receiver, HandoffBounded
  <2>3. Deadlines'
    BY <2>0 DEF TypeOK, Deadlines, Working, HasDeadline, NewJob, Jobs
  <2>4. Waiting' /\ Watching'
    BY DEF TypeOK, Waiting, Watching
  <2>5. Pauses'
    BY LeastDelayType DEF TypeOK, Pauses, NewJob
  <2> QED
    BY <2>1, <2>2, <2>3, <2>4, <2>5
<1>6. ASSUME NEW w \in Workers, FlushOk(w)
      PROVE  IInv'
  BY <1>6, WorkerLeaves DEF FlushOk, Working, watchvars
<1>7. ASSUME NEW w \in Workers, FlushFail(w)
      PROVE  IInv'
  BY <1>7, WorkerLeaves DEF FlushFail, GiveUp, Working
<1>8. ASSUME NEW w \in Workers, FlushRetry(w)
      PROVE  IInv'
  <2> USE DEF IInv
  <2> DEFINE i == Current(job[w])
  <2>1. PICK delay \in Delays(i) :
          /\ ~OutOfTime(w, delay)
          /\ job' = [job EXCEPT ![w] = Failed(job[w], delay)]
    BY <1>8 DEF FlushRetry
  <2>2. /\ at[w] = "flushing"
        /\ at' = [at EXCEPT ![w] = "backoff"]
        /\ UNCHANGED <<startvars, recvvars, watchvars>>
    BY <1>8 DEF FlushRetry
  <2>3. /\ job[w] \in Jobs
        /\ Multiplier >= 100 => job[w].interval = 0 \/ job[w].interval >= Lowest
    BY DEF TypeOK, Pauses
  <2>4. i \in Nat /\ (Multiplier >= 100 => i >= Lowest)
    BY <2>3, CurrentIsLong
  <2>5. Grown(i) \in Nat /\ (Multiplier >= 100 => Grown(i) >= Lowest)
    BY <2>4, IntervalsGrow
  <2>6. delay \in Nat /\ (Multiplier >= 100 => delay >= LeastDelay)
    BY <2>4, DelayIsLong
  <2>7. Failed(job[w], delay) = [left |-> job[w].left, spent |-> job[w].spent,
                                  failures |-> job[w].failures + 1,
                                  interval |-> Grown(i), pause |-> delay]
    BY DEF Failed, Pause
  <2> HIDE DEF i
  <2>8. Failed(job[w], delay) \in Jobs
    BY <2>3, <2>5, <2>6, <2>7 DEF Jobs
  <2>9. TypeOK'
    BY <2>1, <2>2, <2>8 DEF TypeOK, startvars, recvvars, watchvars
  <2>10. Receiver' /\ HandoffBounded'
    BY <2>2 DEF Receiver, HandoffBounded, startvars, recvvars
  <2>11. Deadlines'
    <3>1. HasDeadline => delay <= job[w].left
      BY <2>1, <2>3, <2>6 DEF OutOfTime, HasDeadline, Jobs
    <3> QED
      BY <2>1, <2>2, <2>7, <3>1 DEF TypeOK, Deadlines, Working, HasDeadline
  <2>12. Waiting' /\ Watching'
    BY <2>1, <2>2, <2>7 DEF TypeOK, Waiting, Watching, Working, startvars, recvvars, watchvars
  <2>13. Pauses'
    <3>1. ASSUME Multiplier >= 100, NEW v \in Workers
          PROVE  /\ job'[v].interval = 0 \/ job'[v].interval >= Lowest
                 /\ job'[v].spent + job'[v].pause >= job'[v].failures * LeastDelay
      <4>1. CASE v # w
        BY <3>1, <4>1, <2>1 DEF TypeOK, Pauses
      <4>2. CASE v = w
        <5>1. /\ job'[w].interval = Grown(i) /\ job'[w].pause = delay
              /\ job'[w].spent = job[w].spent /\ job'[w].failures = job[w].failures + 1
          BY <2>1, <2>7 DEF TypeOK
        <5>2. job[w].spent \in Nat /\ job[w].failures \in Nat /\ job[w].pause = 0
          BY <2>2, <2>3 DEF Jobs, Deadlines
        <5>3. (job[w].failures + 1) * LeastDelay = job[w].failures * LeastDelay + LeastDelay
          BY <5>2, OneMore, LeastDelayType
        <5>4. job[w].spent >= job[w].failures * LeastDelay
          BY <3>1, <5>2 DEF Pauses
        <5>5. job[w].failures * LeastDelay \in Nat
          BY <5>2, LeastDelayType
        <5> QED
          BY <3>1, <4>2, <5>1, <5>2, <5>3, <5>4, <5>5, <2>5, <2>6, LeastDelayType
      <4> QED
        BY <4>1, <4>2
    <3> QED
      BY <3>1 DEF Pauses
  <2> QED
    BY <2>9, <2>10, <2>11, <2>12, <2>13
<1>9. ASSUME NEW w \in Workers, Retry(w)
      PROVE  IInv'
  <2> USE <1>9 DEF IInv, Retry, startvars, recvvars, watchvars
  <2>1. TypeOK'
    BY DEF TypeOK
  <2>2. Receiver' /\ HandoffBounded'
    BY DEF Receiver, HandoffBounded
  <2>3. Deadlines' /\ Waiting' /\ Watching'
    BY DEF TypeOK, Deadlines, Waiting, Watching, Working
  <2>4. Pauses'
    BY DEF Pauses
  <2> QED
    BY <2>1, <2>2, <2>3, <2>4
<1>10. ASSUME NEW w \in Workers, RetryCanceled(w)
       PROVE  IInv'
  BY <1>10, WorkerLeaves DEF RetryCanceled, GiveUp, Working
<1>11. CASE Tick
  <2> USE DEF IInv
  <2>1. /\ \A w \in Workers : Working(w) => (HasDeadline => job[w].left > 0)
        /\ \A w \in Workers : at[w] = "backoff" => job[w].pause > 0
        /\ pc = "select" => timer > 0
        /\ pc = "handoff" => ~canceled /\ \A w \in Workers : at[w] # "idle"
        /\ upc \notin {"starting", "stopping"}
    BY <1>11 DEF Tick, Quiet
  <2>2. /\ timer' = (IF pc = "select" THEN timer - 1 ELSE timer)
        /\ age' = (IF pc # "closed" /\ rows > 0 THEN age + 1 ELSE age)
        /\ blocked' = (IF pc = "handoff" THEN blocked + 1 ELSE blocked)
        /\ UNCHANGED <<startvars, pc, stop, rows, idle, watchvars, at>>
    BY <1>11 DEF Tick
  <2>3. ASSUME NEW w \in Workers, ~Working(w)
        PROVE  job'[w] = job[w]
    BY <1>11, <2>3 DEF Tick
  <2>4. ASSUME NEW w \in Workers, Working(w)
        PROVE  /\ job'[w] \in Jobs
               /\ job'[w].left = IF HasDeadline THEN job[w].left - 1 ELSE job[w].left
               /\ job'[w].spent = job[w].spent + 1
               /\ job'[w].pause = IF at[w] = "backoff" THEN job[w].pause - 1 ELSE job[w].pause
               /\ job'[w].failures = job[w].failures
               /\ job'[w].interval = job[w].interval
    <3>1. job[w] \in Jobs
      BY DEF TypeOK
    <3>2. job'[w] = Aged(w)
      BY <1>11, <2>4 DEF Tick
    <3> QED
      BY <2>1, <2>4, <3>1, <3>2 DEF Jobs, Working, Aged
  <2>5. TypeOK'
    <3>1. job' \in [Workers -> Jobs]
      <4>1. \A w \in Workers : job'[w] \in Jobs
        BY <2>3, <2>4 DEF TypeOK
      <4>2. job' = [w \in Workers |-> job'[w]]
        BY <1>11 DEF Tick
      <4> QED
        BY <4>1, <4>2
    <3> QED
      BY <2>1, <2>2, <3>1 DEF TypeOK, startvars, watchvars
  <2>6. Receiver'
    <3>1. BatchTimeout * K \in Nat
      BY DEF TypeOK
    <3> HIDE DEF K
    <3> QED
      BY <2>1, <2>2, <3>1 DEF TypeOK, Receiver, K
  <2>7. Deadlines'
    <3>1. ASSUME NEW w \in Workers
          PROVE  /\ ~Working(w)' => job'[w] = NoJob
                 /\ at'[w] = "flushing" => job'[w].pause = 0
                 /\ HasDeadline /\ Working(w)' => /\ job'[w].spent + job'[w].left = FlushTimeout
                                                  /\ job'[w].pause <= job'[w].left
      <4>1. job[w] \in Jobs
        BY DEF TypeOK
      <4> QED
        BY <2>1, <2>2, <2>3, <2>4, <4>1 DEF Deadlines, Working, Jobs
    <3> QED
      BY <3>1 DEF Deadlines, HasDeadline
  <2>8. Waiting' /\ Watching'
    <3>1. \A w \in Workers : job[w].spent \in Nat
      BY DEF TypeOK, Jobs
    <3> QED
      BY <2>2, <2>4, <3>1 DEF TypeOK, Waiting, Watching, Working, startvars, watchvars
  <2>9. Pauses'
    <3>1. ASSUME Multiplier >= 100, NEW w \in Workers
          PROVE  /\ job'[w].interval = 0 \/ job'[w].interval >= Lowest
                 /\ job'[w].spent + job'[w].pause >= job'[w].failures * LeastDelay
      <4>1. CASE ~Working(w)
        BY <3>1, <4>1, <2>3 DEF Pauses
      <4>2. CASE Working(w)
        <5>1. job[w].spent \in Nat /\ job[w].pause \in Nat /\ job[w].failures * LeastDelay \in Nat
          BY LeastDelayType DEF TypeOK, Jobs
        <5>2. job'[w].spent + job'[w].pause >= job[w].spent + job[w].pause
          BY <4>2, <5>1, <2>4
        <5>3. job'[w].spent \in Nat /\ job'[w].pause \in Nat
          BY <4>2, <2>4 DEF Jobs
        <5> QED
          BY <3>1, <4>2, <5>1, <5>2, <5>3, <2>4 DEF Pauses
      <4> QED
        BY <4>1, <4>2
    <3> QED
      BY <3>1 DEF Pauses
  <2>10. HandoffBounded'
    <3>1. SUFFICES ASSUME watcherFirst, HasDeadline, pc = "handoff"
                   PROVE  blocked + 1 <= FlushTimeout
      BY <2>2 DEF HandoffBounded, HasDeadline, startvars
    <3>2. PICK w \in Workers : TRUE
      OBVIOUS
    <3>3. Working(w)
      BY <2>1, <3>1 DEF TypeOK, Watching, Working
    <3> QED
      BY <2>1, <3>1, <3>3 DEF TypeOK, Jobs, Waiting, Deadlines
  <2> QED
    BY <2>5, <2>6, <2>7, <2>8, <2>9, <2>10
<1>12. CASE WatcherSelect
  <2>1. TypeOK' /\ Watching'
    BY <1>12 DEF IInv, TypeOK, Watching, WatcherSelect, startvars, recvvars
  <2> QED
    BY <1>12, <2>1, WatcherStep DEF WatcherSelect
<1>13. CASE WatcherWoken
  <2>1. TypeOK'
    BY <1>13 DEF IInv, TypeOK, WatcherWoken, startvars, recvvars
  <2>2. Watching'
    BY <1>13 DEF IInv, TypeOK, Watching, WatcherWoken, WorkersDone, startvars, recvvars
  <2> QED
    BY <1>13, <2>1, <2>2, WatcherStep DEF WatcherWoken
<1>14. CASE StopFlash
  <2>1. TypeOK' /\ Watching'
    BY <1>14 DEF IInv, TypeOK, Watching, StopFlash, startvars, recvvars
  <2> QED
    BY <1>14, <2>1, WatcherStep DEF StopFlash
<1>15. ASSUME UNCHANGED vars
       PROVE  IInv'
  BY <1>15 DEF vars, startvars, recvvars, watchvars, IInv, TypeOK, Receiver, Deadlines,
               Waiting, Watching, Pauses, HandoffBounded, Working
<1> QED
  BY <1>1, <1>2, <1>3, <1>4, <1>5, <1>6, <1>7, <1>8, <1>9, <1>10, <1>11, <1>12, <1>13, <1>14,
     <1>15
  DEF Next, Worker, Watcher, Rest

LEMMA Invariance == Spec => []IInv
  BY InitIInv, StepIInv, PTL DEF Spec

-----------------------------------------------------------------------------
(* The variables keep their types; in particular no clock runs below 0.    *)
THEOREM TypeCorrect == Spec => []TypeOK
<1>1. IInv => TypeOK
  BY DEF IInv
<1> QED
  BY <1>1, Invariance, PTL

(* A row leaves the buffer after at most one BatchTimeout per row and per  *)
(* event without rows, and the wait for a worker.                          *)
THEOREM RowsAreHandedOver == Spec => []OldestRowWaits
<1>1. IInv => OldestRowWaits
  <2> SUFFICES ASSUME IInv, pc # "closed", rows > 0
               PROVE  age <= BatchTimeout * (rows + idle) + (IF pc = "handoff" THEN blocked ELSE 0)
    BY DEF OldestRowWaits
  <2>1. BatchTimeout * (rows + idle) \in Nat
    BY BatcherTimeAssumption DEF BatcherTimeAssumption, IInv, TypeOK
  <2> DEFINE P == BatchTimeout * (rows + idle)
  <2>2. /\ pc = "select" => age + timer <= P
        /\ pc = "handoff" => age <= P + blocked
    BY DEF IInv, Receiver
  <2> HIDE DEF P
  <2>3. age <= P + (IF pc = "handoff" THEN blocked ELSE 0)
    BY <2>1, <2>2 DEF IInv, TypeOK, P
  <2> QED
    BY <2>3 DEF P
<1> QED
  BY <1>1, Invariance, PTL

(* With a deadline, and a watcher that is there in time, the receiver      *)
(* waits for a worker no longer than one flush may last.                   *)
THEOREM ReceiverIsFreed == Spec => []HandoffBounded
<1>1. IInv => HandoffBounded
  BY DEF IInv
<1> QED
  BY <1>1, Invariance, PTL

(* A flush and its retries end by their deadline. *)
THEOREM FlushIsTimely == Spec => []DeadlineKept
<1>1. IInv => DeadlineKept
  <2> SUFFICES ASSUME IInv, HasDeadline, NEW w \in Workers, Working(w)
               PROVE  job[w].spent + job[w].pause <= FlushTimeout
    BY DEF DeadlineKept
  <2>1. /\ job[w].spent \in Nat /\ job[w].pause \in Nat /\ job[w].left \in Nat
        /\ job[w].spent + job[w].left = FlushTimeout
        /\ job[w].pause <= job[w].left
    BY DEF IInv, TypeOK, Jobs, Deadlines
  <2> QED
    BY <2>1
<1> QED
  BY <1>1, Invariance, PTL

(* The retries of a flush are at least the least delay apart, for every    *)
(* Multiplier of at least 1, whole or not.                                 *)
THEOREM RetriesPause == Spec => []RetriesSpaced
<1>1. IInv => RetriesSpaced
  <2> SUFFICES ASSUME IInv, Multiplier >= 100, NEW w \in Workers, at[w] = "flushing"
               PROVE  job[w].spent >= job[w].failures * LeastDelay
    BY DEF RetriesSpaced, LeastDelay
  <2>1. job[w].pause = 0 /\ job[w].spent \in Nat
    BY DEF IInv, TypeOK, Jobs, Deadlines
  <2>2. job[w].spent + job[w].pause >= job[w].failures * LeastDelay
    BY DEF IInv, Pauses
  <2> QED
    BY <2>1, <2>2
<1> QED
  BY <1>1, Invariance, PTL

=============================================================================
