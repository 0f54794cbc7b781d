------------------------------- MODULE Server -------------------------------
(***************************************************************************)
(* bugpack/serve.go and bugpack/ingester/handler.go: the process of        *)
(* `bugpack server`, from the signal that stops it to its exit code, with  *)
(* the request handlers that run meanwhile.                                *)
(*                                                                         *)
(*   main      ListenAndServe, then batcher.Shutdown, then the error of    *)
(*             batcher.Serve, then the exit code                           *)
(*   signal    the goroutine that waits for os.Interrupt and calls         *)
(*             server.Shutdown; nobody waits for it                        *)
(*   handlers  one goroutine per request, inside ServeHTTP                 *)
(*                                                                         *)
(* The batcher is the ledger EventSink: its variables are fate, stopping,  *)
(* failed and result here, and a request is the event that it carries.     *)
(* Batcher implements the ledger when the watcher of Serve is there in     *)
(* time; what a late watcher adds is LateReturn and a batcher that stands  *)
(* still.                                                                  *)
(*                                                                         *)
(* http.Server is external: Shutdown closes the listener, upon which       *)
(* ListenAndServe returns at once, and so does an error of the listener,   *)
(* while requests on connections that were accepted before are still       *)
(* served, as long as the process lives.  The server is given no           *)
(* ReadTimeout: a client may keep its request body back for ever.          *)
(***************************************************************************)
CONSTANT Requests

VARIABLES
  watcherFirst, \* the watcher of Serve waits before the first flush
  flushesEnd,   \* FlushTimeout is set, or no database refuses for ever
  fate, stopping, failed, result,       \* the batcher (EventSink)
  req,          \* where each request is
  answer,       \* the status class the client was answered with
  listener,     \* the listening socket: "unbound", "open" or "closed"
  interrupted,  \* os.Interrupt was delivered
  main,         \* where main is
  lerr,         \* ListenAndServe returned another error than ErrServerClosed
  exit          \* "none" while the process lives, "0", "1" or "killed"

startvars == <<watcherFirst, flushesEnd>>
sinkvars == <<fate, stopping, failed, result>>
httpvars == <<req, answer>>
procvars == <<listener, interrupted, main, lerr, exit>>
vars == <<startvars, sinkvars, httpvars, procvars>>

Batcher == INSTANCE EventSink WITH Events <- Requests

Alive == exit = "none"

(* The two conditions under which the batcher comes to an end (they hold   *)
(* from the start or never): ServeEnds of Batcher is checked under both.   *)
BatcherEnds == watcherFirst /\ flushesEnd

TypeOK ==
  /\ watcherFirst \in BOOLEAN /\ flushesEnd \in BOOLEAN
  /\ Batcher!SinkTypeOK
  /\ req \in [Requests -> {"none", "serving", "reading", "decoded", "batching", "answered"}]
  /\ answer \in [Requests -> {"none", "ok", "refused", "aborted"}]
  /\ listener \in {"unbound", "open", "closed"}
  /\ interrupted \in BOOLEAN
  /\ main \in {"listening", "stopped", "waiting"}
  /\ lerr \in BOOLEAN
  /\ exit \in {"none", "0", "1", "killed"}

(* The configuration is loaded, the pool of connections answers, and the   *)
(* goroutines of the batcher and of the signal are started.                *)
Init ==
  /\ watcherFirst \in BOOLEAN /\ flushesEnd \in BOOLEAN
  /\ Batcher!Init
  /\ req = [r \in Requests |-> "none"]
  /\ answer = [r \in Requests |-> "none"]
  /\ listener = "unbound"
  /\ interrupted = FALSE
  /\ main = "listening"
  /\ lerr = FALSE
  /\ exit = "none"

-----------------------------------------------------------------------------
(* Requests.  The handler has the headers when it starts.                  *)

Accept(r) ==
  /\ Alive
  /\ listener = "open"
  /\ req[r] = "none"
  /\ req' = [req EXCEPT ![r] = "serving"]
  /\ UNCHANGED <<startvars, sinkvars, answer, procvars>>

Answer(r, a) ==
  /\ req' = [req EXCEPT ![r] = "answered"]
  /\ answer' = [answer EXCEPT ![r] = a]
  /\ UNCHANGED <<startvars, procvars>>

(* Not a POST, no key, an unknown project or encoding. *)
Refuse(r) ==
  /\ Alive
  /\ req[r] = "serving"
  /\ Answer(r, "refused")
  /\ UNCHANGED sinkvars

(* The path of the health check: 204 *)
Health(r) ==
  /\ Alive
  /\ req[r] = "serving"
  /\ Answer(r, "ok")
  /\ UNCHANGED sinkvars

(* The body is read, through gzip or as it is, while it is decoded. *)
Read(r) ==
  /\ Alive
  /\ req[r] = "serving"
  /\ req' = [req EXCEPT ![r] = "reading"]
  /\ UNCHANGED <<startvars, sinkvars, answer, procvars>>

(* event.Decode returns: with an event, with ErrNonEventType, upon which   *)
(* the client is answered 200, or with an error, the client's connection   *)
(* breaking off included.                                                  *)
Decoded(r) ==
  /\ Alive
  /\ req[r] = "reading"
  /\ \/ /\ req' = [req EXCEPT ![r] = "decoded"]
        /\ UNCHANGED <<startvars, answer, procvars>>
     \/ \E a \in {"ok", "refused"} : Answer(r, a)
  /\ UNCHANGED sinkvars

(* A filter of the project panics (all but empty conjunctions do, as       *)
(* Ingest shows): net/http recovers and closes the connection.             *)
PanicInFilter(r) ==
  /\ Alive
  /\ req[r] = "decoded"
  /\ Answer(r, "aborted")
  /\ UNCHANGED sinkvars

(* The filters of the project sort the event out: nothing is stored. *)
FilteredOut(r) ==
  /\ Alive
  /\ req[r] = "decoded"
  /\ Answer(r, "ok")
  /\ UNCHANGED sinkvars

(* h.batcher.Batch(event) is called. *)
CallBatch(r) ==
  /\ Alive
  /\ req[r] = "decoded"
  /\ Batcher!Submit(r)
  /\ req' = [req EXCEPT ![r] = "batching"]
  /\ UNCHANGED <<startvars, answer, procvars>>

(* Faulty: the handler does not wait for Batch. *)
BatchReturnsEarly(r) ==
  /\ Alive
  /\ req[r] = "batching"
  /\ Answer(r, "ok")
  /\ UNCHANGED sinkvars

(* Faulty: waits until the event is taken over. *)
BatchReturnsTaken(r) ==
  /\ Alive
  /\ req[r] = "batching"
  /\ fate[r] \in {"accepted", "stored", "lost"}
  /\ Answer(r, "ok")
  /\ UNCHANGED sinkvars

(* Batch has no result: whether it took the event over or dropped it, the  *)
(* client is answered 200.                                                 *)
BatchReturns(r) ==
  /\ Alive
  /\ req[r] = "batching"
  /\ fate[r] # "pending"
  /\ Answer(r, "ok")
  /\ UNCHANGED sinkvars

-----------------------------------------------------------------------------
(* The batcher.                                                            *)

BatcherAccepts(r) == Batcher!Accept(r)

BatcherSettles ==
  \E S \in SUBSET Batcher!Accepted :
    \/ S # {} /\ Batcher!Store(S)
    \/ S # {} /\ Batcher!Abandon(S)
    \/ \E L \in SUBSET Batcher!Accepted : Batcher!GiveUp(S, L)

(* A watcher that came too late has dropped the error of the last worker:  *)
(* nothing is canceled, and once the receiver is stopped Serve returns nil *)
(* in spite of the loss.                                                   *)
LateReturn ==
  /\ ~watcherFirst
  /\ failed /\ stopping
  /\ result = "running" /\ Batcher!Accepted = {}
  /\ result' = "nil"
  /\ UNCHANGED <<fate, stopping, failed>>

BatcherStep ==
  /\ Alive
  /\ \/ \E r \in Requests : BatcherAccepts(r) \/ Batcher!Drop(r)
     \/ BatcherSettles
     \/ Batcher!Return
     \/ LateReturn
  /\ UNCHANGED <<startvars, httpvars, procvars>>

-----------------------------------------------------------------------------
(* The process.                                                            *)

(* ListenAndServe binds its address, unless it was shut down before. *)
Listen ==
  /\ Alive
  /\ main = "listening"
  /\ listener = "unbound"
  /\ listener' = "open"
  /\ UNCHANGED <<startvars, sinkvars, httpvars, interrupted, main, lerr, exit>>

(* It returns an error, when the address cannot be bound or, later, when   *)
(* the listener accepts no more connections.                               *)
ListenFails ==
  /\ Alive
  /\ main = "listening"
  /\ listener \in {"unbound", "open"}
  /\ listener' = "closed"
  /\ main' = "stopped"
  /\ lerr' = TRUE
  /\ UNCHANGED <<startvars, sinkvars, httpvars, interrupted, exit>>

(* Faulty: server.Shutdown is not called. *)
InterruptLogged ==
  /\ Alive
  /\ ~interrupted
  /\ interrupted' = TRUE
  /\ UNCHANGED <<startvars, sinkvars, httpvars, listener, main, lerr, exit>>

(* os.Interrupt, once signal.Notify was called; the goroutine of the       *)
(* signal calls server.Shutdown, which closes the listener.                *)
Interrupt ==
  /\ Alive
  /\ ~interrupted
  /\ interrupted' = TRUE
  /\ listener' = "closed"
  /\ UNCHANGED <<startvars, sinkvars, httpvars, main, lerr, exit>>

(* ListenAndServe returns ErrServerClosed. *)
ListenReturns ==
  /\ Alive
  /\ main = "listening"
  /\ listener = "closed"
  /\ main' = "stopped"
  /\ UNCHANGED <<startvars, sinkvars, httpvars, listener, interrupted, lerr, exit>>

(* batcher.Shutdown() *)
StopBatcher ==
  /\ Alive
  /\ main = "stopped"
  /\ Batcher!Stop
  /\ main' = "waiting"
  /\ UNCHANGED <<startvars, httpvars, listener, interrupted, lerr, exit>>

(* Faulty: the result of Serve is not waited for. *)
ExitAtOnce ==
  /\ Alive
  /\ main = "waiting"
  /\ exit' = (IF lerr \/ result = "error" THEN "1" ELSE "0")
  /\ UNCHANGED <<startvars, sinkvars, httpvars, listener, interrupted, main, lerr>>

(* <-batcherErr; serve returns the errors joined, and main exits.          *)
Exit ==
  /\ Alive
  /\ main = "waiting"
  /\ result # "running"
  /\ exit' = (IF lerr \/ result = "error" THEN "1" ELSE "0")
  /\ UNCHANGED <<startvars, sinkvars, httpvars, listener, interrupted, main, lerr>>

(* Any other signal, SIGTERM included, or a crash ends the process. *)
Kill ==
  /\ Alive
  /\ exit' = "killed"
  /\ UNCHANGED <<startvars, sinkvars, httpvars, listener, interrupted, main, lerr>>

Dead == ~Alive /\ UNCHANGED vars

Next ==
  \/ \E r \in Requests : \/ Accept(r) \/ Refuse(r) \/ Health(r) \/ Read(r) \/ Decoded(r)
                         \/ PanicInFilter(r) \/ FilteredOut(r)
                         \/ CallBatch(r) \/ BatchReturns(r)
  \/ BatcherStep
  \/ Listen \/ ListenFails \/ Interrupt \/ ListenReturns \/ StopBatcher \/ Exit \/ Kill
  \/ Dead

Spec == Init /\ [][Next]_vars

(* Fairness.  main and the handlers proceed, but for a handler that reads: *)
(* it waits for its client.  A batcher that comes to an end takes events   *)
(* over or drops them, settles them, and Serve returns once it may, which  *)
(* is what Batcher shows (BatchReturns, AcceptedSettles, ServeEnds); any   *)
(* batcher that was told to stop releases the callers of Batch.  Nobody is *)
(* obliged to connect, to send a body or a signal, and a listener that is  *)
(* open need not fail.                                                     *)
Fairness ==
  /\ WF_vars(listener = "unbound" /\ (Listen \/ ListenFails)) /\ WF_vars(ListenReturns)
  /\ WF_vars(StopBatcher) /\ WF_vars(Exit)
  /\ \A r \in Requests :
       /\ WF_vars(Refuse(r) \/ Health(r) \/ Read(r))
       /\ WF_vars(PanicInFilter(r) \/ FilteredOut(r) \/ CallBatch(r))
       /\ WF_vars(BatchReturns(r))
       /\ WF_vars(BatcherEnds /\ BatcherStep /\ fate[r] = "pending" /\ fate'[r] # "pending")
       /\ WF_vars(stopping /\ BatcherStep /\ Batcher!Drop(r))
  /\ WF_vars(BatcherEnds /\ BatcherStep /\ BatcherSettles)
  /\ WF_vars(BatcherEnds /\ BatcherStep /\ Batcher!Return)

FairSpec == Spec /\ Fairness

-----------------------------------------------------------------------------
(* Exit code 0 is a receipt: of the events that the batcher took over none *)
(* is lost or still in a buffer when the process ends.  With a watcher     *)
(* that came too late it is none.                                          *)
CleanExitKeepsAll ==
  watcherFirst /\ exit = "0" => \A r \in Requests : fate[r] \notin {"accepted", "lost"}

(* While nobody stopped the server and no flush was given up, an event     *)
(* whose request was answered 200 is not dropped, not lost and not on its  *)
(* way any more.                                                           *)
NormalAckIsKept ==
  ~interrupted /\ ~lerr /\ ~failed =>
    \A r \in Requests : answer[r] = "ok" => fate[r] \in {"none", "accepted", "stored"}

(* The batcher is stopped only when no connection is accepted any more, so *)
(* that it drops at most the events of requests that were under way.       *)
StoppedAfterListener == stopping => listener = "closed"

(* If the batcher comes to an end the process does, after an interrupt and *)
(* after an error of the listener, early or late, which its exit code then *)
(* reports: whatever requests are under way, and although clients may keep *)
(* the bodies of their requests back.                                      *)
StopsInTheEnd ==
  BatcherEnds => (interrupted ~> ~Alive) /\ (lerr ~> exit \in {"1", "killed"})

(* A request of which the body was received comes to its end, unless the   *)
(* process does so before: also in a server whose batcher has failed.      *)
RequestsEnd ==
  BatcherEnds => \A r \in Requests : req[r] = "decoded" ~> req[r] = "answered" \/ ~Alive

=============================================================================
