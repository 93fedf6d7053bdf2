---------------------------- MODULE Application ----------------------------
(***************************************************************************)
(* The life of one process: runApplication starts the components of its    *)
(* role, waits for a signal or a fatal error, stops everything and returns.*)
(* A goroutine that only loops until its context is done (scheduler, alert *)
(* dispatcher, retention) is a loop; the HTTP server and the worker pool   *)
(* have supervisors of their own and may report a fatal error.             *)
(***************************************************************************)
EXTENDS Naturals, FiniteSets

CONSTANTS
  Loops,        \* the looping components of the role
  Workers,      \* worker goroutines of the pool
  Requests      \* HTTP requests in progress

VARIABLES
  signalled,    \* parentCtx is done
  cancelled,    \* ctx is done
  main,         \* runApplication: where it is
  runtimeErr,   \* whether runApplication received a fatal error
  fatal,        \* number of errors in fatalErrors (its capacity is 1)
  queueClosed,
  repoClosed,
  loop,         \* per loop: "running" or "stopped"
  serve,        \* server.Serve: "serving", or what it sent to serveResult
  server,       \* the supervisor of RunHTTPServer with the goroutine that reports it
  grace,        \* the 5 s of server.Shutdown are over
  request,      \* per request: "none", "active" or "done"
  worker,       \* per worker: "running", "stopped" or "failed" (it reported an error)
  stopWorkers,  \* workerCtx is cancelled by the pool itself
  pool          \* RunQueueWorkers, with the goroutine that reports it

vars == <<signalled, cancelled, main, runtimeErr, fatal, queueClosed, repoClosed, loop, serve,
          server, grace, request, worker, stopWorkers, pool>>

http == <<serve, server, grace, request>>
work == <<worker, stopWorkers, pool>>
app  == <<signalled, main, runtimeErr, queueClosed, repoClosed>>

Init ==
  /\ signalled = FALSE
  /\ cancelled = FALSE
  /\ main = "select"
  /\ runtimeErr = FALSE
  /\ fatal = 0
  /\ queueClosed = FALSE
  /\ repoClosed = FALSE
  /\ loop = [l \in Loops |-> "running"]
  /\ serve = "serving"
  /\ server = "select"
  /\ grace = FALSE
  /\ request = [r \in Requests |-> "none"]
  /\ worker = [w \in Workers |-> "running"]
  /\ stopWorkers = FALSE
  /\ pool = "select"

-----------------------------------------------------------------------------
(* reportFatal, in three steps: look at the context, send, cancel *)

\* Mutant: the context is cancelled before it is looked at.
CancelledFirst(pc) == IF pc = "report" THEN "cancel" ELSE "done"

AfterReport(pc) ==
  CASE pc = "report" -> IF cancelled THEN "done" ELSE "send"
    [] pc = "send"   -> "cancel"
    [] pc = "cancel" -> "done"

Sends(pc) == fatal' = IF pc = "send" /\ fatal = 0 THEN 1 ELSE fatal

ReportFatal(pc) ==
  /\ pc \in {"report", "send", "cancel"}
  /\ Sends(pc)
  /\ cancelled' = (cancelled \/ pc = "cancel")

-----------------------------------------------------------------------------
(* RunHTTPServer *)

\* The listener fails.
ServeFails ==
  /\ serve = "serving"
  /\ serve' = "error"
  /\ UNCHANGED <<app, cancelled, fatal, loop, server, grace, request, work>>

StartRequest(r) ==
  /\ serve = "serving" /\ server = "select"
  /\ request[r] = "none"
  /\ request' = [request EXCEPT ![r] = "active"]
  /\ UNCHANGED <<app, cancelled, fatal, loop, serve, server, grace, work>>

FinishRequest(r) ==
  /\ request[r] = "active"
  /\ request' = [request EXCEPT ![r] = "done"]
  /\ UNCHANGED <<app, cancelled, fatal, loop, serve, server, grace, work>>

\* serveResult came first, or the context is done and Shutdown ends Serve.
SuperviseServer ==
  /\ server = "select"
  /\ \/ serve = "error" /\ server' = "report" /\ UNCHANGED serve
     \/ /\ cancelled
        /\ server' = "shutdown"
        /\ serve' = IF serve = "serving" THEN "closed" ELSE serve
  /\ UNCHANGED <<app, cancelled, fatal, loop, grace, request, work>>

GraceExpires ==
  /\ server = "shutdown" /\ ~grace
  /\ grace' = TRUE
  /\ UNCHANGED <<app, cancelled, fatal, loop, serve, server, request, work>>

\* Shutdown returns when no request is active, or its time is up.
ShutDown == server = "shutdown" /\ (grace \/ \A r \in Requests : request[r] # "active")

ServerStopped ==
  /\ ShutDown
  /\ server' = IF serve = "error" THEN "report" ELSE "done"
  /\ UNCHANGED <<app, cancelled, fatal, loop, serve, grace, request, work>>

ReportServer ==
  /\ ReportFatal(server)
  /\ server' = AfterReport(server)
  /\ UNCHANGED <<app, loop, serve, grace, request, work>>

-----------------------------------------------------------------------------
(* RunQueueWorkers *)

WorkerDone == cancelled \/ stopWorkers \/ queueClosed

\* A worker stops on its context or on the end of its deliveries, and fails when
\* a delivery could be neither handled nor returned.
WorkerStops(w) ==
  /\ worker[w] = "running"
  /\ WorkerDone
  /\ worker' = [worker EXCEPT ![w] = "stopped"]
  /\ UNCHANGED <<app, cancelled, fatal, loop, http, stopWorkers, pool>>

WorkerFails(w) ==
  /\ worker[w] = "running"
  /\ worker' = [worker EXCEPT ![w] = "failed"]
  /\ UNCHANGED <<app, cancelled, fatal, loop, http, stopWorkers, pool>>

WorkersDone == \A w \in Workers : worker[w] # "running"

\* The select of RunQueueWorkers: the context, an error of a worker, or the end of
\* all of them.  Its fourth arm, an error of the consumer, is never ready while the
\* context is not done: RabbitMQ's consumer sends none, and the one of the in-memory
\* queue sends only if the queue is closed first, which runApplication does after the
\* cancellation.  It would do what an error of a worker does.
PoolSelects ==
  /\ pool = "select"
  /\ \/ cancelled /\ pool' = "drain" /\ stopWorkers' = TRUE
     \/ (\E w \in Workers : worker[w] = "failed") /\ pool' = "drain_failed" /\ stopWorkers' = TRUE
     \/ WorkersDone /\ pool' = (IF cancelled THEN "done" ELSE "report") /\ UNCHANGED stopWorkers
  /\ UNCHANGED <<app, cancelled, fatal, loop, http, worker>>

\* Mutant: the pool returns while workers are still running.
NotDrained == pool \in {"drain", "drain_failed"}

Drained == pool \in {"drain", "drain_failed"} /\ WorkersDone

\* runWorkerComponent drops the error if the context is done by then.
PoolReturns ==
  /\ Drained
  /\ pool' = IF pool = "drain" \/ cancelled THEN "done" ELSE "report"
  /\ UNCHANGED <<app, cancelled, fatal, loop, http, worker, stopWorkers>>

ReportPool ==
  /\ ReportFatal(pool)
  /\ pool' = AfterReport(pool)
  /\ UNCHANGED <<app, loop, http, worker, stopWorkers>>

-----------------------------------------------------------------------------
(* The loops and runApplication *)

LoopStops(l) ==
  /\ loop[l] = "running"
  /\ cancelled
  /\ loop' = [loop EXCEPT ![l] = "stopped"]
  /\ UNCHANGED <<app, cancelled, fatal, http, work>>

Signal ==
  /\ ~signalled
  /\ signalled' = TRUE
  /\ cancelled' = TRUE
  /\ UNCHANGED <<main, runtimeErr, fatal, queueClosed, repoClosed, loop, http, work>>

\* Mutant: runApplication waits for its own context.
SelectsOwnContext == cancelled

SelectsSignal == signalled

Select ==
  /\ main = "select"
  /\ \/ SelectsSignal /\ UNCHANGED <<fatal, runtimeErr>>
     \/ fatal > 0 /\ fatal' = fatal - 1 /\ runtimeErr' = TRUE
  /\ main' = "stop"
  /\ UNCHANGED <<signalled, cancelled, queueClosed, repoClosed, loop, http, work>>

CancelAndCloseQueue ==
  /\ main = "stop"
  /\ cancelled' = TRUE
  /\ queueClosed' = TRUE
  /\ main' = "wait"
  /\ UNCHANGED <<signalled, runtimeErr, fatal, repoClosed, loop, http, work>>

AllDone == server = "done" /\ pool = "done" /\ \A l \in Loops : loop[l] = "stopped"

\* wg.Wait, then the deferred closeRepo.
Return ==
  /\ main = "wait"
  /\ AllDone
  /\ repoClosed' = TRUE
  /\ main' = "returned"
  /\ UNCHANGED <<signalled, cancelled, runtimeErr, fatal, queueClosed, loop, http, work>>

HttpStep == SuperviseServer \/ GraceExpires \/ ServerStopped \/ ReportServer

PoolStep == PoolSelects \/ PoolReturns \/ ReportPool

MainStep == Select \/ CancelAndCloseQueue \/ Return

Next ==
  \/ Signal \/ MainStep
  \/ ServeFails \/ HttpStep
  \/ \E r \in Requests : StartRequest(r) \/ FinishRequest(r)
  \/ \E w \in Workers : WorkerStops(w) \/ WorkerFails(w)
  \/ PoolStep
  \/ \E l \in Loops : LoopStops(l)

\* Goroutines run on and the grace period ends; requests may hang, nothing need
\* fail and no signal need come.
Fairness ==
  /\ WF_vars(MainStep) /\ WF_vars(HttpStep) /\ WF_vars(PoolStep)
  /\ \A w \in Workers : WF_vars(WorkerStops(w))
  /\ \A l \in Loops : WF_vars(LoopStops(l))

Spec == Init /\ [][Next]_vars /\ Fairness

-----------------------------------------------------------------------------
(* Properties *)

\* The repository is closed only when nobody uses it any more, except for
\* requests that have outlasted the grace period of the HTTP server, or that were
\* in progress when its listener failed (they are not waited for then).
RepositoryClosedLast ==
  repoClosed =>
    /\ \A l \in Loops : loop[l] = "stopped"
    /\ WorkersDone
    /\ (\E r \in Requests : request[r] = "active") => grace \/ serve = "error"

\* runApplication returns nil only after a signal: a listener or a worker pool
\* that fails by itself makes the process exit with an error.
NilMeansSignalled == main = "returned" /\ ~runtimeErr => signalled

\* After a signal, or once the HTTP server or a worker has failed, the process ends.
Terminates ==
  (signalled \/ serve = "error" \/ \E w \in Workers : worker[w] = "failed") ~> main = "returned"
=============================================================================
