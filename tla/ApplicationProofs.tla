------------------------- MODULE ApplicationProofs -------------------------
(***************************************************************************)
(* The shutdown of one process, for any set of loops, workers and HTTP     *)
(* requests: what is closed when, and why the process ends.                *)
(***************************************************************************)
EXTENDS Application, TLAPS

TypeOK ==
  /\ signalled \in BOOLEAN /\ cancelled \in BOOLEAN /\ runtimeErr \in BOOLEAN
  /\ queueClosed \in BOOLEAN /\ repoClosed \in BOOLEAN /\ grace \in BOOLEAN
  /\ stopWorkers \in BOOLEAN
  /\ main \in {"select", "stop", "wait", "returned"}
  /\ fatal \in {0, 1}
  /\ loop \in [Loops -> {"running", "stopped"}]
  /\ serve \in {"serving", "error", "closed"}
  /\ server \in {"select", "shutdown", "report", "send", "cancel", "done"}
  /\ request \in [Requests -> {"none", "active", "done"}]
  /\ worker \in [Workers -> {"running", "stopped", "failed"}]
  /\ pool \in {"select", "drain", "drain_failed", "report", "send", "cancel", "done"}

\* A supervisor that has reported, or has nothing to report, leaves nothing running
\* behind it.
SupervisorsInv ==
  /\ pool \in {"report", "send", "cancel", "done"} => WorkersDone
  /\ server \in {"report", "send", "cancel"} => serve = "error"
  /\ server = "done" =>
       serve = "error" \/ grace \/ \A r \in Requests : request[r] # "active"
  /\ serve = "serving" => server = "select"

\* The repository is closed by the last step of runApplication.
ClosingInv ==
  /\ repoClosed => main = "returned"
  /\ main = "returned" => AllDone

\* runApplication leaves its select for a signal or an error.
LeavingInv == main # "select" => signalled \/ runtimeErr

\* Whoever cancels the context without a signal has sent an error first.
CancellingInv ==
  /\ server = "cancel" \/ pool = "cancel" => fatal = 1 \/ main # "select"
  /\ cancelled /\ main = "select" => signalled \/ fatal = 1

\* While runApplication waits, a cancelled context comes with something its select
\* can take: it never waits on for a signal after its components were told to stop.
NoUnnoticedCancel == cancelled /\ main = "select" => SelectsSignal \/ fatal > 0

ShutdownInv == TypeOK /\ SupervisorsInv /\ ClosingInv /\ LeavingInv /\ CancellingInv

-----------------------------------------------------------------------------
(* The steps of one supervisor, and of runApplication, keep the invariant *)

\* What reportFatal does to the place of its caller, the channel and the context.
LEMMA Reporting ==
  ASSUME TypeOK, NEW pc, ReportFatal(pc)
  PROVE  /\ fatal' \in {0, 1} /\ cancelled' \in BOOLEAN /\ fatal <= fatal'
         /\ cancelled => cancelled'
         /\ pc = "report" => AfterReport(pc) \in {"send", "done"} /\ UNCHANGED cancelled
         /\ pc = "send" => AfterReport(pc) = "cancel" /\ UNCHANGED cancelled /\ fatal' = 1
         /\ pc = "cancel" => AfterReport(pc) = "done" /\ cancelled' /\ fatal' = fatal
<1>1. cancelled' \in BOOLEAN /\ (cancelled => cancelled') /\ (pc = "cancel" => cancelled')
  BY Zenon DEF ReportFatal
<1>2. pc # "cancel" => UNCHANGED cancelled
  <2> SUFFICES ASSUME pc # "cancel"  PROVE cancelled' = cancelled
    OBVIOUS
  <2>1. cancelled' = (cancelled \/ pc = "cancel") /\ cancelled \in BOOLEAN
    BY Zenon DEF ReportFatal, TypeOK
  <2> QED  BY <2>1
<1>3. fatal' \in {0, 1} /\ fatal <= fatal' /\ (pc = "send" => fatal' = 1)
      /\ (pc = "cancel" => fatal' = fatal)
  BY DEF ReportFatal, Sends, TypeOK
<1>4. /\ pc = "report" => AfterReport(pc) \in {"send", "done"}
      /\ pc = "send" => AfterReport(pc) = "cancel"
      /\ pc = "cancel" => AfterReport(pc) = "done"
  BY DEF AfterReport
<1> QED  BY <1>1, <1>2, <1>3, <1>4

LEMMA HttpKeeps ==
  ASSUME ShutdownInv,
         \/ HttpStep \/ ServeFails \/ \E r \in Requests : StartRequest(r) \/ FinishRequest(r)
  PROVE  ShutdownInv'
<1> USE DEF ShutdownInv
<1>1. UNCHANGED <<signalled, main, runtimeErr, queueClosed, repoClosed, loop, worker, stopWorkers,
                  pool>>
  BY DEF HttpStep, ServeFails, StartRequest, FinishRequest, SuperviseServer, GraceExpires,
         ServerStopped, ReportServer, app, work
<1>2. grace' \in BOOLEAN /\ cancelled' \in BOOLEAN
  <2>1. CASE ReportServer
    BY <2>1, Reporting DEF ReportServer, TypeOK
  <2>2. CASE GraceExpires
    BY <2>2, Zenon DEF GraceExpires, TypeOK
  <2>3. CASE UNCHANGED <<grace, cancelled>>
    BY <2>3 DEF TypeOK
  <2> QED  BY <2>1, <2>2, <2>3 DEF HttpStep, ServeFails, StartRequest, FinishRequest,
                                    SuperviseServer, ServerStopped
<1>3. /\ fatal' \in {0, 1} /\ serve' \in {"serving", "error", "closed"}
      /\ server' \in {"select", "shutdown", "report", "send", "cancel", "done"}
      /\ request' \in [Requests -> {"none", "active", "done"}]
  <2>1. CASE ReportServer
    BY <2>1, Reporting DEF ReportServer, ReportFatal, TypeOK
  <2>2. CASE ~ReportServer
    BY <2>2 DEF HttpStep, ServeFails, StartRequest, FinishRequest, SuperviseServer, GraceExpires,
                ServerStopped, TypeOK
  <2> QED  BY <2>1, <2>2
<1>4. TypeOK'
  BY <1>1, <1>2, <1>3 DEF TypeOK
<1>5. SupervisorsInv'
  <2>1. pool' \in {"report", "send", "cancel", "done"} => WorkersDone'
    BY <1>1 DEF SupervisorsInv, WorkersDone
  <2>2. CASE ReportServer
    BY <2>1, <2>2, Reporting DEF ReportServer, ReportFatal, SupervisorsInv
  <2>3. CASE ServeFails \/ SuperviseServer \/ GraceExpires
    BY <2>1, <2>3 DEF ServeFails, SuperviseServer, GraceExpires, SupervisorsInv, TypeOK
  <2>4. CASE ServerStopped
    BY <2>1, <2>4 DEF ServerStopped, ShutDown, SupervisorsInv, TypeOK
  <2>5. ASSUME NEW r \in Requests, StartRequest(r) \/ FinishRequest(r)  PROVE SupervisorsInv'
    BY <2>1, <2>5 DEF StartRequest, FinishRequest, SupervisorsInv, TypeOK
  <2> QED  BY <2>2, <2>3, <2>4, <2>5 DEF HttpStep
<1>6. server = "done" => server' = "done"
  BY DEF HttpStep, ServeFails, StartRequest, FinishRequest, SuperviseServer, GraceExpires,
         ServerStopped, ShutDown, ReportServer, ReportFatal
<1>7. ClosingInv' /\ LeavingInv'
  BY <1>1, <1>6 DEF ClosingInv, LeavingInv, AllDone
<1>8. CancellingInv'
  <2>1. CASE ReportServer
    BY <1>1, <2>1, Reporting DEF ReportServer, ReportFatal, CancellingInv, TypeOK
  <2>2. CASE ~ReportServer
    <3>1. UNCHANGED <<cancelled, fatal>> /\ (server' = "cancel" => server = "cancel")
      BY <2>2 DEF HttpStep, ServeFails, StartRequest, FinishRequest, SuperviseServer,
                  GraceExpires, ServerStopped
    <3> QED  BY <1>1, <3>1 DEF CancellingInv
  <2> QED  BY <2>1, <2>2
<1> QED  BY <1>4, <1>5, <1>7, <1>8

LEMMA PoolKeeps ==
  ASSUME ShutdownInv, PoolStep \/ \E w \in Workers : WorkerStops(w) \/ WorkerFails(w)
  PROVE  ShutdownInv'
<1> USE DEF ShutdownInv
<1>1. UNCHANGED <<signalled, main, runtimeErr, queueClosed, repoClosed, loop, serve, server, grace,
                  request>>
  BY DEF PoolStep, PoolSelects, PoolReturns, ReportPool, WorkerStops, WorkerFails, app, http
<1>2. cancelled' \in BOOLEAN /\ stopWorkers' \in BOOLEAN
  <2>1. CASE ReportPool
    BY <2>1, Reporting DEF ReportPool, TypeOK
  <2>2. CASE PoolSelects
    BY <2>2, Zenon DEF PoolSelects, TypeOK
  <2>3. CASE UNCHANGED <<cancelled, stopWorkers>>
    BY <2>3 DEF TypeOK
  <2> QED  BY <2>1, <2>2, <2>3 DEF PoolStep, PoolReturns, WorkerStops, WorkerFails
<1>3. /\ fatal' \in {0, 1}
      /\ pool' \in {"select", "drain", "drain_failed", "report", "send", "cancel", "done"}
      /\ worker' \in [Workers -> {"running", "stopped", "failed"}]
  <2>1. CASE ReportPool
    BY <2>1, Reporting DEF ReportPool, ReportFatal, TypeOK
  <2>2. CASE ~ReportPool
    BY <2>2 DEF PoolStep, PoolSelects, PoolReturns, WorkerStops, WorkerFails, TypeOK
  <2> QED  BY <2>1, <2>2
<1>4. TypeOK'
  BY <1>1, <1>2, <1>3 DEF TypeOK
<1>5. WorkersDone => WorkersDone'
  BY DEF PoolStep, PoolSelects, PoolReturns, ReportPool, WorkerStops, WorkerFails, WorkersDone,
         TypeOK
<1>6. pool' \in {"report", "send", "cancel", "done"} =>
        WorkersDone \/ pool \in {"report", "send", "cancel", "done"}
  BY DEF PoolStep, PoolSelects, PoolReturns, Drained, ReportPool, ReportFatal, WorkerStops,
         WorkerFails
<1>7. SupervisorsInv'
  BY <1>1, <1>5, <1>6 DEF SupervisorsInv
<1>8. pool = "done" => pool' = "done"
  BY DEF PoolStep, PoolSelects, PoolReturns, Drained, ReportPool, ReportFatal, WorkerStops,
         WorkerFails
<1>9. ClosingInv' /\ LeavingInv'
  BY <1>1, <1>8 DEF ClosingInv, LeavingInv, AllDone
<1>10. CancellingInv'
  <2>1. CASE ReportPool
    BY <1>1, <2>1, Reporting DEF ReportPool, ReportFatal, CancellingInv, TypeOK
  <2>2. CASE ~ReportPool
    <3>1. UNCHANGED <<cancelled, fatal>> /\ (pool' = "cancel" => pool = "cancel")
      BY <2>2 DEF PoolStep, PoolSelects, PoolReturns, WorkerStops, WorkerFails
    <3> QED  BY <1>1, <3>1 DEF CancellingInv
  <2> QED  BY <2>1, <2>2
<1> QED  BY <1>4, <1>7, <1>9, <1>10

LEMMA MainKeeps ==
  ASSUME ShutdownInv, MainStep \/ Signal
  PROVE  ShutdownInv'
<1> USE DEF ShutdownInv
<1>1. UNCHANGED <<loop, serve, server, grace, request, worker, stopWorkers, pool>>
  BY DEF MainStep, Select, CancelAndCloseQueue, Return, Signal, http, work
<1>2. /\ signalled' \in BOOLEAN /\ cancelled' \in BOOLEAN /\ runtimeErr' \in BOOLEAN
      /\ queueClosed' \in BOOLEAN /\ repoClosed' \in BOOLEAN
  BY ZenonT(40) DEF MainStep, Select, CancelAndCloseQueue, Return, Signal, TypeOK
<1>3. main' \in {"select", "stop", "wait", "returned"} /\ fatal' \in {0, 1}
  BY DEF MainStep, Select, CancelAndCloseQueue, Return, Signal, TypeOK
<1>4. TypeOK'
  BY <1>1, <1>2, <1>3 DEF TypeOK
<1>5. SupervisorsInv'
  BY <1>1 DEF SupervisorsInv, WorkersDone
<1>6. ClosingInv'
  <2>1. AllDone' <=> AllDone
    BY <1>1 DEF AllDone
  <2> QED  BY <2>1 DEF MainStep, Select, CancelAndCloseQueue, Return, Signal, ClosingInv
<1>7. LeavingInv'
  BY DEF MainStep, Select, SelectsSignal, CancelAndCloseQueue, Return, Signal, LeavingInv
<1>8. CancellingInv'
  BY <1>1 DEF MainStep, Select, CancelAndCloseQueue, Return, Signal, CancellingInv
<1> QED  BY <1>4, <1>5, <1>6, <1>7, <1>8

LEMMA LoopsKeep ==
  ASSUME ShutdownInv, NEW l \in Loops, LoopStops(l)
  PROVE  ShutdownInv'
<1> USE DEF ShutdownInv
<1>1. /\ UNCHANGED <<signalled, main, runtimeErr, queueClosed, repoClosed, cancelled, fatal, serve,
                     server, grace, request, worker, stopWorkers, pool>>
      /\ loop' = [loop EXCEPT ![l] = "stopped"]
  BY DEF LoopStops, app, http, work
<1>2. TypeOK'
  BY <1>1 DEF TypeOK
<1>3. SupervisorsInv' /\ LeavingInv' /\ CancellingInv'
  BY <1>1 DEF SupervisorsInv, WorkersDone, LeavingInv, CancellingInv
<1>4. ClosingInv'
  BY <1>1 DEF ClosingInv, AllDone, TypeOK
<1> QED  BY <1>2, <1>3, <1>4

LEMMA InitShutdownInv == Init => ShutdownInv
<1> SUFFICES ASSUME Init  PROVE ShutdownInv
  OBVIOUS
<1>1. /\ signalled \in BOOLEAN /\ cancelled \in BOOLEAN /\ runtimeErr \in BOOLEAN
      /\ queueClosed \in BOOLEAN /\ repoClosed \in BOOLEAN /\ grace \in BOOLEAN
      /\ stopWorkers \in BOOLEAN
  BY Zenon DEF Init
<1> QED  BY <1>1 DEF Init, ShutdownInv, TypeOK, SupervisorsInv, ClosingInv, LeavingInv,
                     CancellingInv

LEMMA NextShutdownInv == ShutdownInv /\ [Next]_vars => ShutdownInv'
<1> SUFFICES ASSUME ShutdownInv, [Next]_vars  PROVE ShutdownInv'
  OBVIOUS
<1>1. CASE Next
  BY <1>1, HttpKeeps, PoolKeeps, MainKeeps, LoopsKeep DEF Next
<1>2. CASE UNCHANGED vars
  BY <1>2 DEF vars, ShutdownInv, TypeOK, SupervisorsInv, ClosingInv, LeavingInv, CancellingInv,
              WorkersDone, AllDone
<1> QED  BY <1>1, <1>2

LEMMA ShutdownInvariant == Spec => []ShutdownInv
  BY InitShutdownInv, NextShutdownInv, PTL DEF Spec

-----------------------------------------------------------------------------
(* The results *)

\* The deferred closeRepo runs after every loop, every worker and the HTTP server have
\* ended; only requests the server has stopped waiting for may still be active.
THEOREM RepositoryOutlivesItsUsers == Spec => []RepositoryClosedLast
<1>1. ShutdownInv => RepositoryClosedLast
  BY DEF ShutdownInv, ClosingInv, SupervisorsInv, AllDone, RepositoryClosedLast
<1> QED  BY <1>1, ShutdownInvariant, PTL

\* A process that ends without an error was signalled: an error that a component
\* reports is never lost between fatalErrors and the result of runApplication.
THEOREM CleanExitIsRequested == Spec => []NilMeansSignalled
<1>1. ShutdownInv => NilMeansSignalled
  BY DEF ShutdownInv, LeavingInv, NilMeansSignalled
<1> QED  BY <1>1, ShutdownInvariant, PTL

\* reportFatal sends its error before it cancels the context, so a context that is done
\* while runApplication is in its select always comes with a signal or an error to take,
\* whichever supervisors report at the same time.
THEOREM CancelIsNoticed == Spec => []NoUnnoticedCancel
<1>1. ShutdownInv => NoUnnoticedCancel
  BY DEF ShutdownInv, CancellingInv, NoUnnoticedCancel, SelectsSignal
<1> QED  BY <1>1, ShutdownInvariant, PTL
=============================================================================
