--------------------------- MODULE MemoryPipeline ---------------------------
(***************************************************************************)
(* The pipeline of the local mode: the scheduler and the workers of one    *)
(* process, over the in-memory repository (MonitorStore) and the in-memory *)
(* queue (InMemoryQueue).  Nothing survives the process, so there are no   *)
(* crashes; what can go wrong is a worker or the scheduler that is held up *)
(* until the lease it works under has run out.                             *)
(***************************************************************************)
EXTENDS Naturals, Sequences, FiniteSets

CONSTANTS
  Monitors, URLs, NoMonitor, Jobs, MonitorOf, NoJob, Tokens, MaxAttempts, BatchLimit,
  MaxChecks, MaxProcessed, MaxRetainedJobs, MaxRetainedIncidents,
  Scheduler,     \* the goroutine of RunQueueScheduler
  Workers,       \* the goroutines of RunQueueWorkers
  BufferSize,    \* QUEUE_BUFFER_SIZE
  MaxUpdates,    \* bound: updates through the API
  MaxFaults      \* bound: leases that run out under their holder

ASSUME PipelineAssumption ==
  /\ URLs # {}
  /\ Jobs \subseteq Nat /\ NoJob \notin Jobs /\ MonitorOf \in [Jobs -> Monitors]
  /\ MaxAttempts \in Nat \ {0} /\ BufferSize \in Nat

VARIABLES
  monitor, byURL, checks, job, active, terminal, processed, processedList, incident,
  open, resolved,
  channel, deadLetters, seen, closed, cancelled, publisher, consumer, delivery,
  scheduler,     \* the batch being published, and the claim in hand
  worker,        \* per worker: where it is in handleQueueDelivery, and its lease
  updates,       \* updates so far
  faults         \* faults so far

storeVars == <<monitor, byURL, checks, job, active, terminal, processed, processedList,
               incident, open, resolved>>
queueVars == <<channel, deadLetters, seen, closed, cancelled, publisher, consumer, delivery>>

Publishers == {Scheduler}

Store == INSTANCE MonitorStore
Queue == INSTANCE InMemoryQueue

bounds == <<updates, faults>>

vars == <<storeVars, queueVars, scheduler, worker, bounds>>

None == <<>>

Init ==
  /\ Store!Init
  /\ Queue!Init
  /\ scheduler = [batch |-> {}, claim |-> None]
  /\ worker = [w \in Workers |-> [pc |-> "idle", lease |-> None]]
  /\ updates = 0
  /\ faults = 0

\* Tokens are random: the one handed out is in no row and in nobody's hands.  The
\* first of the unused ones stands for it.
TokensInUse ==
  {job[j].publicationToken : j \in Jobs} \cup {job[j].leaseToken : j \in Jobs}
  \cup {c.token : c \in scheduler.batch}
  \cup {x.token : x \in ({scheduler.claim} \cup {worker[w].lease : w \in Workers}) \ {None}}

NewTokens == {t \in Tokens \ TokensInUse : \A u \in Tokens \ TokensInUse : t <= u}

-----------------------------------------------------------------------------
(* RunQueueScheduler and enqueueDueMonitorJobs *)

Idle == scheduler.batch = {} /\ scheduler.claim = None

Claim ==
  /\ Idle
  /\ \E batch \in SUBSET {j \in Jobs : job[j].status \in Store!Active},
        fresh \in SUBSET {j \in Jobs : Store!NewID(j)},
        token \in NewTokens :
       /\ Store!ClaimDueJobs(batch, fresh, token)
       /\ scheduler' = [scheduler EXCEPT !.batch =
            {[job |-> j, attempt |-> job[j].attempt, token |-> token] : j \in batch \cup fresh}]
  /\ UNCHANGED <<queueVars, worker, bounds>>

Publish(c) ==
  /\ scheduler.claim = None
  /\ c \in scheduler.batch
  /\ Queue!Publish(Scheduler, [job |-> c.job, attempt |-> c.attempt + 1])
  /\ scheduler' = [batch |-> scheduler.batch \ {c}, claim |-> c]
  /\ UNCHANGED <<storeVars, worker, bounds>>

PublishContinues ==
  /\ Queue!PublishEnqueue(Scheduler) \/ Queue!PublishUndo(Scheduler)
  /\ UNCHANGED <<storeVars, scheduler, worker, bounds>>

\* The outcome of Publish is recorded and the loop goes on to the next claim.
RecordPublication ==
  /\ Queue!Returns(Scheduler)
  /\ IF publisher[Scheduler].pc = "published"
     THEN Store!MarkJobPublished(scheduler.claim)
     ELSE Store!ReleaseJobPublish(scheduler.claim)
  /\ scheduler' = [scheduler EXCEPT !.claim = None]
  /\ UNCHANGED <<worker, bounds>>

-----------------------------------------------------------------------------
(* handleQueueDelivery *)

Goto(w, pc) == worker' = [worker EXCEPT ![w].pc = pc]

Receive(w) ==
  /\ worker[w].pc = "idle"
  /\ Queue!HandOver(w)
  /\ Goto(w, "received")
  /\ UNCHANGED <<storeVars, scheduler, bounds>>

GetMonitor(w) ==
  /\ worker[w].pc = "received"
  /\ Goto(w, IF Store!Exists(MonitorOf[delivery[w].message.job]) THEN "looked_up" ELSE "ack")
  /\ UNCHANGED <<storeVars, queueVars, scheduler, bounds>>

\* A stale, already processing or deleted job is acknowledged.
MarkJobProcessing(w) ==
  LET j == delivery[w].message.job
      n == delivery[w].message.attempt
  IN  /\ worker[w].pc = "looked_up"
      /\ \E token \in NewTokens :
           /\ Store!MarkJobProcessing(j, n, token)
           /\ worker' = [worker EXCEPT ![w] =
                IF Store!MayProcess(j, n)
                THEN [pc |-> "leased", lease |-> [job |-> j, attempt |-> n, token |-> token]]
                ELSE [pc |-> "ack", lease |-> None]]
      /\ UNCHANGED <<queueVars, scheduler, bounds>>

\* CheckMonitor, then StoreCheckResult: ErrDuplicateJob counts as stored.
StoreCheckResult(w, success) ==
  LET l == worker[w].lease IN
  /\ worker[w].pc = "leased"
  /\ Store!AddCheck(l, success)
  /\ Goto(w, IF Store!Stores(l) \/ job[l.job].status = "completed" THEN "ack" ELSE "failing")
  /\ UNCHANGED <<queueVars, scheduler, bounds>>

\* MarkJobFailed or FailProcessing; a job that is no longer this worker's is
\* acknowledged like one whose failure was persisted.
PersistFailure(w) ==
  LET l == worker[w].lease
      owned == Store!IsActive(l.job) /\ Store!OwnsLease(l)
  IN  /\ worker[w].pc = "failing"
      /\ IF Queue!Retryable(w) THEN Store!MarkJobFailed(l) ELSE Store!MarkJobDead(l)
      /\ Goto(w, IF owned /\ ~Queue!Retryable(w) THEN "nack" ELSE "ack")
      /\ UNCHANGED <<queueVars, scheduler, bounds>>

SettleDelivery(w) ==
  /\ worker[w].pc \in {"ack", "nack"}
  /\ IF worker[w].pc = "ack" THEN Queue!Ack(w) ELSE Queue!NackDead(w)
  /\ worker' = [worker EXCEPT ![w] = [pc |-> "idle", lease |-> None]]
  /\ UNCHANGED <<storeVars, scheduler, bounds>>

-----------------------------------------------------------------------------
(* The API, the consumer goroutine and time *)

ApiStep ==
  /\ \E m \in Monitors :
       \/ \E url \in URLs : Store!Create(m, url, TRUE) /\ UNCHANGED updates
       \/ /\ \E enabled, other \in BOOLEAN : Store!Update(m, monitor[m].url, enabled, other, FALSE)
          /\ updates < MaxUpdates
          /\ updates' = updates + 1
       \/ Store!Delete(m) /\ UNCHANGED updates
       \/ \E j \in Jobs : Store!CreateManualJob(m, j) /\ UNCHANGED updates
  /\ UNCHANGED <<queueVars, scheduler, worker, faults>>

Take == Queue!Take /\ UNCHANGED <<storeVars, scheduler, worker, bounds>>

\* Someone still works under the lease of job j.
Held(j) ==
  \/ \E c \in scheduler.batch \cup ({scheduler.claim} \ {None}) :
       c.job = j /\ Store!OwnsPublication(c)
  \/ \E w \in Workers : worker[w].lease # None /\ worker[w].lease.job = j
                        /\ Store!OwnsLease(worker[w].lease)

ExpireLease(j) ==
  /\ Store!ExpireLease(j)
  /\ IF Held(j) THEN faults < MaxFaults /\ faults' = faults + 1 ELSE faults' = faults
  /\ UNCHANGED <<queueVars, scheduler, worker, updates>>

TimePasses ==
  /\ \/ \E j \in Jobs : Store!BecomeAvailable(j)
     \/ \E m \in Monitors : Store!BecomeDue(m)
  /\ UNCHANGED <<queueVars, scheduler, worker, bounds>>

WorkerStep(w) ==
  \/ GetMonitor(w)
  \/ MarkJobProcessing(w)
  \/ \E success \in BOOLEAN : StoreCheckResult(w, success)
  \/ PersistFailure(w)
  \/ SettleDelivery(w)

Next ==
  \/ Claim
  \/ \E c \in scheduler.batch : Publish(c)
  \/ PublishContinues
  \/ RecordPublication
  \/ Take
  \/ \E w \in Workers : Receive(w) \/ WorkerStep(w)
  \/ ApiStep
  \/ \E j \in Jobs : ExpireLease(j)
  \/ TimePasses

Spec == Init /\ [][Next]_vars

\* Goroutines run on and the scheduler ticks again after every pass.  Nothing is
\* assumed about the API, about time, or about leases.
Fairness ==
  /\ WF_vars(Claim)
  /\ WF_vars(PublishContinues \/ RecordPublication \/ \E c \in scheduler.batch : Publish(c))
  /\ WF_vars(Take)
  /\ \A w \in Workers : WF_vars(Receive(w)) /\ WF_vars(WorkerStep(w))

FairSpec == Spec /\ Fairness

-----------------------------------------------------------------------------
(* Properties *)

phase ==
  [j \in Jobs |->
     CASE job[j].status = "none"                              -> "none"
       [] job[j].status \in {"scheduled", "queued", "failed"} -> "waiting"
       [] job[j].status = "processing"                        -> "running"
       [] job[j].status = "completed"                         -> "completed"
       [] job[j].status = "dead"                              -> "dead"
       [] job[j].status = "gone"                              -> "removed"]

attempt == [j \in Jobs |-> job[j].attempt]

recorded == UNION {{checks[m][i].job : i \in DOMAIN checks[m]} : m \in Monitors}

Lifecycle == INSTANCE JobLifecycle WITH
  phase <- phase, attempt <- attempt, recorded <- recorded

\* The in-memory mode implements the same lifecycle as the durable one, with the
\* eviction of settled jobs and old records as removals.
ImplementsLifecycle == Lifecycle!Spec

\* The next attempt of job j is in the queue, or with a worker that has not asked
\* for it yet.
InTransit(j) ==
  LET message == [job |-> j, attempt |-> job[j].attempt + 1] IN
  \/ \E i \in DOMAIN channel : channel[i] = message
  \/ consumer.pc = "holding" /\ consumer.message = message
  \/ \E w \in Workers : worker[w].pc \in {"received", "looked_up"} /\ delivery[w].message = message

\* Nothing replays a queued job but the message that carries it, so a queued job
\* without one is stuck, and its monitor is never checked again: ClaimDueJobs
\* skips a monitor that has an unfinished job.
NoLostQueuedJob == \A j \in Jobs : job[j].status = "queued" => InTransit(j)

\* The same as long as no lease has run out under its holder.
QueuedUnlessStalled == faults = 0 => NoLostQueuedJob

\* Every job is settled in the end, as long as leases outlast the work, although
\* the buffer is full and publications are put off.
JobsSettle ==
  \A j \in Jobs : job[j].status \in Store!Active ~> job[j].status \notin Store!Active \/ faults > 0
=============================================================================
