----------------------------- MODULE CheckJobs -----------------------------
(***************************************************************************)
(* The check-job pipeline: the check_jobs table of the PostgreSQL          *)
(* repository, the schedulers that claim jobs and publish them, the        *)
(* RabbitMQ main queue that carries them, and the workers that run them.   *)
(*                                                                         *)
(* Every database call is one atomic step (the code runs it as one         *)
(* statement, or as one transaction that locks the rows it decides on);    *)
(* everything between two calls of the same goroutine can be interleaved   *)
(* with the other processes, so a handler is one action per call.          *)
(*                                                                         *)
(* Time is what the guards can tell apart.  A lease is "none" (NULL),      *)
(* "live" (lease_expires_at > now) or "expired"; a job is available when   *)
(* available_at <= now; a monitor is due when next_check_at <= now.        *)
(* ExpireLease, BecomeAvailable and BecomeDue are the passing of time.     *)
(***************************************************************************)
EXTENDS Naturals, FiniteSets

CONSTANTS
  Monitors,     \* monitor ids
  Jobs,         \* check job ids; an id is used for at most one job
  MonitorOf,    \* the monitor each job id belongs to
  NoJob,        \* the job field of a worker or scheduler that holds none
  Schedulers,   \* processes with APP_ROLE scheduler
  Workers,      \* worker goroutines, over all processes with APP_ROLE worker
  MaxAttempts,  \* MAX_JOB_ATTEMPTS
  BatchLimit,   \* SCHEDULER_BATCH_SIZE
  MaxConfig,    \* bound: configuration changes per monitor
  MaxFaults     \* bound: crashes, lost replies, lost connections, slow holders

ASSUME JobsAssumption ==
  /\ MonitorOf \in [Jobs -> Monitors]
  /\ NoJob \notin Jobs

ASSUME BoundsAssumption ==
  /\ MaxAttempts \in Nat \ {0}
  /\ BatchLimit \in Nat \ {0}
  /\ MaxConfig \in Nat
  /\ MaxFaults \in Nat

VARIABLES
  monitor,       \* the monitors table
  job,           \* the check_jobs table
  results,       \* the check_results table
  tokens,        \* number of tokens handed out by newID
  topology,      \* the main queue: "present", "missing", or "recovered"
                 \* (still missing, but its jobs are back in the publish path)
  recoveriesOwed,\* processes with a recorded loss their handler has not yet recovered
  queue,         \* copies of each message in the main queue
  deadLetters,   \* jobs with a message in the dead-letter queue
  scheduler,     \* per scheduler: the claims of its batch and where it is
  worker,        \* per worker: the delivery it handles and where it is
  faults         \* faults so far

vars == <<monitor, job, results, tokens, topology, recoveriesOwed, queue,
          deadLetters, scheduler, worker, faults>>

store  == <<monitor, job, results, tokens>>
broker == <<topology, recoveriesOwed, queue, deadLetters>>

-----------------------------------------------------------------------------
(* Rows and local state *)

JobStatus == {"none", "scheduled", "queued", "processing", "failed",
              "completed", "dead", "deleted"}

Active == {"scheduled", "queued", "processing", "failed"}

MonitorRow == [status: {"absent", "active", "disabled", "deleted"},
               config: Nat, due: BOOLEAN]

JobRow == [status: JobStatus, kind: {"scheduled", "manual"}, attempt: Nat,
           lease: {"none", "live", "expired"}, available: BOOLEAN,
           publicationToken: Nat, leaseToken: Nat]

PublicationClaim == [job: Jobs, attempt: Nat, token: Nat]

NoClaim == [job |-> NoJob, attempt |-> 0, token |-> 0]

SchedulerState == [pc: {"idle", "pinged", "publish", "published", "failed"},
                   batch: SUBSET PublicationClaim,
                   claim: PublicationClaim \cup {NoClaim}]

\* owned: the delivery tag is still valid, so the broker will hand the message
\* to nobody else until this worker settles it.
WorkerState == [pc: {"idle", "received", "looked_up", "leased", "failing",
                     "ack", "nack", "requeue"},
                job: Jobs \cup {NoJob}, attempt: Nat, owned: BOOLEAN,
                config: Nat, token: Nat]

Result == [job: Jobs, token: Nat, checked: Nat, current: Nat]

IdleScheduler == [pc |-> "idle", batch |-> {}, claim |-> NoClaim]

IdleWorker == [pc |-> "idle", job |-> NoJob, attempt |-> 0, owned |-> FALSE,
               config |-> 0, token |-> 0]

Exists(m) == monitor[m].status \in {"active", "disabled"}

Init ==
  /\ monitor = [m \in Monitors |-> [status |-> "absent", config |-> 0, due |-> FALSE]]
  /\ job = [j \in Jobs |-> [status |-> "none", kind |-> "scheduled", attempt |-> 0,
                            lease |-> "none", available |-> FALSE,
                            publicationToken |-> 0, leaseToken |-> 0]]
  /\ results = {}
  /\ tokens = 0
  /\ topology = "present"
  /\ recoveriesOwed = 0
  /\ queue = [j \in Jobs |-> [a \in 1..MaxAttempts |-> 0]]
  /\ deadLetters = {}
  /\ scheduler = [s \in Schedulers |-> IdleScheduler]
  /\ worker = [w \in Workers |-> IdleWorker]
  /\ faults = 0

\* A step the environment may take only MaxFaults times.
Fault == faults < MaxFaults /\ faults' = faults + 1
NoFault == faults' = faults

-----------------------------------------------------------------------------
(* The API: monitors and manual checks *)

ActiveJobs(m) == {j \in Jobs : MonitorOf[j] = m /\ job[j].status \in Active}

Revoked(row) == [row EXCEPT !.lease = "none", !.leaseToken = 0]

Killed(row) == [Revoked(row) EXCEPT !.status = "dead"]

Deleted(row) == [Revoked(row) EXCEPT !.status = "deleted"]

Create(m, enabled) ==
  /\ monitor[m].status = "absent"
  /\ monitor' = [monitor EXCEPT ![m] =
        [status |-> IF enabled THEN "active" ELSE "disabled",
         config |-> 0, due |-> TRUE]]
  /\ UNCHANGED <<job, results, tokens, broker, scheduler, worker, faults>>

\* semantics: the URL, the timeout or the expected status changes.
\* interval: the interval changes, and with it the time of the next check.
DueAfterUpdate(m, enabled, semantics, interval) ==
  IF ~enabled THEN {monitor[m].due}
  ELSE IF semantics \/ monitor[m].status = "disabled" THEN {TRUE}
  ELSE IF interval THEN BOOLEAN
  ELSE {monitor[m].due}

\* Mutant: a change of the configuration leaves the jobs alone.
JobsKeptAfterChange(m, enabled, semantics) ==
  [j \in Jobs |-> IF ~enabled /\ j \in ActiveJobs(m) THEN Killed(job[j]) ELSE job[j]]

JobsAfterUpdate(m, enabled, semantics) ==
  [j \in Jobs |-> IF (~enabled \/ semantics) /\ j \in ActiveJobs(m)
                  THEN Killed(job[j]) ELSE job[j]]

Update(m, enabled, semantics, interval) ==
  /\ Exists(m)
  /\ semantics => monitor[m].config < MaxConfig
  /\ \E due \in DueAfterUpdate(m, enabled, semantics, interval) :
       monitor' = [monitor EXCEPT ![m] =
          [status |-> IF enabled THEN "active" ELSE "disabled",
           config |-> IF semantics THEN monitor[m].config + 1 ELSE monitor[m].config,
           due |-> due]]
  /\ job' = JobsAfterUpdate(m, enabled, semantics)
  /\ UNCHANGED <<results, tokens, broker, scheduler, worker, faults>>

\* The foreign keys cascade to the jobs and results of the monitor.
Delete(m) ==
  /\ Exists(m)
  /\ monitor' = [monitor EXCEPT ![m].status = "deleted"]
  /\ job' = [j \in Jobs |-> IF MonitorOf[j] = m /\ job[j].status # "none"
                            THEN Deleted(job[j]) ELSE job[j]]
  /\ results' = {r \in results : MonitorOf[r.job] # m}
  /\ UNCHANGED <<tokens, broker, scheduler, worker, faults>>

\* With an active job the call returns that job and changes nothing.
CreateManualJob(m, j) ==
  /\ Exists(m)
  /\ ActiveJobs(m) = {}
  /\ MonitorOf[j] = m
  /\ job[j].status = "none"
  /\ job' = [job EXCEPT ![j] =
        [@ EXCEPT !.status = "scheduled", !.kind = "manual", !.available = TRUE]]
  /\ UNCHANGED <<monitor, results, tokens, broker, scheduler, worker, faults>>

-----------------------------------------------------------------------------
(* The scheduler: Ping, ClaimDueJobs, then Publish and MarkJobPublished or *)
(* ReleaseJobPublish for each claim of the batch                           *)

Ping(s) ==
  /\ scheduler[s].pc = "idle"
  /\ topology = "present"
  /\ scheduler' = [scheduler EXCEPT ![s].pc = "pinged"]
  /\ UNCHANGED <<store, broker, worker, faults>>

Exhausted(row) ==
  /\ row.attempt >= MaxAttempts
  /\ \/ row.status = "processing" /\ row.lease = "expired"
     \/ row.status = "failed" /\ row.available
     \/ row.status = "scheduled" /\ row.lease = "expired"

\* Mutants: the lease's expiry is not looked at; expired leases are not recovered.
AnyProcessing(row) == row.status = "processing" /\ row.attempt < MaxAttempts

NeverLapses(row) == FALSE

LeaseLapsed(row) ==
  /\ row.status = "processing"
  /\ row.lease = "expired"
  /\ row.attempt < MaxAttempts

\* The two recovery statements at the head of the ClaimDueJobs transaction.
Recovered(row) ==
  IF Exhausted(row) THEN Killed(row)
  ELSE IF LeaseLapsed(row)
       THEN [Revoked(row) EXCEPT !.status = "failed", !.available = TRUE]
       ELSE row

Claimable(row) ==
  /\ row.status \in {"scheduled", "failed"}
  /\ row.available
  /\ row.lease # "live"
  /\ row.attempt < MaxAttempts

\* Monitors whose periodic job the recovery statements killed are rescheduled.
DueAfterRecovery(m) ==
  /\ monitor[m].due
  /\ ~ \E j \in Jobs : /\ MonitorOf[j] = m
                       /\ job[j].kind = "scheduled"
                       /\ Exhausted(job[j])

\* Mutant: the unfinished job of the monitor is not looked for.
DueWithActiveJob(m) == monitor[m].status = "active" /\ DueAfterRecovery(m)

DueMonitor(m) ==
  /\ monitor[m].status = "active"
  /\ DueAfterRecovery(m)
  /\ \A j \in ActiveJobs(m) : Exhausted(job[j])

ClaimedRow(j, batch, fresh) ==
  IF j \in batch
  THEN [Recovered(job[j]) EXCEPT !.status = "scheduled", !.lease = "live",
                                 !.publicationToken = tokens + 1]
  ELSE IF j \in fresh
       THEN [job[j] EXCEPT !.status = "scheduled", !.kind = "scheduled",
                           !.available = TRUE, !.lease = "live",
                           !.publicationToken = tokens + 1]
       ELSE Recovered(job[j])

\* batch: persisted jobs claimed for publication (rows another transaction has
\* locked are skipped, so any claimable jobs); fresh: new periodic jobs.
\* A token string holds the job id, so one number serves the whole batch.
ClaimDueJobs(s, batch, fresh) ==
  /\ scheduler[s].pc = "pinged"
  /\ batch \subseteq {j \in Jobs : Claimable(Recovered(job[j]))}
  /\ fresh \subseteq {j \in Jobs : job[j].status = "none" /\ DueMonitor(MonitorOf[j])}
  /\ \A j, k \in fresh : MonitorOf[j] = MonitorOf[k] => j = k
  /\ Cardinality(batch \cup fresh) <= BatchLimit
  /\ job' = [j \in Jobs |-> ClaimedRow(j, batch, fresh)]
  /\ monitor' = [m \in Monitors |-> [monitor[m] EXCEPT !.due = DueAfterRecovery(m)]]
  /\ tokens' = IF batch \cup fresh = {} THEN tokens ELSE tokens + 1
  /\ scheduler' = [scheduler EXCEPT ![s] =
        [pc |-> IF batch \cup fresh = {} THEN "idle" ELSE "publish",
         batch |-> {[job |-> j, attempt |-> job[j].attempt, token |-> tokens + 1] :
                      j \in batch \cup fresh},
         claim |-> NoClaim]]
  /\ UNCHANGED <<results, broker, worker, faults>>

Enqueued(j, a) == [queue EXCEPT ![j][a] = @ + 1]

\* Publish returns nil: the broker confirmed the message.
PublishConfirmed(s, c) ==
  /\ scheduler[s].pc = "publish"
  /\ c \in scheduler[s].batch
  /\ topology = "present"
  /\ queue' = Enqueued(c.job, c.attempt + 1)
  /\ scheduler' = [scheduler EXCEPT ![s] =
        [pc |-> "published", batch |-> scheduler[s].batch \ {c}, claim |-> c]]
  /\ UNCHANGED <<store, topology, recoveriesOwed, deadLetters, worker, faults>>

\* The broker accepts the message but its confirmation is lost: Publish
\* reconnects and sends the message again.
PublishUnconfirmed(s, c) ==
  /\ scheduler[s].pc = "publish"
  /\ c \in scheduler[s].batch
  /\ topology = "present"
  /\ queue' = Enqueued(c.job, c.attempt + 1)
  /\ Fault
  /\ UNCHANGED <<store, topology, recoveriesOwed, deadLetters, scheduler, worker>>

\* Publish returns an error: its timeout passed without a confirmation.
PublishFailed(s, c) ==
  /\ scheduler[s].pc = "publish"
  /\ c \in scheduler[s].batch
  /\ IF topology = "present" THEN Fault ELSE NoFault
  /\ scheduler' = [scheduler EXCEPT ![s] =
        [pc |-> "failed", batch |-> scheduler[s].batch \ {c}, claim |-> c]]
  /\ UNCHANGED <<store, broker, worker>>

\* The claims a scheduler has in hand.
Claims(s) ==
  scheduler[s].batch \cup
    (IF scheduler[s].pc \in {"published", "failed"} THEN {scheduler[s].claim} ELSE {})

\* Mutant: the publication token is not compared.
OwnsPublicationOfAttempt(c) ==
  /\ job[c.job].status = "scheduled"
  /\ job[c.job].attempt = c.attempt
  /\ job[c.job].lease = "live"

OwnsPublication(c) ==
  /\ job[c.job].status = "scheduled"
  /\ job[c.job].attempt = c.attempt
  /\ job[c.job].publicationToken = c.token
  /\ job[c.job].lease = "live"

\* The loop of enqueueDueMonitorJobs goes on to the next claim of the batch.
NextClaim(s) ==
  scheduler' = [scheduler EXCEPT ![s] =
     [pc |-> IF scheduler[s].batch = {} THEN "idle" ELSE "publish",
      batch |-> scheduler[s].batch, claim |-> NoClaim]]

MarkJobPublished(s) ==
  /\ scheduler[s].pc = "published"
  /\ LET c == scheduler[s].claim IN
       job' = IF OwnsPublication(c)
              THEN [job EXCEPT ![c.job] = [@ EXCEPT !.status = "queued", !.lease = "none"]]
              ELSE job
  /\ NextClaim(s)
  /\ UNCHANGED <<monitor, results, tokens, broker, worker, faults>>

ReleaseJobPublish(s) ==
  /\ scheduler[s].pc = "failed"
  /\ LET c == scheduler[s].claim IN
       job' = IF OwnsPublication(c)
              THEN [job EXCEPT ![c.job] = [@ EXCEPT !.lease = "none", !.publicationToken = 0]]
              ELSE job
  /\ NextClaim(s)
  /\ UNCHANGED <<monitor, results, tokens, broker, worker, faults>>

\* MarkJobPublished or ReleaseJobPublish fails: it is logged, not retried.
PublicationWriteFails(s) ==
  /\ scheduler[s].pc \in {"published", "failed"}
  /\ Fault
  /\ NextClaim(s)
  /\ UNCHANGED <<store, broker, worker>>

\* The process stops, ClaimDueJobs fails, or it commits and its reply is lost.
SchedulerCrash(s) ==
  /\ scheduler[s].pc # "idle"
  /\ Fault
  /\ scheduler' = [scheduler EXCEPT ![s] = IdleScheduler]
  /\ UNCHANGED <<store, broker, worker>>

-----------------------------------------------------------------------------
(* The worker: one delivery from receipt to settlement *)

Receive(w, j, a) ==
  /\ worker[w].pc = "idle"
  /\ queue[j][a] > 0
  /\ queue' = [queue EXCEPT ![j][a] = @ - 1]
  /\ worker' = [worker EXCEPT ![w] =
        [pc |-> "received", job |-> j, attempt |-> a, owned |-> TRUE, config |-> 0,
         token |-> 0]]
  /\ UNCHANGED <<store, topology, recoveriesOwed, deadLetters, scheduler, faults>>

At(w, pc) == worker[w].pc = pc
Goto(w, pc) == worker' = [worker EXCEPT ![w].pc = pc]

GetMonitor(w) ==
  LET m == MonitorOf[worker[w].job] IN
  /\ At(w, "received")
  /\ \/ /\ Exists(m)
        /\ worker' = [worker EXCEPT ![w] =
              [@ EXCEPT !.pc = "looked_up", !.config = monitor[m].config]]
        /\ NoFault
     \/ /\ ~Exists(m)
        /\ Goto(w, "ack")
        /\ NoFault
     \/ /\ Goto(w, "requeue")
        /\ Fault
  /\ UNCHANGED <<store, broker, scheduler>>

\* Mutant: the attempt need not be new.
MayProcessAgain(w) ==
  /\ job[worker[w].job].status \in {"scheduled", "queued"}
  /\ worker[w].attempt >= job[worker[w].job].attempt

MayProcess(w) ==
  /\ job[worker[w].job].status \in {"scheduled", "queued"}
  /\ worker[w].attempt > job[worker[w].job].attempt

ProcessingJob(w) ==
  [job EXCEPT ![worker[w].job] =
     [@ EXCEPT !.status = "processing", !.attempt = worker[w].attempt,
               !.lease = "live", !.leaseToken = tokens + 1]]

MarkJobProcessing(w) ==
  /\ At(w, "looked_up")
  /\ MayProcess(w)
  /\ job' = ProcessingJob(w)
  /\ tokens' = tokens + 1
  /\ \/ /\ worker' = [worker EXCEPT ![w] =
              [@ EXCEPT !.pc = "leased", !.token = tokens + 1]]
        /\ NoFault
     \/ /\ Goto(w, "requeue")     \* committed, but the reply is lost
        /\ Fault
  /\ UNCHANGED <<monitor, results, broker, scheduler>>

\* Mutant: a row that is gone is reported like a failure of the database.
GoneRowRequeued(w) ==
  /\ At(w, "looked_up")
  /\ \/ /\ ~MayProcess(w)
        /\ Goto(w, IF job[worker[w].job].status = "deleted" THEN "requeue" ELSE "ack")
        /\ NoFault
     \/ /\ Goto(w, "requeue")
        /\ Fault
  /\ UNCHANGED <<store, broker, scheduler>>

\* ErrStaleJob, ErrJobAlreadyProcessing and ErrMonitorNotFound are acknowledged;
\* any other error requeues the delivery.
MarkJobProcessingRefused(w) ==
  /\ At(w, "looked_up")
  /\ \/ /\ ~MayProcess(w)
        /\ Goto(w, "ack")
        /\ NoFault
     \/ /\ Goto(w, "requeue")
        /\ Fault
  /\ UNCHANGED <<store, broker, scheduler>>

\* Mutant: any live lease will do.
OwnsAnyLease(w) == job[worker[w].job].status = "processing" /\ job[worker[w].job].lease = "live"

OwnsLease(w) ==
  /\ job[worker[w].job].status = "processing"
  /\ job[worker[w].job].attempt = worker[w].attempt
  /\ job[worker[w].job].leaseToken = worker[w].token
  /\ job[worker[w].job].lease = "live"

HasResult(j) == \E r \in results : r.job = j

\* Completing or burying a periodic job moves next_check_at into the future.
Rescheduled(j) ==
  [monitor EXCEPT ![MonitorOf[j]].due = IF job[j].kind = "scheduled" THEN FALSE ELSE @]

Completed(row) == [Revoked(row) EXCEPT !.status = "completed"]

\* The result, the monitor's next check and the completed job commit together.
AddCheck(w) ==
  LET j == worker[w].job IN
  /\ At(w, "leased")
  /\ OwnsLease(w)
  /\ ~HasResult(j)
  /\ job' = [job EXCEPT ![j] = Completed(@)]
  /\ results' = results \cup
       {[job |-> j, token |-> worker[w].token, checked |-> worker[w].config,
         current |-> monitor[MonitorOf[j]].config]}
  /\ monitor' = Rescheduled(j)
  /\ \/ Goto(w, "ack") /\ NoFault
     \/ Goto(w, "failing") /\ Fault     \* committed, but the reply is lost
  /\ UNCHANGED <<tokens, broker, scheduler>>

\* ErrDuplicateJob counts as stored; every other error starts the retry path.
AddCheckRefused(w) ==
  LET j == worker[w].job
      duplicate == job[j].status = "completed" \/ (OwnsLease(w) /\ HasResult(j)) IN
  /\ At(w, "leased")
  /\ \/ duplicate /\ Goto(w, "ack") /\ NoFault
     \/ ~duplicate /\ ~OwnsLease(w) /\ Goto(w, "failing") /\ NoFault
     \/ Goto(w, "failing") /\ Fault
  /\ UNCHANGED <<store, broker, scheduler>>

Retryable(w) == worker[w].attempt < MaxAttempts

Postponed(row) == [Revoked(row) EXCEPT !.status = "failed", !.available = FALSE]

\* Retried until it commits or the lease turns out to be gone.
MarkJobFailed(w) ==
  /\ At(w, "failing")
  /\ Retryable(w)
  /\ \/ /\ OwnsLease(w)
        /\ job' = [job EXCEPT ![worker[w].job] = Postponed(@)]
        /\ \/ Goto(w, "ack") /\ NoFault
           \/ UNCHANGED worker /\ Fault
     \/ ~OwnsLease(w) /\ Goto(w, "ack") /\ UNCHANGED job /\ NoFault
  /\ UNCHANGED <<monitor, results, tokens, broker, scheduler>>

\* Mutant: a worker that has lost its lease dead-letters the message.
MarkJobDeadAlways(w) ==
  /\ At(w, "failing")
  /\ ~Retryable(w)
  /\ job' = IF OwnsLease(w) THEN [job EXCEPT ![worker[w].job] = Killed(@)] ELSE job
  /\ monitor' = IF OwnsLease(w) THEN Rescheduled(worker[w].job) ELSE monitor
  /\ Goto(w, "nack")
  /\ NoFault
  /\ UNCHANGED <<results, tokens, broker, scheduler>>

MarkJobDead(w) ==
  /\ At(w, "failing")
  /\ ~Retryable(w)
  /\ \/ /\ OwnsLease(w)
        /\ job' = [job EXCEPT ![worker[w].job] = Killed(@)]
        /\ monitor' = Rescheduled(worker[w].job)
        /\ \/ Goto(w, "nack") /\ NoFault
           \/ UNCHANGED worker /\ Fault
     \/ ~OwnsLease(w) /\ Goto(w, "ack") /\ UNCHANGED <<monitor, job>> /\ NoFault
  /\ UNCHANGED <<results, tokens, broker, scheduler>>

\* Mutant: the delivery is forgotten before the worker is idle.
Forget(w) == worker' = [worker EXCEPT ![w] = [IdleWorker EXCEPT !.pc = "ack"]]

Finish(w) == worker' = [worker EXCEPT ![w] = IdleWorker]

\* The message goes back to the main queue, unless the broker already took it
\* back when the connection of its delivery tag was lost.
Redelivered(w) ==
  IF worker[w].owned THEN Enqueued(worker[w].job, worker[w].attempt) ELSE queue

Ack(w) ==
  /\ At(w, "ack")
  /\ Finish(w)
  /\ UNCHANGED <<store, broker, scheduler, faults>>

\* deadLetter: Ping, then reject without requeue; a failed Ping requeues.
Nack(w) ==
  /\ At(w, "nack")
  /\ Finish(w)
  /\ \/ /\ deadLetters' = IF worker[w].owned THEN deadLetters \cup {worker[w].job}
                                             ELSE deadLetters
        /\ UNCHANGED queue
        /\ NoFault
     \/ /\ queue' = Redelivered(w)
        /\ UNCHANGED deadLetters
        /\ Fault
  /\ UNCHANGED <<store, topology, recoveriesOwed, scheduler>>

Requeue(w) ==
  /\ At(w, "requeue")
  /\ Finish(w)
  /\ queue' = Redelivered(w)
  /\ UNCHANGED <<store, topology, recoveriesOwed, deadLetters, scheduler, faults>>

WorkerCrash(w) ==
  /\ ~At(w, "idle")
  /\ Fault
  /\ Finish(w)
  /\ queue' = Redelivered(w)
  /\ UNCHANGED <<store, topology, recoveriesOwed, deadLetters, scheduler>>

\* The broker redelivers the message while the worker still handles it.
ConnectionLost(w) ==
  /\ ~At(w, "idle")
  /\ worker[w].owned
  /\ Fault
  /\ queue' = Redelivered(w)
  /\ worker' = [worker EXCEPT ![w].owned = FALSE]
  /\ UNCHANGED <<store, topology, recoveriesOwed, deadLetters, scheduler>>

-----------------------------------------------------------------------------
(* Loss of the main queue and its recovery *)

\* Somebody deletes the queue: its messages and delivery tags are gone.
LoseQueue ==
  /\ topology = "present"
  /\ Fault
  /\ topology' = "missing"
  /\ queue' = [j \in Jobs |-> [a \in 1..MaxAttempts |-> 0]]
  /\ worker' = [w \in Workers |-> [worker[w] EXCEPT !.owned = FALSE]]
  /\ UNCHANGED <<store, recoveriesOwed, deadLetters, scheduler>>

\* Mutant: rows not yet marked as published are left out.
OnlyQueuedReturned(row) ==
  IF row.status = "queued"
  THEN [row EXCEPT !.status = "failed", !.available = TRUE, !.publicationToken = 0]
  ELSE row

ReturnedToPublish(row) ==
  IF row.status \in {"scheduled", "queued"}
  THEN [Revoked(row) EXCEPT !.status = "failed", !.available = TRUE,
                            !.publicationToken = 0]
  ELSE row

RecoverQueuedJobsAfterTopologyLoss == job' = [j \in Jobs |-> ReturnedToPublish(job[j])]

\* A process that finds the queue missing, and holds the recovery lock, recovers
\* the jobs before it declares the queue.  It may be one that owed a recovery.
RepairTopology ==
  /\ topology # "present"
  /\ RecoverQueuedJobsAfterTopologyLoss
  /\ topology' = "recovered"
  /\ \/ UNCHANGED recoveriesOwed
     \/ recoveriesOwed > 0 /\ recoveriesOwed' = recoveriesOwed - 1
  /\ UNCHANGED <<monitor, results, tokens, queue, deadLetters, scheduler, worker, faults>>

\* The handler fails, with or without having committed: the loss stays recorded.
RecoveryFails ==
  /\ topology # "present"
  /\ Fault
  /\ UNCHANGED job \/ RecoverQueuedJobsAfterTopologyLoss
  /\ recoveriesOwed' = recoveriesOwed + 1
  /\ UNCHANGED <<monitor, results, tokens, topology, queue, deadLetters, scheduler, worker>>

\* Before its next publish such a process recovers again, although another may
\* have restored the queue and refilled it in the meantime.
RecoverDetectedTopologyLoss ==
  /\ recoveriesOwed > 0
  /\ RecoverQueuedJobsAfterTopologyLoss
  /\ recoveriesOwed' = recoveriesOwed - 1
  /\ UNCHANGED <<monitor, results, tokens, topology, queue, deadLetters, scheduler, worker,
                 faults>>

DeclareTopology ==
  /\ topology = "recovered"
  /\ topology' = "present"
  /\ UNCHANGED <<store, recoveriesOwed, queue, deadLetters, scheduler, worker, faults>>

-----------------------------------------------------------------------------
(* Time *)

\* Someone still works under the lease of job j.
Held(j) ==
  \/ \E s \in Schedulers : \E c \in Claims(s) : c.job = j /\ OwnsPublication(c)
  \/ \E w \in Workers : worker[w].job = j /\ OwnsLease(w)

\* Leases outlast the work they cover (minimumCheckLeaseTimeout), so a lease
\* that runs out under its holder is a fault.
ExpireLease(j) ==
  /\ job[j].lease = "live"
  /\ job' = [job EXCEPT ![j].lease = "expired"]
  /\ IF Held(j) THEN Fault ELSE NoFault
  /\ UNCHANGED <<monitor, results, tokens, broker, scheduler, worker>>

BecomeAvailable(j) ==
  /\ job[j].status = "failed"
  /\ ~job[j].available
  /\ job' = [job EXCEPT ![j].available = TRUE]
  /\ UNCHANGED <<monitor, results, tokens, broker, scheduler, worker, faults>>

BecomeDue(m) ==
  /\ Exists(m)
  /\ ~monitor[m].due
  /\ monitor' = [monitor EXCEPT ![m].due = TRUE]
  /\ UNCHANGED <<job, results, tokens, broker, scheduler, worker, faults>>

-----------------------------------------------------------------------------
(* The specification *)

ApiStep ==
  \E m \in Monitors :
    \/ \E enabled \in BOOLEAN : Create(m, enabled)
    \/ \E enabled, semantics, interval \in BOOLEAN : Update(m, enabled, semantics, interval)
    \/ Delete(m)
    \/ \E j \in Jobs : CreateManualJob(m, j)

SchedulerStep(s) ==
  \/ Ping(s)
  \/ \E batch, fresh \in SUBSET Jobs : ClaimDueJobs(s, batch, fresh)
  \/ \E c \in scheduler[s].batch :
       PublishConfirmed(s, c) \/ PublishUnconfirmed(s, c) \/ PublishFailed(s, c)
  \/ MarkJobPublished(s)
  \/ ReleaseJobPublish(s)
  \/ PublicationWriteFails(s)
  \/ SchedulerCrash(s)

WorkerStep(w) ==
  \/ \E j \in Jobs, a \in 1..MaxAttempts : Receive(w, j, a)
  \/ GetMonitor(w)
  \/ MarkJobProcessing(w)
  \/ MarkJobProcessingRefused(w)
  \/ AddCheck(w)
  \/ AddCheckRefused(w)
  \/ MarkJobFailed(w)
  \/ MarkJobDead(w)
  \/ Ack(w)
  \/ Nack(w)
  \/ Requeue(w)
  \/ WorkerCrash(w)
  \/ ConnectionLost(w)

TopologyStep ==
  \/ LoseQueue
  \/ RepairTopology
  \/ RecoveryFails
  \/ RecoverDetectedTopologyLoss
  \/ DeclareTopology

TimeStep ==
  \/ \E j \in Jobs : ExpireLease(j) \/ BecomeAvailable(j)
  \/ \E m \in Monitors : BecomeDue(m)

Next ==
  \/ ApiStep
  \/ \E s \in Schedulers : SchedulerStep(s)
  \/ \E w \in Workers : WorkerStep(w)
  \/ TopologyStep
  \/ TimeStep

Spec == Init /\ [][Next]_vars

\* Goroutines run on, time passes, and the scheduler ticks again after every
\* pass.  ClaimDueJobs orders by available_at, so a job that stays claimable is
\* claimed some time; that needs strong fairness because a pass may skip a row
\* that another transaction has locked.  Nothing is assumed about the API, about
\* faults, or about a lease running out under its holder.
Fairness ==
  /\ \A s \in Schedulers :
       /\ WF_vars(Ping(s) \/ MarkJobPublished(s) \/ ReleaseJobPublish(s))
       /\ WF_vars(\E batch, fresh \in SUBSET Jobs : ClaimDueJobs(s, batch, fresh))
       /\ WF_vars(\E c \in scheduler[s].batch : PublishConfirmed(s, c))
       /\ \A j \in Jobs : SF_vars(\E batch, fresh \in SUBSET Jobs :
                                    j \in batch /\ ClaimDueJobs(s, batch, fresh))
  /\ \A w \in Workers :
       /\ WF_vars(\E j \in Jobs, a \in 1..MaxAttempts : Receive(w, j, a))
       /\ WF_vars(\/ GetMonitor(w) \/ MarkJobProcessing(w) \/ MarkJobProcessingRefused(w)
                  \/ AddCheck(w) \/ AddCheckRefused(w) \/ MarkJobFailed(w)
                  \/ MarkJobDead(w) \/ Ack(w) \/ Nack(w) \/ Requeue(w))
  /\ WF_vars(topology = "missing" /\ RepairTopology)
  /\ WF_vars(DeclareTopology)
  /\ \A j \in Jobs : WF_vars(~Held(j) /\ ExpireLease(j)) /\ WF_vars(BecomeAvailable(j))

FairSpec == Spec /\ Fairness

-----------------------------------------------------------------------------
(* Properties *)

TypeOK ==
  /\ monitor \in [Monitors -> MonitorRow]
  /\ job \in [Jobs -> JobRow]
  /\ results \subseteq Result
  /\ tokens \in Nat
  /\ topology \in {"present", "missing", "recovered"}
  /\ recoveriesOwed \in Nat
  /\ queue \in [Jobs -> [1..MaxAttempts -> Nat]]
  /\ deadLetters \subseteq Jobs
  /\ scheduler \in [Schedulers -> SchedulerState]
  /\ worker \in [Workers -> WorkerState]
  /\ \A w \in Workers : worker[w].pc # "idle" =>
       worker[w].job \in Jobs /\ worker[w].attempt \in 1..MaxAttempts
  /\ faults \in Nat

\* Attempt a of job j is in the main queue, or with a worker that has not yet
\* asked for the job and whose delivery the broker will take back.
InTransit(j, a) ==
  \/ a \in 1..MaxAttempts /\ queue[j][a] > 0
  \/ \E w \in Workers : /\ worker[w].pc \in {"received", "looked_up", "requeue"}
                        /\ worker[w].owned
                        /\ worker[w].job = j
                        /\ worker[w].attempt = a

\* A queued job has no lease and is never replayed by elapsed time, so while the
\* main queue exists its next attempt must be in transit, or it is stuck for ever.
NoLostQueuedJob ==
  topology = "present" =>
    \A j \in Jobs : job[j].status = "queued" => InTransit(j, job[j].attempt + 1)

\* However often a claim is repeated, at most one scheduler may record the
\* outcome of a publication.
ExclusivePublication ==
  \A s, t \in Schedulers : \A c \in Claims(s), d \in Claims(t) :
    OwnsPublication(c) /\ OwnsPublication(d) /\ c.job = d.job => s = t

Holds(w) == worker[w].pc \in {"leased", "failing"} /\ OwnsLease(w)

\* However often a job is redelivered, republished or recovered, at most one
\* worker may write its outcome.
ExclusiveLease ==
  \A v, w \in Workers : Holds(v) /\ Holds(w) /\ worker[v].job = worker[w].job => v = w

\* A job has a result exactly when it is completed, and never two: AddCheck
\* commits both or neither, and a completed job accepts no other result.
OneResultPerCompletedJob ==
  /\ \A q, r \in results : q.job = r.job => q = r
  /\ \A j \in Jobs : job[j].status = "completed" <=> HasResult(j)

\* A stored result was measured with the URL, timeout and expected status the
\* monitor has when the result is stored, although the worker reads the monitor
\* before it takes the lease.
ResultUnderCurrentConfig == \A r \in results : r.checked = r.current

\* A monitor has at most one unfinished job, and a disabled monitor has no
\* unfinished periodic job.
OneActiveJobPerMonitor ==
  \A j, k \in Jobs :
    /\ job[j].status \in Active /\ job[k].status \in Active /\ MonitorOf[j] = MonitorOf[k] => j = k
    /\ job[j].status \in Active /\ job[j].kind = "scheduled" => monitor[MonitorOf[j]].status = "active"

\* Only jobs that are finished for good are dead-lettered.
DeadLettersAreFinal == \A j \in deadLetters : job[j].status \in {"dead", "deleted"}

\* While a processing lease is live nobody but its holder ends the processing,
\* unless the monitor is changed, disabled or deleted through the API.
LiveLeaseProtected ==
  [][\A j \in Jobs :
       job[j].status = "processing" /\ job[j].lease = "live" /\ job'[j].status # "processing" =>
         \/ \E w \in Workers : Holds(w) /\ worker[w].job = j
         \/ monitor'[MonitorOf[j]].status # "active"
         \/ monitor'[MonitorOf[j]].config # monitor[MonitorOf[j]].config]_vars

\* Every job is settled in the end: faults are finite, every lease runs out,
\* and the attempts are bounded.  This is what NoLostQueuedJob is for.
JobsSettle == \A j \in Jobs : job[j].status \in Active ~> job[j].status \notin Active

-----------------------------------------------------------------------------
(* The parts of the inductive invariant the proofs rest on *)

\* An unfinished job has its monitor: deleting the monitor deletes the job.
MonitorInv == \A j \in Jobs : job[j].status \in Active => Exists(MonitorOf[j])

\* A claim carries a token that was handed out, for a job that was created, at an
\* attempt that may be followed by another.
ClaimsInv ==
  /\ \A j \in Jobs : job[j].status = "none" => job[j].attempt = 0
  /\ \A s \in Schedulers : \A c \in Claims(s) :
       /\ c \in PublicationClaim
       /\ c.attempt < MaxAttempts
       /\ c.token \in 1..tokens
       /\ job[c.job].status # "none"

\* Scheduler s has a confirmed publication of job j, and may still mark it queued.
Confirmed(s, j) ==
  /\ scheduler[s].pc = "published"
  /\ scheduler[s].claim.job = j
  /\ job[j].status = "scheduled"
  /\ job[j].attempt = scheduler[s].claim.attempt
  /\ job[j].publicationToken = scheduler[s].claim.token

\* The database counts, or is about to count, on a message for the next attempt.
Promised(j) == job[j].status = "queued" \/ \E s \in Schedulers : Confirmed(s, j)

\* A promised message is in transit, and recovery leaves no promise whose message
\* was lost with the queue.
TransitInv ==
  /\ topology = "present" => \A j \in Jobs : Promised(j) => InTransit(j, job[j].attempt + 1)
  /\ topology = "recovered" => \A j \in Jobs : ~Promised(j)

\* What is in the queue or with a worker has been created.
ReferencesInv ==
  /\ \A j \in Jobs, a \in 1..MaxAttempts : queue[j][a] > 0 => job[j].status # "none"
  /\ \A w \in Workers : worker[w].pc # "idle" => job[worker[w].job].status # "none"

\* Processing tokens are handed out once, so they tell the workers apart.
LeaseTokensInv ==
  /\ \A w \in Workers :
       /\ worker[w].token \in 0..tokens
       /\ worker[w].pc \in {"leased", "failing"} => worker[w].token > 0
  /\ \A v, w \in Workers : v # w /\ worker[v].token > 0 => worker[v].token # worker[w].token

\* A worker that has read the monitor of a still unfinished job has read the
\* configuration the monitor has now.
FreshConfigInv ==
  \A w \in Workers :
    /\ worker[w].pc \in {"looked_up", "leased", "failing"}
    /\ job[worker[w].job].status \in Active
    => worker[w].config = monitor[MonitorOf[worker[w].job]].config
=============================================================================
