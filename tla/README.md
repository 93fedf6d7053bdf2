# TLA+ models of site-checker

site-checker measures HTTP monitors periodically and on demand. One binary runs
four roles (`APP_ROLE`): the API, the scheduler, the worker and the alert
dispatcher. PostgreSQL holds the state and RabbitMQ carries job messages between
the scheduler and the workers; in local mode an in-memory store and an in-memory
queue take their places. This directory holds TLA+ models of the code in `src/`,
the TLC configurations that check them on small instances, and TLAPS proofs of the
properties that matter most.

`PROJECT.json` maps every definition to the lines it models, lists the runs with
their properties, one mutation of the code per property that the run detects, the
disagreements found between the code and its documentation, and the hazards the
properties are aimed at.

## 1. The system

| Part | State | Operations | Module |
| --- | --- | --- | --- |
| Monitors (`api.go`, `service.go`, `postgres_repository.go`) | configuration, enabled, `next_check_at` | Create, Update, Delete, QueueManualCheck | `CheckJobs`, `MonitorStore` |
| Check jobs (`postgres_repository.go`) | `check_jobs`, `check_results` | ClaimDueJobs, MarkJobPublished, ReleaseJobPublish, MarkJobProcessing, AddCheck, MarkJobFailed, MarkJobDead, RecoverQueuedJobsAfterTopologyLoss | `CheckJobs` |
| Scheduler (`runtime.go`) | the batch it has claimed | Ping, claim, publish and record each claim | `CheckJobs`, `MemoryPipeline` |
| Workers (`runtime.go`) | the delivery in hand, its lease | look up, lease, check, store, or fail / bury; ack, nack, requeue | `CheckJobs`, `MemoryPipeline` |
| RabbitMQ client (`queue.go`) | connection, publish session, consumer session | Publish with confirmation, Consume, Ping, reconnect, Close | `RabbitSession` |
| Topology recovery (`queue.go`) | loss and recovery generations, handler, recovery lock | passive check, lock, record loss, recover, declare | `TopologyRecovery` |
| In-memory queue (`queue.go`) | buffer, `seen` ids, dead letters, closed | Publish, Consume, settle, Close | `InMemoryQueue` |
| In-memory store (`monitor.go`) | the tables as maps, indexes, retention lists | the repository interface | `MonitorStore` |
| Incidents and outbox (`postgres_repository.go`) | `incidents`, `alert_outbox` | upsertIncidentAndAlert, ClaimAlerts, MarkAlertDelivered, MarkAlertFailed | `AlertOutbox` |
| Alert dispatcher (`alert.go`) | the claimed batch | claim, send concurrently, record | `AlertOutbox`, `AlertDelivery` |
| Retention (`postgres_retention.go`, `retention.go`) | none of its own | DeleteExpiredData | `CheckJobsRetention`, `AlertOutbox` |
| Retry delays (`runtime.go`, `queue.go`, `alert.go`) | failure counters | delay computations | `Backoff` |
| Application lifecycle (`app.go`, `runtime.go`) | running components, fatal errors | start, drain, stop | `Application` |

What makes the pipeline hard is that the broker delivers at least once and the
database is the authority: a message can be duplicated, redelivered while its
first receiver still works, or lost with its queue; any process can stop between
two calls; a call can commit while its reply is lost; and a lease can run out under
a holder that does not know it. The code answers with fencing: a publication token
per claim, a processing lease token per attempt, attempts that only grow, and a
recovery that revokes claims before a lost queue is declared again.

## 2. Modules

| Module | Role |
| --- | --- |
| `JobLifecycle` | abstract: what either pipeline promises for one job |
| `CheckJobs` | jobs, monitors, schedulers, workers, main queue, queue loss |
| `CheckJobsRefinement` | the mapping of `CheckJobs` to `JobLifecycle` |
| `CheckJobsRetention` | the same with the retention pass beside it |
| `TopologyRecovery` | the loss and recovery of the main queue, request by request |
| `RabbitSession` | one RabbitMQ client: connection, publish session, confirmations |
| `InMemoryQueue`, `MonitorStore` | the in-memory queue and store, each alone |
| `MemoryPipeline` | both composed with the scheduler and the workers; maps to `JobLifecycle` |
| `AlertOutbox` | incidents, outbox, dispatchers, their part of retention |
| `Backoff`, `AlertDelivery` | retry delays on integers of fixed width; the outbox with them |
| `Application` | one process from running to exit |
| `MC*` | instances for TLC: symmetry and bounds |
| `*Proofs` | theorems (section 4) |

### JobLifecycle

A job waits, runs attempts one at a time and at most `MaxAttempts` of them, and ends
completed with one recorded result, or dead, or removed. One step may move several
jobs, each by a move of its own, because a transaction of the code may. The phase of
a job is read off its status; a retention pass is a removal. Two specifications
implement it: `CheckJobs` with retention, and `MemoryPipeline`.

### CheckJobs

`monitor`, `job` and `results` are the tables; `queue` counts the copies of each
message (job and attempt) in the main queue; `deadLetters` is the dead-letter
queue; `scheduler` and `worker` are the local states of the goroutines. Every
database call is one step, because the code runs it as one statement or one
transaction that locks the rows it decides on. Between two calls of a goroutine
anything else may happen, so `enqueueDueMonitorJobs` and
`handleQueueDeliveryWithBackoff` are one action per call, linked by `pc`.

| Worker `pc` | Where the code is |
| --- | --- |
| `received` | before `service.Get` |
| `looked_up` | before `MarkProcessing`; the configuration has been read |
| `leased` | checking, then `StoreCheckResult` |
| `failing` | inside `retryJobStateTransition` |
| `ack`, `nack`, `requeue` | before the settlement of the delivery |

`AddCheck`, `Update` and `Delete` also write incidents and the outbox in the same
transactions. `CheckJobs` is their projection on monitors, jobs and results,
`AlertOutbox` the one on incidents and alerts. The jobs do not depend on incidents;
in the other direction, `AlertOutbox` lets the checks of an existing monitor be
stored in any order, which includes every order the job fencing allows.

Abstractions:

- Time. A lease is `none`, `live` or `expired`, a job is available or not, a
  monitor is due or not. The clock is three actions that turn these over.
- Configuration. The URL, timeout and expected status of a monitor are a version
  number; a worker remembers the version it has read.
- Tokens. `newID` hands out numbers. A claim's token string contains the job id,
  so one number serves a whole batch.
- `SKIP LOCKED`. A claim takes any subset of the claimable jobs, within the limit.
- Batch order. The claims of a batch are published in any order.
- Deliveries. `owned` says that the delivery tag is still valid. When a connection
  is lost the broker takes the message back at once while the worker goes on; a
  settlement with an invalid tag has no effect.
- Queue loss. A process finds the queue missing, recovers the jobs, and declares
  the queue again. `recovered` is the state between the two. A process whose
  handler fails remembers the loss (`recoveriesOwed`) and recovers before a later
  publish, when another may have restored the queue already. That a loss is noticed
  before the queue is declared again is what `TopologyRecovery` examines.
- Job ids are used once. The code derives the id of a periodic job from
  `next_check_at`, which every completion or burial moves on.

Faults (a crash, a lost reply, a failed call, a lost connection, a publish
without confirmation, a deleted queue, a lease that runs out under its holder) are
counted by `faults` and limited by `MaxFaults`. A lease nobody holds expires freely.
`minimumCheckLeaseTimeout` (`config.go:309`) budgets one check or one publish. The
publication leases of a batch all start at the claim, so the later ones of a slow
batch may run out before their turn; in the model this is a fault like any other.

`CheckJobsRetention` adds `DeleteExpiredData` on results and settled jobs. Any such
row may be old enough at any time, so the pass may delete a job whose message is
still in the queue or with a worker. `SettledDeliveriesDrain` is about what happens to
those messages: they are acknowledged or dead-lettered, not requeued for ever.

### TopologyRecovery

A client is a `RabbitMQQueue` with one repair at a time. A process repairs a new
connection under `reconnectGate`, but the repair that `consumeSession` makes through
`openTopologyChannel` (`queue.go:762`, `queue.go:939`) takes no gate and may overlap it.
Two such repairs are two clients in the model: they meet at the broker, at its recovery
lock, like repairs of two processes. The generation counters they share can only spare
one of them a handler the other has run since. `repair[c]` follows
`repairTopologyOnConnectionUnbounded` through its requests: passive check, exclusive
lock queue, second check, recorded loss, handler, declaration. `owed[c]` is the
difference of the two generation counters, `recovery[c]` the run of
`recoverDetectedTopologyLoss` behind `topologyRecoveryMu`, entered by the repair, by
`Publish` and by `Ping`; it keeps the generation read before the handler ran, since a
later loss is not covered by it. `job` has only what recovery and publication write.
`RecoveredBeforeDeclared` is the step `CheckJobs` takes for granted. The queue may
be deleted at any moment except, with `DeletionsInWindow = FALSE`, between a check
and the declaration that relies on it; the run `topology_window` lifts this.

### RabbitSession

`link` has one entry per connection dialled; `current` is `q.conn` with its publish
session. `user` is where the publisher, the consumer and a prober are in reconnecting
(behind `reconnectGate`), `call` where `Publish` is: sent, waiting for a confirmation or a
return, retrying. The prober is `Ping`, called by readiness requests, by the scheduler
and before dead-lettering: it reconnects like the others, and when its context ends it
invalidates the connection the others are using. A confirmation carries no job id, so the model lets `Publish` take
the next one of its session, which is right only if an abandoned publication never
leaves one behind. The broker accepts, rejects or returns a message, answers late or
not at all; connections and channels break; dials and repairs fail; `Close` comes at
any moment.

### InMemoryQueue, MonitorStore, MemoryPipeline

`InMemoryQueue` is the buffered channel, the `seen` set, the goroutine of `Consume`
and the callbacks of a delivery. `Publish` is two critical sections and a settlement
whose enqueue fails is two as well, so they are separate steps.

`MonitorStore` has every method that writes, as one step under the store's mutex:
the maps, the three indexes kept beside them, and the order lists that bound what is
retained. The list head and its compaction are modelled, because the bound is about
them. The callers may present any claim or lease at any time.

`MemoryPipeline` composes both with the scheduler and the workers, which present the
claims and leases they were given. Nothing survives the process, so there are no
crashes; the fault is a lease that runs out under its holder. A token handed out is the
first one that is in no row and in nobody's hands (`NewTokens`).

### AlertOutbox, AlertDelivery, Backoff

`incident` and `alert` are the tables; an event is identified by its idempotency
key, the incident and the failure it reports. `task[d]` holds the `dispatchAlert`
goroutines of dispatcher `d`: what each was handed by `ClaimAlerts` and what `Send`
returned. `sent`, `accepted` and `cooldowns` are history: the calls of `client.Do` per
attempt, the events the webhook has accepted, how often a cooldown has passed. What the
webhook receives is not counted: within one call `net/http` may repeat a request that
carries an `Idempotency-Key` when a reused connection fails.

| Action | Code |
| --- | --- |
| `UpsertIncidentAndAlert`, `ResolveIncident` | `upsertIncidentAndAlert` of `AddCheck`; the incident part of `Update` |
| `DeleteMonitor` | `Delete`, with the cascades of the schema |
| `ClaimAlerts` | burial of exhausted events and the claim, one transaction |
| `Send`, `MarkAlertDelivered`, `MarkAlertFailed`, `AlertWriteFails` | `dispatchAlert` |
| `DispatcherCrash` | the process stops, or the reply of `ClaimAlerts` is lost |
| `DeleteExpiredData` | the outbox and incident statements of the retention pass |
| `ExpireAlertLease`, `BecomeAvailable`, `CooldownPasses`, `Age` | the database clock |

- The webhook may accept an event whose answer does not arrive in time: the
  goroutine then sees a transient failure.
- Leases may run out under their holders at any time. `minimumAlertLeaseTimeout`
  makes that rare, not impossible, and the fencing does not rely on it.
- Crashes and failed writes are not counted: each costs an event one attempt.
- `MaxFailures` bounds the failures of an incident. Incident ids are used once.

`Backoff` computes `alertRetryDelay`, `checkJobRetryDelay`,
`rabbitMQReconnectBaseDelay` (one loop in three places) and the seconds form of
`parseRetryAfter` in two's complement of `Width` bits. `AlertDelivery` compares the
delay after each attempt the outbox reaches with its closed form, for every
configuration within the limits of `LoadConfig` (`config.go:191`, `config.go:220`). A
header outside the width, which `ParseInt` refuses, counts as absent.

### Application

One process of `runApplication` after start-up: the signal, the fatal-error channel
of capacity one, the HTTP server with its grace period, the worker pool that cancels
the others when one fails, the loops, and the order in which the queue and the
repository are closed. The arm of the pool's `select` for an error of the consumer
(`runtime.go:233`) is left out: RabbitMQ's consumer sends none, and the in-memory queue's
sends only if the queue is closed before the context is done, while `runApplication`
cancels first (`app.go:193`). Its effect would be that of a worker's error.

## 3. Runs

| Run | Instance | States |
| --- | --- | --- |
| `check_jobs` | 2 jobs of 1 monitor, 2 schedulers, 2 workers, 2 attempts, 1 fault, 1 reconfiguration, within `Loads` | 266,840 |
| `check_jobs_liveness` | 1 job, 1 scheduler, 1 worker, 2 attempts, 2 faults, with retention | 159,652 |
| `topology_recovery` | 2 clients, 1 job, 2 deletions, 2 faults, within `MaxTroubles` | 105,264 |
| `rabbit_session` | 2 publications, a probe, 2 faults | 251,460 |
| `in_memory_queue` | 2 jobs, 2 publishers, 2 workers, buffer of 1 | 59,111 |
| `monitor_store` | 2 monitors, 2 URLs, 3 jobs, limits of 1 and 2, within `Bounded` | 83,935 |
| `memory_pipeline` | 2 jobs of 1 monitor, 2 workers, buffer of 1, an update or a fault | 25,346 |
| `application` | 2 loops, 2 workers, 1 request | 34,382 |
| `alert_delivery` | 1 event, 2 dispatchers, 3 attempts, durations of 7 bits | 14,706 |
| `alert_incidents` | 2 incidents of 1 monitor, 3 failures, threshold 2, batch of 2 | 213,191 |
| `topology_window`, `memory_pipeline_stalled` | counterexamples, section 5 | |

What they show:

- `check_jobs`: duplicated, redelivered and stale deliveries and claims never give a
  job two holders (`ExclusiveLease`, `ExclusivePublication`), a monitor two unfinished
  jobs, or a result measured with a configuration replaced since; a live lease is
  ended by its holder only; no job is `queued` without a message; every step is a
  step of `JobLifecycle`.
- `check_jobs_liveness`: what is dead-lettered is settled; the messages of a job that is
  settled, or removed by retention, are used up in the end and never come back; and every
  unfinished job is settled in the end.
- `topology_recovery`: a lost queue is declared again only after the jobs were
  returned, jobs are returned only when the queue is proved lost, and every lost job
  gets its message again.
- `rabbit_session`: a publication reported as confirmed is in the queue; no
  connection is leaked; every `Publish` returns; the consumer comes back; shutdown
  releases every connection.
- `in_memory_queue`: each job is at most once inside, `seen` is exact, the buffer
  keeps its bound, and nothing is sent on the closed channel.
- `monitor_store`: the indexes agree with the maps, what is kept stays bounded, and
  the failures reported are those of the stored checks.
- `memory_pipeline`: the in-memory mode implements the same lifecycle; as long as
  leases outlast the work nothing is lost and every job settles.
- `application`: the repository is closed last, `nil` is returned only after a
  signal, and a process told to stop stops.
- `alert_delivery`: one lease holder, one call of the HTTP client per attempt, no false delivery,
  finished events stay finished, every event finishes, and the delay between two
  attempts is exact although the arithmetic is of fixed width.
- `alert_incidents`: one open incident per monitor, one alert per cooldown with its
  event, and retention leaves unfinished events alone.

Deadlock is checked in every run but two: a `RabbitSession` that is closed and a
process that has returned really stop.

Bounds. Two attempts give a retry and an exhausted job. Two workers are what a stale
holder and its successor need, two schedulers the same for claims; one fault makes the
first of them stale, or duplicates a message, or loses the queue. All of these at once
are too many states, so `MCCheckJobs` unites three instances as `Loads`, each with the
whole next-state relation: two workers with a reconfiguration, two schedulers beside a
worker, two successive jobs. The proofs cover what lies beyond. In `topology_recovery`
deletions and faults together are limited to two, and a further deletion may come when
a handler has returned the jobs and its client has not noted it: the case the
generation counters exist for. In `monitor_store` either one monitor has a long
history or two monitors exchange URLs. Retention limits of one or two make every list
overflow and compact. Three attempts of an event give a lease holder, its successor
and a last attempt; three failures a second alert after a cooldown. In
`rabbit_session` one probe starts beside the first publication, before the first fault,
and the second publication waits for its end. Seconds of seven bits overflow when they are
converted, as those of 64 bits do; a doubling does not overflow within the limits of
`LoadConfig`, in the instance or in the code.

A bound in an `MC` module is a conjunct of the next-state relation that only takes
steps of the environment away (a fault, a deletion, a probe, a call of the API or of
`Publish`), except for `Loads` and `Bounded` of the runs without liveness properties.
Symmetry is used only there too.

Fairness:

- `check_jobs_liveness`. The scheduler ticks for as long as it runs
  (`RunQueueScheduler`), a goroutine with a next call makes it, a message in the queue
  is delivered to an idle worker, the missing queue is noticed by the next `Ping`, and
  clocks advance: weak fairness. A claimable job is claimed by some pass because claims
  are ordered by `available_at`; a single pass may skip a locked row, hence strong
  fairness per job. Nothing is assumed of the API, of faults, or of leases that run out
  under their holders. Faults are finite: with one on every pass a job could be
  republished for ever without its attempt ever starting.
- `topology_recovery`. The same, and whoever keeps asking for the recovery lock gets it
  in the end (`acquireTopologyRecoveryLock` polls), as does who waits for a Go mutex:
  strong fairness for these two.
- `rabbit_session`. Goroutines run on, a probe that has started among them, and the
  publish timer fires. Nothing is assumed of the broker or of when probes start. Whether the application stops is open; if it does, `Close` follows.
- `memory_pipeline`. Goroutines run on and the scheduler ticks; nothing of time.
- `application`. Goroutines run on and the grace period ends; a request may hang.
- `alert_delivery`. `RunAlertDispatcher` polls, `Send` and the database calls have
  timeouts, clocks advance: weak fairness; strong fairness per event for its claim, as
  for jobs. Nothing is assumed of the webhook, and crashes are not limited: attempts
  are.

## 4. Proofs

The theorems hold for all sets of monitors, jobs, processes and messages and for all
bounds. They rest on the named assumptions of the modules, which the runs of those modules
evaluate: `JobsAssumption` (each job id belongs to one monitor), `BoundsAssumption`,
`OutboxAssumption`, `TopologyAssumption`, `SessionAssumption`, `QueueAssumption`,
`StoreAssumption`, `PipelineAssumption`, `BackoffAssumption` and `BackoffsAssumption`. They say that bounds are
natural numbers, some of them positive, that the values standing for "none" are distinct
from the others and, for the in-memory store, that its monitors and jobs are finitely many,
because cardinalities are compared. `BackoffAssumption` says that the limit of `Retry-After`
is a whole number of seconds that fits the width of a duration, as 24 hours
(`alert.go:23`) fit 64 bits; `BackoffsAssumption` the same of the largest backoff.
`Application` needs no assumption. The theorems on topology recovery assume besides that
the queue is not deleted between a passive check and the declaration that relies on it:
with such a deletion the run `topology_window` refutes `NoStrandedJob`.

| Module | Theorems |
| --- | --- |
| `CheckJobsProofs` | `TypeCorrect`; `QueuedJobsAreInTransit`: no queued job is lost; `RetentionImplementsLifecycle`, `PipelineImplementsLifecycle`, `OneResult`; `LeaseIsExclusive`, `PublicationIsExclusive`, `ResultsAreCurrent`, `DeadLettersStayFinal`, `OneActiveJob`, `LiveLeasesRespected` |
| `TopologyRecoveryProofs` | `NoJobIsStranded`, `RecoveryBeforeDeclaration`, `NoNeedlessReturn` |
| `RabbitSessionProofs` | `ConfirmationsAreOwn`, `ConnectionsAreOwned` |
| `InMemoryQueueProofs` | `QueueStaysConsistent`, `ClosedChannelGetsNothing` |
| `MonitorStoreProofs` | `IndexesStayExact`, `RetentionStaysBounded`, `ReportedFailuresAreRecorded` |
| `MemoryPipelineProofs` | `QueuedJobsAreCarried`: the local mode loses no queued job before the first fault |
| `ApplicationProofs` | `RepositoryOutlivesItsUsers`, `CleanExitIsRequested`, `CancelIsNoticed` |
| `AlertOutboxProofs` | `TypeCorrect`, `LeasesAreExclusive`, `NoAttemptSentTwice`, `NoFalseDelivery`, `FinishedIsFinal`, `RetentionKeepsUnfinished`, `OneIncidentAtATime`, `AlertsAreAccounted`; `DelayDoubles`, `RetryAfterParsed`, `DelaysAreExact` |

**No queued job is lost.** `NoLostQueuedJob` is not inductive: it says nothing of the
moment between the broker's confirmation and `MarkJobPublished`, nor of the time the
queue is missing. The inductive invariant is

    TypeOK /\ MonitorInv /\ ClaimsInv /\ TransitInv

- `TransitInv` extends the promise from `queued` rows to confirmed publications
  whose claim is still good (`Promised`), and says that after the recovery, before
  the queue is declared again, nothing is promised. This is why the recovery has to
  revoke publication tokens and not only return `queued` rows.
- `ClaimsInv`: the token of a claim was handed out before, so a new token differs
  from every token a scheduler still carries, and a claim's next attempt is within
  the bound.
- `MonitorInv`: an unfinished job has its monitor, so the worker that looks the
  monitor up does not acknowledge the only message of a queued job.

`PromisesKept`, `RedeliveredKept` and `MovedOnKept` are the three ways an action can
leave `TransitInv` intact: it makes no new promise and takes no message, it gives the
message back, or it moves the job on as it takes the message.

**The pipeline implements the lifecycle.** The invariant is

    LifecycleInv == TypeOK /\ ClaimsInv /\ NoAttemptAhead /\ ResultsInv

`MarkJobProcessing` takes the attempt of the message, so that it starts the *next*
attempt rests on `NoAttemptAhead`: no message, delivery or claim is more than one
attempt ahead of its job. It needs the whole chain from claim to message to
delivery, hence the lemmas `ClaimsFrom`, `MessagesFrom`, `MessagesBehind` and
`DeliveriesBehind`. `ResultsInv` (only completed jobs have results) is what
`Complete` of `JobLifecycle` needs: no result is there before. The refinement is
proved under `RetentionSpec`, with `DeleteExpiredData` as `Remove` and
`ForgetResult`, and for `Spec` as a special case. The refinement mapping is the
`INSTANCE JobLifecycle WITH ...` of `CheckJobsRefinement`.

**Exclusion.** Under retention as well, the invariant is

    HoldersInv == LifecycleInv /\ MonitorInv /\ ReferencesInv /\ LeaseTokensInv
                    /\ FreshConfigInv /\ PublicationTokensInv /\ BuriedInv
                    /\ ResultUnderCurrentConfig /\ OneActiveJobPerMonitor

- `LeaseTokensInv`, `PublicationTokensInv`: tokens tell workers and schedulers apart;
  exclusive leases and publications follow.
- `FreshConfigInv`: a worker of an unfinished job has read the configuration the
  monitor has now, because `Update` settles the unfinished jobs when it changes it.
  `ReferencesInv` keeps jobs that do not exist yet out of the workers' hands.
- `BuriedInv`: what a worker is about to dead-letter is dead already.
- `OneActiveJobPerMonitor` is inductive with `TypeOK` and `MonitorInv`.

`LiveLeasesRespected` is an action property: `StatusEffect` and `LiveLeaseStep` say
which actions end a processing, and that those which need no lease want it expired or
change the monitor.

**The outbox.** The invariant is

    IInv == TypeOK /\ FreshKeysInv /\ TasksInv /\ SentInv /\ AcceptedInv
              /\ AttemptsSentOnce /\ DeliveredWasAccepted

- `FreshKeysInv`: a failure that has not been counted has no event, so a new event
  never overwrites a row that has attempts.
- `TasksInv`: a goroutine's token and attempt were handed out for its event, and no
  other goroutine has either. Exclusive leases follow from it.
- `SentInv`: what has not been handed out, or whose goroutine has not called `Send`
  yet, has not been sent. `AttemptsSentOnce` is not inductive without it.
- `AcceptedInv`: a goroutine that holds a 2xx answer reports an accepted event.

Most actions hand nothing out. `Quiet` says what they have in common and
`QuietKeeps` that it preserves the invariant; `RaiseKeeps`, `ClaimKeeps` and
`SendKeeps` treat the three that do. `OneOpenIncident` is inductive with `TypeOK`
alone. `AlertsAreAccounted` adds `AccountsInv` to `IInv`: the alerts of an incident are
its cooldowns, plus one exactly while a cooldown runs, and are as many as its events.
By `FreshKeysInv` the event of an alert is always a new one, so that the count and the
set grow together; the set is finite because its keys carry the failure count.

**The delays.** `DelayDoubles` says of the loop in `Backoff`, for every width, attempt and
configuration with `0 < first <= max`, that it returns the first delay times a power of two,
or the maximum if that is less. The power and the loop are recursive functions; `Powers` and
the theorem go by induction on the rounds (`InductionUpTo`, from the least element of a set
of natural numbers), after `IteratesExist` has shown that functions so defined exist. That
the product of a round does not overflow is `DoubledFacts`: a delay that is doubled is at most
half the maximum. `RetryAfterParsed` says the same of the conversion of `Retry-After`, where
the number comes from outside and the comparison with the limit has to precede the
product. `DelaysAreExact` applies this to the attempts an event has made, which are
natural numbers in every reachable state.

**Topology recovery.** The invariant is

    RecoveryInv == TypeOK /\ RunsInv /\ WindowInv /\ PromisesInv /\ LockInv

- `RunsInv`: a run of `recoverDetectedTopologyLoss` covers losses its client still owes,
  and the actor that called it waits for it.
- `WindowInv`: nobody relies on a queue that is lost with its jobs not yet returned.
- `PromisesInv`: a job that was promised a message has it while the queue exists; when the
  queue is lost, promises are left only until the jobs are returned.
- `LockInv`: without faults, a client that has seen the loss twice holds the lock, and what
  it has to recover is a queue nobody has declared since.

**The RabbitMQ session.** The invariant is

    SessionInv == TypeOK /\ OpenedInv /\ CleanInv /\ ConfirmationInv
                    /\ ConfirmedMeansAccepted /\ NoLeakedConnection

AMQP confirmations carry no name of the call that waits for them. `CleanInv` says why the
next one is still the right one: nothing is unanswered on a connection that a new
publication may use, because `Publish` invalidates the connection whenever it gives up.
`ConfirmationInv` lists what can be on the wire while a publication waits.

**The in-memory queue.** `QueueInv == TypeOK /\ MessagesInv /\ RememberedInv`.
`RememberedInv` says for every two places a message can be in (publisher, channel,
consumer, worker) that a job is not in both. A job in one of them is in `seen`; a job in
`seen` is in one of them unless shutdown has dropped its message.

**The in-memory store.** The invariant is

    StoreInv == URLInv /\ JobsInv /\ ProcessedInv /\ IncidentsInv /\ CountInv /\ HistoryInv

- `JobsInv`: the active index names exactly the unfinished jobs, each under its own
  existing monitor, and the terminal order lists no job twice, every settled job of the
  map, and otherwise only jobs deleted with their monitor (`TerminalOrder`). That no id is
  listed twice is what makes an eviction remove the right record.
- `Short`: the head and the rest of a retention list are at most the limit each, so the
  slice is at most twice as long. One id is added and at most one evicted at a time
  (`Remembering`), and copying changes neither the ids nor their order
  (`CompactionKeeps`).
- `ProcessedInv`: the set and the window of its list have the same ids, none twice, so
  that the size of the set, which the code compares with the limit, is that of the window.
- `CountInv`: a job fails at most once, so failures are at most the jobs that ended.
- `HistoryInv`: the failures of the open incident are the latest records.

`ClaimDueJobs` buries all exhausted jobs in one pass over a map, in any order. `Buried` is
a recursive function of the number of rounds. What it computes is proved by induction:
`InductionUpTo` derives it, for sets, from the well-foundedness of the natural numbers
(`LeastNatural`); `LoopExists` shows that the function exists, `BurialRound` one round and
`BurialKeeps` the whole pass.

**The local mode.** `QueuedUnlessStalled` speaks of the behaviour up to the first lease that
runs out under its holder, and so does the invariant, `faults = 0 => PipelineInv`:

    PipelineInv == StoreInv /\ SchedulerInv /\ QueueInv /\ WorkersInv /\ AttemptsInv
                     /\ SeenInv /\ TransitInv

Here `StoreInv` is the part of the store's invariant that matters, the active index and the
rows: up to the first fault no attempt fails, a waiting job has had none, and a running
one has its lease.

- `SeenInv`: an id that is remembered has its message, at the latest when `Publish` has
  returned. So a publication that is taken for a duplicate still has a message to rely on;
  this is what the run `memory_pipeline_stalled` breaks.
- `TransitInv`: a queued job has its message, and so has a job whose publication is about to
  be recorded.
- `WorkersInv` and `AttemptsInv`: a worker that has asked for its job holds the lease of it,
  unless the job is over; a running job has such a worker. So whatever is acknowledged
  without a result is not waited for by the store.

One lemma treats each call of the store (`ClaimStoreStep`, `ProcessingStep`, `AddCheckStep`
and so on), one each action of the pipeline. `Kept` is what a call may do to a job without
taking its message away; `StoreStep` and `HandlerStep` carry the rest of the invariant
through every action that only changes the store, or only moves one worker.

**Shutdown.** `ShutdownInv == TypeOK /\ SupervisorsInv /\ ClosingInv /\ LeavingInv /\
CancellingInv`. `SupervisorsInv` says that the server and the pool, when they report or are done, leave
nothing running behind them (the server's requests may outlast the grace period);
`CancellingInv` that whoever cancels the context has sent an error first, so that
`runApplication` does not wait on when its components were told to stop.

TLC checked these invariants on small instances before they were proved, with positions
in the channel bounded for `RememberedInv`, which quantifies over all numbers. Those
instances are not among the runs.

Model-checked only:

- liveness (`JobsSettle`, `SettledDeliveriesDrain`, `LostJobsRepublished`, `PublishTerminates`,
  `EventuallyConsuming`, `EventuallyReleased`, `Terminates`, `AlertsFinish`), which
  TLAPS does not reach;
- `ImplementsLifecycle` of `MemoryPipeline`. After a fault it rests on the whole invariant
  of the store; its proof is about `MonitorStore` alone and would have to be repeated for
  the instance inside the composition.

## 5. Disagreements with the documentation

- `topology_window`. `repairTopologyOnConnectionUnbounded` (`queue.go:507`) declares the
  queue on the strength of an earlier passive check. If the queue is deleted between
  the two requests, the declaration creates it again, empty, and no loss is recorded;
  the jobs stay `queued` without a message. `src/README.md:331` says that a deleted
  queue is detected and its jobs are republished.
- `memory_pipeline_stalled`. When a lease runs out under a worker that has not yet
  acknowledged, the scheduler recovers and republishes the job; `InMemoryQueue.Publish`
  (`queue.go:83`) takes the message for a duplicate, since the job is still in `seen`,
  and reports success. The job is marked `queued`, the worker's `Ack` leaves nothing in
  the queue, and no timer looks at a queued job. `monitor.go:719` relies on the
  scheduler's recovery.

## 6. Not modelled

- The HTTP checker, the outbound network policy, the status policy, seed links,
  logging and tracing, the OpenAPI documents, configuration parsing, the database pool
  and migrations: I/O, start-up code and pure classification without shared state.
  Their effects on the models are inputs: a check yields a result, the configuration
  yields the constants, the schema's constraints are part of the tables.
- Metrics: counters and gauges that nothing in the program reads back.
- Of the API: validation, paging, authentication and the mapping of errors.
- Of the application: start-up with its error returns, and the readiness answers.
- Jitter, the HTTP-date form of `Retry-After`, and the encoding of messages.
- The lock order of PostgreSQL transactions (`postgres_repository.go:387`): a
  transaction the database aborts is a failed call in the models.
- A `RabbitMQQueue` without a recovery handler, which the program never builds.
