--------------------------- MODULE MonitorStore ---------------------------
(***************************************************************************)
(* The in-memory repository: the maps of MonitorStore, the indexes kept    *)
(* beside them, and the lists that bound what is retained.  Every          *)
(* operation runs under the store's mutex and is one step.                 *)
(*                                                                         *)
(* Time is modelled as in CheckJobs: a lease is "none", "live" or          *)
(* "expired", a job is available, a monitor is due.  A random id is a      *)
(* fresh member of a small set.  The callers may present any claim or      *)
(* lease at any time; MemoryPipeline composes the store with callers that  *)
(* present the ones they were given.                                       *)
(***************************************************************************)
EXTENDS Naturals, Sequences, FiniteSets, Functions

CONSTANTS
  Monitors,             \* monitor ids
  URLs,                 \* the URLs monitors may have
  NoMonitor,            \* byURL of a free URL
  Jobs,                 \* check job ids, numbered in the order of their creation
  MonitorOf,            \* the monitor each job id belongs to
  NoJob,                \* activeJobByMonitor or openIncidentByMonitor without entry
  Tokens,               \* publication and lease tokens, positive numbers
  MaxAttempts,          \* MAX_JOB_ATTEMPTS
  BatchLimit,           \* SCHEDULER_BATCH_SIZE
  MaxChecks,            \* maxChecksPerMonitor
  MaxProcessed,         \* maxProcessedJobIDs
  MaxRetainedJobs,      \* maxRetainedCheckJobs
  MaxRetainedIncidents  \* maxRetainedResolvedIncidents

ASSUME StoreAssumption ==
  /\ IsFiniteSet(Monitors) /\ NoMonitor \notin Monitors
  /\ URLs # {}
  /\ Jobs \subseteq Nat /\ IsFiniteSet(Jobs) /\ NoJob \notin Jobs
  /\ MonitorOf \in [Jobs -> Monitors]
  /\ Tokens \subseteq Nat
  /\ MaxAttempts \in Nat /\ BatchLimit \in Nat
  /\ MaxChecks \in Nat \ {0} /\ MaxProcessed \in Nat
  /\ MaxRetainedJobs \in Nat /\ MaxRetainedIncidents \in Nat

VARIABLES
  monitor,       \* byID
  byURL,         \* byURL
  checks,        \* checks: per monitor the job and the outcome of each record
  job,           \* checkJobs
  active,        \* activeJobByMonitor
  terminal,      \* terminalJobOrder and terminalJobHead
  processed,     \* processedJobs
  processedList, \* processedJobOrder and processedJobHead
  incident,      \* incidents; an incident goes by the job whose failure opened it
  open,          \* openIncidentByMonitor
  resolved       \* resolvedIncidentOrder and resolvedIncidentHead

jobVars      == <<job, active, terminal>>
resultVars   == <<checks, processed, processedList>>
incidentVars == <<incident, open, resolved>>
storeVars    == <<monitor, byURL, jobVars, resultVars, incidentVars>>

Active   == {"scheduled", "queued", "processing", "failed"}
Terminal == {"completed", "dead"}

\* "none": the id is not yet used; "gone": the record was removed from its map.
MonitorRow == [status: {"none", "active", "disabled", "gone"}, url: URLs,
               due: BOOLEAN, checked: BOOLEAN]

JobRow == [status: {"none", "gone"} \cup Active \cup Terminal,
           kind: {"scheduled", "manual"}, attempt: 0..MaxAttempts,
           lease: {"none", "live", "expired"}, available: BOOLEAN,
           publicationToken: {0} \cup Tokens, leaseToken: {0} \cup Tokens]

Unused == [status |-> "none", kind |-> "scheduled", attempt |-> 0, lease |-> "none",
           available |-> FALSE, publicationToken |-> 0, leaseToken |-> 0]

NoIncident == [status |-> "none", failures |-> 0]

Empty == [order |-> <<>>, head |-> 0]

Exists(m) == monitor[m].status \in {"active", "disabled"}

Init ==
  /\ monitor = [m \in Monitors |-> [status |-> "none", url |-> CHOOSE u \in URLs : TRUE,
                                    due |-> FALSE, checked |-> FALSE]]
  /\ byURL = [u \in URLs |-> NoMonitor]
  /\ checks = [m \in Monitors |-> <<>>]
  /\ job = [j \in Jobs |-> Unused]
  /\ active = [m \in Monitors |-> NoJob]
  /\ terminal = Empty
  /\ processed = {}
  /\ processedList = Empty
  /\ incident = [j \in Jobs |-> NoIncident]
  /\ open = [m \in Monitors |-> NoJob]
  /\ resolved = Empty

-----------------------------------------------------------------------------
(* The retention lists: ids in order of arrival, and the number of them    *)
(* that have already been evicted.  The slice is copied once its evicted   *)
(* part is longer than the limit and than the rest.                        *)

Window(list) == SubSeq(list.order, list.head + 1, Len(list.order))

Compacted(list, max) ==
  IF list.head > max /\ list.head * 2 >= Len(list.order)
  THEN [order |-> Window(list), head |-> 0] ELSE list

\* The loop of the remember functions, for a list with excess ids too many.
Excess(list, size, max) == IF size > max THEN size - max ELSE 0

EvictedBy(list, excess) == Range(SubSeq(list.order, list.head + 1, list.head + excess))

Evict(list, excess, max) ==
  Compacted([order |-> list.order, head |-> list.head + excess], max)

Appended(list, id) == [order |-> Append(list.order, id), head |-> list.head]

\* Of a record that is gone only its last attempt is remembered, for the properties.
Gone(row) == [Unused EXCEPT !.status = "gone", !.attempt = row.attempt]

\* Mutant: the evicted record is not deleted from the map.
ForgetsToDelete(s, j) ==
  LET list == Appended(s.list, j)
      excess == Excess(list, Len(Window(list)), MaxRetainedJobs)
  IN  [row |-> s.row, list |-> Evict(list, excess, MaxRetainedJobs)]

\* rememberTerminalJobLocked, on s.row (the jobs) and s.list (the order).
RememberTerminalJob(s, j) ==
  LET list == Appended(s.list, j)
      excess == Excess(list, Len(Window(list)), MaxRetainedJobs)
  IN  [row  |-> [k \in Jobs |-> IF k \in EvictedBy(list, excess) /\ s.row[k].status \in Terminal
                                THEN Gone(s.row[k]) ELSE s.row[k]],
       list |-> Evict(list, excess, MaxRetainedJobs)]

\* finishActiveJobLocked, finishExhaustedJobLocked, MarkJobDead and the end of
\* AddCheck: the record is settled, leaves the index and enters the order.
Settled(row, status) ==
  [row EXCEPT !.status = status, !.lease = "none", !.leaseToken = 0]

Settle(s, j, status) ==
  RememberTerminalJob([row  |-> [s.row EXCEPT ![j] = Settled(s.row[j], status)],
                       list |-> s.list], j)

Jobs0 == [row |-> job, list |-> terminal]

Commit(s) == job' = s.row /\ terminal' = s.list

-----------------------------------------------------------------------------
(* Incidents, on s.row (the incidents) and s.list (the resolved order) *)

RememberResolvedIncident(s, i) ==
  LET list == Appended(s.list, i)
      excess == Excess(list, Len(Window(list)), MaxRetainedIncidents)
  IN  [row  |-> [k \in Jobs |-> IF k \in EvictedBy(list, excess) /\ s.row[k].status = "resolved"
                                THEN NoIncident ELSE s.row[k]],
       list |-> Evict(list, excess, MaxRetainedIncidents)]

ResolveOpenIncident(m) ==
  IF open[m] = NoJob THEN UNCHANGED incidentVars
  ELSE LET s == RememberResolvedIncident(
                  [row |-> [incident EXCEPT ![open[m]].status = "resolved"], list |-> resolved],
                  open[m])
       IN  incident' = s.row /\ resolved' = s.list /\ open' = [open EXCEPT ![m] = NoJob]

\* Mutant: a success does not resolve the incident.
IncidentOutlivesSuccess(m, j, success) ==
  IF success THEN UNCHANGED incidentVars
  ELSE /\ incident' = IF open[m] = NoJob
                      THEN [incident EXCEPT ![j] = [status |-> "open", failures |-> 1]]
                      ELSE [incident EXCEPT ![open[m]].failures = @ + 1]
       /\ open' = IF open[m] = NoJob THEN [open EXCEPT ![m] = j] ELSE open
       /\ UNCHANGED resolved

\* updateIncident, for the record of job j.
UpdateIncident(m, j, success) ==
  IF success THEN ResolveOpenIncident(m)
  ELSE /\ incident' = IF open[m] = NoJob
                      THEN [incident EXCEPT ![j] = [status |-> "open", failures |-> 1]]
                      ELSE [incident EXCEPT ![open[m]].failures = @ + 1]
       /\ open' = IF open[m] = NoJob THEN [open EXCEPT ![m] = j] ELSE open
       /\ UNCHANGED resolved

-----------------------------------------------------------------------------
(* Monitors *)

Create(m, url, enabled) ==
  /\ monitor[m].status = "none"
  /\ byURL[url] = NoMonitor
  /\ monitor' = [monitor EXCEPT ![m] =
        [status |-> IF enabled THEN "active" ELSE "disabled", url |-> url,
         due |-> TRUE, checked |-> FALSE]]
  /\ byURL' = [byURL EXCEPT ![url] = m]
  /\ UNCHANGED <<jobVars, resultVars, incidentVars>>

FinishActiveJob(m) ==
  IF active[m] = NoJob THEN UNCHANGED jobVars
  ELSE /\ Commit(Settle(Jobs0, active[m], "dead"))
       /\ active' = [active EXCEPT ![m] = NoJob]

\* nextCheckAfterIntervalChange: now, unless a check was made less than the new
\* interval ago.
DueAfterUpdate(m, enabled, semantics, interval) ==
  IF ~enabled THEN {monitor[m].due}
  ELSE IF semantics \/ monitor[m].status = "disabled" THEN {TRUE}
  ELSE IF interval THEN IF monitor[m].checked THEN BOOLEAN ELSE {TRUE}
  ELSE {monitor[m].due}

\* Mutant: the entry of the old URL stays.
OldURLKept(m, url) == [byURL EXCEPT ![url] = m]

Reindexed(m, url) ==
  [u \in URLs |-> IF u = url THEN m ELSE IF u = monitor[m].url THEN NoMonitor ELSE byURL[u]]

\* semantics: the URL, the timeout or the expected status changes.
Update(m, url, enabled, other, interval) ==
  LET semantics == other \/ url # monitor[m].url IN
  /\ Exists(m)
  /\ byURL[url] \in {NoMonitor, m}
  /\ byURL' = Reindexed(m, url)
  /\ \E due \in DueAfterUpdate(m, enabled, semantics, interval) :
       monitor' = [monitor EXCEPT ![m] =
          [status |-> IF enabled THEN "active" ELSE "disabled", url |-> url,
           due |-> due, checked |-> @.checked /\ ~semantics]]
  /\ IF ~enabled \/ semantics THEN FinishActiveJob(m) ELSE UNCHANGED jobVars
  /\ IF semantics THEN ResolveOpenIncident(m) ELSE UNCHANGED incidentVars
  /\ UNCHANGED resultVars

Removed(row) == IF row.status = "none" THEN row ELSE Gone(row)

\* The retention lists keep the ids of what is deleted here.
Delete(m) ==
  /\ Exists(m)
  /\ monitor' = [monitor EXCEPT ![m].status = "gone"]
  /\ byURL' = [byURL EXCEPT ![monitor[m].url] = NoMonitor]
  /\ checks' = [checks EXCEPT ![m] = <<>>]
  /\ job' = [j \in Jobs |-> IF MonitorOf[j] = m THEN Removed(job[j]) ELSE job[j]]
  /\ active' = [active EXCEPT ![m] = NoJob]
  /\ incident' = [j \in Jobs |-> IF MonitorOf[j] = m THEN NoIncident ELSE incident[j]]
  /\ open' = [open EXCEPT ![m] = NoJob]
  /\ UNCHANGED <<terminal, processed, processedList, resolved>>

-----------------------------------------------------------------------------
(* Publication *)

\* The ids newID and NewCheckJobID return are new.
NewID(j) ==
  /\ job[j].status = "none"
  /\ \A k \in Jobs : k < j /\ MonitorOf[k] = MonitorOf[j] => job[k].status # "none"

\* With an active job the call returns that job and changes nothing.
CreateManualJob(m, j) ==
  /\ Exists(m)
  /\ active[m] = NoJob
  /\ NewID(j) /\ MonitorOf[j] = m
  /\ job' = [job EXCEPT ![j] =
        [@ EXCEPT !.status = "scheduled", !.kind = "manual", !.available = TRUE]]
  /\ active' = [active EXCEPT ![m] = j]
  /\ UNCHANGED <<monitor, byURL, terminal, resultVars, incidentVars>>

Exhausted(row) ==
  /\ row.attempt >= MaxAttempts
  /\ \/ row.status = "processing" /\ row.lease = "expired"
     \/ row.status = "failed" /\ row.available

Recovered(row) ==
  IF row.status = "processing" /\ row.lease = "expired"
  THEN [row EXCEPT !.status = "failed", !.available = TRUE, !.lease = "none", !.leaseToken = 0]
  ELSE row

\* Mutant: a job without a lease is overlooked.
OnlyLapsedClaimable(row) ==
  /\ row.status \in {"scheduled", "failed"}
  /\ row.attempt < MaxAttempts
  /\ row.available
  /\ row.lease = "expired"

Claimable(row) ==
  /\ row.status \in {"scheduled", "failed"}
  /\ row.attempt < MaxAttempts
  /\ row.available
  /\ row.lease # "live"

Claimed(row, token) ==
  [row EXCEPT !.status = "scheduled", !.available = TRUE, !.lease = "live",
              !.publicationToken = token]

ExhaustedJobs == {j \in Jobs : Exhausted(job[j])}

\* finishExhaustedJobLocked for every exhausted job in turn, in the order in
\* which the map happens to be traversed.
Buried(order) ==
  LET after[n \in 0..Len(order)] ==
        IF n = 0 THEN Jobs0 ELSE Settle(after[n - 1], order[n], "dead")
  IN  after[Len(order)]

DueAfterRecovery(m) ==
  monitor[m].due /\ ~ \E j \in ExhaustedJobs : MonitorOf[j] = m /\ job[j].kind = "scheduled"

ActiveAfterRecovery == [m \in Monitors |-> IF active[m] \in ExhaustedJobs THEN NoJob ELSE active[m]]

\* As many of the set as the limit leaves room for.
FillsUp(chosen, from, room) ==
  chosen \subseteq from /\ (chosen = from \/ Cardinality(chosen) = room)

\* batch: persisted jobs, fresh: new periodic jobs of monitors that are due.  All
\* are claimed up to the limit; which ones, when there are more, is a matter of
\* the times they are sorted by.
ClaimDueJobs(batch, fresh, token) ==
  LET new == {j \in Jobs : NewID(j)}
      due == {m \in Monitors : /\ monitor[m].status = "active"
                               /\ DueAfterRecovery(m)
                               /\ ActiveAfterRecovery[m] = NoJob
                               /\ \E j \in new : MonitorOf[j] = m}
      freshFor == {MonitorOf[j] : j \in fresh}
  IN \E order \in Bijection(1..Cardinality(ExhaustedJobs), ExhaustedJobs) :
       LET row == [j \in Jobs |-> Recovered(Buried(order).row[j])] IN
       /\ FillsUp(batch, {j \in Jobs : Claimable(row[j])}, BatchLimit)
       /\ Cardinality(batch) <= BatchLimit
       /\ fresh \subseteq new
       /\ FillsUp(freshFor, due, BatchLimit - Cardinality(batch))
       /\ Cardinality(batch) + Cardinality(fresh) <= BatchLimit
       /\ job' = [j \in Jobs |-> IF j \in batch \cup fresh THEN Claimed(row[j], token) ELSE row[j]]
       /\ terminal' = Buried(order).list
       /\ active' = [m \in Monitors |-> IF m \in freshFor
                                        THEN CHOOSE j \in fresh : MonitorOf[j] = m
                                        ELSE ActiveAfterRecovery[m]]
       /\ monitor' = [m \in Monitors |-> [monitor[m] EXCEPT !.due = DueAfterRecovery(m)]]
       /\ UNCHANGED <<byURL, resultVars, incidentVars>>

\* publicationJobLocked, and the conditions the two publication writes share.
OwnsPublication(c) ==
  /\ Exists(MonitorOf[c.job])
  /\ job[c.job].publicationToken = c.token
  /\ job[c.job].status = "scheduled"
  /\ job[c.job].attempt = c.attempt
  /\ job[c.job].lease = "live"

\* A call that is refused changes nothing.
PutJob(j, accepted, row) ==
  /\ job' = IF accepted THEN [job EXCEPT ![j] = row] ELSE job
  /\ UNCHANGED <<monitor, byURL, active, terminal, resultVars, incidentVars>>

MarkJobPublished(c) ==
  PutJob(c.job, OwnsPublication(c),
         [job[c.job] EXCEPT !.status = "queued", !.lease = "none"])

ReleaseJobPublish(c) ==
  PutJob(c.job, OwnsPublication(c),
         [job[c.job] EXCEPT !.lease = "none", !.publicationToken = 0])

ReturnedToPublish(row) ==
  IF row.status \in {"scheduled", "queued"}
  THEN [row EXCEPT !.status = "failed", !.available = TRUE, !.lease = "none",
                   !.leaseToken = 0, !.publicationToken = 0]
  ELSE row

RecoverQueuedJobsAfterTopologyLoss ==
  /\ job' = [j \in Jobs |-> ReturnedToPublish(job[j])]
  /\ UNCHANGED <<monitor, byURL, active, terminal, resultVars, incidentVars>>

-----------------------------------------------------------------------------
(* Processing *)

IsActive(j) == Exists(MonitorOf[j]) /\ active[MonitorOf[j]] = j

MayProcess(j, attempt) ==
  /\ IsActive(j)
  /\ job[j].status \in {"scheduled", "queued"}
  /\ attempt > job[j].attempt

MarkJobProcessing(j, attempt, token) ==
  PutJob(j, MayProcess(j, attempt),
         [job[j] EXCEPT !.status = "processing", !.attempt = attempt, !.lease = "live",
                        !.leaseToken = token])

\* Mutant: only the attempt is compared.
OwnsAttempt(l) == job[l.job].attempt = l.attempt

OwnsLease(l) ==
  /\ job[l.job].status = "processing"
  /\ job[l.job].lease = "live"
  /\ job[l.job].attempt = l.attempt
  /\ job[l.job].leaseToken = l.token

MarkJobFailed(l) ==
  PutJob(l.job, IsActive(l.job) /\ OwnsLease(l),
         [job[l.job] EXCEPT !.status = "failed", !.available = FALSE, !.lease = "none",
                            !.leaseToken = 0])

\* A periodic job that ends moves its monitor's next check into the future.
Rescheduled(j) ==
  [monitor EXCEPT ![MonitorOf[j]].due = IF job[j].kind = "scheduled" THEN FALSE ELSE @]

MarkJobDead(l) ==
  /\ IF IsActive(l.job) /\ OwnsLease(l)
     THEN /\ Commit(Settle(Jobs0, l.job, "dead"))
          /\ active' = [active EXCEPT ![MonitorOf[l.job]] = NoJob]
          /\ monitor' = Rescheduled(l.job)
     ELSE UNCHANGED <<monitor, jobVars>>
  /\ UNCHANGED <<byURL, resultVars, incidentVars>>

LatestRecords(records) ==
  SubSeq(records, Excess(records, Len(records), MaxChecks) + 1, Len(records))

RememberProcessedJob(j) ==
  LET list == Appended(processedList, j)
      excess == Excess(list, Cardinality(processed) + 1, MaxProcessed)
  IN  /\ processed' = (processed \cup {j}) \ EvictedBy(list, excess)
      /\ processedList' = Evict(list, excess, MaxProcessed)

Stores(l) ==
  /\ Exists(MonitorOf[l.job])
  /\ OwnsLease(l)
  /\ l.job \notin processed

AddCheck(l, success) ==
  LET m == MonitorOf[l.job] IN
  IF Stores(l)
  THEN /\ RememberProcessedJob(l.job)
       /\ Commit(Settle(Jobs0, l.job, "completed"))
       /\ active' = [active EXCEPT ![m] = NoJob]
       /\ monitor' = [Rescheduled(l.job) EXCEPT ![m].checked = TRUE]
       /\ checks' = [checks EXCEPT ![m] =
            LatestRecords(Append(@, [job |-> l.job, success |-> success]))]
       /\ UpdateIncident(m, l.job, success)
       /\ UNCHANGED byURL
  ELSE UNCHANGED storeVars

-----------------------------------------------------------------------------
(* Time *)

ExpireLease(j) ==
  /\ job[j].lease = "live"
  /\ PutJob(j, TRUE, [job[j] EXCEPT !.lease = "expired"])

BecomeAvailable(j) ==
  /\ job[j].status = "failed"
  /\ ~job[j].available
  /\ PutJob(j, TRUE, [job[j] EXCEPT !.available = TRUE])

BecomeDue(m) ==
  /\ Exists(m)
  /\ ~monitor[m].due
  /\ monitor' = [monitor EXCEPT ![m].due = TRUE]
  /\ UNCHANGED <<byURL, jobVars, resultVars, incidentVars>>

-----------------------------------------------------------------------------
(* The store under any callers *)

Held == [job: Jobs, attempt: 0..MaxAttempts, token: Tokens]

ApiStep ==
  \E m \in Monitors :
    \/ \E url \in URLs, enabled \in BOOLEAN : Create(m, url, enabled)
    \/ \E url \in URLs, enabled, other, interval \in BOOLEAN :
         Update(m, url, enabled, other, interval)
    \/ Delete(m)
    \/ \E j \in Jobs : CreateManualJob(m, j)

SchedulerStep ==
  \/ \E batch \in SUBSET {j \in Jobs : job[j].status \in Active},
        fresh \in SUBSET {j \in Jobs : NewID(j)},
        token \in Tokens : ClaimDueJobs(batch, fresh, token)
  \/ \E c \in Held : MarkJobPublished(c) \/ ReleaseJobPublish(c)
  \/ RecoverQueuedJobsAfterTopologyLoss

WorkerStep ==
  \/ \E j \in Jobs, attempt \in 1..MaxAttempts, token \in Tokens :
       MarkJobProcessing(j, attempt, token)
  \/ \E l \in Held : MarkJobFailed(l) \/ MarkJobDead(l)
  \/ \E l \in Held, success \in BOOLEAN : AddCheck(l, success)

TimeStep ==
  \/ \E j \in Jobs : ExpireLease(j) \/ BecomeAvailable(j)
  \/ \E m \in Monitors : BecomeDue(m)

Next == ApiStep \/ SchedulerStep \/ WorkerStep \/ TimeStep

Spec == Init /\ [][Next]_storeVars

-----------------------------------------------------------------------------
(* Properties *)

RetentionList == [order: Seq(Jobs), head: Nat]

TypeOK ==
  /\ monitor \in [Monitors -> MonitorRow]
  /\ byURL \in [URLs -> Monitors \cup {NoMonitor}]
  /\ checks \in [Monitors -> Seq([job: Jobs, success: BOOLEAN])]
  /\ \A m \in Monitors : Len(checks[m]) <= MaxChecks
  /\ job \in [Jobs -> JobRow]
  /\ active \in [Monitors -> Jobs \cup {NoJob}]
  /\ terminal \in RetentionList
  /\ processed \subseteq Jobs
  /\ processedList \in RetentionList
  /\ incident \in [Jobs -> [status: {"none", "open", "resolved"}, failures: 0..Cardinality(Jobs)]]
  /\ open \in [Monitors -> Jobs \cup {NoJob}]
  /\ resolved \in RetentionList

\* byURL is the inverse of the URLs in byID: a free URL can be taken, and no two
\* monitors have the same.
URLIndexExact ==
  \A u \in URLs, m \in Monitors : byURL[u] = m <=> Exists(m) /\ monitor[m].url = u

\* activeJobByMonitor names exactly the unfinished jobs, so a monitor has at most
\* one, a stale entry never keeps a monitor from being checked, and deletion of
\* a monitor leaves no job behind.
ActiveIndexExact ==
  \A j \in Jobs : job[j].status \in Active <=> active[MonitorOf[j]] = j /\ Exists(MonitorOf[j])

\* Every settled job in the map waits for its eviction exactly once, and only
\* settled jobs do, so that the map is bounded: at most the retention limit plus
\* one unfinished job per monitor, although Delete leaves stale ids in the order.
CheckJobsBounded ==
  LET present == {j \in Jobs : job[j].status \in Active \cup Terminal} IN
  /\ \A j \in Jobs : job[j].status \in Terminal =>
       Cardinality({i \in DOMAIN Window(terminal) : Window(terminal)[i] = j}) = 1
  /\ \A j \in Range(Window(terminal)) : job[j].status \notin Active
  /\ Cardinality(present) <= MaxRetainedJobs + Cardinality({m \in Monitors : Exists(m)})

\* The slices behind the retention lists do not grow for ever, and the set of
\* processed ids is the part of its list that has not been evicted.
ListsBounded ==
  /\ Len(terminal.order) <= 2 * MaxRetainedJobs
  /\ Len(resolved.order) <= 2 * MaxRetainedIncidents
  /\ Len(processedList.order) <= 2 * MaxProcessed
  /\ processed = Range(Window(processedList))
  /\ Cardinality(processed) <= MaxProcessed

\* openIncidentByMonitor names exactly the open incidents; every other one waits
\* for its eviction.
IncidentIndexExact ==
  \A i \in Jobs :
    /\ incident[i].status = "open" <=> open[MonitorOf[i]] = i
    /\ incident[i].status = "resolved" => i \in Range(Window(resolved))

\* Every operation leaves the three secondary indexes in agreement with the maps
\* they index, although each of them is maintained by hand.
IndexesExact == TypeOK /\ URLIndexExact /\ ActiveIndexExact /\ IncidentIndexExact

\* However long the process runs, what it keeps is bounded.
RetentionBounded == CheckJobsBounded /\ ListsBounded

\* Stats: what the API reports as consecutive failures.
ConsecutiveFailure(m) == IF open[m] = NoJob THEN 0 ELSE incident[open[m]].failures

TrailingFailures(records) ==
  Cardinality({i \in DOMAIN records : \A k \in i..Len(records) : ~records[k].success})

\* The consecutive failures that are reported are backed by the records that are
\* kept, except for those that had to make room, and a success ends them.
FailuresMatchHistory ==
  \A m \in Monitors :
    /\ TrailingFailures(checks[m]) >= (IF ConsecutiveFailure(m) < Len(checks[m])
                                       THEN ConsecutiveFailure(m) ELSE Len(checks[m]))
    /\ ConsecutiveFailure(m) > 0 => checks[m] # <<>>
=============================================================================
