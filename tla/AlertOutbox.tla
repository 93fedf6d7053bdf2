---------------------------- MODULE AlertOutbox ----------------------------
(***************************************************************************)
(* Incidents, the transactional alert outbox, the alert dispatchers that   *)
(* deliver its events to the webhook, and the retention pass that removes  *)
(* what is finished.                                                       *)
(*                                                                         *)
(* Every database call is one atomic step.  Time is what the guards can    *)
(* tell apart: a lease is "none", "live" or "expired" (locked_until), an   *)
(* event is available or not (available_at), the last alert of an incident *)
(* lies within the cooldown ("recent") or not ("past"), and a finished row *)
(* is old once it is past its retention.  Crashes, failed writes and       *)
(* leases that run out under their holders need no bound of their own:     *)
(* each costs an event one of its attempts.                                *)
(***************************************************************************)
EXTENDS Naturals, FiniteSets

CONSTANTS
  Monitors,         \* monitor ids
  Incidents,        \* incident ids; an id is used for at most one incident
  NoMonitor,        \* the monitor of an incident that does not exist
  Dispatchers,      \* processes with APP_ROLE alert-dispatcher
  Threshold,        \* ALERT_FAILURE_THRESHOLD
  MaxAttempts,      \* ALERT_MAX_ATTEMPTS
  BatchLimit,       \* ALERT_DISPATCH_BATCH_SIZE
  RetentionBatch,   \* RETENTION_BATCH_SIZE
  MaxFailures       \* bound: failures counted by one incident

ASSUME OutboxAssumption ==
  /\ NoMonitor \notin Monitors
  /\ Threshold \in Nat \ {0}
  /\ MaxAttempts \in Nat \ {0}
  /\ BatchLimit \in Nat \ {0}
  /\ RetentionBatch \in Nat \ {0}
  /\ MaxFailures \in Nat

VARIABLES
  monitors,     \* the monitors that exist
  incident,     \* the incidents table
  alert,        \* the alert_outbox table, by idempotency key
  tokens,       \* number of lease tokens handed out by newID
  task,         \* per dispatcher: the dispatchAlert goroutines of its batch
  sent,         \* calls of client.Do for each attempt of each event
  accepted      \* events the webhook has answered with 2xx

vars == <<monitors, incident, alert, tokens, task, sent, accepted>>

-----------------------------------------------------------------------------
(* Rows and local state *)

\* The idempotency key of an event: its incident and the failure it reports.
Events == Incidents \X (1..MaxFailures)

\* cooldowns counts the cooldowns that have passed since the first alert.
IncidentRow == [status: {"none", "open", "resolved", "deleted"},
                monitor: Monitors \cup {NoMonitor}, failures: Nat,
                alerted: {"never", "recent", "past"}, alerts: Nat,
                cooldowns: Nat, old: BOOLEAN]

AlertRow == [status: {"none", "pending", "processing", "delivered", "dead", "deleted"},
             attempts: Nat, lease: {"none", "live", "expired"}, token: Nat,
             available: BOOLEAN, old: BOOLEAN]

Unfinished == {"pending", "processing"}
Finished == {"delivered", "dead"}

\* outcome: what Send returned; "none" before it returns.
Task == [event: Events, attempt: 1..MaxAttempts, token: Nat,
         outcome: {"none", "ok", "transient", "permanent"}]

Init ==
  /\ monitors = Monitors
  /\ incident = [i \in Incidents |->
       [status |-> "none", monitor |-> NoMonitor, failures |-> 0, alerted |-> "never",
        alerts |-> 0, cooldowns |-> 0, old |-> FALSE]]
  /\ alert = [k \in Events |-> [status |-> "none", attempts |-> 0, lease |-> "none",
                                token |-> 0, available |-> FALSE, old |-> FALSE]]
  /\ tokens = 0
  /\ task = [d \in Dispatchers |-> {}]
  /\ sent = [k \in Events |-> [a \in 1..MaxAttempts |-> 0]]
  /\ accepted = {}

-----------------------------------------------------------------------------
(* Incidents: the part of AddCheck, Update and Delete that concerns them *)

Open(i, m) == incident[i].status = "open" /\ incident[i].monitor = m

Closed(m) ==
  [i \in Incidents |-> IF Open(i, m) THEN [incident[i] EXCEPT !.status = "resolved"]
                                     ELSE incident[i]]

\* A successful check, and a change of the URL, timeout or expected status,
\* resolve the open incident.
ResolveIncident(m) ==
  /\ m \in monitors
  /\ incident' = Closed(m)
  /\ UNCHANGED <<monitors, alert, tokens, task, sent, accepted>>

\* Mutant: the open incident of the monitor is not looked for.
CountedInAnyIncident(i, m) == incident[i].status = "none"

\* INSERT ... ON CONFLICT (monitor_id) WHERE status = 'open' DO UPDATE.
CountedIn(i, m) ==
  \/ Open(i, m)
  \/ incident[i].status = "none" /\ ~ \E o \in Incidents : Open(o, m)

Failed(row, m) ==
  [row EXCEPT !.status = "open", !.monitor = m, !.failures = @ + 1]

MayAlert(row) == row.failures >= Threshold /\ row.alerted # "recent"

\* Mutant: last_alerted_at is not written.
CountedOnly(row) == [row EXCEPT !.alerts = @ + 1]

Alerted(row) == [row EXCEPT !.alerted = "recent", !.alerts = @ + 1]

NewAlert == [status |-> "pending", attempts |-> 0, lease |-> "none", token |-> 0,
             available |-> TRUE, old |-> FALSE]

\* A failed check, with alerts enabled or not.
UpsertIncidentAndAlert(m, i, enabled) ==
  LET row == Failed(incident[i], m)
      key == <<i, row.failures>> IN
  /\ m \in monitors
  /\ CountedIn(i, m)
  /\ incident[i].failures < MaxFailures
  /\ IF enabled /\ MayAlert(row) /\ alert[key].status \in {"none", "deleted"}
     THEN /\ incident' = [incident EXCEPT ![i] = Alerted(row)]
          /\ alert' = [alert EXCEPT ![key] = NewAlert]
     ELSE incident' = [incident EXCEPT ![i] = row] /\ UNCHANGED alert
  /\ UNCHANGED <<monitors, tokens, task, sent, accepted>>

DeletedAlert(row) ==
  [row EXCEPT !.status = IF @ = "none" THEN "none" ELSE "deleted",
              !.lease = "none", !.token = 0]

\* The foreign keys cascade to the incidents and events of the monitor.
DeleteMonitor(m) ==
  LET gone == {i \in Incidents : incident[i].monitor = m} IN
  /\ m \in monitors
  /\ monitors' = monitors \ {m}
  /\ incident' = [i \in Incidents |-> IF i \in gone
                    THEN [incident[i] EXCEPT !.status = "deleted"] ELSE incident[i]]
  /\ alert' = [k \in Events |-> IF k[1] \in gone THEN DeletedAlert(alert[k]) ELSE alert[k]]
  /\ UNCHANGED <<tokens, task, sent, accepted>>

-----------------------------------------------------------------------------
(* The dispatcher: ClaimAlerts, then one goroutine per claimed event *)

Exhausted(row) ==
  /\ row.attempts >= MaxAttempts
  /\ row.status = "pending" \/ (row.status = "processing" /\ row.lease = "expired")

Buried(row) == [row EXCEPT !.status = "dead", !.lease = "none", !.token = 0]

\* Mutants: the status is not looked at; events whose lease has run out are not
\* taken over.
NotLeased(row) == row.status # "none" /\ row.attempts < MaxAttempts /\ row.lease # "live"

PendingOnly(row) == row.attempts < MaxAttempts /\ row.status = "pending" /\ row.available

Candidate(row) ==
  /\ row.attempts < MaxAttempts
  /\ \/ row.status = "pending" /\ row.available
     \/ row.status = "processing" /\ row.lease = "expired"

\* Mutant: taking an event over does not count as an attempt.
ClaimedAgain(row) ==
  [row EXCEPT !.status = "processing", !.lease = "live", !.token = tokens + 1,
              !.attempts = IF row.status = "pending" THEN @ + 1 ELSE @]

Claimed(row) ==
  [row EXCEPT !.status = "processing", !.attempts = @ + 1, !.lease = "live",
              !.token = tokens + 1]

\* Rows that another transaction has locked are skipped, so any candidates.  The
\* next batch is claimed when every goroutine of the last one has returned.
ClaimAlerts(d, batch) ==
  /\ task[d] = {}
  /\ batch \subseteq {k \in Events : Candidate(alert[k])}
  /\ Cardinality(batch) <= BatchLimit
  /\ alert' = [k \in Events |-> IF Exhausted(alert[k]) THEN Buried(alert[k])
                                ELSE IF k \in batch THEN Claimed(alert[k])
                                ELSE alert[k]]
  /\ tokens' = IF batch = {} THEN tokens ELSE tokens + 1
  /\ task' = [task EXCEPT ![d] =
       {[event |-> k, attempt |-> Claimed(alert[k]).attempts, token |-> tokens + 1,
         outcome |-> "none"] : k \in batch}]
  /\ UNCHANGED <<monitors, incident, sent, accepted>>

Moved(d, t, u) == task' = [task EXCEPT ![d] = (@ \ {t}) \cup u]

\* The request is handed to the HTTP client (client.Do).  The webhook accepts the
\* event or refuses it; the answer may not arrive in time.  That net/http may repeat a
\* request with an Idempotency-Key on another connection stays inside the one call.
Send(d, t) ==
  /\ t \in task[d]
  /\ t.outcome = "none"
  /\ sent' = [sent EXCEPT ![t.event][t.attempt] = @ + 1]
  /\ \/ /\ accepted' = accepted \cup {t.event}
        /\ \E o \in {"ok", "transient"} : Moved(d, t, {[t EXCEPT !.outcome = o]})
     \/ /\ UNCHANGED accepted
        /\ \E o \in {"transient", "permanent"} : Moved(d, t, {[t EXCEPT !.outcome = o]})
  /\ UNCHANGED <<monitors, incident, alert, tokens>>

\* Mutant: the token is not compared.
OwnsAnyLease(t) == alert[t.event].status = "processing"

\* The expiry of the lease is not part of the test.
OwnsLease(t) == alert[t.event].status = "processing" /\ alert[t.event].token = t.token

Delivered(row) == [row EXCEPT !.status = "delivered", !.lease = "none", !.token = 0]

MarkAlertDelivered(d, t) ==
  /\ t \in task[d]
  /\ t.outcome = "ok"
  /\ alert' = IF OwnsLease(t) THEN [alert EXCEPT ![t.event] = Delivered(@)] ELSE alert
  /\ Moved(d, t, {})
  /\ UNCHANGED <<monitors, incident, tokens, sent, accepted>>

\* Mutant: any other answer than 2xx counts as a delivery.
DeliveredAnyway(t) == "delivered"

StatusAfterFailure(t) ==
  IF t.outcome = "permanent" \/ t.attempt >= MaxAttempts THEN "dead" ELSE "pending"

Refused(row, t) ==
  [row EXCEPT !.status = StatusAfterFailure(t), !.lease = "none", !.token = 0,
              !.available = FALSE]

MarkAlertFailed(d, t) ==
  /\ t \in task[d]
  /\ t.outcome \in {"transient", "permanent"}
  /\ alert' = IF OwnsLease(t) THEN [alert EXCEPT ![t.event] = Refused(@, t)] ELSE alert
  /\ Moved(d, t, {})
  /\ UNCHANGED <<monitors, incident, tokens, sent, accepted>>

\* The write of the outcome fails: it is logged, not retried.
AlertWriteFails(d, t) ==
  /\ t \in task[d]
  /\ t.outcome # "none"
  /\ Moved(d, t, {})
  /\ UNCHANGED <<monitors, incident, alert, tokens, sent, accepted>>

\* The process stops, or ClaimAlerts commits and its reply is lost.
DispatcherCrash(d) ==
  /\ task[d] # {}
  /\ task' = [task EXCEPT ![d] = {}]
  /\ UNCHANGED <<monitors, incident, alert, tokens, sent, accepted>>

-----------------------------------------------------------------------------
(* Retention: the statements of DeleteExpiredData on these two tables *)

ExpiredAlerts == {k \in Events : alert[k].status \in Finished /\ alert[k].old}

\* Mutant: events of the incident are not looked for.
AllResolvedIncidents(gone) ==
  {i \in Incidents : incident[i].status = "resolved" /\ incident[i].old}

\* gone: the events deleted by the statement before.
ExpiredIncidents(gone) ==
  {i \in Incidents :
     /\ incident[i].status = "resolved" /\ incident[i].old
     /\ \A k \in Events \ gone : k[1] = i => alert[k].status \in {"none", "deleted"}}

DeleteExpiredData(gone, incidents) ==
  /\ gone \subseteq ExpiredAlerts
  /\ Cardinality(gone) <= RetentionBatch
  /\ incidents \subseteq ExpiredIncidents(gone)
  /\ Cardinality(incidents) <= RetentionBatch
  /\ alert' = [k \in Events |-> IF k \in gone \/ k[1] \in incidents
                                THEN DeletedAlert(alert[k]) ELSE alert[k]]
  /\ incident' = [i \in Incidents |-> IF i \in incidents
                    THEN [incident[i] EXCEPT !.status = "deleted"] ELSE incident[i]]
  /\ UNCHANGED <<monitors, tokens, task, sent, accepted>>

-----------------------------------------------------------------------------
(* Time *)

ExpireAlertLease(k) ==
  /\ alert[k].lease = "live"
  /\ alert' = [alert EXCEPT ![k].lease = "expired"]
  /\ UNCHANGED <<monitors, incident, tokens, task, sent, accepted>>

BecomeAvailable(k) ==
  /\ alert[k].status = "pending" /\ ~alert[k].available
  /\ alert' = [alert EXCEPT ![k].available = TRUE]
  /\ UNCHANGED <<monitors, incident, tokens, task, sent, accepted>>

Cooled(row) == [row EXCEPT !.alerted = "past", !.cooldowns = @ + 1]

CooldownPasses(i) ==
  /\ incident[i].alerted = "recent"
  /\ incident' = [incident EXCEPT ![i] = Cooled(@)]
  /\ UNCHANGED <<monitors, alert, tokens, task, sent, accepted>>

Age ==
  /\ \/ /\ \E k \in Events : /\ alert[k].status \in Finished /\ ~alert[k].old
                             /\ alert' = [alert EXCEPT ![k].old = TRUE]
        /\ UNCHANGED incident
     \/ /\ \E i \in Incidents : /\ incident[i].status = "resolved" /\ ~incident[i].old
                                /\ incident' = [incident EXCEPT ![i].old = TRUE]
        /\ UNCHANGED alert
  /\ UNCHANGED <<monitors, tokens, task, sent, accepted>>

-----------------------------------------------------------------------------
(* The specification *)

CheckStep ==
  \E m \in Monitors :
    \/ ResolveIncident(m)
    \/ \E i \in Incidents, enabled \in BOOLEAN : UpsertIncidentAndAlert(m, i, enabled)
    \/ DeleteMonitor(m)

DispatcherStep(d) ==
  \/ \E batch \in SUBSET Events : ClaimAlerts(d, batch)
  \/ \E t \in task[d] : \/ Send(d, t)
                        \/ MarkAlertDelivered(d, t)
                        \/ MarkAlertFailed(d, t)
                        \/ AlertWriteFails(d, t)
  \/ DispatcherCrash(d)

RetentionStep ==
  \E gone \in SUBSET Events, incidents \in SUBSET Incidents : DeleteExpiredData(gone, incidents)

TimeStep ==
  \/ \E k \in Events : ExpireAlertLease(k) \/ BecomeAvailable(k)
  \/ \E i \in Incidents : CooldownPasses(i)
  \/ Age

Next ==
  \/ CheckStep
  \/ \E d \in Dispatchers : DispatcherStep(d)
  \/ RetentionStep
  \/ TimeStep

Spec == Init /\ [][Next]_vars

\* Dispatchers poll, goroutines finish (Send and the writes have timeouts), and
\* clocks advance.  ClaimAlerts orders by available_at, so an event that stays a
\* candidate is claimed some time although a pass may skip it.
Fairness ==
  /\ \A d \in Dispatchers :
       /\ WF_vars(\E t \in task[d] : Send(d, t) \/ MarkAlertDelivered(d, t)
                                     \/ MarkAlertFailed(d, t))
       /\ WF_vars(\E batch \in SUBSET Events : ClaimAlerts(d, batch))
       /\ \A k \in Events :
            SF_vars(\E batch \in SUBSET Events : k \in batch /\ ClaimAlerts(d, batch))
  /\ \A k \in Events : WF_vars(ExpireAlertLease(k)) /\ WF_vars(BecomeAvailable(k))

FairSpec == Spec /\ Fairness

-----------------------------------------------------------------------------
(* Properties *)

TypeOK ==
  /\ monitors \subseteq Monitors
  /\ incident \in [Incidents -> IncidentRow]
  /\ alert \in [Events -> AlertRow]
  /\ tokens \in Nat
  /\ task \in [Dispatchers -> SUBSET Task]
  /\ sent \in [Events -> [1..MaxAttempts -> Nat]]
  /\ accepted \subseteq Events

\* A monitor has at most one open incident, however its checks interleave.
OneOpenIncident ==
  \A m \in Monitors : \A i, o \in Incidents : Open(i, m) /\ Open(o, m) => i = o

\* An incident raises one alert and then at most one per cooldown, and every alert
\* it counts has its event: none is lost between the incident and the outbox.
AlertsAccounted ==
  \A i \in Incidents :
    /\ incident[i].alerts <= incident[i].cooldowns + 1
    /\ incident[i].alerts = Cardinality({k \in Events : k[1] = i /\ alert[k].status # "none"})

\* At most one goroutine may record the outcome of an event, although a claim
\* that has run out is taken over while its first goroutine still waits.
ExclusiveAlertLease ==
  \A d, e \in Dispatchers : \A t \in task[d], u \in task[e] :
    t.event = u.event /\ OwnsLease(t) /\ OwnsLease(u) => d = e /\ t = u

\* Each attempt is handed to the HTTP client at most once, so client.Do is called for
\* an event at most MaxAttempts times however many dispatchers stop or lose their
\* leases.  What net/http repeats within a call is not counted.
AttemptsSentOnce == \A k \in Events, a \in 1..MaxAttempts : sent[k][a] <= 1

\* An event is recorded as delivered only if the webhook has accepted it.
DeliveredWasAccepted == \A k \in Events : alert[k].status = "delivered" => k \in accepted

\* A delivered or dead event is never taken up again.
FinishedStaysFinished ==
  [][\A k \in Events : alert[k].status \in Finished =>
       alert'[k].status \in {alert[k].status, "deleted"}]_vars

\* Retention never removes an event that has not been delivered or given up, not
\* even through the cascade from its incident; only its monitor's deletion does.
UnfinishedAlertsKept ==
  [][\A k \in Events : alert[k].status \in Unfinished /\ alert'[k].status = "deleted" =>
       monitors' # monitors]_vars

\* Every event is delivered, given up or deleted in the end.
AlertsFinish == \A k \in Events : alert[k].status \in Unfinished ~> alert[k].status \notin Unfinished

-----------------------------------------------------------------------------
(* The parts of the inductive invariant the proofs rest on *)

\* A failure that has not been counted has no event: idempotency keys are used once.
FreshKeysInv ==
  \A k \in Events :
    /\ k[2] > incident[k[1]].failures => alert[k].status = "none"
    /\ alert[k].status = "none" => alert[k].attempts = 0

\* A goroutine carries a token and an attempt that were handed out for its event,
\* and no two goroutines share them.
TasksInv ==
  /\ \A d \in Dispatchers : \A t \in task[d] :
       t.token \in 1..tokens /\ t.attempt <= alert[t.event].attempts
  /\ \A d, e \in Dispatchers : \A t \in task[d], u \in task[e] :
       t.event = u.event /\ (t.token = u.token \/ t.attempt = u.attempt) => d = e /\ t = u

\* Attempts that have not been handed out, or whose goroutine has not called Send,
\* have not been sent.
SentInv ==
  /\ \A k \in Events, a \in 1..MaxAttempts : a > alert[k].attempts => sent[k][a] = 0
  /\ \A d \in Dispatchers : \A t \in task[d] :
       t.outcome = "none" => sent[t.event][t.attempt] = 0

\* A goroutine that has seen a 2xx answer reports an event the webhook accepted.
AcceptedInv == \A d \in Dispatchers : \A t \in task[d] : t.outcome = "ok" => t.event \in accepted
=============================================================================
