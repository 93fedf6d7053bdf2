------------------------- MODULE AlertOutboxProofs --------------------------
(***************************************************************************)
(* Safety of the alert outbox and of the delays between its attempts, for  *)
(* every set of monitors, incidents and dispatchers, every value of the    *)
(* bounds and every width of a duration.                                   *)
(***************************************************************************)
EXTENDS AlertDelivery, TLAPS, FiniteSetTheorems, NaturalsInduction, WellFoundedInduction

\* What the statements of the repository make of a row of alert_outbox.
LEMMA AlertRows ==
  ASSUME NEW row \in AlertRow
  PROVE  /\ Buried(row) \in AlertRow
         /\ Buried(row).status = "dead" /\ Buried(row).attempts = row.attempts
         /\ Delivered(row) \in AlertRow
         /\ Delivered(row).status = "delivered" /\ Delivered(row).attempts = row.attempts
         /\ DeletedAlert(row) \in AlertRow
         /\ DeletedAlert(row).status = IF row.status = "none" THEN "none" ELSE "deleted"
         /\ DeletedAlert(row).attempts = row.attempts
<1>1. Buried(row) \in AlertRow /\ Delivered(row) \in AlertRow /\ DeletedAlert(row) \in AlertRow
  BY ZenonT(40) DEF AlertRow, Buried, Delivered, DeletedAlert
<1> QED
  BY <1>1 DEF AlertRow, Buried, Delivered, DeletedAlert

\* MarkAlertFailed on a row.
LEMMA RefusedRow ==
  ASSUME NEW row \in AlertRow, NEW t
  PROVE  /\ Refused(row, t) \in AlertRow
         /\ Refused(row, t).status \in {"dead", "pending"}
         /\ Refused(row, t).attempts = row.attempts
<1>1. StatusAfterFailure(t) \in {"dead", "pending"}
  BY DEF StatusAfterFailure
<1>2. \A s \in {"dead", "pending"} :
        [row EXCEPT !.status = s, !.lease = "none", !.token = 0, !.available = FALSE] \in AlertRow
  BY ZenonT(40) DEF AlertRow
<1>3. Refused(row, t) \in AlertRow
  BY ZenonT(40), <1>1, <1>2 DEF Refused
<1> QED
  BY <1>1, <1>3 DEF AlertRow, Refused

\* ClaimAlerts on a row.
LEMMA ClaimedRow ==
  ASSUME NEW row \in AlertRow, tokens \in Nat
  PROVE  /\ Claimed(row) \in AlertRow
         /\ Claimed(row).status = "processing"
         /\ Claimed(row).attempts = row.attempts + 1
         /\ Claimed(row).token = tokens + 1
<1>1. tokens + 1 \in Nat /\ row.attempts + 1 \in Nat
  BY DEF AlertRow
<1>2. \A n, a \in Nat : [row EXCEPT !.status = "processing", !.attempts = a, !.lease = "live",
                                    !.token = n] \in AlertRow
  BY ZenonT(40) DEF AlertRow
<1>3. Claimed(row) = [row EXCEPT !.status = "processing", !.attempts = row.attempts + 1,
                                 !.lease = "live", !.token = tokens + 1]
  BY DEF Claimed
<1>4. Claimed(row) \in AlertRow
  BY ZenonT(40), <1>1, <1>2, <1>3
<1> QED
  BY <1>3, <1>4 DEF AlertRow

\* The passing of time turns over one field of a row.
LEMMA TimedRows ==
  ASSUME NEW row \in AlertRow
  PROVE  /\ [row EXCEPT !.lease = "expired"] \in AlertRow
         /\ [row EXCEPT !.available = TRUE] \in AlertRow
         /\ [row EXCEPT !.old = TRUE] \in AlertRow
         /\ [row EXCEPT !.lease = "expired"].status = row.status
         /\ [row EXCEPT !.lease = "expired"].attempts = row.attempts
         /\ [row EXCEPT !.available = TRUE].status = row.status
         /\ [row EXCEPT !.available = TRUE].attempts = row.attempts
         /\ [row EXCEPT !.old = TRUE].status = row.status
         /\ [row EXCEPT !.old = TRUE].attempts = row.attempts
<1>1. /\ [row EXCEPT !.lease = "expired"] \in AlertRow
      /\ [row EXCEPT !.available = TRUE] \in AlertRow
      /\ [row EXCEPT !.old = TRUE] \in AlertRow
  BY ZenonT(40) DEF AlertRow
<1> QED
  BY <1>1 DEF AlertRow

\* What a check makes of a row of incidents.
LEMMA IncidentRows ==
  ASSUME NEW row \in IncidentRow, NEW m \in Monitors
  PROVE  /\ Failed(row, m) \in IncidentRow
         /\ Failed(row, m).status = "open" /\ Failed(row, m).monitor = m
         /\ Failed(row, m).failures = row.failures + 1
         /\ Alerted(row) \in IncidentRow
         /\ Alerted(row).status = row.status /\ Alerted(row).monitor = row.monitor
         /\ Alerted(row).failures = row.failures
<1>1. row.failures + 1 \in Nat /\ row.alerts + 1 \in Nat
  BY DEF IncidentRow
<1>2. \A n \in Nat : [row EXCEPT !.status = "open", !.monitor = m, !.failures = n] \in IncidentRow
  BY ZenonT(40) DEF IncidentRow
<1>3. \A n \in Nat : [row EXCEPT !.alerted = "recent", !.alerts = n] \in IncidentRow
  BY ZenonT(40) DEF IncidentRow
<1>4. Failed(row, m) = [row EXCEPT !.status = "open", !.monitor = m, !.failures = row.failures + 1]
  BY DEF Failed
<1>5. Alerted(row) = [row EXCEPT !.alerted = "recent", !.alerts = row.alerts + 1]
  BY DEF Alerted
<1>6. Failed(row, m) \in IncidentRow /\ Alerted(row) \in IncidentRow
  BY ZenonT(40), <1>1, <1>2, <1>3, <1>4, <1>5
<1> QED
  BY <1>4, <1>5, <1>6 DEF IncidentRow

\* Resolution, deletion and time on a row of incidents.
LEMMA OtherIncidentRows ==
  ASSUME NEW row \in IncidentRow
  PROVE  /\ \A s \in {"resolved", "deleted"} :
              /\ [row EXCEPT !.status = s] \in IncidentRow
              /\ [row EXCEPT !.status = s].status = s
              /\ [row EXCEPT !.status = s].failures = row.failures
         /\ [row EXCEPT !.old = TRUE] \in IncidentRow
         /\ [row EXCEPT !.old = TRUE].status = row.status
         /\ [row EXCEPT !.old = TRUE].monitor = row.monitor
         /\ [row EXCEPT !.old = TRUE].failures = row.failures
         /\ Cooled(row) \in IncidentRow
         /\ Cooled(row).status = row.status
         /\ Cooled(row).monitor = row.monitor
         /\ Cooled(row).failures = row.failures
<1>1. /\ \A s \in {"resolved", "deleted"} : [row EXCEPT !.status = s] \in IncidentRow
      /\ [row EXCEPT !.old = TRUE] \in IncidentRow
  BY ZenonT(40) DEF IncidentRow
<1>2. \A n \in Nat : [row EXCEPT !.alerted = "past", !.cooldowns = n] \in IncidentRow
  BY ZenonT(40) DEF IncidentRow
<1>3. row.cooldowns + 1 \in Nat
  BY DEF IncidentRow
<1>4. Cooled(row) = [row EXCEPT !.alerted = "past", !.cooldowns = row.cooldowns + 1]
  BY DEF Cooled
<1>5. Cooled(row) \in IncidentRow
  BY ZenonT(40), <1>2, <1>3, <1>4
<1> QED
  BY <1>1, <1>4, <1>5 DEF IncidentRow

-----------------------------------------------------------------------------
(* Type correctness *)

\* The goroutines of a batch: the same set with one of them removed or advanced.
LEMMA MovedTasks ==
  ASSUME task \in [Dispatchers -> SUBSET Task], NEW d \in Dispatchers, NEW t \in task[d],
         NEW u \in SUBSET Task, Moved(d, t, u)
  PROVE  /\ task' \in [Dispatchers -> SUBSET Task]
         /\ task'[d] = (task[d] \ {t}) \cup u
         /\ \A e \in Dispatchers : e # d => task'[e] = task[e]
BY DEF Moved

\* A goroutine whose Send has returned.
LEMMA AdvancedTask ==
  ASSUME NEW t \in Task, NEW o \in {"ok", "transient", "permanent"}
  PROVE  /\ [t EXCEPT !.outcome = o] \in Task
         /\ [t EXCEPT !.outcome = o].event = t.event
         /\ [t EXCEPT !.outcome = o].attempt = t.attempt
         /\ [t EXCEPT !.outcome = o].token = t.token
         /\ [t EXCEPT !.outcome = o].outcome = o
BY DEF Task

\* What Send leaves behind: the goroutine has moved on with some outcome, and "ok"
\* only if the webhook accepted the event.
LEMMA SendEffect ==
  ASSUME NEW d \in Dispatchers, NEW t, Send(d, t)
  PROVE  \E o \in {"ok", "transient", "permanent"} :
           /\ Moved(d, t, {[t EXCEPT !.outcome = o]})
           /\ accepted' \in {accepted, accepted \cup {t.event}}
           /\ o = "ok" => t.event \in accepted'
BY ZenonT(40) DEF Send

\* What a claim hands to the goroutines.
LEMMA BatchTasks ==
  ASSUME alert \in [Events -> AlertRow], tokens \in Nat, NEW d \in Dispatchers,
         NEW batch, ClaimAlerts(d, batch),
         task \in [Dispatchers -> SUBSET Task]
  PROVE  /\ batch \subseteq Events
         /\ task' \in [Dispatchers -> SUBSET Task]
         /\ \A e \in Dispatchers : e # d => task'[e] = task[e]
         /\ \A t \in task'[d] :
              /\ t.event \in batch
              /\ t.attempt = alert[t.event].attempts + 1
              /\ t.token = tokens + 1
              /\ t.outcome = "none"
              /\ t = [event |-> t.event, attempt |-> alert[t.event].attempts + 1,
                      token |-> tokens + 1, outcome |-> "none"]
<1> DEFINE T(k) == [event |-> k, attempt |-> Claimed(alert[k]).attempts, token |-> tokens + 1,
                    outcome |-> "none"]
           S == {T(k) : k \in batch}
<1>1. batch \subseteq Events /\ \A k \in batch : alert[k].attempts < MaxAttempts
  BY DEF ClaimAlerts, Candidate
<1>2. \A k \in batch : Claimed(alert[k]).attempts = alert[k].attempts + 1
  BY <1>1, ClaimedRow
<1>3. \A k \in batch : Claimed(alert[k]).attempts \in 1..MaxAttempts
  <2> SUFFICES ASSUME NEW k \in batch PROVE Claimed(alert[k]).attempts \in 1..MaxAttempts
    OBVIOUS
  <2>1. alert[k].attempts \in Nat
    BY <1>1 DEF AlertRow
  <2> QED
    BY <1>1, <1>2, <2>1, OutboxAssumption
<1>4. S \subseteq Task
  <2> SUFFICES ASSUME NEW k \in batch PROVE T(k) \in Task
    OBVIOUS
  <2> QED
    BY <1>1, <1>3 DEF Task
<1>5. task' = [task EXCEPT ![d] = S]
  BY ZenonT(40) DEF ClaimAlerts
<1>6. \A t \in S : \E k \in batch : t = T(k)
  OBVIOUS
<1>7. task'[d] = S /\ task' \in [Dispatchers -> SUBSET Task]
      /\ \A e \in Dispatchers : e # d => task'[e] = task[e]
  <2> HIDE DEF S
  <2> QED
    BY <1>4, <1>5
<1>8. ASSUME NEW t \in task'[d]
      PROVE  /\ t.event \in batch
             /\ t.attempt = alert[t.event].attempts + 1
             /\ t.token = tokens + 1
             /\ t.outcome = "none"
             /\ t = [event |-> t.event, attempt |-> alert[t.event].attempts + 1,
                     token |-> tokens + 1, outcome |-> "none"]
  <2>1. PICK k \in batch : t = T(k)
    BY <1>6, <1>7, <1>8
  <2> QED
    BY <2>1, <1>2
<1> QED
  BY <1>1, <1>7, <1>8

-----------------------------------------------------------------------------
(* The inductive invariant *)

IInv ==
  /\ TypeOK
  /\ FreshKeysInv
  /\ TasksInv
  /\ SentInv
  /\ AcceptedInv
  /\ AttemptsSentOnce
  /\ DeliveredWasAccepted

\* What a step may do to a row of the outbox, other than create or claim it: keep
\* its attempts; record an accepted event as delivered; bury, release or delete it,
\* an unfinished one only with its monitor.
RowKept(old, new, k) ==
  /\ new.attempts = old.attempts
  /\ new.status = "none" <=> old.status = "none"
  /\ new.status = "delivered" => old.status = "delivered" \/ k \in accepted
  /\ old.status \in Finished => new.status \in {old.status, "deleted"}
  /\ old.status \in Unfinished /\ new.status = "deleted" => monitors' # monitors

\* A step that hands out no event, token or attempt and makes no request: it may
\* rewrite rows, count failures and end goroutines.
Quiet ==
  /\ monitors' \subseteq Monitors
  /\ incident' \in [Incidents -> IncidentRow]
  /\ \A i \in Incidents : incident'[i].failures >= incident[i].failures
  /\ alert' \in [Events -> AlertRow]
  /\ \A k \in Events : RowKept(alert[k], alert'[k], k)
  /\ task' \in [Dispatchers -> SUBSET Task]
  /\ \A d \in Dispatchers : task'[d] \subseteq task[d]
  /\ UNCHANGED <<tokens, sent, accepted>>

\* Such a step preserves the invariant.
LEMMA QuietKeeps ==
  ASSUME IInv, Quiet
  PROVE  IInv'
<1>1. TypeOK'
  BY DEF IInv, Quiet, TypeOK
<1>2. FreshKeysInv'
  <2> SUFFICES ASSUME NEW k \in Events
               PROVE  /\ k[2] > incident'[k[1]].failures => alert'[k].status = "none"
                      /\ alert'[k].status = "none" => alert'[k].attempts = 0
    BY DEF FreshKeysInv
  <2>1. k[1] \in Incidents /\ k[2] \in Nat
    BY OutboxAssumption DEF Events
  <2>2. incident[k[1]].failures \in Nat /\ incident'[k[1]].failures \in Nat
    BY <2>1 DEF IInv, TypeOK, Quiet, IncidentRow
  <2>3. k[2] > incident'[k[1]].failures => k[2] > incident[k[1]].failures
    BY <2>1, <2>2 DEF Quiet
  <2> QED
    BY <2>3 DEF IInv, Quiet, RowKept, FreshKeysInv
<1>3. TasksInv'
  <2>1. \A d \in Dispatchers : \A t \in task'[d] : t \in task[d] /\ t.event \in Events
    BY DEF Quiet, IInv, TypeOK, Task
  <2> QED
    BY <2>1 DEF Quiet, RowKept, IInv, TasksInv
<1>4. SentInv' /\ AttemptsSentOnce'
  <2>1. \A d \in Dispatchers : \A t \in task'[d] : t \in task[d]
    BY DEF Quiet
  <2> QED
    BY <2>1 DEF Quiet, RowKept, IInv, SentInv, AttemptsSentOnce
<1>5. AcceptedInv' /\ DeliveredWasAccepted'
  BY DEF Quiet, RowKept, IInv, AcceptedInv, DeliveredWasAccepted
<1> QED
  BY <1>1, <1>2, <1>3, <1>4, <1>5 DEF IInv

\* A row that stays as it is.
LEMMA SameRow ==
  ASSUME NEW row \in AlertRow, NEW k
  PROVE  RowKept(row, row, k)
BY DEF RowKept, AlertRow, Unfinished

\* A step that changes one row of the outbox.
LEMMA OneRow ==
  ASSUME TypeOK, NEW e \in Events, NEW row \in AlertRow,
         alert' = [alert EXCEPT ![e] = row],
         RowKept(alert[e], row, e)
  PROVE  /\ alert' \in [Events -> AlertRow]
         /\ \A k \in Events : RowKept(alert[k], alert'[k], k)
<1>1. alert \in [Events -> AlertRow]
  BY DEF TypeOK
<1>2. alert'[e] = row /\ \A k \in Events \ {e} : alert'[k] = alert[k]
  BY <1>1
<1>3. alert' \in [Events -> AlertRow]
  BY <1>1
<1>4. \A k \in Events : RowKept(alert[k], alert[k], k)
  BY <1>1, SameRow
<1> QED
  BY <1>2, <1>3, <1>4

\* A step that changes one row of the incidents, without a new failure.
LEMMA OneIncident ==
  ASSUME TypeOK, NEW i \in Incidents, NEW row \in IncidentRow,
         incident' = [incident EXCEPT ![i] = row],
         row.failures >= incident[i].failures
  PROVE  /\ incident' \in [Incidents -> IncidentRow]
         /\ \A j \in Incidents : incident'[j].failures >= incident[j].failures
<1>1. incident \in [Incidents -> IncidentRow]
  BY DEF TypeOK
<1>2. incident'[i] = row /\ \A j \in Incidents \ {i} : incident'[j] = incident[j]
  BY <1>1
<1>3. \A j \in Incidents : incident[j].failures >= incident[j].failures
  BY <1>1 DEF IncidentRow
<1>4. incident' \in [Incidents -> IncidentRow]
  BY <1>1
<1> QED
  BY <1>2, <1>3, <1>4
-----------------------------------------------------------------------------
(* The quiet actions *)

\* A goroutine that ends.
LEMMA EndedTask ==
  ASSUME TypeOK, NEW d \in Dispatchers, NEW t \in task[d], Moved(d, t, {})
  PROVE  /\ task' \in [Dispatchers -> SUBSET Task]
         /\ \A e \in Dispatchers : task'[e] \subseteq task[e]
<1>1. {} \in SUBSET Task /\ task \in [Dispatchers -> SUBSET Task]
  BY DEF TypeOK
<1> QED
  BY <1>1, MovedTasks

\* Statements that leave a table alone.
LEMMA SameTables ==
  ASSUME TypeOK
  PROVE  /\ monitors' = monitors => monitors' \subseteq Monitors
         /\ incident' = incident =>
              /\ incident' \in [Incidents -> IncidentRow]
              /\ \A i \in Incidents : incident'[i].failures >= incident[i].failures
         /\ alert' = alert =>
              /\ alert' \in [Events -> AlertRow]
              /\ \A k \in Events : RowKept(alert[k], alert'[k], k)
         /\ task' = task =>
              /\ task' \in [Dispatchers -> SUBSET Task]
              /\ \A d \in Dispatchers : task'[d] \subseteq task[d]
<1>1. ASSUME incident' = incident
      PROVE  /\ incident' \in [Incidents -> IncidentRow]
             /\ \A i \in Incidents : incident'[i].failures >= incident[i].failures
  BY <1>1 DEF TypeOK, IncidentRow
<1>2. ASSUME alert' = alert
      PROVE  /\ alert' \in [Events -> AlertRow]
             /\ \A k \in Events : RowKept(alert[k], alert'[k], k)
  <2>1. alert \in [Events -> AlertRow]
    BY DEF TypeOK
  <2>2. \A k \in Events : RowKept(alert[k], alert[k], k)
    BY <2>1, SameRow
  <2> QED
    BY <1>2, <2>1, <2>2
<1> QED
  BY <1>1, <1>2 DEF TypeOK

\* Incidents that are resolved or deleted keep their failures.
LEMMA ClosedRows ==
  ASSUME TypeOK, NEW S, NEW s \in {"resolved", "deleted"},
         incident' = [i \in Incidents |-> IF i \in S THEN [incident[i] EXCEPT !.status = s]
                                                     ELSE incident[i]]
  PROVE  /\ incident' \in [Incidents -> IncidentRow]
         /\ \A i \in Incidents : incident'[i].failures >= incident[i].failures
<1>1. incident \in [Incidents -> IncidentRow]
  BY DEF TypeOK
<1>2. ASSUME NEW i \in Incidents
      PROVE  incident'[i] \in IncidentRow /\ incident'[i].failures = incident[i].failures
  <2>1. incident[i] \in IncidentRow
    BY <1>1
  <2>2. CASE i \in S
    <3>1. incident'[i] = [incident[i] EXCEPT !.status = s]
      BY <2>2
    <3> QED
      BY ZenonT(40), <2>1, <3>1, OtherIncidentRows
  <2>3. CASE i \notin S
    BY <2>1, <2>3
  <2> QED
    BY <2>2, <2>3
<1>3. \A i \in Incidents : incident[i].failures \in Nat
  BY <1>1 DEF IncidentRow
<1> QED
  BY <1>2, <1>3

\* Deleted events, unfinished ones only with their monitor.
LEMMA DeletedRows ==
  ASSUME TypeOK, NEW S,
         alert' = [k \in Events |-> IF k \in S THEN DeletedAlert(alert[k]) ELSE alert[k]],
         \A k \in Events \cap S : alert[k].status \in Unfinished => monitors' # monitors
  PROVE  /\ alert' \in [Events -> AlertRow]
         /\ \A k \in Events : RowKept(alert[k], alert'[k], k)
<1>1. alert \in [Events -> AlertRow]
  BY DEF TypeOK
<1>2. ASSUME NEW k \in Events
      PROVE  alert'[k] \in AlertRow /\ RowKept(alert[k], alert'[k], k)
  <2>1. alert[k] \in AlertRow
    BY <1>1
  <2>2. CASE k \in S
    <3>1. alert'[k] = DeletedAlert(alert[k])
      BY <2>2
    <3>2. DeletedAlert(alert[k]) \in AlertRow
          /\ DeletedAlert(alert[k]).status = (IF alert[k].status = "none" THEN "none" ELSE "deleted")
          /\ DeletedAlert(alert[k]).attempts = alert[k].attempts
      BY <2>1, AlertRows
    <3> QED
      BY <2>2, <3>1, <3>2 DEF RowKept, Finished
  <2>3. CASE k \notin S
    <3>1. alert'[k] = alert[k]
      BY <2>3
    <3> QED
      BY <2>1, <3>1, SameRow
  <2> QED
    BY <2>2, <2>3
<1> QED
  BY <1>2
\* Steps of checks and of the API that raise no alert, and of retention.
LEMMA QuietTables ==
  ASSUME TypeOK
  PROVE  /\ \A m \in Monitors : ResolveIncident(m) => Quiet
         /\ \A m \in Monitors : DeleteMonitor(m) => Quiet
         /\ \A gone \in SUBSET Events, incidents \in SUBSET Incidents :
              DeleteExpiredData(gone, incidents) => Quiet
<1>1. ASSUME NEW m \in Monitors, ResolveIncident(m) PROVE Quiet
  <2> DEFINE S == {i \in Incidents : Open(i, m)}
  <2>1. incident' = [i \in Incidents |-> IF i \in S THEN [incident[i] EXCEPT !.status = "resolved"]
                                                    ELSE incident[i]]
    BY <1>1 DEF ResolveIncident, Closed
  <2> HIDE DEF S
  <2>2. UNCHANGED <<monitors, alert, tokens, task, sent, accepted>>
    BY <1>1 DEF ResolveIncident
  <2> QED
    BY ZenonT(40), <2>1, <2>2, ClosedRows, SameTables DEF Quiet
<1>2. ASSUME NEW m \in Monitors, DeleteMonitor(m) PROVE Quiet
  <2> DEFINE G == {i \in Incidents : incident[i].monitor = m}
             S == {k \in Events : k[1] \in G}
  <2>1. incident' = [i \in Incidents |-> IF i \in G THEN [incident[i] EXCEPT !.status = "deleted"]
                                                    ELSE incident[i]]
    BY <1>2 DEF DeleteMonitor
  <2>2. alert' = [k \in Events |-> IF k \in S THEN DeletedAlert(alert[k]) ELSE alert[k]]
    BY <1>2 DEF DeleteMonitor
  <2> HIDE DEF G, S
  <2>3. m \in monitors /\ monitors' = monitors \ {m} /\ UNCHANGED <<tokens, task, sent, accepted>>
    BY <1>2 DEF DeleteMonitor
  <2>4. monitors' # monitors /\ monitors' \subseteq Monitors
    BY <2>3 DEF TypeOK
  <2> QED
    BY ZenonT(40), <2>1, <2>2, <2>3, <2>4, ClosedRows, DeletedRows, SameTables DEF Quiet
<1>3. ASSUME NEW gone \in SUBSET Events, NEW incidents \in SUBSET Incidents,
             DeleteExpiredData(gone, incidents)
      PROVE  Quiet
  <2> DEFINE S == {k \in Events : k \in gone \/ k[1] \in incidents}
  <2>1. incident' = [i \in Incidents |-> IF i \in incidents
                       THEN [incident[i] EXCEPT !.status = "deleted"] ELSE incident[i]]
    BY <1>3 DEF DeleteExpiredData
  <2>2. alert' = [k \in Events |-> IF k \in S THEN DeletedAlert(alert[k]) ELSE alert[k]]
    BY <1>3 DEF DeleteExpiredData
  <2>3. \A k \in Events \cap S : alert[k].status \notin Unfinished
    BY <1>3 DEF DeleteExpiredData, ExpiredAlerts, ExpiredIncidents, Unfinished, Finished
  <2> HIDE DEF S
  <2>4. UNCHANGED <<monitors, tokens, task, sent, accepted>>
    BY <1>3 DEF DeleteExpiredData
  <2> QED
    BY ZenonT(40), <2>1, <2>2, <2>3, <2>4, ClosedRows, DeletedRows, SameTables DEF Quiet
<1> QED
  BY <1>1, <1>2, <1>3

\* Steps of a dispatcher's goroutines after Send, and crashes.
LEMMA QuietDispatch ==
  ASSUME TypeOK, AcceptedInv, NEW d \in Dispatchers
  PROVE  /\ \A t \in task[d] : MarkAlertDelivered(d, t) => Quiet
         /\ \A t \in task[d] : MarkAlertFailed(d, t) => Quiet
         /\ \A t \in task[d] : AlertWriteFails(d, t) => Quiet
         /\ DispatcherCrash(d) => Quiet
<1>1. alert \in [Events -> AlertRow] /\ task \in [Dispatchers -> SUBSET Task]
  BY DEF TypeOK
<1>2. \A t \in task[d] : t.event \in Events
  BY <1>1 DEF Task
<1>3. ASSUME NEW t \in task[d], MarkAlertDelivered(d, t) PROVE Quiet
  <2>1. Moved(d, t, {}) /\ t.outcome = "ok" /\ UNCHANGED <<monitors, incident, tokens, sent, accepted>>
    BY <1>3 DEF MarkAlertDelivered
  <2>2. alert[t.event] \in AlertRow /\ t.event \in accepted
    BY <1>1, <1>2, <2>1 DEF AcceptedInv
  <2>3. CASE OwnsLease(t)
    <3> DEFINE row == Delivered(alert[t.event])
    <3>1. alert' = [alert EXCEPT ![t.event] = row]
      BY <1>3, <2>3 DEF MarkAlertDelivered
    <3>2. row \in AlertRow /\ row.status = "delivered" /\ row.attempts = alert[t.event].attempts
      BY <2>2, AlertRows
    <3>3. alert[t.event].status = "processing"
      BY <2>3 DEF OwnsLease
    <3> HIDE DEF row
    <3>4. RowKept(alert[t.event], row, t.event)
      BY <2>2, <3>2, <3>3 DEF RowKept, Finished
    <3>5. /\ alert' \in [Events -> AlertRow]
          /\ \A k \in Events : RowKept(alert[k], alert'[k], k)
      BY ZenonT(40), <1>2, <3>1, <3>2, <3>4, OneRow
    <3> QED
      BY <2>1, <3>5, EndedTask, SameTables DEF Quiet
  <2>4. CASE ~OwnsLease(t)
    <3>1. alert' = alert
      BY <1>3, <2>4 DEF MarkAlertDelivered
    <3> QED
      BY <2>1, <3>1, EndedTask, SameTables DEF Quiet
  <2> QED
    BY <2>3, <2>4
<1>4. ASSUME NEW t \in task[d], MarkAlertFailed(d, t) PROVE Quiet
  <2>1. Moved(d, t, {}) /\ UNCHANGED <<monitors, incident, tokens, sent, accepted>>
    BY <1>4 DEF MarkAlertFailed
  <2>2. alert[t.event] \in AlertRow
    BY <1>1, <1>2
  <2>3. CASE OwnsLease(t)
    <3> DEFINE row == Refused(alert[t.event], t)
    <3>1. alert' = [alert EXCEPT ![t.event] = row]
      BY <1>4, <2>3 DEF MarkAlertFailed
    <3>2. row \in AlertRow /\ row.status \in {"dead", "pending"} /\ row.attempts = alert[t.event].attempts
      BY <2>2, RefusedRow
    <3>3. alert[t.event].status = "processing"
      BY <2>3 DEF OwnsLease
    <3> HIDE DEF row
    <3>4. RowKept(alert[t.event], row, t.event)
      BY <3>2, <3>3 DEF RowKept, Finished
    <3>5. /\ alert' \in [Events -> AlertRow]
          /\ \A k \in Events : RowKept(alert[k], alert'[k], k)
      BY ZenonT(40), <1>2, <3>1, <3>2, <3>4, OneRow
    <3> QED
      BY <2>1, <3>5, EndedTask, SameTables DEF Quiet
  <2>4. CASE ~OwnsLease(t)
    <3>1. alert' = alert
      BY <1>4, <2>4 DEF MarkAlertFailed
    <3> QED
      BY <2>1, <3>1, EndedTask, SameTables DEF Quiet
  <2> QED
    BY <2>3, <2>4
<1>5. ASSUME NEW t \in task[d], AlertWriteFails(d, t) PROVE Quiet
  <2>1. Moved(d, t, {}) /\ UNCHANGED <<monitors, incident, alert, tokens, sent, accepted>>
    BY <1>5 DEF AlertWriteFails
  <2> QED
    BY <2>1, EndedTask, SameTables DEF Quiet
<1>6. ASSUME DispatcherCrash(d) PROVE Quiet
  <2>1. task' = [task EXCEPT ![d] = {}] /\ UNCHANGED <<monitors, incident, alert, tokens, sent, accepted>>
    BY <1>6 DEF DispatcherCrash
  <2>2. task' \in [Dispatchers -> SUBSET Task] /\ \A e \in Dispatchers : task'[e] \subseteq task[e]
    BY <1>1, <2>1
  <2> QED
    BY <2>1, <2>2, SameTables DEF Quiet
<1> QED
  BY <1>3, <1>4, <1>5, <1>6
\* The passing of time.
LEMMA QuietTime ==
  ASSUME TypeOK, TimeStep
  PROVE  Quiet
<1>1. alert \in [Events -> AlertRow] /\ incident \in [Incidents -> IncidentRow]
  BY DEF TypeOK
<1>2. ASSUME NEW k \in Events, NEW row \in AlertRow, alert' = [alert EXCEPT ![k] = row],
             row.status = alert[k].status, row.attempts = alert[k].attempts,
             UNCHANGED <<monitors, incident, tokens, task, sent, accepted>>
      PROVE  Quiet
  <2>1. alert[k] \in AlertRow
    BY <1>1
  <2>2. RowKept(alert[k], row, k)
    BY <1>2, <2>1 DEF RowKept, AlertRow, Unfinished
  <2>3. /\ alert' \in [Events -> AlertRow]
        /\ \A j \in Events : RowKept(alert[j], alert'[j], j)
    BY ZenonT(40), <1>2, <2>2, OneRow
  <2> QED
    BY <1>2, <2>3, SameTables DEF Quiet
<1>3. ASSUME NEW i \in Incidents, NEW row \in IncidentRow, incident' = [incident EXCEPT ![i] = row],
             row.failures = incident[i].failures,
             UNCHANGED <<monitors, alert, tokens, task, sent, accepted>>
      PROVE  Quiet
  <2>1. row.failures >= incident[i].failures
    BY <1>1, <1>3 DEF IncidentRow
  <2>2. /\ incident' \in [Incidents -> IncidentRow]
        /\ \A j \in Incidents : incident'[j].failures >= incident[j].failures
    BY ZenonT(40), <1>3, <2>1, OneIncident
  <2> QED
    BY <1>3, <2>2, SameTables DEF Quiet
<1>4. ASSUME NEW k \in Events, ExpireAlertLease(k) PROVE Quiet
  <2>1. alert' = [alert EXCEPT ![k] = [alert[k] EXCEPT !.lease = "expired"]]
        /\ UNCHANGED <<monitors, incident, tokens, task, sent, accepted>>
    BY <1>4 DEF ExpireAlertLease
  <2>2. alert[k] \in AlertRow
    BY <1>1
  <2> QED
    BY ZenonT(40), <1>2, <2>1, <2>2, TimedRows
<1>5. ASSUME NEW k \in Events, BecomeAvailable(k) PROVE Quiet
  <2>1. alert' = [alert EXCEPT ![k] = [alert[k] EXCEPT !.available = TRUE]]
        /\ UNCHANGED <<monitors, incident, tokens, task, sent, accepted>>
    BY <1>5 DEF BecomeAvailable
  <2>2. alert[k] \in AlertRow
    BY <1>1
  <2> QED
    BY ZenonT(40), <1>2, <2>1, <2>2, TimedRows
<1>6. ASSUME NEW i \in Incidents, CooldownPasses(i) PROVE Quiet
  <2>1. incident' = [incident EXCEPT ![i] = Cooled(incident[i])]
        /\ UNCHANGED <<monitors, alert, tokens, task, sent, accepted>>
    BY <1>6 DEF CooldownPasses
  <2>2. incident[i] \in IncidentRow
    BY <1>1
  <2> QED
    BY ZenonT(40), <1>3, <2>1, <2>2, OtherIncidentRows
<1>7. ASSUME Age PROVE Quiet
  <2>1. ASSUME NEW k \in Events, alert' = [alert EXCEPT ![k].old = TRUE], UNCHANGED incident
        PROVE  Quiet
    <3>1. alert' = [alert EXCEPT ![k] = [alert[k] EXCEPT !.old = TRUE]]
          /\ UNCHANGED <<monitors, incident, tokens, task, sent, accepted>>
      BY <1>7, <2>1 DEF Age
    <3>2. alert[k] \in AlertRow
      BY <1>1
    <3> QED
      BY ZenonT(40), <1>2, <3>1, <3>2, TimedRows
  <2>2. ASSUME NEW i \in Incidents, incident' = [incident EXCEPT ![i].old = TRUE], UNCHANGED alert
        PROVE  Quiet
    <3>1. incident' = [incident EXCEPT ![i] = [incident[i] EXCEPT !.old = TRUE]]
          /\ UNCHANGED <<monitors, alert, tokens, task, sent, accepted>>
      BY <1>7, <2>2 DEF Age
    <3>2. incident[i] \in IncidentRow
      BY <1>1
    <3> QED
      BY ZenonT(40), <1>3, <3>1, <3>2, OtherIncidentRows
  <2> QED
    BY <1>7, <2>1, <2>2 DEF Age
<1> QED
  BY <1>4, <1>5, <1>6, <1>7 DEF TimeStep

-----------------------------------------------------------------------------
(* The actions that hand something out *)

\* A failed check either raises no alert, or creates an event whose key is new.
LEMMA UpsertEffect ==
  ASSUME TypeOK, FreshKeysInv, NEW m \in Monitors, NEW i \in Incidents, NEW enabled \in BOOLEAN,
         UpsertIncidentAndAlert(m, i, enabled)
  PROVE  \/ Quiet
         \/ \E key \in Events :
              /\ alert[key].status = "none" /\ alert[key].attempts = 0
              /\ key[1] = i /\ key[2] = incident'[i].failures
              /\ alert' = [alert EXCEPT ![key] = NewAlert]
              /\ incident' \in [Incidents -> IncidentRow]
              /\ \A j \in Incidents : incident'[j].failures >= incident[j].failures
              /\ UNCHANGED <<monitors, tokens, task, sent, accepted>>
<1> DEFINE row == Failed(incident[i], m)
           key == <<i, row.failures>>
           raised == enabled /\ MayAlert(row) /\ alert[key].status \in {"none", "deleted"}
<1>1. incident[i] \in IncidentRow /\ incident[i].failures \in Nat
  BY DEF TypeOK, IncidentRow
<1>2. /\ row \in IncidentRow /\ row.failures = incident[i].failures + 1
      /\ Alerted(row) \in IncidentRow /\ Alerted(row).failures = row.failures
  <2>1. row \in IncidentRow /\ row.failures = incident[i].failures + 1
    BY <1>1, IncidentRows
  <2> HIDE DEF row
  <2>2. Alerted(row) \in IncidentRow /\ Alerted(row).failures = row.failures
    BY <2>1, IncidentRows
  <2> QED
    BY <2>1, <2>2
<1>3. /\ incident[i].failures < MaxFailures
      /\ UNCHANGED <<monitors, tokens, task, sent, accepted>>
      /\ IF raised THEN /\ incident' = [incident EXCEPT ![i] = Alerted(row)]
                        /\ alert' = [alert EXCEPT ![key] = NewAlert]
                   ELSE incident' = [incident EXCEPT ![i] = row] /\ alert' = alert
  BY DEF UpsertIncidentAndAlert
<1> HIDE DEF row
<1>4. key \in Events /\ key[1] = i /\ key[2] = row.failures
  BY <1>1, <1>2, <1>3, OutboxAssumption DEF Events
<1>5. CASE raised
  <2>1. key[2] > incident[key[1]].failures
    BY <1>1, <1>2, <1>4
  <2>2. alert[key].status = "none" /\ alert[key].attempts = 0
    BY <1>4, <2>1 DEF FreshKeysInv
  <2>3. incident' = [incident EXCEPT ![i] = Alerted(row)] /\ alert' = [alert EXCEPT ![key] = NewAlert]
    BY <1>3, <1>5
  <2>4. Alerted(row).failures >= incident[i].failures
    BY <1>1, <1>2
  <2>5. /\ incident' \in [Incidents -> IncidentRow]
        /\ \A j \in Incidents : incident'[j].failures >= incident[j].failures
    BY ZenonT(40), <1>2, <2>3, <2>4, OneIncident
  <2>6. incident'[i].failures = row.failures
    BY <1>2, <2>3 DEF TypeOK
  <2> QED
    BY ZenonT(40), <1>3, <1>4, <2>2, <2>3, <2>5, <2>6
<1>6. CASE ~raised
  <2>1. incident' = [incident EXCEPT ![i] = row] /\ alert' = alert
    BY <1>3, <1>6
  <2>2. row.failures >= incident[i].failures
    BY <1>1, <1>2
  <2>3. /\ incident' \in [Incidents -> IncidentRow]
        /\ \A j \in Incidents : incident'[j].failures >= incident[j].failures
    BY ZenonT(40), <1>2, <2>1, <2>2, OneIncident
  <2> QED
    BY <1>3, <2>1, <2>3, SameTables DEF Quiet
<1> QED
  BY <1>5, <1>6
\* Creating an event preserves the invariant.
LEMMA RaiseKeeps ==
  ASSUME IInv, NEW key \in Events,
         alert[key].status = "none", alert[key].attempts = 0,
         key[2] = incident'[key[1]].failures,
         alert' = [alert EXCEPT ![key] = NewAlert],
         incident' \in [Incidents -> IncidentRow],
         \A j \in Incidents : incident'[j].failures >= incident[j].failures,
         UNCHANGED <<monitors, tokens, task, sent, accepted>>
  PROVE  IInv'
<1>1. alert \in [Events -> AlertRow] /\ incident \in [Incidents -> IncidentRow]
  BY DEF IInv, TypeOK
<1>2. NewAlert \in AlertRow /\ NewAlert.attempts = 0 /\ NewAlert.status = "pending"
  BY DEF NewAlert, AlertRow
<1>3. alert'[key] = NewAlert /\ \A k \in Events \ {key} : alert'[k] = alert[k]
  BY <1>1
<1>4. alert' \in [Events -> AlertRow]
  BY <1>1, <1>2
<1>5. \A k \in Events : alert'[k].attempts = alert[k].attempts
  BY <1>2, <1>3
<1>6. TypeOK'
  BY ZenonT(30), <1>4 DEF IInv, TypeOK
<1>7. FreshKeysInv'
  <2> SUFFICES ASSUME NEW k \in Events
               PROVE  /\ k[2] > incident'[k[1]].failures => alert'[k].status = "none"
                      /\ alert'[k].status = "none" => alert'[k].attempts = 0
    BY DEF FreshKeysInv
  <2>1. k[1] \in Incidents /\ k[2] \in Nat
    BY OutboxAssumption DEF Events
  <2>2. incident[k[1]].failures \in Nat /\ incident'[k[1]].failures \in Nat
    BY <1>1, <2>1 DEF IncidentRow
  <2>3. k[2] > incident'[k[1]].failures => k # key /\ k[2] > incident[k[1]].failures
    BY <2>1, <2>2
  <2> QED
    BY ZenonT(30), <1>2, <1>3, <2>3 DEF IInv, FreshKeysInv
<1>8. TasksInv'
  <2>1. \A d \in Dispatchers : \A t \in task[d] : t.event \in Events
    BY DEF IInv, TypeOK, Task
  <2> QED
    BY <1>5, <2>1 DEF IInv, TasksInv
<1>9. SentInv' /\ AttemptsSentOnce' /\ AcceptedInv'
  BY <1>5 DEF IInv, SentInv, AttemptsSentOnce, AcceptedInv
<1>10. DeliveredWasAccepted'
  BY ZenonT(30), <1>2, <1>3 DEF IInv, DeliveredWasAccepted
<1> QED
  BY <1>6, <1>7, <1>8, <1>9, <1>10 DEF IInv

\* What a claim does to the rows: those of the batch count an attempt and become
\* "processing"; of the others, exhausted ones are buried.
LEMMA ClaimRows ==
  ASSUME TypeOK, NEW d \in Dispatchers, NEW batch, ClaimAlerts(d, batch), NEW k \in Events
  PROVE  /\ alert'[k] \in AlertRow
         /\ k \in batch => /\ alert'[k].attempts = alert[k].attempts + 1
                           /\ alert'[k].status = "processing"
                           /\ alert[k].status \in Unfinished
         /\ k \notin batch => /\ alert'[k].attempts = alert[k].attempts
                              /\ \/ alert'[k].status = alert[k].status
                                 \/ alert[k].status \in Unfinished /\ alert'[k].status = "dead"
<1>1. alert[k] \in AlertRow /\ alert[k].attempts \in Nat /\ tokens \in Nat
  BY DEF TypeOK, AlertRow
<1>2. alert' = [j \in Events |-> IF Exhausted(alert[j]) THEN Buried(alert[j])
                                ELSE IF j \in batch THEN Claimed(alert[j])
                                ELSE alert[j]]
  BY ZenonT(40) DEF ClaimAlerts
<1>3. k \in batch => /\ ~Exhausted(alert[k])
                    /\ alert[k].status \in Unfinished
  <2> SUFFICES ASSUME k \in batch PROVE ~Exhausted(alert[k]) /\ alert[k].status \in Unfinished
    OBVIOUS
  <2>1. Candidate(alert[k])
    BY ZenonT(30) DEF ClaimAlerts
  <2>2. ~(alert[k].attempts >= MaxAttempts)
    BY <1>1, <2>1, OutboxAssumption DEF Candidate
  <2> QED
    BY ZenonT(30), <2>1, <2>2 DEF Candidate, Exhausted, Unfinished
<1>4. CASE k \in batch
  <2>1. alert'[k] = Claimed(alert[k])
    BY ZenonT(30), <1>2, <1>3, <1>4
  <2> QED
    BY ZenonT(30), <1>1, <1>3, <1>4, <2>1, ClaimedRow
<1>5. CASE Exhausted(alert[k]) /\ k \notin batch
  <2>1. alert'[k] = Buried(alert[k]) /\ alert[k].status \in Unfinished
    BY <1>2, <1>5 DEF Exhausted, Unfinished
  <2> QED
    BY <1>1, <1>5, <2>1, AlertRows
<1>6. CASE ~Exhausted(alert[k]) /\ k \notin batch
  <2>1. alert'[k] = alert[k]
    BY <1>2, <1>6
  <2> QED
    BY <1>1, <1>6, <2>1
<1> QED
  BY <1>4, <1>5, <1>6

\* A claim preserves the invariant: its token and its attempts are new.
LEMMA ClaimKeeps ==
  ASSUME IInv, NEW d \in Dispatchers, NEW batch, ClaimAlerts(d, batch)
  PROVE  IInv'
<1>1. /\ TypeOK /\ alert \in [Events -> AlertRow] /\ tokens \in Nat
      /\ task \in [Dispatchers -> SUBSET Task]
  BY DEF IInv, TypeOK
<1>2. /\ batch \subseteq Events
      /\ task' \in [Dispatchers -> SUBSET Task]
      /\ \A e \in Dispatchers : e # d => task'[e] = task[e]
      /\ \A t \in task'[d] :
           /\ t.event \in batch
           /\ t.attempt = alert[t.event].attempts + 1
           /\ t.token = tokens + 1
           /\ t.outcome = "none"
           /\ t = [event |-> t.event, attempt |-> alert[t.event].attempts + 1,
                   token |-> tokens + 1, outcome |-> "none"]
  BY <1>1, BatchTasks
<1>3. /\ tokens' = IF batch = {} THEN tokens ELSE tokens + 1
      /\ UNCHANGED <<monitors, incident, sent, accepted>>
  BY ZenonT(40) DEF ClaimAlerts
<1>4. \A k \in Events :
        /\ alert[k].attempts \in Nat
        /\ alert'[k].attempts >= alert[k].attempts
        /\ k \in batch => alert'[k].attempts = alert[k].attempts + 1
        /\ alert'[k].status = "none" => alert[k].status = "none" /\ alert'[k].attempts = alert[k].attempts
        /\ alert[k].status = "none" => alert'[k].status = "none"
        /\ alert'[k].status = "delivered" => alert[k].status = "delivered"
  <2> SUFFICES ASSUME NEW k \in Events
               PROVE  /\ alert[k].attempts \in Nat
                      /\ alert'[k].attempts >= alert[k].attempts
                      /\ k \in batch => alert'[k].attempts = alert[k].attempts + 1
                      /\ alert'[k].status = "none" => alert[k].status = "none" /\ alert'[k].attempts = alert[k].attempts
                      /\ alert[k].status = "none" => alert'[k].status = "none"
                      /\ alert'[k].status = "delivered" => alert[k].status = "delivered"
    OBVIOUS
  <2>1. alert[k].attempts \in Nat
    BY <1>1 DEF AlertRow
  <2> QED
    BY <1>1, <2>1, ClaimRows DEF Unfinished
<1>5. \A e \in Dispatchers : \A t \in task[e] : t.event \in Events /\ t.token \in Nat /\ t.attempt \in Nat
  BY <1>1, OutboxAssumption DEF Task
<1>6. TypeOK'
  <2>1. alert' \in [Events -> AlertRow]
    <3>1. alert' = [k \in Events |-> alert'[k]]
      BY ZenonT(40) DEF ClaimAlerts
    <3>2. \A k \in Events : alert'[k] \in AlertRow
      BY <1>1, ClaimRows
    <3> QED
      BY <3>1, <3>2
  <2>2. tokens' \in Nat
    BY <1>1, <1>3
  <2> QED
    BY ZenonT(30), <1>1, <1>2, <1>3, <2>1, <2>2 DEF TypeOK
<1>7. FreshKeysInv'
  BY ZenonT(30), <1>3, <1>4 DEF IInv, FreshKeysInv
<1>8. TasksInv'
  <2>1. ASSUME NEW e \in Dispatchers, NEW t \in task'[e]
        PROVE  t.token \in 1..tokens' /\ t.attempt <= alert'[t.event].attempts
    <3>1. CASE e = d
      <4>1. batch # {} /\ t.event \in Events /\ t.event \in batch
        BY ZenonT(30), <1>2, <2>1, <3>1
      <4>2. t.token = tokens + 1 /\ t.attempt = alert[t.event].attempts + 1
        BY ZenonT(30), <1>2, <2>1, <3>1
      <4>3. tokens' = tokens + 1
        BY ZenonT(30), <1>3, <4>1
      <4> QED
        BY <1>1, <1>4, <4>1, <4>2, <4>3
    <3>2. CASE e # d
      <4>1. t \in task[e]
        BY <1>2, <2>1, <3>2
      <4>2. t.token \in 1..tokens /\ t.attempt <= alert[t.event].attempts
        BY <4>1 DEF IInv, TasksInv
      <4>3. t.event \in Events /\ t.attempt \in Nat /\ alert'[t.event].attempts \in Nat
        BY ZenonT(30), <1>5, <1>6, <4>1 DEF TypeOK, AlertRow
      <4> QED
        BY <1>1, <1>3, <1>4, <4>2, <4>3
    <3> QED
      BY ZenonT(30), <3>1, <3>2
  <2>2. ASSUME NEW e \in Dispatchers, NEW t \in task'[d], NEW u \in task[e], t.event = u.event
        PROVE  t.token # u.token /\ t.attempt # u.attempt
    <3>1. u.token \in 1..tokens /\ u.attempt <= alert[u.event].attempts
      BY <2>2 DEF IInv, TasksInv
    <3>2. t.token = tokens + 1 /\ t.attempt = alert[u.event].attempts + 1
      BY ZenonT(30), <1>2, <2>2
    <3>3. alert[u.event].attempts \in Nat /\ u.attempt \in Nat
      BY ZenonT(30), <1>4, <1>5, <2>2
    <3> QED
      <4>1. t.token # u.token
        BY <1>1, <3>1, <3>2
      <4>2. t.attempt # u.attempt
        BY <3>1, <3>2, <3>3
      <4> QED
        BY Zenon, <4>1, <4>2
  <2>3. ASSUME NEW t \in task'[d], NEW u \in task'[d], t.event = u.event
        PROVE  t = u
    BY <1>2, <2>3
  <2>4. ASSUME NEW e \in Dispatchers, NEW f \in Dispatchers, NEW t \in task'[e], NEW u \in task'[f],
               t.event = u.event, t.token = u.token \/ t.attempt = u.attempt
        PROVE  e = f /\ t = u
    <3>1. CASE e = d /\ f = d
      BY ZenonT(30), <2>3, <2>4, <3>1
    <3>2. CASE e = d /\ f # d
      BY <1>2, <2>2, <2>4, <3>2
    <3>3. CASE e # d /\ f = d
      BY <1>2, <2>2, <2>4, <3>3
    <3>4. CASE e # d /\ f # d
      <4>1. t \in task[e] /\ u \in task[f]
        BY ZenonT(30), <1>2, <2>4, <3>4
      <4> QED
        BY <2>4, <4>1 DEF IInv, TasksInv
    <3> QED
      BY ZenonT(30), <3>1, <3>2, <3>3, <3>4
  <2> QED
    BY <2>1, <2>4 DEF TasksInv
<1>9. SentInv'
  <2>1. ASSUME NEW k \in Events, NEW a \in 1..MaxAttempts, a > alert'[k].attempts
        PROVE  sent[k][a] = 0
    <3>1. alert'[k].attempts \in Nat /\ a \in Nat
      BY <1>6, OutboxAssumption DEF TypeOK, AlertRow
    <3>2. a > alert[k].attempts
      BY <1>4, <2>1, <3>1
    <3> QED
      BY <3>2 DEF IInv, SentInv
  <2>2. ASSUME NEW e \in Dispatchers, NEW t \in task'[e], t.outcome = "none"
        PROVE  sent[t.event][t.attempt] = 0
    <3>1. CASE e = d
      <4>1. t.event \in Events /\ t.attempt = alert[t.event].attempts + 1
        BY ZenonT(30), <1>2, <2>2, <3>1
      <4>2. t.attempt \in 1..MaxAttempts
        BY <1>2, <2>2 DEF Task
      <4>3. t.attempt > alert[t.event].attempts
        BY <1>4, <4>1
      <4> QED
        BY <4>1, <4>2, <4>3 DEF IInv, SentInv
    <3>2. CASE e # d
      BY <1>2, <2>2, <3>2 DEF IInv, SentInv
    <3> QED
      BY ZenonT(30), <3>1, <3>2
  <2> QED
    BY ZenonT(30), <1>3, <2>1, <2>2 DEF SentInv
<1>10. AcceptedInv'
  <2>1. ASSUME NEW e \in Dispatchers, NEW t \in task'[e], t.outcome = "ok" PROVE t.event \in accepted
    BY ZenonT(30), <1>2, <2>1 DEF IInv, AcceptedInv
  <2> QED
    BY <1>3, <2>1 DEF AcceptedInv
<1>11. AttemptsSentOnce' /\ DeliveredWasAccepted'
  BY <1>3, <1>4 DEF IInv, AttemptsSentOnce, DeliveredWasAccepted
<1> QED
  BY ZenonT(30), <1>6, <1>7, <1>8, <1>9, <1>10, <1>11 DEF IInv
\* Send preserves the invariant: no other goroutine sends the same attempt.
LEMMA SendKeeps ==
  ASSUME IInv, NEW d \in Dispatchers, NEW t \in task[d], Send(d, t)
  PROVE  IInv'
<1>1. task \in [Dispatchers -> SUBSET Task] /\ sent \in [Events -> [1..MaxAttempts -> Nat]]
  BY DEF IInv, TypeOK
<1>2. t \in Task /\ t.event \in Events /\ t.attempt \in 1..MaxAttempts
  BY <1>1 DEF Task
<1>3. PICK o \in {"ok", "transient", "permanent"} :
        /\ Moved(d, t, {[t EXCEPT !.outcome = o]})
        /\ accepted' \in {accepted, accepted \cup {t.event}}
        /\ o = "ok" => t.event \in accepted'
  BY SendEffect
<1> DEFINE u == [t EXCEPT !.outcome = o]
<1>4. u \in Task /\ u.event = t.event /\ u.attempt = t.attempt /\ u.token = t.token /\ u.outcome = o
  BY ZenonT(40), <1>2, AdvancedTask
<1>5. Moved(d, t, {u})
  BY <1>3
<1>6. /\ t.outcome = "none" /\ sent' = [sent EXCEPT ![t.event][t.attempt] = @ + 1]
      /\ UNCHANGED <<monitors, incident, alert, tokens>>
  BY DEF Send
<1> HIDE DEF u
<1>7. /\ task' \in [Dispatchers -> SUBSET Task]
      /\ task'[d] = (task[d] \ {t}) \cup {u}
      /\ \A e \in Dispatchers : e # d => task'[e] = task[e]
  <2>1. {u} \in SUBSET Task
    BY <1>4
  <2> QED
    BY <1>1, <1>5, <2>1, MovedTasks
<1>8. sent[t.event][t.attempt] = 0
  BY <1>6 DEF IInv, SentInv
<1>9. /\ sent' \in [Events -> [1..MaxAttempts -> Nat]]
      /\ sent'[t.event][t.attempt] = 1
      /\ \A k \in Events, a \in 1..MaxAttempts :
           k # t.event \/ a # t.attempt => sent'[k][a] = sent[k][a]
  <2>1. sent' = [sent EXCEPT ![t.event] = [sent[t.event] EXCEPT ![t.attempt] = 1]]
    BY <1>1, <1>2, <1>6, <1>8
  <2> QED
    BY ZenonT(40), <1>1, <1>2, <2>1
<1>10. \A e \in Dispatchers : \A v \in task'[e] :
         \/ v \in task[e] /\ (e # d \/ v # t)
         \/ e = d /\ v = u
  BY <1>7
<1>11. accepted \subseteq accepted' /\ accepted' \subseteq Events
  BY ZenonT(30), <1>2, <1>3 DEF IInv, TypeOK
<1>12. TypeOK'
  BY ZenonT(30), <1>6, <1>7, <1>9, <1>11 DEF IInv, TypeOK
<1>13. FreshKeysInv' /\ DeliveredWasAccepted'
  BY <1>6, <1>11 DEF IInv, FreshKeysInv, DeliveredWasAccepted
<1>14. TasksInv'
  <2>1. ASSUME NEW e \in Dispatchers, NEW v \in task'[e]
        PROVE  v.token \in 1..tokens /\ v.attempt <= alert[v.event].attempts
    BY ZenonT(30), <1>4, <1>10, <2>1 DEF IInv, TasksInv
  <2>2. ASSUME NEW e \in Dispatchers, NEW v \in task[e], v.event = t.event,
               v.token = t.token \/ v.attempt = t.attempt
        PROVE  e = d /\ v = t
    BY <2>2 DEF IInv, TasksInv
  <2>3. ASSUME NEW e \in Dispatchers, NEW f \in Dispatchers, NEW v \in task'[e], NEW w \in task'[f],
               v.event = w.event, v.token = w.token \/ v.attempt = w.attempt
        PROVE  e = f /\ v = w
    <3>1. CASE v \in task[e] /\ (e # d \/ v # t) /\ w \in task[f] /\ (f # d \/ w # t)
      BY ZenonT(30), <2>3, <3>1 DEF IInv, TasksInv
    <3>2. CASE v \in task[e] /\ (e # d \/ v # t) /\ f = d /\ w = u
      BY ZenonT(30), <1>4, <2>2, <2>3, <3>2
    <3>3. CASE e = d /\ v = u /\ w \in task[f] /\ (f # d \/ w # t)
      BY <1>4, <2>2, <2>3, <3>3
    <3>4. CASE e = d /\ v = u /\ f = d /\ w = u
      BY ZenonT(30), <3>4
    <3> QED
      BY ZenonT(30), <1>10, <2>3, <3>1, <3>2, <3>3, <3>4
  <2> QED
    BY <1>6, <2>1, <2>3 DEF TasksInv
<1>15. SentInv'
  <2>1. ASSUME NEW k \in Events, NEW a \in 1..MaxAttempts, a > alert[k].attempts
        PROVE  sent'[k][a] = 0
    <3>1. t.attempt <= alert[t.event].attempts
      BY DEF IInv, TasksInv
    <3>2. alert[k].attempts \in Nat /\ a \in Nat
      BY OutboxAssumption DEF IInv, TypeOK, AlertRow
    <3>4. ~(a > alert[k].attempts /\ a <= alert[k].attempts)
      BY <3>2
    <3>3. k # t.event \/ a # t.attempt
      BY Zenon, <2>1, <3>1, <3>4
    <3>5. sent[k][a] = 0
      BY <2>1 DEF IInv, SentInv
    <3> QED
      BY ZenonT(30), <1>9, <3>3, <3>5
  <2>2. ASSUME NEW e \in Dispatchers, NEW v \in task'[e], v.outcome = "none"
        PROVE  sent'[v.event][v.attempt] = 0
    <3>1. v \in task[e] /\ (e # d \/ v # t)
      BY ZenonT(30), <1>4, <1>10, <2>2
    <3>2. v.event # t.event \/ v.attempt # t.attempt
      BY <3>1 DEF IInv, TasksInv
    <3>3. v.event \in Events /\ v.attempt \in 1..MaxAttempts
      BY <1>1, <3>1 DEF Task
    <3>4. sent[v.event][v.attempt] = 0
      BY <2>2, <3>1 DEF IInv, SentInv
    <3> QED
      BY ZenonT(30), <1>9, <3>2, <3>3, <3>4
  <2> QED
    BY ZenonT(30), <1>6, <2>1, <2>2 DEF SentInv
<1>16. AttemptsSentOnce'
  <2> SUFFICES ASSUME NEW k \in Events, NEW a \in 1..MaxAttempts PROVE sent'[k][a] <= 1
    BY DEF AttemptsSentOnce
  <2>1. sent[k][a] <= 1
    BY DEF IInv, AttemptsSentOnce
  <2> QED
    BY <1>9, <2>1
<1>17. AcceptedInv'
  <2> SUFFICES ASSUME NEW e \in Dispatchers, NEW v \in task'[e], v.outcome = "ok"
               PROVE  v.event \in accepted'
    BY DEF AcceptedInv
  <2> QED
    BY ZenonT(30), <1>3, <1>4, <1>10, <1>11 DEF IInv, AcceptedInv
<1> QED
  BY ZenonT(30), <1>12, <1>13, <1>14, <1>15, <1>16, <1>17 DEF IInv

-----------------------------------------------------------------------------
(* The theorems *)

\* What a step may do to an event's status, for FinishedStaysFinished and
\* UnfinishedAlertsKept.
StatusStep(k) ==
  /\ alert[k].status \in Finished => alert'[k].status \in {alert[k].status, "deleted"}
  /\ alert[k].status \in Unfinished /\ alert'[k].status = "deleted" => monitors' # monitors

\* Empty tables satisfy the invariant.
LEMMA IInvInit == Init => IInv
<1> SUFFICES ASSUME Init PROVE IInv
  OBVIOUS
<1>1. \A i \in Incidents : incident[i] \in IncidentRow /\ incident[i].failures = 0
  BY ZenonT(30) DEF Init, IncidentRow
<1>2. \A k \in Events : alert[k] \in AlertRow /\ alert[k].status = "none" /\ alert[k].attempts = 0
  BY DEF Init, AlertRow
<1>3. TypeOK
  <2>1. incident \in [Incidents -> IncidentRow]
    BY ZenonT(40), <1>1 DEF Init
  <2>2. alert \in [Events -> AlertRow]
    BY ZenonT(30), <1>2 DEF Init
  <2>3. sent \in [Events -> [1..MaxAttempts -> Nat]]
    BY DEF Init
  <2>4. task \in [Dispatchers -> SUBSET Task]
    BY DEF Init
  <2> QED
    BY ZenonT(40), <2>1, <2>2, <2>3, <2>4 DEF Init, TypeOK
<1>4. \A d \in Dispatchers : task[d] = {}
  BY DEF Init
<1>5. \A k \in Events, a \in 1..MaxAttempts : sent[k][a] = 0
  BY DEF Init
<1>6. FreshKeysInv /\ DeliveredWasAccepted
  BY ZenonT(30), <1>2 DEF FreshKeysInv, DeliveredWasAccepted
<1>7. TasksInv /\ SentInv /\ AcceptedInv /\ AttemptsSentOnce
  BY <1>4, <1>5 DEF TasksInv, SentInv, AcceptedInv, AttemptsSentOnce
<1> QED
  BY <1>3, <1>6, <1>7 DEF IInv

\* The induction step: a step is quiet, or one of the three that hand something out.
LEMMA IInvStep ==
  ASSUME IInv, [Next]_vars
  PROVE  IInv' /\ \A k \in Events : StatusStep(k)
<1>1. TypeOK /\ FreshKeysInv /\ AcceptedInv /\ alert \in [Events -> AlertRow]
  BY ZenonT(30) DEF IInv, TypeOK
<1>2. ASSUME Quiet PROVE IInv' /\ \A k \in Events : StatusStep(k)
  BY <1>2, QuietKeeps DEF Quiet, RowKept, StatusStep
<1>3. CASE UNCHANGED vars
  <2>1. Quiet
    BY ZenonT(30), <1>1, <1>3, SameTables DEF vars, Quiet
  <2> QED
    BY <1>2, <2>1
<1>4. ASSUME NEW m \in Monitors, NEW i \in Incidents, NEW enabled \in BOOLEAN,
             UpsertIncidentAndAlert(m, i, enabled)
      PROVE  IInv' /\ \A k \in Events : StatusStep(k)
  <2>1. CASE Quiet
    BY <1>2, <2>1
  <2>2. ASSUME NEW key \in Events,
               alert[key].status = "none", alert[key].attempts = 0,
               key[1] = i, key[2] = incident'[i].failures,
               alert' = [alert EXCEPT ![key] = NewAlert],
               incident' \in [Incidents -> IncidentRow],
               \A j \in Incidents : incident'[j].failures >= incident[j].failures,
               UNCHANGED <<monitors, tokens, task, sent, accepted>>
        PROVE  IInv' /\ \A k \in Events : StatusStep(k)
    <3>1. IInv'
      BY ZenonT(40), <2>2, RaiseKeeps
    <3>2. alert'[key].status = "pending" /\ \A k \in Events \ {key} : alert'[k] = alert[k]
      BY ZenonT(30), <1>1, <2>2 DEF NewAlert
    <3>3. \A k \in Events : StatusStep(k)
      BY <2>2, <3>2 DEF StatusStep, Finished, Unfinished
    <3> QED
      BY <3>1, <3>3
  <2>3. CASE ~Quiet
    <3>1. PICK key \in Events :
            /\ alert[key].status = "none" /\ alert[key].attempts = 0
            /\ key[1] = i /\ key[2] = incident'[i].failures
            /\ alert' = [alert EXCEPT ![key] = NewAlert]
            /\ incident' \in [Incidents -> IncidentRow]
            /\ \A j \in Incidents : incident'[j].failures >= incident[j].failures
            /\ UNCHANGED <<monitors, tokens, task, sent, accepted>>
      BY <1>1, <1>4, <2>3, UpsertEffect
    <3> QED
      BY ZenonT(30), <2>2, <3>1
  <2> QED
    BY ZenonT(30), <2>1, <2>3
<1>5. ASSUME NEW d \in Dispatchers, NEW batch \in SUBSET Events, ClaimAlerts(d, batch)
      PROVE  IInv' /\ \A k \in Events : StatusStep(k)
  <2>1. ASSUME NEW k \in Events PROVE StatusStep(k)
    BY ZenonT(30), <1>1, <1>5, ClaimRows DEF StatusStep, Finished, Unfinished
  <2> QED
    BY ZenonT(30), <1>5, <2>1, ClaimKeeps
<1>6. ASSUME NEW d \in Dispatchers, NEW t \in task[d], Send(d, t)
      PROVE  IInv' /\ \A k \in Events : StatusStep(k)
  <2>1. alert' = alert
    BY <1>6 DEF Send
  <2>2. \A k \in Events : StatusStep(k)
    BY <2>1 DEF StatusStep, Unfinished
  <2> QED
    BY <1>6, <2>2, SendKeeps
<1>7. CASE CheckStep
  BY ZenonT(30), <1>1, <1>2, <1>4, <1>7, QuietTables DEF CheckStep
<1>8. ASSUME NEW d \in Dispatchers, DispatcherStep(d)
      PROVE  IInv' /\ \A k \in Events : StatusStep(k)
  BY ZenonT(30), <1>1, <1>2, <1>5, <1>6, <1>8, QuietDispatch DEF DispatcherStep
<1>9. ASSUME NEW gone \in SUBSET Events, NEW incidents \in SUBSET Incidents,
             DeleteExpiredData(gone, incidents)
      PROVE  IInv' /\ \A k \in Events : StatusStep(k)
  BY <1>1, <1>2, <1>9, QuietTables
<1>10. CASE TimeStep
  BY <1>1, <1>2, <1>10, QuietTime
<1> QED
  BY ZenonT(30), <1>3, <1>7, <1>8, <1>9, <1>10 DEF Next, RetentionStep
\* The parts above together are an invariant of the outbox code.
THEOREM IInvHolds == Spec => []IInv
<1>1. IInv /\ [Next]_vars => IInv'
  BY IInvStep
<1> QED
  BY <1>1, IInvInit, PTL DEF Spec

\* Type correctness; with it, no event is ever claimed beyond ALERT_MAX_ATTEMPTS.
THEOREM TypeCorrect == Spec => []TypeOK
<1>1. IInv => TypeOK
  BY DEF IInv
<1> QED
  BY <1>1, IInvHolds, PTL

\* At most one goroutine can record the outcome of an event (MarkAlertDelivered and
\* MarkAlertFailed compare the lease token of ClaimAlerts).
THEOREM LeasesAreExclusive == Spec => []ExclusiveAlertLease
<1>1. IInv => ExclusiveAlertLease
  BY DEF IInv, TasksInv, ExclusiveAlertLease, OwnsLease
<1> QED
  BY <1>1, IInvHolds, PTL

\* No attempt of an event is handed to the HTTP client twice (dispatchAlert calls Send
\* once per claim, Send calls client.Do once, and ClaimAlerts counts every claim).
THEOREM NoAttemptSentTwice == Spec => []AttemptsSentOnce
<1>1. IInv => AttemptsSentOnce
  BY DEF IInv
<1> QED
  BY <1>1, IInvHolds, PTL

\* An event recorded as delivered was accepted (MarkAlertDelivered follows a 2xx
\* answer for the same event).
THEOREM NoFalseDelivery == Spec => []DeliveredWasAccepted
<1>1. IInv => DeliveredWasAccepted
  BY DEF IInv
<1> QED
  BY <1>1, IInvHolds, PTL

\* Delivered and dead events are final: no late goroutine, claim or retention pass
\* takes them back.
THEOREM FinishedIsFinal == Spec => FinishedStaysFinished
<1>1. IInv /\ [Next]_vars =>
        [\A k \in Events : alert[k].status \in Finished =>
           alert'[k].status \in {alert[k].status, "deleted"}]_vars
  BY IInvStep DEF StatusStep
<1> QED
  BY <1>1, IInvHolds, PTL DEF Spec, FinishedStaysFinished

\* DeleteExpiredData never deletes an unfinished event, directly or through the
\* cascade from an incident.
THEOREM RetentionKeepsUnfinished == Spec => UnfinishedAlertsKept
<1>1. IInv /\ [Next]_vars =>
        [\A k \in Events : alert[k].status \in Unfinished /\ alert'[k].status = "deleted" =>
           monitors' # monitors]_vars
  BY IInvStep DEF StatusStep
<1> QED
  BY <1>1, IInvHolds, PTL DEF Spec, UnfinishedAlertsKept

-----------------------------------------------------------------------------
(* One open incident per monitor *)

\* A step that opens no incident preserves the property.
LEMMA NoneOpened ==
  ASSUME OneOpenIncident,
         \A i \in Incidents : incident'[i].status = "open" =>
           incident[i].status = "open" /\ incident'[i].monitor = incident[i].monitor
  PROVE  OneOpenIncident'
BY DEF OneOpenIncident, Open

\* Resolving or deleting incidents opens none.
LEMMA NoneOpenedByClosing ==
  ASSUME TypeOK, OneOpenIncident, NEW S, NEW s \in {"resolved", "deleted"},
         incident' = [i \in Incidents |-> IF i \in S THEN [incident[i] EXCEPT !.status = s]
                                                     ELSE incident[i]]
  PROVE  OneOpenIncident'
<1> SUFFICES ASSUME NEW i \in Incidents
             PROVE  incident'[i].status = "open" =>
                      incident[i].status = "open" /\ incident'[i].monitor = incident[i].monitor
  BY NoneOpened
<1>1. incident[i] \in IncidentRow
  BY DEF TypeOK
<1>2. CASE i \in S
  <2>1. incident'[i] = [incident[i] EXCEPT !.status = s]
    BY <1>2
  <2> QED
    BY <1>1, <2>1, OtherIncidentRows
<1>3. CASE i \notin S
  BY <1>3
<1> QED
  BY <1>2, <1>3

\* The upsert counts in the open incident if there is one.
LEMMA UpsertKeepsOneOpen ==
  ASSUME TypeOK, OneOpenIncident, NEW m \in Monitors, NEW i \in Incidents, NEW enabled \in BOOLEAN,
         UpsertIncidentAndAlert(m, i, enabled)
  PROVE  OneOpenIncident'
<1> DEFINE row == Failed(incident[i], m)
<1>1. incident \in [Incidents -> IncidentRow]
  BY DEF TypeOK
<1>2. row \in IncidentRow /\ row.monitor = m
  BY <1>1, IncidentRows
<1>3. incident' = [incident EXCEPT ![i] = row] \/ incident' = [incident EXCEPT ![i] = Alerted(row)]
  BY DEF UpsertIncidentAndAlert
<1>4. CountedIn(i, m)
  BY DEF UpsertIncidentAndAlert
<1> HIDE DEF row
<1>5. Alerted(row).monitor = m
  BY <1>2, IncidentRows
<1>6. incident'[i].monitor = m /\ \A j \in Incidents \ {i} : incident'[j] = incident[j]
  BY ZenonT(30), <1>1, <1>2, <1>3, <1>5
<1>7. \A j \in Incidents \ {i} : ~Open(j, m)
  BY <1>4 DEF CountedIn, OneOpenIncident
<1> QED
  BY <1>6, <1>7 DEF OneOpenIncident, Open

\* The induction step, one case per group of actions.
LEMMA OneOpenStep ==
  ASSUME TypeOK, OneOpenIncident, [Next]_vars
  PROVE  OneOpenIncident'
<1>1. incident \in [Incidents -> IncidentRow]
  BY DEF TypeOK
<1>2. ASSUME incident' = incident PROVE OneOpenIncident'
  BY <1>2, NoneOpened
<1>3. ASSUME NEW i \in Incidents, NEW row, incident' = [incident EXCEPT ![i] = row],
             row.status = incident[i].status, row.monitor = incident[i].monitor
      PROVE  OneOpenIncident'
  <2>1. incident'[i] = row /\ \A j \in Incidents \ {i} : incident'[j] = incident[j]
    BY <1>1, <1>3
  <2> QED
    BY <1>3, <2>1, NoneOpened
<1>4. CASE CheckStep
  <2>1. ASSUME NEW m \in Monitors, ResolveIncident(m) PROVE OneOpenIncident'
    <3> DEFINE S == {i \in Incidents : Open(i, m)}
    <3>1. incident' = [i \in Incidents |-> IF i \in S THEN [incident[i] EXCEPT !.status = "resolved"]
                                                      ELSE incident[i]]
      BY <2>1 DEF ResolveIncident, Closed
    <3> HIDE DEF S
    <3> QED
      BY ZenonT(40), <3>1, NoneOpenedByClosing
  <2>2. ASSUME NEW m \in Monitors, DeleteMonitor(m) PROVE OneOpenIncident'
    <3> DEFINE G == {i \in Incidents : incident[i].monitor = m}
    <3>1. incident' = [i \in Incidents |-> IF i \in G THEN [incident[i] EXCEPT !.status = "deleted"]
                                                      ELSE incident[i]]
      BY <2>2 DEF DeleteMonitor
    <3> HIDE DEF G
    <3> QED
      BY ZenonT(40), <3>1, NoneOpenedByClosing
  <2> QED
    BY <1>4, <2>1, <2>2, UpsertKeepsOneOpen DEF CheckStep
<1>5. ASSUME NEW d \in Dispatchers, DispatcherStep(d) PROVE OneOpenIncident'
  <2>1. incident' = incident
    BY ZenonT(40), <1>5 DEF DispatcherStep, ClaimAlerts, Send, MarkAlertDelivered, MarkAlertFailed,
                AlertWriteFails, DispatcherCrash
  <2> QED
    BY <1>2, <2>1
<1>6. ASSUME NEW gone \in SUBSET Events, NEW incidents \in SUBSET Incidents,
             DeleteExpiredData(gone, incidents)
      PROVE  OneOpenIncident'
  <2>1. incident' = [i \in Incidents |-> IF i \in incidents
                       THEN [incident[i] EXCEPT !.status = "deleted"] ELSE incident[i]]
    BY <1>6 DEF DeleteExpiredData
  <2> QED
    BY ZenonT(40), <2>1, NoneOpenedByClosing
<1>7. CASE TimeStep
  <2>1. ASSUME NEW i \in Incidents, CooldownPasses(i) PROVE OneOpenIncident'
    <3>1. incident' = [incident EXCEPT ![i] = Cooled(incident[i])] /\ incident[i] \in IncidentRow
      BY <1>1, <2>1 DEF CooldownPasses
    <3> QED
      BY ZenonT(40), <1>3, <3>1, OtherIncidentRows
  <2>2. ASSUME NEW i \in Incidents, incident' = [incident EXCEPT ![i].old = TRUE]
        PROVE  OneOpenIncident'
    <3>1. incident' = [incident EXCEPT ![i] = [incident[i] EXCEPT !.old = TRUE]]
          /\ incident[i] \in IncidentRow
      BY <1>1, <2>2
    <3> QED
      BY ZenonT(40), <1>3, <3>1, OtherIncidentRows
  <2> QED
    BY <1>2, <1>7, <2>1, <2>2 DEF TimeStep, Age, ExpireAlertLease, BecomeAvailable
<1>8. CASE UNCHANGED vars
  BY <1>2, <1>8 DEF vars
<1> QED
  BY <1>4, <1>5, <1>6, <1>7, <1>8 DEF Next, RetentionStep

\* A monitor has at most one open incident (the upsert's conflict target is the open
\* incident of the monitor; a success or a change of the monitor closes it).
THEOREM OneIncidentAtATime == Spec => []OneOpenIncident
<1>1. Init => OneOpenIncident
  BY DEF Init, OneOpenIncident, Open
<1>2. TypeOK /\ OneOpenIncident /\ [Next]_vars => OneOpenIncident'
  BY OneOpenStep
<1> QED
  BY <1>1, <1>2, TypeCorrect, PTL DEF Spec

-----------------------------------------------------------------------------
(* The alerts an incident counts are the events of the outbox that carry its id,
   and there is at most one more of them than cooldowns *)

\* The events an incident has raised, those deleted since included.
Raised(i) == {k \in Events : k[1] = i /\ alert[k].status # "none"}

\* last_alerted_at agrees with the counters: the incident has raised one alert more
\* than it has seen cooldowns pass exactly while a cooldown is running.
CooldownsInv ==
  \A i \in Incidents :
    incident[i].alerts = incident[i].cooldowns + (IF incident[i].alerted = "recent" THEN 1 ELSE 0)

\* Every alert counted has its event.
EventsInv ==
  \A i \in Incidents : incident[i].alerts = Cardinality(Raised(i))

AccountsInv == CooldownsInv /\ EventsInv

\* An incident raises a finite number of events: their keys carry its failure count.
LEMMA RaisedFinite ==
  ASSUME NEW i \in Incidents
  PROVE  IsFiniteSet(Raised(i))
<1>1. IsFiniteSet({i}) /\ IsFiniteSet(1..MaxFailures)
  <2>1. 1 \in Int /\ MaxFailures \in Int
    BY OutboxAssumption
  <2>2. IsFiniteSet(1..MaxFailures)
    BY <2>1, FS_Interval
  <2>3. IsFiniteSet({i})
    BY Zenon, FS_Singleton
  <2> QED
    BY <2>2, <2>3
<1>2. IsFiniteSet({i} \X (1..MaxFailures))
  BY ZenonT(30), <1>1, FS_Product
<1>3. Raised(i) \in SUBSET ({i} \X (1..MaxFailures))
  BY ZenonT(30) DEF Raised, Events
<1> QED
  BY <1>2, <1>3, FS_Subset

\* A step that leaves the counters of the incidents alone, and neither creates nor
\* forgets an event, preserves the accounts.
LEMMA AccountsKept ==
  ASSUME AccountsInv,
         \A i \in Incidents : /\ incident'[i].alerts = incident[i].alerts
                              /\ incident'[i].cooldowns = incident[i].cooldowns
                              /\ incident'[i].alerted = incident[i].alerted,
         \A k \in Events : alert'[k].status = "none" <=> alert[k].status = "none"
  PROVE  AccountsInv'
<1>1. \A i \in Incidents : Raised(i)' = Raised(i)
  BY DEF Raised
<1> QED
  BY ZenonT(30), <1>1 DEF AccountsInv, CooldownsInv, EventsInv

\* Closing an incident changes none of its counters.
LEMMA StatusRows ==
  ASSUME NEW row \in IncidentRow, NEW s
  PROVE  /\ [row EXCEPT !.status = s].alerts = row.alerts
         /\ [row EXCEPT !.status = s].cooldowns = row.cooldowns
         /\ [row EXCEPT !.status = s].alerted = row.alerted
BY DEF IncidentRow

\* The counters of a row of incidents after each of the statements on it.
LEMMA CounterRows ==
  ASSUME NEW row \in IncidentRow, NEW m, NEW s
  PROVE  /\ Failed(row, m).alerts = row.alerts
         /\ Failed(row, m).cooldowns = row.cooldowns
         /\ Failed(row, m).alerted = row.alerted
         /\ Alerted(row).alerts = row.alerts + 1
         /\ Alerted(row).cooldowns = row.cooldowns
         /\ Alerted(row).alerted = "recent"
         /\ Cooled(row).alerts = row.alerts
         /\ Cooled(row).cooldowns = row.cooldowns + 1
         /\ Cooled(row).alerted = "past"
         /\ [row EXCEPT !.status = s].alerts = row.alerts
         /\ [row EXCEPT !.status = s].cooldowns = row.cooldowns
         /\ [row EXCEPT !.status = s].alerted = row.alerted
         /\ [row EXCEPT !.old = TRUE].alerts = row.alerts
         /\ [row EXCEPT !.old = TRUE].cooldowns = row.cooldowns
         /\ [row EXCEPT !.old = TRUE].alerted = row.alerted
BY DEF IncidentRow, Failed, Alerted, Cooled

\* Resolving or deleting incidents changes no counter.
LEMMA ClosingKeepsCounters ==
  ASSUME TypeOK, NEW S, NEW s,
         incident' = [i \in Incidents |-> IF i \in S THEN [incident[i] EXCEPT !.status = s]
                                                     ELSE incident[i]],
         NEW i \in Incidents
  PROVE  /\ incident'[i].alerts = incident[i].alerts
         /\ incident'[i].cooldowns = incident[i].cooldowns
         /\ incident'[i].alerted = incident[i].alerted
<1>1. incident[i] \in IncidentRow
  BY DEF TypeOK
<1>2. CASE i \in S
  <2>1. incident'[i] = [incident[i] EXCEPT !.status = s]
    BY <1>2
  <2> QED
    BY <1>1, <2>1, StatusRows
<1>3. CASE i \notin S
  BY <1>3
<1> QED
  BY <1>2, <1>3

\* A quiet step creates and forgets no event.
LEMMA QuietEvents ==
  ASSUME Quiet
  PROVE  \A k \in Events : alert'[k].status = "none" <=> alert[k].status = "none"
BY DEF Quiet, RowKept

\* A failed check counts an alert and stores its event in one transaction, or neither;
\* it counts one only while no cooldown is running.
LEMMA UpsertKeepsAccounts ==
  ASSUME IInv, AccountsInv, NEW m \in Monitors, NEW i \in Incidents, NEW enabled \in BOOLEAN,
         UpsertIncidentAndAlert(m, i, enabled)
  PROVE  AccountsInv'
<1> DEFINE row == Failed(incident[i], m)
           key == <<i, row.failures>>
           raised == enabled /\ MayAlert(row) /\ alert[key].status \in {"none", "deleted"}
<1>1. /\ TypeOK /\ FreshKeysInv /\ incident \in [Incidents -> IncidentRow]
      /\ alert \in [Events -> AlertRow]
  BY DEF IInv, TypeOK
<1>2. /\ incident[i] \in IncidentRow /\ incident[i].failures \in Nat
      /\ incident[i].alerts \in Nat /\ incident[i].cooldowns \in Nat
  BY <1>1 DEF IncidentRow
<1>3. /\ row \in IncidentRow /\ row.failures = incident[i].failures + 1
      /\ row.alerts = incident[i].alerts /\ row.cooldowns = incident[i].cooldowns
      /\ row.alerted = incident[i].alerted
  BY <1>2, IncidentRows, CounterRows
<1>4. /\ incident[i].failures < MaxFailures
      /\ IF raised THEN /\ incident' = [incident EXCEPT ![i] = Alerted(row)]
                        /\ alert' = [alert EXCEPT ![key] = NewAlert]
                   ELSE incident' = [incident EXCEPT ![i] = row] /\ alert' = alert
  BY DEF UpsertIncidentAndAlert
<1> HIDE DEF row
<1>5. key \in Events /\ key[1] = i /\ key[2] = row.failures
  BY <1>2, <1>3, <1>4, OutboxAssumption DEF Events
<1>6. CASE raised
  <2>1. row.alerted # "recent"
    BY <1>6 DEF MayAlert
  <2>2. /\ Alerted(row).alerts = row.alerts + 1 /\ Alerted(row).cooldowns = row.cooldowns
        /\ Alerted(row).alerted = "recent"
    BY <1>3, CounterRows
  <2>3. /\ incident'[i] = Alerted(row) /\ \A j \in Incidents \ {i} : incident'[j] = incident[j]
        /\ alert'[key] = NewAlert /\ \A k \in Events \ {key} : alert'[k] = alert[k]
    BY <1>1, <1>4, <1>5, <1>6
  <2>4. alert[key].status = "none"
    <3>1. key[2] > incident[key[1]].failures
      BY <1>2, <1>3, <1>5
    <3> QED
      BY ZenonT(30), <1>1, <1>5, <3>1 DEF FreshKeysInv
  <2>5. NewAlert.status # "none"
    BY DEF NewAlert
  <2>6. CooldownsInv'
    <3>1. incident'[i].alerts = incident'[i].cooldowns + 1 /\ incident'[i].alerted = "recent"
      <4>1. incident[i].alerts = incident[i].cooldowns + 0
        BY ZenonT(30), <1>3, <2>1 DEF AccountsInv, CooldownsInv
      <4>2. incident[i].cooldowns + 0 = incident[i].cooldowns
        BY <1>2
      <4> QED
        BY ZenonT(30), <1>3, <2>2, <2>3, <4>1, <4>2
    <3> QED
      BY ZenonT(30), <2>3, <3>1 DEF AccountsInv, CooldownsInv
  <2>7. Raised(i)' = Raised(i) \cup {key} /\ key \notin Raised(i)
    BY ZenonT(30), <1>5, <2>3, <2>4, <2>5 DEF Raised
  <2>8. Cardinality(Raised(i)') = Cardinality(Raised(i)) + 1
    BY ZenonT(30), <2>7, RaisedFinite, FS_AddElement
  <2>9. \A j \in Incidents \ {i} : Raised(j)' = Raised(j)
    BY <1>5, <2>3 DEF Raised
  <2>10. EventsInv'
    <3>1. incident'[i].alerts = Cardinality(Raised(i)')
      BY ZenonT(30), <1>3, <2>2, <2>3, <2>8 DEF AccountsInv, EventsInv
    <3>2. \A j \in Incidents \ {i} : incident'[j].alerts = Cardinality(Raised(j)')
      BY ZenonT(30), <2>3, <2>9 DEF AccountsInv, EventsInv
    <3> QED
      BY ZenonT(30), <3>1, <3>2 DEF EventsInv
  <2> QED
    BY <2>6, <2>10 DEF AccountsInv
<1>7. CASE ~raised
  <2>1. /\ incident'[i] = row /\ \A j \in Incidents \ {i} : incident'[j] = incident[j]
        /\ alert' = alert
    BY <1>1, <1>4, <1>7
  <2> QED
    BY ZenonT(30), <1>3, <2>1, AccountsKept
<1> QED
  BY <1>6, <1>7

\* The passing of a cooldown.
LEMMA CooldownKeepsAccounts ==
  ASSUME TypeOK, AccountsInv, NEW i \in Incidents, CooldownPasses(i)
  PROVE  AccountsInv'
<1>1. incident \in [Incidents -> IncidentRow] /\ incident[i] \in IncidentRow
  BY DEF TypeOK
<1>2. incident[i].alerted = "recent" /\ incident' = [incident EXCEPT ![i] = Cooled(incident[i])]
      /\ alert' = alert
  BY DEF CooldownPasses
<1>3. incident'[i] = Cooled(incident[i]) /\ \A j \in Incidents \ {i} : incident'[j] = incident[j]
  BY <1>1, <1>2
<1>4. /\ incident'[i].alerts = incident[i].alerts /\ incident'[i].alerted = "past"
      /\ incident'[i].cooldowns = incident[i].cooldowns + 1
  BY <1>1, <1>3, CounterRows
<1>5. incident[i].cooldowns \in Nat
  BY <1>1 DEF IncidentRow
<1>5a. incident'[i].cooldowns \in Nat
  BY <1>4, <1>5
<1>6. incident'[i].alerts = incident'[i].cooldowns
  BY ZenonT(30), <1>2, <1>4, <1>5 DEF AccountsInv, CooldownsInv
<1>7. incident'[i].cooldowns + 0 = incident'[i].cooldowns
  BY <1>5a
<1>8. CooldownsInv'
  BY ZenonT(30), <1>3, <1>4, <1>6, <1>7 DEF AccountsInv, CooldownsInv
<1>9. \A j \in Incidents : Raised(j)' = Raised(j) /\ incident'[j].alerts = incident[j].alerts
  BY ZenonT(30), <1>2, <1>3, <1>4 DEF Raised
<1>10. EventsInv'
  BY <1>9 DEF AccountsInv, EventsInv
<1> QED
  BY <1>8, <1>10 DEF AccountsInv

\* Steps of checks and of the API, and of retention.
LEMMA TablesKeepAccounts ==
  ASSUME IInv, AccountsInv, CheckStep \/ RetentionStep
  PROVE  AccountsInv'
<1>1. TypeOK
  BY DEF IInv
<1>2. ASSUME NEW S, NEW s, Quiet,
             incident' = [i \in Incidents |-> IF i \in S THEN [incident[i] EXCEPT !.status = s]
                                                         ELSE incident[i]]
      PROVE  AccountsInv'
  <2>1. \A i \in Incidents : /\ incident'[i].alerts = incident[i].alerts
                             /\ incident'[i].cooldowns = incident[i].cooldowns
                             /\ incident'[i].alerted = incident[i].alerted
    BY ZenonT(40), <1>1, <1>2, ClosingKeepsCounters
  <2> QED
    BY <1>2, <2>1, QuietEvents, AccountsKept
<1>3. ASSUME NEW m \in Monitors, ResolveIncident(m) PROVE AccountsInv'
  <2> DEFINE S == {i \in Incidents : Open(i, m)}
  <2>1. incident' = [i \in Incidents |-> IF i \in S THEN [incident[i] EXCEPT !.status = "resolved"]
                                                    ELSE incident[i]]
    BY <1>3 DEF ResolveIncident, Closed
  <2> HIDE DEF S
  <2>2. Quiet
    BY <1>1, <1>3, QuietTables
  <2> QED
    BY ZenonT(40), <1>2, <2>1, <2>2
<1>4. ASSUME NEW m \in Monitors, DeleteMonitor(m) PROVE AccountsInv'
  <2> DEFINE S == {i \in Incidents : incident[i].monitor = m}
  <2>1. incident' = [i \in Incidents |-> IF i \in S THEN [incident[i] EXCEPT !.status = "deleted"]
                                                    ELSE incident[i]]
    BY <1>4 DEF DeleteMonitor
  <2> HIDE DEF S
  <2>2. Quiet
    BY <1>1, <1>4, QuietTables
  <2> QED
    BY ZenonT(40), <1>2, <2>1, <2>2
<1>5. ASSUME NEW gone \in SUBSET Events, NEW incidents \in SUBSET Incidents,
             DeleteExpiredData(gone, incidents)
      PROVE  AccountsInv'
  <2>1. incident' = [i \in Incidents |-> IF i \in incidents
                       THEN [incident[i] EXCEPT !.status = "deleted"] ELSE incident[i]]
    BY <1>5 DEF DeleteExpiredData
  <2>2. Quiet
    BY ZenonT(30), <1>1, <1>5, QuietTables
  <2> QED
    BY ZenonT(40), <1>2, <2>1, <2>2
<1> QED
  BY <1>3, <1>4, <1>5, UpsertKeepsAccounts DEF CheckStep, RetentionStep

\* Steps of a dispatcher: they never touch an incident.
LEMMA DispatchKeepsAccounts ==
  ASSUME IInv, AccountsInv, NEW d \in Dispatchers, DispatcherStep(d)
  PROVE  AccountsInv'
<1>1. TypeOK /\ AcceptedInv
  BY DEF IInv
<1>2. incident' = incident
  BY ZenonT(40) DEF DispatcherStep, ClaimAlerts, Send, MarkAlertDelivered, MarkAlertFailed,
              AlertWriteFails, DispatcherCrash
<1>3. ASSUME \A k \in Events : alert'[k].status = "none" <=> alert[k].status = "none"
      PROVE  AccountsInv'
  BY <1>2, <1>3, AccountsKept
<1>4. ASSUME NEW batch \in SUBSET Events, ClaimAlerts(d, batch) PROVE AccountsInv'
  <2>1. ASSUME NEW k \in Events
        PROVE  alert'[k].status = "none" <=> alert[k].status = "none"
    BY ZenonT(30), <1>1, <1>4, <2>1, ClaimRows DEF Unfinished
  <2> QED
    BY ZenonT(30), <1>3, <2>1
<1>5. ASSUME NEW t \in task[d], Send(d, t) PROVE AccountsInv'
  <2>1. alert' = alert
    BY ZenonT(30), <1>5 DEF Send
  <2> QED
    BY <1>3, <2>1
<1>6. ASSUME Quiet PROVE AccountsInv'
  BY <1>3, <1>6, QuietEvents
<1> QED
  BY ZenonT(30), <1>1, <1>4, <1>5, <1>6, QuietDispatch DEF DispatcherStep

\* The passing of time.
LEMMA TimeKeepsAccounts ==
  ASSUME IInv, AccountsInv, TimeStep
  PROVE  AccountsInv'
<1>1. TypeOK /\ incident \in [Incidents -> IncidentRow]
  BY DEF IInv, TypeOK
<1>2. \A k \in Events : alert'[k].status = "none" <=> alert[k].status = "none"
  BY <1>1, QuietTime, QuietEvents
<1>3. ASSUME incident' = incident PROVE AccountsInv'
  BY <1>2, <1>3, AccountsKept
<1>4. ASSUME NEW i \in Incidents, incident' = [incident EXCEPT ![i].old = TRUE]
      PROVE  AccountsInv'
  <2>1. /\ incident'[i] = [incident[i] EXCEPT !.old = TRUE] /\ incident[i] \in IncidentRow
        /\ \A j \in Incidents \ {i} : incident'[j] = incident[j]
    BY <1>1, <1>4
  <2>2. /\ incident'[i].alerts = incident[i].alerts
        /\ incident'[i].cooldowns = incident[i].cooldowns
        /\ incident'[i].alerted = incident[i].alerted
    BY <2>1, CounterRows
  <2> QED
    BY ZenonT(30), <1>2, <2>1, <2>2, AccountsKept
<1>5. ASSUME NEW i \in Incidents, CooldownPasses(i) PROVE AccountsInv'
  BY <1>1, <1>5, CooldownKeepsAccounts
<1> QED
  BY <1>3, <1>4, <1>5 DEF TimeStep, Age, ExpireAlertLease, BecomeAvailable

\* An incident raises one alert and then at most one per cooldown, and each one it
\* counts has its event in the outbox (upsertIncidentAndAlert writes the incident and
\* the event in one transaction, and the event's key is new).
THEOREM AlertsAreAccounted == Spec => []AlertsAccounted
<1>1. Init => AccountsInv
  <2> SUFFICES ASSUME Init PROVE AccountsInv
    OBVIOUS
  <2>1. \A i \in Incidents : Raised(i) = {}
    BY ZenonT(30) DEF Init, Raised
  <2>2. \A i \in Incidents : /\ incident[i].alerts = 0 /\ incident[i].cooldowns = 0
                             /\ incident[i].alerted = "never"
    BY DEF Init
  <2> QED
    <3>1. CooldownsInv
      BY <2>2 DEF CooldownsInv
    <3>2. EventsInv
      BY ZenonT(30), <2>1, <2>2, FS_EmptySet DEF EventsInv
    <3> QED
      BY Zenon, <3>1, <3>2 DEF AccountsInv
<1>2. IInv /\ AccountsInv /\ [Next]_vars => AccountsInv'
  <2> SUFFICES ASSUME IInv, AccountsInv, [Next]_vars PROVE AccountsInv'
    OBVIOUS
  <2>1. CASE UNCHANGED vars
    BY ZenonT(30), <2>1, AccountsKept DEF vars
  <2> QED
    BY ZenonT(30), <2>1, TablesKeepAccounts, DispatchKeepsAccounts, TimeKeepsAccounts DEF Next
<1>3. IInv /\ AccountsInv => AlertsAccounted
  <2> SUFFICES ASSUME IInv, AccountsInv, NEW i \in Incidents
               PROVE  /\ incident[i].alerts <= incident[i].cooldowns + 1
                      /\ incident[i].alerts = Cardinality(Raised(i))
    BY DEF AlertsAccounted, Raised
  <2>1. incident[i].cooldowns \in Nat
    BY DEF IInv, TypeOK, IncidentRow
  <2> QED
    BY <2>1 DEF AccountsInv, CooldownsInv, EventsInv
<1> QED
  BY <1>1, <1>2, <1>3, IInvHolds, PTL DEF Spec

-----------------------------------------------------------------------------
(* The delays, computed on integers of a fixed width *)

\* A remainder below the divisor.
LEMMA ModSmall ==
  ASSUME NEW a \in Nat, NEW k \in Nat, a < k
  PROVE  a % k = a
OBVIOUS

\* A set of natural numbers has a least one.
LEMMA LeastNatural ==
  ASSUME NEW T, T \subseteq Nat, T # {}
  PROVE  \E x \in T : \A y \in T : x <= y
<1> DEFINE R == OpToRel(<, Nat)
<1>1. IsWellFoundedOn(R, Nat)
  BY ZenonT(30), NatLessThanWellFounded
<1>2. \A x, y \in Nat : y < x => <<y, x>> \in R
  BY DEF OpToRel
<1> HIDE DEF R
<1>3. PICK x \in T : \A y \in T : ~(<<y, x>> \in R)
  BY ZenonT(30), <1>1, WFMin
<1>4. \A y \in T : x <= y
  <2> SUFFICES ASSUME NEW y \in T  PROVE x <= y
    OBVIOUS
  <2>1. x \in Nat /\ y \in Nat /\ ~(y < x)
    BY ZenonT(30), <1>2, <1>3
  <2> QED  BY <2>1
<1> QED  BY <1>4

\* Induction, for a set instead of a predicate.
LEMMA InductionUpTo ==
  ASSUME NEW n \in Nat, NEW T, 0 \in T, \A i \in 0..(n - 1) : i \in T => i + 1 \in T
  PROVE  \A i \in 0..n : i \in T
<1> DEFINE Bad == {i \in 0..n : i \notin T}
<1> SUFFICES ASSUME Bad # {}  PROVE FALSE
  OBVIOUS
<1>1. PICK i \in Bad : \A k \in Bad : i <= k
  <2>1. Bad \subseteq Nat
    OBVIOUS
  <2> HIDE DEF Bad
  <2> QED  BY ZenonT(30), <2>1, LeastNatural
<1>2. i \in 0..n /\ i \notin T /\ i # 0
  BY <1>1
<1>3. i - 1 \in 0..(n - 1) /\ (i - 1) + 1 = i /\ i - 1 < i
  BY <1>2
<1>4. i - 1 \in T
  BY <1>1, <1>3
<1> QED  BY <1>2, <1>3, <1>4

\* The values of a loop that starts with a and applies s in every round.
Iterates(f, n, a, s) == f = [i \in 0..n |-> IF i = 0 THEN a ELSE s[f[i - 1]]]

\* They exist: the recursive functions of Backoff are well defined.
LEMMA IteratesExist ==
  ASSUME NEW a \in Int, NEW s \in [Int -> Int], NEW n \in Nat
  PROVE  \E f \in [0..n -> Int] : Iterates(f, n, a, s)
<1> DEFINE T == {i \in 0..n : \E f \in [0..i -> Int] : Iterates(f, i, a, s)}
<1>1. 0 \in T
  <2> DEFINE f == [i \in 0..0 |-> a]
  <2>1. f \in [0..0 -> Int] /\ f = [i \in 0..0 |-> IF i = 0 THEN a ELSE s[f[i - 1]]]
    OBVIOUS
  <2> HIDE DEF f
  <2> QED  BY <2>1 DEF Iterates
<1>2. ASSUME NEW k \in 0..(n - 1), k \in T  PROVE k + 1 \in T
  <2>1. PICK f \in [0..k -> Int] : Iterates(f, k, a, s)
    BY <1>2
  <2>2. f = [i \in 0..k |-> IF i = 0 THEN a ELSE s[f[i - 1]]]
    BY <2>1 DEF Iterates
  <2> DEFINE g == [i \in 0..(k + 1) |-> IF i = k + 1 THEN s[f[k]] ELSE f[i]]
  <2>3. g \in [0..(k + 1) -> Int]
    OBVIOUS
  <2>4. ASSUME NEW i \in 0..(k + 1)
        PROVE  g[i] = IF i = 0 THEN a ELSE s[g[i - 1]]
    <3>1. CASE i = k + 1
      <4>1. g[i] = s[f[k]] /\ i # 0 /\ i - 1 = k /\ g[k] = f[k]
        BY <3>1
      <4> HIDE DEF g
      <4> QED  BY <3>1, <4>1
    <3>2. CASE i \in 0..k /\ i # 0
      <4>1. g[i] = f[i] /\ g[i - 1] = f[i - 1]
        BY <3>2
      <4>2. f[i] = s[f[i - 1]]
        BY <2>2, <3>2
      <4> HIDE DEF g
      <4> QED  BY <3>2, <4>1, <4>2
    <3>3. CASE i = 0
      <4>1. g[i] = f[0] /\ 0 \in 0..k
        BY <3>3
      <4>2. f[0] = a
        BY <2>2, <4>1
      <4> HIDE DEF g
      <4> QED  BY <3>3, <4>1, <4>2
    <3>4. i = k + 1 \/ (i \in 0..k /\ i # 0) \/ i = 0
      OBVIOUS
    <3> QED  BY ZenonT(30), <3>1, <3>2, <3>3, <3>4
  <2>5. g = [i \in 0..(k + 1) |-> g[i]]
    OBVIOUS
  <2> HIDE DEF g
  <2>6. Iterates(g, k + 1, a, s)
    BY ZenonT(30), <2>4, <2>5 DEF Iterates
  <2>7. k + 1 \in 0..n
    BY <1>2
  <2> QED  BY <2>3, <2>6, <2>7
<1>3. \A i \in 0..n : i \in T
  <2> HIDE DEF T
  <2> QED  BY <1>1, <1>2, InductionUpTo
<1>4. n \in T
  BY <1>3
<1> QED  BY <1>4

\* The recursive functions inside PowerOfTwo and RetryDelay.
PowerLoop(n, p) == p = [i \in 0..n |-> IF i = 0 THEN 1 ELSE 2 * p[i - 1]]

\* The powers of two up to 2^n.
LEMMA Powers ==
  ASSUME NEW n \in Nat
  PROVE  \E p \in [0..n -> Nat \ {0}] :
           /\ PowerOfTwo(n) = p[n]
           /\ p[0] = 1 /\ \A i \in 1..n : p[i] = 2 * p[i - 1]
<1> DEFINE s == [x \in Int |-> 2 * x]
           p == CHOOSE f : PowerLoop(n, f)
<1>1. PICK f \in [0..n -> Int] : Iterates(f, n, 1, s)
  <2>1. s \in [Int -> Int] /\ 1 \in Int
    OBVIOUS
  <2> HIDE DEF s
  <2> QED  BY <2>1, IteratesExist
<1>2. ASSUME NEW i \in 0..n
      PROVE  (IF i = 0 THEN 1 ELSE s[f[i - 1]]) = (IF i = 0 THEN 1 ELSE 2 * f[i - 1])
  <2>1. CASE i = 0
    BY <2>1
  <2>2. CASE i # 0
    <3>1. f[i - 1] \in Int
      BY <2>2
    <3> QED  BY <3>1
  <2> QED  BY <2>1, <2>2
<1>3. PowerLoop(n, f)
  <2> HIDE DEF s
  <2> QED  BY <1>1, <1>2 DEF Iterates, PowerLoop
<1>4. PowerLoop(n, p)
  BY ZenonT(30), <1>3
<1>5. PowerOfTwo(n) = p[n]
  BY DEF PowerOfTwo, PowerLoop
<1> HIDE DEF p
<1>6. p = [i \in 0..n |-> IF i = 0 THEN 1 ELSE 2 * p[i - 1]]
  BY <1>4 DEF PowerLoop
<1>7. p[0] = 1 /\ \A i \in 1..n : p[i] = 2 * p[i - 1]
  BY <1>6
<1>8. \A i \in 0..n : p[i] \in Nat \ {0}
  <2> DEFINE T == {i \in 0..n : p[i] \in Nat \ {0}}
  <2>1. 0 \in T
    BY <1>7
  <2>2. ASSUME NEW i \in 0..(n - 1), i \in T  PROVE i + 1 \in T
    <3>1. i + 1 \in 1..n /\ (i + 1) - 1 = i /\ i + 1 \in 0..n
      BY <2>2
    <3>2. p[i + 1] = 2 * p[i] /\ p[i] \in Nat \ {0}
      BY <1>7, <2>2, <3>1
    <3> QED  BY <3>1, <3>2
  <2>3. \A i \in 0..n : i \in T
    <3> HIDE DEF T
    <3> QED  BY <2>1, <2>2, InductionUpTo
  <2> QED  BY <2>3
<1>9. p \in [0..n -> Nat \ {0}]
  BY <1>6, <1>8
<1> QED  BY <1>5, <1>7, <1>9

\* A number that fits into the width is what it is.
LEMMA LargestFacts == Largest \in Nat /\ \A x \in (-Largest - 1)..Largest : Wrap(x) = x
<1>1. Width - 1 \in Nat
  BY BackoffAssumption
<1>2. PowerOfTwo(Width - 1) \in Nat \ {0}
  <2> DEFINE n == Width - 1
  <2>1. n \in Nat
    BY <1>1
  <2> HIDE DEF n
  <2>2. PICK p \in [0..n -> Nat \ {0}] : PowerOfTwo(n) = p[n]
    BY ZenonT(30), <2>1, Powers
  <2>3. PowerOfTwo(n) \in Nat \ {0}
    BY <2>1, <2>2
  <2> QED  BY <2>3 DEF n
<1>3. Largest \in Nat
  BY <1>2 DEF Largest
<1>4. ASSUME NEW x \in (-Largest - 1)..Largest  PROVE Wrap(x) = x
  <2> DEFINE a == x + Largest + 1
             k == 2 * (Largest + 1)
  <2>1. a \in Nat /\ k \in Nat /\ a < k /\ a - Largest - 1 = x
    BY <1>3
  <2>2. Wrap(x) = (a % k) - Largest - 1
    BY DEF Wrap
  <2> HIDE DEF a, k
  <2>3. a % k = a
    BY <2>1, ModSmall
  <2> QED  BY <2>1, <2>2, <2>3
<1> QED  BY <1>3, <1>4

\* A round of the loop doubles the delay up to the maximum, and does not overflow.
LEMMA DoubledFacts ==
  ASSUME NEW max \in 1..Largest, NEW d \in 1..max
  PROVE  Doubled(d, max) = Least(2 * d, max) /\ Doubled(d, max) \in 1..max
<1>1. Largest \in Nat
  BY LargestFacts
<1>2. CASE d = max
  BY <1>1, <1>2 DEF Doubled, Least
<1>3. CASE d < max /\ d > max \div 2
  BY <1>1, <1>3 DEF Doubled, Least
<1>4. CASE d < max /\ ~(d > max \div 2)
  <2>1. 2 * d <= max /\ d * 2 = 2 * d /\ d * 2 \in (-Largest - 1)..Largest
    BY <1>1, <1>4
  <2>2. Wrap(d * 2) = 2 * d
    BY <2>1, LargestFacts
  <2>3. Doubled(d, max) = 2 * d
    BY <1>1, <1>4, <2>2 DEF Doubled
  <2> QED  BY <1>1, <2>1, <2>3 DEF Least
<1> QED  BY <1>1, <1>2, <1>3, <1>4

\* The products of the delays.
LEMMA Products ==
  ASSUME NEW a \in Nat, NEW b \in Nat
  PROVE  a * b \in Nat /\ a * (2 * b) = 2 * (a * b) /\ a * 1 = a
OBVIOUS

\* Cutting off before and after doubling is cutting off after it.
LEMMA LeastTwice ==
  ASSUME NEW q \in Nat, NEW max \in Nat
  PROVE  Least(2 * Least(q, max), max) = Least(2 * q, max)
BY DEF Least

DelayLoop(n, d, first, max) ==
  d = [i \in 0..n |-> IF i = 0 THEN first ELSE Doubled(d[i - 1], max)]

\* The delay after the k-th failed attempt is the first one doubled k - 1 times, or the
\* maximum when that is less: no product overflows on the way.
THEOREM DelayDoubles ==
  ASSUME NEW k \in Nat \ {0}, NEW max \in 1..Largest, NEW first \in 1..max
  PROVE  /\ RetryDelay(k, first, max) = Least(first * PowerOfTwo(k - 1), max)
         /\ RetryDelay(k, first, max) \in 1..max
<1> DEFINE n == k - 1
           s == [x \in Int |-> IF x \in 1..max THEN Doubled(x, max) ELSE 0]
           d == CHOOSE f : DelayLoop(n, f, first, max)
<1>0. n \in Nat /\ max \in Nat /\ first \in Int /\ (IF k < 1 THEN 0 ELSE k - 1) = n
  BY LargestFacts
<1>1. PICK f \in [0..n -> Int] : Iterates(f, n, first, s)
  <2>1. s \in [Int -> Int]
    BY <1>0, DoubledFacts
  <2> HIDE DEF s, n
  <2> QED  BY <1>0, <2>1, IteratesExist
<1> HIDE DEF n
<1>2. f[0] = first /\ \A i \in 1..n : f[i] = s[f[i - 1]]
  <2> HIDE DEF s
  <2> QED  BY <1>0, <1>1 DEF Iterates
<1>3. \A i \in 0..n : f[i] \in 1..max
  <2> DEFINE T == {i \in 0..n : f[i] \in 1..max}
  <2>1. 0 \in T
    BY <1>0, <1>2
  <2>2. ASSUME NEW i \in 0..(n - 1), i \in T  PROVE i + 1 \in T
    <3>1. i + 1 \in 1..n /\ (i + 1) - 1 = i /\ i + 1 \in 0..n
      BY <1>0, <2>2
    <3>2. f[i + 1] = s[f[i]] /\ f[i] \in 1..max
      BY <1>2, <2>2, <3>1
    <3>3. f[i] \in Int /\ f[i + 1] = Doubled(f[i], max)
      BY <1>0, <3>2
    <3>4. f[i + 1] \in 1..max
      BY <3>2, <3>3, DoubledFacts
    <3> QED  BY <3>1, <3>4
  <2>3. \A i \in 0..n : i \in T
    <3> HIDE DEF T
    <3> QED  BY <1>0, <2>1, <2>2, InductionUpTo
  <2> QED  BY <2>3
<1>4. ASSUME NEW i \in 0..n
      PROVE  f[i] = IF i = 0 THEN first ELSE Doubled(f[i - 1], max)
  <2>1. CASE i = 0
    BY <1>2, <2>1
  <2>2. CASE i # 0
    <3>1. i \in 1..n /\ i - 1 \in 0..n
      BY <1>0, <2>2
    <3>2. f[i - 1] \in 1..max /\ f[i - 1] \in Int
      BY <1>0, <1>3, <3>1
    <3> QED  BY <1>2, <2>2, <3>1, <3>2
  <2> QED  BY <2>1, <2>2
<1>5. DelayLoop(n, f, first, max)
  BY <1>4 DEF DelayLoop
<1>6. DelayLoop(n, d, first, max)
  BY ZenonT(30), <1>5
<1>7. RetryDelay(k, first, max) = Least(d[n], max)
  BY <1>0 DEF RetryDelay, DelayLoop
<1> HIDE DEF d
<1>8. d[0] = first /\ \A i \in 1..n : d[i] = Doubled(d[i - 1], max)
  BY <1>0, <1>6 DEF DelayLoop
<1>9. PICK p \in [0..n -> Nat \ {0}] :
        /\ PowerOfTwo(n) = p[n]
        /\ p[0] = 1 /\ \A i \in 1..n : p[i] = 2 * p[i - 1]
  BY ZenonT(30), <1>0, Powers
<1> DEFINE T == {i \in 0..n : d[i] \in 1..max /\ d[i] = Least(first * p[i], max)}
<1>10. 0 \in T
  <2>1. first \in Nat /\ 0 \in 0..n
    BY <1>0
  <2>2. first * p[0] = first
    BY <1>9, <2>1, Products
  <2>3. Least(first, max) = first
    BY <1>0, <2>1 DEF Least
  <2>4. d[0] = Least(first * p[0], max) /\ d[0] \in 1..max
    BY ZenonT(30), <1>8, <2>2, <2>3
  <2> QED  BY ZenonT(30), <2>1, <2>4
<1>11. ASSUME NEW i \in 0..(n - 1), i \in T  PROVE i + 1 \in T
  <2>1. i + 1 \in 1..n /\ (i + 1) - 1 = i /\ i + 1 \in 0..n /\ i \in 0..n
    BY <1>0, <1>11
  <2>2. d[i + 1] = Doubled(d[i], max) /\ p[i + 1] = 2 * p[i] /\ p[i] \in Nat
    BY <1>8, <1>9, <2>1
  <2>3. d[i] \in 1..max /\ d[i] = Least(first * p[i], max)
    BY <1>11
  <2>4. d[i + 1] = Least(2 * d[i], max) /\ d[i + 1] \in 1..max
    BY <2>2, <2>3, DoubledFacts
  <2>5. first * p[i] \in Nat /\ first * p[i + 1] = 2 * (first * p[i])
    <3>1. first \in Nat
      BY <1>0
    <3>2. first * p[i] \in Nat /\ first * (2 * p[i]) = 2 * (first * p[i])
      BY ZenonT(30), <2>2, <3>1, Products
    <3> QED  BY ZenonT(30), <2>2, <3>2
  <2> DEFINE q == first * p[i]
  <2> HIDE DEF q, T
  <2>6. q \in Nat /\ d[i] = Least(q, max) /\ first * p[i + 1] = 2 * q
    BY <2>3, <2>5 DEF q
  <2>7. d[i + 1] = Least(2 * q, max)
    BY ZenonT(30), <1>0, <2>4, <2>6, LeastTwice
  <2> QED  BY ZenonT(30), <2>1, <2>4, <2>6, <2>7 DEF T
<1>12. n \in T
  <2> HIDE DEF T
  <2>1. \A i \in 0..n : i \in T
    BY <1>0, <1>10, <1>11, InductionUpTo
  <2> QED  BY <1>0, <2>1
<1>13. d[n] \in 1..max /\ d[n] = Least(first * PowerOfTwo(n), max)
  BY <1>9, <1>12
<1>14. Least(d[n], max) = d[n]
  BY <1>0, <1>13 DEF Least
<1> QED  BY <1>7, <1>13, <1>14 DEF n

\* The webhook's request in seconds, cut off at the limit: no product overflows.  A number
\* of seconds that does not fit the width counts as no request.
THEOREM RetryAfterParsed ==
  ASSUME NEW seconds \in Int
  PROVE  /\ ParseRetryAfter(seconds) = Asked(seconds)
         /\ ParseRetryAfter(seconds) \in 0..MaxRetryAfter
<1>1. Largest \in Nat
  BY LargestFacts
<1>2. PICK limit \in 1..Largest : MaxRetryAfter = limit * Unit
  BY BackoffAssumption
<1>3. Unit \in Nat \ {0} /\ limit \in Nat /\ MaxRetryAfter \in Nat /\ MaxRetryAfter <= Largest
  BY <1>1, <1>2, BackoffAssumption
<1>4. MaxRetryAfter \div Unit = limit
  BY <1>2, <1>3
<1>5. CASE seconds > Largest \/ seconds <= 0
  BY <1>1, <1>3, <1>5 DEF ParseRetryAfter, Asked, Least
<1>6. CASE seconds \in 1..Largest /\ seconds >= limit
  <2>1. seconds * Unit >= limit * Unit /\ seconds * Unit \in Nat
    BY <1>1, <1>3, <1>6
  <2>2. ParseRetryAfter(seconds) = MaxRetryAfter
    BY <1>1, <1>4, <1>6 DEF ParseRetryAfter
  <2>3. Least(seconds * Unit, MaxRetryAfter) = MaxRetryAfter
    BY <1>2, <1>3, <2>1 DEF Least
  <2> QED  BY <1>1, <1>3, <1>6, <2>2, <2>3 DEF Asked
<1>7. CASE seconds \in 1..Largest /\ ~(seconds >= limit)
  <2>1. seconds * Unit < limit * Unit /\ seconds * Unit \in Nat
    BY <1>1, <1>3, <1>7
  <2> DEFINE x == seconds * Unit
  <2> HIDE DEF x
  <2>2. x \in Nat /\ x < MaxRetryAfter
    BY <1>2, <2>1 DEF x
  <2>3. Wrap(x) = x
    BY <1>1, <1>3, <2>2, LargestFacts
  <2>4. ParseRetryAfter(seconds) = x
    BY <1>1, <1>4, <1>7, <2>3 DEF ParseRetryAfter, x
  <2>5. Least(x, MaxRetryAfter) = x
    BY <1>3, <2>2 DEF Least
  <2>6. Asked(seconds) = Least(x, MaxRetryAfter)
    BY <1>1, <1>7 DEF Asked, x
  <2> QED  BY <1>3, <2>2, <2>4, <2>5, <2>6
<1> QED  BY <1>1, <1>3, <1>5, <1>6, <1>7

-----------------------------------------------------------------------------
(* The delays of the events *)

\* No event counts more attempts than ALERT_MAX_ATTEMPTS: only candidates are claimed.
AttemptsBounded == \A k \in Events : alert[k].attempts <= MaxAttempts

\* A claim takes candidates, which have attempts left; no other step counts one.
LEMMA AttemptsStep ==
  ASSUME IInv, AttemptsBounded, [Next]_vars
  PROVE  AttemptsBounded'
<1>1. TypeOK /\ FreshKeysInv /\ AcceptedInv /\ alert \in [Events -> AlertRow]
  BY ZenonT(30) DEF IInv, TypeOK
<1>2. ASSUME \A k \in Events : alert'[k].attempts = alert[k].attempts
      PROVE  AttemptsBounded'
  BY ZenonT(30), <1>2 DEF AttemptsBounded
<1>3. Quiet => AttemptsBounded'
  BY ZenonT(30), <1>2 DEF Quiet, RowKept
<1>4. CASE UNCHANGED vars
  BY ZenonT(30), <1>2, <1>4 DEF vars
<1>5. ASSUME NEW m \in Monitors, NEW i \in Incidents, NEW enabled \in BOOLEAN,
             UpsertIncidentAndAlert(m, i, enabled)
      PROVE  AttemptsBounded'
  <2>1. ASSUME NEW key \in Events, alert[key].attempts = 0, alert' = [alert EXCEPT ![key] = NewAlert]
        PROVE  \A k \in Events : alert'[k].attempts = alert[k].attempts
    BY ZenonT(30), <1>1, <2>1 DEF NewAlert
  <2> QED
    BY ZenonT(30), <1>1, <1>2, <1>3, <1>5, <2>1, UpsertEffect
<1>6. ASSUME NEW d \in Dispatchers, NEW batch \in SUBSET Events, ClaimAlerts(d, batch)
      PROVE  AttemptsBounded'
  <2> SUFFICES ASSUME NEW k \in Events PROVE alert'[k].attempts <= MaxAttempts
    BY DEF AttemptsBounded
  <2>1. CASE k \in batch
    <3>1. alert'[k].attempts = alert[k].attempts + 1
      BY ZenonT(30), <1>1, <1>6, <2>1, ClaimRows
    <3>2. alert[k].attempts < MaxAttempts
      BY ZenonT(30), <1>6, <2>1 DEF ClaimAlerts, Candidate
    <3>3. alert[k].attempts \in Nat /\ MaxAttempts \in Nat
      BY <1>1, OutboxAssumption DEF AlertRow
    <3> QED
      BY <3>1, <3>2, <3>3
  <2>2. CASE k \notin batch
    <3>1. alert'[k].attempts = alert[k].attempts
      BY ZenonT(30), <1>1, <1>6, <2>2, ClaimRows
    <3> QED
      BY ZenonT(30), <3>1 DEF AttemptsBounded
  <2> QED
    BY <2>1, <2>2
<1>7. ASSUME NEW d \in Dispatchers, NEW t \in task[d], Send(d, t)
      PROVE  AttemptsBounded'
  <2>1. alert' = alert
    BY <1>7 DEF Send
  <2> QED
    BY ZenonT(30), <1>2, <2>1
<1>8. CASE CheckStep
  BY ZenonT(30), <1>1, <1>3, <1>5, <1>8, QuietTables DEF CheckStep
<1>9. ASSUME NEW d \in Dispatchers, DispatcherStep(d)
      PROVE  AttemptsBounded'
  BY ZenonT(30), <1>1, <1>3, <1>6, <1>7, <1>9, QuietDispatch DEF DispatcherStep
<1>10. ASSUME NEW gone \in SUBSET Events, NEW incidents \in SUBSET Incidents,
              DeleteExpiredData(gone, incidents)
       PROVE  AttemptsBounded'
  BY ZenonT(30), <1>1, <1>3, <1>10, QuietTables
<1>11. CASE TimeStep
  BY ZenonT(30), <1>1, <1>3, <1>11, QuietTime
<1> QED
  BY ZenonT(30), <1>4, <1>8, <1>9, <1>10, <1>11 DEF Next, RetentionStep

\* The longer one of two delays is at least the other and one of them.
LEMMA DelayAsked ==
  ASSUME NEW n \in Nat \ {0}, NEW max \in 1..Largest, NEW first \in 1..max, NEW seconds \in Int
  PROVE  LET delay == AlertDelay(n, first, max, seconds)
         IN  delay >= Asked(seconds) /\ delay \in {Asked(seconds), RetryDelay(n, first, max)}
<1> DEFINE asked == Asked(seconds)
           delay == RetryDelay(n, first, max)
<1>1. ParseRetryAfter(seconds) = asked /\ asked \in 0..MaxRetryAfter
  BY ZenonT(30), RetryAfterParsed
<1>2. delay \in 1..max
  BY ZenonT(30), DelayDoubles
<1>3. MaxRetryAfter \in Nat /\ max \in Nat
  <2>1. PICK limit \in 1..Largest : MaxRetryAfter = limit * Unit
    BY BackoffAssumption
  <2> QED
    BY <2>1, LargestFacts, BackoffAssumption, Products
<1>4. AlertDelay(n, first, max, seconds) = IF asked > delay THEN asked ELSE delay
  BY ZenonT(30), <1>1 DEF AlertDelay
<1> HIDE DEF asked, delay
<1>5. /\ AlertDelay(n, first, max, seconds) >= asked
      /\ AlertDelay(n, first, max, seconds) \in {asked, delay}
  BY <1>1, <1>2, <1>3, <1>4
<1> QED
  BY ZenonT(30), <1>5 DEF asked, delay

\* DelaysExact: at whatever attempt an event has arrived, and whatever the configuration,
\* the next one comes after the initial delay doubled for each attempt but the first, up
\* to the maximum, or after the longer time the webhook asked for, up to its limit,
\* although alertRetryDelay and parseRetryAfter multiply integers of fixed width.
THEOREM DelaysAreExact == Spec => []DelaysExact
<1>1. Init => AttemptsBounded
  BY OutboxAssumption DEF Init, AttemptsBounded
<1>2. IInv /\ AttemptsBounded /\ [Next]_vars => AttemptsBounded'
  BY AttemptsStep
<1>3. ASSUME NEW n \in Nat \ {0}, NEW c \in Backoffs
      PROVE  RetryDelay(n, c[1], c[2]) = Least(c[1] * PowerOfTwo(n - 1), c[2])
  <2>1. c[2] \in 1..Largest /\ c[1] \in 1..c[2]
    BY LargestFacts, BackoffsAssumption DEF Backoffs
  <2> QED
    BY ZenonT(30), <2>1, DelayDoubles
<1>4. ASSUME NEW n \in Nat \ {0}, NEW c \in Backoffs, NEW seconds \in Seconds
      PROVE  LET delay == AlertDelay(n, c[1], c[2], seconds)
             IN  /\ delay >= Asked(seconds)
                 /\ delay \in {Asked(seconds), RetryDelay(n, c[1], c[2])}
  <2>1. c[2] \in 1..Largest /\ c[1] \in 1..c[2]
    BY LargestFacts, BackoffsAssumption DEF Backoffs
  <2>2. seconds \in Int
    <3>1. Unit \in Nat \ {0} /\ Largest \in Nat /\ MaxRetryAfter \in Int
      <4>1. PICK limit \in 1..Largest : MaxRetryAfter = limit * Unit
        BY BackoffAssumption
      <4> QED
        BY <4>1, LargestFacts, BackoffAssumption, Products
    <3>2. MaxRetryAfter \div Unit \in Int /\ Largest \div 2 \in Int
      BY <3>1
    <3> QED
      BY <3>1, <3>2 DEF Seconds
  <2> QED
    BY ZenonT(30), <2>1, <2>2, DelayAsked
<1>5. IInv /\ AttemptsBounded => DelaysExact
  <2> SUFFICES ASSUME IInv, AttemptsBounded PROVE DelaysExact
    OBVIOUS
  <2>1. ASSUME NEW k \in Events, alert[k].attempts > 0
        PROVE  alert[k].attempts \in 1..MaxAttempts /\ alert[k].attempts \in Nat \ {0}
    <3>1. alert[k].attempts \in Nat /\ alert[k].attempts <= MaxAttempts
      BY DEF IInv, TypeOK, AlertRow, AttemptsBounded
    <3> QED
      BY <2>1, <3>1, OutboxAssumption
  <2>2. DelayIsExact
    BY ZenonT(30), <1>3, <2>1 DEF DelayIsExact, DoublesAt
  <2>3. RetryAfterHonoured
    BY ZenonT(30), <1>4, <2>1 DEF RetryAfterHonoured, HonoursAt
  <2> QED
    BY <2>2, <2>3 DEF DelaysExact
<1> QED
  BY <1>1, <1>2, <1>5, IInvHolds, PTL DEF Spec
=============================================================================
