----------------------- MODULE MemoryPipelineProofs ------------------------
(***************************************************************************)
(* The local mode loses no queued job as long as no lease runs out under   *)
(* its holder, for any set of monitors, jobs and workers and any size of   *)
(* the buffer and of the batches.                                          *)
(*                                                                         *)
(* The invariant describes the behaviour up to the first such fault.  Up   *)
(* to there every job is published and processed once.                     *)
(***************************************************************************)
EXTENDS MemoryPipeline, TLAPS

\* The only message of job j.
First(j) == [job |-> j, attempt |-> 1]

Messages == [job: Jobs, attempt: {1}]
Claims == [job: Jobs, attempt: {0}, token: Tokens]
Leases == [job: Jobs, attempt: {1}, token: Tokens]

Ended == {"completed", "dead", "gone"}

-----------------------------------------------------------------------------
(* The invariant *)

\* The index of the unfinished jobs is exact, and every entry is under the monitor
\* of its job.
IndexInv ==
  /\ monitor \in [Monitors -> Store!MonitorRow]
  /\ active \in [Monitors -> Jobs \cup {NoJob}]
  /\ Store!ActiveIndexExact
  /\ \A m \in Monitors : active[m] # NoJob => MonitorOf[active[m]] = m /\ Store!Exists(m)

\* No attempt has failed: a waiting job has had none, and a running one has its lease.
RowsInv ==
  /\ job \in [Jobs -> Store!JobRow]
  /\ \A j \in Jobs :
       /\ job[j].status # "failed"
       /\ job[j].status = "none" => job[j].lease = "none"
       /\ job[j].status \in {"none", "scheduled", "queued"} => job[j].attempt = 0
       /\ job[j].status = "processing" => job[j].lease = "live"
       /\ j \in processed => job[j].status \in Ended

StoreInv == IndexInv /\ RowsInv

SchedulerInv ==
  /\ ~closed /\ ~cancelled
  /\ scheduler \in [batch: SUBSET Claims, claim: Claims \cup {None}]
  /\ publisher \in [{Scheduler} -> [pc: {"idle", "enqueue", "undo", "published", "failed"},
                                    message: Messages \cup {None}]]
  /\ publisher[Scheduler].pc # "idle" =>
       scheduler.claim \in Claims /\ publisher[Scheduler].message = First(scheduler.claim.job)
  /\ \A c \in scheduler.batch : job[c.job].status # "none"
  /\ scheduler.claim \in Claims => job[scheduler.claim.job].status # "none"

QueueInv ==
  /\ channel \in Seq(Messages)
  /\ \A i \in DOMAIN channel : job[channel[i].job].status # "none"
  /\ consumer \in [pc: {"waiting", "holding", "stopped"}, message: Messages \cup {None}]
  /\ consumer.pc = "holding" =>
       consumer.message \in Messages /\ job[consumer.message.job].status # "none"

\* What a worker has in hand.
InHand(w) ==
  worker[w].pc # "idle" =>
    /\ delivery[w].pc = "held" /\ delivery[w].message \in Messages
    /\ job[delivery[w].message.job].status # "none"
    /\ worker[w].pc \in {"leased", "failing"} =>
         worker[w].lease \in Leases /\ worker[w].lease.job = delivery[w].message.job

WorkersInv ==
  /\ worker \in [Workers -> [pc: {"idle", "received", "looked_up", "leased", "failing", "ack", "nack"},
                             lease: Leases \cup {None}]]
  /\ delivery \in [Workers -> [pc: {"none", "held", "forget"}, message: Messages \cup {None}]]
  /\ \A w \in Workers : InHand(w)

\* A delivery that has been looked into is over, or its job is running; the worker it
\* runs on has its lease.
LookedInto(w) ==
  LET status == job[delivery[w].message.job].status IN
  /\ worker[w].pc \in {"leased", "ack", "nack"} => status \in {"processing"} \cup Ended
  /\ worker[w].pc = "failing" => status \in Ended
  /\ worker[w].pc = "leased" /\ status = "processing" => Store!OwnsLease(worker[w].lease)

AttemptsInv ==
  /\ \A w \in Workers : LookedInto(w)
  /\ \A j \in Jobs : job[j].status = "processing" =>
       \E w \in Workers : worker[w].pc = "leased" /\ delivery[w].message.job = j

\* The message of job j is in the channel or with the consumer.
Delivered(j) ==
  \/ \E i \in DOMAIN channel : channel[i] = First(j)
  \/ consumer.pc = "holding" /\ consumer.message = First(j)

\* The same, or with a worker that has not asked for the job yet.
Carried(j) ==
  \/ Delivered(j)
  \/ \E w \in Workers : worker[w].pc \in {"received", "looked_up"} /\ delivery[w].message = First(j)

\* An id that is remembered has its message, at the latest when Publish has returned.
SeenInv ==
  \A j \in seen :
    \/ publisher[Scheduler].pc \in {"enqueue", "undo"} /\ publisher[Scheduler].message = First(j)
    \/ Delivered(j)
    \/ \E w \in Workers : worker[w].pc # "idle" /\ delivery[w].message = First(j)

\* A queued job has its message, and so has one that is about to be recorded as queued.
TransitInv ==
  /\ \A j \in Jobs : job[j].status = "queued" => Carried(j)
  /\ publisher[Scheduler].pc = "published" /\ Store!OwnsPublication(scheduler.claim) =>
       Carried(scheduler.claim.job)

PipelineInv ==
  StoreInv /\ SchedulerInv /\ QueueInv /\ WorkersInv /\ AttemptsInv /\ SeenInv /\ TransitInv

UnlessStalled == faults = 0 => PipelineInv

-----------------------------------------------------------------------------
(* Constants *)

\* The absence of a claim, lease or message is none of them.
LEMMA NoneIsNone == None \notin Claims /\ None \notin Leases /\ None \notin Messages
<1>1. \A a, b, c : [job |-> a, attempt |-> b, token |-> c] # None
  BY DEF None
<1>2. \A a, b : [job |-> a, attempt |-> b] # None
  BY DEF None
<1>3. \A c \in Claims : c = [job |-> c.job, attempt |-> c.attempt, token |-> c.token]
  BY DEF Claims
<1>4. \A c \in Leases : c = [job |-> c.job, attempt |-> c.attempt, token |-> c.token]
  BY DEF Leases
<1>5. \A c \in Messages : c = [job |-> c.job, attempt |-> c.attempt]
  BY DEF Messages
<1>6. None \notin Claims
  BY <1>1, <1>3
<1>7. None \notin Leases
  BY <1>1, <1>4
<1>8. None \notin Messages
  BY ZenonT(30), <1>2, <1>5
<1> QED
  BY ZenonT(30), <1>6, <1>7, <1>8

\* A message of the pipeline is the one of its job.
LEMMA FirstMessage ==
  /\ \A j \in Jobs : First(j) \in Messages /\ First(j).job = j /\ First(j).attempt = 1
  /\ \A m \in Messages : m.job \in Jobs /\ m.attempt = 1 /\ m = First(m.job)
BY DEF First, Messages

\* The states of a job.
LEMMA Statuses ==
  /\ Store!Active = {"scheduled", "queued", "processing", "failed"}
  /\ Store!Terminal = {"completed", "dead"}
  /\ \A row \in Store!JobRow :
       row.status \in {"none", "scheduled", "queued", "processing", "failed"} \cup Ended
BY ZenonT(30) DEF Store!Active, Store!Terminal, Store!JobRow, Ended

-----------------------------------------------------------------------------
(* The store *)

\* What RowsInv says of one row.
RowOK(row) ==
  /\ row.status # "failed"
  /\ row.status = "none" => row.lease = "none"
  /\ row.status \in {"none", "scheduled", "queued"} => row.attempt = 0
  /\ row.status = "processing" => row.lease = "live"

\* A job that has been created may end at any time.
Ends(j) == job[j].status # "none" /\ job'[j].status \in Ended

\* What most steps may do to a row: create it, claim it or release it, or end it.
Kept(j) ==
  \/ job'[j] = job[j]
  \/ /\ job[j].status \in {"none", "scheduled"} /\ job'[j].status = "scheduled"
     /\ job'[j].lease = "live" => Idle
  \/ job[j].status = "queued" /\ job'[j].status = "queued"
  \/ Ends(j)

\* RowsInv for one row at a time.
LEMMA RowsByRow ==
  RowsInv <=> /\ job \in [Jobs -> Store!JobRow]
              /\ \A j \in Jobs : RowOK(job[j]) /\ (j \in processed => job[j].status \in Ended)
BY ZenonT(30) DEF RowsInv, RowOK

\* One row changes and stays finished or unfinished.
LEMMA RowPut ==
  ASSUME StoreInv, NEW k \in Jobs, NEW row \in Store!JobRow, job' = [job EXCEPT ![k] = row],
         UNCHANGED <<monitor, active, processed>>,
         RowOK(row),
         row.status = job[k].status \/ (row.status \in Store!Active /\ job[k].status \in Store!Active)
  PROVE  StoreInv' /\ job'[k] = row /\ \A j \in Jobs \ {k} : job'[j] = job[j]
<1>1. job \in [Jobs -> Store!JobRow]
  BY ZenonT(30) DEF StoreInv, RowsInv
<1>2. job'[k] = row /\ \A j \in Jobs \ {k} : job'[j] = job[j]
  BY ZenonT(30), <1>1
<1>3. job' \in [Jobs -> Store!JobRow]
  BY ZenonT(30), <1>1
<1>4. k \in processed => row.status \in Ended
  BY ZenonT(30), Statuses DEF StoreInv, RowsInv, Ended
<1>5. RowsInv'
  BY ZenonT(30), <1>2, <1>3, <1>4 DEF StoreInv, RowsInv, RowOK
<1>6. \A j \in Jobs : job'[j].status \in Store!Active <=> job[j].status \in Store!Active
  BY ZenonT(30), <1>2
<1>7. Store!Active' = Store!Active /\ \A m \in Monitors : Store!Exists(m)' <=> Store!Exists(m)
  BY ZenonT(30) DEF Store!Active, Store!Exists
<1>8. IndexInv'
  BY ZenonT(30), <1>6, <1>7, PipelineAssumption DEF StoreInv, IndexInv, Store!ActiveIndexExact, Store!MonitorRow
<1> QED
  BY ZenonT(30), <1>2, <1>5, <1>8 DEF StoreInv

\* A monitor loses its unfinished job.
LEMMA IndexCleared ==
  ASSUME StoreInv, NEW m \in Monitors, active' = [active EXCEPT ![m] = NoJob],
         monitor' \in [Monitors -> Store!MonitorRow],
         \A n \in Monitors \ {m} : monitor'[n].status = monitor[n].status,
         \A k \in Jobs : job'[k].status \in Store!Active <=>
                           MonitorOf[k] # m /\ job[k].status \in Store!Active
  PROVE  IndexInv'
<1>1. /\ active \in [Monitors -> Jobs \cup {NoJob}]
      /\ \A j \in Jobs : job[j].status \in Store!Active
                          <=> active[MonitorOf[j]] = j /\ Store!Exists(MonitorOf[j])
      /\ \A n \in Monitors : active[n] # NoJob => MonitorOf[active[n]] = n /\ Store!Exists(n)
  BY ZenonT(30) DEF StoreInv, IndexInv, Store!ActiveIndexExact
<1>2. active' \in [Monitors -> Jobs \cup {NoJob}] /\ active'[m] = NoJob
      /\ \A n \in Monitors \ {m} : active'[n] = active[n]
  BY ZenonT(30), <1>1
<1>3. \A n \in Monitors \ {m} : Store!Exists(n)' <=> Store!Exists(n)
  BY ZenonT(30) DEF Store!Exists
<1>4. \A n \in Monitors : active'[n] # NoJob => MonitorOf[active'[n]] = n /\ Store!Exists(n)'
  BY ZenonT(30), <1>1, <1>2, <1>3
<1>5. \A j \in Jobs : job'[j].status \in Store!Active
                        <=> active'[MonitorOf[j]] = j /\ Store!Exists(MonitorOf[j])'
  <2> TAKE j \in Jobs
  <2>1. MonitorOf[j] \in Monitors /\ j # NoJob
    BY ZenonT(30), PipelineAssumption
  <2> QED
    BY ZenonT(30), <1>1, <1>2, <1>3, <2>1
<1> QED
  BY ZenonT(30), <1>2, <1>4, <1>5 DEF IndexInv, Store!ActiveIndexExact, Store!Active, Store!MonitorRow

\* Nothing but ends of jobs.
LEMMA RowsEnd ==
  ASSUME RowsInv, job' \in [Jobs -> Store!JobRow], \A k \in Jobs : job'[k] = job[k] \/ Ends(k),
         \A k \in processed' : k \in processed \/ (k \in Jobs => job'[k].status \in Ended)
  PROVE  RowsInv' /\ \A k \in Jobs : Kept(k)
<1>1. \A k \in Jobs : Kept(k)
  BY ZenonT(30) DEF Kept
<1>2. \A k \in Jobs : job'[k].status \in Ended =>
        job'[k].status \notin {"failed", "none", "scheduled", "queued", "processing"}
  BY ZenonT(30) DEF Ended
<1>3. ASSUME NEW k \in Jobs
      PROVE  /\ job'[k].status # "failed"
             /\ job'[k].status = "none" => job'[k].lease = "none"
             /\ job'[k].status \in {"none", "scheduled", "queued"} => job'[k].attempt = 0
             /\ job'[k].status = "processing" => job'[k].lease = "live"
             /\ k \in processed' => job'[k].status \in Ended
  <2>1. CASE job'[k] = job[k]
    BY ZenonT(30), <2>1 DEF RowsInv
  <2>2. CASE Ends(k)
    BY ZenonT(30), <2>2, <1>2 DEF Ends
  <2> QED
    BY ZenonT(30), <2>1, <2>2
<1> QED
  BY ZenonT(30), <1>1, <1>3 DEF RowsInv, Ended, Store!JobRow, Store!Active, Store!Terminal

\* rememberTerminalJobLocked removes settled records and nothing else.
LEMMA SettleRows ==
  ASSUME job \in [Jobs -> Store!JobRow], NEW j \in Jobs, job[j].status # "none",
         NEW status \in Store!Terminal, job' = Store!Settle(Store!Jobs0, j, status).row
  PROVE  /\ job' \in [Jobs -> Store!JobRow]
         /\ job'[j].status \in Ended
         /\ \A k \in Jobs : job'[k] = job[k] \/ Ends(k)
         /\ \A k \in Jobs : k # j => (job'[k].status \in Store!Active <=> job[k].status \in Store!Active)
<1> DEFINE settled == Store!Settled(job[j], status)
           row == [job EXCEPT ![j] = settled]
           gone(k) == Store!Gone(row[k])
<1>1. \A k \in Jobs : (job'[k] = gone(k) /\ row[k].status \in Store!Terminal) \/ job'[k] = row[k]
  BY ZenonT(30) DEF Store!Settle, Store!RememberTerminalJob, Store!Jobs0
<1>2. settled \in Store!JobRow /\ settled.status = status
  BY ZenonT(30) DEF Store!Settled, Store!JobRow
<1>3. row \in [Jobs -> Store!JobRow] /\ row[j] = settled /\ \A k \in Jobs : k # j => row[k] = job[k]
  BY ZenonT(30), <1>2
<1>4. \A r \in Store!JobRow : Store!Gone(r) \in Store!JobRow /\ Store!Gone(r).status = "gone"
  BY ZenonT(30) DEF Store!Gone, Store!JobRow, Store!Unused
<1>5. \A k \in Jobs : gone(k) \in Store!JobRow /\ gone(k).status = "gone"
  BY ZenonT(30), <1>3, <1>4
<1>6. DOMAIN job' = Jobs /\ job' = [k \in Jobs |-> job'[k]]
  BY ZenonT(30) DEF Store!Settle, Store!RememberTerminalJob, Store!Jobs0
<1> HIDE DEF settled, row, gone
<1>7. \A k \in Jobs : job'[k] \in Store!JobRow
  BY ZenonT(30), <1>1, <1>3, <1>5
<1>8. job'[j].status \in Ended
  BY ZenonT(30), <1>1, <1>2, <1>3, <1>5 DEF Ended, Store!Terminal
<1>9. ASSUME NEW k \in Jobs, k # j
      PROVE  /\ job'[k] = job[k] \/ Ends(k)
             /\ job'[k].status \in Store!Active <=> job[k].status \in Store!Active
  <2>1. row[k] = job[k]
    BY ZenonT(30), <1>3, <1>9
  <2>2. CASE job'[k] = gone(k) /\ row[k].status \in Store!Terminal
    BY ZenonT(30), <2>1, <2>2, <1>5 DEF Ends, Ended, Store!Terminal, Store!Active
  <2> QED
    BY ZenonT(30), <2>1, <2>2, <1>1
<1>10. Ends(j)
  BY ZenonT(30), <1>8 DEF Ends
<1> QED
  BY ZenonT(30), <1>6, <1>7, <1>8, <1>9, <1>10

\* A job that is settled leaves the index.
LEMMA SettleStep ==
  ASSUME StoreInv, NEW m \in Monitors, NEW j \in Jobs, active[m] = j,
         NEW status \in Store!Terminal, job' = Store!Settle(Store!Jobs0, j, status).row,
         active' = [active EXCEPT ![m] = NoJob], monitor' \in [Monitors -> Store!MonitorRow],
         \A n \in Monitors \ {m} : monitor'[n].status = monitor[n].status,
         \A k \in processed' : k \in processed \/ k = j
  PROVE  StoreInv' /\ job'[j].status \in Ended /\ \A k \in Jobs : Kept(k)
<1>1. job \in [Jobs -> Store!JobRow] /\ RowsInv
  BY ZenonT(30) DEF StoreInv, RowsInv
<1>2. MonitorOf[j] = m /\ j # NoJob /\ Store!Exists(m)
  BY ZenonT(30), PipelineAssumption DEF StoreInv, IndexInv
<1>3. \A k \in Jobs : job[k].status \in Store!Active
                        <=> active[MonitorOf[k]] = k /\ Store!Exists(MonitorOf[k])
  BY ZenonT(30) DEF StoreInv, IndexInv, Store!ActiveIndexExact
<1>4. job[j].status \in Store!Active
  BY ZenonT(30), <1>2, <1>3
<1>5. job[j].status # "none"
  BY ZenonT(30), <1>4 DEF Store!Active
<1>6. /\ job' \in [Jobs -> Store!JobRow]
      /\ job'[j].status \in Ended
      /\ \A k \in Jobs : job'[k] = job[k] \/ Ends(k)
      /\ \A k \in Jobs : k # j => (job'[k].status \in Store!Active <=> job[k].status \in Store!Active)
  BY ZenonT(30), <1>1, <1>5, SettleRows
<1>7. job'[j].status \notin Store!Active
  BY ZenonT(30), <1>6 DEF Ended, Store!Active
<1>8. \A k \in Jobs : job'[k].status \in Store!Active <=>
                        MonitorOf[k] # m /\ job[k].status \in Store!Active
  <2> TAKE k \in Jobs
  <2>1. CASE k = j
    BY ZenonT(30), <2>1, <1>2, <1>7
  <2>2. CASE k # j
    <3>1. MonitorOf[k] = m => job[k].status \notin Store!Active
      BY ZenonT(30), <2>2, <1>3
    <3> QED
      BY ZenonT(30), <2>2, <3>1, <1>6
  <2> QED
    BY ZenonT(30), <2>1, <2>2
<1>9. IndexInv'
  BY ZenonT(30), <1>8, IndexCleared
<1>11. \A k \in processed' : k \in processed \/ (k \in Jobs => job'[k].status \in Ended)
  BY ZenonT(30), <1>6
<1>10. RowsInv' /\ \A k \in Jobs : Kept(k)
  BY ZenonT(30), <1>1, <1>6, <1>11, RowsEnd
<1> QED
  BY ZenonT(30), <1>6, <1>9, <1>10 DEF StoreInv

\* The jobs stay as they are.
LEMMA MonitorsStep ==
  ASSUME StoreInv, UNCHANGED <<job, active, processed>>, monitor' \in [Monitors -> Store!MonitorRow],
         \A n \in Monitors : Store!Exists(n) => monitor'[n].status \in {"active", "disabled"},
         \A n \in Monitors : monitor'[n].status = monitor[n].status \/ active[n] = NoJob
                             \/ Store!Exists(n)
  PROVE  StoreInv' /\ \A k \in Jobs : Kept(k)
<1>1. /\ active \in [Monitors -> Jobs \cup {NoJob}]
      /\ \A j \in Jobs : job[j].status \in Store!Active
                          <=> active[MonitorOf[j]] = j /\ Store!Exists(MonitorOf[j])
      /\ \A n \in Monitors : active[n] # NoJob => MonitorOf[active[n]] = n /\ Store!Exists(n)
  BY ZenonT(30) DEF StoreInv, IndexInv, Store!ActiveIndexExact
<1>2. \A n \in Monitors : active[n] # NoJob => (Store!Exists(n)' <=> Store!Exists(n))
  BY ZenonT(30), <1>1 DEF Store!Exists
<1>3. \A j \in Jobs : MonitorOf[j] \in Monitors /\ j # NoJob
  BY ZenonT(30), PipelineAssumption
<1>4. \A j \in Jobs : job[j].status \in Store!Active
                        <=> active[MonitorOf[j]] = j /\ Store!Exists(MonitorOf[j])'
  BY ZenonT(30), <1>1, <1>2, <1>3
<1>5. IndexInv'
  BY ZenonT(30), <1>1, <1>2, <1>4 DEF IndexInv, Store!ActiveIndexExact, Store!Active, Store!MonitorRow
<1>6. RowsInv'
  BY ZenonT(30) DEF StoreInv, RowsInv, Ended, Store!JobRow, Store!Active, Store!Terminal
<1> QED
  BY ZenonT(30), <1>5, <1>6 DEF StoreInv, Kept

\* A new monitor has no jobs yet.
LEMMA CreateStep ==
  ASSUME StoreInv, NEW m \in Monitors, NEW url \in URLs, Store!Create(m, url, TRUE)
  PROVE  StoreInv' /\ \A k \in Jobs : Kept(k)
<1> DEFINE row == [status |-> "active", url |-> url, due |-> TRUE, checked |-> FALSE]
<1>1. monitor \in [Monitors -> Store!MonitorRow]
      /\ \A n \in Monitors : active[n] # NoJob => Store!Exists(n)
  BY ZenonT(30) DEF StoreInv, IndexInv
<1>2. monitor' = [monitor EXCEPT ![m] = row] /\ monitor[m].status = "none"
      /\ UNCHANGED <<job, active, processed>>
  BY ZenonT(30) DEF Store!Create, Store!jobVars, Store!resultVars
<1>3. row \in Store!MonitorRow /\ row.status = "active"
  BY ZenonT(30) DEF Store!MonitorRow
<1> HIDE DEF row
<1>4. monitor' \in [Monitors -> Store!MonitorRow] /\ monitor'[m] = row
      /\ \A n \in Monitors \ {m} : monitor'[n] = monitor[n]
  BY ZenonT(30), <1>1, <1>2, <1>3
<1>5. ~Store!Exists(m)
  BY ZenonT(30), <1>2 DEF Store!Exists
<1>6. \A n \in Monitors : Store!Exists(n) => monitor'[n].status \in {"active", "disabled"}
  BY ZenonT(30), <1>4, <1>5 DEF Store!Exists
<1>7. \A n \in Monitors : monitor'[n].status = monitor[n].status \/ active[n] = NoJob
                          \/ Store!Exists(n)
  BY ZenonT(30), <1>1, <1>4
<1> QED
  BY ZenonT(30), <1>2, <1>4, <1>6, <1>7, MonitorsStep

\* The clock reaches the next check of a monitor.
LEMMA BecomeDueStep ==
  ASSUME StoreInv, NEW m \in Monitors, Store!BecomeDue(m)
  PROVE  StoreInv' /\ \A k \in Jobs : Kept(k)
<1>1. monitor \in [Monitors -> Store!MonitorRow]
  BY ZenonT(30) DEF StoreInv, IndexInv
<1>2. monitor' = [monitor EXCEPT ![m].due = TRUE] /\ UNCHANGED <<job, active, processed>>
  BY ZenonT(30) DEF Store!BecomeDue, Store!jobVars, Store!resultVars
<1>3. monitor' \in [Monitors -> Store!MonitorRow]
      /\ \A n \in Monitors : monitor'[n].status = monitor[n].status
  BY ZenonT(30), <1>1, <1>2 DEF Store!MonitorRow
<1>4. \A n \in Monitors : Store!Exists(n) => monitor'[n].status \in {"active", "disabled"}
  BY ZenonT(30), <1>3 DEF Store!Exists
<1> QED
  BY ZenonT(30), <1>2, <1>3, <1>4, MonitorsStep

\* Update ends the unfinished job of a monitor that is disabled or changed.
LEMMA UpdateStep ==
  ASSUME StoreInv, NEW m \in Monitors, NEW enabled \in BOOLEAN, NEW other \in BOOLEAN,
         Store!Update(m, monitor[m].url, enabled, other, FALSE)
  PROVE  StoreInv' /\ \A k \in Jobs : Kept(k)
<1>1. monitor \in [Monitors -> Store!MonitorRow] /\ active \in [Monitors -> Jobs \cup {NoJob}]
      /\ \A n \in Monitors : active[n] # NoJob => Store!Exists(n)
  BY ZenonT(30) DEF StoreInv, IndexInv
<1>2. \A semantics \in BOOLEAN :
        Store!DueAfterUpdate(m, enabled, semantics, FALSE) \subseteq BOOLEAN
  BY ZenonT(30), <1>1 DEF Store!DueAfterUpdate, Store!MonitorRow
<1>3. PICK due \in BOOLEAN, semantics \in BOOLEAN :
        monitor' = [monitor EXCEPT ![m] =
          [status |-> IF enabled THEN "active" ELSE "disabled", url |-> monitor[m].url,
           due |-> due, checked |-> @.checked /\ ~semantics]]
  <2> DEFINE semantics == other \/ monitor[m].url # monitor[m].url
  <2>1. semantics \in BOOLEAN
    BY ZenonT(30)
  <2>2. PICK due \in Store!DueAfterUpdate(m, enabled, semantics, FALSE) :
        monitor' = [monitor EXCEPT ![m] =
          [status |-> IF enabled THEN "active" ELSE "disabled", url |-> monitor[m].url,
           due |-> due, checked |-> @.checked /\ ~semantics]]
    BY ZenonT(30) DEF Store!Update
  <2>3. due \in BOOLEAN
    BY ZenonT(30), <1>2, <2>1, <2>2
  <2> QED
    BY ZenonT(30), <2>1, <2>2, <2>3
<1> DEFINE row == [status |-> IF enabled THEN "active" ELSE "disabled", url |-> monitor[m].url,
                   due |-> due, checked |-> monitor[m].checked /\ ~semantics]
<1>4. row \in Store!MonitorRow /\ row.status \in {"active", "disabled"}
  BY ZenonT(30), <1>1 DEF Store!MonitorRow
<1>5. monitor' = [monitor EXCEPT ![m] = row]
  BY ZenonT(30), <1>1, <1>3
<1> HIDE DEF row
<1>6. monitor' \in [Monitors -> Store!MonitorRow] /\ monitor'[m] = row
      /\ \A n \in Monitors \ {m} : monitor'[n] = monitor[n]
  BY ZenonT(30), <1>1, <1>4, <1>5
<1>7. Store!Exists(m) /\ UNCHANGED processed
  BY ZenonT(30) DEF Store!Update, Store!resultVars
<1>8. CASE UNCHANGED <<job, active>>
  <2>1. \A n \in Monitors : Store!Exists(n) => monitor'[n].status \in {"active", "disabled"}
    BY ZenonT(30), <1>4, <1>6 DEF Store!Exists
  <2>2. \A n \in Monitors : monitor'[n].status = monitor[n].status \/ active[n] = NoJob
                            \/ Store!Exists(n)
    BY ZenonT(30), <1>6, <1>7
  <2> QED
    BY ZenonT(30), <1>6, <1>7, <1>8, <2>1, <2>2, MonitorsStep
<1>9. CASE active[m] # NoJob /\ job' = Store!Settle(Store!Jobs0, active[m], "dead").row
           /\ active' = [active EXCEPT ![m] = NoJob]
  <2>1. active[m] \in Jobs /\ "dead" \in Store!Terminal
    BY ZenonT(30), <1>1, <1>9 DEF Store!Terminal
  <2> QED
    BY ZenonT(30), <1>6, <1>7, <1>9, <2>1, SettleStep
<1>10. Store!FinishActiveJob(m) \/ UNCHANGED <<job, active>>
  BY ZenonT(30) DEF Store!Update, Store!jobVars
<1> QED
  BY ZenonT(30), <1>8, <1>9, <1>10 DEF Store!FinishActiveJob, Store!Commit, Store!jobVars

\* Delete removes the jobs of the monitor.
LEMMA DeleteStep ==
  ASSUME StoreInv, NEW m \in Monitors, Store!Delete(m)
  PROVE  StoreInv' /\ \A k \in Jobs : Kept(k)
<1>1. monitor \in [Monitors -> Store!MonitorRow] /\ job \in [Jobs -> Store!JobRow] /\ RowsInv
  BY ZenonT(30) DEF StoreInv, IndexInv, RowsInv
<1>2. /\ monitor' = [monitor EXCEPT ![m].status = "gone"]
      /\ job' = [j \in Jobs |-> IF MonitorOf[j] = m THEN Store!Removed(job[j]) ELSE job[j]]
      /\ active' = [active EXCEPT ![m] = NoJob]
      /\ processed' = processed
  BY ZenonT(30) DEF Store!Delete
<1>3. monitor' \in [Monitors -> Store!MonitorRow]
      /\ \A n \in Monitors \ {m} : monitor'[n].status = monitor[n].status
  BY ZenonT(30), <1>1, <1>2 DEF Store!MonitorRow
<1>4. \A r \in Store!JobRow : Store!Gone(r) \in Store!JobRow /\ Store!Gone(r).status = "gone"
  BY ZenonT(30) DEF Store!Gone, Store!JobRow, Store!Unused
<1>5. \A k \in Jobs : /\ job'[k] \in Store!JobRow
                      /\ \/ job'[k] = job[k] /\ (MonitorOf[k] = m => job[k].status = "none")
                         \/ MonitorOf[k] = m /\ job[k].status # "none" /\ job'[k].status = "gone"
  BY ZenonT(30), <1>1, <1>2, <1>4 DEF Store!Removed
<1>6. job' \in [Jobs -> Store!JobRow]
  BY ZenonT(30), <1>2, <1>5
<1>7. \A k \in Jobs : job'[k] = job[k] \/ Ends(k)
  BY ZenonT(30), <1>5 DEF Ends, Ended
<1>8. \A k \in Jobs : job'[k].status \in Store!Active <=>
                        MonitorOf[k] # m /\ job[k].status \in Store!Active
  BY ZenonT(30), <1>5 DEF Store!Active
<1>9. IndexInv'
  BY ZenonT(30), <1>2, <1>3, <1>8, IndexCleared
<1>10. RowsInv' /\ \A k \in Jobs : Kept(k)
  BY ZenonT(30), <1>1, <1>2, <1>6, <1>7, RowsEnd
<1> QED
  BY ZenonT(30), <1>9, <1>10 DEF StoreInv

\* The new jobs enter the index.
EntersIndex(new) ==
  \A n \in Monitors : \/ active'[n] = active[n] /\ \A k \in new : MonitorOf[k] # n
                      \/ /\ active[n] = NoJob /\ active'[n] \in new /\ Store!Exists(n)
                         /\ \A k \in new : MonitorOf[k] = n <=> k = active'[n]

\* The new jobs are scheduled, and waiting ones may be claimed.
Schedules(new) ==
  \A k \in Jobs : \/ job'[k] = job[k] /\ k \notin new
                  \/ /\ job[k].status = "scheduled" \/ k \in new
                     /\ job'[k].status = "scheduled" /\ job'[k].attempt = job[k].attempt
                     /\ job'[k].lease = "live" => Idle

\* A new job takes the place of its monitor in the index.
LEMMA ScheduledStep ==
  ASSUME StoreInv, NEW new \in SUBSET Jobs, \A k \in new : job[k].status = "none",
         job' \in [Jobs -> Store!JobRow], processed' = processed,
         monitor' \in [Monitors -> Store!MonitorRow],
         \A n \in Monitors : monitor'[n].status = monitor[n].status,
         active' \in [Monitors -> Jobs \cup {NoJob}],
         EntersIndex(new), Schedules(new)
  PROVE  StoreInv' /\ \A k \in Jobs : Kept(k)
<1>1. /\ active \in [Monitors -> Jobs \cup {NoJob}]
      /\ \A j \in Jobs : job[j].status \in Store!Active
                          <=> active[MonitorOf[j]] = j /\ Store!Exists(MonitorOf[j])
      /\ \A n \in Monitors : active[n] # NoJob => MonitorOf[active[n]] = n /\ Store!Exists(n)
  BY ZenonT(30) DEF StoreInv, IndexInv, Store!ActiveIndexExact
<1>2. \A j \in Jobs : MonitorOf[j] \in Monitors /\ j # NoJob
  BY ZenonT(30), PipelineAssumption
<1>3. \A n \in Monitors : Store!Exists(n)' <=> Store!Exists(n)
  BY ZenonT(30) DEF Store!Exists
<1>4. \A n \in Monitors : active'[n] # NoJob => MonitorOf[active'[n]] = n /\ Store!Exists(n)'
  <2> SUFFICES ASSUME NEW n \in Monitors, active'[n] # NoJob
               PROVE  MonitorOf[active'[n]] = n /\ Store!Exists(n)'
    BY ZenonT(30)
  <2>1. CASE active'[n] = active[n]
    BY ZenonT(30), <2>1, <1>1, <1>3
  <2>2. CASE active'[n] \in new /\ Store!Exists(n) /\ \A k \in new : MonitorOf[k] = n <=> k = active'[n]
    BY ZenonT(30), <2>2, <1>3
  <2> QED
    BY ZenonT(30), <2>1, <2>2 DEF EntersIndex
<1>5. "scheduled" \in Store!Active /\ "none" \notin Store!Active
  BY ZenonT(30) DEF Store!Active
<1>6. ASSUME NEW j \in Jobs
      PROVE  job'[j].status \in Store!Active
               <=> active'[MonitorOf[j]] = j /\ Store!Exists(MonitorOf[j])'
  <2>1. CASE j \in new
    <3>1. job'[j].status = "scheduled"
      BY ZenonT(30), <2>1 DEF Schedules
    <3>2. active'[MonitorOf[j]] = j /\ Store!Exists(MonitorOf[j])
      BY ZenonT(30), <2>1, <1>2 DEF EntersIndex
    <3> QED
      BY ZenonT(30), <3>1, <3>2, <1>2, <1>3, <1>5
  <2>2. CASE j \notin new
    <3>1. job'[j].status \in Store!Active <=> job[j].status \in Store!Active
      BY ZenonT(30), <2>2, <1>5 DEF Schedules
    <3>2. active'[MonitorOf[j]] = j <=> active[MonitorOf[j]] = j
      <4>1. CASE active'[MonitorOf[j]] = active[MonitorOf[j]]
        BY ZenonT(30), <4>1
      <4>2. CASE active[MonitorOf[j]] = NoJob /\ active'[MonitorOf[j]] \in new
        BY ZenonT(30), <4>2, <2>2, <1>2
      <4> QED
        BY ZenonT(30), <4>1, <4>2, <1>2 DEF EntersIndex
    <3> QED
      BY ZenonT(30), <3>1, <3>2, <1>1, <1>2, <1>3
  <2> QED
    BY ZenonT(30), <2>1, <2>2
<1>7. IndexInv'
  BY ZenonT(30), <1>4, <1>6 DEF IndexInv, Store!ActiveIndexExact, Store!Active, Store!MonitorRow
<1>8. \A k \in Jobs : Kept(k)
  BY ZenonT(30) DEF Kept, Schedules
<1>9. ASSUME NEW k \in Jobs
      PROVE  /\ job'[k].status # "failed"
             /\ job'[k].status = "none" => job'[k].lease = "none"
             /\ job'[k].status \in {"none", "scheduled", "queued"} => job'[k].attempt = 0
             /\ job'[k].status = "processing" => job'[k].lease = "live"
             /\ k \in processed' => job'[k].status \in Ended
  <2>1. CASE job'[k] = job[k]
    BY ZenonT(30), <2>1 DEF StoreInv, RowsInv
  <2>2. CASE /\ job[k].status \in {"scheduled", "none"}
             /\ job'[k].status = "scheduled" /\ job'[k].attempt = job[k].attempt
    BY ZenonT(30), <2>2 DEF StoreInv, RowsInv, Ended
  <2> QED
    BY ZenonT(30), <2>1, <2>2 DEF Schedules
<1>10. RowsInv'
  BY ZenonT(30), <1>9 DEF RowsInv, Ended, Store!JobRow, Store!Active, Store!Terminal
<1> QED
  BY ZenonT(30), <1>7, <1>8, <1>10 DEF StoreInv

\* A manual job is created only where none is unfinished.
LEMMA CreateManualJobStep ==
  ASSUME StoreInv, NEW m \in Monitors, NEW j \in Jobs, Store!CreateManualJob(m, j)
  PROVE  StoreInv' /\ \A k \in Jobs : Kept(k)
<1>1. /\ monitor \in [Monitors -> Store!MonitorRow] /\ active \in [Monitors -> Jobs \cup {NoJob}]
      /\ job \in [Jobs -> Store!JobRow] /\ (job[j].status = "none" => job[j].lease = "none")
  BY ZenonT(30) DEF StoreInv, IndexInv, RowsInv
<1>2. /\ Store!Exists(m) /\ active[m] = NoJob /\ job[j].status = "none" /\ MonitorOf[j] = m
      /\ active' = [active EXCEPT ![m] = j]
      /\ UNCHANGED <<monitor, processed>>
  BY ZenonT(30) DEF Store!CreateManualJob, Store!NewID, Store!resultVars
<1>3. job' = [job EXCEPT ![j] =
        [job[j] EXCEPT !.status = "scheduled", !.kind = "manual", !.available = TRUE]]
  BY ZenonT(30), <1>1 DEF Store!CreateManualJob
<1>4. /\ job' \in [Jobs -> Store!JobRow]
      /\ \A k \in Jobs : k # j => job'[k] = job[k]
      /\ job'[j].status = "scheduled" /\ job'[j].attempt = job[j].attempt
      /\ job'[j].lease = job[j].lease
  BY ZenonT(30), <1>1, <1>3 DEF Store!JobRow, Store!Active
<1>5. job'[j].lease # "live"
  BY ZenonT(30), <1>1, <1>2, <1>4
<1>6. active' \in [Monitors -> Jobs \cup {NoJob}] /\ active'[m] = j
      /\ \A n \in Monitors : n # m => active'[n] = active[n]
  BY ZenonT(30), <1>1, <1>2
<1> DEFINE new == {j}
<1>7. new \in SUBSET Jobs /\ \A k : k \in new <=> k = j
  BY ZenonT(30)
<1> HIDE DEF new
<1>8. EntersIndex(new)
  BY ZenonT(30), <1>2, <1>6, <1>7 DEF EntersIndex
<1>9. Schedules(new)
  BY ZenonT(30), <1>4, <1>5, <1>7 DEF Schedules
<1>10. (\A k \in new : job[k].status = "none") /\ monitor' \in [Monitors -> Store!MonitorRow]
       /\ \A n \in Monitors : monitor'[n].status = monitor[n].status
  BY ZenonT(30), <1>1, <1>2, <1>7
<1> QED
  BY ZenonT(30), <1>2, <1>4, <1>6, <1>7, <1>8, <1>9, <1>10, ScheduledStep

\* Before the first fault there is no job to give up or to recover.
LEMMA NothingExhausted ==
  ASSUME RowsInv
  PROVE  Store!ExhaustedJobs = {} /\ \A j \in Jobs : Store!Recovered(job[j]) = job[j]
<1>1. \A j \in Jobs : /\ job[j].status # "failed"
                      /\ job[j].status = "processing" => job[j].lease = "live"
  BY ZenonT(30) DEF RowsInv
<1>2. \A j \in Jobs : ~Store!Exhausted(job[j])
  BY ZenonT(30), <1>1 DEF Store!Exhausted
<1>3. Store!ExhaustedJobs = {}
  BY ZenonT(30), <1>2 DEF Store!ExhaustedJobs
<1>4. \A j \in Jobs : Store!Recovered(job[j]) = job[j]
  BY ZenonT(30), <1>1 DEF Store!Recovered
<1> QED
  BY ZenonT(30), <1>3, <1>4

\* So the recovery at the start of a claim buries nothing.
LEMMA NothingBuried ==
  ASSUME NEW n, NEW order \in Store!Bijection(1..n, {})
  PROVE  Store!Buried(order) = Store!Jobs0
<1>1. order \in [1..n -> {}]
  BY ZenonT(30) DEF Store!Bijection, Store!Injection
<1>2. 1..n = {}
  BY ZenonT(30), <1>1
<1>3. 1..n = 1..0
  BY <1>2
<1>4. order \in [1..0 -> {}]
  BY ZenonT(30), <1>1, <1>3
<1>5. Len(order) = 0
  BY <1>4
<1> DEFINE Step(f) == [i \in 0..0 |-> IF i = 0 THEN Store!Jobs0
                                      ELSE Store!Settle(f[i - 1], order[i], "dead")]
           start == [i \in 0..0 |-> Store!Jobs0]
           after == CHOOSE f : f = Step(f)
<1>6. \A i \in 0..0 : i = 0
  OBVIOUS
<1>7. start = Step(start)
  BY ZenonT(30), <1>6
<1>8. after = Step(after)
  BY ZenonT(30), <1>7
<1>9. after[0] = Store!Jobs0
  BY <1>8
<1>10. Store!Buried(order) = after[0]
  BY ZenonT(30), <1>5 DEF Store!Buried
<1> QED
  BY ZenonT(30), <1>9, <1>10

\* The ids of a monitor are used in their order, so it gets one new job at a time.
LEMMA NewIDs ==
  ASSUME NEW j \in Jobs, NEW k \in Jobs, Store!NewID(j), Store!NewID(k), MonitorOf[j] = MonitorOf[k]
  PROVE  j = k
<1>1. j \in Nat /\ k \in Nat
  BY ZenonT(30), PipelineAssumption
<1> QED
  BY <1>1 DEF Store!NewID

\* What ClaimDueJobs does before the first fault: it takes waiting jobs and creates
\* jobs for monitors that are due and have none.
ClaimsJobs(batch, fresh, token) ==
  /\ \A j \in batch : job[j].status = "scheduled"
  /\ \A j \in fresh : monitor[MonitorOf[j]].status = "active" /\ active[MonitorOf[j]] = NoJob
  /\ job' = [j \in Jobs |-> IF j \in batch \cup fresh THEN Store!Claimed(job[j], token) ELSE job[j]]
  /\ active' = [m \in Monitors |-> IF m \in {MonitorOf[j] : j \in fresh}
                                   THEN CHOOSE j \in fresh : MonitorOf[j] = m
                                   ELSE active[m]]
  /\ \E due \in [Monitors -> BOOLEAN] :
       monitor' = [m \in Monitors |-> [monitor[m] EXCEPT !.due = due[m]]]
  /\ processed' = processed

\* The parts of ClaimDueJobs, for the order in which exhausted jobs are given up.
ClaimsInOrder(batch, fresh, token, order) ==
  LET row == [j \in Jobs |-> Store!Recovered(Store!Buried(order).row[j])]
      freshFor == {MonitorOf[j] : j \in fresh}
  IN  /\ \A j \in batch : j \in Jobs /\ Store!Claimable(row[j])
      /\ \A j \in fresh : /\ monitor[MonitorOf[j]].status = "active"
                          /\ Store!ActiveAfterRecovery[MonitorOf[j]] = NoJob
      /\ job' = [j \in Jobs |-> IF j \in batch \cup fresh THEN Store!Claimed(row[j], token) ELSE row[j]]
      /\ active' = [m \in Monitors |-> IF m \in freshFor
                                       THEN CHOOSE j \in fresh : MonitorOf[j] = m
                                       ELSE Store!ActiveAfterRecovery[m]]

\* ClaimDueJobs without burials, part by part.
LEMMA ClaimParts ==
  ASSUME NEW batch, NEW fresh, NEW token, Store!ClaimDueJobs(batch, fresh, token)
  PROVE  \E order \in Store!Bijection(1..Store!Cardinality(Store!ExhaustedJobs), Store!ExhaustedJobs) :
           ClaimsInOrder(batch, fresh, token, order)
<1> DEFINE new == {j \in Jobs : Store!NewID(j)}
           due == {m \in Monitors : /\ monitor[m].status = "active"
                                    /\ Store!DueAfterRecovery(m)
                                    /\ Store!ActiveAfterRecovery[m] = NoJob
                                    /\ \E j \in new : MonitorOf[j] = m}
           freshFor == {MonitorOf[j] : j \in fresh}
           row(order) == [j \in Jobs |-> Store!Recovered(Store!Buried(order).row[j])]
<1>1. PICK order \in Store!Bijection(1..Store!Cardinality(Store!ExhaustedJobs), Store!ExhaustedJobs) :
        /\ batch \subseteq {j \in Jobs : Store!Claimable(row(order)[j])}
        /\ freshFor \subseteq due
        /\ job' = [j \in Jobs |-> IF j \in batch \cup fresh THEN Store!Claimed(row(order)[j], token)
                                  ELSE row(order)[j]]
        /\ active' = [m \in Monitors |-> IF m \in freshFor
                                         THEN CHOOSE j \in fresh : MonitorOf[j] = m
                                         ELSE Store!ActiveAfterRecovery[m]]
  BY ZenonT(30) DEF Store!ClaimDueJobs, Store!FillsUp
<1>2. \A j \in fresh : MonitorOf[j] \in due
  BY ZenonT(30), <1>1
<1>3. \A j \in batch : j \in Jobs /\ Store!Claimable(row(order)[j])
  BY ZenonT(30), <1>1
<1>4. ClaimsInOrder(batch, fresh, token, order)
  BY ZenonT(30), <1>1, <1>2, <1>3 DEF ClaimsInOrder
<1> QED
  BY ZenonT(30), <1>4

\* What ClaimDueJobs does to the row of one job.
LEMMA ClaimEffect ==
  ASSUME StoreInv, NEW batch \in SUBSET Jobs, NEW fresh \in SUBSET {j \in Jobs : Store!NewID(j)},
         NEW token, Store!ClaimDueJobs(batch, fresh, token)
  PROVE  ClaimsJobs(batch, fresh, token)
<1>1. RowsInv /\ job \in [Jobs -> Store!JobRow]
      /\ monitor \in [Monitors -> Store!MonitorRow] /\ active \in [Monitors -> Jobs \cup {NoJob}]
  BY ZenonT(30) DEF StoreInv, IndexInv, RowsInv
<1>2. Store!ExhaustedJobs = {} /\ \A j \in Jobs : Store!Recovered(job[j]) = job[j]
  BY ZenonT(30), <1>1, NothingExhausted
<1>3. Store!ActiveAfterRecovery = active
  BY ZenonT(30), <1>1, <1>2 DEF Store!ActiveAfterRecovery
<1>4. PICK order \in Store!Bijection(1..Store!Cardinality(Store!ExhaustedJobs), Store!ExhaustedJobs) :
        ClaimsInOrder(batch, fresh, token, order)
  BY ZenonT(30), ClaimParts
<1>5. Store!Buried(order) = Store!Jobs0
  BY ZenonT(30), <1>2, <1>4, NothingBuried
<1> DEFINE row == [j \in Jobs |-> Store!Recovered(Store!Buried(order).row[j])]
<1>6. row = job
  <2>1. Store!Buried(order).row = job
    BY <1>5 DEF Store!Jobs0
  <2>2. \A j \in Jobs : row[j] = job[j]
    BY ZenonT(30), <2>1, <1>2
  <2> QED
    BY ZenonT(30), <1>1, <2>2
<1>7. /\ \A j \in batch : Store!Claimable(row[j])
      /\ \A j \in fresh : /\ monitor[MonitorOf[j]].status = "active"
                          /\ Store!ActiveAfterRecovery[MonitorOf[j]] = NoJob
      /\ job' = [j \in Jobs |-> IF j \in batch \cup fresh THEN Store!Claimed(row[j], token) ELSE row[j]]
      /\ active' = [m \in Monitors |-> IF m \in {MonitorOf[j] : j \in fresh}
                                       THEN CHOOSE j \in fresh : MonitorOf[j] = m
                                       ELSE Store!ActiveAfterRecovery[m]]
  BY ZenonT(30), <1>4 DEF ClaimsInOrder
<1>9. active' = [m \in Monitors |-> IF m \in {MonitorOf[j] : j \in fresh}
                                     THEN CHOOSE j \in fresh : MonitorOf[j] = m
                                     ELSE active[m]]
  BY <1>3, <1>7
<1>14. monitor' = [m \in Monitors |-> [monitor[m] EXCEPT !.due = Store!DueAfterRecovery(m)]]
  BY ZenonT(30) DEF Store!ClaimDueJobs
<1>13. processed' = processed
  BY ZenonT(30), Zenon DEF Store!ClaimDueJobs, Store!resultVars
<1> HIDE DEF row
<1>10. \A j \in batch : job[j].status = "scheduled"
  <2> TAKE j \in batch
  <2>1. Store!Claimable(job[j]) /\ job[j].status # "failed"
    BY ZenonT(30), <1>1, <1>6, <1>7 DEF RowsInv
  <2> QED
    BY ZenonT(30), <2>1 DEF Store!Claimable
<1>11. \A j \in fresh : monitor[MonitorOf[j]].status = "active" /\ active[MonitorOf[j]] = NoJob
  BY ZenonT(30), <1>3, <1>7
<1>12. \E d \in [Monitors -> BOOLEAN] :
         monitor' = [m \in Monitors |-> [monitor[m] EXCEPT !.due = d[m]]]
  <2> DEFINE d == [m \in Monitors |-> Store!DueAfterRecovery(m)]
  <2>1. \A m \in Monitors : Store!DueAfterRecovery(m) \in BOOLEAN
    BY ZenonT(30) DEF Store!DueAfterRecovery
  <2>2. d \in [Monitors -> BOOLEAN] /\ \A m \in Monitors : d[m] = Store!DueAfterRecovery(m)
    BY ZenonT(30), <2>1
  <2> HIDE DEF d
  <2>3. monitor' = [m \in Monitors |-> [monitor[m] EXCEPT !.due = d[m]]]
    BY ZenonT(30), <1>14, <2>2
  <2> QED
    BY ZenonT(30), <2>2, <2>3
<1> QED
  BY ZenonT(30), <1>6, <1>7, <1>9, <1>10, <1>11, <1>12, <1>13 DEF ClaimsJobs

\* ClaimDueJobs claims waiting jobs and creates new ones.
LEMMA ClaimStoreStep ==
  ASSUME StoreInv, Idle, NEW batch \in SUBSET Jobs,
         NEW fresh \in SUBSET {j \in Jobs : Store!NewID(j)},
         NEW token \in Tokens, Store!ClaimDueJobs(batch, fresh, token)
  PROVE  /\ StoreInv'
         /\ \A k \in Jobs : Kept(k)
         /\ \A k \in batch \cup fresh : job[k].attempt = 0 /\ job'[k].status = "scheduled"
<1>1. /\ RowsInv /\ job \in [Jobs -> Store!JobRow]
      /\ monitor \in [Monitors -> Store!MonitorRow] /\ active \in [Monitors -> Jobs \cup {NoJob}]
  BY ZenonT(30) DEF StoreInv, IndexInv, RowsInv
<1>14. ClaimsJobs(batch, fresh, token)
  BY ZenonT(30), ClaimEffect
<1>2. /\ \A j \in batch : job[j].status = "scheduled"
      /\ \A j \in fresh : monitor[MonitorOf[j]].status = "active" /\ active[MonitorOf[j]] = NoJob
      /\ job' = [j \in Jobs |-> IF j \in batch \cup fresh THEN Store!Claimed(job[j], token) ELSE job[j]]
      /\ active' = [m \in Monitors |-> IF m \in {MonitorOf[j] : j \in fresh}
                                       THEN CHOOSE j \in fresh : MonitorOf[j] = m
                                       ELSE active[m]]
      /\ processed' = processed
  BY ZenonT(30), <1>14 DEF ClaimsJobs
<1>3. PICK due \in [Monitors -> BOOLEAN] :
        monitor' = [m \in Monitors |-> [monitor[m] EXCEPT !.due = due[m]]]
  BY ZenonT(30), <1>14 DEF ClaimsJobs
<1>4. monitor' \in [Monitors -> Store!MonitorRow]
      /\ \A m \in Monitors : monitor'[m].status = monitor[m].status
  BY ZenonT(30), <1>1, <1>3 DEF Store!MonitorRow
<1>5. \A r \in Store!JobRow : /\ Store!Claimed(r, token) \in Store!JobRow
                              /\ Store!Claimed(r, token).status = "scheduled"
                              /\ Store!Claimed(r, token).attempt = r.attempt
  BY ZenonT(30) DEF Store!Claimed, Store!JobRow, Store!Active
<1>6. \A k \in Jobs : /\ job'[k] \in Store!JobRow
                      /\ k \notin batch \cup fresh => job'[k] = job[k]
                      /\ k \in batch \cup fresh => /\ job'[k].status = "scheduled"
                                                   /\ job'[k].attempt = job[k].attempt
  BY ZenonT(30), <1>1, <1>2, <1>5
<1>7. job' \in [Jobs -> Store!JobRow]
  BY ZenonT(30), <1>2, <1>6
<1>8. \A k \in fresh : k \in Jobs /\ Store!NewID(k) /\ job[k].status = "none"
  BY ZenonT(30) DEF Store!NewID
<1>9. ASSUME NEW n \in Monitors
      PROVE  /\ active'[n] \in Jobs \cup {NoJob}
             /\ \/ active'[n] = active[n] /\ \A k \in fresh : MonitorOf[k] # n
                \/ /\ active[n] = NoJob /\ active'[n] \in fresh /\ Store!Exists(n)
                   /\ \A k \in fresh : MonitorOf[k] = n <=> k = active'[n]
  <2>1. CASE \A k \in fresh : MonitorOf[k] # n
    <3>1. active'[n] = active[n]
      BY ZenonT(30), <2>1, <1>2
    <3> QED
      BY ZenonT(30), <2>1, <3>1, <1>1
  <2>2. CASE \E k \in fresh : MonitorOf[k] = n
    <3>1. active'[n] = CHOOSE k \in fresh : MonitorOf[k] = n
      BY ZenonT(30), <2>2, <1>2
    <3>2. active'[n] \in fresh /\ MonitorOf[active'[n]] = n
      BY ZenonT(30), <2>2, <3>1
    <3>3. \A k \in fresh : MonitorOf[k] = n <=> k = active'[n]
      BY ZenonT(30), <3>2, <1>8, NewIDs
    <3>4. active[n] = NoJob /\ Store!Exists(n)
      BY ZenonT(30), <3>2, <1>2 DEF Store!Exists
    <3> QED
      BY ZenonT(30), <3>2, <3>3, <3>4, <1>8
  <2> QED
    BY ZenonT(30), <2>1, <2>2
<1>10. active' \in [Monitors -> Jobs \cup {NoJob}] /\ EntersIndex(fresh)
  <2>1. active' = [n \in Monitors |-> active'[n]]
    BY <1>2
  <2>2. \A n \in Monitors : active'[n] \in Jobs \cup {NoJob}
    BY ZenonT(30), <1>9
  <2>3. EntersIndex(fresh)
    BY ZenonT(30), <1>9 DEF EntersIndex
  <2> QED
    BY ZenonT(30), <2>1, <2>2, <2>3
<1>11. Schedules(fresh)
  BY ZenonT(30), <1>2, <1>6 DEF Schedules
<1>12. StoreInv' /\ \A k \in Jobs : Kept(k)
  BY ZenonT(30), <1>2, <1>4, <1>7, <1>8, <1>10, <1>11, ScheduledStep
<1>13. \A k \in batch \cup fresh : job[k].attempt = 0
  BY ZenonT(30), <1>1, <1>2, <1>8 DEF RowsInv
<1> QED
  BY ZenonT(30), <1>6, <1>8, <1>12, <1>13

\* AddCheck stores the result of a running job and settles it.
LEMMA AddCheckStep ==
  ASSUME StoreInv, NEW l \in Leases, NEW success \in BOOLEAN, Store!AddCheck(l, success)
  PROVE  /\ StoreInv'
         /\ \A k \in Jobs : Kept(k)
         /\ Store!Stores(l) => job'[l.job].status \in Ended
         /\ ~Store!Stores(l) => job' = job
<1>1. l.job \in Jobs /\ MonitorOf[l.job] \in Monitors
  BY ZenonT(30), PipelineAssumption DEF Leases
<1>2. CASE ~Store!Stores(l)
  <2>1. UNCHANGED <<monitor, job, active, processed>>
    BY ZenonT(30), <1>2 DEF Store!AddCheck, Store!storeVars, Store!jobVars, Store!resultVars
  <2>2. StoreInv'
    BY ZenonT(30), <2>1 DEF StoreInv, IndexInv, RowsInv, Store!ActiveIndexExact, Store!Exists, Store!Active,
         Store!MonitorRow, Store!JobRow, Store!Terminal, Ended
  <2> QED
    BY ZenonT(30), <1>2, <2>1, <2>2 DEF Kept
<1>3. CASE Store!Stores(l)
  <2> DEFINE j == l.job
             m == MonitorOf[j]
  <2>1. /\ job' = Store!Settle(Store!Jobs0, j, "completed").row
        /\ active' = [active EXCEPT ![m] = NoJob]
        /\ monitor' = [Store!Rescheduled(j) EXCEPT ![m].checked = TRUE]
    BY ZenonT(30), <1>3 DEF Store!AddCheck, Store!Commit
  <2>2. \A k \in processed' : k \in processed \/ k = j
    <3>1. Store!RememberProcessedJob(j)
      BY ZenonT(30), <1>3 DEF Store!AddCheck
    <3>2. processed' \subseteq processed \cup {j}
      BY ZenonT(30), <3>1 DEF Store!RememberProcessedJob
    <3> QED
      BY ZenonT(30), <3>2
  <2>3. job[j].status = "processing"
    BY ZenonT(30), <1>3 DEF Store!Stores, Store!OwnsLease
  <2>4. active[m] = j
    BY ZenonT(30), <1>1, <2>3 DEF StoreInv, IndexInv, Store!ActiveIndexExact, Store!Active
  <2>5. monitor \in [Monitors -> Store!MonitorRow]
    BY ZenonT(30) DEF StoreInv, IndexInv
  <2>6. Store!Rescheduled(j) \in [Monitors -> Store!MonitorRow]
        /\ \A n \in Monitors : Store!Rescheduled(j)[n].status = monitor[n].status
    BY ZenonT(30), <1>1, <2>5 DEF Store!Rescheduled, Store!MonitorRow
  <2>7. monitor' \in [Monitors -> Store!MonitorRow]
        /\ \A n \in Monitors : monitor'[n].status = monitor[n].status
    BY ZenonT(30), <1>1, <2>1, <2>6 DEF Store!MonitorRow
  <2>8. "completed" \in Store!Terminal
    BY ZenonT(30) DEF Store!Terminal
  <2>9. StoreInv' /\ job'[j].status \in Ended /\ \A k \in Jobs : Kept(k)
    BY ZenonT(30), <1>1, <2>1, <2>2, <2>4, <2>7, <2>8, SettleStep
  <2> QED
    BY ZenonT(30), <1>3, <2>9
<1> QED
  BY ZenonT(30), <1>2, <1>3

\* A call of the store that changes nothing.
LEMMA SameStore ==
  ASSUME StoreInv, UNCHANGED <<monitor, job, active, processed>>
  PROVE  StoreInv' /\ \A k \in Jobs : Kept(k)
<1>1. StoreInv'
  BY ZenonT(30) DEF StoreInv, IndexInv, RowsInv, Store!ActiveIndexExact, Store!Exists, Store!Active,
       Store!MonitorRow, Store!JobRow, Store!Terminal, Ended
<1> QED
  BY ZenonT(30), <1>1 DEF Kept

\* A released claim leaves the job as it was before.
LEMMA ReleaseStep ==
  ASSUME StoreInv, NEW c \in Claims, Store!ReleaseJobPublish(c)
  PROVE  StoreInv' /\ \A k \in Jobs : Kept(k)
<1>1. c.job \in Jobs
  BY ZenonT(30) DEF Claims
<1> DEFINE row == [job[c.job] EXCEPT !.lease = "none", !.publicationToken = 0]
<1>2. job' = (IF Store!OwnsPublication(c) THEN [job EXCEPT ![c.job] = row] ELSE job)
      /\ UNCHANGED <<monitor, active, processed>>
  BY ZenonT(30) DEF Store!ReleaseJobPublish, Store!PutJob, Store!resultVars
<1>3. CASE ~Store!OwnsPublication(c)
  BY ZenonT(30), <1>2, <1>3, SameStore
<1>4. CASE Store!OwnsPublication(c)
  <2>1. job[c.job] \in Store!JobRow /\ job[c.job].attempt = 0 /\ job[c.job].status = "scheduled"
    BY ZenonT(30), <1>1, <1>4 DEF StoreInv, RowsInv, Store!OwnsPublication
  <2>2. row \in Store!JobRow /\ row.status = "scheduled" /\ row.attempt = 0 /\ row.lease = "none"
    BY ZenonT(30), <2>1 DEF Store!JobRow
  <2> HIDE DEF row
  <2>3. RowOK(row)
    BY ZenonT(30), <2>2 DEF RowOK
  <2>4. StoreInv' /\ job'[c.job] = row /\ \A k \in Jobs \ {c.job} : job'[k] = job[k]
    BY ZenonT(30), <1>1, <1>2, <1>4, <2>1, <2>2, <2>3, RowPut
  <2>5. \A k \in Jobs : Kept(k)
    BY ZenonT(30), <2>1, <2>2, <2>4 DEF Kept
  <2> QED
    BY ZenonT(30), <2>4, <2>5
<1> QED
  BY ZenonT(30), <1>3, <1>4

\* Only a scheduled job whose claim is good becomes queued.
LEMMA PublishedStep ==
  ASSUME StoreInv, NEW c \in Claims, Store!MarkJobPublished(c)
  PROVE  /\ StoreInv'
         /\ \A k \in Jobs : \/ Kept(k)
                            \/ /\ k = c.job /\ Store!OwnsPublication(c)
                               /\ job[k].status = "scheduled" /\ job'[k].status = "queued"
<1>1. c.job \in Jobs
  BY ZenonT(30) DEF Claims
<1> DEFINE row == [job[c.job] EXCEPT !.status = "queued", !.lease = "none"]
<1>2. job' = (IF Store!OwnsPublication(c) THEN [job EXCEPT ![c.job] = row] ELSE job)
      /\ UNCHANGED <<monitor, active, processed>>
  BY ZenonT(30) DEF Store!MarkJobPublished, Store!PutJob, Store!resultVars
<1>3. CASE ~Store!OwnsPublication(c)
  BY ZenonT(30), <1>2, <1>3, SameStore
<1>4. CASE Store!OwnsPublication(c)
  <2>1. job[c.job] \in Store!JobRow /\ job[c.job].attempt = 0 /\ job[c.job].status = "scheduled"
    BY ZenonT(30), <1>1, <1>4 DEF StoreInv, RowsInv, Store!OwnsPublication
  <2>2. row \in Store!JobRow /\ row.status = "queued" /\ row.attempt = 0
    BY ZenonT(30), <2>1 DEF Store!JobRow, Store!Active
  <2> HIDE DEF row
  <2>3. RowOK(row) /\ row.status \in Store!Active /\ job[c.job].status \in Store!Active
    BY ZenonT(30), <2>1, <2>2 DEF RowOK, Store!Active
  <2>4. StoreInv' /\ job'[c.job] = row /\ \A k \in Jobs \ {c.job} : job'[k] = job[k]
    BY ZenonT(30), <1>1, <1>2, <1>4, <2>1, <2>2, <2>3, RowPut
  <2> QED
    BY ZenonT(30), <1>4, <2>1, <2>2, <2>4 DEF Kept
<1> QED
  BY ZenonT(30), <1>3, <1>4

\* A job starts its only attempt.
LEMMA ProcessingStep ==
  ASSUME StoreInv, NEW j \in Jobs, NEW token \in Tokens, Store!MarkJobProcessing(j, 1, token)
  PROVE  /\ StoreInv'
         /\ \A k \in Jobs \ {j} : job'[k] = job[k]
         /\ ~Store!MayProcess(j, 1) => job' = job
         /\ Store!MayProcess(j, 1) =>
              /\ job[j].status \in {"scheduled", "queued"} /\ job'[j].status = "processing"
              /\ job'[j].lease = "live" /\ job'[j].attempt = 1 /\ job'[j].leaseToken = token
<1> DEFINE row == [job[j] EXCEPT !.status = "processing", !.attempt = 1, !.lease = "live",
                                 !.leaseToken = token]
<1>1. job' = (IF Store!MayProcess(j, 1) THEN [job EXCEPT ![j] = row] ELSE job)
      /\ UNCHANGED <<monitor, active, processed>>
  BY ZenonT(30) DEF Store!MarkJobProcessing, Store!PutJob, Store!resultVars
<1>2. CASE ~Store!MayProcess(j, 1)
  BY ZenonT(30), <1>1, <1>2, SameStore
<1>3. CASE Store!MayProcess(j, 1)
  <2>1. job[j] \in Store!JobRow /\ job[j].status \in {"scheduled", "queued"} /\ 1 \in 0..MaxAttempts
    BY <1>3, PipelineAssumption DEF StoreInv, RowsInv, Store!MayProcess
  <2>2. row \in Store!JobRow /\ row.status = "processing" /\ row.attempt = 1
        /\ row.lease = "live" /\ row.leaseToken = token
    BY ZenonT(30), <2>1 DEF Store!JobRow, Store!Active
  <2> HIDE DEF row
  <2>3. RowOK(row) /\ row.status \in Store!Active /\ job[j].status \in Store!Active
    BY ZenonT(30), <2>1, <2>2 DEF RowOK, Store!Active
  <2>4. StoreInv' /\ job'[j] = row /\ \A k \in Jobs \ {j} : job'[k] = job[k]
    BY ZenonT(30), <1>1, <1>3, <2>1, <2>2, <2>3, RowPut
  <2> QED
    BY ZenonT(30), <1>3, <2>1, <2>2, <2>4
<1> QED
  BY ZenonT(30), <1>2, <1>3

\* A lease that nobody holds is one of a waiting job.
LEMMA ExpireStep ==
  ASSUME StoreInv, NEW j \in Jobs, job[j].status # "processing", Store!ExpireLease(j)
  PROVE  StoreInv' /\ \A k \in Jobs : Kept(k)
<1> DEFINE row == [job[j] EXCEPT !.lease = "expired"]
<1>1. job[j].lease = "live" /\ job' = [job EXCEPT ![j] = row] /\ UNCHANGED <<monitor, active, processed>>
  BY ZenonT(30) DEF Store!ExpireLease, Store!PutJob, Store!resultVars
<1>2. job[j] \in Store!JobRow /\ RowOK(job[j])
  BY ZenonT(30) DEF StoreInv, RowsInv, RowOK
<1>3. row \in Store!JobRow /\ row.status = job[j].status /\ row.attempt = job[j].attempt
      /\ row.lease = "expired"
  BY ZenonT(30), <1>2 DEF Store!JobRow
<1> HIDE DEF row
<1>4. RowOK(row) /\ job[j].status # "none"
  BY ZenonT(30), <1>1, <1>2, <1>3 DEF RowOK
<1>5. StoreInv' /\ job'[j] = row /\ \A k \in Jobs \ {j} : job'[k] = job[k]
  BY ZenonT(30), <1>1, <1>3, <1>4, RowPut
<1>6. job[j].status \in {"scheduled", "queued"} \cup Ended
  BY ZenonT(30), <1>2, <1>4, Statuses DEF RowOK
<1>7. \A k \in Jobs : Kept(k)
  BY ZenonT(30), <1>3, <1>5, <1>6, <1>4 DEF Kept, Ends
<1> QED
  BY ZenonT(30), <1>5, <1>7

-----------------------------------------------------------------------------
(* Steps of the store *)

\* What Kept says of the status of a job.
LEMMA KeptMeans ==
  ASSUME RowsInv, NEW j \in Jobs, Kept(j)
  PROVE  /\ job[j].status # "none" => job'[j].status # "none"
         /\ job[j].status \in Ended => job'[j].status \in Ended
         /\ job[j].status = "processing" => job'[j] = job[j] \/ job'[j].status \in Ended
         /\ job'[j].status = "processing" => job'[j] = job[j]
         /\ job'[j].status = "queued" => job[j].status = "queued"
         /\ job'[j].status = "scheduled" /\ job'[j].lease = "live" => job'[j] = job[j] \/ Idle
<1>1. CASE job'[j] = job[j]
  BY ZenonT(30), <1>1
<1>2. CASE /\ job[j].status \in {"none", "scheduled"} /\ job'[j].status = "scheduled"
           /\ job'[j].lease = "live" => Idle
  BY ZenonT(30), <1>2 DEF Ended
<1>3. CASE job[j].status = "queued" /\ job'[j].status = "queued"
  BY ZenonT(30), <1>3 DEF Ended
<1>4. CASE Ends(j)
  BY ZenonT(30), <1>4 DEF Ended, Ends
<1> QED
  BY ZenonT(30), <1>1, <1>2, <1>3, <1>4 DEF Kept

\* A job does not go back to an earlier state, and a running one only ends.
Advances(j) ==
  /\ job[j].status # "none" => job'[j].status # "none"
  /\ job[j].status \in Ended => job'[j].status \in Ended
  /\ job[j].status = "processing" => job'[j] = job[j] \/ job'[j].status \in Ended

\* A job that has been created stays created.
Created == \A j \in Jobs : job[j].status # "none" => job'[j].status # "none"

\* The queue names jobs that exist, also after a step of the store.
LEMMA QueueKept ==
  ASSUME QueueInv, Created, UNCHANGED <<channel, consumer>>
  PROVE  QueueInv'
<1>1. /\ channel \in Seq(Messages)
      /\ \A i \in DOMAIN channel : job[channel[i].job].status # "none"
      /\ consumer \in [pc: {"waiting", "holding", "stopped"}, message: Messages \cup {None}]
      /\ consumer.pc = "holding" =>
           consumer.message \in Messages /\ job[consumer.message.job].status # "none"
  BY ZenonT(30) DEF QueueInv
<1>2. \A i \in DOMAIN channel : channel[i] \in Messages
  BY <1>1
<1>3. \A i \in DOMAIN channel : job'[channel[i].job].status # "none"
  BY ZenonT(30), <1>1, <1>2, FirstMessage DEF Created
<1>4. consumer.pc = "holding" => job'[consumer.message.job].status # "none"
  BY ZenonT(30), <1>1, FirstMessage DEF Created
<1> QED
  BY ZenonT(30), <1>1, <1>3, <1>4 DEF QueueInv, Messages, None

\* A worker that does not move.
LEMMA OtherWorker ==
  ASSUME NEW w \in Workers, InHand(w), LookedInto(w), \A j \in Jobs : Advances(j),
         worker'[w] = worker[w], delivery'[w] = delivery[w]
  PROVE  InHand(w)' /\ LookedInto(w)'
<1> DEFINE j == delivery[w].message.job
<1>1. CASE worker[w].pc = "idle"
  BY ZenonT(30), <1>1 DEF InHand, LookedInto
<1>2. CASE worker[w].pc # "idle"
  <2>1. /\ delivery[w].pc = "held" /\ delivery[w].message \in Messages /\ job[j].status # "none"
        /\ worker[w].pc \in {"leased", "failing"} =>
             worker[w].lease \in Leases /\ worker[w].lease.job = j
    BY ZenonT(30), <1>2 DEF InHand
  <2>2. j \in Jobs
    BY ZenonT(30), <2>1, FirstMessage
  <2>3. Advances(j) /\ delivery'[w].message.job = j
    BY ZenonT(30), <2>2
  <2>4. InHand(w)'
    BY ZenonT(30), <2>1, <2>3 DEF InHand, Advances, Messages, Leases
  <2>5. /\ worker[w].pc \in {"leased", "ack", "nack"} => job'[j].status \in {"processing"} \cup Ended
        /\ worker[w].pc = "failing" => job'[j].status \in Ended
    BY ZenonT(30), <2>3 DEF LookedInto, Advances
  <2>6. ASSUME worker[w].pc = "leased", job'[j].status = "processing"
        PROVE  Store!OwnsLease(worker[w].lease)'
    <3>1. job[j].status = "processing" /\ job'[j] = job[j]
      BY ZenonT(30), <2>3, <2>6 DEF LookedInto, Advances, Ended
    <3>2. Store!OwnsLease(worker[w].lease) /\ worker[w].lease.job = j
      BY ZenonT(30), <2>1, <2>6, <3>1 DEF LookedInto
    <3> QED
      BY ZenonT(30), <3>1, <3>2 DEF Store!OwnsLease
  <2>7. LookedInto(w)'
    BY ZenonT(30), <2>3, <2>5, <2>6 DEF LookedInto, Ended
  <2> QED
    BY ZenonT(30), <2>4, <2>7
<1> QED
  BY ZenonT(30), <1>1, <1>2

\* A step of the store leaves the workers what they hold.
LEMMA WorkersKept ==
  ASSUME WorkersInv, AttemptsInv, \A j \in Jobs : Advances(j), UNCHANGED <<worker, delivery>>,
         \A j \in Jobs : job'[j].status = "processing" => job[j].status = "processing"
  PROVE  WorkersInv' /\ AttemptsInv'
<1>1. \A w \in Workers : InHand(w)' /\ LookedInto(w)'
  BY ZenonT(30), OtherWorker DEF WorkersInv, AttemptsInv
<1>2. WorkersInv'
  BY ZenonT(30), <1>1 DEF WorkersInv, Messages, None, Leases
<1> QED
  BY ZenonT(30), <1>1, <1>2 DEF AttemptsInv

\* A step of the store leaves the scheduler its claims.
LEMMA SchedulerKept ==
  ASSUME SchedulerInv, Created, UNCHANGED <<closed, cancelled, scheduler, publisher>>
  PROVE  SchedulerInv'
<1>1. /\ \A c \in scheduler.batch : job[c.job].status # "none"
      /\ scheduler.claim \in Claims => job[scheduler.claim.job].status # "none"
      /\ \A c \in scheduler.batch : c \in Claims
  BY ZenonT(30) DEF SchedulerInv
<1>2. \A c \in Claims : c.job \in Jobs
  BY ZenonT(30) DEF Claims
<1>3. /\ \A c \in scheduler.batch : job'[c.job].status # "none"
      /\ scheduler.claim \in Claims => job'[scheduler.claim.job].status # "none"
  BY ZenonT(30), <1>1, <1>2 DEF Created
<1> QED
  BY ZenonT(30), <1>3 DEF SchedulerInv, Messages, None, Claims, First

\* A message that does not move keeps its id remembered.
LEMMA SeenKept ==
  ASSUME SeenInv, UNCHANGED <<seen, channel, consumer, publisher, worker, delivery>>
  PROVE  SeenInv'
BY ZenonT(30) DEF SeenInv, Delivered, First

\* A claim that is still good was good before.
LEMMA OwnedBefore ==
  ASSUME StoreInv, NEW c \in Claims, ~Idle, Kept(c.job), Store!OwnsPublication(c)'
  PROVE  Store!OwnsPublication(c)
<1>1. c.job \in Jobs /\ MonitorOf[c.job] \in Monitors
  BY ZenonT(30), PipelineAssumption DEF Claims
<1>2. job'[c.job] = job[c.job]
  BY ZenonT(30), <1>1, KeptMeans DEF Store!OwnsPublication, StoreInv
<1>3. job[c.job].status = "scheduled"
  BY ZenonT(30), <1>2 DEF Store!OwnsPublication
<1>4. Store!Exists(MonitorOf[c.job])
  BY ZenonT(30), <1>1, <1>3 DEF StoreInv, IndexInv, Store!ActiveIndexExact, Store!Active
<1> QED
  BY ZenonT(30), <1>2, <1>4 DEF Store!OwnsPublication

\* The message of a job stays where it is.
LEMMA CarriedKept ==
  ASSUME NEW j, Carried(j), UNCHANGED <<channel, consumer>>,
         \A w \in Workers : worker[w].pc \in {"received", "looked_up"} /\ delivery[w].message = First(j) =>
           worker'[w].pc \in {"received", "looked_up"} /\ delivery'[w].message = First(j)
  PROVE  Carried(j)'
<1>1. CASE Delivered(j)
  BY ZenonT(30), <1>1 DEF Carried, Delivered, First
<1>2. CASE \E w \in Workers : worker[w].pc \in {"received", "looked_up"} /\ delivery[w].message = First(j)
  BY ZenonT(30), <1>2 DEF Carried, First
<1> QED
  BY ZenonT(30), <1>1, <1>2 DEF Carried

\* A step that makes no job queued and takes no message keeps every queued job its message.
LEMMA TransitKept ==
  ASSUME StoreInv, SchedulerInv, TransitInv, \A j \in Jobs : Kept(j) \/ job'[j].status = "processing",
         scheduler'.claim = scheduler.claim,
         UNCHANGED <<channel, consumer, publisher>>,
         \A j \in Jobs, w \in Workers :
           worker[w].pc \in {"received", "looked_up"} /\ delivery[w].message = First(j)
             /\ job'[j].status \in {"scheduled", "queued"} =>
           worker'[w].pc \in {"received", "looked_up"} /\ delivery'[w].message = First(j)
  PROVE  TransitInv'
<1>0. RowsInv
  BY ZenonT(30) DEF StoreInv
<1>1. ASSUME NEW j \in Jobs, job'[j].status = "queued" PROVE Carried(j)'
  <2>1. job[j].status = "queued"
    BY ZenonT(30), <1>0, <1>1, KeptMeans
  <2>2. Carried(j)
    BY ZenonT(30), <2>1 DEF TransitInv
  <2> QED
    BY ZenonT(30), <1>1, <2>2, CarriedKept
<1>2. ASSUME publisher'[Scheduler].pc = "published", Store!OwnsPublication(scheduler.claim)'
      PROVE  Carried(scheduler.claim.job)'
  <2>1. PICK c : c = scheduler.claim
    BY ZenonT(30)
  <2>2. c \in Claims
    BY ZenonT(30), <1>2, <2>1 DEF SchedulerInv
  <2>3. ~Idle /\ c.job \in Jobs
    BY ZenonT(30), <2>1, <2>2, NoneIsNone DEF Idle, Claims
  <2>4. Store!OwnsPublication(c)' /\ job'[c.job].status = "scheduled"
    BY ZenonT(30), <1>2, <2>1 DEF Store!OwnsPublication
  <2>8. Kept(c.job)
    BY ZenonT(30), <2>3, <2>4
  <2>5. Store!OwnsPublication(c)
    BY ZenonT(30), <2>2, <2>3, <2>4, <2>8, OwnedBefore
  <2>6. Carried(c.job)
    BY ZenonT(30), <1>2, <2>1, <2>5 DEF TransitInv
  <2>7. Carried(c.job)'
    BY ZenonT(30), <2>3, <2>4, <2>6, CarriedKept
  <2> QED
    BY ZenonT(30), <2>1, <2>7 DEF Carried, Delivered, First
<1> QED
  BY ZenonT(30), <1>1, <1>2 DEF TransitInv

\* The store changes and nobody moves.
LEMMA StoreStep ==
  ASSUME PipelineInv, StoreInv', \A j \in Jobs : Kept(j), UNCHANGED <<queueVars, worker>>,
         scheduler'.claim = scheduler.claim, SchedulerInv'
  PROVE  PipelineInv'
<1>1. StoreInv /\ SchedulerInv /\ QueueInv /\ WorkersInv /\ AttemptsInv /\ SeenInv /\ TransitInv /\ RowsInv
  BY ZenonT(30) DEF PipelineInv, StoreInv
<1>2. UNCHANGED <<channel, seen, publisher, consumer, delivery, worker>>
  BY ZenonT(30) DEF queueVars
<1>3. (\A j \in Jobs : Advances(j)) /\ Created
      /\ \A j \in Jobs : job'[j].status = "processing" => job[j].status = "processing"
  BY ZenonT(30), <1>1, KeptMeans DEF Advances, Created
<1>4. QueueInv'
  BY ZenonT(30), <1>1, <1>2, <1>3, QueueKept
<1>5. WorkersInv' /\ AttemptsInv'
  BY ZenonT(30), <1>1, <1>2, <1>3, WorkersKept
<1>6. SeenInv'
  BY ZenonT(30), <1>1, <1>2, SeenKept
<1>7. TransitInv'
  BY ZenonT(30), <1>1, <1>2, TransitKept
<1> QED
  BY ZenonT(30), <1>4, <1>5, <1>6, <1>7 DEF PipelineInv

\* The scheduler takes the batch that ClaimDueJobs returns.
LEMMA ClaimStep ==
  ASSUME PipelineInv, Claim
  PROVE  PipelineInv'
<1>1. StoreInv /\ SchedulerInv /\ Idle /\ UNCHANGED <<queueVars, worker>>
  BY ZenonT(30) DEF PipelineInv, Claim
<1>2. PICK batch \in SUBSET {j \in Jobs : job[j].status \in Store!Active},
           fresh \in SUBSET {j \in Jobs : Store!NewID(j)}, token \in NewTokens :
        /\ Store!ClaimDueJobs(batch, fresh, token)
        /\ scheduler' = [scheduler EXCEPT !.batch =
             {[job |-> j, attempt |-> job[j].attempt, token |-> token] : j \in batch \cup fresh}]
  BY ZenonT(30) DEF Claim
<1>0. batch \in SUBSET Jobs /\ token \in Tokens
  BY ZenonT(30) DEF NewTokens
<1>3. /\ StoreInv' /\ \A k \in Jobs : Kept(k)
      /\ \A k \in batch \cup fresh : job[k].attempt = 0 /\ job'[k].status = "scheduled"
  BY ZenonT(30), <1>0, <1>1, <1>2, ClaimStoreStep
<1>4. scheduler \in [batch: SUBSET Claims, claim: Claims \cup {None}] /\ scheduler.claim = None
  BY ZenonT(30), <1>1 DEF SchedulerInv, Idle
<1>5. scheduler'.claim = None
      /\ scheduler'.batch = {[job |-> j, attempt |-> job[j].attempt, token |-> token] : j \in batch \cup fresh}
      /\ scheduler' = [batch |-> scheduler'.batch, claim |-> None]
  BY ZenonT(30), <1>2, <1>4
<1>6. \A c \in scheduler'.batch : c \in Claims /\ job'[c.job].status # "none"
  <2> TAKE c \in scheduler'.batch
  <2>1. PICK j \in batch \cup fresh : c = [job |-> j, attempt |-> job[j].attempt, token |-> token]
    BY ZenonT(30), <1>5
  <2>2. j \in Jobs /\ job[j].attempt = 0 /\ job'[j].status = "scheduled"
    BY ZenonT(30), <1>0, <1>3
  <2> QED
    BY ZenonT(30), <1>0, <2>1, <2>2 DEF Claims
<1>7. scheduler' \in [batch: SUBSET Claims, claim: Claims \cup {None}]
  BY ZenonT(30), <1>5, <1>6
<1>8. None \notin Claims /\ publisher[Scheduler].pc = "idle"
  BY ZenonT(30), <1>1, <1>4, NoneIsNone DEF SchedulerInv
<1>9. UNCHANGED <<closed, cancelled, publisher>>
  BY ZenonT(30), <1>1 DEF queueVars
<1>10. SchedulerInv'
  BY ZenonT(30), <1>1, <1>5, <1>6, <1>7, <1>8, <1>9 DEF SchedulerInv, Messages, None, Claims, First
<1> QED
  BY ZenonT(30), <1>1, <1>3, <1>4, <1>5, <1>10, StoreStep

\* The store changes and the scheduler has not looked yet.
LEMMA SilentStoreStep ==
  ASSUME PipelineInv, StoreInv', \A j \in Jobs : Kept(j), UNCHANGED <<queueVars, worker, scheduler>>
  PROVE  PipelineInv'
<1>1. RowsInv /\ SchedulerInv
  BY ZenonT(30) DEF PipelineInv, StoreInv
<1>2. Created
  BY ZenonT(30), <1>1, KeptMeans DEF Created
<1>3. SchedulerInv'
  BY ZenonT(30), <1>1, <1>2, SchedulerKept DEF queueVars
<1> QED
  BY ZenonT(30), <1>3, StoreStep

\* The calls of the API.
LEMMA ApiStepKeeps ==
  ASSUME PipelineInv, ApiStep
  PROVE  PipelineInv'
<1>1. StoreInv /\ UNCHANGED <<queueVars, worker, scheduler>>
  BY ZenonT(30) DEF PipelineInv, ApiStep
<1>2. PICK m \in Monitors :
        \/ \E url \in URLs : Store!Create(m, url, TRUE)
        \/ \E enabled, other \in BOOLEAN : Store!Update(m, monitor[m].url, enabled, other, FALSE)
        \/ Store!Delete(m)
        \/ \E j \in Jobs : Store!CreateManualJob(m, j)
  BY ZenonT(30) DEF ApiStep
<1>3. StoreInv' /\ \A j \in Jobs : Kept(j)
  <2>1. CASE \E url \in URLs : Store!Create(m, url, TRUE)
    BY ZenonT(30), <1>1, <2>1, CreateStep
  <2>2. CASE \E enabled, other \in BOOLEAN : Store!Update(m, monitor[m].url, enabled, other, FALSE)
    BY ZenonT(30), <1>1, <2>2, UpdateStep
  <2>3. CASE Store!Delete(m)
    BY ZenonT(30), <1>1, <2>3, DeleteStep
  <2>4. CASE \E j \in Jobs : Store!CreateManualJob(m, j)
    BY ZenonT(30), <1>1, <2>4, CreateManualJobStep
  <2> QED
    BY ZenonT(30), <1>2, <2>1, <2>2, <2>3, <2>4
<1> QED
  BY ZenonT(30), <1>1, <1>3, SilentStoreStep

\* A running job is held by its worker, so its lease does not run out before the
\* first fault.
LEMMA ExpireLeaseKeeps ==
  ASSUME PipelineInv, faults = 0, faults' = 0, NEW j \in Jobs, ExpireLease(j)
  PROVE  PipelineInv'
<1>1. StoreInv /\ WorkersInv /\ AttemptsInv /\ UNCHANGED <<queueVars, worker, scheduler>>
  BY ZenonT(30) DEF PipelineInv, ExpireLease
<1>2. ~Held(j)
  <2>1. SUFFICES ASSUME Held(j) PROVE FALSE
    BY ZenonT(30)
  <2>2. faults' = faults + 1
    BY ZenonT(30), <2>1 DEF ExpireLease
  <2> QED
    BY <2>2
<1>3. job[j].status # "processing"
  <2> SUFFICES ASSUME job[j].status = "processing" PROVE FALSE
    BY ZenonT(30)
  <2>1. PICK w \in Workers : worker[w].pc = "leased" /\ delivery[w].message.job = j
    BY ZenonT(30), <1>1 DEF AttemptsInv
  <2>2. Store!OwnsLease(worker[w].lease)
    BY ZenonT(30), <1>1, <2>1 DEF AttemptsInv, LookedInto
  <2>3. worker[w].lease \in Leases /\ worker[w].lease.job = j
    BY ZenonT(30), <1>1, <2>1 DEF WorkersInv, InHand
  <2>4. worker[w].lease # None
    BY ZenonT(30), <2>3, NoneIsNone
  <2> QED
    BY ZenonT(30), <1>2, <2>2, <2>3, <2>4 DEF Held
<1>4. StoreInv' /\ \A k \in Jobs : Kept(k)
  BY ZenonT(30), <1>1, <1>3, ExpireStep DEF ExpireLease
<1> QED
  BY ZenonT(30), <1>1, <1>4, SilentStoreStep

\* Nothing of the invariant is about what is due or available.
LEMMA TimePassesKeeps ==
  ASSUME PipelineInv, TimePasses
  PROVE  PipelineInv'
<1>1. StoreInv /\ UNCHANGED <<queueVars, worker, scheduler>>
  BY ZenonT(30) DEF PipelineInv, TimePasses
<1>2. \A j \in Jobs : ~Store!BecomeAvailable(j)
  BY ZenonT(30), <1>1 DEF StoreInv, RowsInv, Store!BecomeAvailable
<1>3. PICK m \in Monitors : Store!BecomeDue(m)
  BY ZenonT(30), <1>2 DEF TimePasses
<1>4. StoreInv' /\ \A k \in Jobs : Kept(k)
  BY ZenonT(30), <1>1, <1>3, BecomeDueStep
<1> QED
  BY ZenonT(30), <1>1, <1>4, SilentStoreStep

-----------------------------------------------------------------------------
(* Steps of the scheduler *)

\* The publisher moves on with its message.
LEMMA PublisherMoves ==
  ASSUME SchedulerInv, NEW pc \in {"idle", "enqueue", "undo", "published", "failed"},
         NEW message \in Messages \cup {None}, Queue!PublisherAt(Scheduler, pc, message)
  PROVE  /\ publisher'[Scheduler].pc = pc /\ publisher'[Scheduler].message = message
         /\ publisher' \in [{Scheduler} -> [pc: {"idle", "enqueue", "undo", "published", "failed"},
                                            message: Messages \cup {None}]]
BY ZenonT(30) DEF SchedulerInv, Queue!PublisherAt

\* A claim that has just been taken up, or whose message is already in the queue.
LEMMA PublishStep ==
  ASSUME PipelineInv, NEW c \in scheduler.batch, Publish(c)
  PROVE  PipelineInv'
<1>1. StoreInv /\ SchedulerInv /\ QueueInv /\ WorkersInv /\ AttemptsInv /\ SeenInv /\ TransitInv
      /\ UNCHANGED <<storeVars, worker>>
  BY ZenonT(30) DEF PipelineInv, Publish
<1>2. c \in Claims /\ c.job \in Jobs /\ c.attempt = 0 /\ job[c.job].status # "none" /\ ~closed
  BY ZenonT(30), <1>1 DEF SchedulerInv, Claims
<1> DEFINE j == c.job
<1>3. [job |-> c.job, attempt |-> c.attempt + 1] = First(j)
  BY <1>2 DEF First
<1>4. Queue!Publish(Scheduler, First(j)) /\ scheduler' = [batch |-> scheduler.batch \ {c}, claim |-> c]
  BY ZenonT(30), <1>3 DEF Publish
<1>5. First(j).job = j /\ First(j) \in Messages
  BY ZenonT(30), <1>2, FirstMessage
<1>6. /\ publisher[Scheduler].pc = "idle"
      /\ UNCHANGED <<channel, closed, cancelled, consumer, delivery>>
      /\ \/ /\ j \in seen /\ seen' = seen
            /\ Queue!PublisherAt(Scheduler, "published", First(j))
         \/ /\ seen' = seen \cup {j}
            /\ Queue!PublisherAt(Scheduler, "enqueue", First(j))
  BY ZenonT(30), <1>2, <1>4, <1>5 DEF Queue!Publish
<1>7. PICK pc \in {"published", "enqueue"} :
        /\ Queue!PublisherAt(Scheduler, pc, First(j))
        /\ \/ j \in seen /\ seen' = seen /\ pc = "published"
           \/ seen' = seen \cup {j} /\ pc = "enqueue"
  BY ZenonT(30), <1>6
<1>8. /\ publisher'[Scheduler].pc = pc /\ publisher'[Scheduler].message = First(j)
      /\ publisher' \in [{Scheduler} -> [pc: {"idle", "enqueue", "undo", "published", "failed"},
                                         message: Messages \cup {None}]]
  BY ZenonT(30), <1>1, <1>5, <1>7, PublisherMoves
<1>9. UNCHANGED <<monitor, job, active, processed>>
  BY ZenonT(30), <1>1 DEF storeVars
<1>10. Created /\ (\A k \in Jobs : Advances(k))
       /\ \A k \in Jobs : job'[k].status = "processing" => job[k].status = "processing"
  BY ZenonT(30), <1>9 DEF Created, Advances
<1>11. StoreInv' /\ QueueInv' /\ WorkersInv' /\ AttemptsInv'
  BY ZenonT(30), <1>1, <1>6, <1>9, <1>10, SameStore, QueueKept, WorkersKept
<1>12. scheduler'.claim = c /\ scheduler'.batch = scheduler.batch \ {c}
       /\ scheduler' \in [batch: SUBSET Claims, claim: Claims \cup {None}]
  BY ZenonT(30), <1>1, <1>2, <1>4 DEF SchedulerInv
<1>13. SchedulerInv'
  <2>1. \A d \in scheduler'.batch : job'[d.job].status # "none"
    BY ZenonT(30), <1>1, <1>9, <1>12 DEF SchedulerInv
  <2> QED
    BY ZenonT(30), <1>1, <1>2, <1>6, <1>8, <1>9, <1>12, <2>1 DEF SchedulerInv, Claims, Messages, None, First
<1>14. SeenInv'
  <2> SUFFICES ASSUME NEW k \in seen'
               PROVE  \/ publisher'[Scheduler].pc \in {"enqueue", "undo"}
                         /\ publisher'[Scheduler].message = First(k)
                      \/ Delivered(k)'
                      \/ \E w \in Workers : worker'[w].pc # "idle" /\ delivery'[w].message = First(k)
    BY ZenonT(30) DEF SeenInv, First
  <2>1. CASE k \in seen
    <3>1. Delivered(k) \/ \E w \in Workers : worker[w].pc # "idle" /\ delivery[w].message = First(k)
      BY ZenonT(30), <1>1, <1>6, <2>1 DEF SeenInv
    <3> QED
      BY ZenonT(30), <1>1, <1>6, <3>1 DEF Delivered, First
  <2>2. CASE k = j /\ pc = "enqueue"
    BY ZenonT(30), <2>2, <1>8
  <2> QED
    BY ZenonT(30), <1>7, <2>1, <2>2
<1>15. TransitInv'
  <2>1. ASSUME NEW k \in Jobs, job'[k].status = "queued" PROVE Carried(k)'
    BY ZenonT(30), <1>1, <1>6, <1>9, <2>1, CarriedKept DEF TransitInv
  <2>2. ASSUME pc = "published", job[j].status = "scheduled" PROVE Carried(j)'
    <3>1. Delivered(j) \/ \E w \in Workers : worker[w].pc # "idle" /\ delivery[w].message = First(j)
      BY ZenonT(30), <1>1, <1>6, <1>7, <2>2 DEF SeenInv
    <3>2. ASSUME NEW w \in Workers, worker[w].pc # "idle", delivery[w].message = First(j)
          PROVE  worker[w].pc \in {"received", "looked_up"}
      <4>1. worker[w].pc \in {"received", "looked_up", "leased", "failing", "ack", "nack"}
        BY ZenonT(30), <1>1, <3>2 DEF WorkersInv
      <4>2. worker[w].pc \notin {"leased", "failing", "ack", "nack"}
        BY ZenonT(30), <1>1, <1>5, <2>2, <3>2 DEF AttemptsInv, LookedInto, Ended
      <4> QED
        BY ZenonT(30), <4>1, <4>2
    <3>3. Carried(j)
      BY ZenonT(30), <3>1, <3>2 DEF Carried
    <3> QED
      BY ZenonT(30), <1>1, <1>6, <3>3, CarriedKept
  <2>3. Store!OwnsPublication(scheduler.claim)' => job[j].status = "scheduled"
    BY ZenonT(30), <1>9, <1>12 DEF Store!OwnsPublication
  <2>4. Carried(scheduler.claim.job)' <=> Carried(j)'
    BY ZenonT(30), <1>12 DEF Carried, Delivered, First
  <2> QED
    BY ZenonT(30), <2>1, <2>2, <2>3, <2>4, <1>8 DEF TransitInv
<1> QED
  BY ZenonT(30), <1>11, <1>13, <1>14, <1>15 DEF PipelineInv

\* The queue changes and the store does not.
LEMMA QueueStep ==
  ASSUME PipelineInv, UNCHANGED storeVars
  PROVE  /\ StoreInv /\ SchedulerInv /\ QueueInv /\ WorkersInv /\ AttemptsInv /\ SeenInv /\ TransitInv
         /\ StoreInv' /\ Created
         /\ (\A k \in Jobs : Advances(k)) /\ (\A k \in Jobs : Kept(k))
         /\ \A k \in Jobs : job'[k].status = "processing" => job[k].status = "processing"
         /\ UNCHANGED <<monitor, job, active, processed>>
<1>1. StoreInv /\ SchedulerInv /\ QueueInv /\ WorkersInv /\ AttemptsInv /\ SeenInv /\ TransitInv
  BY ZenonT(30) DEF PipelineInv
<1>2. UNCHANGED <<monitor, job, active, processed>>
  BY ZenonT(30) DEF storeVars
<1>3. Created /\ (\A k \in Jobs : Advances(k)) /\ (\A k \in Jobs : Kept(k))
       /\ \A k \in Jobs : job'[k].status = "processing" => job[k].status = "processing"
  BY ZenonT(30), <1>2 DEF Created, Advances, Kept
<1>4. StoreInv'
  BY ZenonT(30), <1>1, <1>2, SameStore
<1> QED
  BY ZenonT(30), <1>1, <1>2, <1>3, <1>4

\* The publisher moves on with the claim it has in hand.
LEMMA SchedulerMoves ==
  ASSUME SchedulerInv, Created, UNCHANGED <<closed, cancelled, scheduler>>,
         NEW pc \in {"enqueue", "undo", "published", "failed"}, publisher[Scheduler].pc # "idle",
         Queue!PublisherAt(Scheduler, pc, publisher[Scheduler].message)
  PROVE  /\ SchedulerInv' /\ publisher'[Scheduler].pc = pc
         /\ publisher'[Scheduler].message = publisher[Scheduler].message
         /\ scheduler.claim \in Claims /\ scheduler.claim.job \in Jobs
         /\ publisher[Scheduler].message = First(scheduler.claim.job)
         /\ job[scheduler.claim.job].status # "none"
<1>1. /\ scheduler.claim \in Claims /\ publisher[Scheduler].message = First(scheduler.claim.job)
      /\ job[scheduler.claim.job].status # "none"
      /\ publisher[Scheduler].message \in Messages \cup {None}
  BY ZenonT(30) DEF SchedulerInv
<1>2. pc \in {"idle", "enqueue", "undo", "published", "failed"}
  BY ZenonT(30)
<1>3. /\ publisher'[Scheduler].pc = pc /\ publisher'[Scheduler].message = publisher[Scheduler].message
      /\ publisher' \in [{Scheduler} -> [pc: {"idle", "enqueue", "undo", "published", "failed"},
                                         message: Messages \cup {None}]]
  BY ZenonT(30), <1>1, <1>2, PublisherMoves
<1>4. \A c \in Claims : c.job \in Jobs
  BY ZenonT(30) DEF Claims
<1>5. (\A c \in scheduler.batch : c \in Claims) /\ \A c \in scheduler.batch : job[c.job].status # "none"
  BY ZenonT(30) DEF SchedulerInv
<1>6. (\A c \in scheduler.batch : job'[c.job].status # "none") /\ job'[scheduler.claim.job].status # "none"
  BY ZenonT(30), <1>1, <1>4, <1>5 DEF Created
<1>7. SchedulerInv'
  BY ZenonT(30), <1>1, <1>3, <1>6 DEF SchedulerInv, Messages, None, Claims, First
<1> QED
  BY ZenonT(30), <1>1, <1>3, <1>4, <1>7

\* The buffer after a message is put into it.
LEMMA AppendedMessage ==
  ASSUME channel \in Seq(Messages), NEW m \in Messages, channel' = Append(channel, m)
  PROVE  /\ channel' \in Seq(Messages)
         /\ \A i \in DOMAIN channel : i \in DOMAIN channel' /\ channel'[i] = channel[i]
         /\ \E i \in DOMAIN channel' : channel'[i] = m
         /\ \A i \in DOMAIN channel' : channel'[i] = m \/ \E k \in DOMAIN channel : channel'[i] = channel[k]
<1>1. Len(channel) \in Nat /\ DOMAIN channel = 1..Len(channel)
  OBVIOUS
<1>2. channel' \in Seq(Messages) /\ Len(channel') = Len(channel) + 1 /\ DOMAIN channel' = 1..(Len(channel) + 1)
  OBVIOUS
<1>3. \A i \in DOMAIN channel' : channel'[i] = IF i <= Len(channel) THEN channel[i] ELSE m
  BY <1>1, <1>2
<1>4. \A i \in DOMAIN channel : i \in DOMAIN channel' /\ channel'[i] = channel[i]
  BY <1>1, <1>2, <1>3
<1>5. Len(channel) + 1 \in DOMAIN channel' /\ channel'[Len(channel) + 1] = m
  BY <1>1, <1>2, <1>3
<1>6. \A i \in DOMAIN channel' : channel'[i] = m \/ \E k \in DOMAIN channel : channel'[i] = channel[k]
  BY <1>1, <1>2, <1>3
<1> QED
  BY ZenonT(30), <1>2, <1>4, <1>5, <1>6

\* Publish puts the message into the buffer.
LEMMA EnqueueStep ==
  ASSUME PipelineInv, Queue!PublishEnqueue(Scheduler), UNCHANGED <<storeVars, scheduler, worker>>,
         Queue!Enqueues(publisher[Scheduler].message),
         Queue!PublisherAt(Scheduler, "published", publisher[Scheduler].message)
  PROVE  PipelineInv'
<1>1. /\ StoreInv /\ SchedulerInv /\ QueueInv /\ WorkersInv /\ AttemptsInv /\ SeenInv /\ TransitInv
      /\ StoreInv' /\ Created /\ (\A k \in Jobs : Advances(k))
      /\ \A k \in Jobs : job'[k].status = "processing" => job[k].status = "processing"
      /\ UNCHANGED <<monitor, job, active, processed>>
  BY ZenonT(30), QueueStep
<1>2. /\ publisher[Scheduler].pc = "enqueue"
      /\ UNCHANGED <<seen, closed, cancelled, consumer, delivery, scheduler, worker>>
      /\ channel' = Append(channel, publisher[Scheduler].message)
  BY ZenonT(30) DEF Queue!PublishEnqueue, Queue!Enqueues
<1>3. PICK j : j = scheduler.claim.job
  BY ZenonT(30)
<1>4. /\ SchedulerInv' /\ publisher'[Scheduler].pc = "published"
      /\ publisher'[Scheduler].message = publisher[Scheduler].message
      /\ j \in Jobs /\ publisher[Scheduler].message = First(j) /\ job[j].status # "none"
  BY ZenonT(30), <1>1, <1>2, <1>3, SchedulerMoves
<1>5. First(j) \in Messages /\ First(j).job = j
  BY ZenonT(30), <1>4, FirstMessage
<1>6. channel \in Seq(Messages)
  BY ZenonT(30), <1>1 DEF QueueInv
<1>7. /\ channel' \in Seq(Messages)
      /\ \A i \in DOMAIN channel : i \in DOMAIN channel' /\ channel'[i] = channel[i]
      /\ \E i \in DOMAIN channel' : channel'[i] = First(j)
      /\ \A i \in DOMAIN channel' : channel'[i] = First(j) \/ \E k \in DOMAIN channel : channel'[i] = channel[k]
  BY ZenonT(30), <1>2, <1>4, <1>5, <1>6, AppendedMessage
<1>8. QueueInv'
  <2>1. \A i \in DOMAIN channel' : job'[channel'[i].job].status # "none"
    <3> TAKE i \in DOMAIN channel'
    <3>1. CASE channel'[i] = First(j)
      BY ZenonT(30), <3>1, <1>1, <1>4, <1>5
    <3>2. CASE \E k \in DOMAIN channel : channel'[i] = channel[k]
      BY ZenonT(30), <3>2, <1>1 DEF QueueInv
    <3> QED
      BY ZenonT(30), <3>1, <3>2, <1>7
  <2> QED
    BY ZenonT(30), <1>1, <1>2, <1>7, <2>1 DEF QueueInv, Messages, None
<1>9. WorkersInv' /\ AttemptsInv'
  BY ZenonT(30), <1>1, <1>2, WorkersKept
<1>10. Delivered(j)' /\ \A k : Delivered(k) => Delivered(k)'
  BY ZenonT(30), <1>2, <1>7 DEF Delivered, First
<1>11. \A k : Carried(k) => Carried(k)'
  BY ZenonT(30), <1>2, <1>10 DEF Carried, First
<1>12. SeenInv'
  <2> SUFFICES ASSUME NEW k \in seen
               PROVE  \/ Delivered(k)'
                      \/ \E w \in Workers : worker'[w].pc # "idle" /\ delivery'[w].message = First(k)
    BY ZenonT(30), <1>2 DEF SeenInv, First
  <2>1. CASE publisher[Scheduler].message = First(k)
    <3>1. First(k).job = First(j).job
      BY ZenonT(30), <2>1, <1>4
    <3>2. k = j
      BY ZenonT(30), <3>1 DEF First
    <3> QED
      BY ZenonT(30), <3>2, <1>10
  <2>2. CASE Delivered(k)
    BY ZenonT(30), <2>2, <1>10
  <2>3. CASE \E w \in Workers : worker[w].pc # "idle" /\ delivery[w].message = First(k)
    BY ZenonT(30), <2>3, <1>2
  <2> QED
    BY ZenonT(30), <1>1, <2>1, <2>2, <2>3 DEF SeenInv
<1>13. TransitInv'
  <2>1. Carried(j)' /\ scheduler'.claim.job = j
    BY ZenonT(30), <1>2, <1>3, <1>10 DEF Carried
  <2>2. Carried(scheduler.claim.job)'
    BY ZenonT(30), <2>1 DEF Carried, Delivered, First
  <2>3. \A k \in Jobs : job'[k].status = "queued" => Carried(k)'
    BY ZenonT(30), <1>1, <1>11 DEF TransitInv
  <2> QED
    BY ZenonT(30), <2>2, <2>3 DEF TransitInv
<1> QED
  BY ZenonT(30), <1>1, <1>4, <1>8, <1>9, <1>12, <1>13 DEF PipelineInv

\* The buffer is full: the id is remembered until the publisher has forgotten it again.
LEMMA UndoStep ==
  ASSUME PipelineInv, UNCHANGED <<storeVars, scheduler, worker>>,
         UNCHANGED <<channel, closed, cancelled, consumer, delivery>>,
         NEW pc \in {"undo", "failed"}, publisher[Scheduler].pc \in {"enqueue", "undo"},
         Queue!PublisherAt(Scheduler, pc, publisher[Scheduler].message),
         \/ pc = "undo" /\ seen' = seen
         \/ pc = "failed" /\ seen' = seen \ {publisher[Scheduler].message.job}
  PROVE  PipelineInv'
<1>1. /\ StoreInv /\ SchedulerInv /\ QueueInv /\ WorkersInv /\ AttemptsInv /\ SeenInv /\ TransitInv
      /\ StoreInv' /\ Created /\ (\A k \in Jobs : Advances(k))
      /\ \A k \in Jobs : job'[k].status = "processing" => job[k].status = "processing"
      /\ UNCHANGED <<monitor, job, active, processed>>
  BY ZenonT(30), QueueStep
<1>3. PICK j : j = scheduler.claim.job
  BY ZenonT(30)
<1>2. publisher[Scheduler].pc # "idle"
      /\ pc \in {"enqueue", "undo", "published", "failed"} /\ pc # "published"
  BY ZenonT(30)
<1>4. /\ SchedulerInv' /\ publisher'[Scheduler].pc = pc
      /\ publisher'[Scheduler].message = publisher[Scheduler].message
      /\ j \in Jobs /\ publisher[Scheduler].message = First(j)
  BY ZenonT(30), <1>1, <1>2, <1>3, SchedulerMoves
<1>5. \A k : First(k) = First(j) => k = j
  BY ZenonT(30) DEF First
<1>6. First(j).job = j
  BY ZenonT(30) DEF First
<1>7. QueueInv' /\ WorkersInv' /\ AttemptsInv'
  BY ZenonT(30), <1>1, QueueKept, WorkersKept
<1>8. \A k : Delivered(k) => Delivered(k)'
  BY ZenonT(30) DEF Delivered, First
<1>9. SeenInv'
  <2> SUFFICES ASSUME NEW k \in seen'
               PROVE  \/ publisher'[Scheduler].pc \in {"enqueue", "undo"}
                         /\ publisher'[Scheduler].message = First(k)
                      \/ Delivered(k)'
                      \/ \E w \in Workers : worker'[w].pc # "idle" /\ delivery'[w].message = First(k)
    BY ZenonT(30) DEF SeenInv, First
  <2>1. k \in seen /\ (k = j => pc = "undo")
    BY ZenonT(30), <1>4, <1>6
  <2>2. CASE publisher[Scheduler].message = First(k)
    BY ZenonT(30), <2>1, <2>2, <1>4, <1>5
  <2>3. CASE Delivered(k)
    BY ZenonT(30), <2>3, <1>8
  <2>4. CASE \E w \in Workers : worker[w].pc # "idle" /\ delivery[w].message = First(k)
    BY ZenonT(30), <2>4
  <2> QED
    BY ZenonT(30), <1>1, <2>1, <2>2, <2>3, <2>4 DEF SeenInv
<1>10. TransitInv'
  <2>1. \A k \in Jobs : job'[k].status = "queued" => Carried(k)'
    BY ZenonT(30), <1>1, CarriedKept DEF TransitInv
  <2> QED
    BY ZenonT(30), <1>2, <1>4, <2>1 DEF TransitInv
<1> QED
  BY ZenonT(30), <1>1, <1>4, <1>7, <1>9, <1>10 DEF PipelineInv

\* The second half of Publish.
LEMMA PublishContinuesStep ==
  ASSUME PipelineInv, PublishContinues
  PROVE  PipelineInv'
<1>1. UNCHANGED <<storeVars, scheduler, worker>>
  BY ZenonT(30) DEF PublishContinues
<1>2. CASE Queue!PublishEnqueue(Scheduler)
  <2>1. CASE /\ Queue!Enqueues(publisher[Scheduler].message)
             /\ Queue!PublisherAt(Scheduler, "published", publisher[Scheduler].message)
    BY ZenonT(30), <1>1, <1>2, <2>1, EnqueueStep
  <2>2. CASE Queue!EnqueueFails /\ Queue!PublisherAt(Scheduler, "undo", publisher[Scheduler].message)
    BY ZenonT(30), <1>1, <1>2, <2>2, UndoStep DEF Queue!PublishEnqueue, Queue!EnqueueFails
  <2> QED
    BY ZenonT(30), <1>2, <2>1, <2>2 DEF Queue!PublishEnqueue
<1>3. CASE Queue!PublishUndo(Scheduler)
  BY ZenonT(30), <1>1, <1>3, UndoStep DEF Queue!PublishUndo, Queue!Forgets
<1> QED
  BY ZenonT(30), <1>2, <1>3 DEF PublishContinues

\* The outcome of a publication is recorded: a job that becomes queued has its message.
LEMMA RecordPublicationStep ==
  ASSUME PipelineInv, RecordPublication
  PROVE  PipelineInv'
<1>1. StoreInv /\ SchedulerInv /\ QueueInv /\ WorkersInv /\ AttemptsInv /\ SeenInv /\ TransitInv /\ RowsInv
  BY ZenonT(30) DEF PipelineInv, StoreInv
<1>2. /\ publisher[Scheduler].pc \in {"published", "failed"}
      /\ Queue!PublisherAt(Scheduler, "idle", <<>>)
      /\ UNCHANGED <<channel, seen, closed, cancelled, consumer, delivery, worker>>
      /\ scheduler' = [scheduler EXCEPT !.claim = None]
      /\ publisher[Scheduler].pc = "published" => Store!MarkJobPublished(scheduler.claim)
      /\ publisher[Scheduler].pc # "published" => Store!ReleaseJobPublish(scheduler.claim)
  BY ZenonT(30) DEF RecordPublication, Queue!Returns
<1>3. PICK c : c = scheduler.claim
  BY ZenonT(30)
<1>4. c \in Claims /\ None \notin Claims
  BY ZenonT(30), <1>1, <1>2, <1>3, NoneIsNone DEF SchedulerInv
<1>5. /\ StoreInv'
      /\ \A k \in Jobs : \/ Kept(k)
                         \/ /\ k = c.job /\ Store!OwnsPublication(c) /\ publisher[Scheduler].pc = "published"
                            /\ job[k].status = "scheduled" /\ job'[k].status = "queued"
  <2>1. CASE publisher[Scheduler].pc = "published"
    BY ZenonT(30), <1>1, <1>2, <1>3, <1>4, <2>1, PublishedStep
  <2>2. CASE publisher[Scheduler].pc # "published"
    BY ZenonT(30), <1>1, <1>2, <1>3, <1>4, <2>2, ReleaseStep
  <2> QED
    BY ZenonT(30), <2>1, <2>2
<1>6. ASSUME NEW k \in Jobs
      PROVE  Advances(k) /\ (job'[k].status = "processing" => job[k].status = "processing")
  <2>1. CASE Kept(k)
    BY ZenonT(30), <1>1, <2>1, KeptMeans DEF Advances
  <2>2. CASE job[k].status = "scheduled" /\ job'[k].status = "queued"
    BY ZenonT(30), <2>2 DEF Advances, Ended
  <2> QED
    BY ZenonT(30), <1>5, <2>1, <2>2
<1>7. Created
  BY ZenonT(30), <1>6 DEF Created, Advances
<1>8. QueueInv' /\ WorkersInv' /\ AttemptsInv'
  BY ZenonT(30), <1>1, <1>2, <1>6, <1>7, QueueKept, WorkersKept
<1>9. /\ publisher'[Scheduler].pc = "idle"
      /\ publisher' \in [{Scheduler} -> [pc: {"idle", "enqueue", "undo", "published", "failed"},
                                         message: Messages \cup {None}]]
  <2>1. None \in Messages \cup {None} /\ Queue!PublisherAt(Scheduler, "idle", None)
    BY ZenonT(30), <1>2 DEF None
  <2> QED
    BY ZenonT(30), <1>1, <2>1, PublisherMoves
<1>10. scheduler'.claim = None /\ scheduler'.batch = scheduler.batch
       /\ scheduler' \in [batch: SUBSET Claims, claim: Claims \cup {None}]
  BY ZenonT(30), <1>1, <1>2 DEF SchedulerInv
<1>11. \A d \in scheduler.batch : job'[d.job].status # "none"
  BY ZenonT(30), <1>1, <1>7 DEF SchedulerInv, Claims, Created
<1>12. SchedulerInv'
  BY ZenonT(30), <1>1, <1>2, <1>4, <1>9, <1>10, <1>11 DEF SchedulerInv, Messages, None, Claims, First
<1>13. SeenInv'
  <2>1. \A j \in seen : Delivered(j) \/ \E w \in Workers : worker[w].pc # "idle" /\ delivery[w].message = First(j)
    BY ZenonT(30), <1>1, <1>2 DEF SeenInv
  <2> QED
    BY ZenonT(30), <1>2, <2>1 DEF SeenInv, Delivered, First
<1>14. ASSUME NEW k \in Jobs, job'[k].status = "queued" PROVE Carried(k)'
  <2>1. Carried(k)
    <3>1. CASE Kept(k)
      BY ZenonT(30), <1>1, <1>14, <3>1, KeptMeans DEF TransitInv
    <3>2. CASE k = c.job /\ Store!OwnsPublication(c) /\ publisher[Scheduler].pc = "published"
      BY ZenonT(30), <1>1, <1>3, <3>2 DEF TransitInv
    <3> QED
      BY ZenonT(30), <1>5, <3>1, <3>2
  <2> QED
    BY ZenonT(30), <1>2, <2>1, CarriedKept
<1>15. TransitInv'
  BY ZenonT(30), <1>9, <1>14 DEF TransitInv
<1> QED
  BY ZenonT(30), <1>5, <1>8, <1>12, <1>13, <1>15 DEF PipelineInv

-----------------------------------------------------------------------------
(* Steps of the consumer and the workers *)

\* The buffer after its first message is taken.
LEMMA TakenMessage ==
  ASSUME channel \in Seq(Messages), channel # <<>>, channel' = Tail(channel)
  PROVE  /\ channel' \in Seq(Messages) /\ Head(channel) \in Messages
         /\ \E k \in DOMAIN channel : Head(channel) = channel[k]
         /\ \A i \in DOMAIN channel' : \E k \in DOMAIN channel : channel'[i] = channel[k]
         /\ \A i \in DOMAIN channel : channel[i] = Head(channel)
                                      \/ \E k \in DOMAIN channel' : channel'[k] = channel[i]
<1>1. Len(channel) \in Nat \ {0} /\ DOMAIN channel = 1..Len(channel)
      /\ Head(channel) = channel[1] /\ \A i \in DOMAIN channel : channel[i] \in Messages
  OBVIOUS
<1>2. channel' \in Seq(Messages) /\ DOMAIN channel' = 1..(Len(channel) - 1)
  BY <1>1
<1>3. \A i \in DOMAIN channel' : channel'[i] = channel[i + 1]
  BY <1>1
<1>4. \A i \in DOMAIN channel' : \E k \in DOMAIN channel : channel'[i] = channel[k]
  BY <1>1, <1>2, <1>3
<1>5. ASSUME NEW i \in DOMAIN channel, channel[i] # Head(channel)
      PROVE  \E k \in DOMAIN channel' : channel'[k] = channel[i]
  <2>1. i - 1 \in DOMAIN channel' /\ (i - 1) + 1 = i
    BY <1>1, <1>2, <1>5
  <2> QED
    BY ZenonT(30), <2>1, <1>3
<1>6. 1 \in DOMAIN channel
  BY <1>1
<1> QED
  BY ZenonT(30), <1>1, <1>2, <1>4, <1>5, <1>6

\* The consumer goroutine takes a message.
LEMMA TakeStep ==
  ASSUME PipelineInv, Take
  PROVE  PipelineInv'
<1>0. UNCHANGED <<storeVars, scheduler, worker>>
  BY ZenonT(30) DEF Take
<1>1. /\ StoreInv /\ SchedulerInv /\ QueueInv /\ WorkersInv /\ AttemptsInv /\ SeenInv /\ TransitInv
      /\ StoreInv' /\ Created /\ (\A k \in Jobs : Advances(k))
      /\ \A k \in Jobs : job'[k].status = "processing" => job[k].status = "processing"
      /\ UNCHANGED <<monitor, job, active, processed>>
  BY ZenonT(30), <1>0, QueueStep
<1>2. /\ consumer.pc = "waiting" /\ channel # <<>>
      /\ consumer' = [pc |-> "holding", message |-> Head(channel)]
      /\ channel' = Tail(channel)
      /\ UNCHANGED <<seen, closed, cancelled, publisher, delivery, scheduler, worker>>
  BY ZenonT(30), <1>0 DEF Take, Queue!Take
<1>3. channel \in Seq(Messages) /\ \A i \in DOMAIN channel : job[channel[i].job].status # "none"
  BY ZenonT(30), <1>1 DEF QueueInv
<1>4. /\ channel' \in Seq(Messages) /\ Head(channel) \in Messages
      /\ \E k \in DOMAIN channel : Head(channel) = channel[k]
      /\ \A i \in DOMAIN channel' : \E k \in DOMAIN channel : channel'[i] = channel[k]
      /\ \A i \in DOMAIN channel : channel[i] = Head(channel)
                                   \/ \E k \in DOMAIN channel' : channel'[k] = channel[i]
  BY ZenonT(30), <1>2, <1>3, TakenMessage
<1>5. consumer'.pc = "holding" /\ consumer'.message = Head(channel)
      /\ consumer' \in [pc: {"waiting", "holding", "stopped"}, message: Messages \cup {None}]
  BY ZenonT(30), <1>2, <1>4
<1>6. QueueInv'
  <2>1. \A i \in DOMAIN channel' : job'[channel'[i].job].status # "none"
    <3> TAKE i \in DOMAIN channel'
    <3>1. PICK k \in DOMAIN channel : channel'[i] = channel[k]
      BY ZenonT(30), <1>4
    <3> QED
      BY ZenonT(30), <1>1, <1>3, <3>1
  <2>2. job'[consumer'.message.job].status # "none"
    BY ZenonT(30), <1>1, <1>3, <1>4, <1>5
  <2> QED
    BY ZenonT(30), <1>4, <1>5, <2>1, <2>2 DEF QueueInv, Messages, None
<1>7. \A k : Delivered(k) => Delivered(k)'
  <2> SUFFICES ASSUME NEW k, Delivered(k) PROVE Delivered(k)'
    BY ZenonT(30)
  <2>1. PICK i \in DOMAIN channel : channel[i] = First(k)
    BY ZenonT(30), <1>2 DEF Delivered
  <2>2. CASE channel[i] = Head(channel)
    BY ZenonT(30), <2>1, <2>2, <1>5 DEF Delivered, First
  <2>3. CASE \E n \in DOMAIN channel' : channel'[n] = channel[i]
    BY ZenonT(30), <2>1, <2>3 DEF Delivered, First
  <2> QED
    BY ZenonT(30), <2>2, <2>3, <1>4
<1>8. \A k : Carried(k) => Carried(k)'
  BY ZenonT(30), <1>2, <1>7 DEF Carried, First
<1>9. SchedulerInv' /\ WorkersInv' /\ AttemptsInv'
  BY ZenonT(30), <1>1, <1>2, SchedulerKept, WorkersKept
<1>10. SeenInv'
  BY ZenonT(30), <1>1, <1>2, <1>7 DEF SeenInv, First
<1>11. TransitInv'
  <2>1. Store!OwnsPublication(scheduler.claim)' => Store!OwnsPublication(scheduler.claim)
    BY ZenonT(30), <1>1, <1>2 DEF Store!OwnsPublication, Store!Exists
  <2>2. Carried(scheduler.claim.job) => Carried(scheduler.claim.job)'
    <3>1. PICK k : k = scheduler.claim.job
      BY ZenonT(30)
    <3>2. Carried(k)' => Carried(scheduler.claim.job)'
      BY ZenonT(30), <1>2, <3>1 DEF Carried, Delivered, First
    <3> QED
      BY ZenonT(30), <3>1, <3>2, <1>8
  <2> QED
    BY ZenonT(30), <1>1, <1>2, <1>8, <2>1, <2>2 DEF TransitInv
<1> QED
  BY ZenonT(30), <1>1, <1>6, <1>9, <1>10, <1>11 DEF PipelineInv

\* One worker moves.
LEMMA WorkerMoves ==
  ASSUME WorkersInv, AttemptsInv, \A j \in Jobs : Advances(j), NEW w \in Workers,
         worker' \in [Workers -> [pc: {"idle", "received", "looked_up", "leased", "failing", "ack", "nack"},
                                  lease: Leases \cup {None}]],
         delivery' \in [Workers -> [pc: {"none", "held", "forget"}, message: Messages \cup {None}]],
         \A v \in Workers : v # w => worker'[v] = worker[v] /\ delivery'[v] = delivery[v],
         InHand(w)', LookedInto(w)',
         \A j \in Jobs : job'[j].status = "processing" =>
           \/ worker'[w].pc = "leased" /\ delivery'[w].message.job = j
           \/ job[j].status = "processing" /\ (worker[w].pc = "leased" => delivery[w].message.job # j)
  PROVE  WorkersInv' /\ AttemptsInv'
<1>1. \A v \in Workers : InHand(v) /\ LookedInto(v)
  BY ZenonT(30) DEF WorkersInv, AttemptsInv
<1>2. ASSUME NEW v \in Workers PROVE InHand(v)' /\ LookedInto(v)'
  <2>1. CASE v = w
    BY ZenonT(30), <2>1
  <2>2. CASE v # w
    BY ZenonT(30), <2>2, <1>1, OtherWorker
  <2> QED
    BY ZenonT(30), <2>1, <2>2
<1>3. WorkersInv'
  BY ZenonT(30), <1>2 DEF WorkersInv, Messages, None, Leases
<1>4. ASSUME NEW j \in Jobs, job'[j].status = "processing"
      PROVE  \E v \in Workers : worker'[v].pc = "leased" /\ delivery'[v].message.job = j
  <2>1. CASE worker'[w].pc = "leased" /\ delivery'[w].message.job = j
    BY ZenonT(30), <2>1
  <2>2. CASE job[j].status = "processing" /\ (worker[w].pc = "leased" => delivery[w].message.job # j)
    <3>1. PICK v \in Workers : worker[v].pc = "leased" /\ delivery[v].message.job = j
      BY ZenonT(30), <2>2 DEF AttemptsInv
    <3>2. v # w
      BY ZenonT(30), <2>2, <3>1
    <3> QED
      BY ZenonT(30), <3>1, <3>2
  <2> QED
    BY ZenonT(30), <1>4, <2>1, <2>2
<1>5. AttemptsInv'
  BY ZenonT(30), <1>2, <1>4 DEF AttemptsInv
<1> QED
  BY ZenonT(30), <1>3, <1>5

\* The consumer hands its message to an idle worker.
LEMMA ReceiveStep ==
  ASSUME PipelineInv, NEW w \in Workers, Receive(w)
  PROVE  PipelineInv'
<1>0. UNCHANGED <<storeVars, scheduler>>
  BY ZenonT(30) DEF Receive
<1>1. /\ StoreInv /\ SchedulerInv /\ QueueInv /\ WorkersInv /\ AttemptsInv /\ SeenInv /\ TransitInv
      /\ StoreInv' /\ Created /\ (\A k \in Jobs : Advances(k))
      /\ \A k \in Jobs : job'[k].status = "processing" => job[k].status = "processing"
      /\ UNCHANGED <<monitor, job, active, processed>>
  BY ZenonT(30), <1>0, QueueStep
<1>2. /\ worker[w].pc = "idle" /\ consumer.pc = "holding"
      /\ delivery' = [delivery EXCEPT ![w] = [pc |-> "held", message |-> consumer.message]]
      /\ consumer' = [pc |-> "waiting", message |-> <<>>]
      /\ worker' = [worker EXCEPT ![w].pc = "received"]
      /\ UNCHANGED <<channel, seen, closed, cancelled, publisher, scheduler>>
  BY ZenonT(30), <1>0 DEF Receive, Queue!HandOver, Goto
<1>3. PICK m : m = consumer.message
  BY ZenonT(30)
<1>4. m \in Messages /\ m.job \in Jobs /\ job[m.job].status # "none"
  BY ZenonT(30), <1>1, <1>2, <1>3, FirstMessage DEF QueueInv
<1>5. /\ worker' \in [Workers -> [pc: {"idle", "received", "looked_up", "leased", "failing", "ack", "nack"},
                                  lease: Leases \cup {None}]]
      /\ worker'[w].pc = "received"
      /\ \A v \in Workers : v # w => worker'[v] = worker[v]
  BY ZenonT(30), <1>1, <1>2 DEF WorkersInv
<1>6. /\ delivery' \in [Workers -> [pc: {"none", "held", "forget"}, message: Messages \cup {None}]]
      /\ delivery'[w].pc = "held" /\ delivery'[w].message = m
      /\ \A v \in Workers : v # w => delivery'[v] = delivery[v]
  BY ZenonT(30), <1>1, <1>2, <1>3, <1>4 DEF WorkersInv
<1>7. InHand(w)' /\ LookedInto(w)'
  <2>1. job'[m.job].status # "none" /\ worker'[w].pc \notin {"idle", "leased", "failing", "ack", "nack"}
    BY ZenonT(30), <1>1, <1>4, <1>5
  <2>2. InHand(w)'
    BY ZenonT(30), <1>4, <1>6, <2>1 DEF InHand, Messages
  <2>3. LookedInto(w)'
    BY ZenonT(30), <2>1 DEF LookedInto
  <2> QED
    BY ZenonT(30), <2>2, <2>3
<1>8. worker[w].pc # "leased"
  BY ZenonT(30), <1>2
<1>9. WorkersInv' /\ AttemptsInv'
  BY ZenonT(30), <1>1, <1>5, <1>6, <1>7, <1>8, WorkerMoves
<1>10. QueueInv'
  <2>1. /\ consumer'.pc = "waiting"
        /\ consumer' \in [pc: {"waiting", "holding", "stopped"}, message: Messages \cup {None}]
    BY ZenonT(30), <1>2 DEF None
  <2>2. consumer'.pc # "holding"
    BY ZenonT(30), <2>1
  <2> QED
    BY ZenonT(30), <1>1, <1>2, <2>1, <2>2 DEF QueueInv, Messages, None
<1>11. SchedulerInv'
  BY ZenonT(30), <1>1, <1>2, SchedulerKept
<1>12. \A k : Delivered(k) => Delivered(k)' \/ delivery'[w].message = First(k)
  BY ZenonT(30), <1>2, <1>3, <1>6 DEF Delivered, First
<1>13. SeenInv'
  <2> SUFFICES ASSUME NEW k \in seen
               PROVE  \/ publisher'[Scheduler].pc \in {"enqueue", "undo"}
                         /\ publisher'[Scheduler].message = First(k)
                      \/ Delivered(k)'
                      \/ \E v \in Workers : worker'[v].pc # "idle" /\ delivery'[v].message = First(k)
    BY ZenonT(30), <1>2 DEF SeenInv, First
  <2>1. CASE Delivered(k)
    BY ZenonT(30), <2>1, <1>5, <1>12
  <2>2. CASE \E v \in Workers : worker[v].pc # "idle" /\ delivery[v].message = First(k)
    BY ZenonT(30), <2>2, <1>2, <1>5, <1>6
  <2> QED
    BY ZenonT(30), <1>1, <1>2, <2>1, <2>2 DEF SeenInv
<1>14. \A k : Carried(k) => Carried(k)'
  <2> SUFFICES ASSUME NEW k, Carried(k) PROVE Carried(k)'
    BY ZenonT(30)
  <2>1. CASE Delivered(k)
    BY ZenonT(30), <2>1, <1>5, <1>12 DEF Carried, First
  <2>2. CASE \E v \in Workers : worker[v].pc \in {"received", "looked_up"} /\ delivery[v].message = First(k)
    <3>1. PICK v \in Workers : worker[v].pc \in {"received", "looked_up"} /\ delivery[v].message = First(k)
      BY ZenonT(30), <2>2
    <3>2. v # w
      BY ZenonT(30), <1>2, <3>1
    <3> QED
      BY ZenonT(30), <3>1, <3>2, <1>5, <1>6 DEF Carried, First
  <2> QED
    BY ZenonT(30), <2>1, <2>2 DEF Carried
<1>15. TransitInv'
  <2>1. Store!OwnsPublication(scheduler.claim)' => Store!OwnsPublication(scheduler.claim)
    BY ZenonT(30), <1>1, <1>2 DEF Store!OwnsPublication, Store!Exists
  <2>2. Carried(scheduler.claim.job) => Carried(scheduler.claim.job)'
    <3>1. PICK k : k = scheduler.claim.job
      BY ZenonT(30)
    <3>2. Carried(k)' => Carried(scheduler.claim.job)'
      BY ZenonT(30), <1>2, <3>1 DEF Carried, Delivered, First
    <3> QED
      BY ZenonT(30), <3>1, <3>2, <1>14
  <2> QED
    BY ZenonT(30), <1>1, <1>2, <1>14, <2>1, <2>2 DEF TransitInv
<1> QED
  BY ZenonT(30), <1>1, <1>9, <1>10, <1>11, <1>13, <1>15 DEF PipelineInv

\* What a step of handleQueueDelivery leaves behind: worker w, which holds a delivery of
\* job j, goes to pc with that lease, and the rows of the jobs follow.
HandlerMoves(w, j, pc, lease) ==
  /\ worker' = [worker EXCEPT ![w] = [pc |-> pc, lease |-> lease]]
  /\ \A k \in Jobs : Advances(k) /\ (Kept(k) \/ job'[k].status = "processing")
  /\ pc \in {"leased", "failing"} => lease \in Leases /\ lease.job = j
  /\ pc \in {"leased", "ack", "nack"} => job'[j].status \in {"processing"} \cup Ended
  /\ pc = "failing" => job'[j].status \in Ended
  /\ pc = "leased" /\ job'[j].status = "processing" => Store!OwnsLease(lease)'
  /\ worker[w].pc = "leased" => job'[j].status \in Ended
  /\ \A k \in Jobs : job'[k].status = "processing" =>
       job[k].status = "processing" \/ (k = j /\ pc = "leased")

\* A worker moves on in handleQueueDelivery with the delivery it holds.
LEMMA HandlerStep ==
  ASSUME PipelineInv, StoreInv', UNCHANGED <<queueVars, scheduler>>,
         NEW w \in Workers, worker[w].pc # "idle", NEW j, j = delivery[w].message.job,
         NEW pc \in {"looked_up", "leased", "failing", "ack", "nack"}, NEW lease \in Leases \cup {None},
         HandlerMoves(w, j, pc, lease)
  PROVE  PipelineInv'
<1>0. /\ worker' = [worker EXCEPT ![w] = [pc |-> pc, lease |-> lease]]
      /\ \A k \in Jobs : Advances(k) /\ (Kept(k) \/ job'[k].status = "processing")
      /\ pc \in {"leased", "failing"} => lease \in Leases /\ lease.job = j
      /\ pc \in {"leased", "ack", "nack"} => job'[j].status \in {"processing"} \cup Ended
      /\ pc = "failing" => job'[j].status \in Ended
      /\ pc = "leased" /\ job'[j].status = "processing" => Store!OwnsLease(lease)'
      /\ worker[w].pc = "leased" => job'[j].status \in Ended
      /\ \A k \in Jobs : job'[k].status = "processing" =>
           job[k].status = "processing" \/ (k = j /\ pc = "leased")
  BY ZenonT(30) DEF HandlerMoves
<1>1. StoreInv /\ SchedulerInv /\ QueueInv /\ WorkersInv /\ AttemptsInv /\ SeenInv /\ TransitInv
  BY ZenonT(30) DEF PipelineInv
<1>2. UNCHANGED <<channel, seen, closed, cancelled, publisher, consumer, delivery, scheduler>>
  BY ZenonT(30) DEF queueVars
<1>3. Created
  BY ZenonT(30), <1>0 DEF Created, Advances
<1>4. delivery[w].pc = "held" /\ delivery[w].message \in Messages /\ job[j].status # "none"
  BY ZenonT(30), <1>1 DEF WorkersInv, InHand
<1>5. j \in Jobs /\ delivery[w].message = First(j)
  BY ZenonT(30), <1>4, FirstMessage
<1>6. /\ worker' \in [Workers -> [pc: {"idle", "received", "looked_up", "leased", "failing", "ack", "nack"},
                                  lease: Leases \cup {None}]]
      /\ worker'[w].pc = pc /\ worker'[w].lease = lease
      /\ \A v \in Workers : v # w => worker'[v] = worker[v]
  <2>1. pc \in {"idle", "received", "looked_up", "leased", "failing", "ack", "nack"}
    BY ZenonT(30)
  <2> QED
    BY ZenonT(30), <1>0, <1>1, <2>1 DEF WorkersInv
<1>7. InHand(w)'
  BY ZenonT(30), <1>0, <1>2, <1>3, <1>4, <1>5, <1>6 DEF InHand, Created, Messages, Leases
<1>8. LookedInto(w)'
  <2>1. delivery'[w].message.job = j
    BY ZenonT(30), <1>2
  <2>2. pc = "leased" /\ job'[j].status = "processing" => Store!OwnsLease(worker[w].lease)'
    BY ZenonT(30), <1>0, <1>6 DEF Store!OwnsLease
  <2> QED
    BY ZenonT(30), <1>0, <1>6, <2>1, <2>2 DEF LookedInto, Ended
<1>9. ASSUME NEW k \in Jobs, job'[k].status = "processing"
      PROVE  \/ worker'[w].pc = "leased" /\ delivery'[w].message.job = k
             \/ job[k].status = "processing" /\ (worker[w].pc = "leased" => delivery[w].message.job # k)
  <2>1. CASE k = j /\ pc = "leased"
    BY ZenonT(30), <1>2, <1>6, <2>1
  <2>2. CASE job[k].status = "processing"
    <3>1. worker[w].pc = "leased" => k # j
      BY ZenonT(30), <1>0, <1>9 DEF Ended
    <3> QED
      BY ZenonT(30), <2>2, <3>1
  <2> QED
    BY ZenonT(30), <1>0, <1>9, <2>1, <2>2
<1>10. \A v \in Workers : v # w => worker'[v] = worker[v] /\ delivery'[v] = delivery[v]
  BY ZenonT(30), <1>2, <1>6
<1>11. delivery' \in [Workers -> [pc: {"none", "held", "forget"}, message: Messages \cup {None}]]
  BY ZenonT(30), <1>1, <1>2 DEF WorkersInv
<1>12. WorkersInv' /\ AttemptsInv'
  BY ZenonT(30), <1>0, <1>1, <1>6, <1>7, <1>8, <1>9, <1>10, <1>11, WorkerMoves
<1>13. QueueInv' /\ SchedulerInv'
  BY ZenonT(30), <1>1, <1>2, <1>3, QueueKept, SchedulerKept
<1>14. pc # "idle" /\ \A v \in Workers : worker[v].pc # "idle" => worker'[v].pc # "idle"
  BY ZenonT(30), <1>6
<1>15. SeenInv'
  BY ZenonT(30), <1>1, <1>2, <1>14 DEF SeenInv, Delivered, First
<1>16. ASSUME NEW k \in Jobs, NEW v \in Workers, worker[v].pc \in {"received", "looked_up"},
              delivery[v].message = First(k), job'[k].status \in {"scheduled", "queued"}
       PROVE  worker'[v].pc \in {"received", "looked_up"} /\ delivery'[v].message = First(k)
  <2>1. CASE v # w
    BY ZenonT(30), <1>2, <1>6, <1>16, <2>1
  <2>2. CASE v = w
    <3>1. k = j
      BY ZenonT(30), <1>5, <1>16, <2>2, FirstMessage
    <3>2. pc = "looked_up"
      BY ZenonT(30), <1>0, <1>16, <3>1 DEF Ended
    <3> QED
      BY ZenonT(30), <1>2, <1>6, <1>16, <2>2, <3>2
  <2> QED
    BY ZenonT(30), <2>1, <2>2
<1>17. TransitInv'
  BY ZenonT(30), <1>0, <1>1, <1>2, <1>16, TransitKept
<1> QED
  BY ZenonT(30), <1>12, <1>13, <1>15, <1>17 DEF PipelineInv

\* What a busy worker holds.
LEMMA BusyWorker ==
  ASSUME PipelineInv, NEW w \in Workers, worker[w].pc # "idle"
  PROVE  /\ StoreInv /\ RowsInv
         /\ delivery[w].message \in Messages
         /\ delivery[w].message.job \in Jobs /\ delivery[w].message.attempt = 1
         /\ job[delivery[w].message.job].status # "none"
         /\ worker[w].lease \in Leases \cup {None}
         /\ worker[w].pc \in {"leased", "failing"} =>
              worker[w].lease \in Leases /\ worker[w].lease.job = delivery[w].message.job
         /\ LookedInto(w)
         /\ \A pc : worker' = [worker EXCEPT ![w].pc = pc] =>
                      worker' = [worker EXCEPT ![w] = [pc |-> pc, lease |-> worker[w].lease]]
<1>1. StoreInv /\ RowsInv /\ WorkersInv /\ AttemptsInv
  BY ZenonT(30) DEF PipelineInv, StoreInv
<1>2. InHand(w) /\ LookedInto(w)
  BY ZenonT(30), <1>1 DEF WorkersInv, AttemptsInv
<1>3. delivery[w].message \in Messages /\ job[delivery[w].message.job].status # "none"
  BY ZenonT(30), <1>2 DEF InHand
<1>4. worker \in [Workers -> [pc: {"idle", "received", "looked_up", "leased", "failing", "ack", "nack"},
                              lease: Leases \cup {None}]]
  BY ZenonT(30), <1>1 DEF WorkersInv
<1>5. worker[w].lease \in Leases \cup {None}
      /\ \A pc : [worker[w] EXCEPT !.pc = pc] = [pc |-> pc, lease |-> worker[w].lease]
  BY <1>4
<1>6. \A pc : worker' = [worker EXCEPT ![w].pc = pc] =>
                worker' = [worker EXCEPT ![w] = [pc |-> pc, lease |-> worker[w].lease]]
  BY ZenonT(30), <1>4, <1>5
<1>7. worker[w].pc \in {"leased", "failing"} =>
              worker[w].lease \in Leases /\ worker[w].lease.job = delivery[w].message.job
  BY ZenonT(30), <1>2 DEF InHand
<1> QED
  BY ZenonT(30), <1>1, <1>2, <1>3, <1>5, <1>6, <1>7, FirstMessage

\* A job whose monitor is gone is over, so its delivery may be acknowledged.
LEMMA GetMonitorStep ==
  ASSUME PipelineInv, NEW w \in Workers, GetMonitor(w)
  PROVE  PipelineInv'
<1>1. worker[w].pc = "received" /\ worker[w].pc # "idle" /\ UNCHANGED <<storeVars, queueVars, scheduler>>
  BY ZenonT(30) DEF GetMonitor
<1>2. PICK j : j = delivery[w].message.job
  BY ZenonT(30)
<1>3. PICK lease : lease = worker[w].lease
  BY ZenonT(30)
<1>4. /\ StoreInv /\ RowsInv /\ j \in Jobs /\ job[j].status # "none" /\ lease \in Leases \cup {None}
      /\ \A pc : worker' = [worker EXCEPT ![w].pc = pc] =>
                   worker' = [worker EXCEPT ![w] = [pc |-> pc, lease |-> lease]]
  BY ZenonT(30), <1>1, <1>2, <1>3, BusyWorker
<1>5. /\ StoreInv' /\ (\A k \in Jobs : Advances(k)) /\ (\A k \in Jobs : Kept(k))
      /\ \A k \in Jobs : job'[k].status = "processing" => job[k].status = "processing"
      /\ job' = job
  BY ZenonT(30), <1>1, QueueStep
<1>6. PICK pc \in {"looked_up", "ack"} :
        /\ pc = IF Store!Exists(MonitorOf[j]) THEN "looked_up" ELSE "ack"
        /\ worker' = [worker EXCEPT ![w].pc = pc]
  BY ZenonT(30), <1>2 DEF GetMonitor, Goto
<1>7. worker' = [worker EXCEPT ![w] = [pc |-> pc, lease |-> lease]]
  BY ZenonT(30), <1>4, <1>6
<1>8. pc = "ack" => job'[j].status \in {"processing"} \cup Ended
  <2> SUFFICES ASSUME pc = "ack" PROVE job[j].status \in {"processing"} \cup Ended
    BY ZenonT(30), <1>5
  <2>1. ~Store!Exists(MonitorOf[j])
    BY ZenonT(30), <1>6
  <2>2. job[j].status \notin Store!Active
    BY ZenonT(30), <1>4, <2>1 DEF StoreInv, IndexInv, Store!ActiveIndexExact
  <2>3. job[j].status \in {"none", "scheduled", "queued", "processing", "failed"} \cup Ended
    BY ZenonT(30), <1>4, Statuses DEF RowsInv
  <2> QED
    BY ZenonT(30), <1>4, <2>2, <2>3 DEF Store!Active
<1>9. /\ pc \in {"looked_up", "leased", "failing", "ack", "nack"}
      /\ pc \notin {"leased", "failing", "nack"} /\ worker[w].pc # "leased"
  BY ZenonT(30), <1>1
<1>10. HandlerMoves(w, j, pc, lease)
  BY ZenonT(30), <1>5, <1>7, <1>8, <1>9 DEF HandlerMoves
<1> QED
  BY ZenonT(30), <1>1, <1>2, <1>4, <1>5, <1>9, <1>10, HandlerStep

\* A waiting job always gets its lease; what is refused is running or over.
LEMMA MarkJobProcessingStep ==
  ASSUME PipelineInv, NEW w \in Workers, MarkJobProcessing(w)
  PROVE  PipelineInv'
<1>1. worker[w].pc = "looked_up" /\ worker[w].pc # "idle" /\ UNCHANGED <<queueVars, scheduler>>
  BY ZenonT(30) DEF MarkJobProcessing
<1>2. PICK j : j = delivery[w].message.job
  BY ZenonT(30)
<1>3. /\ StoreInv /\ RowsInv /\ j \in Jobs /\ delivery[w].message.attempt = 1 /\ job[j].status # "none"
  BY ZenonT(30), <1>1, <1>2, BusyWorker
<1>4. PICK token \in NewTokens :
        /\ Store!MarkJobProcessing(j, 1, token)
        /\ worker' = [worker EXCEPT ![w] =
             IF Store!MayProcess(j, 1)
             THEN [pc |-> "leased", lease |-> [job |-> j, attempt |-> 1, token |-> token]]
             ELSE [pc |-> "ack", lease |-> None]]
  BY ZenonT(30), <1>2, <1>3 DEF MarkJobProcessing
<1>5. token \in Tokens
  BY ZenonT(30) DEF NewTokens
<1>6. /\ StoreInv'
      /\ \A k \in Jobs \ {j} : job'[k] = job[k]
      /\ ~Store!MayProcess(j, 1) => job' = job
      /\ Store!MayProcess(j, 1) =>
           /\ job[j].status \in {"scheduled", "queued"} /\ job'[j].status = "processing"
           /\ job'[j].lease = "live" /\ job'[j].attempt = 1 /\ job'[j].leaseToken = token
  BY ZenonT(30), <1>3, <1>4, <1>5, ProcessingStep
<1>7. CASE Store!MayProcess(j, 1)
  <2>6. PICK l : l = [job |-> j, attempt |-> 1, token |-> token]
    BY ZenonT(30)
  <2>1. l \in Leases /\ l.job = j /\ l.attempt = 1 /\ l.token = token
    BY ZenonT(30), <1>3, <1>5, <2>6 DEF Leases
  <2>0. PICK pc : pc = "leased"
    BY ZenonT(30)
  <2>2. worker' = [worker EXCEPT ![w] = [pc |-> pc, lease |-> l]]
    BY ZenonT(30), <1>4, <1>7, <2>0, <2>6
  <2>3. Store!OwnsLease(l)'
    BY ZenonT(30), <1>6, <1>7, <2>1 DEF Store!OwnsLease
  <2>4. ASSUME NEW k \in Jobs
        PROVE  /\ Advances(k) /\ (Kept(k) \/ job'[k].status = "processing")
               /\ job'[k].status = "processing" => job[k].status = "processing" \/ k = j
    <3>1. CASE k = j
      BY ZenonT(30), <1>6, <1>7, <3>1 DEF Advances, Ended
    <3>2. CASE k # j
      BY ZenonT(30), <1>6, <3>2 DEF Advances, Kept
    <3> QED
      BY ZenonT(30), <3>1, <3>2
  <2>5. /\ pc \in {"looked_up", "leased", "failing", "ack", "nack"} /\ l \in Leases \cup {None}
        /\ pc # "failing" /\ job'[j].status \in {"processing"} \cup Ended /\ worker[w].pc # "leased"
    BY ZenonT(30), <1>1, <1>6, <1>7, <2>0, <2>1
  <2>7. /\ pc \in {"leased", "failing"} => l \in Leases /\ l.job = j
        /\ pc \in {"leased", "ack", "nack"} => job'[j].status \in {"processing"} \cup Ended
        /\ pc = "failing" => job'[j].status \in Ended
        /\ pc = "leased" /\ job'[j].status = "processing" => Store!OwnsLease(l)'
        /\ worker[w].pc = "leased" => job'[j].status \in Ended
    BY ZenonT(30), <2>1, <2>3, <2>5
  <2>8. /\ \A k \in Jobs : Advances(k) /\ (Kept(k) \/ job'[k].status = "processing")
        /\ \A k \in Jobs : job'[k].status = "processing" =>
             job[k].status = "processing" \/ (k = j /\ pc = "leased")
    BY ZenonT(30), <2>0, <2>4
  <2>9. /\ StoreInv' /\ UNCHANGED <<queueVars, scheduler>> /\ worker[w].pc # "idle"
        /\ j = delivery[w].message.job /\ l \in Leases \cup {None}
        /\ pc \in {"looked_up", "leased", "failing", "ack", "nack"}
    BY ZenonT(30), <1>1, <1>2, <1>6, <2>5
  <2>10. HandlerMoves(w, j, pc, l)
    BY ZenonT(30), <2>2, <2>7, <2>8 DEF HandlerMoves
  <2> QED
    BY ZenonT(30), <2>9, <2>10, HandlerStep
<1>8. CASE ~Store!MayProcess(j, 1)
  <2>1. worker' = [worker EXCEPT ![w] = [pc |-> "ack", lease |-> None]] /\ job' = job
    BY ZenonT(30), <1>4, <1>6, <1>8
  <2>2. \A k \in Jobs : Advances(k) /\ Kept(k)
    BY ZenonT(30), <2>1 DEF Advances, Kept
  <2>3. job[j].status \in {"none", "scheduled", "queued", "processing", "failed"} \cup Ended
        /\ job[j].status # "failed"
    BY ZenonT(30), <1>3, Statuses DEF RowsInv
  <2>4. job[j].status \notin {"scheduled", "queued"}
    <3>1. SUFFICES ASSUME job[j].status \in {"scheduled", "queued"} PROVE FALSE
      BY ZenonT(30)
    <3>2. Store!IsActive(j)
      BY ZenonT(30), <1>3, <3>1 DEF StoreInv, IndexInv, Store!ActiveIndexExact, Store!Active, Store!IsActive
    <3>3. job[j].attempt = 0
      BY ZenonT(30), <1>3, <3>1 DEF RowsInv
    <3> QED
      BY <1>8, <3>1, <3>2, <3>3 DEF Store!MayProcess
  <2>5. job'[j].status \in {"processing"} \cup Ended
    BY ZenonT(30), <1>3, <2>1, <2>3, <2>4
  <2>6. /\ "ack" \in {"looked_up", "leased", "failing", "ack", "nack"} /\ None \in Leases \cup {None}
        /\ "ack" \notin {"leased", "failing"} /\ worker[w].pc # "leased"
        /\ \A k \in Jobs : job'[k].status = "processing" => job[k].status = "processing"
    BY ZenonT(30), <1>1, <2>1
  <2>7. HandlerMoves(w, j, "ack", None)
    BY ZenonT(30), <2>1, <2>2, <2>5, <2>6 DEF HandlerMoves
  <2> QED
    BY ZenonT(30), <1>1, <1>2, <1>6, <2>6, <2>7, HandlerStep
<1> QED
  BY ZenonT(30), <1>7, <1>8

\* The lease of a running job is good until its result is stored, and a result that is
\* not stored has come too late.
LEMMA StoreCheckResultStep ==
  ASSUME PipelineInv, NEW w \in Workers, NEW success \in BOOLEAN, StoreCheckResult(w, success)
  PROVE  PipelineInv'
<1>1. worker[w].pc = "leased" /\ worker[w].pc # "idle" /\ UNCHANGED <<queueVars, scheduler>>
  BY ZenonT(30) DEF StoreCheckResult
<1>2. PICK j : j = delivery[w].message.job
  BY ZenonT(30)
<1>3. PICK l : l = worker[w].lease
  BY ZenonT(30)
<1>4. /\ StoreInv /\ RowsInv /\ j \in Jobs
      /\ l \in Leases /\ l.job = j /\ LookedInto(w)
      /\ \A pc : worker' = [worker EXCEPT ![w].pc = pc] =>
                   worker' = [worker EXCEPT ![w] = [pc |-> pc, lease |-> l]]
  BY ZenonT(30), <1>1, <1>2, <1>3, BusyWorker
<1>5. PICK pc \in {"ack", "failing"} :
        /\ Store!AddCheck(l, success)
        /\ pc = IF Store!Stores(l) \/ job[l.job].status = "completed" THEN "ack" ELSE "failing"
        /\ worker' = [worker EXCEPT ![w].pc = pc]
  BY ZenonT(30), <1>3 DEF StoreCheckResult, Goto
<1>6. /\ StoreInv'
      /\ \A k \in Jobs : Kept(k)
      /\ Store!Stores(l) => job'[j].status \in Ended
      /\ ~Store!Stores(l) => job' = job
  BY ZenonT(30), <1>4, <1>5, AddCheckStep
<1>7. job'[j].status \in Ended
  <2>1. CASE Store!Stores(l)
    BY ZenonT(30), <1>6, <2>1
  <2>2. CASE ~Store!Stores(l)
    <3>1. job[j].status # "processing"
      <4>1. SUFFICES ASSUME job[j].status = "processing" PROVE FALSE
        BY ZenonT(30)
      <4>2. Store!OwnsLease(l)
        BY ZenonT(30), <1>1, <1>2, <1>3, <1>4, <4>1 DEF LookedInto
      <4>3. Store!Exists(MonitorOf[j])
        BY ZenonT(30), <1>4, <4>1 DEF StoreInv, IndexInv, Store!ActiveIndexExact, Store!Active
      <4>4. j \notin processed
        BY ZenonT(30), <1>4, <4>1 DEF RowsInv, Ended
      <4> QED
        BY ZenonT(30), <1>4, <2>2, <4>2, <4>3, <4>4 DEF Store!Stores
    <3>2. job[j].status \in {"processing"} \cup Ended
      BY ZenonT(30), <1>1, <1>2, <1>4 DEF LookedInto
    <3> QED
      BY ZenonT(30), <1>6, <2>2, <3>1, <3>2
  <2> QED
    BY ZenonT(30), <2>1, <2>2
<1>8. worker' = [worker EXCEPT ![w] = [pc |-> pc, lease |-> l]]
  BY ZenonT(30), <1>4, <1>5
<1>9. \A k \in Jobs : Advances(k) /\ (job'[k].status = "processing" => job[k].status = "processing")
  BY ZenonT(30), <1>4, <1>6, KeptMeans DEF Advances
<1>10. /\ pc \in {"looked_up", "leased", "failing", "ack", "nack"} /\ pc # "leased"
       /\ l \in Leases \cup {None}
  BY ZenonT(30), <1>4
<1>11. job'[j].status \in {"processing"} \cup Ended
  BY ZenonT(30), <1>7
<1>12. HandlerMoves(w, j, pc, l)
  BY ZenonT(30), <1>4, <1>6, <1>7, <1>8, <1>9, <1>10, <1>11 DEF HandlerMoves
<1> QED
  BY ZenonT(30), <1>1, <1>2, <1>6, <1>10, <1>12, HandlerStep

\* There is nothing left to persist: the job is over.
LEMMA PersistFailureStep ==
  ASSUME PipelineInv, NEW w \in Workers, PersistFailure(w)
  PROVE  PipelineInv'
<1>1. worker[w].pc = "failing" /\ worker[w].pc # "idle" /\ UNCHANGED <<queueVars, scheduler>>
  BY ZenonT(30) DEF PersistFailure
<1>2. PICK j : j = delivery[w].message.job
  BY ZenonT(30)
<1>3. PICK l : l = worker[w].lease
  BY ZenonT(30)
<1>4. /\ StoreInv /\ RowsInv /\ j \in Jobs
      /\ l \in Leases /\ l.job = j /\ LookedInto(w)
      /\ \A pc : worker' = [worker EXCEPT ![w].pc = pc] =>
                   worker' = [worker EXCEPT ![w] = [pc |-> pc, lease |-> l]]
  BY ZenonT(30), <1>1, <1>2, <1>3, BusyWorker
<1>5. job[j].status \in Ended
  BY ZenonT(30), <1>1, <1>2, <1>4 DEF LookedInto
<1>6. ~Store!OwnsLease(l)
  BY ZenonT(30), <1>4, <1>5 DEF Ended, Store!OwnsLease
<1>7. /\ Store!MarkJobFailed(l) \/ Store!MarkJobDead(l)
      /\ worker' = [worker EXCEPT ![w].pc = "ack"]
  BY ZenonT(30), <1>3, <1>6 DEF PersistFailure, Goto
<1>8. UNCHANGED <<monitor, job, active, processed>>
  <2>1. CASE Store!MarkJobFailed(l)
    BY ZenonT(30), <1>6, <2>1 DEF Store!MarkJobFailed, Store!PutJob, Store!resultVars
  <2>2. CASE Store!MarkJobDead(l)
    BY ZenonT(30), <1>6, <2>2 DEF Store!MarkJobDead, Store!jobVars, Store!resultVars
  <2> QED
    BY ZenonT(30), <1>7, <2>1, <2>2
<1>9. StoreInv' /\ \A k \in Jobs : Kept(k)
  BY ZenonT(30), <1>4, <1>8, SameStore
<1>10. \A k \in Jobs : Advances(k) /\ (job'[k].status = "processing" => job[k].status = "processing")
  BY ZenonT(30), <1>8 DEF Advances
<1>11. worker' = [worker EXCEPT ![w] = [pc |-> "ack", lease |-> l]] /\ job'[j].status \in Ended
  BY ZenonT(30), <1>4, <1>5, <1>7, <1>8
<1>12. /\ "ack" \in {"looked_up", "leased", "failing", "ack", "nack"} /\ "ack" \notin {"leased", "failing"}
       /\ l \in Leases \cup {None} /\ worker[w].pc # "leased"
       /\ job'[j].status \in {"processing"} \cup Ended
  BY ZenonT(30), <1>1, <1>4, <1>11
<1>13. HandlerMoves(w, j, "ack", l)
  BY ZenonT(30), <1>9, <1>10, <1>11, <1>12 DEF HandlerMoves
<1> QED
  BY ZenonT(30), <1>1, <1>2, <1>9, <1>12, <1>13, HandlerStep

\* A delivery that is settled has been looked into, so its message is no longer needed.
LEMMA SettleDeliveryStep ==
  ASSUME PipelineInv, NEW w \in Workers, SettleDelivery(w)
  PROVE  PipelineInv'
<1>0. UNCHANGED <<storeVars, scheduler>>
  BY ZenonT(30) DEF SettleDelivery
<1>1. /\ StoreInv /\ SchedulerInv /\ QueueInv /\ WorkersInv /\ AttemptsInv /\ SeenInv /\ TransitInv
      /\ StoreInv' /\ Created /\ (\A k \in Jobs : Advances(k)) /\ (\A k \in Jobs : Kept(k))
      /\ \A k \in Jobs : job'[k].status = "processing" => job[k].status = "processing"
      /\ UNCHANGED <<monitor, job, active, processed>>
  BY ZenonT(30), <1>0, QueueStep
<1>2. /\ worker[w].pc \in {"ack", "nack"} /\ (Queue!Ack(w) \/ Queue!NackDead(w))
      /\ worker' = [worker EXCEPT ![w] = [pc |-> "idle", lease |-> None]]
  BY ZenonT(30) DEF SettleDelivery
<1>3. /\ seen' = seen \ {delivery[w].message.job}
      /\ delivery' = [delivery EXCEPT ![w] = [pc |-> "none", message |-> <<>>]]
      /\ UNCHANGED <<channel, closed, cancelled, publisher, consumer>>
  <2>1. CASE Queue!Ack(w)
    BY ZenonT(30), <2>1 DEF Queue!Ack, Queue!Forgets, Queue!Settled
  <2>2. CASE Queue!NackDead(w)
    BY ZenonT(30), <2>2 DEF Queue!NackDead, Queue!Forgets, Queue!Settled
  <2> QED
    BY ZenonT(30), <1>2, <2>1, <2>2
<1>4. worker[w].pc \notin {"idle", "leased", "received", "looked_up"}
  BY ZenonT(30), <1>2
<1>5. /\ worker' \in [Workers -> [pc: {"idle", "received", "looked_up", "leased", "failing", "ack", "nack"},
                                  lease: Leases \cup {None}]]
      /\ worker'[w].pc = "idle"
      /\ \A v \in Workers : v # w => worker'[v] = worker[v]
  BY ZenonT(30), <1>1, <1>2 DEF WorkersInv
<1>6. /\ delivery' \in [Workers -> [pc: {"none", "held", "forget"}, message: Messages \cup {None}]]
      /\ \A v \in Workers : v # w => delivery'[v] = delivery[v]
  BY ZenonT(30), <1>1, <1>3 DEF WorkersInv, None
<1>7. InHand(w)' /\ LookedInto(w)'
  BY ZenonT(30), <1>5 DEF InHand, LookedInto
<1>8. WorkersInv' /\ AttemptsInv'
  BY ZenonT(30), <1>1, <1>4, <1>5, <1>6, <1>7, WorkerMoves
<1>9. QueueInv' /\ SchedulerInv'
  BY ZenonT(30), <1>0, <1>1, <1>3, QueueKept, SchedulerKept
<1>10. \A k : First(k).job = k
  BY ZenonT(30) DEF First
<1>11. SeenInv'
  <2> SUFFICES ASSUME NEW k \in seen'
               PROVE  \/ publisher'[Scheduler].pc \in {"enqueue", "undo"}
                         /\ publisher'[Scheduler].message = First(k)
                      \/ Delivered(k)'
                      \/ \E v \in Workers : worker'[v].pc # "idle" /\ delivery'[v].message = First(k)
    BY ZenonT(30) DEF SeenInv, First
  <2>1. k \in seen /\ k # delivery[w].message.job
    BY ZenonT(30), <1>3
  <2>2. delivery[w].message # First(k)
    BY ZenonT(30), <1>10, <2>1
  <2>3. CASE Delivered(k)
    BY ZenonT(30), <1>3, <2>3 DEF Delivered, First
  <2>4. CASE \E v \in Workers : worker[v].pc # "idle" /\ delivery[v].message = First(k)
    BY ZenonT(30), <1>5, <1>6, <2>2, <2>4
  <2> QED
    BY ZenonT(30), <1>1, <1>3, <2>1, <2>3, <2>4 DEF SeenInv
<1>12. \A k \in Jobs, v \in Workers :
         worker[v].pc \in {"received", "looked_up"} /\ delivery[v].message = First(k) =>
         worker'[v].pc \in {"received", "looked_up"} /\ delivery'[v].message = First(k)
  <2> TAKE k \in Jobs, v \in Workers
  <2>1. worker[v].pc \in {"received", "looked_up"} => v # w
    BY ZenonT(30), <1>4
  <2> QED
    BY ZenonT(30), <1>5, <1>6, <2>1
<1>13. scheduler'.claim = scheduler.claim
  BY ZenonT(30), <1>0
<1>14. TransitInv'
  BY ZenonT(30), <1>1, <1>3, <1>12, <1>13, TransitKept
<1> QED
  BY ZenonT(30), <1>1, <1>8, <1>9, <1>11, <1>14 DEF PipelineInv

-----------------------------------------------------------------------------
(* The theorem *)

\* An empty store and an empty queue satisfy the invariant.
LEMMA PipelineInit ==
  ASSUME Init
  PROVE  PipelineInv
<1>1. /\ monitor = [m \in Monitors |-> [status |-> "none", url |-> CHOOSE u \in URLs : TRUE,
                                        due |-> FALSE, checked |-> FALSE]]
      /\ job = [j \in Jobs |-> Store!Unused]
      /\ active = [m \in Monitors |-> NoJob]
      /\ processed = {}
  BY ZenonT(30) DEF Init, Store!Init
<1>2. /\ channel = <<>> /\ seen = {} /\ closed = FALSE /\ cancelled = FALSE
      /\ publisher = [p \in Publishers |-> [pc |-> "idle", message |-> <<>>]]
      /\ consumer = [pc |-> "waiting", message |-> <<>>]
      /\ delivery = [w \in Workers |-> [pc |-> "none", message |-> <<>>]]
      /\ scheduler = [batch |-> {}, claim |-> None]
      /\ worker = [w \in Workers |-> [pc |-> "idle", lease |-> None]]
  BY ZenonT(30) DEF Init, Queue!Init
<1>3. Store!Unused \in Store!JobRow /\ Store!Unused.status = "none" /\ Store!Unused.lease = "none"
      /\ Store!Unused.attempt = 0
  BY PipelineAssumption DEF Store!Unused, Store!JobRow
<1>4. job \in [Jobs -> Store!JobRow] /\ \A j \in Jobs : job[j] = Store!Unused
  BY ZenonT(30), <1>1, <1>3
<1>5. \A j \in Jobs : job[j].status = "none" /\ job[j].lease = "none" /\ job[j].attempt = 0
  BY ZenonT(30), <1>3, <1>4
<1>6. RowsInv
  BY ZenonT(30), <1>1, <1>4, <1>5 DEF RowsInv
<1>7. monitor \in [Monitors -> Store!MonitorRow] /\ active \in [Monitors -> Jobs \cup {NoJob}]
      /\ \A m \in Monitors : active[m] = NoJob
  <2>1. (CHOOSE u \in URLs : TRUE) \in URLs
    BY ZenonT(30), PipelineAssumption
  <2> QED
    BY ZenonT(30), <1>1, <2>1 DEF Store!MonitorRow
<1>8. Store!ActiveIndexExact
  <2>1. \A j \in Jobs : MonitorOf[j] \in Monitors /\ j # NoJob
    BY ZenonT(30), PipelineAssumption
  <2>2. \A j \in Jobs : job[j].status \notin Store!Active
    BY ZenonT(30), <1>5 DEF Store!Active
  <2> QED
    BY ZenonT(30), <1>7, <2>1, <2>2 DEF Store!ActiveIndexExact
<1>9. StoreInv
  BY ZenonT(30), <1>6, <1>7, <1>8 DEF StoreInv, IndexInv
<1>10. SchedulerInv
  <2>1. scheduler \in [batch: SUBSET Claims, claim: Claims \cup {None}]
        /\ scheduler.batch = {} /\ scheduler.claim = None
    BY ZenonT(30), <1>2
  <2>2. publisher \in [{Scheduler} -> [pc: {"idle", "enqueue", "undo", "published", "failed"},
                                       message: Messages \cup {None}]]
        /\ publisher[Scheduler].pc = "idle"
    BY ZenonT(30), <1>2 DEF Publishers, None
  <2> QED
    BY ZenonT(30), <1>2, <2>1, <2>2, NoneIsNone DEF SchedulerInv
<1>11. QueueInv
  BY <1>2 DEF QueueInv, None
<1>12. \A w \in Workers : worker[w].pc = "idle"
  BY ZenonT(30), <1>2
<1>13. WorkersInv
  <2>1. worker \in [Workers -> [pc: {"idle", "received", "looked_up", "leased", "failing", "ack", "nack"},
                                lease: Leases \cup {None}]]
    BY ZenonT(30), <1>2
  <2>2. delivery \in [Workers -> [pc: {"none", "held", "forget"}, message: Messages \cup {None}]]
    BY ZenonT(30), <1>2 DEF None
  <2>3. \A w \in Workers : InHand(w)
    BY ZenonT(30), <1>12 DEF InHand
  <2> QED
    BY ZenonT(30), <2>1, <2>2, <2>3 DEF WorkersInv
<1>14. AttemptsInv
  <2>1. \A w \in Workers : LookedInto(w)
    BY ZenonT(30), <1>12 DEF LookedInto
  <2>2. \A j \in Jobs : job[j].status # "processing"
    BY ZenonT(30), <1>5
  <2> QED
    BY ZenonT(30), <2>1, <2>2 DEF AttemptsInv
<1>15. SeenInv
  BY ZenonT(30), <1>2 DEF SeenInv
<1>16. TransitInv
  <2>1. publisher[Scheduler].pc # "published" /\ \A j \in Jobs : job[j].status # "queued"
    BY ZenonT(30), <1>2, <1>5 DEF Publishers
  <2> QED
    BY ZenonT(30), <2>1 DEF TransitInv
<1> QED
  BY ZenonT(30), <1>9, <1>10, <1>11, <1>13, <1>14, <1>15, <1>16 DEF PipelineInv

\* Every step up to the first fault keeps the invariant.
LEMMA PipelineStep ==
  ASSUME PipelineInv, faults = 0, faults' = 0, Next
  PROVE  PipelineInv'
<1>1. CASE Claim
  BY ZenonT(30), <1>1, ClaimStep
<1>2. CASE \E c \in scheduler.batch : Publish(c)
  BY ZenonT(30), <1>2, PublishStep
<1>3. CASE PublishContinues
  BY ZenonT(30), <1>3, PublishContinuesStep
<1>4. CASE RecordPublication
  BY ZenonT(30), <1>4, RecordPublicationStep
<1>5. CASE Take
  BY ZenonT(30), <1>5, TakeStep
<1>6. ASSUME NEW w \in Workers, Receive(w) \/ WorkerStep(w) PROVE PipelineInv'
  <2>1. CASE Receive(w)
    BY ZenonT(30), <2>1, ReceiveStep
  <2>2. CASE GetMonitor(w)
    BY ZenonT(30), <2>2, GetMonitorStep
  <2>3. CASE MarkJobProcessing(w)
    BY ZenonT(30), <2>3, MarkJobProcessingStep
  <2>4. CASE \E success \in BOOLEAN : StoreCheckResult(w, success)
    BY ZenonT(30), <2>4, StoreCheckResultStep
  <2>5. CASE PersistFailure(w)
    BY ZenonT(30), <2>5, PersistFailureStep
  <2>6. CASE SettleDelivery(w)
    BY ZenonT(30), <2>6, SettleDeliveryStep
  <2> QED
    BY ZenonT(30), <1>6, <2>1, <2>2, <2>3, <2>4, <2>5, <2>6 DEF WorkerStep
<1>7. CASE ApiStep
  BY ZenonT(30), <1>7, ApiStepKeeps
<1>8. CASE \E j \in Jobs : ExpireLease(j)
  BY ZenonT(30), <1>8, ExpireLeaseKeeps
<1>9. CASE TimePasses
  BY ZenonT(30), <1>9, TimePassesKeeps
<1> QED
  BY ZenonT(30), <1>1, <1>2, <1>3, <1>4, <1>5, <1>6, <1>7, <1>8, <1>9 DEF Next

\* Only the expiry of a held lease is a fault, and a fault is never taken back.
LEMMA FaultsStep ==
  ASSUME Next
  PROVE  faults' = faults \/ faults' = faults + 1
<1>1. CASE Claim
  BY ZenonT(30), <1>1 DEF Claim, bounds
<1>2. CASE \E c \in scheduler.batch : Publish(c)
  BY ZenonT(30), <1>2 DEF Publish, bounds
<1>3. CASE PublishContinues \/ RecordPublication \/ Take
  BY ZenonT(30), <1>3 DEF PublishContinues, RecordPublication, Take, bounds
<1>4. ASSUME NEW w \in Workers, Receive(w) \/ WorkerStep(w) PROVE faults' = faults
  BY ZenonT(30), <1>4 DEF WorkerStep, Receive, GetMonitor, MarkJobProcessing, StoreCheckResult,
                     PersistFailure, SettleDelivery, bounds
<1>5. CASE ApiStep \/ TimePasses
  BY ZenonT(30), <1>5 DEF ApiStep, TimePasses, bounds
<1>6. CASE \E j \in Jobs : ExpireLease(j)
  BY ZenonT(30), <1>6 DEF ExpireLease
<1> QED
  BY ZenonT(30), <1>1, <1>2, <1>3, <1>4, <1>5, <1>6 DEF Next

\* The message of a queued job is the one of its first attempt.
LEMMA CarriedMeansInTransit ==
  ASSUME PipelineInv
  PROVE  NoLostQueuedJob
<1>1. RowsInv /\ TransitInv
  BY ZenonT(30) DEF PipelineInv, StoreInv
<1>2. ASSUME NEW j \in Jobs, job[j].status = "queued"
      PROVE  InTransit(j)
  <2>1. Carried(j)
    BY ZenonT(30), <1>1, <1>2 DEF TransitInv
  <2>2. job[j].attempt + 1 = 1
    BY <1>1, <1>2 DEF RowsInv
  <2> QED
    BY ZenonT(30), <2>1, <2>2 DEF Carried, Delivered, First, InTransit
<1> QED
  BY ZenonT(30), <1>2 DEF NoLostQueuedJob

\* Until a lease runs out under its holder, the next message of every queued job is in
\* the buffer of InMemoryQueue, with its consumer goroutine or with a worker that has
\* not asked for the job yet: InMemoryQueue.Publish forgets the id of a message that it
\* could not deliver, enqueueDueMonitorJobs releases the claim then and records a job as
\* queued only after its message was taken, and handleQueueDelivery acknowledges
\* without a result only what the store no longer waits for.
THEOREM QueuedJobsAreCarried == Spec => []QueuedUnlessStalled
<1> DEFINE Inv == faults \in Nat /\ UnlessStalled
<1>1. Init => Inv
  <2>1. Init => faults = 0
    BY ZenonT(30) DEF Init
  <2>2. Init => faults \in Nat
    BY <2>1
  <2> QED
    BY ZenonT(30), <2>2, PipelineInit DEF UnlessStalled
<1>2. Inv /\ [Next]_vars => Inv'
  <2> SUFFICES ASSUME Inv, [Next]_vars PROVE Inv'
    BY ZenonT(30)
  <2>1. CASE Next
    <3>1. faults' = faults \/ faults' = faults + 1
      BY ZenonT(30), <2>1, FaultsStep
    <3>2. faults' \in Nat /\ (faults' = 0 => faults = 0)
      BY <3>1
    <3>3. faults' = 0 => PipelineInv'
      BY ZenonT(30), <2>1, <3>2, PipelineStep DEF UnlessStalled
    <3> QED
      BY ZenonT(30), <3>2, <3>3 DEF UnlessStalled
  <2>2. CASE UNCHANGED vars
    <3>1. /\ UNCHANGED <<monitor, job, active, processed>> /\ faults' = faults
          /\ UNCHANGED <<queueVars, worker, scheduler>>
      BY ZenonT(30), <2>2 DEF vars, storeVars, queueVars, bounds
    <3>2. ASSUME PipelineInv PROVE PipelineInv'
      <4>1. StoreInv
        BY ZenonT(30), <3>2 DEF PipelineInv
      <4>2. StoreInv' /\ \A k \in Jobs : Kept(k)
        BY ZenonT(30), <3>1, <4>1, SameStore
      <4> QED
        BY ZenonT(30), <3>1, <3>2, <4>2, SilentStoreStep
    <3> QED
      BY ZenonT(30), <3>1, <3>2 DEF UnlessStalled
  <2> QED
    BY ZenonT(30), <2>1, <2>2
<1>3. Inv => QueuedUnlessStalled
  BY ZenonT(30), CarriedMeansInTransit DEF UnlessStalled, QueuedUnlessStalled
<1> QED
  BY <1>1, <1>2, <1>3, PTL DEF Spec
=============================================================================
