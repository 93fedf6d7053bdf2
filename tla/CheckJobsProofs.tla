-------------------------- MODULE CheckJobsProofs ---------------------------
(***************************************************************************)
(* The check-job pipeline, for every set of monitors, jobs, schedulers and *)
(* workers and every value of the bounds: it is well typed and loses no    *)
(* queued job; it implements JobLifecycle, with and without the retention  *)
(* pass; and who may write the outcome of a job: at most one worker holds  *)
(* its lease and at most one scheduler its publication, a result is stored *)
(* only under the configuration it was measured with, and only buried jobs *)
(* are dead-lettered.                                                      *)
(***************************************************************************)
EXTENDS CheckJobsRefinement, CheckJobsRetention, TLAPS

(* Type correctness *)

\* What the statements of the repository make of a row of check_jobs is again
\* such a row.
LEMMA RowTypes ==
  ASSUME NEW row \in JobRow
  PROVE  /\ Revoked(row) \in JobRow
         /\ Killed(row) \in JobRow
         /\ Recovered(row) \in JobRow
         /\ ReturnedToPublish(row) \in JobRow
         /\ Deleted(row) \in JobRow
         /\ Completed(row) \in JobRow
         /\ Postponed(row) \in JobRow
         /\ [row EXCEPT !.status = "scheduled", !.kind = "manual", !.available = TRUE] \in JobRow
         /\ [row EXCEPT !.status = "queued", !.lease = "none"] \in JobRow
         /\ [row EXCEPT !.lease = "none", !.publicationToken = 0] \in JobRow
         /\ [row EXCEPT !.lease = "expired"] \in JobRow
         /\ [row EXCEPT !.available = TRUE] \in JobRow
BY ZenonT(100) DEF JobRow, JobStatus, Revoked, Killed, Deleted, Completed, Postponed, Recovered,
       ReturnedToPublish

\* Claiming a job for publication and leasing it for processing keep its shape.
LEMMA LeasedRowTypes ==
  ASSUME NEW row \in JobRow, NEW a \in Nat, NEW t \in Nat
  PROVE  /\ [row EXCEPT !.status = "scheduled", !.lease = "live",
                        !.publicationToken = t] \in JobRow
         /\ [row EXCEPT !.status = "scheduled", !.kind = "scheduled", !.available = TRUE,
                        !.lease = "live", !.publicationToken = t] \in JobRow
         /\ [row EXCEPT !.status = "processing", !.attempt = a, !.lease = "live",
                        !.leaseToken = t] \in JobRow
BY ZenonT(40) DEF JobRow, JobStatus

\* Counting one more in a bag of messages.
LEMMA IncrementType ==
  ASSUME NEW S, NEW f \in [S -> Nat], NEW a
  PROVE  [f EXCEPT ![a] = @ + 1] \in [S -> Nat]
<1>1. CASE a \in S
  BY <1>1
<1>2. CASE a \notin S
  BY ZenonT(40), <1>2
<1> QED
  BY ZenonT(30), <1>1, <1>2

\* Publishing a message, or giving one back, leaves a count for each attempt.
LEMMA EnqueuedType ==
  ASSUME queue \in [Jobs -> [1..MaxAttempts -> Nat]], NEW j, NEW a
  PROVE  Enqueued(j, a) \in [Jobs -> [1..MaxAttempts -> Nat]]
<1>1. j \in Jobs => [queue[j] EXCEPT ![a] = @ + 1] \in [1..MaxAttempts -> Nat]
  BY ZenonT(40), IncrementType
<1> QED
  BY ZenonT(40), <1>1 DEF Enqueued

\* Settling a job leaves the monitors table well formed.
LEMMA RescheduledType ==
  ASSUME monitor \in [Monitors -> MonitorRow], NEW j \in Jobs
  PROVE  Rescheduled(j) \in [Monitors -> MonitorRow]
BY ZenonT(40), JobsAssumption DEF MonitorRow, Rescheduled

\* Moving on within a delivery changes nothing but the worker's position.
LEMMA GotoType ==
  ASSUME worker \in [Workers -> WorkerState], NEW w \in Workers,
         NEW pc \in {"leased", "failing", "ack", "nack", "requeue"}, Goto(w, pc)
  PROVE  /\ worker' \in [Workers -> WorkerState]
         /\ worker'[w] = [worker[w] EXCEPT !.pc = pc]
         /\ worker'[w].pc = pc
         /\ worker'[w].job = worker[w].job
         /\ worker'[w].attempt = worker[w].attempt
         /\ worker'[w].owned = worker[w].owned
         /\ worker'[w].config = worker[w].config
         /\ worker'[w].token = worker[w].token
         /\ \A v \in Workers \ {w} : worker'[v] = worker[v]
BY ZenonT(30) DEF Goto, WorkerState

\* Taking the processing lease records the token and moves on.
LEMMA LeaseTaken ==
  ASSUME worker \in [Workers -> WorkerState], NEW w \in Workers, tokens \in Nat,
         worker' = [worker EXCEPT ![w] = [@ EXCEPT !.pc = "leased", !.token = tokens + 1]]
  PROVE  /\ worker' \in [Workers -> WorkerState]
         /\ worker'[w].pc = "leased"
         /\ worker'[w].job = worker[w].job
         /\ worker'[w].attempt = worker[w].attempt
         /\ worker'[w].owned = worker[w].owned
         /\ worker'[w].config = worker[w].config
         /\ worker'[w].token = tokens + 1
         /\ \A v \in Workers \ {w} : worker'[v] = worker[v]
<1> DEFINE r == [worker[w] EXCEPT !.pc = "leased", !.token = tokens + 1]
<1>1. r \in WorkerState
  <2>1. \A t \in Nat : [worker[w] EXCEPT !.pc = "leased", !.token = t] \in WorkerState
    BY ZenonT(40) DEF WorkerState
  <2>2. tokens + 1 \in Nat
    OBVIOUS
  <2> QED
    BY <2>1, <2>2, Zenon
<1>2. /\ r.pc = "leased" /\ r.job = worker[w].job /\ r.attempt = worker[w].attempt
      /\ r.owned = worker[w].owned /\ r.config = worker[w].config /\ r.token = tokens + 1
  BY ZenonT(30) DEF WorkerState
<1>3. worker' = [worker EXCEPT ![w] = r]
  BY ZenonT(30)
<1> HIDE DEF r
<1> QED
  BY ZenonT(30), <1>1, <1>2, <1>3

\* The shape of every row and of every process's local state is preserved by
\* every step of the API, the schedulers, the workers, the broker and time.
LEMMA TypeStep == TypeOK /\ [Next]_vars => TypeOK'
<1> USE JobsAssumption, BoundsAssumption
<1> SUFFICES ASSUME TypeOK, [Next]_vars PROVE TypeOK'
  BY ZenonT(30)
<1>m. monitor \in [Monitors -> MonitorRow]
  BY ZenonT(30) DEF TypeOK
<1>j. job \in [Jobs -> JobRow]
  BY ZenonT(30) DEF TypeOK
<1>r. results \subseteq Result
  BY ZenonT(30) DEF TypeOK
<1>t. tokens \in Nat
  BY ZenonT(30) DEF TypeOK
<1>q. queue \in [Jobs -> [1..MaxAttempts -> Nat]]
  BY ZenonT(30) DEF TypeOK
<1>d. deadLetters \subseteq Jobs
  BY ZenonT(30) DEF TypeOK
<1>s. scheduler \in [Schedulers -> SchedulerState]
  BY ZenonT(30) DEF TypeOK
<1>w. worker \in [Workers -> WorkerState]
  BY ZenonT(30) DEF TypeOK
<1>v. \A w \in Workers : worker[w].pc # "idle" =>
        worker[w].job \in Jobs /\ worker[w].attempt \in 1..MaxAttempts
  BY ZenonT(30) DEF TypeOK
<1>1. ASSUME NEW m \in Monitors, NEW enabled \in BOOLEAN,
             Create(m, enabled)
      PROVE  TypeOK'
  <2>1. monitor' \in [Monitors -> MonitorRow]
    BY ZenonT(30), <1>1, <1>m DEF Create, MonitorRow
  <2> QED
    BY ZenonT(30), <1>1, <2>1 DEF TypeOK, Create, broker
<1>2. ASSUME NEW m \in Monitors, NEW enabled \in BOOLEAN, NEW semantics \in BOOLEAN,
             NEW interval \in BOOLEAN,
             Update(m, enabled, semantics, interval)
      PROVE  TypeOK'
  <2>1. monitor' \in [Monitors -> MonitorRow]
    <3>1. DueAfterUpdate(m, enabled, semantics, interval) \subseteq BOOLEAN
      BY ZenonT(40), <1>m DEF DueAfterUpdate, MonitorRow
    <3>2. PICK due \in BOOLEAN : monitor' = [monitor EXCEPT ![m] =
               [status |-> IF enabled THEN "active" ELSE "disabled",
                config |-> IF semantics THEN monitor[m].config + 1 ELSE monitor[m].config,
                due |-> due]]
      BY ZenonT(40), <3>1, <1>2 DEF Update
    <3> QED
      BY <3>2, <1>m DEF MonitorRow
  <2>2. job' \in [Jobs -> JobRow]
    BY ZenonT(40), <1>2, <1>j, RowTypes DEF Update, JobsAfterUpdate
  <2> QED
    BY ZenonT(30), <1>2, <2>1, <2>2 DEF TypeOK, Update, broker
<1>3. ASSUME NEW m \in Monitors,
             Delete(m)
      PROVE  TypeOK'
  <2>1. monitor' \in [Monitors -> MonitorRow]
    BY ZenonT(30), <1>3, <1>m DEF Delete, MonitorRow
  <2>2. job' \in [Jobs -> JobRow]
    BY ZenonT(40), <1>3, <1>j, RowTypes DEF Delete
  <2> QED
    BY ZenonT(30), <1>3, <2>1, <2>2 DEF TypeOK, Delete, broker
<1>4. ASSUME NEW m \in Monitors, NEW j \in Jobs,
             CreateManualJob(m, j)
      PROVE  TypeOK'
  <2>1. job' \in [Jobs -> JobRow]
    BY ZenonT(40), <1>4, <1>j, RowTypes DEF CreateManualJob
  <2> QED
    BY ZenonT(30), <1>4, <2>1 DEF TypeOK, CreateManualJob, broker
<1>5. ASSUME NEW s \in Schedulers,
             Ping(s)
      PROVE  TypeOK'
  <2>1. scheduler' \in [Schedulers -> SchedulerState]
    BY ZenonT(30), <1>5, <1>s DEF Ping, SchedulerState
  <2> QED
    BY ZenonT(30), <1>5, <2>1 DEF TypeOK, Ping, store, broker
<1>6. ASSUME NEW s \in Schedulers, NEW batch \in SUBSET Jobs, NEW fresh \in SUBSET Jobs,
             ClaimDueJobs(s, batch, fresh)
      PROVE  TypeOK'
  <2>1. job' \in [Jobs -> JobRow]
    <3>1. \A j \in Jobs : ClaimedRow(j, batch, fresh) \in JobRow
      <4> SUFFICES ASSUME NEW j \in Jobs PROVE ClaimedRow(j, batch, fresh) \in JobRow
        BY ZenonT(30)
      <4>1. Recovered(job[j]) \in JobRow /\ job[j] \in JobRow
        BY ZenonT(40), <1>j, RowTypes
      <4>2. tokens + 1 \in Nat
        BY <1>t
      <4> QED
        BY ZenonT(40), <4>1, <4>2, LeasedRowTypes DEF ClaimedRow
    <3> QED
      BY ZenonT(30), <3>1, <1>6 DEF ClaimDueJobs
  <2>2. monitor' \in [Monitors -> MonitorRow]
    BY ZenonT(40), <1>6, <1>m DEF ClaimDueJobs, DueAfterRecovery, MonitorRow
  <2>3. scheduler' \in [Schedulers -> SchedulerState]
    <3>1. {[job |-> j, attempt |-> job[j].attempt, token |-> tokens + 1] :
             j \in batch \cup fresh} \subseteq PublicationClaim
      BY <1>j, <1>t DEF JobRow, PublicationClaim
    <3> QED
      BY ZenonT(30), <3>1, <1>6, <1>s DEF ClaimDueJobs, SchedulerState
  <2>4. tokens' \in Nat
    BY <1>6, <1>t DEF ClaimDueJobs
  <2> QED
    BY ZenonT(40), <1>6, <2>1, <2>2, <2>3, <2>4 DEF TypeOK, ClaimDueJobs, broker
<1>7. ASSUME NEW s \in Schedulers, NEW c \in scheduler[s].batch,
             PublishConfirmed(s, c)
      PROVE  TypeOK'
  <2>1. queue' \in [Jobs -> [1..MaxAttempts -> Nat]]
    BY ZenonT(30), <1>7, <1>q, EnqueuedType DEF PublishConfirmed
  <2>2. scheduler' \in [Schedulers -> SchedulerState]
    BY ZenonT(30), <1>7, <1>s DEF PublishConfirmed, SchedulerState, PublicationClaim
  <2> QED
    BY ZenonT(30), <1>7, <2>1, <2>2 DEF TypeOK, PublishConfirmed, store
<1>8. ASSUME NEW s \in Schedulers, NEW c \in scheduler[s].batch,
             PublishUnconfirmed(s, c)
      PROVE  TypeOK'
  <2>1. queue' \in [Jobs -> [1..MaxAttempts -> Nat]]
    BY ZenonT(30), <1>8, <1>q, EnqueuedType DEF PublishUnconfirmed
  <2> QED
    BY <1>8, <2>1 DEF TypeOK, PublishUnconfirmed, store, Fault
<1>9. ASSUME NEW s \in Schedulers, NEW c \in scheduler[s].batch,
             PublishFailed(s, c)
      PROVE  TypeOK'
  <2>1. scheduler' \in [Schedulers -> SchedulerState]
    BY ZenonT(30), <1>9, <1>s DEF PublishFailed, SchedulerState, PublicationClaim
  <2> QED
    BY <1>9, <2>1 DEF TypeOK, PublishFailed, store, broker, Fault, NoFault
<1>10. ASSUME NEW s \in Schedulers,
             MarkJobPublished(s)
      PROVE  TypeOK'
  <2>1. job' \in [Jobs -> JobRow]
    BY ZenonT(40), <1>10, <1>j, RowTypes DEF MarkJobPublished
  <2>2. scheduler' \in [Schedulers -> SchedulerState]
    BY ZenonT(30), <1>10, <1>s DEF MarkJobPublished, NextClaim, SchedulerState
  <2> QED
    BY ZenonT(30), <1>10, <2>1, <2>2 DEF TypeOK, MarkJobPublished, broker
<1>11. ASSUME NEW s \in Schedulers,
             ReleaseJobPublish(s)
      PROVE  TypeOK'
  <2>1. job' \in [Jobs -> JobRow]
    BY ZenonT(40), <1>11, <1>j, RowTypes DEF ReleaseJobPublish
  <2>2. scheduler' \in [Schedulers -> SchedulerState]
    BY ZenonT(30), <1>11, <1>s DEF ReleaseJobPublish, NextClaim, SchedulerState
  <2> QED
    BY ZenonT(30), <1>11, <2>1, <2>2 DEF TypeOK, ReleaseJobPublish, broker
<1>12. ASSUME NEW s \in Schedulers,
             PublicationWriteFails(s)
      PROVE  TypeOK'
  <2>1. scheduler' \in [Schedulers -> SchedulerState]
    BY ZenonT(30), <1>12, <1>s DEF PublicationWriteFails, NextClaim, SchedulerState
  <2> QED
    BY <1>12, <2>1 DEF TypeOK, PublicationWriteFails, store, broker, Fault
<1>13. ASSUME NEW s \in Schedulers,
             SchedulerCrash(s)
      PROVE  TypeOK'
  <2>1. scheduler' \in [Schedulers -> SchedulerState]
    BY ZenonT(30), <1>13, <1>s DEF SchedulerCrash, IdleScheduler, SchedulerState
  <2> QED
    BY <1>13, <2>1 DEF TypeOK, SchedulerCrash, store, broker, Fault
<1>14. ASSUME NEW w \in Workers, NEW j \in Jobs, NEW a \in 1..MaxAttempts,
             Receive(w, j, a)
      PROVE  TypeOK'
  <2>1. queue' \in [Jobs -> [1..MaxAttempts -> Nat]]
    BY <1>14, <1>q DEF Receive
  <2>2. worker' \in [Workers -> WorkerState]
    BY <1>14, <1>w DEF Receive, WorkerState
  <2>3. \A v \in Workers : worker'[v].pc # "idle" =>
         worker'[v].job \in Jobs /\ worker'[v].attempt \in 1..MaxAttempts
    BY ZenonT(30), <1>14, <1>w, <1>v DEF Receive, WorkerState
  <2> QED
    BY ZenonT(40), <1>14, <2>1, <2>2, <2>3 DEF TypeOK, Receive, store
<1>15. ASSUME NEW w \in Workers,
             GetMonitor(w)
      PROVE  TypeOK'
  <2>1. CASE Goto(w, "ack") \/ Goto(w, "requeue")
    <3>1. /\ worker' \in [Workers -> WorkerState]
          /\ \A v \in Workers : worker'[v].pc # "idle" =>
               worker'[v].job \in Jobs /\ worker'[v].attempt \in 1..MaxAttempts
      BY ZenonT(40), <1>15, <2>1, <1>v, <1>w, GotoType DEF GetMonitor, At
    <3> QED
      BY SMTT(30), <1>15, <3>1 DEF TypeOK, GetMonitor, store, broker, Fault, NoFault
  <2>2. CASE worker' = [worker EXCEPT ![w] = [@ EXCEPT !.pc = "looked_up",
                          !.config = monitor[MonitorOf[worker[w].job]].config]]
    <3>1. worker[w].job \in Jobs /\ worker[w].attempt \in 1..MaxAttempts
      BY ZenonT(30), <1>15, <1>v DEF GetMonitor, At
    <3>2. monitor[MonitorOf[worker[w].job]].config \in Nat
      BY ZenonT(30), <3>1, <1>m DEF MonitorRow
    <3>3. /\ worker' \in [Workers -> WorkerState]
          /\ \A v \in Workers : worker'[v].pc # "idle" =>
               worker'[v].job \in Jobs /\ worker'[v].attempt \in 1..MaxAttempts
      <4>1. [worker[w] EXCEPT !.pc = "looked_up",
               !.config = monitor[MonitorOf[worker[w].job]].config] \in WorkerState
        BY ZenonT(40), <3>2, <1>w DEF WorkerState
      <4>2. worker' = [worker EXCEPT ![w] = [worker[w] EXCEPT !.pc = "looked_up",
                          !.config = monitor[MonitorOf[worker[w].job]].config]]
        BY ZenonT(30), <2>2
      <4>3. worker' \in [Workers -> WorkerState]
        BY ZenonT(40), <4>1, <4>2, <1>w
      <4>4. worker'[w].job = worker[w].job /\ worker'[w].attempt = worker[w].attempt
        BY ZenonT(30), <4>2, <1>w DEF WorkerState
      <4>5. \A v \in Workers : v # w => worker'[v] = worker[v]
        BY ZenonT(30), <4>2, <1>w
      <4> QED
        BY ZenonT(40), <4>3, <4>4, <4>5, <3>1, <1>v
    <3> QED
      BY <1>15, <3>3 DEF TypeOK, GetMonitor, store, broker, Fault, NoFault
  <2> QED
    BY ZenonT(30), <1>15, <2>1, <2>2 DEF GetMonitor
<1>16. ASSUME NEW w \in Workers,
             MarkJobProcessing(w)
      PROVE  TypeOK'
  <2>1. job' \in [Jobs -> JobRow]
    <3>1. worker[w].job \in Jobs /\ worker[w].attempt \in Nat /\ tokens + 1 \in Nat
      BY <1>16, <1>w, <1>v, <1>t DEF MarkJobProcessing, At, WorkerState
    <3> QED
      BY ZenonT(40), <3>1, <1>16, <1>j, LeasedRowTypes DEF MarkJobProcessing, ProcessingJob
  <2>2. worker[w].job \in Jobs /\ worker[w].attempt \in 1..MaxAttempts
    BY ZenonT(30), <1>16, <1>v DEF MarkJobProcessing, At
  <2>3. /\ worker' \in [Workers -> WorkerState]
        /\ \A v \in Workers : worker'[v].pc # "idle" =>
             worker'[v].job \in Jobs /\ worker'[v].attempt \in 1..MaxAttempts
    <3>1. CASE Goto(w, "requeue")
      <4>1. /\ worker' \in [Workers -> WorkerState]
            /\ worker'[w].job = worker[w].job
            /\ worker'[w].attempt = worker[w].attempt
            /\ \A v \in Workers \ {w} : worker'[v] = worker[v]
        BY ZenonT(40), <3>1, <1>w, GotoType
      <4> QED
        BY ZenonT(30), <4>1, <2>2, <1>v
    <3>2. CASE worker' = [worker EXCEPT ![w] =
                            [@ EXCEPT !.pc = "leased", !.token = tokens + 1]]
      <4>1. /\ worker' \in [Workers -> WorkerState]
            /\ worker'[w].job = worker[w].job
            /\ worker'[w].attempt = worker[w].attempt
            /\ \A v \in Workers \ {w} : worker'[v] = worker[v]
        BY ZenonT(40), <3>2, <1>t, <1>w, LeaseTaken
      <4> QED
        BY ZenonT(30), <4>1, <2>2, <1>v
    <3> QED
      BY ZenonT(30), <1>16, <3>1, <3>2 DEF MarkJobProcessing
  <2> QED
    BY SMTT(30), <1>16, <2>1, <2>3, <1>t DEF TypeOK, MarkJobProcessing, broker, Fault, NoFault
<1>17. ASSUME NEW w \in Workers,
             MarkJobProcessingRefused(w)
      PROVE  TypeOK'
  <2>1. worker' \in [Workers -> WorkerState]
    BY SMTT(30), <1>17, <1>w DEF MarkJobProcessingRefused, At, Goto, WorkerState
  <2>2. \A v \in Workers : worker'[v].pc # "idle" =>
         worker'[v].job \in Jobs /\ worker'[v].attempt \in 1..MaxAttempts
    BY <1>17, <1>w, <1>v DEF MarkJobProcessingRefused, At, Goto, WorkerState
  <2>3. Fault \/ NoFault
    BY ZenonT(40), <1>17 DEF MarkJobProcessingRefused
  <2>4. faults' \in Nat
    BY <2>3 DEF TypeOK, Fault, NoFault
  <2>5. UNCHANGED <<store, broker, scheduler>>
    BY ZenonT(40), <1>17 DEF MarkJobProcessingRefused
  <2> QED
    BY ZenonT(30), <2>1, <2>2, <2>4, <2>5 DEF TypeOK, store, broker
<1>18. ASSUME NEW w \in Workers,
             AddCheck(w)
      PROVE  TypeOK'
  <2>1. job' \in [Jobs -> JobRow]
    BY ZenonT(40), <1>18, <1>j, <1>v, <1>w, RowTypes DEF AddCheck, At
  <2>2. results' \subseteq Result
    BY <1>18, <1>r, <1>w, <1>v, <1>m DEF AddCheck, At, WorkerState, MonitorRow, Result
  <2>3. monitor' \in [Monitors -> MonitorRow]
    BY ZenonT(30), <1>18, <1>m, <1>j, <1>v, RescheduledType DEF AddCheck, At
  <2>4. worker' \in [Workers -> WorkerState]
    BY <1>18, <1>w DEF AddCheck, At, Goto, WorkerState
  <2>5. \A v \in Workers : worker'[v].pc # "idle" =>
         worker'[v].job \in Jobs /\ worker'[v].attempt \in 1..MaxAttempts
    BY <1>18, <1>w, <1>v DEF AddCheck, At, Goto, WorkerState
  <2> QED
    BY <1>18, <2>1, <2>2, <2>3, <2>4, <2>5 DEF TypeOK, AddCheck, broker, Fault, NoFault
<1>19. ASSUME NEW w \in Workers,
             AddCheckRefused(w)
      PROVE  TypeOK'
  <2>1. worker' \in [Workers -> WorkerState]
    BY <1>19, <1>w DEF AddCheckRefused, At, Goto, WorkerState
  <2>2. \A v \in Workers : worker'[v].pc # "idle" =>
         worker'[v].job \in Jobs /\ worker'[v].attempt \in 1..MaxAttempts
    BY <1>19, <1>w, <1>v DEF AddCheckRefused, At, Goto, WorkerState
  <2> QED
    BY <1>19, <2>1, <2>2 DEF TypeOK, AddCheckRefused, store, broker, Fault, NoFault
<1>20. ASSUME NEW w \in Workers,
             MarkJobFailed(w)
      PROVE  TypeOK'
  <2>1. job' \in [Jobs -> JobRow]
    <3>1. worker[w].job \in Jobs
      BY ZenonT(30), <1>20, <1>v DEF MarkJobFailed, At
    <3>2. \/ job' = job
          \/ job' = [job EXCEPT ![worker[w].job] = Postponed(@)]
      BY ZenonT(30), <1>20 DEF MarkJobFailed
    <3>3. Postponed(job[worker[w].job]) \in JobRow
      BY ZenonT(40), <3>1, <1>j, RowTypes
    <3> QED
      BY ZenonT(30), <3>1, <3>2, <3>3, <1>j
  <2>2. worker' \in [Workers -> WorkerState]
    BY <1>20, <1>w DEF MarkJobFailed, At, Goto, WorkerState
  <2>3. \A v \in Workers : worker'[v].pc # "idle" =>
         worker'[v].job \in Jobs /\ worker'[v].attempt \in 1..MaxAttempts
    BY <1>20, <1>w, <1>v DEF MarkJobFailed, At, Goto, WorkerState
  <2>4. Fault \/ NoFault
    BY ZenonT(40), <1>20 DEF MarkJobFailed
  <2>5. faults' \in Nat
    BY <2>4 DEF TypeOK, Fault, NoFault
  <2>6. UNCHANGED <<monitor, results, tokens, broker, scheduler>>
    BY ZenonT(40), <1>20 DEF MarkJobFailed
  <2> QED
    BY ZenonT(30), <2>1, <2>2, <2>3, <2>5, <2>6 DEF TypeOK, broker
<1>21. ASSUME NEW w \in Workers,
             MarkJobDead(w)
      PROVE  TypeOK'
  <2>1. job' \in [Jobs -> JobRow]
    <3>1. worker[w].job \in Jobs
      BY ZenonT(30), <1>21, <1>v DEF MarkJobDead, At
    <3>2. job' = job \/ job' = [job EXCEPT ![worker[w].job] = Killed(@)]
      BY ZenonT(30), <1>21 DEF MarkJobDead
    <3>3. Killed(job[worker[w].job]) \in JobRow
      BY ZenonT(40), <3>1, <1>j, RowTypes
    <3> QED
      BY ZenonT(30), <3>1, <3>2, <3>3, <1>j
  <2>2. monitor' \in [Monitors -> MonitorRow]
    BY <1>21, <1>m, <1>j, <1>v, RescheduledType DEF MarkJobDead, At
  <2>3. worker' \in [Workers -> WorkerState]
    BY <1>21, <1>w DEF MarkJobDead, At, Goto, WorkerState
  <2>4. \A v \in Workers : worker'[v].pc # "idle" =>
         worker'[v].job \in Jobs /\ worker'[v].attempt \in 1..MaxAttempts
    BY <1>21, <1>w, <1>v DEF MarkJobDead, At, Goto, WorkerState
  <2> QED
    BY <1>21, <2>1, <2>2, <2>3, <2>4 DEF TypeOK, MarkJobDead, broker, Fault, NoFault
<1>22. ASSUME NEW w \in Workers,
             Ack(w)
      PROVE  TypeOK'
  <2>1. worker' \in [Workers -> WorkerState]
    BY ZenonT(30), <1>22, <1>w DEF Ack, Finish, IdleWorker, WorkerState
  <2>2. \A v \in Workers : worker'[v].pc # "idle" =>
         worker'[v].job \in Jobs /\ worker'[v].attempt \in 1..MaxAttempts
    BY ZenonT(30), <1>22, <1>w, <1>v DEF Ack, Finish, IdleWorker, WorkerState
  <2> QED
    BY ZenonT(30), <1>22, <2>1, <2>2 DEF TypeOK, Ack, store, broker
<1>23. ASSUME NEW w \in Workers,
             Nack(w)
      PROVE  TypeOK'
  <2>1. queue' \in [Jobs -> [1..MaxAttempts -> Nat]]
    <3>1. queue' = queue \/ queue' = Redelivered(w)
      BY ZenonT(30), <1>23 DEF Nack
    <3>2. Enqueued(worker[w].job, worker[w].attempt) \in [Jobs -> [1..MaxAttempts -> Nat]]
      BY ZenonT(30), <1>q, EnqueuedType
    <3> QED
      BY ZenonT(40), <3>1, <3>2, <1>q DEF Redelivered
  <2>2. deadLetters' \subseteq Jobs
    BY <1>23, <1>d, <1>v DEF Nack, At
  <2>3. worker' \in [Workers -> WorkerState]
    BY ZenonT(30), <1>23, <1>w DEF Nack, Finish, IdleWorker, WorkerState
  <2>4. \A v \in Workers : worker'[v].pc # "idle" =>
         worker'[v].job \in Jobs /\ worker'[v].attempt \in 1..MaxAttempts
    BY ZenonT(30), <1>23, <1>w, <1>v DEF Nack, Finish, IdleWorker, WorkerState
  <2>5. faults' \in Nat
    BY <1>23 DEF TypeOK, Nack, Fault, NoFault
  <2> QED
    BY ZenonT(40), <1>23, <2>1, <2>2, <2>3, <2>4, <2>5 DEF TypeOK, Nack, store
<1>24. ASSUME NEW w \in Workers,
             Requeue(w)
      PROVE  TypeOK'
  <2>1. queue' \in [Jobs -> [1..MaxAttempts -> Nat]]
    BY ZenonT(40), <1>24, <1>q, <1>v, <1>w, EnqueuedType DEF Requeue, Redelivered
  <2>2. worker' \in [Workers -> WorkerState]
    BY ZenonT(30), <1>24, <1>w DEF Requeue, Finish, IdleWorker, WorkerState
  <2>3. \A v \in Workers : worker'[v].pc # "idle" =>
         worker'[v].job \in Jobs /\ worker'[v].attempt \in 1..MaxAttempts
    BY ZenonT(30), <1>24, <1>w, <1>v DEF Requeue, Finish, IdleWorker, WorkerState
  <2> QED
    BY ZenonT(40), <1>24, <2>1, <2>2, <2>3 DEF TypeOK, Requeue, store
<1>25. ASSUME NEW w \in Workers,
             WorkerCrash(w)
      PROVE  TypeOK'
  <2>1. queue' \in [Jobs -> [1..MaxAttempts -> Nat]]
    BY ZenonT(40), <1>25, <1>q, <1>v, <1>w, EnqueuedType DEF WorkerCrash, Redelivered
  <2>2. worker' \in [Workers -> WorkerState]
    BY ZenonT(30), <1>25, <1>w DEF WorkerCrash, Finish, IdleWorker, WorkerState
  <2>3. \A v \in Workers : worker'[v].pc # "idle" =>
         worker'[v].job \in Jobs /\ worker'[v].attempt \in 1..MaxAttempts
    BY ZenonT(30), <1>25, <1>w, <1>v DEF WorkerCrash, Finish, IdleWorker, WorkerState
  <2>4. faults' \in Nat
    BY <1>25 DEF TypeOK, WorkerCrash, Fault
  <2> QED
    BY ZenonT(30), <1>25, <2>1, <2>2, <2>3, <2>4 DEF TypeOK, WorkerCrash, store
<1>26. ASSUME NEW w \in Workers,
             ConnectionLost(w)
      PROVE  TypeOK'
  <2>1. queue' \in [Jobs -> [1..MaxAttempts -> Nat]]
    BY ZenonT(30), <1>26, <1>q, <1>v, <1>w, EnqueuedType DEF ConnectionLost, Redelivered
  <2>2. worker' \in [Workers -> WorkerState]
    BY ZenonT(40), <1>26, <1>w DEF ConnectionLost, WorkerState
  <2>3. \A v \in Workers : worker'[v].pc # "idle" =>
         worker'[v].job \in Jobs /\ worker'[v].attempt \in 1..MaxAttempts
    BY ZenonT(30), <1>26, <1>w, <1>v DEF ConnectionLost, WorkerState
  <2> QED
    BY <1>26, <2>1, <2>2, <2>3 DEF TypeOK, ConnectionLost, store, Fault
<1>27. ASSUME LoseQueue
      PROVE  TypeOK'
  <2>1. queue' \in [Jobs -> [1..MaxAttempts -> Nat]]
    BY ZenonT(30), <1>27, <1>q DEF LoseQueue
  <2>2. worker' \in [Workers -> WorkerState]
    BY ZenonT(40), <1>27, <1>w DEF LoseQueue, WorkerState
  <2>3. \A v \in Workers : worker'[v].pc # "idle" =>
         worker'[v].job \in Jobs /\ worker'[v].attempt \in 1..MaxAttempts
    BY ZenonT(40), <1>27, <1>w, <1>v DEF LoseQueue, WorkerState
  <2> QED
    BY <1>27, <2>1, <2>2, <2>3 DEF TypeOK, LoseQueue, store, Fault
<1>28. RecoverQueuedJobsAfterTopologyLoss => job' \in [Jobs -> JobRow]
  BY ZenonT(40), <1>j, RowTypes DEF RecoverQueuedJobsAfterTopologyLoss
<1>29. ASSUME RepairTopology \/ RecoveryFails \/ RecoverDetectedTopologyLoss
      PROVE  TypeOK'
  <2>1. job' \in [Jobs -> JobRow]
    BY ZenonT(30), <1>28, <1>29, <1>j DEF RepairTopology, RecoveryFails, RecoverDetectedTopologyLoss
  <2>2. recoveriesOwed' \in Nat /\ faults' \in Nat /\ topology' \in {"present", "missing", "recovered"}
    BY <1>29 DEF TypeOK, RepairTopology, RecoveryFails, RecoverDetectedTopologyLoss, Fault
  <2>3. UNCHANGED <<monitor, results, tokens, queue, deadLetters, scheduler, worker>>
    BY ZenonT(30), <1>29 DEF RepairTopology, RecoveryFails, RecoverDetectedTopologyLoss
  <2> QED
    BY ZenonT(30), <2>1, <2>2, <2>3 DEF TypeOK
<1>30. ASSUME DeclareTopology
      PROVE  TypeOK'
  BY ZenonT(30), <1>30 DEF TypeOK, DeclareTopology, store
<1>31. ASSUME NEW j \in Jobs,
             ExpireLease(j)
      PROVE  TypeOK'
  <2>1. job' \in [Jobs -> JobRow]
    BY ZenonT(40), <1>31, <1>j, RowTypes DEF ExpireLease
  <2> QED
    BY <1>31, <2>1 DEF TypeOK, ExpireLease, broker, Fault, NoFault
<1>32. ASSUME NEW j \in Jobs,
             BecomeAvailable(j)
      PROVE  TypeOK'
  <2>1. job' \in [Jobs -> JobRow]
    BY ZenonT(40), <1>32, <1>j, RowTypes DEF BecomeAvailable
  <2> QED
    BY ZenonT(30), <1>32, <2>1 DEF TypeOK, BecomeAvailable, broker
<1>33. ASSUME NEW m \in Monitors,
             BecomeDue(m)
      PROVE  TypeOK'
  <2>1. monitor' \in [Monitors -> MonitorRow]
    BY ZenonT(40), <1>33, <1>m DEF BecomeDue, MonitorRow
  <2> QED
    BY ZenonT(30), <1>33, <2>1 DEF TypeOK, BecomeDue, broker
<1>34. CASE UNCHANGED vars
  BY ZenonT(30), <1>34 DEF TypeOK, vars
<1> QED
  BY ZenonT(30), <1>1, <1>2, <1>3, <1>4, <1>5, <1>6, <1>7, <1>8, <1>9, <1>10, <1>11, <1>12, <1>13, <1>14, <1>15, <1>16, <1>17, <1>18, <1>19, <1>20, <1>21, <1>22, <1>23, <1>24, <1>25, <1>26, <1>27, <1>28, <1>29, <1>30, <1>31, <1>32, <1>33, <1>34
  DEF Next, ApiStep, SchedulerStep, WorkerStep, TopologyStep, TimeStep

\* The tables, the queue and every process start empty.
LEMMA InitType == Init => TypeOK
<1> SUFFICES ASSUME Init PROVE TypeOK
  BY ZenonT(30)
<1>1. monitor \in [Monitors -> MonitorRow]
  BY ZenonT(30) DEF Init, MonitorRow
<1>2. job \in [Jobs -> JobRow]
  BY ZenonT(30) DEF Init, JobRow, JobStatus
<1>3. queue \in [Jobs -> [1..MaxAttempts -> Nat]]
  BY ZenonT(30) DEF Init
<1>4. scheduler \in [Schedulers -> SchedulerState]
  BY ZenonT(30) DEF Init, SchedulerState, IdleScheduler
<1>5. worker \in [Workers -> WorkerState]
  BY ZenonT(30) DEF Init, WorkerState, IdleWorker
<1>6. \A w \in Workers : worker[w].pc = "idle"
  BY ZenonT(30) DEF Init, IdleWorker
<1> QED
  BY ZenonT(30), <1>1, <1>2, <1>3, <1>4, <1>5, <1>6 DEF Init, TypeOK

\* Every reachable state has rows of the shape the schema declares, and a worker
\* that is not idle handles a job at an attempt the broker can carry.
THEOREM TypeCorrect == Spec => []TypeOK
  BY InitType, TypeStep, PTL DEF Spec

-----------------------------------------------------------------------------
(* Monitors and publication claims, which the proof about messages rests on *)

\* Counting attempts, tokens and copies of a message.
LEMMA Counting ==
  /\ \A n \in Nat : n + 1 > n
  /\ \A m, n \in Nat : m <= n => m + 1 <= n + 1
  /\ \A n \in Nat : \A t \in 1..n : t # n + 1
  /\ ~(0 > 0)
OBVIOUS

\* What the recovery statements and the recovery handler do to a row's status.
LEMMA RowStatus ==
  ASSUME NEW row \in JobRow
  PROVE  /\ Revoked(row).status = row.status
         /\ Revoked(row).attempt = row.attempt
         /\ Completed(row).status = "completed"
         /\ Completed(row).attempt = row.attempt
         /\ Deleted(row).status = "deleted"
         /\ Deleted(row).attempt = row.attempt
         /\ Postponed(row).status = "failed"
         /\ Postponed(row).attempt = row.attempt
         /\ Killed(row).status = "dead"
         /\ Killed(row).attempt = row.attempt
         /\ Recovered(row).attempt = row.attempt
         /\ Recovered(row) = row \/ (row.status \in Active /\ Recovered(row).status \in {"dead", "failed"})
         /\ ReturnedToPublish(row).attempt = row.attempt
         /\ ReturnedToPublish(row) = row \/ (row.status \in Active /\ ReturnedToPublish(row).status = "failed")
         /\ ReturnedToPublish(row).status \notin {"scheduled", "queued"}
BY ZenonT(30) DEF JobRow, JobStatus, Active, Revoked, Killed, Deleted, Completed, Postponed, Recovered,
       Exhausted, LeaseLapsed, ReturnedToPublish

\* What reporting an outcome changes: the job is left alone or takes the outcome, and
\* the worker goes on to retry, or to settle the delivery.
LEMMA OutcomeEffect ==
  ASSUME job \in [Jobs -> JobRow], NEW w \in Workers,
         AddCheck(w) \/ AddCheckRefused(w) \/ MarkJobFailed(w) \/ MarkJobDead(w)
  PROVE  /\ UNCHANGED <<topology, scheduler, queue>>
         /\ \A j \in Jobs : \/ job'[j] = job[j] \/ job'[j] = Completed(job[j])
                             \/ job'[j] = Killed(job[j]) \/ job'[j] = Postponed(job[j])
         /\ worker[w].pc \in {"leased", "failing"}
         /\ worker' = worker \/ \E pc \in {"failing", "ack", "nack"} : Goto(w, pc)
<1>1. CASE AddCheck(w)
  <2>1. job' = [job EXCEPT ![worker[w].job] = Completed(job[worker[w].job])]
    BY ZenonT(40), <1>1 DEF AddCheck
  <2>2. \A j \in Jobs : job'[j] = job[j] \/ job'[j] = Completed(job[j])
    BY ZenonT(30), <2>1
  <2>3. UNCHANGED <<topology, scheduler, queue>> /\ worker[w].pc \in {"leased", "failing"}
    BY ZenonT(30), <1>1 DEF AddCheck, At, broker
  <2>4. worker' = worker \/ \E pc \in {"failing", "ack", "nack"} : Goto(w, pc)
    BY ZenonT(40), <1>1 DEF AddCheck
  <2> QED
    BY ZenonT(30), <2>2, <2>3, <2>4
<1>2. CASE AddCheckRefused(w)
  <2>1. job' = job
    BY ZenonT(30), <1>2 DEF AddCheckRefused, store
  <2>2. \A j \in Jobs : job'[j] = job[j]
    BY ZenonT(30), <2>1
  <2>3. UNCHANGED <<topology, scheduler, queue>> /\ worker[w].pc \in {"leased", "failing"}
    BY ZenonT(30), <1>2 DEF AddCheckRefused, At, broker
  <2>4. worker' = worker \/ \E pc \in {"failing", "ack", "nack"} : Goto(w, pc)
    BY ZenonT(40), <1>2 DEF AddCheckRefused
  <2> QED
    BY ZenonT(30), <2>2, <2>3, <2>4
<1>3. CASE MarkJobFailed(w)
  <2>1. job' = job \/ job' = [job EXCEPT ![worker[w].job] = Postponed(job[worker[w].job])]
    BY ZenonT(40), <1>3 DEF MarkJobFailed
  <2>2. \A j \in Jobs : job'[j] = job[j] \/ job'[j] = Postponed(job[j])
    BY ZenonT(30), <2>1
  <2>3. UNCHANGED <<topology, scheduler, queue>> /\ worker[w].pc \in {"leased", "failing"}
    BY ZenonT(30), <1>3 DEF MarkJobFailed, At, broker
  <2>4. worker' = worker \/ \E pc \in {"failing", "ack", "nack"} : Goto(w, pc)
    BY ZenonT(40), <1>3 DEF MarkJobFailed
  <2> QED
    BY ZenonT(30), <2>2, <2>3, <2>4
<1>4. CASE MarkJobDead(w)
  <2>1. job' = job \/ job' = [job EXCEPT ![worker[w].job] = Killed(job[worker[w].job])]
    BY ZenonT(40), <1>4 DEF MarkJobDead
  <2>2. \A j \in Jobs : job'[j] = job[j] \/ job'[j] = Killed(job[j])
    BY ZenonT(30), <2>1
  <2>3. UNCHANGED <<topology, scheduler, queue>> /\ worker[w].pc \in {"leased", "failing"}
    BY ZenonT(30), <1>4 DEF MarkJobDead, At, broker
  <2>4. worker' = worker \/ \E pc \in {"failing", "ack", "nack"} : Goto(w, pc)
    BY ZenonT(40), <1>4 DEF MarkJobDead
  <2> QED
    BY ZenonT(30), <2>2, <2>3, <2>4
<1> QED
  BY ZenonT(30), <1>1, <1>2, <1>3, <1>4

\* A published message is added to the copies of its job and attempt.
LEMMA EnqueuedCount ==
  ASSUME queue \in [Jobs -> [1..MaxAttempts -> Nat]], NEW j \in Jobs, NEW a \in 1..MaxAttempts,
         queue' = Enqueued(j, a)
  PROVE  \A k \in Jobs, b \in 1..MaxAttempts :
           /\ queue[k][b] \in Nat
           /\ queue'[k][b] \in {queue[k][b], queue[k][b] + 1}
           /\ k = j /\ b = a => queue'[k][b] = queue[k][b] + 1
           /\ k # j \/ b # a => queue'[k][b] = queue[k][b]
<1>1. queue' = [queue EXCEPT ![j] = [queue[j] EXCEPT ![a] = queue[j][a] + 1]]
  BY ZenonT(30) DEF Enqueued
<1>2. /\ queue'[j] = [queue[j] EXCEPT ![a] = queue[j][a] + 1]
      /\ \A k \in Jobs \ {j} : queue'[k] = queue[k]
  BY ZenonT(30), <1>1
<1>3. queue[j] \in [1..MaxAttempts -> Nat]
  BY ZenonT(30)
<1>4. queue'[j][a] = queue[j][a] + 1 /\ \A b \in 1..MaxAttempts \ {a} : queue'[j][b] = queue[j][b]
  BY ZenonT(30), <1>2, <1>3
<1> QED
  BY ZenonT(40), <1>2, <1>4

\* Settling a job moves the next check and nothing else.
LEMMA RescheduledStatus ==
  ASSUME monitor \in [Monitors -> MonitorRow], NEW j \in Jobs, NEW m \in Monitors
  PROVE  Rescheduled(j)[m].status = monitor[m].status /\ Rescheduled(j)[m].config = monitor[m].config
BY ZenonT(30), JobsAssumption DEF MonitorRow, Rescheduled

\* A recovery handler, whether it reports success or not, takes rows out of the
\* publish path or leaves all of them alone.
LEMMA RecoveryEffect ==
  ASSUME job \in [Jobs -> JobRow],
         RepairTopology \/ RecoveryFails \/ RecoverDetectedTopologyLoss
  PROVE  /\ UNCHANGED <<monitor, results, tokens, queue, deadLetters, scheduler, worker>>
         /\ \A j \in Jobs : \/ job'[j] = job[j]
                            \/ /\ job[j].status \in Active
                               /\ job'[j].status = "failed"
                               /\ job'[j].attempt = job[j].attempt
         /\ \/ UNCHANGED job /\ UNCHANGED topology
            \/ \A j \in Jobs : job'[j].status \notin {"scheduled", "queued"}
<1>1. UNCHANGED <<monitor, results, tokens, queue, deadLetters, scheduler, worker>>
  BY ZenonT(30) DEF RepairTopology, RecoveryFails, RecoverDetectedTopologyLoss
<1>2. CASE RecoverQueuedJobsAfterTopologyLoss
  <2>1. \A j \in Jobs : job'[j] = ReturnedToPublish(job[j]) /\ job[j] \in JobRow
    BY ZenonT(30), <1>2 DEF RecoverQueuedJobsAfterTopologyLoss
  <2> QED
    BY <1>1, <2>1, RowStatus
<1>3. CASE UNCHANGED job /\ UNCHANGED topology
  BY ZenonT(30), <1>1, <1>3
<1> QED
  BY ZenonT(30), <1>2, <1>3 DEF RepairTopology, RecoveryFails, RecoverDetectedTopologyLoss

\* Recording the outcome of a publication changes a row only for its owner.
LEMMA PublicationEffect ==
  ASSUME job \in [Jobs -> JobRow], NEW s \in Schedulers, NEW j \in Jobs,
         MarkJobPublished(s) \/ ReleaseJobPublish(s)
  PROVE  \/ job'[j] = job[j]
         \/ /\ scheduler[s].claim.job = j
            /\ OwnsPublication(scheduler[s].claim)
            /\ job'[j].attempt = job[j].attempt
            /\ \/ MarkJobPublished(s) /\ job'[j].status = "queued"
               \/ ReleaseJobPublish(s) /\ job'[j].status = "scheduled" /\ job'[j].publicationToken = 0
<1> DEFINE c == scheduler[s].claim
<1>1. CASE ~OwnsPublication(c) \/ c.job # j
  BY ZenonT(30), <1>1 DEF MarkJobPublished, ReleaseJobPublish
<1>2. CASE OwnsPublication(c) /\ c.job = j /\ MarkJobPublished(s)
  <2>1. job'[j] = [job[j] EXCEPT !.status = "queued", !.lease = "none"]
    BY ZenonT(30), <1>2 DEF MarkJobPublished
  <2> QED
    BY <1>2, <2>1 DEF JobRow
<1>3. CASE OwnsPublication(c) /\ c.job = j /\ ReleaseJobPublish(s)
  <2>1. job'[j] = [job[j] EXCEPT !.lease = "none", !.publicationToken = 0]
    BY ZenonT(30), <1>3 DEF ReleaseJobPublish
  <2>2. job[j].status = "scheduled"
    BY ZenonT(30), <1>3 DEF OwnsPublication
  <2> QED
    BY <1>3, <2>1, <2>2 DEF JobRow
<1> QED
  BY ZenonT(30), <1>1, <1>2, <1>3

\* No step turns a finished or unknown job into an unfinished one, except the
\* creation of a job for a monitor that exists.
LEMMA MonitorStep == TypeOK /\ MonitorInv /\ [Next]_vars => MonitorInv'
<1> USE JobsAssumption
<1> SUFFICES ASSUME TypeOK, MonitorInv, [Next]_vars PROVE MonitorInv'
  BY ZenonT(30)
<1>m. monitor \in [Monitors -> MonitorRow]
  BY ZenonT(30) DEF TypeOK
<1>j. job \in [Jobs -> JobRow]
  BY ZenonT(30) DEF TypeOK
<1>0. ASSUME \A m \in Monitors : monitor'[m].status = monitor[m].status,
             \A j \in Jobs : job'[j].status \in Active => job[j].status \in Active
      PROVE  MonitorInv'
  BY ZenonT(30), <1>0 DEF MonitorInv, Exists
<1>1. ASSUME NEW m \in Monitors, NEW enabled \in BOOLEAN, Create(m, enabled)
      PROVE  MonitorInv'
  <2>1. \A k \in Monitors : Exists(k) => Exists(k)'
    BY ZenonT(30), <1>1, <1>m DEF Create, Exists, MonitorRow
  <2> QED
    BY ZenonT(30), <1>1, <2>1 DEF Create, MonitorInv
<1>2. ASSUME NEW m \in Monitors, NEW enabled \in BOOLEAN, NEW semantics \in BOOLEAN,
             NEW interval \in BOOLEAN, Update(m, enabled, semantics, interval)
      PROVE  MonitorInv'
  <2>1. \A k \in Monitors : Exists(k) => Exists(k)'
    BY SMTT(30), <1>2, <1>m DEF Update, Exists, MonitorRow
  <2>2. \A j \in Jobs : job'[j].status \in Active => job[j].status \in Active
    <3> SUFFICES ASSUME NEW j \in Jobs PROVE job'[j].status \in Active => job[j].status \in Active
      BY ZenonT(30)
    <3>1. job'[j] = job[j] \/ job'[j] = Killed(job[j])
      BY ZenonT(30), <1>2 DEF Update, JobsAfterUpdate
    <3>2. Killed(job[j]).status = "dead"
      BY ZenonT(30), <1>j, RowStatus
    <3> QED
      BY ZenonT(30), <3>1, <3>2 DEF Active
  <2> QED
    BY ZenonT(30), <2>1, <2>2 DEF MonitorInv
<1>3. ASSUME NEW m \in Monitors, Delete(m)
      PROVE  MonitorInv'
  <2>1. \A k \in Monitors \ {m} : Exists(k) => Exists(k)'
    BY ZenonT(30), <1>3, <1>m DEF Delete, Exists
  <2>2. ASSUME NEW j \in Jobs, job'[j].status \in Active
        PROVE  job[j].status \in Active /\ MonitorOf[j] # m
    <3>1. CASE MonitorOf[j] = m /\ job[j].status # "none"
      <4>1. job'[j] = Deleted(job[j])
        BY ZenonT(30), <1>3, <3>1 DEF Delete
      <4> QED
        BY <2>2, <4>1, <1>j, RowStatus DEF Active
    <3>2. CASE ~(MonitorOf[j] = m /\ job[j].status # "none")
      <4>1. job'[j] = job[j]
        BY ZenonT(30), <1>3, <3>2 DEF Delete
      <4> QED
        BY ZenonT(30), <2>2, <3>2, <4>1 DEF Active
    <3> QED
      BY ZenonT(30), <3>1, <3>2
  <2> QED
    BY ZenonT(30), <2>1, <2>2 DEF MonitorInv
<1>4. ASSUME NEW m \in Monitors, NEW j \in Jobs, CreateManualJob(m, j)
      PROVE  MonitorInv'
  BY ZenonT(30), <1>4, <1>j DEF CreateManualJob, MonitorInv, Exists
<1>5. ASSUME NEW s \in Schedulers, NEW batch \in SUBSET Jobs, NEW fresh \in SUBSET Jobs,
             ClaimDueJobs(s, batch, fresh)
      PROVE  MonitorInv'
  <2>1. \A k \in Monitors : monitor'[k].status = monitor[k].status
    BY ZenonT(30), <1>5, <1>m DEF ClaimDueJobs, MonitorRow
  <2>2. ASSUME NEW j \in Jobs, job'[j].status \in Active
        PROVE  Exists(MonitorOf[j])
    <3>1. job'[j] = ClaimedRow(j, batch, fresh)
      BY ZenonT(30), <1>5 DEF ClaimDueJobs
    <3>2. CASE j \in batch
      <4>1. Recovered(job[j]).status \in Active
        BY ZenonT(30), <1>5, <3>2 DEF ClaimDueJobs, Claimable, Active
      <4> QED
        BY ZenonT(30), <4>1, <1>j, RowStatus DEF MonitorInv
    <3>3. CASE j \notin batch /\ j \in fresh
      BY ZenonT(30), <1>5, <3>3 DEF ClaimDueJobs, DueMonitor, Exists
    <3>4. CASE j \notin batch /\ j \notin fresh
      <4>1. Recovered(job[j]).status \in Active
        BY ZenonT(30), <2>2, <3>1, <3>4 DEF ClaimedRow
      <4> QED
        BY ZenonT(30), <4>1, <1>j, RowStatus DEF MonitorInv
    <3> QED
      BY ZenonT(30), <3>2, <3>3, <3>4
  <2> QED
    BY ZenonT(30), <2>1, <2>2 DEF MonitorInv, Exists
<1>6. ASSUME NEW s \in Schedulers, MarkJobPublished(s) \/ ReleaseJobPublish(s)
      PROVE  MonitorInv'
  <2>1. monitor' = monitor
    BY ZenonT(30), <1>6 DEF MarkJobPublished, ReleaseJobPublish
  <2>2. \A j \in Jobs : job'[j].status \in Active => job[j].status \in Active
    <3> DEFINE c == scheduler[s].claim
    <3>1. CASE MarkJobPublished(s)
      <4>1. job' = job \/ (job[c.job].status = "scheduled" /\
                           job' = [job EXCEPT ![c.job] = [job[c.job] EXCEPT !.status = "queued", !.lease = "none"]])
        BY ZenonT(40), <3>1 DEF MarkJobPublished, OwnsPublication
      <4> HIDE DEF c
      <4>2. \A j \in Jobs : job'[j] = job[j] \/ job[j].status = "scheduled"
        BY ZenonT(30), <1>j, <4>1
      <4> QED
        BY ZenonT(30), <4>2 DEF Active
    <3>2. CASE ReleaseJobPublish(s)
      <4>1. job' = job \/ (job[c.job].status = "scheduled" /\
                           job' = [job EXCEPT ![c.job] = [job[c.job] EXCEPT !.lease = "none", !.publicationToken = 0]])
        BY ZenonT(40), <3>2 DEF ReleaseJobPublish, OwnsPublication
      <4> HIDE DEF c
      <4>2. \A j \in Jobs : job'[j] = job[j] \/ job[j].status = "scheduled"
        BY ZenonT(30), <1>j, <4>1
      <4> QED
        BY ZenonT(30), <4>2 DEF Active
    <3> QED
      BY ZenonT(30), <1>6, <3>1, <3>2
  <2> QED
    BY ZenonT(30), <2>1, <2>2, <1>0
<1>7. ASSUME NEW w \in Workers, MarkJobProcessing(w)
      PROVE  MonitorInv'
  <2>1. \A j \in Jobs : job'[j].status \in Active => job[j].status \in Active
    BY ZenonT(30), <1>7, <1>j DEF MarkJobProcessing, MayProcess, ProcessingJob, Active, JobRow
  <2> QED
    BY ZenonT(30), <1>7, <2>1, <1>0 DEF MarkJobProcessing
<1>8. ASSUME NEW w \in Workers, AddCheck(w) \/ MarkJobDead(w)
      PROVE  MonitorInv'
  <2>1. \A m \in Monitors : monitor'[m].status = monitor[m].status
    <3>1. worker[w].job \in Jobs
      BY ZenonT(30), <1>8 DEF AddCheck, MarkJobDead, At, TypeOK
    <3>2. monitor' = monitor \/ monitor' = Rescheduled(worker[w].job)
      BY ZenonT(30), <1>8 DEF AddCheck, MarkJobDead
    <3> QED
      BY ZenonT(30), <3>1, <3>2, <1>m, RescheduledStatus
  <2>2. \A j \in Jobs : \/ job'[j] = job[j]
                        \/ job'[j] = Completed(job[j])
                        \/ job'[j] = Killed(job[j])
    BY ZenonT(30), <1>8, <1>j DEF AddCheck, MarkJobDead
  <2>3. \A j \in Jobs : job'[j].status \in Active => job[j].status \in Active
    BY <2>2, <1>j, RowStatus DEF Active
  <2> QED
    BY ZenonT(30), <2>1, <2>3, <1>0
<1>9. ASSUME NEW w \in Workers, MarkJobFailed(w)
      PROVE  MonitorInv'
  <2>1. \A j \in Jobs : job'[j] = job[j] \/ job[j].status = "processing"
    BY ZenonT(30), <1>9, <1>j DEF MarkJobFailed, OwnsLease
  <2> QED
    BY ZenonT(30), <1>9, <2>1, <1>0 DEF MarkJobFailed, Active
<1>10. ASSUME RepairTopology \/ RecoveryFails \/ RecoverDetectedTopologyLoss
       PROVE  MonitorInv'
  BY ZenonT(30), <1>10, <1>0, <1>j, RecoveryEffect
<1>11. ASSUME NEW j \in Jobs, ExpireLease(j) \/ BecomeAvailable(j)
       PROVE  MonitorInv'
  <2>1. \A k \in Jobs : job'[k].status = job[k].status
    BY <1>11, <1>j DEF ExpireLease, BecomeAvailable, JobRow
  <2> QED
    BY ZenonT(30), <1>11, <2>1, <1>0 DEF ExpireLease, BecomeAvailable
<1>12. ASSUME NEW m \in Monitors, BecomeDue(m)
       PROVE  MonitorInv'
  <2>1. \A k \in Monitors : monitor'[k].status = monitor[k].status
    BY ZenonT(30), <1>12, <1>m DEF BecomeDue, MonitorRow
  <2> QED
    BY ZenonT(30), <1>12, <2>1, <1>0 DEF BecomeDue
<1>13. ASSUME NEW s \in Schedulers,
              \/ Ping(s) \/ PublicationWriteFails(s) \/ SchedulerCrash(s)
              \/ \E c \in scheduler[s].batch :
                   PublishConfirmed(s, c) \/ PublishUnconfirmed(s, c) \/ PublishFailed(s, c)
       PROVE  MonitorInv'
  BY ZenonT(30), <1>13, <1>0 DEF Ping, PublicationWriteFails, SchedulerCrash, PublishConfirmed,
                     PublishUnconfirmed, PublishFailed, store
<1>14. ASSUME NEW w \in Workers,
              \/ \E j \in Jobs, a \in 1..MaxAttempts : Receive(w, j, a)
              \/ GetMonitor(w) \/ MarkJobProcessingRefused(w) \/ AddCheckRefused(w)
              \/ Ack(w) \/ Nack(w) \/ Requeue(w) \/ WorkerCrash(w) \/ ConnectionLost(w)
       PROVE  MonitorInv'
  <2>1. UNCHANGED <<monitor, job>>
    BY ZenonT(30), <1>14 DEF Receive, GetMonitor, MarkJobProcessingRefused, AddCheckRefused, Ack, Nack,
                 Requeue, WorkerCrash, ConnectionLost, store
  <2> QED
    BY ZenonT(30), <2>1, <1>0
<1>15. ASSUME LoseQueue \/ DeclareTopology \/ UNCHANGED vars
       PROVE  MonitorInv'
  BY ZenonT(30), <1>15, <1>0 DEF LoseQueue, DeclareTopology, store, vars
<1> QED
  BY ZenonT(30), <1>1, <1>2, <1>3, <1>4, <1>5, <1>6, <1>7, <1>8, <1>9, <1>10, <1>11, <1>12, <1>13,
     <1>14, <1>15
  DEF Next, ApiStep, SchedulerStep, WorkerStep, TopologyStep, TimeStep

\* Only ClaimDueJobs adds claims, and it adds them for jobs it has just created
\* or found retryable, under a token it has just handed out.
LEMMA ClaimsStep == TypeOK /\ ClaimsInv /\ [Next]_vars => ClaimsInv'
<1> USE BoundsAssumption
<1> SUFFICES ASSUME TypeOK, ClaimsInv, [Next]_vars PROVE ClaimsInv'
  BY ZenonT(30)
<1>j. job \in [Jobs -> JobRow]
  BY ZenonT(30) DEF TypeOK
<1>s. scheduler \in [Schedulers -> SchedulerState]
  BY ZenonT(30) DEF TypeOK
<1>t. tokens \in Nat
  BY ZenonT(30) DEF TypeOK
<1>0. ASSUME tokens' \in Nat, tokens' >= tokens,
             \A s \in Schedulers : Claims(s)' \subseteq Claims(s),
             \A j \in Jobs : job'[j].status = "none" => job'[j] = job[j]
      PROVE  ClaimsInv'
  <2>1. \A j \in Jobs : job'[j].status = "none" => job'[j].attempt = 0
    BY ZenonT(30), <1>0 DEF ClaimsInv
  <2>2. ASSUME NEW s \in Schedulers, NEW c \in Claims(s)'
        PROVE  /\ c \in PublicationClaim
               /\ c.attempt < MaxAttempts
               /\ c.token \in 1..tokens'
               /\ job'[c.job].status # "none"
    <3>1. /\ c \in PublicationClaim
          /\ c.attempt < MaxAttempts
          /\ c.token \in 1..tokens
          /\ job[c.job].status # "none"
      BY ZenonT(30), <1>0, <2>2 DEF ClaimsInv
    <3>2. c.job \in Jobs
      BY ZenonT(30), <3>1 DEF PublicationClaim
    <3>3. c.token \in 1..tokens'
      BY <3>1, <1>0, <1>t
    <3> QED
      BY ZenonT(30), <3>1, <3>2, <3>3, <1>0
  <2> QED
    BY ZenonT(30), <2>1, <2>2 DEF ClaimsInv
<1>1. ASSUME UNCHANGED scheduler PROVE \A s \in Schedulers : Claims(s)' = Claims(s)
  BY ZenonT(30), <1>1 DEF Claims
<1>2. ASSUME NEW m \in Monitors, NEW enabled \in BOOLEAN, NEW semantics \in BOOLEAN,
             NEW interval \in BOOLEAN,
             Create(m, enabled) \/ Update(m, enabled, semantics, interval) \/ Delete(m)
      PROVE  ClaimsInv'
  <2>1. \A j \in Jobs : job'[j] \in {job[j], Killed(job[j]), Deleted(job[j])}
    BY ZenonT(30), <1>2, <1>j DEF Create, Update, Delete, JobsAfterUpdate
  <2>2. \A j \in Jobs : job'[j].status = "none" => job'[j] = job[j]
    BY <2>1, <1>j, RowStatus
  <2> QED
    BY <1>2, <2>2, <1>0, <1>1, <1>t DEF Create, Update, Delete
<1>3. ASSUME NEW m \in Monitors, NEW j \in Jobs, CreateManualJob(m, j)
      PROVE  ClaimsInv'
  <2>1. \A k \in Jobs : job'[k].status = "none" => job'[k] = job[k]
    BY ZenonT(30), <1>3, <1>j DEF CreateManualJob, JobRow
  <2> QED
    BY <1>3, <2>1, <1>0, <1>1, <1>t DEF CreateManualJob
<1>4. ASSUME NEW s \in Schedulers, NEW batch \in SUBSET Jobs, NEW fresh \in SUBSET Jobs,
             ClaimDueJobs(s, batch, fresh)
      PROVE  ClaimsInv'
  <2>1. \A j \in batch \cup fresh : job[j].attempt \in Nat /\ job[j].attempt < MaxAttempts
    <3>1. \A j \in batch : job[j].attempt < MaxAttempts
      BY <1>4, <1>j, RowStatus DEF ClaimDueJobs, Claimable
    <3>2. \A j \in fresh : job[j].attempt = 0
      BY ZenonT(30), <1>4 DEF ClaimDueJobs, ClaimsInv
    <3>3. \A j \in Jobs : job[j].attempt \in Nat
      BY ZenonT(30), <1>j DEF JobRow
    <3> QED
      BY <3>1, <3>2, <3>3
  <2>2. ASSUME NEW j \in Jobs
        PROVE  /\ j \in batch \cup fresh => job'[j].status = "scheduled"
               /\ job'[j].status = "none" => job'[j] = job[j]
    <3>1. job'[j] = ClaimedRow(j, batch, fresh)
      BY ZenonT(30), <1>4 DEF ClaimDueJobs
    <3>2. job[j] \in JobRow /\ Recovered(job[j]) \in JobRow
      BY ZenonT(40), <1>j, RowTypes
    <3>3. CASE j \in batch \cup fresh
      <4>1. job'[j].status = "scheduled"
        BY ZenonT(30), <3>1, <3>2, <3>3 DEF ClaimedRow, JobRow
      <4> QED
        BY ZenonT(30), <4>1
    <3>4. CASE j \notin batch \cup fresh
      BY <3>1, <3>2, <3>4, RowStatus DEF ClaimedRow
    <3> QED
      BY ZenonT(30), <3>3, <3>4
  <2>3. tokens' \in Nat /\ tokens' >= tokens /\ (batch \cup fresh # {} => tokens' = tokens + 1)
    BY <1>4, <1>t DEF ClaimDueJobs
  <2>4. ASSUME NEW t \in Schedulers, NEW c \in Claims(t)'
        PROVE  /\ c \in PublicationClaim
               /\ c.attempt < MaxAttempts
               /\ c.token \in 1..tokens'
               /\ job'[c.job].status # "none"
    <3>1. CASE t = s
      <4>1. PICK j \in batch \cup fresh :
              c = [job |-> j, attempt |-> job[j].attempt, token |-> tokens + 1]
        BY ZenonT(30), <1>4, <3>1, <2>4, <1>s DEF ClaimDueJobs, Claims
      <4>2. c.job = j /\ c.attempt = job[j].attempt /\ c.token = tokens + 1
        BY ZenonT(30), <4>1
      <4>3. c \in PublicationClaim
        BY <4>1, <2>1, <1>t DEF PublicationClaim
      <4>4. c.token \in 1..tokens'
        BY <4>2, <2>3, <1>t
      <4> QED
        BY ZenonT(30), <4>2, <4>3, <4>4, <2>1, <2>2
    <3>2. CASE t # s
      <4>1. c \in Claims(t)
        BY ZenonT(30), <1>4, <3>2, <2>4, <1>s DEF ClaimDueJobs, Claims
      <4>2. /\ c \in PublicationClaim
            /\ c.attempt < MaxAttempts
            /\ c.token \in 1..tokens
            /\ job[c.job].status # "none"
        BY ZenonT(30), <4>1 DEF ClaimsInv
      <4>3. c.job \in Jobs
        BY ZenonT(30), <4>2 DEF PublicationClaim
      <4>4. c.token \in 1..tokens'
        BY <4>2, <2>3, <1>t
      <4> QED
        BY ZenonT(30), <4>2, <4>3, <4>4, <2>2
    <3> QED
      BY ZenonT(30), <3>1, <3>2
  <2> QED
    BY ZenonT(30), <2>2, <2>4 DEF ClaimsInv
<1>5. ASSUME NEW s \in Schedulers, NEW c \in scheduler[s].batch,
             PublishConfirmed(s, c) \/ PublishUnconfirmed(s, c) \/ PublishFailed(s, c)
      PROVE  ClaimsInv'
  <2>1. \A t \in Schedulers : Claims(t)' \subseteq Claims(t)
    BY <1>5, <1>s, <1>1 DEF PublishConfirmed, PublishUnconfirmed, PublishFailed, Claims
  <2>2. UNCHANGED <<job, tokens>>
    BY ZenonT(30), <1>5 DEF PublishConfirmed, PublishUnconfirmed, PublishFailed, store
  <2> QED
    BY <2>1, <2>2, <1>0, <1>t
<1>6. ASSUME NEW s \in Schedulers, Ping(s) \/ SchedulerCrash(s) \/ PublicationWriteFails(s)
      PROVE  ClaimsInv'
  <2>1. \A t \in Schedulers : Claims(t)' \subseteq Claims(t)
    <3>1. CASE Ping(s)
      BY <3>1, <1>s DEF Ping, Claims, SchedulerState
    <3>2. CASE SchedulerCrash(s)
      BY ZenonT(30), <3>2, <1>s DEF SchedulerCrash, Claims, IdleScheduler
    <3>3. CASE PublicationWriteFails(s)
      BY ZenonT(30), <3>3, <1>s DEF PublicationWriteFails, NextClaim, Claims
    <3> QED
      BY ZenonT(30), <1>6, <3>1, <3>2, <3>3
  <2>2. UNCHANGED <<job, tokens>>
    BY ZenonT(30), <1>6 DEF Ping, SchedulerCrash, PublicationWriteFails, store
  <2> QED
    BY <2>1, <2>2, <1>0, <1>t
<1>7. ASSUME NEW s \in Schedulers, MarkJobPublished(s) \/ ReleaseJobPublish(s)
      PROVE  ClaimsInv'
  <2>1. \A t \in Schedulers : Claims(t)' \subseteq Claims(t)
    BY <1>7, <1>s DEF MarkJobPublished, ReleaseJobPublish, NextClaim, Claims
  <2>2. \A j \in Jobs : job'[j].status = "none" => job'[j] = job[j]
    BY ZenonT(30), <1>7, <1>j, PublicationEffect
  <2> QED
    BY <1>7, <2>1, <2>2, <1>0, <1>t DEF MarkJobPublished, ReleaseJobPublish
<1>8. ASSUME NEW w \in Workers, MarkJobProcessing(w)
      PROVE  ClaimsInv'
  <2>1. \A j \in Jobs : job'[j].status = "none" => job'[j] = job[j]
    BY <1>8, <1>j DEF MarkJobProcessing, ProcessingJob, JobRow
  <2> QED
    BY <1>8, <2>1, <1>0, <1>1, <1>t DEF MarkJobProcessing
<1>9. ASSUME NEW w \in Workers, AddCheck(w) \/ MarkJobDead(w) \/ MarkJobFailed(w)
      PROVE  ClaimsInv'
  <2>1. \A j \in Jobs : \/ job'[j] = job[j] \/ job'[j] = Completed(job[j])
                        \/ job'[j] = Killed(job[j]) \/ job'[j] = Postponed(job[j])
    BY ZenonT(30), <1>9, <1>j, OutcomeEffect
  <2>2. \A j \in Jobs : job'[j].status = "none" => job'[j] = job[j]
    BY <2>1, <1>j, RowStatus
  <2>3. UNCHANGED <<tokens, scheduler>>
    BY ZenonT(40), <1>9 DEF AddCheck, MarkJobDead, MarkJobFailed
  <2> QED
    BY SMTT(30), <2>2, <2>3, <1>0, <1>1, <1>t
<1>10. ASSUME NEW w \in Workers,
              \/ \E j \in Jobs, a \in 1..MaxAttempts : Receive(w, j, a)
              \/ GetMonitor(w) \/ MarkJobProcessingRefused(w) \/ AddCheckRefused(w)
              \/ Ack(w) \/ Nack(w) \/ Requeue(w) \/ WorkerCrash(w) \/ ConnectionLost(w)
       PROVE  ClaimsInv'
  <2>1. UNCHANGED <<job, tokens, scheduler>>
    BY ZenonT(30), <1>10 DEF Receive, GetMonitor, MarkJobProcessingRefused, AddCheckRefused, Ack, Nack,
                 Requeue, WorkerCrash, ConnectionLost, store
  <2> QED
    BY <2>1, <1>0, <1>1, <1>t
<1>11. ASSUME RepairTopology \/ RecoveryFails \/ RecoverDetectedTopologyLoss
       PROVE  ClaimsInv'
  BY <1>11, <1>0, <1>1, <1>j, <1>t, RecoveryEffect
<1>12. ASSUME LoseQueue \/ DeclareTopology \/ UNCHANGED vars
       PROVE  ClaimsInv'
  <2>1. UNCHANGED <<job, tokens, scheduler>>
    BY ZenonT(30), <1>12 DEF LoseQueue, DeclareTopology, store, vars
  <2> QED
    BY <2>1, <1>0, <1>1, <1>t
<1>13. ASSUME NEW j \in Jobs, ExpireLease(j) \/ BecomeAvailable(j)
       PROVE  ClaimsInv'
  <2>2. \A k \in Jobs : job'[k].status = job[k].status /\ job'[k].attempt = job[k].attempt
    BY <1>13, <1>j DEF ExpireLease, BecomeAvailable, JobRow
  <2>3. UNCHANGED <<tokens, scheduler>>
    BY ZenonT(30), <1>13 DEF ExpireLease, BecomeAvailable
  <2>4. \A s \in Schedulers : \A c \in Claims(s) : c.job \in Jobs
    BY ZenonT(30) DEF ClaimsInv, PublicationClaim
  <2> QED
    BY <2>2, <2>3, <2>4, <1>1 DEF ClaimsInv
<1>14. ASSUME NEW m \in Monitors, BecomeDue(m)
       PROVE  ClaimsInv'
  BY <1>14, <1>0, <1>1, <1>t DEF BecomeDue
<1> QED
  BY ZenonT(40), <1>2, <1>3, <1>4, <1>5, <1>6, <1>7, <1>8, <1>9, <1>10, <1>11, <1>12, <1>13, <1>14
  DEF Next, ApiStep, SchedulerStep, WorkerStep, TopologyStep, TimeStep

-----------------------------------------------------------------------------
(* Messages: a queued job's next attempt is in transit *)

\* A step that keeps the messages it must not lose keeps every promise.
LEMMA PromisesKept ==
  ASSUME TransitInv, topology' = topology,
         \A j \in Jobs : Promised(j)' => Promised(j) /\ job'[j].attempt = job[j].attempt,
         \A j \in Jobs : \A a : Promised(j) /\ a = job[j].attempt + 1 /\ InTransit(j, a)
                                  => InTransit(j, a)'
  PROVE  TransitInv'
BY ZenonT(30) DEF TransitInv

\* A step that leaves the broker and the workers alone leaves every message where it is.
LEMMA TransitUnchanged ==
  ASSUME UNCHANGED <<queue, worker>>
  PROVE  \A j, a : InTransit(j, a) => InTransit(j, a)'
BY ZenonT(30) DEF InTransit

\* A row that keeps its publication, or leaves the publish path, promises nothing new.
LEMMA PromisedNarrows ==
  ASSUME UNCHANGED scheduler, NEW j \in Jobs,
         \/ /\ job'[j].status = job[j].status
            /\ job'[j].attempt = job[j].attempt
            /\ job'[j].publicationToken = job[j].publicationToken
         \/ job'[j].status \notin {"scheduled", "queued"}
  PROVE  Promised(j)' => Promised(j) /\ job'[j].attempt = job[j].attempt
BY ZenonT(30) DEF Promised, Confirmed

\* Only an unfinished job is promised a message.
LEMMA PromisedActive ==
  ASSUME NEW j \in Jobs, Promised(j)
  PROVE  job[j].status \in {"scheduled", "queued"}
BY ZenonT(30) DEF Promised, Confirmed

\* The message of a worker that gives its delivery back is in transit again.
LEMMA RedeliveredKept ==
  ASSUME TypeOK, NEW w \in Workers, worker[w].pc # "idle", queue' = Redelivered(w),
         \A v \in Workers \ {w} : worker'[v] = worker[v]
  PROVE  \A j \in Jobs : \A a : InTransit(j, a) => InTransit(j, a)'
<1> SUFFICES ASSUME NEW j \in Jobs, NEW a, InTransit(j, a) PROVE InTransit(j, a)'
  BY ZenonT(30)
<1>q. queue \in [Jobs -> [1..MaxAttempts -> Nat]]
  BY ZenonT(30) DEF TypeOK
<1>w. worker[w].job \in Jobs /\ worker[w].attempt \in 1..MaxAttempts
  BY ZenonT(30) DEF TypeOK
<1>1. \A k \in Jobs, b \in 1..MaxAttempts :
        /\ queue[k][b] \in Nat
        /\ queue'[k][b] \in {queue[k][b], queue[k][b] + 1}
        /\ worker[w].owned /\ k = worker[w].job /\ b = worker[w].attempt =>
             queue'[k][b] = queue[k][b] + 1
  BY ZenonT(40), <1>q, <1>w DEF Redelivered, Enqueued
<1>2. CASE a \in 1..MaxAttempts /\ queue[j][a] > 0
  BY <1>1, <1>2 DEF InTransit
<1>3. ASSUME NEW v \in Workers, worker[v].pc \in {"received", "looked_up", "requeue"},
             worker[v].owned, worker[v].job = j, worker[v].attempt = a
      PROVE  InTransit(j, a)'
  <2>1. CASE v = w
    <3>1. a \in 1..MaxAttempts /\ queue[j][a] \in Nat /\ queue'[j][a] = queue[j][a] + 1
      BY ZenonT(30), <1>1, <1>3, <1>w, <2>1
    <3> QED
      BY SMTT(30), <3>1 DEF InTransit
  <2>2. CASE v # w
    <3>1. worker'[v] = worker[v]
      BY ZenonT(30), <2>2
    <3> QED
      BY ZenonT(30), <1>3, <3>1 DEF InTransit
  <2> QED
    BY ZenonT(30), <2>1, <2>2
<1> QED
  BY ZenonT(30), <1>2, <1>3 DEF InTransit

\* A message that moves on within its worker stays in transit as long as the
\* worker has not decided to settle it.
LEMMA MovedOnKept ==
  ASSUME NEW w \in Workers, UNCHANGED queue,
         \A v \in Workers \ {w} : worker'[v] = worker[v],
         worker'[w].job = worker[w].job, worker'[w].attempt = worker[w].attempt,
         worker'[w].owned = worker[w].owned,
         NEW j \in Jobs, NEW a, InTransit(j, a),
         \/ worker'[w].pc \in {"received", "looked_up", "requeue"}
         \/ worker[w].job # j
         \/ worker[w].attempt # a
         \/ worker[w].pc \notin {"received", "looked_up", "requeue"}
  PROVE  InTransit(j, a)'
<1>1. CASE a \in 1..MaxAttempts /\ queue[j][a] > 0
  BY ZenonT(30), <1>1 DEF InTransit
<1>2. ASSUME NEW v \in Workers, worker[v].pc \in {"received", "looked_up", "requeue"},
             worker[v].owned, worker[v].job = j, worker[v].attempt = a
      PROVE  InTransit(j, a)'
  <2>1. CASE v = w
    BY ZenonT(30), <1>2, <2>1 DEF InTransit
  <2>2. CASE v # w
    <3>1. worker'[v] = worker[v]
      BY ZenonT(30), <2>2
    <3> QED
      BY ZenonT(30), <1>2, <3>1 DEF InTransit
  <2> QED
    BY ZenonT(30), <2>1, <2>2
<1> QED
  BY ZenonT(30), <1>1, <1>2 DEF InTransit

\* No interleaving loses a promised message: the actions that drop one are refused
\* by the row it belongs to, and the loss of the queue ends every promise.
LEMMA TransitStep ==
  TypeOK /\ MonitorInv /\ ClaimsInv /\ TransitInv /\ [Next]_vars => TransitInv'
<1> USE JobsAssumption, BoundsAssumption
<1> SUFFICES ASSUME TypeOK, MonitorInv, ClaimsInv, TransitInv, [Next]_vars PROVE TransitInv'
  BY ZenonT(30)
<1>j. job \in [Jobs -> JobRow]
  BY ZenonT(30) DEF TypeOK
<1>s. scheduler \in [Schedulers -> SchedulerState]
  BY ZenonT(30) DEF TypeOK
<1>w. worker \in [Workers -> WorkerState]
  BY ZenonT(30) DEF TypeOK
<1>t. tokens \in Nat
  BY ZenonT(30) DEF TypeOK
<1>1. ASSUME NEW m \in Monitors, NEW enabled \in BOOLEAN, NEW semantics \in BOOLEAN,
             NEW interval \in BOOLEAN,
             Create(m, enabled) \/ Update(m, enabled, semantics, interval) \/ Delete(m)
      PROVE  TransitInv'
  <2>1. \A j \in Jobs : job'[j] \in {job[j], Killed(job[j]), Deleted(job[j])}
    BY ZenonT(30), <1>1, <1>j DEF Create, Update, Delete, JobsAfterUpdate
  <2>2. UNCHANGED <<topology, queue, worker, scheduler>>
    BY ZenonT(30), <1>1 DEF Create, Update, Delete, broker
  <2>3. \A j \in Jobs : Promised(j)' => Promised(j) /\ job'[j].attempt = job[j].attempt
    BY ZenonT(30), <2>1, <2>2, <1>j, RowStatus, PromisedNarrows
  <2> QED
    BY ZenonT(30), <2>2, <2>3, PromisesKept, TransitUnchanged
<1>2. ASSUME NEW m \in Monitors, NEW k \in Jobs, CreateManualJob(m, k)
      PROVE  TransitInv'
  <2>1. \A j \in Jobs \ {k} : job'[j] = job[j]
    BY ZenonT(30), <1>2, <1>j DEF CreateManualJob
  <2>2. UNCHANGED <<topology, queue, worker, scheduler>>
    BY ZenonT(30), <1>2 DEF CreateManualJob, broker
  <2>3. job[k].status = "none" /\ job'[k].status = "scheduled"
    BY ZenonT(30), <1>2, <1>j DEF CreateManualJob, JobRow
  <2>4. ~Promised(k)'
    <3>1. \A s \in Schedulers : scheduler[s].pc = "published" => scheduler[s].claim.job # k
      BY ZenonT(30), <2>3 DEF ClaimsInv, Claims
    <3> QED
      BY ZenonT(30), <2>2, <2>3, <3>1 DEF Promised, Confirmed
  <2>5. \A j \in Jobs : Promised(j)' => Promised(j) /\ job'[j].attempt = job[j].attempt
    BY ZenonT(30), <2>1, <2>2, <2>4, PromisedNarrows
  <2> QED
    BY ZenonT(30), <2>2, <2>5, PromisesKept, TransitUnchanged
<1>3. ASSUME NEW s \in Schedulers, NEW batch \in SUBSET Jobs, NEW fresh \in SUBSET Jobs,
             ClaimDueJobs(s, batch, fresh)
      PROVE  TransitInv'
  <2>1. UNCHANGED <<topology, queue, worker>>
    BY ZenonT(30), <1>3 DEF ClaimDueJobs, broker
  <2>2. ASSUME NEW j \in Jobs, Promised(j)'
        PROVE  Promised(j) /\ job'[j].attempt = job[j].attempt
    <3>1. job'[j] = ClaimedRow(j, batch, fresh)
      BY ZenonT(30), <1>3 DEF ClaimDueJobs
    <3>2. job[j] \in JobRow /\ Recovered(job[j]) \in JobRow
      BY ZenonT(40), <1>j, RowTypes
    <3>3. \A t \in Schedulers : t # s => scheduler'[t] = scheduler[t]
      BY ZenonT(30), <1>3, <1>s DEF ClaimDueJobs
    <3>4. scheduler'[s].pc # "published"
      BY ZenonT(30), <1>3, <1>s DEF ClaimDueJobs
    <3>5. CASE j \in batch \cup fresh
      <4>1. job'[j].status = "scheduled" /\ job'[j].publicationToken = tokens + 1
        BY ZenonT(30), <3>1, <3>2, <3>5, <1>t DEF ClaimedRow, JobRow
      <4>2. PICK t \in Schedulers : Confirmed(t, j)'
        BY ZenonT(30), <2>2, <4>1 DEF Promised
      <4>3. t # s
        BY ZenonT(30), <3>4, <4>2 DEF Confirmed
      <4>4. scheduler[t].pc = "published" /\ scheduler[t].claim.token = tokens + 1
        BY ZenonT(30), <3>3, <4>1, <4>2, <4>3 DEF Confirmed
      <4>5. scheduler[t].claim.token \in 1..tokens
        BY ZenonT(30), <4>4 DEF ClaimsInv, Claims
      <4> QED
        BY <4>4, <4>5, <1>t
    <3>6. CASE j \notin batch \cup fresh
      <4>1. job'[j] = Recovered(job[j])
        BY ZenonT(30), <3>1, <3>6 DEF ClaimedRow
      <4>2. job'[j].status \in {"scheduled", "queued"}
        BY ZenonT(30), <2>2 DEF Promised, Confirmed
      <4>3. job'[j] = job[j]
        BY ZenonT(30), <4>1, <4>2, <3>2, RowStatus
      <4> QED
        BY ZenonT(30), <2>2, <3>3, <3>4, <4>3 DEF Promised, Confirmed
    <3> QED
      BY ZenonT(30), <3>5, <3>6
  <2> QED
    BY ZenonT(30), <2>1, <2>2, PromisesKept, TransitUnchanged
<1>4. ASSUME NEW s \in Schedulers, NEW c \in scheduler[s].batch, PublishConfirmed(s, c)
      PROVE  TransitInv'
  <2>1. c \in PublicationClaim /\ c.attempt < MaxAttempts
    BY ZenonT(30) DEF ClaimsInv, Claims
  <2>2. c.job \in Jobs /\ c.attempt + 1 \in 1..MaxAttempts
    BY <2>1 DEF PublicationClaim
  <2>3. UNCHANGED <<topology, worker, job>> /\ topology = "present"
    BY ZenonT(30), <1>4 DEF PublishConfirmed, store
  <2>4. \A j \in Jobs, a \in 1..MaxAttempts :
          /\ queue[j][a] \in Nat
          /\ queue'[j][a] \in {queue[j][a], queue[j][a] + 1}
          /\ j = c.job /\ a = c.attempt + 1 => queue'[j][a] = queue[j][a] + 1
    <3>1. queue \in [Jobs -> [1..MaxAttempts -> Nat]] /\ queue' = Enqueued(c.job, c.attempt + 1)
      BY ZenonT(30), <1>4 DEF PublishConfirmed, TypeOK
    <3>2. \A j \in Jobs, a \in 1..MaxAttempts :
            /\ queue[j][a] \in Nat
            /\ queue'[j][a] \in {queue[j][a], queue[j][a] + 1}
            /\ j = c.job /\ a = c.attempt + 1 => queue'[j][a] = queue[j][a] + 1
            /\ j # c.job \/ a # c.attempt + 1 => queue'[j][a] = queue[j][a]
      BY ZenonT(40), <2>2, <3>1, EnqueuedCount
    <3> QED
      BY ZenonT(30), <3>2
  <2>5. \A j \in Jobs : \A a : InTransit(j, a) => InTransit(j, a)'
    <3> SUFFICES ASSUME NEW j \in Jobs, NEW a, InTransit(j, a) PROVE InTransit(j, a)'
      BY ZenonT(30)
    <3>1. a \in 1..MaxAttempts /\ queue[j][a] > 0 => queue'[j][a] > 0
      BY <2>4
    <3> QED
      BY ZenonT(30), <2>3, <3>1 DEF InTransit
  <2>6. InTransit(c.job, c.attempt + 1)'
    <3>1. (queue'[c.job][c.attempt + 1] > 0)
      BY <2>2, <2>4
    <3> QED
      BY ZenonT(30), <2>2, <3>1 DEF InTransit
  <2>7. ASSUME NEW j \in Jobs, Promised(j)'
        PROVE  InTransit(j, job[j].attempt + 1)'
    <3>1. CASE Promised(j)
      BY ZenonT(30), <3>1, <2>3, <2>5 DEF TransitInv
    <3>2. CASE ~Promised(j)
      <4>1. PICK t \in Schedulers : Confirmed(t, j)'
        BY ZenonT(30), <2>3, <2>7, <3>2 DEF Promised
      <4>2. t = s
        BY ZenonT(30), <1>4, <1>s, <2>3, <3>2, <4>1 DEF PublishConfirmed, Promised, Confirmed
      <4>3. scheduler'[s].claim = c
        BY ZenonT(30), <1>4, <1>s DEF PublishConfirmed
      <4>4. j = c.job /\ job[j].attempt = c.attempt
        BY ZenonT(30), <4>1, <4>2, <4>3, <2>3 DEF Confirmed
      <4> QED
        BY ZenonT(30), <4>4, <2>6, <2>3
    <3> QED
      BY ZenonT(30), <3>1, <3>2
  <2> QED
    BY ZenonT(30), <2>3, <2>7 DEF TransitInv
<1>5. ASSUME NEW s \in Schedulers, NEW c \in scheduler[s].batch, PublishUnconfirmed(s, c)
      PROVE  TransitInv'
  <2>1. c.job \in Jobs /\ c.attempt + 1 \in 1..MaxAttempts
    BY DEF ClaimsInv, Claims, PublicationClaim
  <2>2. UNCHANGED <<topology, worker, job, scheduler>>
    BY ZenonT(30), <1>5 DEF PublishUnconfirmed, store
  <2>3. \A j \in Jobs, a \in 1..MaxAttempts :
          queue[j][a] \in Nat /\ queue'[j][a] \in {queue[j][a], queue[j][a] + 1}
    <3>1. queue \in [Jobs -> [1..MaxAttempts -> Nat]] /\ queue' = Enqueued(c.job, c.attempt + 1)
      BY ZenonT(30), <1>5 DEF PublishUnconfirmed, TypeOK
    <3> QED
      BY ZenonT(40), <2>1, <3>1, EnqueuedCount
  <2>4. \A j \in Jobs : \A a : InTransit(j, a) => InTransit(j, a)'
    BY <2>2, <2>3 DEF InTransit
  <2>5. \A j \in Jobs : Promised(j)' => Promised(j) /\ job'[j].attempt = job[j].attempt
    BY ZenonT(30), <2>2, PromisedNarrows
  <2> QED
    BY ZenonT(30), <2>2, <2>4, <2>5, PromisesKept
<1>6. ASSUME NEW s \in Schedulers,
             \/ Ping(s) \/ PublicationWriteFails(s) \/ SchedulerCrash(s)
             \/ \E c \in scheduler[s].batch : PublishFailed(s, c)
      PROVE  TransitInv'
  <2>1. UNCHANGED <<topology, queue, worker, job>>
    BY ZenonT(30), <1>6 DEF Ping, PublicationWriteFails, SchedulerCrash, PublishFailed, store, broker
  <2>2. \A t \in Schedulers \ {s} : scheduler'[t] = scheduler[t]
    BY ZenonT(30), <1>6, <1>s DEF Ping, PublicationWriteFails, NextClaim, SchedulerCrash, PublishFailed
  <2>3. scheduler'[s].pc # "published"
    BY <1>6, <1>s DEF Ping, PublicationWriteFails, NextClaim, SchedulerCrash, IdleScheduler,
                      PublishFailed, SchedulerState
  <2>4. \A j \in Jobs : Promised(j)' => Promised(j) /\ job'[j].attempt = job[j].attempt
    BY ZenonT(30), <2>1, <2>2, <2>3 DEF Promised, Confirmed
  <2> QED
    BY ZenonT(30), <2>1, <2>4, PromisesKept, TransitUnchanged
<1>7. ASSUME NEW s \in Schedulers, MarkJobPublished(s) \/ ReleaseJobPublish(s)
      PROVE  TransitInv'
  <2>1. UNCHANGED <<topology, queue, worker>>
    BY ZenonT(30), <1>7 DEF MarkJobPublished, ReleaseJobPublish, broker
  <2>2. \A t \in Schedulers \ {s} : scheduler'[t] = scheduler[t]
    BY ZenonT(30), <1>7, <1>s DEF MarkJobPublished, ReleaseJobPublish, NextClaim
  <2>3. scheduler'[s].pc # "published"
    BY SMTT(30), <1>7, <1>s DEF MarkJobPublished, ReleaseJobPublish, NextClaim
  <2>4. ASSUME NEW j \in Jobs, Promised(j)'
        PROVE  Promised(j) /\ job'[j].attempt = job[j].attempt
    <3>1. CASE job'[j] = job[j]
      BY ZenonT(30), <2>2, <2>3, <2>4, <3>1 DEF Promised, Confirmed
    <3>2. CASE /\ scheduler[s].claim.job = j
               /\ OwnsPublication(scheduler[s].claim)
               /\ job'[j].attempt = job[j].attempt
               /\ MarkJobPublished(s) /\ job'[j].status = "queued"
      BY ZenonT(30), <3>2 DEF MarkJobPublished, OwnsPublication, Promised, Confirmed
    <3>3. CASE job'[j].status = "scheduled" /\ job'[j].publicationToken = 0
      <4>1. PICK t \in Schedulers : Confirmed(t, j)'
        BY ZenonT(30), <2>4, <3>3 DEF Promised
      <4>2. t # s
        BY ZenonT(30), <2>3, <4>1 DEF Confirmed
      <4>3. scheduler[t].pc = "published" /\ scheduler[t].claim.token = 0
        BY ZenonT(30), <2>2, <3>3, <4>1, <4>2 DEF Confirmed
      <4> QED
        BY <4>3, <1>t DEF ClaimsInv, Claims
    <3> QED
      BY ZenonT(30), <1>7, <1>j, <3>1, <3>2, <3>3, PublicationEffect
  <2> QED
    BY ZenonT(30), <2>1, <2>4, PromisesKept, TransitUnchanged
<1>8. ASSUME NEW w \in Workers, NEW k \in Jobs, NEW b \in 1..MaxAttempts, Receive(w, k, b)
      PROVE  TransitInv'
  <2>1. UNCHANGED <<topology, job, scheduler>>
    BY ZenonT(30), <1>8 DEF Receive, store
  <2>2. \A j \in Jobs, a \in 1..MaxAttempts :
          j # k \/ a # b => queue'[j][a] = queue[j][a]
    BY ZenonT(30), <1>8 DEF Receive, TypeOK
  <2>3. /\ worker'[w].pc = "received" /\ worker'[w].owned
        /\ worker'[w].job = k /\ worker'[w].attempt = b
    BY ZenonT(30), <1>8, <1>w DEF Receive
  <2>4. \A v \in Workers \ {w} : worker'[v] = worker[v]
    BY ZenonT(30), <1>8, <1>w DEF Receive
  <2>5. worker[w].pc = "idle"
    BY ZenonT(30), <1>8 DEF Receive
  <2>6. ASSUME NEW j \in Jobs, NEW a, InTransit(j, a)
        PROVE  InTransit(j, a)'
    <3>1. CASE j = k /\ a = b
      BY ZenonT(30), <2>3, <3>1 DEF InTransit
    <3>2. CASE (j # k \/ a # b) /\ a \in 1..MaxAttempts /\ queue[j][a] > 0
      BY ZenonT(30), <2>2, <3>2 DEF InTransit
    <3>3. ASSUME NEW v \in Workers, worker[v].pc \in {"received", "looked_up", "requeue"},
                 worker[v].owned, worker[v].job = j, worker[v].attempt = a
          PROVE  InTransit(j, a)'
      <4>1. worker'[v] = worker[v]
        BY ZenonT(30), <2>4, <2>5, <3>3
      <4> QED
        BY ZenonT(30), <3>3, <4>1 DEF InTransit
    <3> QED
      BY ZenonT(30), <2>6, <3>1, <3>2, <3>3 DEF InTransit
  <2>7. \A j \in Jobs : Promised(j)' => Promised(j) /\ job'[j].attempt = job[j].attempt
    BY ZenonT(30), <2>1, PromisedNarrows
  <2> QED
    BY ZenonT(30), <2>1, <2>6, <2>7, PromisesKept
<1>9. ASSUME NEW w \in Workers, GetMonitor(w)
      PROVE  TransitInv'
  <2>1. UNCHANGED <<topology, job, scheduler, queue>>
    BY ZenonT(30), <1>9 DEF GetMonitor, store, broker
  <2>2. worker[w].job \in Jobs
    BY ZenonT(30), <1>9 DEF GetMonitor, At, TypeOK
  <2>3. /\ \A v \in Workers \ {w} : worker'[v] = worker[v]
        /\ worker'[w].job = worker[w].job
        /\ worker'[w].attempt = worker[w].attempt
        /\ worker'[w].owned = worker[w].owned
        /\ \/ worker'[w].pc \in {"looked_up", "requeue"}
           \/ ~Exists(MonitorOf[worker[w].job])
    <3>1. CASE Goto(w, "ack") /\ ~Exists(MonitorOf[worker[w].job])
      BY ZenonT(40), <3>1, <1>w, GotoType
    <3>2. CASE Goto(w, "requeue")
      BY ZenonT(40), <3>2, <1>w, GotoType
    <3>3. CASE worker' = [worker EXCEPT ![w] = [@ EXCEPT !.pc = "looked_up",
                            !.config = monitor[MonitorOf[worker[w].job]].config]]
      BY ZenonT(30), <3>3, <1>w DEF WorkerState
    <3> QED
      BY ZenonT(30), <1>9, <3>1, <3>2, <3>3 DEF GetMonitor
  <2>4. ASSUME NEW j \in Jobs, NEW a, Promised(j), InTransit(j, a)
        PROVE  InTransit(j, a)'
    <3>1. Exists(MonitorOf[j])
      BY ZenonT(30), <2>4, PromisedActive DEF MonitorInv, Active
    <3> QED
      BY ZenonT(30), <2>1, <2>3, <2>4, <3>1, MovedOnKept
  <2>5. \A j \in Jobs : Promised(j)' => Promised(j) /\ job'[j].attempt = job[j].attempt
    BY ZenonT(30), <2>1, PromisedNarrows
  <2> QED
    BY ZenonT(30), <2>1, <2>4, <2>5, PromisesKept
<1>10. ASSUME NEW w \in Workers, MarkJobProcessing(w)
       PROVE  TransitInv'
  <2>1. UNCHANGED <<topology, scheduler, queue>>
    BY ZenonT(30), <1>10 DEF MarkJobProcessing, broker
  <2>2. worker[w].job \in Jobs
    BY ZenonT(30), <1>10 DEF MarkJobProcessing, At, TypeOK
  <2>3. \A j \in Jobs : job'[j] = job[j] \/ (j = worker[w].job /\ job'[j].status = "processing")
    BY <1>10, <1>j DEF MarkJobProcessing, ProcessingJob, JobRow
  <2>4. /\ \A v \in Workers \ {w} : worker'[v] = worker[v]
        /\ worker'[w].job = worker[w].job
        /\ worker'[w].attempt = worker[w].attempt
        /\ worker'[w].owned = worker[w].owned
    BY ZenonT(40), <1>10, <1>w, <1>t, GotoType, LeaseTaken DEF MarkJobProcessing
  <2>5. \A j \in Jobs : Promised(j)' => Promised(j) /\ job'[j].attempt = job[j].attempt
    BY ZenonT(30), <2>1, <2>3, PromisedNarrows
  <2>6. ASSUME NEW j \in Jobs, j = worker[w].job PROVE ~Promised(j)'
    <3>1. job'[j].status = "processing"
      BY ZenonT(30), <1>10, <1>j, <2>6 DEF MarkJobProcessing, ProcessingJob, JobRow
    <3> QED
      BY ZenonT(30), <3>1 DEF Promised, Confirmed
  <2>7. ASSUME topology' = "present", NEW j \in Jobs, Promised(j)'
        PROVE  InTransit(j, job[j].attempt + 1)'
    <3>1. worker[w].job # j
      BY ZenonT(30), <2>6, <2>7
    <3>2. Promised(j) /\ job'[j].attempt = job[j].attempt
      BY ZenonT(30), <2>5, <2>7
    <3>3. InTransit(j, job[j].attempt + 1)
      BY ZenonT(30), <2>1, <2>7, <3>2 DEF TransitInv
    <3>4. \A a : InTransit(j, a) => InTransit(j, a)'
      BY ZenonT(30), <2>1, <2>4, <3>1, MovedOnKept
    <3> QED
      BY ZenonT(30), <3>2, <3>3, <3>4
  <2> QED
    BY ZenonT(30), <2>1, <2>5, <2>7 DEF TransitInv
<1>11. ASSUME NEW w \in Workers, MarkJobProcessingRefused(w)
       PROVE  TransitInv'
  <2>1. UNCHANGED <<topology, job, scheduler, queue>>
    BY ZenonT(30), <1>11 DEF MarkJobProcessingRefused, store, broker
  <2>2. worker[w].job \in Jobs
    BY ZenonT(30), <1>11 DEF MarkJobProcessingRefused, At, TypeOK
  <2>3. /\ \A v \in Workers \ {w} : worker'[v] = worker[v]
        /\ worker'[w].job = worker[w].job
        /\ worker'[w].attempt = worker[w].attempt
        /\ worker'[w].owned = worker[w].owned
        /\ worker'[w].pc = "requeue" \/ ~MayProcess(w)
    BY ZenonT(40), <1>11, <1>w, GotoType DEF MarkJobProcessingRefused
  <2>4. ASSUME NEW j \in Jobs, NEW a, Promised(j), a = job[j].attempt + 1, InTransit(j, a)
        PROVE  InTransit(j, a)'
    <3>1. job[j].status \in {"scheduled", "queued"} /\ job[j].attempt \in Nat
      BY ZenonT(30), <2>4, <1>j, PromisedActive DEF JobRow
    <3>2. worker'[w].pc = "requeue" \/ worker[w].job # j \/ worker[w].attempt # a
      <4>1. worker[w].job = j /\ worker[w].attempt = a => MayProcess(w)
        <5>1. job[j].attempt + 1 > job[j].attempt
          BY ZenonT(30), <3>1, Counting
        <5> QED
          BY ZenonT(30), <2>4, <3>1, <5>1 DEF MayProcess
      <4> QED
        BY ZenonT(30), <2>3, <4>1
    <3> QED
      BY ZenonT(30), <2>1, <2>3, <2>4, <3>2, MovedOnKept
  <2>5. \A j \in Jobs : Promised(j)' => Promised(j) /\ job'[j].attempt = job[j].attempt
    BY ZenonT(30), <2>1, PromisedNarrows
  <2> QED
    BY ZenonT(30), <2>1, <2>4, <2>5, PromisesKept
<1>12. ASSUME NEW w \in Workers,
              AddCheck(w) \/ AddCheckRefused(w) \/ MarkJobFailed(w) \/ MarkJobDead(w)
       PROVE  TransitInv'
  <2>1. /\ UNCHANGED <<topology, scheduler, queue>>
        /\ \A j \in Jobs : \/ job'[j] = job[j] \/ job'[j] = Completed(job[j])
                            \/ job'[j] = Killed(job[j]) \/ job'[j] = Postponed(job[j])
        /\ worker[w].pc \in {"leased", "failing"}
        /\ worker' = worker \/ \E pc \in {"failing", "ack", "nack"} : Goto(w, pc)
    BY ZenonT(40), <1>12, <1>j, OutcomeEffect
  <2>2. \A j \in Jobs : Promised(j)' => Promised(j) /\ job'[j].attempt = job[j].attempt
    <3> SUFFICES ASSUME NEW j \in Jobs
                 PROVE  Promised(j)' => Promised(j) /\ job'[j].attempt = job[j].attempt
      BY ZenonT(30)
    <3>1. job'[j] = job[j] \/ job'[j].status \in {"completed", "dead", "failed"}
      <4>1. \/ job'[j] = job[j] \/ job'[j] = Completed(job[j])
            \/ job'[j] = Killed(job[j]) \/ job'[j] = Postponed(job[j])
        BY ZenonT(30), <2>1
      <4>2. /\ Completed(job[j]).status = "completed" /\ Killed(job[j]).status = "dead"
            /\ Postponed(job[j]).status = "failed"
        BY ZenonT(30), <1>j, RowStatus
      <4> QED
        BY ZenonT(30), <4>1, <4>2
    <3> QED
      BY ZenonT(30), <2>1, <3>1, PromisedNarrows
  <2>3. /\ \A v \in Workers \ {w} : worker'[v] = worker[v]
        /\ worker'[w].job = worker[w].job
        /\ worker'[w].attempt = worker[w].attempt
        /\ worker'[w].owned = worker[w].owned
    BY ZenonT(40), <2>1, <1>w, GotoType
  <2>4. \A j \in Jobs : \A a : InTransit(j, a) => InTransit(j, a)'
    <3> SUFFICES ASSUME NEW j \in Jobs, NEW a, InTransit(j, a) PROVE InTransit(j, a)'
      BY ZenonT(30)
    <3>1. worker[w].pc \notin {"received", "looked_up", "requeue"} /\ UNCHANGED queue
      BY ZenonT(30), <2>1
    <3> QED
      BY ZenonT(30), <2>3, <3>1, MovedOnKept
  <2> QED
    BY ZenonT(40), <2>1, <2>2, <2>4, PromisesKept
<1>13. ASSUME NEW w \in Workers, Ack(w) \/ (Nack(w) /\ UNCHANGED queue)
       PROVE  TransitInv'
  <2>1. UNCHANGED <<topology, job, scheduler, queue>>
    BY ZenonT(30), <1>13 DEF Ack, Nack, store, broker
  <2>2. worker[w].pc \in {"ack", "nack"} /\ \A v \in Workers \ {w} : worker'[v] = worker[v]
    BY ZenonT(30), <1>13, <1>w DEF Ack, Nack, At, Finish
  <2>3. \A j \in Jobs : \A a : InTransit(j, a) => InTransit(j, a)'
    <3> SUFFICES ASSUME NEW j \in Jobs, NEW a, InTransit(j, a) PROVE InTransit(j, a)'
      BY ZenonT(30)
    <3>1. ASSUME NEW v \in Workers, worker[v].pc \in {"received", "looked_up", "requeue"}
          PROVE  worker'[v] = worker[v]
      BY ZenonT(30), <2>2, <3>1
    <3> QED
      BY ZenonT(30), <2>1, <3>1 DEF InTransit
  <2>4. \A j \in Jobs : Promised(j)' => Promised(j) /\ job'[j].attempt = job[j].attempt
    BY ZenonT(30), <2>1, PromisedNarrows
  <2> QED
    BY ZenonT(30), <2>1, <2>3, <2>4, PromisesKept
<1>14. ASSUME NEW w \in Workers,
              \/ Nack(w) /\ queue' = Redelivered(w)
              \/ Requeue(w) \/ WorkerCrash(w) \/ ConnectionLost(w)
       PROVE  TransitInv'
  <2>1. UNCHANGED <<topology, job, scheduler>>
    BY ZenonT(30), <1>14 DEF Nack, Requeue, WorkerCrash, ConnectionLost, store
  <2>2. queue' = Redelivered(w) /\ \A v \in Workers \ {w} : worker'[v] = worker[v]
    BY ZenonT(30), <1>14, <1>w DEF Nack, Requeue, WorkerCrash, ConnectionLost, Finish
  <2>3. \A j \in Jobs : \A a : InTransit(j, a) => InTransit(j, a)'
    <3>1. worker[w].pc # "idle"
      BY ZenonT(30), <1>14 DEF Nack, Requeue, WorkerCrash, ConnectionLost, At
    <3> QED
      BY ZenonT(30), <2>2, <3>1, RedeliveredKept
  <2>4. \A j \in Jobs : Promised(j)' => Promised(j) /\ job'[j].attempt = job[j].attempt
    BY ZenonT(30), <2>1, PromisedNarrows
  <2> QED
    BY ZenonT(30), <2>1, <2>3, <2>4, PromisesKept
<1>15. ASSUME LoseQueue
       PROVE  TransitInv'
  BY ZenonT(30), <1>15 DEF LoseQueue, TransitInv
<1>16. ASSUME RepairTopology \/ RecoveryFails \/ RecoverDetectedTopologyLoss
       PROVE  TransitInv'
  <2>1. CASE UNCHANGED job /\ UNCHANGED topology
    <3>1. UNCHANGED <<queue, scheduler, worker>>
      BY ZenonT(30), <1>16, <1>j, RecoveryEffect
    <3>2. \A j \in Jobs : Promised(j)' => Promised(j) /\ job'[j].attempt = job[j].attempt
      BY ZenonT(30), <2>1, <3>1, PromisedNarrows
    <3> QED
      BY ZenonT(30), <2>1, <3>1, <3>2, PromisesKept, TransitUnchanged
  <2>2. CASE \A j \in Jobs : job'[j].status \notin {"scheduled", "queued"}
    <3>1. \A j \in Jobs : ~Promised(j)'
      BY ZenonT(30), <2>2 DEF Promised, Confirmed
    <3> QED
      BY ZenonT(30), <3>1 DEF TransitInv
  <2> QED
    BY ZenonT(30), <1>16, <1>j, <2>1, <2>2, RecoveryEffect
<1>17. ASSUME DeclareTopology
       PROVE  TransitInv'
  <2>1. \A j \in Jobs : ~Promised(j)
    BY ZenonT(30), <1>17 DEF DeclareTopology, TransitInv
  <2>2. \A j \in Jobs : ~Promised(j)'
    BY ZenonT(30), <1>17, <2>1 DEF DeclareTopology, store, Promised, Confirmed
  <2> QED
    BY ZenonT(30), <2>2 DEF TransitInv
<1>18. ASSUME NEW k \in Jobs, ExpireLease(k) \/ BecomeAvailable(k)
       PROVE  TransitInv'
  <2>1. UNCHANGED <<topology, scheduler, queue, worker>>
    BY ZenonT(30), <1>18 DEF ExpireLease, BecomeAvailable, broker
  <2>2. \A j \in Jobs : /\ job'[j].status = job[j].status
                        /\ job'[j].attempt = job[j].attempt
                        /\ job'[j].publicationToken = job[j].publicationToken
    BY SMTT(30), <1>18, <1>j DEF ExpireLease, BecomeAvailable, JobRow
  <2>3. \A j \in Jobs : Promised(j)' => Promised(j) /\ job'[j].attempt = job[j].attempt
    BY ZenonT(30), <2>1, <2>2, PromisedNarrows
  <2> QED
    BY ZenonT(30), <2>1, <2>3, PromisesKept, TransitUnchanged
<1>19. ASSUME (\E m \in Monitors : BecomeDue(m)) \/ UNCHANGED vars
       PROVE  TransitInv'
  <2>1. UNCHANGED <<topology, job, scheduler, queue, worker>>
    BY ZenonT(30), <1>19 DEF BecomeDue, vars, broker
  <2>2. \A j \in Jobs : Promised(j)' => Promised(j) /\ job'[j].attempt = job[j].attempt
    BY ZenonT(30), <2>1, PromisedNarrows
  <2> QED
    BY ZenonT(30), <2>1, <2>2, PromisesKept, TransitUnchanged
<1>20. ASSUME NEW w \in Workers, Nack(w)
       PROVE  TransitInv'
  BY ZenonT(30), <1>13, <1>14, <1>20 DEF Nack
<1> QED
  BY ZenonT(40), <1>1, <1>2, <1>3, <1>4, <1>5, <1>6, <1>7, <1>8, <1>9, <1>10, <1>11, <1>12, <1>13,
     <1>14, <1>15, <1>16, <1>17, <1>18, <1>19, <1>20
  DEF Next, ApiStep, SchedulerStep, WorkerStep, TopologyStep, TimeStep

\* A queued job is never stranded: whatever the schedulers, the workers, the API
\* and the broker do, and whoever crashes, while the main queue exists the next
\* attempt of every queued job is in it or with a worker that has yet to ask for it.
THEOREM QueuedJobsAreInTransit == Spec => []NoLostQueuedJob
<1> DEFINE IInv == TypeOK /\ MonitorInv /\ ClaimsInv /\ TransitInv
<1>1. Init => IInv
  <2> SUFFICES ASSUME Init PROVE IInv
    BY ZenonT(30)
  <2>1. TypeOK
    BY ZenonT(30), InitType
  <2>2. \A j \in Jobs : job[j].status = "none" /\ job[j].attempt = 0
    BY ZenonT(30) DEF Init
  <2>3. \A s \in Schedulers : scheduler[s].pc = "idle" /\ scheduler[s].batch = {}
    BY ZenonT(30) DEF Init, IdleScheduler
  <2> QED
    BY ZenonT(40), <2>1, <2>2, <2>3 DEF MonitorInv, ClaimsInv, Claims, TransitInv, Promised, Confirmed, Active
<1>2. IInv /\ [Next]_vars => IInv'
  BY ZenonT(30), TypeStep, MonitorStep, ClaimsStep, TransitStep
<1>3. IInv => NoLostQueuedJob
  BY ZenonT(30) DEF TransitInv, Promised, NoLostQueuedJob
<1> QED
  BY <1>1, <1>2, <1>3, PTL DEF Spec

-----------------------------------------------------------------------------
(* What a step does to a job and to what refers to it: jobs move only along their
   life, and messages, deliveries and claims never run ahead of their attempts *)

\* What becomes of a job in a step that neither starts, completes nor deletes it.
QuietJob(j) ==
  /\ job'[j].attempt = job[j].attempt
  /\ \/ job'[j].status = job[j].status
     \/ /\ job[j].status \in Active
        /\ job'[j].status \in {"scheduled", "queued", "failed", "dead"}
     \/ job[j].status = "none" /\ job'[j].status = "scheduled"

\* Creating, claiming, publishing, failing, burying and recovering jobs, and the
\* passing of time, leave the attempts and the results alone.
LEMMA QuietStep ==
  ASSUME TypeOK, [Next]_vars,
         \A w \in Workers : ~MarkJobProcessing(w) /\ ~AddCheck(w),
         \A m \in Monitors : ~Delete(m)
  PROVE  results' = results /\ \A j \in Jobs : QuietJob(j)
<1> DEFINE Goal == results' = results /\ \A j \in Jobs : QuietJob(j)
<1>j. job \in [Jobs -> JobRow]
  BY ZenonT(30) DEF TypeOK
<1>0. ASSUME UNCHANGED <<job, results>> PROVE Goal
  BY ZenonT(30), <1>0 DEF QuietJob
<1>1. ASSUME NEW m \in Monitors, NEW enabled \in BOOLEAN, Create(m, enabled)
      PROVE  Goal
  BY ZenonT(30), <1>1, <1>0 DEF Create
<1>2. ASSUME NEW m \in Monitors, NEW enabled \in BOOLEAN, NEW semantics \in BOOLEAN,
             NEW interval \in BOOLEAN, Update(m, enabled, semantics, interval)
      PROVE  Goal
  <2>1. /\ results' = results
        /\ \A j \in Jobs : \/ job'[j] = job[j]
                           \/ job[j].status \in Active /\ job'[j] = Killed(job[j])
    BY ZenonT(30), <1>2 DEF Update, JobsAfterUpdate, ActiveJobs
  <2>2. ASSUME NEW j \in Jobs PROVE QuietJob(j)
    <3>1. Killed(job[j]).status = "dead" /\ Killed(job[j]).attempt = job[j].attempt
      BY ZenonT(30), <1>j, RowStatus
    <3> QED
      BY ZenonT(30), <2>1, <3>1 DEF QuietJob
  <2> QED
    BY ZenonT(30), <2>1, <2>2
<1>3. ASSUME NEW m \in Monitors, NEW j \in Jobs, CreateManualJob(m, j)
      PROVE  Goal
  BY <1>3, <1>j DEF CreateManualJob, QuietJob, JobRow
<1>4. ASSUME NEW s \in Schedulers, NEW batch \in SUBSET Jobs, NEW fresh \in SUBSET Jobs,
             ClaimDueJobs(s, batch, fresh)
      PROVE  Goal
  <2>1. ASSUME NEW j \in Jobs PROVE QuietJob(j)
    <3>1. job'[j] = ClaimedRow(j, batch, fresh)
      BY ZenonT(30), <1>4 DEF ClaimDueJobs
    <3>2. job[j] \in JobRow /\ Recovered(job[j]) \in JobRow
      BY ZenonT(40), <1>j, RowTypes
    <3>3. CASE j \in batch
      <4>1. job'[j].status = "scheduled" /\ job'[j].attempt = Recovered(job[j]).attempt
        BY ZenonT(30), <3>1, <3>2, <3>3 DEF ClaimedRow, JobRow
      <4>2. Recovered(job[j]).status \in Active
        BY ZenonT(30), <1>4, <3>3 DEF ClaimDueJobs, Claimable, Active
      <4> QED
        BY ZenonT(30), <4>1, <4>2, <3>2, RowStatus DEF QuietJob
    <3>4. CASE j \notin batch /\ j \in fresh
      <4>1. job'[j].status = "scheduled" /\ job'[j].attempt = job[j].attempt
        BY ZenonT(30), <3>1, <3>2, <3>4 DEF ClaimedRow, JobRow
      <4>2. job[j].status = "none"
        BY ZenonT(30), <1>4, <3>4 DEF ClaimDueJobs
      <4> QED
        BY ZenonT(30), <4>1, <4>2 DEF QuietJob
    <3>5. CASE j \notin batch /\ j \notin fresh
      <4>1. job'[j] = Recovered(job[j])
        BY ZenonT(30), <3>1, <3>5 DEF ClaimedRow
      <4>2. /\ Recovered(job[j]).attempt = job[j].attempt
            /\ \/ Recovered(job[j]) = job[j]
               \/ job[j].status \in Active /\ Recovered(job[j]).status \in {"dead", "failed"}
        BY ZenonT(30), <3>2, RowStatus
      <4> QED
        BY ZenonT(30), <4>1, <4>2 DEF QuietJob
    <3> QED
      BY ZenonT(30), <3>3, <3>4, <3>5
  <2> QED
    BY ZenonT(30), <1>4, <2>1 DEF ClaimDueJobs
<1>5. ASSUME NEW s \in Schedulers, MarkJobPublished(s) \/ ReleaseJobPublish(s)
      PROVE  Goal
  <2>1. ASSUME NEW j \in Jobs PROVE QuietJob(j)
    BY ZenonT(30), <1>5, <1>j, PublicationEffect DEF OwnsPublication, QuietJob, Active
  <2> QED
    BY ZenonT(30), <1>5, <2>1 DEF MarkJobPublished, ReleaseJobPublish
<1>6. ASSUME NEW w \in Workers, MarkJobFailed(w)
      PROVE  Goal
  <2>1. \A j \in Jobs : \/ job'[j] = job[j]
                        \/ job[j].status = "processing" /\ job'[j] = Postponed(job[j])
    BY ZenonT(30), <1>6, <1>j DEF MarkJobFailed, OwnsLease
  <2>2. ASSUME NEW j \in Jobs PROVE QuietJob(j)
    <3>1. Postponed(job[j]).status = "failed" /\ Postponed(job[j]).attempt = job[j].attempt
      BY ZenonT(30), <1>j, RowStatus
    <3> QED
      BY ZenonT(30), <2>1, <3>1 DEF QuietJob, Active
  <2> QED
    BY ZenonT(30), <1>6, <2>2 DEF MarkJobFailed
<1>7. ASSUME NEW w \in Workers, MarkJobDead(w)
      PROVE  Goal
  <2>1. \A j \in Jobs : \/ job'[j] = job[j]
                        \/ job[j].status = "processing" /\ job'[j] = Killed(job[j])
    BY ZenonT(30), <1>7, <1>j DEF MarkJobDead, OwnsLease
  <2>2. ASSUME NEW j \in Jobs PROVE QuietJob(j)
    <3>1. Killed(job[j]).status = "dead" /\ Killed(job[j]).attempt = job[j].attempt
      BY ZenonT(30), <1>j, RowStatus
    <3> QED
      BY ZenonT(30), <2>1, <3>1 DEF QuietJob, Active
  <2> QED
    BY ZenonT(30), <1>7, <2>2 DEF MarkJobDead
<1>8. ASSUME RepairTopology \/ RecoveryFails \/ RecoverDetectedTopologyLoss
      PROVE  Goal
  BY ZenonT(30), <1>8, <1>j, RecoveryEffect DEF QuietJob
<1>9. ASSUME NEW j \in Jobs, ExpireLease(j) \/ BecomeAvailable(j)
      PROVE  Goal
  <2>1. \A k \in Jobs : job'[k].status = job[k].status /\ job'[k].attempt = job[k].attempt
    BY <1>9, <1>j DEF ExpireLease, BecomeAvailable, JobRow
  <2> QED
    BY ZenonT(30), <1>9, <2>1 DEF ExpireLease, BecomeAvailable, QuietJob
<1>10. ASSUME NEW s \in Schedulers,
              \/ Ping(s) \/ PublicationWriteFails(s) \/ SchedulerCrash(s)
              \/ \E c \in scheduler[s].batch :
                   PublishConfirmed(s, c) \/ PublishUnconfirmed(s, c) \/ PublishFailed(s, c)
       PROVE  Goal
  BY ZenonT(30), <1>10, <1>0 DEF Ping, PublicationWriteFails, SchedulerCrash, PublishConfirmed,
                     PublishUnconfirmed, PublishFailed, store
<1>11. ASSUME NEW w \in Workers,
              \/ \E j \in Jobs, a \in 1..MaxAttempts : Receive(w, j, a)
              \/ GetMonitor(w) \/ MarkJobProcessingRefused(w) \/ AddCheckRefused(w)
              \/ Ack(w) \/ Nack(w) \/ Requeue(w) \/ WorkerCrash(w) \/ ConnectionLost(w)
       PROVE  Goal
  <2>1. UNCHANGED <<job, results>>
    BY ZenonT(30), <1>11 DEF Receive, GetMonitor, MarkJobProcessingRefused, AddCheckRefused, Ack, Nack,
                 Requeue, WorkerCrash, ConnectionLost, store
  <2> QED
    BY ZenonT(30), <2>1, <1>0
<1>12. ASSUME LoseQueue \/ DeclareTopology \/ UNCHANGED vars \/ \E m \in Monitors : BecomeDue(m)
       PROVE  Goal
  BY ZenonT(30), <1>12, <1>0 DEF LoseQueue, DeclareTopology, BecomeDue, store, vars
<1> HIDE DEF Goal
<1>13. Goal
  BY ZenonT(40), <1>1, <1>2, <1>3, <1>4, <1>5, <1>6, <1>7, <1>8, <1>9, <1>10, <1>11, <1>12
  DEF Next, ApiStep, SchedulerStep, WorkerStep, TopologyStep, TimeStep
<1> QED
  BY ZenonT(30), <1>13 DEF Goal

\* Taking the processing lease starts the next attempt of one job: the message was
\* not ahead of the job, and MarkJobProcessing refuses one that is behind.
LEMMA StartEffect ==
  ASSUME TypeOK, NoAttemptAhead, NEW w \in Workers, MarkJobProcessing(w)
  PROVE  /\ worker[w].job \in Jobs
         /\ job[worker[w].job].status \in {"scheduled", "queued"}
         /\ job[worker[w].job].attempt < MaxAttempts
         /\ job'[worker[w].job].status = "processing"
         /\ job'[worker[w].job].attempt = job[worker[w].job].attempt + 1
         /\ \A j \in Jobs : j # worker[w].job => job'[j] = job[j]
         /\ results' = results
<1> USE BoundsAssumption
<1> DEFINE k == worker[w].job
<1>j. job \in [Jobs -> JobRow]
  BY ZenonT(30) DEF TypeOK
<1>1. k \in Jobs /\ worker[w].attempt \in 1..MaxAttempts
  BY ZenonT(30) DEF MarkJobProcessing, At, TypeOK
<1>2. job[k].status \in {"scheduled", "queued"} /\ worker[w].attempt > job[k].attempt
  BY ZenonT(30) DEF MarkJobProcessing, MayProcess
<1>3. worker[w].attempt <= job[k].attempt + 1
  BY ZenonT(30), <1>1 DEF NoAttemptAhead
<1>4. job[k].attempt \in Nat
  BY ZenonT(30), <1>1, <1>j DEF JobRow
<1>5. worker[w].attempt = job[k].attempt + 1 /\ job[k].attempt < MaxAttempts
  BY <1>1, <1>2, <1>3, <1>4
<1>6. job' = [job EXCEPT ![k] = [job[k] EXCEPT !.status = "processing", !.attempt = worker[w].attempt,
                                               !.lease = "live", !.leaseToken = tokens + 1]]
  BY ZenonT(40) DEF MarkJobProcessing, ProcessingJob
<1>7. job'[k] = [job[k] EXCEPT !.status = "processing", !.attempt = worker[w].attempt,
                               !.lease = "live", !.leaseToken = tokens + 1]
  BY ZenonT(30), <1>1, <1>6, <1>j
<1>8. job'[k].status = "processing" /\ job'[k].attempt = worker[w].attempt
  BY <1>1, <1>7, <1>j DEF JobRow
<1>9. \A j \in Jobs : j # k => job'[j] = job[j]
  BY ZenonT(30), <1>6, <1>j
<1>10. results' = results
  BY ZenonT(30) DEF MarkJobProcessing
<1> QED
  BY ZenonT(30), <1>1, <1>2, <1>5, <1>8, <1>9, <1>10

\* AddCheck completes one job that is being processed, and stores its first result.
LEMMA CompleteEffect ==
  ASSUME TypeOK, NEW w \in Workers, AddCheck(w)
  PROVE  /\ worker[w].job \in Jobs
         /\ job[worker[w].job].status = "processing"
         /\ job'[worker[w].job].status = "completed"
         /\ job'[worker[w].job].attempt = job[worker[w].job].attempt
         /\ \A j \in Jobs : j # worker[w].job => job'[j] = job[j]
         /\ ~HasResult(worker[w].job)
         /\ \E r : r.job = worker[w].job /\ results' = results \cup {r}
<1> DEFINE k == worker[w].job
<1>j. job \in [Jobs -> JobRow]
  BY ZenonT(30) DEF TypeOK
<1>1. k \in Jobs
  BY ZenonT(30) DEF AddCheck, At, TypeOK
<1>2. job[k].status = "processing" /\ ~HasResult(k)
  BY ZenonT(30) DEF AddCheck, OwnsLease
<1>3. job' = [job EXCEPT ![k] = Completed(job[k])]
  BY ZenonT(40) DEF AddCheck
<1>4. job'[k] = Completed(job[k]) /\ \A j \in Jobs : j # k => job'[j] = job[j]
  BY ZenonT(30), <1>1, <1>3, <1>j
<1>5. job'[k].status = "completed" /\ job'[k].attempt = job[k].attempt
  <2>1. job[k] \in JobRow
    BY ZenonT(30), <1>1, <1>j
  <2>2. Completed(job[k]).status = "completed" /\ Completed(job[k]).attempt = job[k].attempt
    BY ZenonT(30), <2>1, RowStatus
  <2> QED
    BY ZenonT(30), <2>2, <1>4
<1> DEFINE r == [job |-> k, token |-> worker[w].token, checked |-> worker[w].config,
                 current |-> monitor[MonitorOf[k]].config]
<1>6. results' = results \cup {r} /\ r.job = k
  BY ZenonT(30) DEF AddCheck
<1> HIDE DEF r
<1> QED
  BY ZenonT(30), <1>1, <1>2, <1>4, <1>5, <1>6

\* Deleting a monitor takes its jobs and their results away, and nothing else.
LEMMA DeleteEffect ==
  ASSUME TypeOK, NEW m \in Monitors, Delete(m), NEW j \in Jobs
  PROVE  /\ job'[j].attempt = job[j].attempt
         /\ \/ /\ MonitorOf[j] = m
               /\ job[j].status # "none"
               /\ job'[j].status = "deleted"
               /\ ~HasResult(j)'
            \/ /\ MonitorOf[j] = m /\ job[j].status = "none"
               /\ job'[j] = job[j]
               /\ ~HasResult(j)'
            \/ /\ MonitorOf[j] # m
               /\ job'[j] = job[j]
               /\ \A r : r.job = j => (r \in results' <=> r \in results)
<1>1. job[j] \in JobRow
  BY ZenonT(30) DEF TypeOK
<1>2. results' = {r \in results : MonitorOf[r.job] # m}
  BY ZenonT(30) DEF Delete
<1>3. job'[j] = IF MonitorOf[j] = m /\ job[j].status # "none" THEN Deleted(job[j]) ELSE job[j]
  BY ZenonT(30) DEF Delete
<1>4. MonitorOf[j] = m => ~HasResult(j)'
  BY ZenonT(30), <1>2 DEF HasResult
<1>5. Deleted(job[j]).status = "deleted" /\ Deleted(job[j]).attempt = job[j].attempt
  BY ZenonT(30), <1>1, RowStatus
<1>6. MonitorOf[j] # m => \A r : r.job = j => (r \in results' <=> r \in results)
  BY ZenonT(30), <1>2
<1> QED
  BY ZenonT(30), <1>3, <1>4, <1>5, <1>6

\* No step takes an attempt back.
LEMMA AttemptsGrow ==
  ASSUME TypeOK, NoAttemptAhead, [Next]_vars, NEW j \in Jobs
  PROVE  job[j].attempt \in Nat /\ job'[j].attempt \in {job[j].attempt, job[j].attempt + 1}
<1>1. job[j].attempt \in Nat
  BY ZenonT(30) DEF TypeOK, JobRow
<1>2. ASSUME NEW w \in Workers, MarkJobProcessing(w)
      PROVE  job'[j].attempt \in {job[j].attempt, job[j].attempt + 1}
  BY ZenonT(30), <1>2, StartEffect
<1>3. ASSUME NEW w \in Workers, AddCheck(w)
      PROVE  job'[j].attempt = job[j].attempt
  BY ZenonT(30), <1>3, CompleteEffect
<1>4. ASSUME NEW m \in Monitors, Delete(m)
      PROVE  job'[j].attempt = job[j].attempt
  BY ZenonT(30), <1>4, DeleteEffect
<1>5. CASE /\ \A w \in Workers : ~MarkJobProcessing(w) /\ ~AddCheck(w)
           /\ \A m \in Monitors : ~Delete(m)
  BY ZenonT(30), <1>1, <1>5, QuietStep DEF QuietJob
<1> QED
  BY ZenonT(30), <1>1, <1>2, <1>3, <1>4, <1>5

\* A message was there before, or is published from a claim, or comes back from a worker.
LEMMA MessagesFrom ==
  ASSUME TypeOK, ClaimsInv, [Next]_vars, NEW j \in Jobs, NEW a \in 1..MaxAttempts, queue'[j][a] > 0
  PROVE  \/ queue[j][a] > 0
         \/ \E s \in Schedulers : \E c \in Claims(s) : c.job = j /\ a = c.attempt + 1
         \/ \E w \in Workers : worker[w].pc # "idle" /\ worker[w].job = j /\ worker[w].attempt = a
<1> DEFINE Goal == \/ queue[j][a] > 0
                   \/ \E s \in Schedulers : \E c \in Claims(s) : c.job = j /\ a = c.attempt + 1
                   \/ \E w \in Workers : /\ worker[w].pc # "idle"
                                          /\ worker[w].job = j /\ worker[w].attempt = a
<1>q. queue \in [Jobs -> [1..MaxAttempts -> Nat]]
  BY ZenonT(30) DEF TypeOK
<1>0. ASSUME UNCHANGED queue PROVE Goal
  BY ZenonT(30), <1>0
<1>1. ASSUME NEW k \in Jobs, NEW b \in 1..MaxAttempts, queue' = Enqueued(k, b)
      PROVE  queue[j][a] > 0 \/ (k = j /\ b = a)
  <2>1. k # j \/ a # b => queue'[j][a] = queue[j][a]
    BY ZenonT(40), <1>1, <1>q, EnqueuedCount
  <2> QED
    BY ZenonT(30), <2>1
<1>2. ASSUME NEW s \in Schedulers, NEW c \in scheduler[s].batch,
             PublishConfirmed(s, c) \/ PublishUnconfirmed(s, c)
      PROVE  Goal
  <2>1. c \in Claims(s)
    BY ZenonT(30) DEF Claims
  <2>2. c.job \in Jobs /\ c.attempt + 1 \in 1..MaxAttempts
    BY <2>1, BoundsAssumption DEF ClaimsInv, PublicationClaim
  <2>3. queue' = Enqueued(c.job, c.attempt + 1)
    BY ZenonT(30), <1>2 DEF PublishConfirmed, PublishUnconfirmed
  <2>4. queue[j][a] > 0 \/ (c.job = j /\ c.attempt + 1 = a)
    BY ZenonT(30), <2>2, <2>3, <1>1
  <2> QED
    BY ZenonT(30), <2>1, <2>4
<1>3. ASSUME NEW w \in Workers, NEW k \in Jobs, NEW b \in 1..MaxAttempts, Receive(w, k, b)
      PROVE  Goal
  <2>1. queue[k][b] > 0
    BY ZenonT(30), <1>3 DEF Receive
  <2>2. j # k \/ a # b => queue'[j][a] = queue[j][a]
    BY ZenonT(30), <1>3, <1>q DEF Receive
  <2> QED
    BY ZenonT(30), <2>1, <2>2
<1>4. ASSUME NEW w \in Workers, worker[w].pc # "idle", queue' = Redelivered(w)
      PROVE  Goal
  <2>1. worker[w].job \in Jobs /\ worker[w].attempt \in 1..MaxAttempts
    BY ZenonT(30), <1>4 DEF TypeOK
  <2> QED
    BY ZenonT(30), <1>4, <2>1, <1>0, <1>1 DEF Redelivered
<1>5. ASSUME NEW w \in Workers, Nack(w) \/ Requeue(w) \/ WorkerCrash(w) \/ ConnectionLost(w)
      PROVE  Goal
  <2>1. worker[w].pc # "idle" /\ (queue' = queue \/ queue' = Redelivered(w))
    BY ZenonT(30), <1>5 DEF Nack, Requeue, WorkerCrash, ConnectionLost, At
  <2> HIDE DEF Goal
  <2> QED
    BY ZenonT(30), <2>1, <1>0, <1>4
<1>6. ASSUME LoseQueue PROVE Goal
  <2>1. queue'[j][a] = 0
    BY ZenonT(30), <1>6 DEF LoseQueue
  <2> QED
    BY <2>1
<1>7. ASSUME NEW w \in Workers,
             \/ GetMonitor(w) \/ MarkJobProcessing(w) \/ MarkJobProcessingRefused(w)
             \/ AddCheck(w) \/ AddCheckRefused(w) \/ MarkJobFailed(w) \/ MarkJobDead(w) \/ Ack(w)
      PROVE  queue' = queue
  BY ZenonT(30), <1>7 DEF GetMonitor, MarkJobProcessing, MarkJobProcessingRefused, AddCheck,
              AddCheckRefused, MarkJobFailed, MarkJobDead, Ack, broker
<1>8. ASSUME NEW s \in Schedulers,
             \/ Ping(s) \/ (\E batch, fresh \in SUBSET Jobs : ClaimDueJobs(s, batch, fresh))
             \/ MarkJobPublished(s) \/ ReleaseJobPublish(s) \/ PublicationWriteFails(s)
             \/ SchedulerCrash(s) \/ (\E c \in scheduler[s].batch : PublishFailed(s, c))
      PROVE  queue' = queue
  BY ZenonT(30), <1>8 DEF Ping, ClaimDueJobs, MarkJobPublished, ReleaseJobPublish,
              PublicationWriteFails, SchedulerCrash, PublishFailed, broker
<1>9. ASSUME ApiStep \/ TimeStep \/ UNCHANGED vars PROVE queue' = queue
  BY ZenonT(30), <1>9 DEF ApiStep, Create, Update, Delete, CreateManualJob, TimeStep, ExpireLease,
              BecomeAvailable, BecomeDue, broker, vars
<1>10. ASSUME RepairTopology \/ RecoveryFails \/ RecoverDetectedTopologyLoss \/ DeclareTopology
       PROVE  queue' = queue
  BY ZenonT(30), <1>10 DEF RepairTopology, RecoveryFails, RecoverDetectedTopologyLoss, DeclareTopology
<1> HIDE DEF Goal
<1>11. Goal
  BY ZenonT(40), <1>0, <1>2, <1>3, <1>5, <1>6, <1>7, <1>8, <1>9, <1>10
  DEF Next, SchedulerStep, WorkerStep, TopologyStep
<1> QED
  BY ZenonT(30), <1>11 DEF Goal

\* So a message is for the attempt after the last one, or for an earlier one.
LEMMA MessagesBehind ==
  ASSUME TypeOK, ClaimsInv, NoAttemptAhead, [Next]_vars
  PROVE  \A j \in Jobs, a \in 1..MaxAttempts : queue'[j][a] > 0 => a <= job[j].attempt + 1
<1> SUFFICES ASSUME NEW j \in Jobs, NEW a \in 1..MaxAttempts, queue'[j][a] > 0
             PROVE  a <= job[j].attempt + 1
  BY ZenonT(30)
<1>1. ASSUME NEW s \in Schedulers, NEW c \in Claims(s), c.job = j, a = c.attempt + 1
      PROVE  a <= job[j].attempt + 1
  <2>1. c.attempt \in Nat /\ c.attempt <= job[j].attempt /\ job[j].attempt \in Nat
    BY ZenonT(30), <1>1 DEF NoAttemptAhead, ClaimsInv, PublicationClaim, TypeOK, JobRow
  <2> QED
    BY ZenonT(30), <1>1, <2>1, Counting
<1>2. ASSUME NEW w \in Workers, worker[w].job = j, worker[w].attempt = a
      PROVE  a <= job[j].attempt + 1
  BY ZenonT(30), <1>2 DEF NoAttemptAhead
<1> QED
  BY <1>1, <1>2, MessagesFrom DEF NoAttemptAhead

\* So is what a worker has received.
LEMMA DeliveriesBehind ==
  ASSUME TypeOK, NoAttemptAhead, [Next]_vars
  PROVE  \A w \in Workers, j \in Jobs : worker'[w].job = j => worker'[w].attempt <= job[j].attempt + 1
<1> USE JobsAssumption
<1> DEFINE Goal == \A w \in Workers, j \in Jobs :
                     worker'[w].job = j => worker'[w].attempt <= job[j].attempt + 1
<1>w. worker \in [Workers -> WorkerState]
  BY ZenonT(30) DEF TypeOK
<1>t. tokens \in Nat
  BY ZenonT(30) DEF TypeOK
<1>0. ASSUME \A v \in Workers : \/ worker'[v].job = worker[v].job /\ worker'[v].attempt = worker[v].attempt
                                \/ worker'[v].job \notin Jobs
      PROVE  Goal
  BY ZenonT(30), <1>0 DEF NoAttemptAhead
<1>1. ASSUME UNCHANGED worker PROVE Goal
  BY ZenonT(30), <1>0, <1>1
<1>2. ASSUME NEW w \in Workers, NEW k \in Jobs, NEW b \in 1..MaxAttempts, Receive(w, k, b)
      PROVE  Goal
  <2>1. queue[k][b] > 0
    BY ZenonT(30), <1>2 DEF Receive
  <2>2. worker'[w].job = k /\ worker'[w].attempt = b
    BY ZenonT(30), <1>2, <1>w DEF Receive
  <2>3. \A v \in Workers : v # w => worker'[v] = worker[v]
    BY ZenonT(30), <1>2, <1>w DEF Receive
  <2> QED
    BY ZenonT(30), <2>1, <2>2, <2>3 DEF NoAttemptAhead
<1>3. ASSUME NEW w \in Workers, NEW pc \in {"leased", "failing", "ack", "nack", "requeue"}, Goto(w, pc)
      PROVE  Goal
  <2>1. \A v \in Workers : worker'[v].job = worker[v].job /\ worker'[v].attempt = worker[v].attempt
    BY ZenonT(40), <1>3, <1>w, GotoType
  <2> QED
    BY ZenonT(30), <2>1, <1>0
<1>4. ASSUME NEW w \in Workers, GetMonitor(w) PROVE Goal
  <2>1. CASE worker' = [worker EXCEPT ![w] = [@ EXCEPT !.pc = "looked_up",
                          !.config = monitor[MonitorOf[worker[w].job]].config]]
    BY ZenonT(30), <2>1, <1>w, <1>0 DEF WorkerState
  <2> QED
    BY ZenonT(40), <1>3, <1>4, <2>1 DEF GetMonitor
<1>5. ASSUME NEW w \in Workers, MarkJobProcessing(w) PROVE Goal
  <2>1. \A v \in Workers : worker'[v].job = worker[v].job /\ worker'[v].attempt = worker[v].attempt
    BY ZenonT(40), <1>5, <1>w, <1>t, GotoType, LeaseTaken DEF MarkJobProcessing
  <2> QED
    BY ZenonT(30), <2>1, <1>0
<1>6. ASSUME NEW w \in Workers,
             MarkJobProcessingRefused(w) \/ AddCheck(w) \/ AddCheckRefused(w) \/ MarkJobFailed(w)
             \/ MarkJobDead(w)
      PROVE  Goal
  BY ZenonT(40), <1>1, <1>3, <1>6
  DEF MarkJobProcessingRefused, AddCheck, AddCheckRefused, MarkJobFailed, MarkJobDead
<1>7. ASSUME NEW w \in Workers, Finish(w) PROVE Goal
  <2>1. \A v \in Workers : worker'[v] = IF v = w THEN IdleWorker ELSE worker[v]
    BY ZenonT(30), <1>7, <1>w DEF Finish
  <2>2. IdleWorker.job \notin Jobs
    BY ZenonT(30) DEF IdleWorker
  <2> QED
    BY ZenonT(30), <2>1, <2>2, <1>0
<1>8. ASSUME NEW w \in Workers, Ack(w) \/ Nack(w) \/ Requeue(w) \/ WorkerCrash(w) PROVE Goal
  BY ZenonT(30), <1>7, <1>8 DEF Ack, Nack, Requeue, WorkerCrash
<1>9. ASSUME NEW w \in Workers, ConnectionLost(w) PROVE Goal
  BY ZenonT(30), <1>9, <1>w, <1>0 DEF ConnectionLost, WorkerState
<1>10. ASSUME LoseQueue PROVE Goal
  BY ZenonT(30), <1>10, <1>w, <1>0 DEF LoseQueue, WorkerState
<1>11. ASSUME NEW s \in Schedulers, SchedulerStep(s) PROVE Goal
  BY ZenonT(30), <1>1, <1>11 DEF SchedulerStep, Ping, ClaimDueJobs, PublishConfirmed, PublishUnconfirmed,
       PublishFailed, MarkJobPublished, ReleaseJobPublish, PublicationWriteFails, SchedulerCrash
<1>12. ASSUME ApiStep \/ TimeStep \/ UNCHANGED vars PROVE Goal
  BY ZenonT(30), <1>12, <1>1 DEF ApiStep, Create, Update, Delete, CreateManualJob, TimeStep, ExpireLease,
                     BecomeAvailable, BecomeDue, vars
<1>13. ASSUME RepairTopology \/ RecoveryFails \/ RecoverDetectedTopologyLoss \/ DeclareTopology
       PROVE  Goal
  BY ZenonT(30), <1>13, <1>1 DEF RepairTopology, RecoveryFails, RecoverDetectedTopologyLoss, DeclareTopology
<1> HIDE DEF Goal
<1>14. Goal
  BY ZenonT(40), <1>2, <1>4, <1>5, <1>6, <1>8, <1>9, <1>10, <1>11, <1>12, <1>13
  DEF Next, WorkerStep, TopologyStep
<1> QED
  BY ZenonT(30), <1>14 DEF Goal

\* Claims are made by ClaimDueJobs and otherwise only dropped.
LEMMA ClaimsFrom ==
  ASSUME TypeOK, [Next]_vars, NEW s \in Schedulers, NEW c \in Claims(s)'
  PROVE  \/ c \in Claims(s)
         \/ /\ \E j \in Jobs : c = [job |-> j, attempt |-> job[j].attempt, token |-> tokens + 1]
            /\ \A t \in Schedulers \ {s} : scheduler'[t] = scheduler[t]
<1> DEFINE Goal == \/ c \in Claims(s)
                   \/ /\ \E j \in Jobs : c = [job |-> j, attempt |-> job[j].attempt, token |-> tokens + 1]
                      /\ \A t \in Schedulers \ {s} : scheduler'[t] = scheduler[t]
<1>s. scheduler \in [Schedulers -> SchedulerState]
  BY ZenonT(30) DEF TypeOK
<1>0. ASSUME scheduler'[s] = scheduler[s] PROVE Goal
  BY ZenonT(30), <1>0 DEF Claims
<1>1. ASSUME NEW t \in Schedulers, SchedulerStep(t) PROVE Goal
  <2>1. CASE t # s
    <3>1. scheduler' = scheduler \/ \E row : scheduler' = [scheduler EXCEPT ![t] = row]
      BY ZenonT(40), <1>1 DEF SchedulerStep, Ping, ClaimDueJobs, PublishConfirmed, PublishUnconfirmed,
           PublishFailed, MarkJobPublished, ReleaseJobPublish, PublicationWriteFails, NextClaim,
           SchedulerCrash
    <3> QED
      BY ZenonT(30), <2>1, <3>1, <1>s, <1>0
  <2>2. CASE t = s
    <3>1. ASSUME NEW batch \in SUBSET Jobs, NEW fresh \in SUBSET Jobs, ClaimDueJobs(s, batch, fresh)
          PROVE  Goal
      <4>1. /\ scheduler'[s].batch = {[job |-> j, attempt |-> job[j].attempt, token |-> tokens + 1] :
                                        j \in batch \cup fresh}
            /\ scheduler'[s].pc \notin {"published", "failed"}
        BY ZenonT(30), <3>1, <1>s DEF ClaimDueJobs
      <4>2. c \in {[job |-> j, attempt |-> job[j].attempt, token |-> tokens + 1] :
                     j \in batch \cup fresh}
        BY ZenonT(30), <4>1 DEF Claims
      <4>3. \A r \in Schedulers \ {s} : scheduler'[r] = scheduler[r]
        BY ZenonT(30), <3>1, <1>s DEF ClaimDueJobs
      <4> QED
        BY ZenonT(30), <4>2, <4>3
    <3>2. CASE Ping(s)
      BY ZenonT(30), <3>2, <1>s DEF Ping, Claims, SchedulerState
    <3>3. CASE SchedulerCrash(s)
      BY ZenonT(30), <3>3, <1>s DEF SchedulerCrash, Claims, IdleScheduler
    <3>4. CASE NextClaim(s)
      BY ZenonT(30), <3>4, <1>s DEF NextClaim, Claims
    <3>5. ASSUME NEW d \in scheduler[s].batch,
                 PublishConfirmed(s, d) \/ PublishUnconfirmed(s, d) \/ PublishFailed(s, d)
          PROVE  Goal
      BY <3>5, <1>s DEF PublishConfirmed, PublishUnconfirmed, PublishFailed, Claims
    <3> HIDE DEF Goal
    <3> QED
      BY ZenonT(40), <1>1, <2>2, <3>1, <3>2, <3>3, <3>4, <3>5
      DEF SchedulerStep, MarkJobPublished, ReleaseJobPublish, PublicationWriteFails
  <2> QED
    BY ZenonT(30), <2>1, <2>2
<1>2. ASSUME NEW w \in Workers, WorkerStep(w) PROVE Goal
  <2>1. scheduler' = scheduler
    BY ZenonT(30), <1>2 DEF WorkerStep, Receive, GetMonitor, MarkJobProcessing, MarkJobProcessingRefused,
         AddCheck, AddCheckRefused, MarkJobFailed, MarkJobDead, Ack, Nack, Requeue, WorkerCrash,
         ConnectionLost
  <2> QED
    BY ZenonT(30), <2>1, <1>0
<1>3. ASSUME ApiStep \/ TimeStep \/ TopologyStep \/ UNCHANGED vars PROVE Goal
  <2>1. scheduler' = scheduler
    BY ZenonT(30), <1>3 DEF ApiStep, Create, Update, Delete, CreateManualJob, TimeStep, ExpireLease,
         BecomeAvailable, BecomeDue, TopologyStep, LoseQueue, RepairTopology, RecoveryFails,
         RecoverDetectedTopologyLoss, DeclareTopology, vars
  <2> QED
    BY ZenonT(30), <2>1, <1>0
<1> HIDE DEF Goal
<1>4. Goal
  BY ZenonT(30), <1>1, <1>2, <1>3 DEF Next
<1> QED
  BY ZenonT(30), <1>4 DEF Goal

\* Nothing that asks for an attempt ever runs ahead of the job.
LEMMA AheadStep ==
  TypeOK /\ ClaimsInv /\ NoAttemptAhead /\ [Next]_vars => NoAttemptAhead'
<1> SUFFICES ASSUME TypeOK, ClaimsInv, NoAttemptAhead, [Next]_vars PROVE NoAttemptAhead'
  BY ZenonT(30)
<1>t. TypeOK'
  BY ZenonT(30), TypeStep
<1> SUFFICES ASSUME NEW j \in Jobs
             PROVE  /\ \A a \in 1..MaxAttempts : queue'[j][a] > 0 => a <= job'[j].attempt + 1
                    /\ \A w \in Workers : worker'[w].job = j => worker'[w].attempt <= job'[j].attempt + 1
                    /\ \A s \in Schedulers : \A c \in Claims(s)' :
                         c.job = j => c.attempt <= job'[j].attempt
  BY ZenonT(30) DEF NoAttemptAhead
<1>1. job[j].attempt \in Nat /\ job'[j].attempt \in {job[j].attempt, job[j].attempt + 1}
  BY ZenonT(30), AttemptsGrow
<1>2. ASSUME NEW a \in 1..MaxAttempts, queue'[j][a] > 0 PROVE a <= job'[j].attempt + 1
  <2>1. a <= job[j].attempt + 1
    BY ZenonT(30), <1>2, MessagesBehind
  <2> QED
    BY <1>1, <2>1, BoundsAssumption
<1>3. ASSUME NEW w \in Workers, worker'[w].job = j
      PROVE  worker'[w].attempt <= job'[j].attempt + 1
  <2>1. worker'[w].attempt <= job[j].attempt + 1
    BY ZenonT(30), <1>3, DeliveriesBehind
  <2>2. worker'[w].attempt \in Nat
    BY ZenonT(30), <1>t DEF TypeOK, WorkerState
  <2> QED
    BY <1>1, <2>1, <2>2
<1>4. ASSUME NEW s \in Schedulers, NEW c \in Claims(s)', c.job = j
      PROVE  c.attempt <= job'[j].attempt
  <2>1. CASE c \in Claims(s)
    <3>1. c.attempt <= job[j].attempt /\ c.attempt \in Nat
      BY ZenonT(30), <1>4, <2>1 DEF NoAttemptAhead, ClaimsInv, PublicationClaim
    <3> QED
      BY <1>1, <3>1
  <2>2. ASSUME NEW k \in Jobs, c = [job |-> k, attempt |-> job[k].attempt, token |-> tokens + 1]
        PROVE  c.attempt <= job'[j].attempt
    <3>1. k = j /\ c.attempt = job[j].attempt
      BY ZenonT(30), <1>4, <2>2
    <3> QED
      BY <1>1, <3>1
  <2> QED
    BY ZenonT(30), <1>4, <2>1, <2>2, ClaimsFrom
<1> QED
  BY ZenonT(30), <1>2, <1>3, <1>4

-----------------------------------------------------------------------------
(* The refinement *)

\* Only a job that was completed has a result, also after it was removed.
ResultsInv == \A j \in Jobs : HasResult(j) => job[j].status \in {"completed", "deleted"}

LifecycleInv == TypeOK /\ ClaimsInv /\ NoAttemptAhead /\ ResultsInv

\* The phase of each status.
LEMMA Phases ==
  /\ PhaseOf("none") = "none"
  /\ PhaseOf("scheduled") = "waiting"
  /\ PhaseOf("queued") = "waiting"
  /\ PhaseOf("failed") = "waiting"
  /\ PhaseOf("processing") = "running"
  /\ PhaseOf("completed") = "completed"
  /\ PhaseOf("dead") = "dead"
  /\ PhaseOf("deleted") = "removed"
BY ZenonT(30) DEF PhaseOf

\* What JobLifecycle sees of a job.
LEMMA Seen ==
  ASSUME NEW j \in Jobs
  PROVE  /\ phase[j] = PhaseOf(job[j].status) /\ phase'[j] = PhaseOf(job'[j].status)
         /\ attempt[j] = job[j].attempt /\ attempt'[j] = job'[j].attempt
         /\ j \in recorded <=> HasResult(j)
         /\ j \in recorded' <=> HasResult(j)'
BY ZenonT(30) DEF phase, attempt, recorded, HasResult

\* A quiet step creates a job, fails it, buries it, or leaves it in its phase.
LEMMA QuietIsLifecycle ==
  ASSUME NEW j \in Jobs, QuietJob(j), HasResult(j)' <=> HasResult(j)
  PROVE  Lifecycle!JobStep(j)
<1>1. attempt'[j] = attempt[j] /\ (j \in recorded' <=> j \in recorded)
  BY ZenonT(30), Seen DEF QuietJob
<1>2. \/ phase'[j] = phase[j]
      \/ phase[j] \in {"waiting", "running"} /\ phase'[j] \in {"waiting", "dead"}
      \/ phase[j] = "none" /\ phase'[j] = "waiting"
  BY ZenonT(30), Seen, Phases DEF QuietJob, Active
<1>3. Lifecycle!SameAttempt(j) /\ Lifecycle!SameResult(j)
  BY ZenonT(30), <1>1 DEF Lifecycle!SameAttempt, Lifecycle!SameResult
<1>4. CASE phase'[j] = phase[j]
  BY ZenonT(30), <1>3, <1>4 DEF Lifecycle!JobStep, Lifecycle!Stays
<1>5. CASE phase[j] = "none" /\ phase'[j] = "waiting"
  BY ZenonT(30), <1>3, <1>5 DEF Lifecycle!JobStep, Lifecycle!Create, Lifecycle!Moves
<1>6. CASE phase[j] = "running" /\ phase'[j] = "waiting"
  BY ZenonT(30), <1>3, <1>6 DEF Lifecycle!JobStep, Lifecycle!Fail, Lifecycle!Moves
<1>7. CASE phase[j] \in {"waiting", "running"} /\ phase'[j] = "dead"
  BY ZenonT(30), <1>3, <1>7 DEF Lifecycle!JobStep, Lifecycle!Bury, Lifecycle!Moves
<1> QED
  BY ZenonT(30), <1>2, <1>4, <1>5, <1>6, <1>7

\* Every step of the pipeline moves every job as JobLifecycle allows.
LEMMA JobsFollowLifecycle ==
  ASSUME LifecycleInv, [Next]_vars, NEW j \in Jobs
  PROVE  Lifecycle!JobStep(j)
<1> USE DEF LifecycleInv
<1>0. ASSUME job'[j] = job[j], HasResult(j)' <=> HasResult(j)
      PROVE  Lifecycle!JobStep(j)
  BY ZenonT(30), <1>0, QuietIsLifecycle DEF QuietJob
<1>1. ASSUME NEW w \in Workers, MarkJobProcessing(w)
      PROVE  Lifecycle!JobStep(j)
  <2>1. HasResult(j)' <=> HasResult(j)
    BY ZenonT(30), <1>1, StartEffect DEF HasResult
  <2>2. CASE j = worker[w].job
    <3>1. /\ phase[j] = "waiting" /\ phase'[j] = "running"
          /\ attempt[j] < MaxAttempts /\ attempt'[j] = attempt[j] + 1
          /\ j \in recorded' <=> j \in recorded
      BY ZenonT(30), <1>1, <2>1, <2>2, StartEffect, Seen, Phases
    <3> QED
      BY ZenonT(30), <3>1 DEF Lifecycle!JobStep, Lifecycle!Start, Lifecycle!Moves, Lifecycle!SameResult
  <2>3. CASE j # worker[w].job
    BY ZenonT(30), <1>0, <1>1, <2>1, <2>3, StartEffect
  <2> QED
    BY ZenonT(30), <2>2, <2>3
<1>2. ASSUME NEW w \in Workers, AddCheck(w)
      PROVE  Lifecycle!JobStep(j)
  <2>1. PICK r : r.job = worker[w].job /\ results' = results \cup {r}
    BY ZenonT(30), <1>2, CompleteEffect
  <2>2. CASE j = worker[w].job
    <3>1. ~HasResult(j) /\ HasResult(j)'
      BY ZenonT(30), <1>2, <2>1, <2>2, CompleteEffect DEF HasResult
    <3>2. /\ phase[j] = "running" /\ phase'[j] = "completed"
          /\ attempt'[j] = attempt[j]
          /\ j \notin recorded /\ j \in recorded'
      BY ZenonT(30), <1>2, <2>2, <3>1, CompleteEffect, Seen, Phases
    <3> QED
      BY ZenonT(30), <3>2 DEF Lifecycle!JobStep, Lifecycle!Complete, Lifecycle!Moves, Lifecycle!SameAttempt
  <2>3. CASE j # worker[w].job
    <3>1. HasResult(j)' <=> HasResult(j)
      BY ZenonT(30), <2>1, <2>3 DEF HasResult
    <3> QED
      BY ZenonT(30), <1>0, <1>2, <2>3, <3>1, CompleteEffect
  <2> QED
    BY ZenonT(30), <2>2, <2>3
<1>3. ASSUME NEW m \in Monitors, Delete(m)
      PROVE  Lifecycle!JobStep(j)
  <2>1. CASE job[j].status # "none" /\ job'[j].status = "deleted" /\ ~HasResult(j)'
    <3>1. phase[j] \in Lifecycle!Phases \ {"none"}
      <4>1. job[j].status \in JobStatus \ {"none"}
        BY ZenonT(30), <2>1 DEF TypeOK, JobRow
      <4> QED
        BY ZenonT(30), <4>1, Seen, Phases DEF JobStatus, Lifecycle!Phases
    <3>2. phase'[j] = "removed" /\ attempt'[j] = attempt[j] /\ j \notin recorded'
      BY ZenonT(30), <1>3, <2>1, DeleteEffect, Seen, Phases
    <3> QED
      BY ZenonT(30), <3>1, <3>2 DEF Lifecycle!JobStep, Lifecycle!Remove, Lifecycle!Moves, Lifecycle!SameAttempt
  <2>2. CASE job[j].status = "none" /\ job'[j] = job[j] /\ ~HasResult(j)'
    <3>1. ~HasResult(j)
      BY ZenonT(30), <2>2 DEF ResultsInv
    <3> QED
      BY ZenonT(30), <1>0, <2>2, <3>1
  <2>3. CASE job'[j] = job[j] /\ \A r : r.job = j => (r \in results' <=> r \in results)
    <3>1. HasResult(j)' <=> HasResult(j)
      BY ZenonT(30), <2>3 DEF HasResult
    <3> QED
      BY ZenonT(30), <1>0, <2>3, <3>1
  <2> QED
    BY ZenonT(30), <1>3, <2>1, <2>2, <2>3, DeleteEffect
<1>4. CASE /\ \A w \in Workers : ~MarkJobProcessing(w) /\ ~AddCheck(w)
           /\ \A m \in Monitors : ~Delete(m)
  <2>1. results' = results /\ QuietJob(j)
    BY ZenonT(30), <1>4, QuietStep
  <2>2. HasResult(j)' <=> HasResult(j)
    BY ZenonT(30), <2>1 DEF HasResult
  <2> QED
    BY ZenonT(30), <2>1, <2>2, QuietIsLifecycle
<1> QED
  BY ZenonT(30), <1>1, <1>2, <1>3, <1>4

\* What retention does to a job: it removes a settled one, or only its result.
LEMMA RetentionEffect ==
  ASSUME TypeOK, NEW oldResults, NEW oldJobs, DeleteExpiredData(oldResults, oldJobs), NEW j \in Jobs
  PROVE  /\ job'[j].attempt = job[j].attempt
         /\ \/ job[j].status \in {"completed", "dead"} /\ job'[j].status = "deleted"
            \/ job'[j] = job[j]
         /\ HasResult(j)' => HasResult(j)
<1>1. job[j] \in JobRow
  BY ZenonT(30) DEF TypeOK
<1>2. \/ job[j].status \in {"completed", "dead"} /\ job'[j] = Deleted(job[j])
      \/ job'[j] = job[j]
  BY ZenonT(30) DEF DeleteExpiredData, ExpiredJobs
<1>3. Deleted(job[j]).status = "deleted" /\ Deleted(job[j]).attempt = job[j].attempt
  BY ZenonT(30), <1>1, RowStatus
<1>4. results' \subseteq results
  BY ZenonT(30) DEF DeleteExpiredData
<1> QED
  BY ZenonT(30), <1>2, <1>3, <1>4 DEF HasResult

\* The retention pass keeps the lifecycle, too.
LEMMA RetentionFollowsLifecycle ==
  ASSUME LifecycleInv, NEW oldResults, NEW oldJobs, DeleteExpiredData(oldResults, oldJobs),
         NEW j \in Jobs
  PROVE  Lifecycle!JobStep(j)
<1> USE DEF LifecycleInv
<1>1. CASE job[j].status \in {"completed", "dead"} /\ job'[j].status = "deleted"
  <2>1. /\ phase[j] \in {"completed", "dead"} /\ phase'[j] = "removed"
        /\ attempt'[j] = attempt[j]
        /\ j \in recorded' => j \in recorded
    BY ZenonT(30), <1>1, RetentionEffect, Seen, Phases
  <2> QED
    BY ZenonT(30), <2>1 DEF Lifecycle!JobStep, Lifecycle!Remove, Lifecycle!Moves, Lifecycle!SameAttempt,
                Lifecycle!Phases
<1>2. CASE job'[j] = job[j] /\ (HasResult(j)' <=> HasResult(j))
  BY ZenonT(30), <1>2, QuietIsLifecycle DEF QuietJob
<1>3. CASE job'[j] = job[j] /\ HasResult(j) /\ ~HasResult(j)'
  <2>1. /\ phase[j] \in {"completed", "removed"} /\ phase'[j] = phase[j]
        /\ attempt'[j] = attempt[j]
        /\ j \in recorded /\ j \notin recorded'
    BY ZenonT(30), <1>3, Seen, Phases DEF ResultsInv
  <2> QED
    BY ZenonT(30), <2>1 DEF Lifecycle!JobStep, Lifecycle!ForgetResult, Lifecycle!SameAttempt
<1> QED
  BY ZenonT(30), <1>1, <1>2, <1>3, RetentionEffect

\* A result comes with the completion of its job, and a completed job stays so.
LEMMA ResultsStep ==
  ASSUME LifecycleInv, [Next]_vars
  PROVE  ResultsInv'
<1> USE DEF LifecycleInv
<1> SUFFICES ASSUME NEW j \in Jobs, HasResult(j)' PROVE job'[j].status \in {"completed", "deleted"}
  BY ZenonT(30) DEF ResultsInv
<1>1. ASSUME NEW w \in Workers, MarkJobProcessing(w)
      PROVE  job'[j].status \in {"completed", "deleted"}
  <2>1. HasResult(j)
    BY ZenonT(30), <1>1, StartEffect DEF HasResult
  <2> QED
    BY ZenonT(30), <1>1, <2>1, StartEffect DEF ResultsInv
<1>2. ASSUME NEW w \in Workers, AddCheck(w)
      PROVE  job'[j].status \in {"completed", "deleted"}
  <2>1. j = worker[w].job \/ HasResult(j)
    BY <1>2, CompleteEffect DEF HasResult
  <2> QED
    BY ZenonT(30), <1>2, <2>1, CompleteEffect DEF ResultsInv
<1>3. ASSUME NEW m \in Monitors, Delete(m)
      PROVE  job'[j].status \in {"completed", "deleted"}
  <2>1. job'[j] = job[j] /\ HasResult(j)
    BY ZenonT(30), <1>3, DeleteEffect DEF HasResult
  <2> QED
    BY ZenonT(30), <2>1 DEF ResultsInv
<1>4. CASE /\ \A w \in Workers : ~MarkJobProcessing(w) /\ ~AddCheck(w)
           /\ \A m \in Monitors : ~Delete(m)
  <2>1. results' = results /\ QuietJob(j)
    BY ZenonT(30), <1>4, QuietStep
  <2>2. HasResult(j)
    BY ZenonT(30), <2>1 DEF HasResult
  <2> QED
    BY ZenonT(30), <2>1, <2>2 DEF ResultsInv, QuietJob, Active
<1> QED
  BY ZenonT(30), <1>1, <1>2, <1>3, <1>4

\* Retention touches neither what the invariant counts on nor unfinished jobs.
LEMMA RetentionKeepsInv ==
  ASSUME LifecycleInv, NEW oldResults, NEW oldJobs, DeleteExpiredData(oldResults, oldJobs)
  PROVE  LifecycleInv'
<1> USE DEF LifecycleInv
<1>1. UNCHANGED <<monitor, tokens, topology, recoveriesOwed, queue, deadLetters, scheduler, worker, faults>>
  BY ZenonT(30) DEF DeleteExpiredData, broker
<1>2. TypeOK'
  <2>1. job' \in [Jobs -> JobRow]
    <3>1. job' = [j \in Jobs |-> IF j \in oldJobs THEN Deleted(job[j]) ELSE job[j]]
      BY ZenonT(30) DEF DeleteExpiredData
    <3>2. \A j \in Jobs : job[j] \in JobRow /\ Deleted(job[j]) \in JobRow
      BY ZenonT(30), RowTypes DEF TypeOK
    <3> QED
      BY ZenonT(30), <3>1, <3>2
  <2>2. results' \subseteq Result
    BY ZenonT(30) DEF DeleteExpiredData, TypeOK
  <2> QED
    BY ZenonT(30), <1>1, <2>1, <2>2 DEF TypeOK
<1>3. ASSUME NEW j \in Jobs
      PROVE  job'[j].attempt = job[j].attempt /\ (job'[j].status = "none" <=> job[j].status = "none")
  BY ZenonT(30), RetentionEffect
<1>4. \A s \in Schedulers : Claims(s)' = Claims(s)
  BY ZenonT(30), <1>1 DEF Claims
<1>5. ClaimsInv'
  <2>1. \A s \in Schedulers : \A c \in Claims(s) : c.job \in Jobs
    BY ZenonT(30) DEF ClaimsInv, PublicationClaim
  <2> QED
    BY ZenonT(30), <1>1, <1>3, <1>4, <2>1 DEF ClaimsInv
<1>6. NoAttemptAhead'
  BY ZenonT(30), <1>1, <1>3, <1>4 DEF NoAttemptAhead
<1>7. ResultsInv'
  BY ZenonT(30), RetentionEffect DEF ResultsInv
<1> QED
  BY ZenonT(30), <1>2, <1>5, <1>6, <1>7

\* Every step of the pipeline or of retention preserves the invariant.
LEMMA LifecycleInvStep == LifecycleInv /\ [RetentionNext]_vars => LifecycleInv'
<1> SUFFICES ASSUME LifecycleInv, [RetentionNext]_vars PROVE LifecycleInv'
  BY ZenonT(30)
<1>1. CASE [Next]_vars
  BY ZenonT(30), <1>1, TypeStep, ClaimsStep, AheadStep, ResultsStep DEF LifecycleInv
<1> QED
  BY ZenonT(30), <1>1, RetentionKeepsInv DEF RetentionNext

\* An empty database satisfies the invariant.
LEMMA LifecycleInvInit == Init => LifecycleInv
<1> SUFFICES ASSUME Init PROVE LifecycleInv
  BY ZenonT(30)
<1>1. TypeOK
  BY ZenonT(30), InitType
<1>2. \A j \in Jobs : job[j].status = "none" /\ job[j].attempt = 0
  BY ZenonT(30) DEF Init
<1>3. \A s \in Schedulers : Claims(s) = {}
  BY ZenonT(30) DEF Init, IdleScheduler, Claims
<1>4. \A w \in Workers : worker[w].job \notin Jobs
  BY ZenonT(30), JobsAssumption DEF Init, IdleWorker
<1>5. \A j \in Jobs, a \in 1..MaxAttempts : queue[j][a] = 0
  BY ZenonT(30) DEF Init
<1>6. results = {}
  BY ZenonT(30) DEF Init
<1>7. NoAttemptAhead
  BY <1>2, <1>3, <1>4, <1>5 DEF NoAttemptAhead
<1> QED
  BY ZenonT(30), <1>1, <1>2, <1>3, <1>6, <1>7 DEF LifecycleInv, ClaimsInv, ResultsInv, HasResult

\* The invariant behind the refinement: types, the tokens of claims and leases, no
\* message ahead of its job's next attempt, and results only of completed jobs.
THEOREM LifecycleInvHolds == RetentionSpec => []LifecycleInv
BY LifecycleInvInit, LifecycleInvStep, PTL DEF RetentionSpec

\* The pipeline with its retention pass implements JobLifecycle: whatever the
\* schedulers, the workers, the broker, the API and their faults do, each step
\* moves every job along one of the arcs of its life, the attempts of a job run one
\* after the other up to MAX_JOB_ATTEMPTS, and AddCheck stores at most one result.
THEOREM RetentionImplementsLifecycle == RetentionSpec => ImplementsLifecycle
<1>1. Init => Lifecycle!Init
  <2> SUFFICES ASSUME Init PROVE Lifecycle!Init
    BY ZenonT(30)
  <2>1. \A j \in Jobs : job[j].status = "none" /\ job[j].attempt = 0
    BY ZenonT(30) DEF Init
  <2>2. phase = [j \in Jobs |-> "none"] /\ attempt = [j \in Jobs |-> 0]
    BY ZenonT(30), <2>1, Phases DEF phase, attempt
  <2>3. recorded = {}
    BY ZenonT(30) DEF Init, recorded
  <2> QED
    BY ZenonT(30), <2>2, <2>3 DEF Lifecycle!Init
<1>2. LifecycleInv /\ LifecycleInv' /\ [RetentionNext]_vars => [Lifecycle!Next]_(Lifecycle!lifecycle)
  <2> SUFFICES ASSUME LifecycleInv, LifecycleInv', [RetentionNext]_vars
               PROVE  Lifecycle!Next
    BY ZenonT(30)
  <2>1. phase' \in [Jobs -> Lifecycle!Phases]
    <3>1. \A j \in Jobs : job'[j].status \in JobStatus
      BY ZenonT(30) DEF LifecycleInv, TypeOK, JobRow
    <3>2. \A j \in Jobs : PhaseOf(job'[j].status) \in Lifecycle!Phases
      BY ZenonT(30), <3>1, Phases DEF JobStatus, Lifecycle!Phases
    <3> QED
      BY ZenonT(30), <3>2 DEF phase
  <2>2. attempt' \in [Jobs -> Nat]
    BY ZenonT(30) DEF LifecycleInv, TypeOK, JobRow, attempt
  <2>3. recorded' \subseteq Jobs
    BY DEF LifecycleInv, TypeOK, Result, recorded
  <2>4. \A j \in Jobs : Lifecycle!JobStep(j)
    <3>1. CASE [Next]_vars
      BY ZenonT(30), <3>1, JobsFollowLifecycle
    <3> QED
      BY ZenonT(30), <3>1, RetentionFollowsLifecycle DEF RetentionNext
  <2> QED
    BY ZenonT(30), <2>1, <2>2, <2>3, <2>4 DEF Lifecycle!Next
<1> QED
  BY <1>1, <1>2, LifecycleInvHolds, PTL DEF RetentionSpec, ImplementsLifecycle, Lifecycle!Spec

\* The pipeline alone is the pipeline whose retention pass never runs.
LEMMA SpecIsRetentionSpec == Spec => RetentionSpec
<1>1. [Next]_vars => [RetentionNext]_vars
  BY ZenonT(30) DEF RetentionNext
<1> QED
  BY <1>1, PTL DEF Spec, RetentionSpec

\* The pipeline without retention implements JobLifecycle as well.
THEOREM PipelineImplementsLifecycle == Spec => ImplementsLifecycle
BY SpecIsRetentionSpec, RetentionImplementsLifecycle, PTL

\* While nothing expires, a job is completed exactly when it has a result, and it
\* has one: AddCheck commits both or neither, and Delete cascades to both.
THEOREM OneResult == Spec => []OneResultPerCompletedJob
<1>1. Init => OneResultPerCompletedJob
  BY DEF Init, OneResultPerCompletedJob, HasResult
<1>2. LifecycleInv /\ OneResultPerCompletedJob /\ [Next]_vars => OneResultPerCompletedJob'
  <2> SUFFICES ASSUME LifecycleInv, OneResultPerCompletedJob, [Next]_vars
               PROVE  OneResultPerCompletedJob'
    BY ZenonT(30)
  <2> USE DEF LifecycleInv
  <2>1. ASSUME NEW w \in Workers, MarkJobProcessing(w) PROVE OneResultPerCompletedJob'
    <3>1. results' = results /\ \A j \in Jobs : HasResult(j)' <=> HasResult(j)
      BY ZenonT(30), <2>1, StartEffect DEF HasResult
    <3>2. \A j \in Jobs : job'[j].status = "completed" <=> job[j].status = "completed"
      BY ZenonT(30), <2>1, StartEffect
    <3> QED
      BY ZenonT(30), <3>1, <3>2 DEF OneResultPerCompletedJob
  <2>2. ASSUME NEW w \in Workers, AddCheck(w) PROVE OneResultPerCompletedJob'
    <3>1. PICK r : r.job = worker[w].job /\ results' = results \cup {r}
      BY ZenonT(30), <2>2, CompleteEffect
    <3>2. \A q \in results : q.job # r.job
      BY ZenonT(30), <2>2, <3>1, CompleteEffect DEF HasResult
    <3>3. \A j \in Jobs : HasResult(j)' <=> HasResult(j) \/ j = worker[w].job
      BY ZenonT(30), <3>1 DEF HasResult
    <3>4. \A j \in Jobs : job'[j].status = "completed" <=>
                             job[j].status = "completed" \/ j = worker[w].job
      BY ZenonT(30), <2>2, CompleteEffect
    <3> QED
      BY ZenonT(30), <3>1, <3>2, <3>3, <3>4 DEF OneResultPerCompletedJob
  <2>3. ASSUME NEW m \in Monitors, Delete(m) PROVE OneResultPerCompletedJob'
    <3>1. results' \subseteq results
      BY ZenonT(30), <2>3 DEF Delete
    <3>2. \A j \in Jobs : job'[j].status = "completed" <=> HasResult(j)'
      <4> SUFFICES ASSUME NEW j \in Jobs PROVE job'[j].status = "completed" <=> HasResult(j)'
        BY ZenonT(30)
      <4>1. CASE MonitorOf[j] = m
        BY ZenonT(30), <2>3, <4>1, DeleteEffect
      <4>2. CASE MonitorOf[j] # m
        <5>1. HasResult(j)' <=> HasResult(j)
          <6>1. \A r \in results : r.job = j => r \in results'
            BY ZenonT(30), <2>3, <4>2 DEF Delete
          <6> QED
            BY ZenonT(30), <3>1, <6>1 DEF HasResult
        <5> QED
          BY ZenonT(30), <2>3, <4>2, <5>1, DeleteEffect DEF OneResultPerCompletedJob
      <4> QED
        BY ZenonT(30), <4>1, <4>2
    <3> QED
      BY ZenonT(30), <3>1, <3>2 DEF OneResultPerCompletedJob
  <2>4. CASE /\ \A w \in Workers : ~MarkJobProcessing(w) /\ ~AddCheck(w)
             /\ \A m \in Monitors : ~Delete(m)
    <3>1. results' = results /\ \A j \in Jobs : HasResult(j)' <=> HasResult(j)
      BY ZenonT(30), <2>4, QuietStep DEF HasResult
    <3>2. \A j \in Jobs : job'[j].status = "completed" <=> job[j].status = "completed"
      BY ZenonT(30), <2>4, QuietStep DEF QuietJob, Active
    <3> QED
      BY ZenonT(30), <3>1, <3>2 DEF OneResultPerCompletedJob
  <2> QED
    BY ZenonT(30), <2>1, <2>2, <2>3, <2>4
<1> QED
  BY <1>1, <1>2, SpecIsRetentionSpec, LifecycleInvHolds, PTL DEF Spec

-----------------------------------------------------------------------------
(* Who may write the outcome of a job, with the retention pass running *)

\* What a step makes of one worker: it starts over, moves on within its delivery,
\* reads the monitor, or takes the lease under a token handed out to it alone.
LEMMA WorkerEffect ==
  ASSUME TypeOK, [Next]_vars, NEW v \in Workers
  PROVE  \/ /\ worker'[v].pc = "idle" /\ worker'[v].token = 0
         \/ /\ worker'[v].pc = "received" /\ worker'[v].token = 0
            /\ \E a \in 1..MaxAttempts : queue[worker'[v].job][a] > 0 /\ worker'[v].job \in Jobs
         \/ /\ worker'[v].job = worker[v].job
            /\ worker'[v].config = worker[v].config
            /\ worker'[v].token = worker[v].token
            /\ \/ worker'[v].pc = worker[v].pc
               \/ worker'[v].pc \in {"ack", "nack", "requeue"} /\ worker[v].pc # "idle"
               \/ worker'[v].pc = "failing" /\ worker[v].pc = "leased"
            /\ worker'[v].pc = "nack" /\ worker[v].pc # "nack" => MarkJobDead(v) /\ OwnsLease(v)
         \/ /\ worker'[v].pc = "looked_up" /\ worker[v].pc = "received"
            /\ worker'[v].job = worker[v].job
            /\ worker'[v].config = monitor[MonitorOf[worker[v].job]].config
            /\ worker'[v].token = worker[v].token
            /\ UNCHANGED <<job, monitor>>
         \/ /\ worker'[v].pc = "leased" /\ worker[v].pc = "looked_up"
            /\ worker'[v].job = worker[v].job
            /\ worker'[v].config = worker[v].config
            /\ worker'[v].token = tokens + 1
            /\ tokens' = tokens + 1
            /\ \A w \in Workers \ {v} : worker'[w] = worker[w]
<1> DEFINE Same == worker'[v] = worker[v]
           Started == worker'[v].pc = "idle" /\ worker'[v].token = 0
           Received == /\ worker'[v].pc = "received" /\ worker'[v].token = 0
                       /\ \E a \in 1..MaxAttempts : queue[worker'[v].job][a] > 0 /\ worker'[v].job \in Jobs
           Moved == /\ worker'[v].job = worker[v].job
                    /\ worker'[v].config = worker[v].config
                    /\ worker'[v].token = worker[v].token
                    /\ \/ worker'[v].pc = worker[v].pc
                       \/ worker'[v].pc \in {"ack", "nack", "requeue"} /\ worker[v].pc # "idle"
                       \/ worker'[v].pc = "failing" /\ worker[v].pc = "leased"
                    /\ worker'[v].pc = "nack" /\ worker[v].pc # "nack" =>
                         MarkJobDead(v) /\ OwnsLease(v)
           LookedUp == /\ worker'[v].pc = "looked_up" /\ worker[v].pc = "received"
                       /\ worker'[v].job = worker[v].job
                       /\ worker'[v].config = monitor[MonitorOf[worker[v].job]].config
                       /\ worker'[v].token = worker[v].token
                       /\ UNCHANGED <<job, monitor>>
           Leased == /\ worker'[v].pc = "leased" /\ worker[v].pc = "looked_up"
                     /\ worker'[v].job = worker[v].job
                     /\ worker'[v].config = worker[v].config
                     /\ worker'[v].token = tokens + 1
                     /\ tokens' = tokens + 1
                     /\ \A w \in Workers \ {v} : worker'[w] = worker[w]
           Goal == Started \/ Received \/ Moved \/ LookedUp \/ Leased
<1>w. worker \in [Workers -> WorkerState]
  BY ZenonT(30) DEF TypeOK
<1>t. tokens \in Nat
  BY ZenonT(30) DEF TypeOK
<1>0. ASSUME Same PROVE Goal
  BY ZenonT(30), <1>0
<1>1. ASSUME NEW w \in Workers, NEW row, worker' = [worker EXCEPT ![w] = row], w # v PROVE Goal
  BY ZenonT(30), <1>0, <1>1, <1>w
<1>2. ASSUME NEW w \in Workers, NEW pc \in {"leased", "failing", "ack", "nack", "requeue"},
             Goto(w, pc), w # v
      PROVE  Goal
  BY ZenonT(30), <1>0, <1>2, <1>w, GotoType
<1>3. ASSUME NEW pc \in {"ack", "requeue"}, Goto(v, pc), worker[v].pc # "idle" PROVE Goal
  <2>1. /\ worker'[v].job = worker[v].job /\ worker'[v].config = worker[v].config
        /\ worker'[v].token = worker[v].token /\ worker'[v].pc = pc
    BY ZenonT(30), <1>3, <1>w, GotoType
  <2> QED
    BY ZenonT(30), <1>3, <2>1
<1>4. ASSUME Goto(v, "failing"), worker[v].pc = "leased" PROVE Goal
  <2>1. /\ worker'[v].job = worker[v].job /\ worker'[v].config = worker[v].config
        /\ worker'[v].token = worker[v].token /\ worker'[v].pc = "failing"
    BY ZenonT(30), <1>4, <1>w, GotoType
  <2> QED
    BY ZenonT(30), <1>4, <2>1
<1>5. ASSUME NEW w \in Workers, NEW k \in Jobs, NEW a \in 1..MaxAttempts, Receive(w, k, a)
      PROVE  Goal
  <2>1. CASE w = v
    <3>1. /\ worker'[v].pc = "received" /\ worker'[v].token = 0 /\ worker'[v].job = k
          /\ queue[k][a] > 0
      BY ZenonT(30), <1>5, <2>1, <1>w DEF Receive
    <3> QED
      BY ZenonT(30), <3>1
  <2>2. CASE w # v
    BY ZenonT(30), <1>5, <1>1, <2>2 DEF Receive
  <2> QED
    BY ZenonT(30), <2>1, <2>2
<1>6. ASSUME NEW w \in Workers, GetMonitor(w) PROVE Goal
  <2>1. CASE w # v
    <3>1. Same
      BY ZenonT(30), <1>6, <2>1, <1>w DEF GetMonitor, Goto
    <3> QED
      BY ZenonT(30), <3>1, <1>0
  <2>2. CASE w = v /\ \E pc \in {"ack", "requeue"} : Goto(w, pc)
    BY ZenonT(30), <1>6, <2>2, <1>3 DEF GetMonitor, At
  <2>3. CASE w = v /\ worker' = [worker EXCEPT ![w] = [@ EXCEPT !.pc = "looked_up",
                                   !.config = monitor[MonitorOf[worker[w].job]].config]]
    <3>1. /\ worker'[v].pc = "looked_up" /\ worker'[v].job = worker[v].job
          /\ worker'[v].config = monitor[MonitorOf[worker[v].job]].config
          /\ worker'[v].token = worker[v].token
      BY <2>3, <1>w DEF WorkerState
    <3>2. worker[v].pc = "received" /\ UNCHANGED <<job, monitor>>
      BY ZenonT(30), <1>6, <2>3 DEF GetMonitor, At, store
    <3> QED
      BY ZenonT(30), <3>1, <3>2
  <2> HIDE DEF Goal
  <2> QED
    BY ZenonT(40), <1>6, <2>1, <2>2, <2>3 DEF GetMonitor
<1>7. ASSUME NEW w \in Workers, MarkJobProcessing(w) PROVE Goal
  <2>1. CASE Goto(w, "requeue")
    <3> HIDE DEF Goal
    <3>1. worker[w].pc # "idle"
      BY ZenonT(30), <1>7 DEF MarkJobProcessing, At
    <3> QED
      BY ZenonT(30), <2>1, <3>1, <1>2, <1>3
  <2>2. CASE worker' = [worker EXCEPT ![w] = [@ EXCEPT !.pc = "leased", !.token = tokens + 1]]
    <3>1. /\ worker'[w].pc = "leased" /\ worker'[w].job = worker[w].job
          /\ worker'[w].config = worker[w].config /\ worker'[w].token = tokens + 1
          /\ \A u \in Workers \ {w} : worker'[u] = worker[u]
      BY ZenonT(40), <2>2, <1>w, <1>t, LeaseTaken
    <3>2. worker[w].pc = "looked_up" /\ tokens' = tokens + 1
      BY ZenonT(30), <1>7 DEF MarkJobProcessing, At
    <3> QED
      BY ZenonT(30), <3>1, <3>2, <1>0
  <2> HIDE DEF Goal
  <2> QED
    BY ZenonT(40), <1>7, <2>1, <2>2 DEF MarkJobProcessing
<1>8. ASSUME NEW w \in Workers, MarkJobProcessingRefused(w) \/ MarkJobFailed(w) PROVE Goal
  <2> HIDE DEF Goal
  <2>1. worker[w].pc # "idle"
    BY ZenonT(30), <1>8 DEF MarkJobProcessingRefused, MarkJobFailed, At
  <2>2. \/ worker' = worker \/ Goto(w, "ack") \/ Goto(w, "requeue")
    BY ZenonT(30), <1>8 DEF MarkJobProcessingRefused, MarkJobFailed
  <2> QED
    BY ZenonT(30), <2>1, <2>2, <1>0, <1>2, <1>3
<1>9. ASSUME NEW w \in Workers, AddCheck(w) \/ AddCheckRefused(w) PROVE Goal
  <2> HIDE DEF Goal
  <2>1. worker[w].pc = "leased"
    BY ZenonT(30), <1>9 DEF AddCheck, AddCheckRefused, At
  <2>2. Goto(w, "ack") \/ Goto(w, "failing")
    BY ZenonT(30), <1>9 DEF AddCheck, AddCheckRefused
  <2> QED
    BY ZenonT(30), <2>1, <2>2, <1>2, <1>3, <1>4
<1>10. ASSUME NEW w \in Workers, MarkJobDead(w) PROVE Goal
  <2>1. worker[w].pc = "failing"
    BY ZenonT(30), <1>10 DEF MarkJobDead, At
  <2>2. worker' = worker \/ Goto(w, "ack") \/ (Goto(w, "nack") /\ OwnsLease(w))
    BY ZenonT(40), <1>10 DEF MarkJobDead
  <2>3. CASE Goto(w, "nack") /\ OwnsLease(w) /\ w = v
    <3>1. /\ worker'[v].job = worker[v].job /\ worker'[v].config = worker[v].config
          /\ worker'[v].token = worker[v].token /\ worker'[v].pc = "nack"
      BY ZenonT(30), <2>3, <1>w, GotoType
    <3> QED
      BY ZenonT(30), <1>10, <2>1, <2>3, <3>1
  <2> HIDE DEF Goal
  <2> QED
    BY ZenonT(30), <2>1, <2>2, <2>3, <1>0, <1>2, <1>3
<1>11. ASSUME NEW w \in Workers, Finish(w) PROVE Goal
  <2>1. \A u \in Workers : worker'[u] = IF u = w THEN IdleWorker ELSE worker[u]
    BY ZenonT(30), <1>11, <1>w DEF Finish
  <2>2. IdleWorker.pc = "idle" /\ IdleWorker.token = 0
    BY ZenonT(30) DEF IdleWorker
  <2> QED
    BY ZenonT(30), <2>1, <2>2, <1>0
<1>12. ASSUME NEW w \in Workers, Ack(w) \/ Nack(w) \/ Requeue(w) \/ WorkerCrash(w) PROVE Goal
  BY ZenonT(30), <1>11, <1>12 DEF Ack, Nack, Requeue, WorkerCrash
<1>13. ASSUME LoseQueue \/ \E w \in Workers : ConnectionLost(w) PROVE Goal
  <2>1. /\ worker'[v].job = worker[v].job /\ worker'[v].config = worker[v].config
        /\ worker'[v].token = worker[v].token /\ worker'[v].pc = worker[v].pc
    <3> HIDE DEF Goal
    <3>0. worker[v] \in WorkerState
      BY ZenonT(30), <1>w
    <3>1. CASE LoseQueue
      <4>1. worker'[v] = [worker[v] EXCEPT !.owned = FALSE]
        BY ZenonT(30), <3>1 DEF LoseQueue
      <4> QED
        BY ZenonT(30), <4>1, <3>0 DEF WorkerState
    <3>2. ASSUME NEW w \in Workers, ConnectionLost(w)
          PROVE  worker'[v] = worker[v] \/ worker'[v] = [worker[v] EXCEPT !.owned = FALSE]
      <4>1. worker' = [worker EXCEPT ![w].owned = FALSE]
        BY ZenonT(30), <3>2 DEF ConnectionLost
      <4> QED
        BY ZenonT(30), <4>1, <1>w
    <3>3. CASE \E w \in Workers : ConnectionLost(w)
      <4>1. worker'[v] = worker[v] \/ worker'[v] = [worker[v] EXCEPT !.owned = FALSE]
        BY ZenonT(30), <3>2, <3>3
      <4> QED
        BY ZenonT(30), <4>1, <3>0 DEF WorkerState
    <3> QED
      BY ZenonT(30), <1>13, <3>1, <3>3
  <2> QED
    BY ZenonT(30), <2>1
<1>14. ASSUME \/ ApiStep \/ TimeStep \/ UNCHANGED vars \/ RepairTopology \/ RecoveryFails
              \/ RecoverDetectedTopologyLoss \/ DeclareTopology
              \/ \E s \in Schedulers : SchedulerStep(s)
       PROVE  Goal
  <2>1. worker' = worker
    BY ZenonT(30), <1>14 DEF ApiStep, Create, Update, Delete, CreateManualJob, TimeStep, ExpireLease,
         BecomeAvailable, BecomeDue, RepairTopology, RecoveryFails, RecoverDetectedTopologyLoss,
         DeclareTopology, SchedulerStep, Ping, ClaimDueJobs, PublishConfirmed, PublishUnconfirmed,
         PublishFailed, MarkJobPublished, ReleaseJobPublish, PublicationWriteFails,
         SchedulerCrash, vars
  <2> QED
    BY ZenonT(30), <2>1, <1>0
<1> HIDE DEF Goal
<1>15. Goal
  BY ZenonT(40), <1>5, <1>6, <1>7, <1>8, <1>9, <1>10, <1>12, <1>13, <1>14
  DEF Next, WorkerStep, TopologyStep
<1> QED
  BY ZenonT(30), <1>15 DEF Goal

\* A busy worker has its job from before, or from a message of the queue.
LEMMA WorkerOrigin ==
  ASSUME TypeOK, [Next]_vars, NEW v \in Workers
  PROVE  \/ worker'[v].pc = "idle"
         \/ \E a \in 1..MaxAttempts : queue[worker'[v].job][a] > 0 /\ worker'[v].job \in Jobs
         \/ /\ worker'[v].job = worker[v].job
            /\ worker'[v].pc = worker[v].pc \/ worker[v].pc # "idle"
BY ZenonT(30), WorkerEffect

\* A job is created once, and a settled job never comes back.
LEMMA StatusEffect ==
  ASSUME LifecycleInv, [Next]_vars, NEW j \in Jobs
  PROVE  /\ job[j].status # "none" => job'[j].status # "none"
         /\ job[j].status # "none" /\ job'[j].status \in Active => job[j].status \in Active
         /\ job[j].status \in {"dead", "deleted"} => job'[j].status \in {"dead", "deleted"}
<1> USE DEF LifecycleInv
<1> DEFINE Goal == /\ job[j].status # "none" => job'[j].status # "none"
                   /\ job[j].status # "none" /\ job'[j].status \in Active => job[j].status \in Active
                   /\ job[j].status \in {"dead", "deleted"} => job'[j].status \in {"dead", "deleted"}
<1>1. ASSUME NEW w \in Workers, MarkJobProcessing(w) PROVE Goal
  <2>1. \/ job'[j] = job[j]
        \/ job[j].status \in {"scheduled", "queued"} /\ job'[j].status = "processing"
    BY ZenonT(30), <1>1, StartEffect
  <2> QED
    BY ZenonT(30), <2>1 DEF Active
<1>2. ASSUME NEW w \in Workers, AddCheck(w) PROVE Goal
  <2>1. \/ job'[j] = job[j]
        \/ job[j].status = "processing" /\ job'[j].status = "completed"
    BY ZenonT(30), <1>2, CompleteEffect
  <2> QED
    BY ZenonT(30), <2>1 DEF Active
<1>3. ASSUME NEW m \in Monitors, Delete(m) PROVE Goal
  <2>1. job'[j] = job[j] \/ (job[j].status # "none" /\ job'[j].status = "deleted")
    BY ZenonT(30), <1>3, DeleteEffect
  <2> QED
    BY ZenonT(30), <2>1 DEF Active
<1>4. ASSUME \A w \in Workers : ~MarkJobProcessing(w) /\ ~AddCheck(w),
             \A m \in Monitors : ~Delete(m)
      PROVE  Goal
  BY ZenonT(30), <1>4, QuietStep DEF QuietJob, Active
<1> HIDE DEF Goal
<1>5. Goal
  BY ZenonT(30), <1>1, <1>2, <1>3, <1>4
<1> QED
  BY ZenonT(30), <1>5 DEF Goal

\* Tokens are handed out in order.
LEMMA TokensGrow ==
  ASSUME TypeOK, [Next]_vars
  PROVE  tokens \in Nat /\ tokens' \in {tokens, tokens + 1}
<1>0. tokens \in Nat
  BY ZenonT(30) DEF TypeOK
<1>1. ASSUME NEW s \in Schedulers, SchedulerStep(s) PROVE tokens' \in {tokens, tokens + 1}
  BY ZenonT(30), <1>1 DEF SchedulerStep, Ping, ClaimDueJobs, PublishConfirmed, PublishUnconfirmed, PublishFailed,
       MarkJobPublished, ReleaseJobPublish, PublicationWriteFails, SchedulerCrash, store
<1>2. ASSUME NEW w \in Workers, WorkerStep(w) PROVE tokens' \in {tokens, tokens + 1}
  BY ZenonT(30), <1>2 DEF WorkerStep, Receive, GetMonitor, MarkJobProcessing, MarkJobProcessingRefused, AddCheck,
       AddCheckRefused, MarkJobFailed, MarkJobDead, Ack, Nack, Requeue, WorkerCrash, ConnectionLost,
       store
<1>3. ASSUME ApiStep \/ TimeStep \/ TopologyStep \/ UNCHANGED vars PROVE tokens' = tokens
  BY ZenonT(30), <1>3 DEF ApiStep, Create, Update, Delete, CreateManualJob, TimeStep, ExpireLease,
       BecomeAvailable, BecomeDue, TopologyStep, LoseQueue, RepairTopology, RecoveryFails,
       RecoverDetectedTopologyLoss, DeclareTopology, store, vars
<1> QED
  BY ZenonT(30), <1>0, <1>1, <1>2, <1>3 DEF Next

\* Messages are published, and so received, only of jobs that were created.
LEMMA ReferencesStep ==
  ASSUME LifecycleInv, ReferencesInv, [Next]_vars
  PROVE  ReferencesInv'
<1> USE DEF LifecycleInv
<1>1. ASSUME NEW j \in Jobs, NEW a \in 1..MaxAttempts, queue'[j][a] > 0
      PROVE  job'[j].status # "none"
  <2>1. job[j].status # "none"
    <3>1. ASSUME NEW s \in Schedulers, NEW c \in Claims(s), c.job = j PROVE job[j].status # "none"
      BY ZenonT(30), <3>1 DEF ClaimsInv
    <3>2. ASSUME NEW w \in Workers, worker[w].pc # "idle", worker[w].job = j
          PROVE  job[j].status # "none"
      BY ZenonT(30), <3>2 DEF ReferencesInv
    <3> QED
      BY ZenonT(30), <1>1, <3>1, <3>2, MessagesFrom DEF ReferencesInv
  <2> QED
    BY ZenonT(30), <2>1, StatusEffect
<1>2. ASSUME NEW w \in Workers, worker'[w].pc # "idle"
      PROVE  job'[worker'[w].job].status # "none"
  <2>1. CASE worker'[w].job = worker[w].job /\ worker[w].pc # "idle"
    <3>1. worker[w].job \in Jobs /\ job[worker[w].job].status # "none"
      BY ZenonT(30), <2>1 DEF TypeOK, ReferencesInv
    <3> QED
      BY ZenonT(30), <2>1, <3>1, StatusEffect
  <2>2. CASE \E a \in 1..MaxAttempts : queue[worker'[w].job][a] > 0 /\ worker'[w].job \in Jobs
    BY ZenonT(30), <2>2, StatusEffect DEF ReferencesInv
  <2> QED
    <3>1. \/ worker'[w].pc = "idle"
          \/ \E a \in 1..MaxAttempts : queue[worker'[w].job][a] > 0 /\ worker'[w].job \in Jobs
          \/ /\ worker'[w].job = worker[w].job
             /\ worker'[w].pc = worker[w].pc \/ worker[w].pc # "idle"
      BY ZenonT(30), WorkerOrigin
    <3> DEFINE Queued == \E a \in 1..MaxAttempts :
                           queue[worker'[w].job][a] > 0 /\ worker'[w].job \in Jobs
               Kept == worker'[w].job = worker[w].job /\ worker[w].pc # "idle"
    <3>2. Queued \/ Kept
      BY ZenonT(30), <1>2, <3>1
    <3>3. Queued => job'[worker'[w].job].status # "none"
      BY ZenonT(30), <2>2
    <3>4. Kept => job'[worker'[w].job].status # "none"
      BY ZenonT(30), <2>1
    <3> HIDE DEF Queued, Kept
    <3> QED
      BY ZenonT(30), <3>2, <3>3, <3>4
<1> QED
  BY ZenonT(30), <1>1, <1>2 DEF ReferencesInv

\* A lease is handed out under a new token, so no two workers come to hold the same.
LEMMA LeaseTokensStep ==
  ASSUME TypeOK, LeaseTokensInv, [Next]_vars
  PROVE  LeaseTokensInv'
<1>t. tokens \in Nat /\ tokens' \in {tokens, tokens + 1}
  BY ZenonT(30), TokensGrow
<1>1. ASSUME NEW w \in Workers
      PROVE  /\ worker[w].token \in 0..tokens
             /\ \/ worker'[w].token = 0 /\ worker'[w].pc \notin {"leased", "failing"}
                \/ /\ worker'[w].token = worker[w].token
                   /\ worker'[w].pc \in {"leased", "failing"} => worker[w].token > 0
                \/ /\ worker'[w].token = tokens + 1 /\ tokens' = tokens + 1
                   /\ \A v \in Workers \ {w} : worker'[v] = worker[v]
  BY ZenonT(30), WorkerEffect DEF LeaseTokensInv
<1>2. ASSUME NEW w \in Workers
      PROVE  /\ worker'[w].token \in 0..tokens'
             /\ worker'[w].pc \in {"leased", "failing"} => worker'[w].token > 0
  BY SMTT(30), <1>1, <1>t
<1>3. ASSUME NEW v \in Workers, NEW w \in Workers, v # w, worker'[v].token > 0
      PROVE  worker'[v].token # worker'[w].token
  <2>1. /\ worker[v].token \in 0..tokens /\ worker[w].token \in 0..tokens
        /\ worker[v].token > 0 => worker[v].token # worker[w].token
    BY ZenonT(30), <1>3 DEF LeaseTokensInv
  <2> QED
    BY SMTT(30), <1>1, <1>3, <1>t, <2>1
<1> QED
  BY ZenonT(30), <1>2, <1>3 DEF LeaseTokensInv

\* The configuration of a monitor changes only with the death of its jobs.
LEMMA ConfigEffect ==
  ASSUME TypeOK, [Next]_vars, NEW m \in Monitors, Exists(m)
  PROVE  \/ monitor'[m].config = monitor[m].config
         \/ \A j \in Jobs : MonitorOf[j] = m => job'[j].status \notin Active
<1> DEFINE Goal == \/ monitor'[m].config = monitor[m].config
                   \/ \A j \in Jobs : MonitorOf[j] = m => job'[j].status \notin Active
<1>m. monitor \in [Monitors -> MonitorRow]
  BY ZenonT(30) DEF TypeOK
<1>j. job \in [Jobs -> JobRow]
  BY ZenonT(30) DEF TypeOK
<1>0. ASSUME monitor' = monitor PROVE Goal
  BY ZenonT(30), <1>0
<1>1. ASSUME NEW k \in Monitors, NEW enabled \in BOOLEAN, Create(k, enabled) PROVE Goal
  BY ZenonT(30), <1>1, <1>m DEF Create, Exists
<1>2. ASSUME NEW k \in Monitors, NEW enabled \in BOOLEAN, NEW semantics \in BOOLEAN,
             NEW interval \in BOOLEAN, Update(k, enabled, semantics, interval)
      PROVE  Goal
  <2>1. CASE k = m /\ semantics
    <3>1. ASSUME NEW j \in Jobs, MonitorOf[j] = m PROVE job'[j].status \notin Active
      <4>1. job'[j] = IF job[j].status \in Active THEN Killed(job[j]) ELSE job[j]
        BY ZenonT(30), <1>2, <2>1, <3>1 DEF Update, JobsAfterUpdate, ActiveJobs
      <4>2. Killed(job[j]).status = "dead"
        BY ZenonT(30), <1>j, RowStatus
      <4>3. "dead" \notin Active
        BY ZenonT(30) DEF Active
      <4> QED
        BY ZenonT(30), <4>1, <4>2, <4>3
    <3> QED
      BY ZenonT(30), <3>1
  <2>2. CASE k # m \/ ~semantics
    <3>1. monitor'[m].config = monitor[m].config
      <4>1. PICK due : monitor' = [monitor EXCEPT ![k] =
                         [status |-> IF enabled THEN "active" ELSE "disabled",
                          config |-> IF semantics THEN monitor[k].config + 1 ELSE monitor[k].config,
                          due |-> due]]
        BY ZenonT(30), <1>2 DEF Update
      <4>2. CASE k # m
        BY ZenonT(30), <4>1, <4>2, <1>m
      <4>3. CASE k = m /\ ~semantics
        BY ZenonT(30), <4>1, <4>3, <1>m
      <4> QED
        BY ZenonT(30), <2>2, <4>2, <4>3
    <3> QED
      BY ZenonT(30), <3>1
  <2> QED
    BY ZenonT(30), <2>1, <2>2
<1>3. ASSUME NEW k \in Monitors, Delete(k) \/ BecomeDue(k) PROVE Goal
  BY <1>3, <1>m DEF Delete, BecomeDue, MonitorRow
<1>4. ASSUME NEW s \in Schedulers, NEW batch \in SUBSET Jobs, NEW fresh \in SUBSET Jobs,
             ClaimDueJobs(s, batch, fresh)
      PROVE  Goal
  BY ZenonT(30), <1>4, <1>m DEF ClaimDueJobs, MonitorRow
<1>5. ASSUME NEW w \in Workers, AddCheck(w) \/ MarkJobDead(w) PROVE Goal
  <2>1. worker[w].job \in Jobs
    BY ZenonT(30), <1>5 DEF AddCheck, MarkJobDead, At, TypeOK
  <2>2. monitor' = monitor \/ monitor' = Rescheduled(worker[w].job)
    BY ZenonT(30), <1>5 DEF AddCheck, MarkJobDead
  <2> QED
    BY <2>1, <2>2, <1>m, RescheduledStatus
<1>6. ASSUME NEW s \in Schedulers,
             \/ Ping(s) \/ PublicationWriteFails(s) \/ SchedulerCrash(s)
             \/ MarkJobPublished(s) \/ ReleaseJobPublish(s)
             \/ \E c \in scheduler[s].batch :
                  PublishConfirmed(s, c) \/ PublishUnconfirmed(s, c) \/ PublishFailed(s, c)
      PROVE  Goal
  BY ZenonT(30), <1>6, <1>0 DEF Ping, PublicationWriteFails, SchedulerCrash, PublishConfirmed,
                    PublishUnconfirmed, PublishFailed, MarkJobPublished, ReleaseJobPublish, store
<1>7. ASSUME NEW w \in Workers,
             \/ \E j \in Jobs, a \in 1..MaxAttempts : Receive(w, j, a)
             \/ GetMonitor(w) \/ MarkJobProcessing(w) \/ MarkJobProcessingRefused(w)
             \/ AddCheckRefused(w) \/ MarkJobFailed(w)
             \/ Ack(w) \/ Nack(w) \/ Requeue(w) \/ WorkerCrash(w) \/ ConnectionLost(w)
      PROVE  Goal
  <2>1. monitor' = monitor
    BY ZenonT(30), <1>7 DEF Receive, GetMonitor, MarkJobProcessing, MarkJobProcessingRefused, AddCheckRefused,
                MarkJobFailed, Ack, Nack, Requeue, WorkerCrash, ConnectionLost, store
  <2> QED
    BY ZenonT(30), <2>1, <1>0
<1>8. ASSUME \/ TopologyStep \/ UNCHANGED vars
             \/ \E j \in Jobs : \/ ExpireLease(j) \/ BecomeAvailable(j)
                               \/ \E k \in Monitors : CreateManualJob(k, j)
      PROVE  Goal
  <2>1. monitor' = monitor
    BY ZenonT(30), <1>8 DEF TopologyStep, LoseQueue, RepairTopology, RecoveryFails, RecoverDetectedTopologyLoss,
                DeclareTopology, ExpireLease, BecomeAvailable, CreateManualJob, store, vars
  <2> QED
    BY ZenonT(30), <2>1, <1>0
<1> HIDE DEF Goal
<1>9. Goal
  BY ZenonT(40), <1>1, <1>2, <1>3, <1>4, <1>5, <1>6, <1>7, <1>8
  DEF Next, ApiStep, SchedulerStep, WorkerStep, TimeStep
<1> QED
  BY ZenonT(30), <1>9 DEF Goal

\* A change of the configuration settles the monitor's unfinished jobs in the same step.
LEMMA FreshConfigStep ==
  ASSUME LifecycleInv, MonitorInv, ReferencesInv, FreshConfigInv, [Next]_vars
  PROVE  FreshConfigInv'
<1> USE JobsAssumption DEF LifecycleInv
<1> SUFFICES ASSUME NEW w \in Workers, worker'[w].pc \in {"looked_up", "leased", "failing"},
                    job'[worker'[w].job].status \in Active
             PROVE  worker'[w].config = monitor'[MonitorOf[worker'[w].job]].config
  BY ZenonT(30) DEF FreshConfigInv
<1>1. CASE /\ worker'[w].job = worker[w].job /\ worker'[w].config = worker[w].config
           /\ worker[w].pc \in {"looked_up", "leased", "failing"}
  <2> DEFINE j == worker[w].job
  <2>1. j \in Jobs /\ job[j].status # "none"
    BY ZenonT(30), <1>1 DEF TypeOK, ReferencesInv
  <2>2. job[j].status \in Active
    BY ZenonT(30), <1>1, <2>1, StatusEffect
  <2>3. worker[w].config = monitor[MonitorOf[j]].config
    BY ZenonT(30), <1>1, <2>2 DEF FreshConfigInv
  <2>4. Exists(MonitorOf[j]) /\ MonitorOf[j] \in Monitors
    BY ZenonT(30), <2>1, <2>2 DEF MonitorInv
  <2>5. monitor'[MonitorOf[j]].config = monitor[MonitorOf[j]].config
    BY ZenonT(30), <1>1, <2>1, <2>4, ConfigEffect
  <2> QED
    BY ZenonT(30), <1>1, <2>3, <2>5
<1>2. CASE /\ worker'[w].job = worker[w].job /\ monitor' = monitor
           /\ worker'[w].config = monitor[MonitorOf[worker[w].job]].config
  BY ZenonT(30), <1>2
<1> QED
  BY ZenonT(30), <1>1, <1>2, WorkerEffect

\* Schedulers hold claims under different tokens.
PublicationTokensInv ==
  \A s, t \in Schedulers : \A c \in Claims(s), d \in Claims(t) : s # t => c.token # d.token

\* A claim is handed out under a new token.
LEMMA PublicationTokensStep ==
  ASSUME TypeOK, ClaimsInv, PublicationTokensInv, [Next]_vars
  PROVE  PublicationTokensInv'
<1>1. ASSUME NEW s \in Schedulers, NEW t \in Schedulers, NEW c \in Claims(s)', NEW d \in Claims(t)',
             s # t, c \notin Claims(s)
      PROVE  c.token # d.token
  <2>1. c.token = tokens + 1 /\ scheduler'[t] = scheduler[t]
    <3>1. /\ \E j \in Jobs : c = [job |-> j, attempt |-> job[j].attempt, token |-> tokens + 1]
          /\ \A u \in Schedulers \ {s} : scheduler'[u] = scheduler[u]
      BY ZenonT(30), <1>1, ClaimsFrom
    <3>2. PICK j \in Jobs : c = [job |-> j, attempt |-> job[j].attempt, token |-> tokens + 1]
      BY ZenonT(30), <3>1
    <3>3. c.token = tokens + 1
      BY ZenonT(30), <3>2
    <3>4. t \in Schedulers \ {s}
      BY ZenonT(30), <1>1
    <3> QED
      BY ZenonT(30), <3>1, <3>3, <3>4
  <2>2. d \in Claims(t)
    BY ZenonT(30), <2>1 DEF Claims
  <2>3. d.token \in 1..tokens /\ tokens \in Nat
    BY ZenonT(30), <2>2 DEF ClaimsInv, TypeOK
  <2> QED
    BY ZenonT(30), <2>1, <2>3, Counting
<1>2. ASSUME NEW s \in Schedulers, NEW t \in Schedulers, NEW c \in Claims(s)', NEW d \in Claims(t)',
             s # t
      PROVE  c.token # d.token
  BY ZenonT(30), <1>1, <1>2 DEF PublicationTokensInv
<1> QED
  BY ZenonT(30), <1>2 DEF PublicationTokensInv

\* What is about to be dead-lettered is buried already.
BuriedInv ==
  /\ DeadLettersAreFinal
  /\ \A w \in Workers : worker[w].pc = "nack" => job[worker[w].job].status \in {"dead", "deleted"}

\* Only a worker that buried its job dead-letters a message.
LEMMA DeadLettersFrom ==
  ASSUME TypeOK, [Next]_vars, NEW j \in deadLetters'
  PROVE  j \in deadLetters \/ \E w \in Workers : worker[w].pc = "nack" /\ worker[w].job = j
<1> DEFINE Goal == j \in deadLetters \/ \E w \in Workers : worker[w].pc = "nack" /\ worker[w].job = j
<1>0. ASSUME deadLetters' = deadLetters PROVE Goal
  BY ZenonT(30), <1>0
<1>1. ASSUME NEW w \in Workers, Nack(w) PROVE Goal
  BY ZenonT(30), <1>1 DEF Nack, At
<1>2. ASSUME NEW s \in Schedulers, SchedulerStep(s) PROVE deadLetters' = deadLetters
  BY ZenonT(30), <1>2 DEF SchedulerStep, Ping, ClaimDueJobs, PublishConfirmed, PublishUnconfirmed, PublishFailed,
       MarkJobPublished, ReleaseJobPublish, PublicationWriteFails, SchedulerCrash, broker
<1>3. ASSUME NEW w \in Workers, WorkerStep(w), ~Nack(w) PROVE deadLetters' = deadLetters
  BY ZenonT(30), <1>3 DEF WorkerStep, Receive, GetMonitor, MarkJobProcessing, MarkJobProcessingRefused, AddCheck,
       AddCheckRefused, MarkJobFailed, MarkJobDead, Ack, Requeue, WorkerCrash, ConnectionLost, broker
<1>4. ASSUME ApiStep \/ TimeStep \/ TopologyStep \/ UNCHANGED vars PROVE deadLetters' = deadLetters
  BY ZenonT(30), <1>4 DEF ApiStep, Create, Update, Delete, CreateManualJob, TimeStep, ExpireLease,
       BecomeAvailable, BecomeDue, TopologyStep, LoseQueue, RepairTopology, RecoveryFails,
       RecoverDetectedTopologyLoss, DeclareTopology, broker, vars
<1> HIDE DEF Goal
<1>5. Goal
  BY ZenonT(30), <1>0, <1>1, <1>2, <1>3, <1>4 DEF Next
<1> QED
  BY ZenonT(30), <1>5 DEF Goal

\* A dead job stays dead or is deleted, so what was dead-lettered stays settled.
LEMMA BuriedStep ==
  ASSUME LifecycleInv, BuriedInv, [Next]_vars
  PROVE  BuriedInv'
<1> USE DEF LifecycleInv
<1>1. ASSUME NEW w \in Workers, worker[w].pc = "nack"
      PROVE  /\ worker[w].job \in Jobs
             /\ job[worker[w].job].status \in {"dead", "deleted"}
             /\ job'[worker[w].job].status \in {"dead", "deleted"}
  <2>1. worker[w].job \in Jobs /\ job[worker[w].job].status \in {"dead", "deleted"}
    BY ZenonT(30), <1>1 DEF TypeOK, BuriedInv
  <2> QED
    BY ZenonT(30), <2>1, StatusEffect
<1>2. ASSUME NEW j \in deadLetters' PROVE job'[j].status \in {"dead", "deleted"}
  <2>1. CASE j \in deadLetters
    <3>1. j \in Jobs /\ job[j].status \in {"dead", "deleted"}
      BY ZenonT(30), <2>1 DEF TypeOK, BuriedInv, DeadLettersAreFinal
    <3> QED
      BY ZenonT(30), <3>1, StatusEffect
  <2> QED
    BY ZenonT(30), <1>1, <1>2, <2>1, DeadLettersFrom
<1>3. ASSUME NEW w \in Workers, MarkJobDead(w), OwnsLease(w)
      PROVE  job'[worker[w].job].status = "dead"
  <2>1. worker[w].job \in Jobs /\ job \in [Jobs -> JobRow]
    BY ZenonT(30), <1>3 DEF MarkJobDead, At, TypeOK
  <2>2. job' = [job EXCEPT ![worker[w].job] = Killed(job[worker[w].job])]
    BY ZenonT(40), <1>3 DEF MarkJobDead
  <2> QED
    BY ZenonT(30), <2>1, <2>2, RowStatus
<1>4. ASSUME NEW w \in Workers, worker'[w].pc = "nack"
      PROVE  job'[worker'[w].job].status \in {"dead", "deleted"}
  <2>1. /\ worker'[w].job = worker[w].job
        /\ worker[w].pc # "nack" => MarkJobDead(w) /\ OwnsLease(w)
    BY ZenonT(30), <1>4, WorkerEffect
  <2> QED
    BY ZenonT(30), <1>1, <1>3, <2>1
<1> QED
  BY ZenonT(30), <1>2, <1>4 DEF BuriedInv, DeadLettersAreFinal

\* A result is stored by the holder of the lease, which has the current configuration.
LEMMA CurrentConfigStep ==
  ASSUME LifecycleInv, FreshConfigInv, ResultUnderCurrentConfig, [Next]_vars
  PROVE  ResultUnderCurrentConfig'
<1> USE DEF LifecycleInv
<1>1. ASSUME NEW w \in Workers, AddCheck(w) PROVE ResultUnderCurrentConfig'
  <2> DEFINE j == worker[w].job
             r == [job |-> j, token |-> worker[w].token, checked |-> worker[w].config,
                   current |-> monitor[MonitorOf[j]].config]
  <2>1. results' = results \cup {r}
    BY ZenonT(30), <1>1 DEF AddCheck
  <2>2. worker[w].pc = "leased" /\ job[j].status \in Active
    BY ZenonT(30), <1>1 DEF AddCheck, At, OwnsLease, Active
  <2>3. worker[w].config = monitor[MonitorOf[j]].config
    BY ZenonT(30), <2>2 DEF FreshConfigInv
  <2>4. r.checked = r.current
    BY ZenonT(30), <2>3
  <2> HIDE DEF r
  <2> QED
    BY ZenonT(30), <2>1, <2>4 DEF ResultUnderCurrentConfig
<1>2. ASSUME results' \subseteq results PROVE ResultUnderCurrentConfig'
  BY ZenonT(30), <1>2 DEF ResultUnderCurrentConfig
<1>3. ASSUME \/ \E w \in Workers : MarkJobProcessing(w)
             \/ \E m \in Monitors : Delete(m)
      PROVE  results' \subseteq results
  BY ZenonT(30), <1>3 DEF MarkJobProcessing, Delete
<1>4. ASSUME \A w \in Workers : ~MarkJobProcessing(w) /\ ~AddCheck(w),
             \A m \in Monitors : ~Delete(m)
      PROVE  results' = results
  BY ZenonT(30), <1>4, QuietStep
<1> QED
  BY ZenonT(30), <1>1, <1>2, <1>3, <1>4

\* No statement changes what kind of job a row is.
LEMMA RowKind ==
  ASSUME NEW row \in JobRow
  PROVE  /\ Killed(row).kind = row.kind
         /\ Completed(row).kind = row.kind
         /\ Postponed(row).kind = row.kind
         /\ Recovered(row).kind = row.kind
         /\ ReturnedToPublish(row).kind = row.kind
BY ZenonT(30) DEF JobRow, Revoked, Killed, Completed, Postponed, Recovered, ReturnedToPublish

\* ClaimDueJobs creates a periodic job only for an active monitor whose last
\* unfinished job, if any, it has just buried.
LEMMA ClaimKeepsOneActive ==
  ASSUME TypeOK, OneActiveJobPerMonitor, NEW s \in Schedulers, NEW batch \in SUBSET Jobs,
         NEW fresh \in SUBSET Jobs, ClaimDueJobs(s, batch, fresh)
  PROVE  OneActiveJobPerMonitor'
<1>m. \A m \in Monitors : monitor'[m].status = monitor[m].status
  BY ZenonT(30) DEF ClaimDueJobs, MonitorRow, TypeOK
<1>1. ASSUME NEW j \in Jobs, job'[j].status \in Active
      PROVE  \/ /\ job[j].status \in Active /\ ~Exhausted(job[j])
                /\ job'[j].kind = job[j].kind /\ j \notin fresh
             \/ j \in fresh /\ DueMonitor(MonitorOf[j])
  <2>1. job'[j] = ClaimedRow(j, batch, fresh) /\ job[j] \in JobRow
    BY ZenonT(30) DEF ClaimDueJobs, TypeOK
  <2>2. Recovered(job[j]) \in JobRow
    BY ZenonT(40), <2>1, RowTypes
  <2>3. j \in fresh => DueMonitor(MonitorOf[j]) /\ job[j].status = "none"
    BY ZenonT(30) DEF ClaimDueJobs
  <2>4. Recovered(job[j]).status \in Active => job[j].status \in Active /\ ~Exhausted(job[j])
    <3>1. CASE Exhausted(job[j])
      BY ZenonT(30), <2>1, <3>1, RowStatus DEF Recovered, Active
    <3> QED
      BY ZenonT(30), <2>1, <3>1, RowStatus
  <2>5. CASE j \in batch
    <3>1. Recovered(job[j]).status \in Active
      BY ZenonT(30), <2>5 DEF ClaimDueJobs, Claimable, Active
    <3>2. job'[j].kind = Recovered(job[j]).kind
      BY ZenonT(30), <2>1, <2>2, <2>5 DEF ClaimedRow, JobRow
    <3> QED
      BY ZenonT(30), <2>1, <2>3, <2>4, <3>1, <3>2, RowKind DEF Active
  <2>6. CASE j \notin batch /\ j \notin fresh
    <3>1. job'[j] = Recovered(job[j])
      BY ZenonT(30), <2>1, <2>6 DEF ClaimedRow
    <3> QED
      BY ZenonT(30), <1>1, <2>1, <2>4, <2>6, <3>1, RowKind
  <2> QED
    BY ZenonT(30), <2>3, <2>5, <2>6
<1>2. \A j, k \in fresh : MonitorOf[j] = MonitorOf[k] => j = k
  BY ZenonT(30) DEF ClaimDueJobs
<1>3. ASSUME NEW j \in Jobs, NEW k \in Jobs, job'[j].status \in Active, job'[k].status \in Active,
             MonitorOf[j] = MonitorOf[k]
      PROVE  j = k
  <2>1. ASSUME NEW i \in Jobs, NEW l \in Jobs, job[i].status \in Active, ~Exhausted(job[i]),
               DueMonitor(MonitorOf[l]), MonitorOf[i] = MonitorOf[l]
        PROVE  FALSE
    BY ZenonT(30), <2>1 DEF DueMonitor, ActiveJobs
  <2> QED
    BY ZenonT(30), <1>1, <1>2, <1>3, <2>1 DEF OneActiveJobPerMonitor
<1>4. ASSUME NEW j \in Jobs, job'[j].status \in Active, job'[j].kind = "scheduled"
      PROVE  monitor'[MonitorOf[j]].status = "active"
  <2>1. monitor[MonitorOf[j]].status = "active"
    BY ZenonT(30), <1>1, <1>4 DEF OneActiveJobPerMonitor, DueMonitor
  <2> QED
    BY ZenonT(30), <1>m, <2>1, JobsAssumption
<1> QED
  BY ZenonT(30), <1>3, <1>4 DEF OneActiveJobPerMonitor

\* A job becomes active only when its monitor has no active job.
LEMMA OneActiveStep ==
  ASSUME TypeOK, MonitorInv, OneActiveJobPerMonitor, [Next]_vars
  PROVE  OneActiveJobPerMonitor'
<1> USE JobsAssumption
<1>m. monitor \in [Monitors -> MonitorRow]
  BY ZenonT(30) DEF TypeOK
<1>j. job \in [Jobs -> JobRow]
  BY ZenonT(30) DEF TypeOK
<1>0. ASSUME \A j \in Jobs : job'[j].status \in Active =>
                              job[j].status \in Active /\ job'[j].kind = job[j].kind,
             \A j \in Jobs : job'[j].status \in Active /\ monitor[MonitorOf[j]].status = "active" =>
                              monitor'[MonitorOf[j]].status = "active"
      PROVE  OneActiveJobPerMonitor'
  BY ZenonT(30), <1>0 DEF OneActiveJobPerMonitor
<1>1. ASSUME NEW m \in Monitors, NEW enabled \in BOOLEAN, Create(m, enabled)
      PROVE  OneActiveJobPerMonitor'
  <2>1. job' = job /\ monitor[m].status = "absent"
    BY ZenonT(30), <1>1 DEF Create
  <2>2. \A k \in Monitors : k # m => monitor'[k] = monitor[k]
    BY ZenonT(30), <1>1, <1>m DEF Create
  <2> QED
    BY ZenonT(30), <2>1, <2>2, <1>0
<1>2. ASSUME NEW m \in Monitors, NEW enabled \in BOOLEAN, NEW semantics \in BOOLEAN,
             NEW interval \in BOOLEAN, Update(m, enabled, semantics, interval)
      PROVE  OneActiveJobPerMonitor'
  <2>1. ASSUME NEW j \in Jobs, job'[j].status \in Active
        PROVE  job'[j] = job[j] /\ (MonitorOf[j] = m => enabled)
    <3>1. job'[j] = IF (~enabled \/ semantics) /\ MonitorOf[j] = m /\ job[j].status \in Active
                    THEN Killed(job[j]) ELSE job[j]
      BY ZenonT(30), <1>2 DEF Update, JobsAfterUpdate, ActiveJobs
    <3>2. Killed(job[j]).status \notin Active
      <4>1. Killed(job[j]).status = "dead"
        BY ZenonT(30), <1>j, RowStatus
      <4> QED
        BY ZenonT(30), <4>1 DEF Active
    <3> QED
      BY ZenonT(30), <2>1, <3>1, <3>2
  <2>2. \A k \in Monitors : \/ k # m /\ monitor'[k] = monitor[k]
                            \/ k = m /\ (enabled => monitor'[k].status = "active")
    BY SMTT(30), <1>2, <1>m DEF Update
  <2>3. \A j \in Jobs : job'[j].status \in Active =>
                          job[j].status \in Active /\ job'[j].kind = job[j].kind
    BY ZenonT(30), <2>1
  <2>4. \A j \in Jobs : job'[j].status \in Active /\ monitor[MonitorOf[j]].status = "active" =>
                          monitor'[MonitorOf[j]].status = "active"
    <3> SUFFICES ASSUME NEW j \in Jobs, job'[j].status \in Active,
                        monitor[MonitorOf[j]].status = "active"
                 PROVE  monitor'[MonitorOf[j]].status = "active"
      BY ZenonT(30)
    <3>1. MonitorOf[j] \in Monitors
      BY ZenonT(30), JobsAssumption
    <3> QED
      BY ZenonT(30), <2>1, <2>2, <3>1
  <2> QED
    BY ZenonT(30), <2>3, <2>4, <1>0
<1>3. ASSUME NEW m \in Monitors, Delete(m)
      PROVE  OneActiveJobPerMonitor'
  <2>1. ASSUME NEW j \in Jobs, job'[j].status \in Active
        PROVE  job'[j] = job[j] /\ MonitorOf[j] # m
    BY ZenonT(30), <1>3, <2>1, DeleteEffect DEF Active
  <2>2. \A k \in Monitors : k # m => monitor'[k] = monitor[k]
    BY ZenonT(30), <1>3, <1>m DEF Delete
  <2> QED
    BY ZenonT(30), <2>1, <2>2, <1>0
<1>4. ASSUME NEW m \in Monitors, NEW j \in Jobs, CreateManualJob(m, j)
      PROVE  OneActiveJobPerMonitor'
  <2>1. /\ ActiveJobs(m) = {} /\ MonitorOf[j] = m /\ monitor' = monitor
        /\ job'[j].kind = "manual" /\ \A k \in Jobs : k # j => job'[k] = job[k]
    BY ZenonT(30), <1>4, <1>j DEF CreateManualJob, JobRow
  <2> QED
    BY ZenonT(30), <2>1 DEF OneActiveJobPerMonitor, ActiveJobs
<1>5. ASSUME NEW s \in Schedulers, NEW batch \in SUBSET Jobs, NEW fresh \in SUBSET Jobs,
             ClaimDueJobs(s, batch, fresh)
      PROVE  OneActiveJobPerMonitor'
  BY ZenonT(30), <1>5, ClaimKeepsOneActive
<1>6. ASSUME NEW s \in Schedulers, MarkJobPublished(s) \/ ReleaseJobPublish(s)
      PROVE  OneActiveJobPerMonitor'
  <2> DEFINE k == scheduler[s].claim.job
  <2>1. /\ monitor' = monitor
        /\ \/ job' = job
           \/ /\ job[k].status = "scheduled"
              /\ \/ job' = [job EXCEPT ![k] = [job[k] EXCEPT !.status = "queued", !.lease = "none"]]
                 \/ job' = [job EXCEPT ![k] = [job[k] EXCEPT !.lease = "none", !.publicationToken = 0]]
    BY ZenonT(40), <1>6 DEF MarkJobPublished, ReleaseJobPublish, OwnsPublication
  <2> HIDE DEF k
  <2>2. \A j \in Jobs : \/ job'[j] = job[j]
                        \/ job[j].status = "scheduled" /\ job'[j].kind = job[j].kind
    <3>1. \E row : job' = [job EXCEPT ![k] = row] /\ (k \in Jobs => row.kind = job[k].kind)
      BY ZenonT(60), <2>1, <1>j DEF JobRow
    <3> QED
      BY ZenonT(30), <2>1, <3>1, <1>j
  <2> QED
    BY ZenonT(30), <2>1, <2>2, <1>0 DEF Active
<1>7. ASSUME NEW w \in Workers, MarkJobProcessing(w)
      PROVE  OneActiveJobPerMonitor'
  <2>1. \A j \in Jobs : job'[j].kind = job[j].kind /\
                         (job'[j].status \in Active => job[j].status \in Active)
    <3> DEFINE k == worker[w].job
    <3>1. /\ job[k].status \in {"scheduled", "queued"}
          /\ job' = [job EXCEPT ![k] = [job[k] EXCEPT !.status = "processing", !.attempt = worker[w].attempt,
                                                      !.lease = "live", !.leaseToken = tokens + 1]]
      BY ZenonT(40), <1>7 DEF MarkJobProcessing, MayProcess, ProcessingJob
    <3> HIDE DEF k
    <3> QED
      BY ZenonT(30), <3>1, <1>j DEF Active, JobRow
  <2> QED
    BY ZenonT(30), <1>7, <2>1, <1>0 DEF MarkJobProcessing
<1>8. ASSUME NEW w \in Workers, AddCheck(w) \/ MarkJobDead(w) \/ MarkJobFailed(w)
      PROVE  OneActiveJobPerMonitor'
  <2>1. worker[w].job \in Jobs
    BY ZenonT(30), <1>8 DEF AddCheck, MarkJobDead, MarkJobFailed, At, TypeOK
  <2>2. monitor' = monitor \/ monitor' = Rescheduled(worker[w].job)
    BY ZenonT(30), <1>8 DEF AddCheck, MarkJobDead, MarkJobFailed
  <2>3. \A m \in Monitors : monitor'[m].status = monitor[m].status
    BY ZenonT(30), <2>1, <2>2, <1>m, RescheduledStatus
  <2>4. \A j \in Jobs : \/ job'[j] = job[j]
                        \/ /\ job[j].status = "processing"
                           /\ job'[j] \in {Completed(job[j]), Killed(job[j]), Postponed(job[j])}
    BY ZenonT(30), <1>8, <1>j DEF AddCheck, MarkJobDead, MarkJobFailed, OwnsLease
  <2>5. \A j \in Jobs : job'[j].kind = job[j].kind
    BY ZenonT(30), <2>4, <1>j, RowKind
  <2>6. \A j \in Jobs : job'[j].status \in Active => job[j].status \in Active
    BY ZenonT(30), <2>4 DEF Active
  <2> QED
    BY ZenonT(30), <2>3, <2>5, <2>6, <1>0
<1>9. ASSUME RepairTopology \/ RecoveryFails \/ RecoverDetectedTopologyLoss
      PROVE  OneActiveJobPerMonitor'
  <2>1. /\ monitor' = monitor
        /\ \A j \in Jobs : job'[j].status \in Active => job[j].status \in Active
    BY ZenonT(30), <1>9, <1>j, RecoveryEffect
  <2>2. \A j \in Jobs : job'[j] = job[j] \/ job'[j] = ReturnedToPublish(job[j])
    BY ZenonT(30), <1>9 DEF RepairTopology, RecoveryFails, RecoverDetectedTopologyLoss,
                RecoverQueuedJobsAfterTopologyLoss
  <2>3. \A j \in Jobs : job'[j].kind = job[j].kind
    BY ZenonT(30), <2>2, <1>j, RowKind
  <2> QED
    BY ZenonT(30), <2>1, <2>3, <1>0
<1>10. ASSUME NEW j \in Jobs, ExpireLease(j) \/ BecomeAvailable(j)
       PROVE  OneActiveJobPerMonitor'
  <2>1. \A k \in Jobs : job'[k].status = job[k].status /\ job'[k].kind = job[k].kind
    BY <1>10, <1>j DEF ExpireLease, BecomeAvailable, JobRow
  <2> QED
    BY ZenonT(30), <1>10, <2>1, <1>0 DEF ExpireLease, BecomeAvailable
<1>11. ASSUME NEW m \in Monitors, BecomeDue(m)
       PROVE  OneActiveJobPerMonitor'
  <2>1. \A k \in Monitors : monitor'[k].status = monitor[k].status
    BY ZenonT(30), <1>11, <1>m DEF BecomeDue, MonitorRow
  <2> QED
    BY ZenonT(30), <1>11, <2>1, <1>0 DEF BecomeDue
<1>12. ASSUME NEW s \in Schedulers,
              \/ Ping(s) \/ PublicationWriteFails(s) \/ SchedulerCrash(s)
              \/ \E c \in scheduler[s].batch :
                   PublishConfirmed(s, c) \/ PublishUnconfirmed(s, c) \/ PublishFailed(s, c)
       PROVE  OneActiveJobPerMonitor'
  BY ZenonT(30), <1>12, <1>0 DEF Ping, PublicationWriteFails, SchedulerCrash, PublishConfirmed,
                     PublishUnconfirmed, PublishFailed, store
<1>13. ASSUME NEW w \in Workers,
              \/ \E j \in Jobs, a \in 1..MaxAttempts : Receive(w, j, a)
              \/ GetMonitor(w) \/ MarkJobProcessingRefused(w) \/ AddCheckRefused(w)
              \/ Ack(w) \/ Nack(w) \/ Requeue(w) \/ WorkerCrash(w) \/ ConnectionLost(w)
       PROVE  OneActiveJobPerMonitor'
  <2>1. UNCHANGED <<monitor, job>>
    BY ZenonT(30), <1>13 DEF Receive, GetMonitor, MarkJobProcessingRefused, AddCheckRefused, Ack, Nack,
                 Requeue, WorkerCrash, ConnectionLost, store
  <2> QED
    BY ZenonT(30), <2>1, <1>0
<1>14. ASSUME LoseQueue \/ DeclareTopology \/ UNCHANGED vars
       PROVE  OneActiveJobPerMonitor'
  BY ZenonT(30), <1>14, <1>0 DEF LoseQueue, DeclareTopology, store, vars
<1> QED
  BY ZenonT(40), <1>1, <1>2, <1>3, <1>4, <1>5, <1>6, <1>7, <1>8, <1>9, <1>10, <1>11, <1>12, <1>13,
     <1>14
  DEF Next, ApiStep, SchedulerStep, WorkerStep, TopologyStep, TimeStep

-----------------------------------------------------------------------------
(* The invariant, with the retention pass *)

HoldersInv ==
  /\ LifecycleInv
  /\ MonitorInv
  /\ ReferencesInv
  /\ LeaseTokensInv
  /\ FreshConfigInv
  /\ PublicationTokensInv
  /\ BuriedInv
  /\ ResultUnderCurrentConfig
  /\ OneActiveJobPerMonitor

\* An empty database satisfies the invariant.
LEMMA HoldersInvInit == Init => HoldersInv
<1> SUFFICES ASSUME Init PROVE HoldersInv
  BY ZenonT(30)
<1>1. LifecycleInv
  BY ZenonT(30), LifecycleInvInit
<1>2. \A j \in Jobs : job[j].status = "none"
  BY ZenonT(30) DEF Init
<1>3. \A w \in Workers : worker[w].pc = "idle" /\ worker[w].token = 0
  BY ZenonT(30) DEF Init, IdleWorker
<1>4. \A s \in Schedulers : Claims(s) = {}
  BY ZenonT(30) DEF Init, IdleScheduler, Claims
<1>5. \A j \in Jobs, a \in 1..MaxAttempts : queue[j][a] = 0
  BY ZenonT(30) DEF Init
<1>6. results = {} /\ deadLetters = {} /\ tokens = 0
  BY ZenonT(30) DEF Init
<1>7. MonitorInv /\ OneActiveJobPerMonitor
  BY ZenonT(30), <1>2 DEF MonitorInv, OneActiveJobPerMonitor, Active
<1>8. ReferencesInv /\ FreshConfigInv /\ BuriedInv
  <2>1. \A j \in Jobs, a \in 1..MaxAttempts : ~(queue[j][a] > 0)
    BY ZenonT(30), <1>5, Counting
  <2>2. ReferencesInv
    BY ZenonT(30), <1>3, <2>1 DEF ReferencesInv
  <2>3. \A w \in Workers : worker[w].pc \notin {"looked_up", "leased", "failing", "nack"}
    BY ZenonT(30), <1>3
  <2>4. FreshConfigInv
    BY ZenonT(30), <2>3 DEF FreshConfigInv
  <2> QED
    BY ZenonT(30), <1>6, <2>2, <2>3, <2>4 DEF BuriedInv, DeadLettersAreFinal
<1>9. LeaseTokensInv /\ PublicationTokensInv /\ ResultUnderCurrentConfig
  <2>1. LeaseTokensInv
    BY SMTT(30), <1>3, <1>6 DEF LeaseTokensInv
  <2>2. PublicationTokensInv
    BY ZenonT(30), <1>4 DEF PublicationTokensInv
  <2>3. ResultUnderCurrentConfig
    BY ZenonT(30), <1>6 DEF ResultUnderCurrentConfig
  <2> QED
    BY ZenonT(30), <2>1, <2>2, <2>3
<1> QED
  BY ZenonT(30), <1>1, <1>7, <1>8, <1>9 DEF HoldersInv

\* Retention removes settled jobs and results, and moves nobody.
LEMMA RetentionKeepsHolders ==
  ASSUME HoldersInv, NEW oldResults, NEW oldJobs, DeleteExpiredData(oldResults, oldJobs)
  PROVE  HoldersInv'
<1>0. LifecycleInv /\ TypeOK
  BY ZenonT(30) DEF HoldersInv, LifecycleInv
<1>1. UNCHANGED <<monitor, tokens, queue, deadLetters, scheduler, worker>> /\ results' \subseteq results
  BY ZenonT(30) DEF DeleteExpiredData, broker
<1>2. LifecycleInv'
  BY ZenonT(30), <1>0, RetentionKeepsInv
<1>3. ASSUME NEW j \in Jobs
      PROVE  /\ job'[j].status \in Active => job'[j] = job[j]
             /\ job[j].status # "none" => job'[j].status # "none"
             /\ job[j].status \in {"dead", "deleted"} => job'[j].status \in {"dead", "deleted"}
  BY ZenonT(30), <1>0, RetentionEffect DEF Active
<1>4. \A w \in Workers : worker[w].pc # "idle" => worker[w].job \in Jobs
  BY ZenonT(30), <1>0 DEF TypeOK
<1>5. deadLetters \subseteq Jobs
  BY ZenonT(30), <1>0 DEF TypeOK
<1>6. MonitorInv' /\ OneActiveJobPerMonitor'
  BY ZenonT(30), <1>1, <1>3 DEF HoldersInv, MonitorInv, OneActiveJobPerMonitor, Exists
<1>7. ReferencesInv'
  BY ZenonT(30), <1>1, <1>3, <1>4 DEF HoldersInv, ReferencesInv
<1>8. FreshConfigInv'
  BY ZenonT(30), <1>1, <1>3, <1>4 DEF HoldersInv, FreshConfigInv
<1>9. BuriedInv'
  BY ZenonT(30), <1>1, <1>3, <1>4, <1>5 DEF HoldersInv, BuriedInv, DeadLettersAreFinal
<1>10. LeaseTokensInv' /\ ResultUnderCurrentConfig'
  BY ZenonT(30), <1>1 DEF HoldersInv, LeaseTokensInv, ResultUnderCurrentConfig
<1>11. PublicationTokensInv'
  BY <1>1 DEF HoldersInv, PublicationTokensInv, Claims
<1> QED
  BY ZenonT(30), <1>2, <1>6, <1>7, <1>8, <1>9, <1>10, <1>11 DEF HoldersInv

\* Every step of the pipeline or of retention preserves it, part by part.
LEMMA HoldersInvStep == HoldersInv /\ [RetentionNext]_vars => HoldersInv'
<1> SUFFICES ASSUME HoldersInv, [RetentionNext]_vars PROVE HoldersInv'
  BY ZenonT(30)
<1>0. LifecycleInv'
  BY ZenonT(30), LifecycleInvStep DEF HoldersInv
<1>1. CASE [Next]_vars
  <2>1. /\ LifecycleInv /\ TypeOK /\ ClaimsInv /\ MonitorInv /\ ReferencesInv /\ LeaseTokensInv
        /\ FreshConfigInv /\ PublicationTokensInv /\ BuriedInv /\ ResultUnderCurrentConfig
        /\ OneActiveJobPerMonitor
    BY ZenonT(30) DEF HoldersInv, LifecycleInv
  <2>2. MonitorInv' /\ OneActiveJobPerMonitor'
    BY ZenonT(30), <1>1, <2>1, MonitorStep, OneActiveStep
  <2>3. ReferencesInv' /\ LeaseTokensInv' /\ PublicationTokensInv'
    BY ZenonT(30), <1>1, <2>1, ReferencesStep, LeaseTokensStep, PublicationTokensStep
  <2>4. FreshConfigInv' /\ BuriedInv' /\ ResultUnderCurrentConfig'
    BY ZenonT(30), <1>1, <2>1, FreshConfigStep, BuriedStep, CurrentConfigStep
  <2> QED
    BY ZenonT(30), <1>0, <2>2, <2>3, <2>4 DEF HoldersInv
<1> QED
  BY ZenonT(30), <1>1, RetentionKeepsHolders DEF RetentionNext

\* The parts above together are an invariant of the pipeline with retention: who holds
\* a lease, a claim or a dead letter holds it alone and for the configuration it read.
THEOREM HoldersInvHolds == RetentionSpec => []HoldersInv
BY HoldersInvInit, HoldersInvStep, PTL DEF RetentionSpec

\* At most one worker may write the outcome of a job, however often the job is
\* redelivered, republished or recovered: MarkJobProcessing hands out each lease
\* token once, and AddCheck, MarkJobFailed and MarkJobDead compare it.
THEOREM LeaseIsExclusive == RetentionSpec => []ExclusiveLease
<1>1. HoldersInv => ExclusiveLease
  <2> SUFFICES ASSUME HoldersInv, NEW v \in Workers, NEW w \in Workers, Holds(v), Holds(w),
                      worker[v].job = worker[w].job
               PROVE  v = w
    BY ZenonT(30) DEF ExclusiveLease
  <2>1. worker[v].token > 0 /\ worker[v].token = worker[w].token
    BY ZenonT(30) DEF Holds, OwnsLease, HoldersInv, LeaseTokensInv
  <2> QED
    BY ZenonT(30), <2>1 DEF HoldersInv, LeaseTokensInv
<1> QED
  BY <1>1, HoldersInvHolds, PTL

\* At most one scheduler may record the outcome of a publication: ClaimDueJobs gives
\* each claim a new token, and MarkJobPublished and ReleaseJobPublish compare it.
THEOREM PublicationIsExclusive == RetentionSpec => []ExclusivePublication
<1>1. HoldersInv => ExclusivePublication
  BY DEF HoldersInv, PublicationTokensInv, ExclusivePublication, OwnsPublication
<1> QED
  BY <1>1, HoldersInvHolds, PTL

\* A result is stored only under the configuration it was measured with: Update
\* kills the jobs of a monitor in the transaction that changes its configuration.
THEOREM ResultsAreCurrent == RetentionSpec => []ResultUnderCurrentConfig
<1>1. HoldersInv => ResultUnderCurrentConfig
  BY ZenonT(30) DEF HoldersInv
<1> QED
  BY <1>1, HoldersInvHolds, PTL

\* Only buried jobs are dead-lettered: the message is rejected after MarkJobDead.
THEOREM DeadLettersStayFinal == RetentionSpec => []DeadLettersAreFinal
<1>1. HoldersInv => DeadLettersAreFinal
  BY ZenonT(30) DEF HoldersInv, BuriedInv
<1> QED
  BY <1>1, HoldersInvHolds, PTL

\* A monitor has at most one unfinished job, whoever creates jobs for it.
THEOREM OneActiveJob == RetentionSpec => []OneActiveJobPerMonitor
<1>1. HoldersInv => OneActiveJobPerMonitor
  BY ZenonT(30) DEF HoldersInv
<1> QED
  BY <1>1, HoldersInvHolds, PTL

-----------------------------------------------------------------------------
(* A live lease is respected *)

\* Recovery, claims and the passing of time leave a job under a live lease alone.
LEMMA LiveRow ==
  ASSUME NEW row \in JobRow, row.status = "processing", row.lease = "live"
  PROVE  /\ Recovered(row) = row
         /\ ReturnedToPublish(row) = row
         /\ ~Claimable(row)
BY ZenonT(30) DEF JobRow, Recovered, Exhausted, LeaseLapsed, ReturnedToPublish, Claimable

\* A job in processing leaves that status by its holder's hand, by a change of its
\* monitor, or after its lease has expired.
LEMMA LiveLeaseStep ==
  ASSUME TypeOK, [Next]_vars, NEW j \in Jobs,
         job[j].status = "processing", job[j].lease = "live", job'[j].status # "processing"
  PROVE  \/ \E w \in Workers : Holds(w) /\ worker[w].job = j
         \/ monitor'[MonitorOf[j]].status # "active"
         \/ monitor'[MonitorOf[j]].config # monitor[MonitorOf[j]].config
<1> USE JobsAssumption
<1> DEFINE Goal == \/ \E w \in Workers : Holds(w) /\ worker[w].job = j
                   \/ monitor'[MonitorOf[j]].status # "active"
                   \/ monitor'[MonitorOf[j]].config # monitor[MonitorOf[j]].config
<1>m. monitor \in [Monitors -> MonitorRow]
  BY ZenonT(30) DEF TypeOK
<1>j. job \in [Jobs -> JobRow]
  BY ZenonT(30) DEF TypeOK
<1>0. job'[j] # job[j]
  BY ZenonT(30)
<1>1. ASSUME NEW m \in Monitors, NEW enabled \in BOOLEAN, Create(m, enabled) PROVE Goal
  BY ZenonT(30), <1>1, <1>0 DEF Create
<1>2. ASSUME NEW m \in Monitors, NEW enabled \in BOOLEAN, NEW semantics \in BOOLEAN,
             NEW interval \in BOOLEAN, Update(m, enabled, semantics, interval)
      PROVE  Goal
  <2>1. MonitorOf[j] = m /\ (~enabled \/ semantics)
    BY ZenonT(30), <1>2, <1>0 DEF Update, JobsAfterUpdate, ActiveJobs
  <2>2. /\ ~enabled => monitor'[m].status = "disabled"
        /\ semantics => monitor'[m].config = monitor[m].config + 1
    <3>1. PICK due : monitor' = [monitor EXCEPT ![m] =
            [status |-> IF enabled THEN "active" ELSE "disabled",
             config |-> IF semantics THEN monitor[m].config + 1 ELSE monitor[m].config,
             due |-> due]]
      BY ZenonT(30), <1>2 DEF Update
    <3>2. monitor'[m] = [status |-> IF enabled THEN "active" ELSE "disabled",
                         config |-> IF semantics THEN monitor[m].config + 1 ELSE monitor[m].config,
                         due |-> due]
      BY ZenonT(30), <1>m, <3>1
    <3> QED
      BY <3>2
  <2>3. monitor[m].config \in Nat
    BY ZenonT(30), <1>m DEF MonitorRow
  <2> QED
    BY SMTT(30), <2>1, <2>2, <2>3
<1>3. ASSUME NEW m \in Monitors, Delete(m) PROVE Goal
  <2>1. MonitorOf[j] = m
    BY ZenonT(30), <1>3, <1>0 DEF Delete
  <2>2. monitor'[m].status = "deleted"
    BY ZenonT(30), <1>3, <1>m DEF Delete, MonitorRow
  <2> QED
    BY ZenonT(30), <2>1, <2>2
<1>4. ASSUME NEW m \in Monitors, NEW k \in Jobs, CreateManualJob(m, k) PROVE Goal
  BY ZenonT(30), <1>4, <1>0, <1>j DEF CreateManualJob
<1>5. ASSUME NEW s \in Schedulers, NEW batch \in SUBSET Jobs, NEW fresh \in SUBSET Jobs,
             ClaimDueJobs(s, batch, fresh)
      PROVE  Goal
  <2>1. Recovered(job[j]) = job[j] /\ ~Claimable(job[j])
    BY ZenonT(30), <1>j, LiveRow
  <2>2. j \notin batch /\ j \notin fresh
    BY ZenonT(30), <1>5, <2>1 DEF ClaimDueJobs
  <2>3. job'[j] = Recovered(job[j])
    BY ZenonT(30), <1>5, <2>2 DEF ClaimDueJobs, ClaimedRow
  <2> QED
    BY ZenonT(30), <2>1, <2>3, <1>0
<1>6. ASSUME NEW s \in Schedulers, MarkJobPublished(s) \/ ReleaseJobPublish(s) PROVE Goal
  <2>1. job'[j] = job[j]
    BY ZenonT(30), <1>6, <1>j, PublicationEffect DEF OwnsPublication
  <2> QED
    BY ZenonT(30), <2>1, <1>0
<1>7. ASSUME NEW w \in Workers, MarkJobProcessing(w) PROVE Goal
  <2>1. \E row : job' = [job EXCEPT ![worker[w].job] = row]
    BY ZenonT(40), <1>7 DEF MarkJobProcessing, ProcessingJob
  <2>2. worker[w].job # j
    BY ZenonT(30), <1>7 DEF MarkJobProcessing, MayProcess
  <2> QED
    BY ZenonT(30), <2>1, <2>2, <1>0, <1>j
<1>8. ASSUME NEW w \in Workers, AddCheck(w) \/ MarkJobDead(w) \/ MarkJobFailed(w) PROVE Goal
  <2>1. worker[w].pc \in {"leased", "failing"}
    BY ZenonT(30), <1>8 DEF AddCheck, MarkJobDead, MarkJobFailed, At
  <2>2. job' = job \/ (OwnsLease(w) /\ \E row : job' = [job EXCEPT ![worker[w].job] = row])
    BY ZenonT(40), <1>8 DEF AddCheck, MarkJobDead, MarkJobFailed
  <2>3. OwnsLease(w) /\ worker[w].job = j
    BY ZenonT(30), <2>2, <1>0, <1>j
  <2> QED
    BY ZenonT(30), <2>1, <2>3 DEF Holds
<1>9. ASSUME RepairTopology \/ RecoveryFails \/ RecoverDetectedTopologyLoss PROVE Goal
  <2>1. job'[j] = job[j] \/ job'[j] = ReturnedToPublish(job[j])
    BY ZenonT(30), <1>9 DEF RepairTopology, RecoveryFails, RecoverDetectedTopologyLoss,
                RecoverQueuedJobsAfterTopologyLoss
  <2> QED
    BY ZenonT(30), <2>1, <1>0, <1>j, LiveRow
<1>10. ASSUME NEW k \in Jobs, ExpireLease(k) \/ BecomeAvailable(k) PROVE Goal
  <2>1. job'[j].status = job[j].status
    BY <1>10, <1>j DEF ExpireLease, BecomeAvailable, JobRow
  <2> QED
    BY ZenonT(30), <2>1
<1>11. ASSUME NEW s \in Schedulers,
              \/ Ping(s) \/ PublicationWriteFails(s) \/ SchedulerCrash(s)
              \/ \E c \in scheduler[s].batch :
                   PublishConfirmed(s, c) \/ PublishUnconfirmed(s, c) \/ PublishFailed(s, c)
       PROVE  Goal
  BY ZenonT(30), <1>11, <1>0 DEF Ping, PublicationWriteFails, SchedulerCrash, PublishConfirmed,
                     PublishUnconfirmed, PublishFailed, store
<1>12. ASSUME NEW w \in Workers,
              \/ \E k \in Jobs, a \in 1..MaxAttempts : Receive(w, k, a)
              \/ GetMonitor(w) \/ MarkJobProcessingRefused(w) \/ AddCheckRefused(w)
              \/ Ack(w) \/ Nack(w) \/ Requeue(w) \/ WorkerCrash(w) \/ ConnectionLost(w)
       PROVE  Goal
  <2>1. job' = job
    BY ZenonT(30), <1>12 DEF Receive, GetMonitor, MarkJobProcessingRefused, AddCheckRefused, Ack, Nack,
                 Requeue, WorkerCrash, ConnectionLost, store
  <2> QED
    BY ZenonT(30), <2>1, <1>0
<1>13. ASSUME LoseQueue \/ DeclareTopology \/ UNCHANGED vars \/ \E m \in Monitors : BecomeDue(m)
       PROVE  Goal
  BY ZenonT(30), <1>13, <1>0 DEF LoseQueue, DeclareTopology, BecomeDue, store, vars
<1> HIDE DEF Goal
<1>14. Goal
  BY ZenonT(40), <1>1, <1>2, <1>3, <1>4, <1>5, <1>6, <1>7, <1>8, <1>9, <1>10, <1>11, <1>12, <1>13
  DEF Next, ApiStep, SchedulerStep, WorkerStep, TopologyStep, TimeStep
<1> QED
  BY ZenonT(30), <1>14 DEF Goal

\* While a processing lease is live only its holder ends the processing, or a change
\* of the monitor through the API: no claim, recovery or retention takes it away.
THEOREM LiveLeasesRespected == RetentionSpec => LiveLeaseProtected
<1> DEFINE Respected == \A j \in Jobs :
             job[j].status = "processing" /\ job[j].lease = "live" /\ job'[j].status # "processing" =>
               \/ \E w \in Workers : Holds(w) /\ worker[w].job = j
               \/ monitor'[MonitorOf[j]].status # "active"
               \/ monitor'[MonitorOf[j]].config # monitor[MonitorOf[j]].config
<1>1. LifecycleInv /\ [RetentionNext]_vars => [Respected]_vars
  <2> SUFFICES ASSUME LifecycleInv, [RetentionNext]_vars PROVE Respected
    BY ZenonT(30)
  <2>0. TypeOK
    BY ZenonT(30) DEF LifecycleInv
  <2>1. CASE [Next]_vars
    BY ZenonT(30), <2>0, <2>1, LiveLeaseStep
  <2>2. ASSUME NEW oldResults, NEW oldJobs, DeleteExpiredData(oldResults, oldJobs) PROVE Respected
    BY ZenonT(30), <2>0, <2>2, RetentionEffect
  <2> QED
    BY ZenonT(30), <2>1, <2>2 DEF RetentionNext
<1> QED
  BY <1>1, LifecycleInvHolds, PTL DEF RetentionSpec, LiveLeaseProtected
=============================================================================
