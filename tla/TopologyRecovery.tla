-------------------------- MODULE TopologyRecovery --------------------------
(***************************************************************************)
(* Loss of the RabbitMQ main queue, seen request by request.               *)
(*                                                                         *)
(* A client is one RabbitMQQueue of a scheduler or worker process, with    *)
(* one repair (repairTopologyOnConnectionUnbounded) at a time.  The repair *)
(* checks the queue passively, takes the recovery lock, checks again,      *)
(* records the loss, lets the handler return the jobs to the publish path, *)
(* and declares the queue: each a request of its own, with the other       *)
(* clients and the deletion of the queue in between.                       *)
(*                                                                         *)
(* A repair on a new connection is made under reconnectGate; the one that  *)
(* consumeSession makes through openTopologyChannel takes no gate and may  *)
(* run beside it.  Two repairs of a process that overlap are two clients   *)
(* here: they meet at the broker, like repairs of two processes.  The      *)
(* generation counters they share can only spare one of them a handler     *)
(* that the other has run since.                                           *)
(*                                                                         *)
(* CheckJobs takes "a lost queue is recovered before it is declared again" *)
(* as one step; this module checks what that step rests on.                *)
(***************************************************************************)
EXTENDS Naturals

CONSTANTS
  Clients,           \* RabbitMQQueue instances
  Jobs,              \* unfinished check jobs
  NoClient,
  NoJob,
  MaxAttempts,       \* bound: attempts of a job
  MaxDeletions,      \* bound: deletions of the main queue
  MaxFaults,         \* bound: failed calls, lost locks and crashes
  DeletionsInWindow  \* the queue may be deleted between a check and the
                     \* declaration that relies on it

ASSUME TopologyAssumption ==
  /\ NoClient \notin Clients /\ NoJob \notin Jobs
  /\ MaxAttempts \in Nat \ {0} /\ MaxDeletions \in Nat /\ MaxFaults \in Nat
  /\ DeletionsInWindow \in BOOLEAN

VARIABLES
  exists,     \* the main queue exists
  messages,   \* <<job, attempt>> in the main queue
  job,        \* the rows of check_jobs that recovery and publication write
  lock,       \* who holds the exclusive queue <main queue>.topology-recovery-lock
  repair,     \* per client: where its repair is
  owed,       \* per client: topologyLossGeneration - recoveredTopologyGeneration
  recovery,   \* per client: the run of recoverDetectedTopologyLoss under
              \* topologyRecoveryMu, and the generations it will have covered
  publisher,  \* per client: the job it publishes and where Publish is
  recovered,  \* history: jobs were returned since the queue was last deleted
  deletions,
  faults

vars == <<exists, messages, job, lock, repair, owed, recovery, publisher,
          recovered, deletions, faults>>

-----------------------------------------------------------------------------
(* State *)

\* idle: nothing to publish (between attempts, or processing); failed: in the
\* publish path; scheduled: claimed by owner for publication.
JobRow == [status: {"idle", "failed", "scheduled", "queued"},
           attempt: 0..MaxAttempts, owner: Clients \cup {NoClient}]

RepairPc == {"idle", "check", "found", "lock", "recheck", "loss", "recover", "declare"}

NoRecovery == [actor |-> "none", covers |-> 0, committed |-> FALSE]

IdlePublisher == [pc |-> "idle", job |-> NoJob, attempt |-> 0]

Init ==
  /\ exists = TRUE
  /\ messages = {}
  /\ job = [j \in Jobs |-> [status |-> "failed", attempt |-> 0, owner |-> NoClient]]
  /\ lock = NoClient
  /\ repair = [c \in Clients |-> "idle"]
  /\ owed = [c \in Clients |-> 0]
  /\ recovery = [c \in Clients |-> NoRecovery]
  /\ publisher = [c \in Clients |-> IdlePublisher]
  /\ recovered = TRUE
  /\ deletions = 0
  /\ faults = 0

Fault == faults < MaxFaults /\ faults' = faults + 1

database == <<job, recovered>>
client   == <<repair, owed, recovery, publisher>>

-----------------------------------------------------------------------------
(* The operator, and the workers that take messages *)

\* A client that will declare the queue without another check or recovery: a
\* deletion now is one it does not notice.
Relying(c) ==
  \/ repair[c] \in {"found", "declare"}
  \/ /\ repair[c] = "recover"
     /\ owed[c] = IF recovery[c].committed THEN recovery[c].covers ELSE 0

DeleteQueue ==
  /\ exists
  /\ deletions < MaxDeletions
  /\ DeletionsInWindow \/ ~ \E c \in Clients : Relying(c)
  /\ exists' = FALSE
  /\ messages' = {}
  /\ recovered' = FALSE
  /\ deletions' = deletions + 1
  /\ UNCHANGED <<job, lock, client, faults>>

\* A worker takes the message and MarkJobProcessing accepts or refuses it.
Deliver(j, a) ==
  /\ <<j, a>> \in messages
  /\ messages' = messages \ {<<j, a>>}
  /\ job' = IF job[j].status \in {"scheduled", "queued"} /\ a > job[j].attempt
            THEN [job EXCEPT ![j] = [status |-> "idle", attempt |-> a, owner |-> NoClient]]
            ELSE job
  /\ UNCHANGED <<exists, lock, client, recovered, deletions, faults>>

\* The attempt failed and its retry delay has passed.
Retry(j) ==
  /\ job[j].status = "idle"
  /\ job[j].attempt < MaxAttempts
  /\ job' = [job EXCEPT ![j].status = "failed"]
  /\ UNCHANGED <<exists, messages, lock, client, recovered, deletions, faults>>

-----------------------------------------------------------------------------
(* Repair: the broker's requests *)

\* Every new connection and consumer channel, a passive check that fails in Ping,
\* a cancelled consumer and a returned publish start a repair.
StartRepair(c) ==
  /\ repair[c] = "idle"
  /\ repair' = [repair EXCEPT ![c] = "check"]
  /\ UNCHANGED <<exists, messages, database, lock, owed, recovery, publisher,
                 deletions, faults>>

PassiveCheck(c) ==
  /\ repair[c] = "check"
  /\ repair' = [repair EXCEPT ![c] = IF exists THEN "found" ELSE "lock"]
  /\ UNCHANGED <<exists, messages, database, lock, owed, recovery, publisher,
                 deletions, faults>>

AcquireLock(c) ==
  /\ repair[c] = "lock"
  /\ lock = NoClient
  /\ lock' = c
  /\ repair' = [repair EXCEPT ![c] = "recheck"]
  /\ UNCHANGED <<exists, messages, database, owed, recovery, publisher, deletions, faults>>

\* Mutant: the queue is not looked at again under the lock.
NoRecheck(c) ==
  /\ repair[c] = "recheck"
  /\ repair' = [repair EXCEPT ![c] = "loss"]
  /\ UNCHANGED <<exists, messages, database, lock, owed, recovery, publisher,
                 deletions, faults>>

Recheck(c) ==
  /\ repair[c] = "recheck"
  /\ repair' = [repair EXCEPT ![c] = IF exists THEN "found" ELSE "loss"]
  /\ UNCHANGED <<exists, messages, database, lock, owed, recovery, publisher,
                 deletions, faults>>

RecordTopologyLoss(c) ==
  /\ repair[c] = "loss"
  /\ owed' = [owed EXCEPT ![c] = @ + 1]
  /\ repair' = [repair EXCEPT ![c] = "recover"]
  /\ UNCHANGED <<exists, messages, database, lock, recovery, publisher, deletions, faults>>

\* Closing the lock's connection removes the exclusive queue.
Released(c) == IF lock = c THEN NoClient ELSE lock

DeclareTopology(c) ==
  /\ repair[c] \in {"found", "declare"}
  /\ exists' = TRUE
  /\ repair' = [repair EXCEPT ![c] = "idle"]
  /\ lock' = Released(c)
  /\ UNCHANGED <<messages, database, owed, recovery, publisher, deletions, faults>>

\* A request of the repair fails, or its context ends.
RepairFails(c) ==
  /\ repair[c] \notin {"idle", "recover"}
  /\ Fault
  /\ repair' = [repair EXCEPT ![c] = "idle"]
  /\ lock' = Released(c)
  /\ UNCHANGED <<exists, messages, database, owed, recovery, publisher, deletions>>

\* The connection that holds the lock is lost; the repair does not notice.
LockLost(c) ==
  /\ lock = c
  /\ Fault
  /\ lock' = NoClient
  /\ UNCHANGED <<exists, messages, database, client, deletions>>

-----------------------------------------------------------------------------
(* recoverDetectedTopologyLoss, called by the repair, by Publish and by Ping *)

Wants(c, actor) ==
  CASE actor = "repair"    -> repair[c] = "recover"
    [] actor = "publisher" -> publisher[c].pc = "recover"
    [] actor = "ping"      -> owed[c] > 0

\* The actor goes on after recoverDetectedTopologyLoss has returned nil.
Proceed(c, actor) ==
  /\ repair' = IF actor = "repair" THEN [repair EXCEPT ![c] = "declare"] ELSE repair
  /\ publisher' = IF actor = "publisher" THEN [publisher EXCEPT ![c].pc = "send"]
                                         ELSE publisher

\* The actor gives up after the handler has failed.
GiveUp(c, actor) ==
  /\ repair' = IF actor = "repair" THEN [repair EXCEPT ![c] = "idle"] ELSE repair
  /\ lock' = IF actor = "repair" THEN Released(c) ELSE lock
  /\ publisher' = IF actor = "publisher" THEN [publisher EXCEPT ![c].pc = "failed"]
                                         ELSE publisher

\* topologyRecoveryMu is free: read the generation, or return at once.
EnterRecovery(c, actor) ==
  /\ recovery[c] = NoRecovery
  /\ Wants(c, actor)
  /\ IF owed[c] = 0
     THEN UNCHANGED recovery /\ Proceed(c, actor)
     ELSE /\ recovery' = [recovery EXCEPT ![c] =
                [actor |-> actor, covers |-> owed[c], committed |-> FALSE]]
          /\ UNCHANGED <<repair, publisher>>
  /\ UNCHANGED <<exists, messages, database, lock, owed, deletions, faults>>

\* Mutant: unfinished publication claims are not revoked.
OnlyQueuedReturned(row) ==
  IF row.status = "queued" THEN [row EXCEPT !.status = "failed"] ELSE row

Returned(row) ==
  IF row.status \in {"scheduled", "queued"}
  THEN [row EXCEPT !.status = "failed", !.owner = NoClient]
  ELSE row

RecoverQueuedJobs ==
  /\ job' = [j \in Jobs |-> Returned(job[j])]
  /\ recovered' = TRUE

CommitRecovery(c) ==
  /\ recovery[c].actor # "none"
  /\ ~recovery[c].committed
  /\ RecoverQueuedJobs
  /\ recovery' = [recovery EXCEPT ![c].committed = TRUE]
  /\ UNCHANGED <<exists, messages, lock, repair, owed, publisher, deletions, faults>>

\* The handler fails, with or without having committed: the loss stays owed.
RecoveryFails(c) ==
  /\ recovery[c].actor # "none"
  /\ ~recovery[c].committed
  /\ Fault
  /\ RecoverQueuedJobs \/ UNCHANGED database
  /\ recovery' = [recovery EXCEPT ![c] = NoRecovery]
  /\ GiveUp(c, recovery[c].actor)
  /\ UNCHANGED <<exists, messages, owed, deletions>>

\* Mutant: a loss recorded while the handler ran counts as recovered too.
AllRecovered(c) == 0

StillOwed(c) == owed[c] - recovery[c].covers

\* Only the generation read before the handler ran is recovered; the loop of
\* recoverDetectedTopologyLoss runs the handler again for a later one.
NoteRecovery(c) ==
  /\ recovery[c].committed
  /\ owed' = [owed EXCEPT ![c] = StillOwed(c)]
  /\ IF StillOwed(c) = 0
     THEN /\ recovery' = [recovery EXCEPT ![c] = NoRecovery]
          /\ Proceed(c, recovery[c].actor)
     ELSE /\ recovery' = [recovery EXCEPT ![c] = [@ EXCEPT !.covers = StillOwed(c),
                                                           !.committed = FALSE]]
          /\ UNCHANGED <<repair, publisher>>
  /\ UNCHANGED <<exists, messages, database, lock, deletions, faults>>

-----------------------------------------------------------------------------
(* Publication *)

Held(j) == \E c \in Clients : publisher[c].job = j /\ job[j].owner = c

NextAttempt(j) == job[j].attempt + 1

\* ClaimDueJobs; an unheld claim has run out or was released.
Claim(c, j) ==
  /\ publisher[c].pc = "idle"
  /\ job[j].status = "failed" \/ (job[j].status = "scheduled" /\ ~Held(j))
  /\ job[j].attempt < MaxAttempts
  /\ job' = [job EXCEPT ![j] = [@ EXCEPT !.status = "scheduled", !.owner = c]]
  /\ publisher' = [publisher EXCEPT ![c] =
        [pc |-> "recover", job |-> j, attempt |-> NextAttempt(j)]]
  /\ UNCHANGED <<exists, messages, lock, repair, owed, recovery, recovered, deletions, faults>>

\* The broker confirms the message.  If the confirmation is lost Publish tries again.
Send(c) ==
  /\ publisher[c].pc = "send"
  /\ exists
  /\ messages' = messages \cup {<<publisher[c].job, publisher[c].attempt>>}
  /\ \/ publisher' = [publisher EXCEPT ![c].pc = "sent"] /\ UNCHANGED faults
     \/ publisher' = [publisher EXCEPT ![c].pc = "recover"] /\ Fault
  /\ UNCHANGED <<exists, database, lock, repair, owed, recovery, deletions>>

\* The message is returned: Publish tries again after a repair, or gives up.
SendReturned(c) ==
  /\ publisher[c].pc = "send"
  /\ ~exists
  /\ \E pc \in {"recover", "failed"} : publisher' = [publisher EXCEPT ![c].pc = pc]
  /\ UNCHANGED <<exists, messages, database, lock, repair, owed, recovery, deletions, faults>>

Owns(c) ==
  LET row == job[publisher[c].job] IN
  row.status = "scheduled" /\ row.owner = c /\ row.attempt + 1 = publisher[c].attempt

MarkJobPublished(c) ==
  /\ publisher[c].pc = "sent"
  /\ job' = IF Owns(c)
            THEN [job EXCEPT ![publisher[c].job] =
                    [@ EXCEPT !.status = "queued", !.owner = NoClient]]
            ELSE job
  /\ publisher' = [publisher EXCEPT ![c] = IdlePublisher]
  /\ UNCHANGED <<exists, messages, lock, repair, owed, recovery, recovered, deletions, faults>>

ReleaseJobPublish(c) ==
  /\ publisher[c].pc = "failed"
  /\ job' = IF Owns(c) THEN [job EXCEPT ![publisher[c].job].owner = NoClient] ELSE job
  /\ publisher' = [publisher EXCEPT ![c] = IdlePublisher]
  /\ UNCHANGED <<exists, messages, lock, repair, owed, recovery, recovered, deletions, faults>>

\* The process stops and starts again: what it owed is forgotten.
Crash(c) ==
  /\ Fault
  /\ repair' = [repair EXCEPT ![c] = "idle"]
  /\ owed' = [owed EXCEPT ![c] = 0]
  /\ recovery' = [recovery EXCEPT ![c] = NoRecovery]
  /\ publisher' = [publisher EXCEPT ![c] = IdlePublisher]
  /\ lock' = Released(c)
  /\ UNCHANGED <<exists, messages, database, deletions>>

-----------------------------------------------------------------------------
(* The specification *)

Actors == {"repair", "publisher", "ping"}

RepairStep(c) ==
  \/ PassiveCheck(c)
  \/ AcquireLock(c)
  \/ Recheck(c)
  \/ RecordTopologyLoss(c)
  \/ DeclareTopology(c)

RecoveryStep(c) ==
  \/ \E actor \in Actors : EnterRecovery(c, actor)
  \/ CommitRecovery(c)
  \/ NoteRecovery(c)

PublishStep(c) ==
  \/ \E j \in Jobs : Claim(c, j)
  \/ Send(c)
  \/ SendReturned(c)
  \/ MarkJobPublished(c)
  \/ ReleaseJobPublish(c)

FaultStep(c) == RepairFails(c) \/ LockLost(c) \/ RecoveryFails(c) \/ Crash(c)

Next ==
  \/ DeleteQueue
  \/ \E j \in Jobs : Retry(j) \/ \E a \in 1..MaxAttempts : Deliver(j, a)
  \/ \E c \in Clients : \/ StartRepair(c) \/ RepairStep(c) \/ RecoveryStep(c)
                        \/ PublishStep(c) \/ FaultStep(c)

Spec == Init /\ [][Next]_vars

\* A missing queue fails the next Ping, goroutines run on, the scheduler keeps
\* claiming, and who keeps asking for the recovery lock or waits for a Go mutex
\* gets it in the end.
Fairness ==
  /\ \A c \in Clients :
       /\ WF_vars(~exists /\ StartRepair(c))
       /\ WF_vars(PassiveCheck(c) \/ Recheck(c) \/ RecordTopologyLoss(c) \/ DeclareTopology(c))
       /\ SF_vars(AcquireLock(c))
       /\ SF_vars(EnterRecovery(c, "repair"))
       /\ WF_vars(EnterRecovery(c, "publisher"))
       /\ WF_vars(CommitRecovery(c) \/ NoteRecovery(c))
       /\ WF_vars(Send(c) \/ MarkJobPublished(c) \/ ReleaseJobPublish(c))
       /\ WF_vars(\E j \in Jobs : Claim(c, j))

FairSpec == Spec /\ Fairness

-----------------------------------------------------------------------------
(* Properties *)

\* While the main queue exists every queued job has its message in it: no client
\* restores a lost queue without the jobs that were in it being republished.
NoStrandedJob ==
  exists => \A j \in Jobs : job[j].status = "queued" => <<j, job[j].attempt + 1>> \in messages

\* A client creates the queue only when the jobs have been returned to the publish
\* path since it was lost.  This is the step DeclareTopology of CheckJobs.
RecoveredBeforeDeclared == [][~exists /\ exists' => recovered]_vars

\* Confirmed jobs are returned to the publish path only when the queue is proved
\* lost: the lock and the second check keep a client from recovering a loss that
\* another has repaired, unless a lock was lost or an earlier recovery failed.
ReturnedOnlyAfterLoss ==
  [][\A j \in Jobs : job[j].status = "queued" /\ job'[j].status = "failed" =>
       ~exists \/ faults > 0]_vars

\* A lost queue is restored, and a job whose message went with it gets another.
LostJobsRepublished ==
  /\ ~exists ~> exists
  /\ \A j \in Jobs :
       job[j].status = "queued" /\ <<j, job[j].attempt + 1>> \notin messages
         ~> <<j, job[j].attempt + 1>> \in messages
=============================================================================
