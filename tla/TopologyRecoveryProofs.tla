----------------------- MODULE TopologyRecoveryProofs -----------------------
(***************************************************************************)
(* Safety of the recovery of a lost main queue, for every set of clients   *)
(* and jobs and every value of the bounds, as long as the queue is not     *)
(* deleted between a check and the declaration that relies on it.          *)
(***************************************************************************)
EXTENDS TopologyRecovery, TLAPS

RecoveryRow == [actor: Actors \cup {"none"}, covers: Nat, committed: BOOLEAN]

PublisherRow ==
  {IdlePublisher} \cup
  [pc: {"recover", "send", "sent", "failed"}, job: Jobs, attempt: 1..MaxAttempts]

TypeOK ==
  /\ exists \in BOOLEAN
  /\ messages \subseteq Jobs \X (1..MaxAttempts)
  /\ job \in [Jobs -> JobRow]
  /\ lock \in Clients \cup {NoClient}
  /\ repair \in [Clients -> RepairPc]
  /\ owed \in [Clients -> Nat]
  /\ recovery \in [Clients -> RecoveryRow]
  /\ publisher \in [Clients -> PublisherRow]
  /\ recovered \in BOOLEAN
  /\ deletions \in Nat
  /\ faults \in Nat

\* A run of recoverDetectedTopologyLoss covers generations that are owed, and the
\* actor that called it waits for it.
RunsInv ==
  \A c \in Clients :
    /\ recovery[c].actor = "none" => recovery[c] = NoRecovery
    /\ recovery[c].actor # "none" => recovery[c].covers > 0 /\ recovery[c].covers <= owed[c]
    /\ recovery[c].actor = "repair" => repair[c] = "recover"
    /\ recovery[c].actor = "publisher" => publisher[c].pc = "recover"

\* Nobody relies on a queue that is lost with its jobs not yet returned.
WindowInv == ~exists /\ ~recovered => \A c \in Clients : ~Relying(c)

\* The next attempt of the job was confirmed and the database says so, or will.
Promised(j) ==
  \/ job[j].status = "queued"
  \/ \E c \in Clients : publisher[c].pc = "sent" /\ publisher[c].job = j /\ Owns(c)

\* A promise is backed by a message; after a loss and the return of the jobs no
\* promise is left.
PromisesInv ==
  \A j \in Jobs : Promised(j) =>
    IF exists THEN <<j, job[j].attempt + 1>> \in messages ELSE ~recovered

\* Generations the run in progress will leave owed, or a loss about to be recorded.
Pending(c) ==
  \/ repair[c] = "loss"
  \/ owed[c] > IF recovery[c].committed THEN recovery[c].covers ELSE 0

\* Without faults a client that has seen the loss twice holds the lock, and what
\* it has to recover is a queue nobody has declared since.
LockInv ==
  /\ \A c \in Clients : repair[c] = "found" => exists
  /\ faults = 0 => \A c \in Clients :
       /\ repair[c] \in {"recheck", "loss", "recover", "declare"} => lock = c
       /\ Pending(c) => repair[c] \in {"loss", "recover"} /\ ~exists

RecoveryInv == TypeOK /\ RunsInv /\ WindowInv /\ PromisesInv /\ LockInv

-----------------------------------------------------------------------------
(* Types, and the runs of recoverDetectedTopologyLoss *)

\* What publication and recovery make of a row of check_jobs.
LEMMA RowTypes ==
  ASSUME NEW row \in JobRow
  PROVE  /\ Returned(row) \in JobRow
         /\ [row EXCEPT !.status = "failed"] \in JobRow
         /\ [row EXCEPT !.owner = NoClient] \in JobRow
         /\ [row EXCEPT !.status = "queued", !.owner = NoClient] \in JobRow
         /\ \A c \in Clients : [row EXCEPT !.status = "scheduled", !.owner = c] \in JobRow
         /\ \A a \in 0..MaxAttempts :
              [status |-> "idle", attempt |-> a, owner |-> NoClient] \in JobRow
BY ZenonT(40) DEF JobRow, Returned

\* What Publish makes of the state of a publisher.
LEMMA PublisherTypes ==
  ASSUME NEW row \in PublisherRow
  PROVE  row.pc # "idle" =>
           /\ row.job \in Jobs /\ row.attempt \in 1..MaxAttempts
           /\ \A pc \in {"recover", "send", "sent", "failed"} :
                [row EXCEPT !.pc = pc] \in PublisherRow
BY DEF PublisherRow, IdlePublisher

\* What recoverDetectedTopologyLoss makes of its own state.
LEMMA RecoveryTypes ==
  ASSUME NEW row \in RecoveryRow
  PROVE  /\ NoRecovery \in RecoveryRow
         /\ [row EXCEPT !.committed = TRUE] \in RecoveryRow
         /\ \A n \in Nat : [row EXCEPT !.covers = n, !.committed = FALSE] \in RecoveryRow
         /\ \A n \in Nat, a \in Actors :
              [actor |-> a, covers |-> n, committed |-> FALSE] \in RecoveryRow
BY ZenonT(40) DEF RecoveryRow, NoRecovery

\* The initial state.
LEMMA InitTypes ==
  ASSUME Init
  PROVE  TypeOK /\ RunsInv
<1>1. [status |-> "failed", attempt |-> 0, owner |-> NoClient] \in JobRow
  BY TopologyAssumption DEF JobRow
<1>2. NoRecovery \in RecoveryRow /\ IdlePublisher \in PublisherRow /\ "idle" \in RepairPc
  BY DEF NoRecovery, RecoveryRow, PublisherRow, RepairPc
<1> QED
  BY <1>1, <1>2, TopologyAssumption DEF Init, TypeOK, RunsInv, NoRecovery

\* Every step keeps the types and the state of the runs.
LEMMA StepTypes ==
  ASSUME TypeOK, RunsInv, [Next]_vars
  PROVE  TypeOK' /\ RunsInv'
<1> USE TopologyAssumption
<1>f. ASSUME Fault
      PROVE  faults' \in Nat
  BY <1>f DEF Fault, TypeOK
<1>r. \A c \in Clients : Released(c) \in Clients \cup {NoClient}
  BY DEF Released, TypeOK
<1>g. \A c \in Clients : \A pc \in RepairPc : [repair EXCEPT ![c] = pc] \in [Clients -> RepairPc]
  BY ZenonT(30) DEF TypeOK
<1>n. \A c \in Clients : NoRecovery \in RecoveryRow
  BY ZenonT(30), RecoveryTypes DEF TypeOK
<1>1. CASE DeleteQueue
  <2>1. /\ exists' = FALSE /\ messages' = {} /\ recovered' = FALSE /\ deletions' = deletions + 1
        /\ UNCHANGED <<job, lock, repair, owed, recovery, publisher, faults>>
    BY <1>1 DEF DeleteQueue, client
  <2>2. exists' \in BOOLEAN /\ recovered' \in BOOLEAN /\ messages' \subseteq Jobs \X (1..MaxAttempts)
    BY Zenon, <2>1
  <2>3. deletions' \in Nat
    BY <2>1 DEF TypeOK
  <2>4. RunsInv'
    BY <2>1 DEF RunsInv
  <2> QED
    BY <2>1, <2>2, <2>3, <2>4 DEF TypeOK
<1>2. ASSUME NEW j \in Jobs, NEW a \in 1..MaxAttempts, Deliver(j, a)
      PROVE  TypeOK' /\ RunsInv'
  <2>1. job' \in [Jobs -> JobRow]
    <3>1. [status |-> "idle", attempt |-> a, owner |-> NoClient] \in JobRow
      BY DEF JobRow
    <3> QED
      BY <1>2, <3>1 DEF Deliver, TypeOK
  <2> QED
    BY <1>2, <2>1 DEF Deliver, TypeOK, RunsInv, client
<1>3. ASSUME NEW j \in Jobs, Retry(j)
      PROVE  TypeOK' /\ RunsInv'
  <2>1. job' \in [Jobs -> JobRow]
    BY ZenonT(30), <1>3, RowTypes DEF Retry, TypeOK
  <2> QED
    BY ZenonT(30), <1>3, <2>1 DEF Retry, TypeOK, RunsInv, client
<1>4. ASSUME NEW c \in Clients, StartRepair(c) \/ PassiveCheck(c) \/ AcquireLock(c) \/ Recheck(c)
      PROVE  TypeOK' /\ RunsInv'
  <2>1. repair' \in [Clients -> RepairPc] /\ lock' \in Clients \cup {NoClient}
    BY <1>4, <1>g DEF StartRepair, PassiveCheck, AcquireLock, Recheck, RepairPc, TypeOK
  <2> QED
    BY <1>4, <2>1 DEF StartRepair, PassiveCheck, AcquireLock, Recheck, TypeOK, RunsInv, database
<1>5. ASSUME NEW c \in Clients, RecordTopologyLoss(c)
      PROVE  TypeOK' /\ RunsInv'
  <2>1. repair' \in [Clients -> RepairPc] /\ owed' \in [Clients -> Nat]
    BY <1>5, <1>g DEF RecordTopologyLoss, RepairPc, TypeOK
  <2>2. \A d \in Clients : owed'[d] >= owed[d] /\ (repair[d] = "recover" => repair'[d] = "recover")
    BY <1>5 DEF RecordTopologyLoss, TypeOK
  <2> QED
    BY <1>5, <2>1, <2>2 DEF RecordTopologyLoss, TypeOK, RunsInv, database, RecoveryRow
<1>6. ASSUME NEW c \in Clients, DeclareTopology(c) \/ RepairFails(c) \/ LockLost(c)
      PROVE  TypeOK' /\ RunsInv'
  <2>1. repair' \in [Clients -> RepairPc] /\ lock' \in Clients \cup {NoClient}
    BY <1>6, <1>g, <1>r DEF DeclareTopology, RepairFails, LockLost, RepairPc, TypeOK, client
  <2>2. \A d \in Clients : repair[d] = "recover" => repair'[d] = "recover"
    BY <1>6 DEF DeclareTopology, RepairFails, LockLost, TypeOK, client
  <2>3. faults' \in Nat /\ exists' \in BOOLEAN
    BY ZenonT(30), <1>6, <1>f DEF DeclareTopology, RepairFails, LockLost, TypeOK
  <2> QED
    BY <1>6, <2>1, <2>2, <2>3
    DEF DeclareTopology, RepairFails, LockLost, TypeOK, RunsInv, client, database
<1>7. ASSUME NEW c \in Clients, NEW actor \in Actors, EnterRecovery(c, actor)
      PROVE  TypeOK' /\ RunsInv'
  <2>1. CASE owed[c] = 0
    <3>1. repair' \in [Clients -> RepairPc]
      BY <1>7, <2>1, <1>g DEF EnterRecovery, Proceed, RepairPc, TypeOK
    <3>2. publisher' \in [Clients -> PublisherRow]
      <4>1. actor = "publisher" => [publisher[c] EXCEPT !.pc = "send"] \in PublisherRow
        BY ZenonT(30), <1>7, PublisherTypes DEF EnterRecovery, Wants, TypeOK
      <4> QED
        BY <1>7, <2>1, <4>1 DEF EnterRecovery, Proceed, TypeOK
    <3>3. recovery' = recovery /\ owed' = owed /\ recovery[c].actor = "none"
      BY <1>7, <2>1 DEF EnterRecovery, NoRecovery
    <3>4. \A d \in Clients : d # c => repair'[d] = repair[d] /\ publisher'[d] = publisher[d]
      BY <1>7, <2>1 DEF EnterRecovery, Proceed, TypeOK
    <3> QED
      BY <1>7, <2>1, <3>1, <3>2, <3>3, <3>4 DEF EnterRecovery, TypeOK, RunsInv, database
  <2>2. CASE owed[c] # 0
    <3>1. recovery' \in [Clients -> RecoveryRow]
      <4>1. [actor |-> actor, covers |-> owed[c], committed |-> FALSE] \in RecoveryRow
        BY DEF RecoveryRow, TypeOK
      <4> QED
        BY ZenonT(30), <1>7, <2>2, <4>1 DEF EnterRecovery, TypeOK
    <3>2. /\ recovery' = [recovery EXCEPT ![c] =
               [actor |-> actor, covers |-> owed[c], committed |-> FALSE]]
          /\ UNCHANGED <<owed, repair, publisher>> /\ Wants(c, actor)
      BY <1>7, <2>2 DEF EnterRecovery
    <3>3. RunsInv'
      <4>1. /\ recovery'[c].actor = actor /\ recovery'[c].covers = owed[c]
            /\ \A d \in Clients : d # c => recovery'[d] = recovery[d]
        BY <3>2 DEF TypeOK
      <4>2. /\ actor # "none" /\ owed[c] \in Nat
            /\ actor = "repair" => repair[c] = "recover"
            /\ actor = "publisher" => publisher[c].pc = "recover"
        BY ZenonT(30), <3>2 DEF TypeOK, Wants, Actors
      <4> QED
        BY <2>2, <3>2, <4>1, <4>2 DEF RunsInv
    <3> QED
      BY <1>7, <2>2, <3>1, <3>3 DEF EnterRecovery, TypeOK, database
  <2> QED
    BY <2>1, <2>2
<1>8. ASSUME NEW c \in Clients, CommitRecovery(c)
      PROVE  TypeOK' /\ RunsInv'
  <2>1. job' \in [Jobs -> JobRow] /\ recovered' \in BOOLEAN
    BY ZenonT(30), <1>8, RowTypes DEF CommitRecovery, RecoverQueuedJobs, TypeOK
  <2>2. recovery' \in [Clients -> RecoveryRow]
    BY ZenonT(30), <1>8, RecoveryTypes DEF CommitRecovery, TypeOK
  <2>3. RunsInv'
    BY <1>8 DEF CommitRecovery, TypeOK, RunsInv, RecoveryRow
  <2> QED
    BY <1>8, <2>1, <2>2, <2>3 DEF CommitRecovery, TypeOK
<1>9. ASSUME NEW c \in Clients, NoteRecovery(c)
      PROVE  TypeOK' /\ RunsInv'
  <2>1. /\ recovery[c].actor \in Actors /\ recovery[c].covers \in Nat /\ owed[c] \in Nat
        /\ recovery[c].covers > 0 /\ recovery[c].covers <= owed[c]
    BY <1>9 DEF NoteRecovery, RunsInv, TypeOK, RecoveryRow, NoRecovery, Actors
  <2>2. StillOwed(c) \in Nat
    BY <2>1 DEF StillOwed
  <2>3. owed' \in [Clients -> Nat]
    BY <1>9, <2>2 DEF NoteRecovery, TypeOK
  <2>4. CASE StillOwed(c) = 0
    <3>1. repair' \in [Clients -> RepairPc]
      BY <1>9, <2>4, <1>g DEF NoteRecovery, Proceed, RepairPc, TypeOK
    <3>2. publisher' \in [Clients -> PublisherRow]
      <4>1. recovery[c].actor = "publisher" => [publisher[c] EXCEPT !.pc = "send"] \in PublisherRow
        BY ZenonT(30), PublisherTypes DEF RunsInv, TypeOK
      <4> QED
        BY <1>9, <2>4, <4>1 DEF NoteRecovery, Proceed, TypeOK
    <3>3. recovery' \in [Clients -> RecoveryRow]
      BY <1>9, <2>4, <1>n DEF NoteRecovery, TypeOK
    <3>4. /\ recovery'[c] = NoRecovery
          /\ \A d \in Clients : d # c => /\ repair'[d] = repair[d] /\ publisher'[d] = publisher[d]
                                         /\ recovery'[d] = recovery[d] /\ owed'[d] = owed[d]
      BY <1>9, <2>4 DEF NoteRecovery, Proceed, TypeOK
    <3>5. RunsInv'
      BY <3>4 DEF RunsInv, NoRecovery
    <3> QED
      BY <1>9, <2>3, <3>1, <3>2, <3>3, <3>5 DEF NoteRecovery, TypeOK, database
  <2>5. CASE StillOwed(c) # 0
    <3> DEFINE row == [recovery[c] EXCEPT !.covers = StillOwed(c), !.committed = FALSE]
    <3>0. /\ recovery[c] \in RecoveryRow /\ row \in RecoveryRow
          /\ row.actor = recovery[c].actor /\ row.covers = StillOwed(c) /\ ~row.committed
      <4>1. recovery[c] \in RecoveryRow
        BY DEF TypeOK
      <4>2. row \in RecoveryRow
        BY ZenonT(30), <2>2, <4>1, RecoveryTypes
      <4> QED
        BY <4>1, <4>2 DEF RecoveryRow
    <3>1. recovery' = [recovery EXCEPT ![c] = row] /\ recovery' \in [Clients -> RecoveryRow]
      <4> HIDE DEF row
      <4>1. recovery' = [recovery EXCEPT ![c] = row]
        BY <1>9, <2>5 DEF NoteRecovery, row
      <4> QED
        BY <3>0, <4>1 DEF TypeOK
    <3> HIDE DEF row
    <3>2. /\ recovery'[c].actor = recovery[c].actor /\ recovery'[c].covers = StillOwed(c)
          /\ owed'[c] = StillOwed(c) /\ UNCHANGED <<repair, publisher>>
          /\ \A d \in Clients : d # c => recovery'[d] = recovery[d] /\ owed'[d] = owed[d]
      BY <1>9, <2>5, <3>0, <3>1 DEF NoteRecovery, TypeOK
    <3>3. RunsInv'
      BY <2>1, <2>2, <2>5, <3>2 DEF RunsInv, Actors
    <3> QED
      BY <1>9, <2>3, <2>5, <3>1, <3>3 DEF NoteRecovery, TypeOK, database
  <2> QED
    BY <2>4, <2>5
<1>10. ASSUME NEW c \in Clients, NEW j \in Jobs, Claim(c, j)
       PROVE  TypeOK' /\ RunsInv'
  <2>1. job' \in [Jobs -> JobRow]
    BY ZenonT(30), <1>10, RowTypes DEF Claim, TypeOK
  <2>2. NextAttempt(j) \in 1..MaxAttempts
    BY <1>10 DEF Claim, NextAttempt, TypeOK, JobRow
  <2>3. publisher' \in [Clients -> PublisherRow]
    BY <1>10, <2>2 DEF Claim, TypeOK, PublisherRow
  <2>4. RunsInv'
    BY <1>10 DEF Claim, TypeOK, RunsInv
  <2> QED
    BY ZenonT(30), <1>10, <2>1, <2>3, <2>4 DEF Claim, TypeOK
<1>11. ASSUME NEW c \in Clients, Send(c) \/ SendReturned(c)
       PROVE  TypeOK' /\ RunsInv'
  <2>1. /\ publisher' \in [Clients -> PublisherRow]
        /\ publisher[c].job \in Jobs /\ publisher[c].attempt \in 1..MaxAttempts
    <3>1. publisher[c] \in PublisherRow /\ publisher[c].pc # "idle"
      BY <1>11 DEF Send, SendReturned, TypeOK
    <3>2. \A pc \in {"recover", "sent", "failed"} : [publisher[c] EXCEPT !.pc = pc] \in PublisherRow
      BY ZenonT(30), <3>1, PublisherTypes
    <3>3. publisher[c].job \in Jobs /\ publisher[c].attempt \in 1..MaxAttempts
      BY ZenonT(30), <3>1, PublisherTypes
    <3>4. \E pc \in {"recover", "sent", "failed"} : publisher' = [publisher EXCEPT ![c].pc = pc]
      BY <1>11 DEF Send, SendReturned
    <3> QED
      BY <3>2, <3>3, <3>4 DEF TypeOK
  <2>2. messages' \subseteq Jobs \X (1..MaxAttempts)
    BY <1>11, <2>1 DEF Send, SendReturned, TypeOK
  <2>3. faults' \in Nat
    BY <1>11, <1>f DEF Send, SendReturned, TypeOK
  <2>4. RunsInv'
    BY <1>11 DEF Send, SendReturned, TypeOK, RunsInv
  <2> QED
    BY <1>11, <2>1, <2>2, <2>3, <2>4 DEF Send, SendReturned, TypeOK, database
<1>12. ASSUME NEW c \in Clients, MarkJobPublished(c) \/ ReleaseJobPublish(c)
       PROVE  TypeOK' /\ RunsInv'
  <2>1. job' \in [Jobs -> JobRow]
    <3>1. publisher[c].job \in Jobs
      BY ZenonT(30), <1>12, PublisherTypes DEF MarkJobPublished, ReleaseJobPublish, TypeOK
    <3> DEFINE row == job[publisher[c].job]
    <3>2. /\ [row EXCEPT !.owner = NoClient] \in JobRow
          /\ [row EXCEPT !.status = "queued", !.owner = NoClient] \in JobRow
      BY ZenonT(30), <3>1, RowTypes DEF TypeOK
    <3> QED
      BY <1>12, <3>1, <3>2 DEF MarkJobPublished, ReleaseJobPublish, TypeOK
  <2>2. publisher' \in [Clients -> PublisherRow]
    BY <1>12 DEF MarkJobPublished, ReleaseJobPublish, TypeOK, PublisherRow
  <2>3. RunsInv'
    BY <1>12 DEF MarkJobPublished, ReleaseJobPublish, TypeOK, RunsInv
  <2> QED
    BY <1>12, <2>1, <2>2, <2>3 DEF MarkJobPublished, ReleaseJobPublish, TypeOK
<1>13. ASSUME NEW c \in Clients, RecoveryFails(c)
       PROVE  TypeOK' /\ RunsInv'
  <2>1. job' \in [Jobs -> JobRow] /\ recovered' \in BOOLEAN
    <3>1. \A j \in Jobs : Returned(job[j]) \in JobRow
      BY ZenonT(30), RowTypes DEF TypeOK
    <3>2. CASE RecoverQueuedJobs
      BY <3>1, <3>2 DEF RecoverQueuedJobs
    <3>3. CASE UNCHANGED database
      BY <3>3 DEF TypeOK, database
    <3> QED
      BY ZenonT(30), <1>13, <3>2, <3>3 DEF RecoveryFails
  <2>2. /\ repair' \in [Clients -> RepairPc] /\ lock' \in Clients \cup {NoClient}
        /\ recovery' \in [Clients -> RecoveryRow]
    BY <1>13, <1>g, <1>r, <1>n DEF RecoveryFails, GiveUp, RepairPc, TypeOK
  <2>3. publisher' \in [Clients -> PublisherRow]
    BY ZenonT(30), <1>13, PublisherTypes DEF RecoveryFails, GiveUp, RunsInv, TypeOK
  <2>4. /\ recovery'[c] = NoRecovery /\ owed' = owed
        /\ \A d \in Clients : d # c => /\ repair'[d] = repair[d] /\ publisher'[d] = publisher[d]
                                       /\ recovery'[d] = recovery[d]
    BY <1>13 DEF RecoveryFails, GiveUp, TypeOK
  <2>5. RunsInv'
    BY <2>4 DEF RunsInv, NoRecovery
  <2> QED
    BY <1>13, <1>f, <2>1, <2>2, <2>3, <2>5 DEF RecoveryFails, TypeOK
<1>14. ASSUME NEW c \in Clients, Crash(c)
       PROVE  TypeOK' /\ RunsInv'
  <2>1. /\ repair' \in [Clients -> RepairPc] /\ lock' \in Clients \cup {NoClient}
        /\ recovery' \in [Clients -> RecoveryRow] /\ owed' \in [Clients -> Nat]
    BY <1>14, <1>g, <1>r, <1>n DEF Crash, RepairPc, TypeOK
  <2>2. publisher' \in [Clients -> PublisherRow]
    BY <1>14 DEF Crash, PublisherRow, TypeOK
  <2>3. RunsInv'
    BY <1>14 DEF Crash, RunsInv, NoRecovery, TypeOK
  <2> QED
    BY <1>14, <1>f, <2>1, <2>2, <2>3 DEF Crash, TypeOK, database
<1>15. CASE UNCHANGED vars
  BY ZenonT(30), <1>15 DEF vars, TypeOK, RunsInv
<1> QED
  BY <1>1, <1>2, <1>3, <1>4, <1>5, <1>6, <1>7, <1>8, <1>9, <1>10, <1>11, <1>12, <1>13, <1>14,
     <1>15 DEF Next, RepairStep, RecoveryStep, PublishStep, FaultStep

-----------------------------------------------------------------------------
(* The window between a check and the declaration *)

\* The steps that leave the repairs and what is owed alone.
Elsewhere ==
  \/ DeleteQueue
  \/ \E j \in Jobs : Retry(j) \/ \E a \in 1..MaxAttempts : Deliver(j, a)
  \/ \E c \in Clients : LockLost(c) \/ PublishStep(c)
  \/ UNCHANGED vars

LEMMA ElsewhereKeeps ==
  ASSUME Elsewhere
  PROVE  UNCHANGED <<repair, owed, recovery>>
BY ZenonT(30) DEF Elsewhere, DeleteQueue, Retry, Deliver, LockLost, PublishStep, Claim, Send, SendReturned,
       MarkJobPublished, ReleaseJobPublish, client, vars

\* Only DeleteQueue loses the queue and only DeclareTopology creates it; the jobs
\* count as not returned only after a deletion.
LEMMA QueueSteps ==
  ASSUME [Next]_vars
  PROVE  /\ exists' = exists \/ DeleteQueue \/ \E c \in Clients : DeclareTopology(c)
         /\ ~DeleteQueue => (recovered => recovered') /\ (exists => exists')
<1>1. CASE DeleteQueue
  BY <1>1
<1>2. ASSUME NEW c \in Clients, DeclareTopology(c)
      PROVE  recovered' = recovered /\ exists'
  BY <1>2 DEF DeclareTopology, database
<1>3. ASSUME NEW c \in Clients, CommitRecovery(c) \/ RecoveryFails(c)
      PROVE  exists' = exists /\ (recovered => recovered')
  <2>1. exists' = exists /\ (RecoverQueuedJobs \/ UNCHANGED database)
    BY <1>3 DEF CommitRecovery, RecoveryFails
  <2> QED
    BY <2>1 DEF RecoverQueuedJobs, database
<1>4. ASSUME NEW c \in Clients,
             \/ StartRepair(c) \/ PassiveCheck(c) \/ AcquireLock(c) \/ Recheck(c)
             \/ RecordTopologyLoss(c) \/ RepairFails(c) \/ LockLost(c) \/ Crash(c)
      PROVE  UNCHANGED <<exists, recovered>>
  BY <1>4 DEF StartRepair, PassiveCheck, AcquireLock, Recheck, RecordTopologyLoss, RepairFails,
              LockLost, Crash, database
<1>5. ASSUME NEW c \in Clients, (\E actor \in Actors : EnterRecovery(c, actor)) \/ NoteRecovery(c)
      PROVE  UNCHANGED <<exists, recovered>>
  BY ZenonT(30), <1>5 DEF EnterRecovery, NoteRecovery, database
<1>6. ASSUME NEW c \in Clients, PublishStep(c)
      PROVE  UNCHANGED <<exists, recovered>>
  BY ZenonT(30), <1>6 DEF PublishStep, Claim, Send, SendReturned, MarkJobPublished, ReleaseJobPublish, database
<1>7. ASSUME NEW j \in Jobs, Retry(j) \/ \E a \in 1..MaxAttempts : Deliver(j, a)
      PROVE  UNCHANGED <<exists, recovered>>
  BY ZenonT(30), <1>7 DEF Retry, Deliver
<1>8. CASE UNCHANGED vars
  BY <1>8 DEF vars
<1> QED
  BY <1>1, <1>2, <1>3, <1>4, <1>5, <1>6, <1>7, <1>8 DEF Next, RepairStep, RecoveryStep, FaultStep

\* While the queue is lost and the jobs are not returned nobody starts to rely on it.
LEMMA NobodyStartsRelying ==
  ASSUME TypeOK, RunsInv, [Next]_vars, ~exists, ~recovered', NEW d \in Clients, ~Relying(d)
  PROVE  ~Relying(d)'
<1>e. CASE UNCHANGED <<repair, owed, recovery>>
  BY <1>e DEF Relying
<1>t. /\ repair \in [Clients -> RepairPc] /\ owed \in [Clients -> Nat]
      /\ recovery \in [Clients -> RecoveryRow]
  BY DEF TypeOK
<1>d. owed[d] \in Nat /\ recovery[d] \in RecoveryRow /\ recovery[d].covers \in Nat
  BY <1>t DEF RecoveryRow
<1>1. ASSUME NEW c \in Clients,
             \/ StartRepair(c) \/ PassiveCheck(c) \/ AcquireLock(c) \/ Recheck(c)
             \/ DeclareTopology(c) \/ RepairFails(c)
      PROVE  ~Relying(d)'
  <2>1. UNCHANGED <<owed, recovery>>
    BY <1>1 DEF StartRepair, PassiveCheck, AcquireLock, Recheck, DeclareTopology, RepairFails
  <2>2. repair'[d] = repair[d] \/ repair'[d] \in {"idle", "check", "lock", "recheck", "loss"}
    BY <1>1, <1>t DEF StartRepair, PassiveCheck, AcquireLock, Recheck, DeclareTopology, RepairFails
  <2> QED
    BY <2>1, <2>2 DEF Relying
<1>2. ASSUME NEW c \in Clients, RecordTopologyLoss(c)
      PROVE  ~Relying(d)'
  <2>1. CASE d = c
    <3>1. repair'[d] = "recover" /\ owed'[d] = owed[d] + 1 /\ recovery' = recovery
      BY <1>2, <2>1, <1>t DEF RecordTopologyLoss
    <3>2. recovery[d].committed => recovery[d].covers <= owed[d]
      BY <1>d DEF RunsInv, NoRecovery
    <3> QED
      BY <3>1, <3>2, <1>d DEF Relying
  <2>2. CASE d # c
    BY <1>2, <2>2, <1>t DEF RecordTopologyLoss, Relying
  <2> QED
    BY <2>1, <2>2
<1>3. ASSUME NEW c \in Clients, NEW actor \in Actors, EnterRecovery(c, actor)
      PROVE  ~Relying(d)'
  <2>1. CASE d = c
    <3>1. CASE owed[c] = 0
      <4>1. actor # "repair"
        <5>1. recovery[c] = NoRecovery /\ (actor = "repair" => repair[c] = "recover")
          BY ZenonT(30), <1>3 DEF EnterRecovery, Wants
        <5>2. ~recovery[c].committed
          BY <5>1 DEF NoRecovery
        <5> QED
          BY <2>1, <3>1, <5>1, <5>2 DEF Relying
      <4> QED
        BY <1>3, <3>1, <4>1 DEF EnterRecovery, Proceed, Relying
    <3>2. CASE owed[c] # 0
      <4>1. UNCHANGED <<repair, owed>> /\ ~recovery'[d].committed
        BY <1>3, <2>1, <3>2, <1>t DEF EnterRecovery
      <4> QED
        BY <2>1, <3>2, <4>1 DEF Relying
    <3> QED
      BY <3>1, <3>2
  <2>2. CASE d # c
    BY <1>3, <2>2, <1>t DEF EnterRecovery, Proceed, Relying
  <2> QED
    BY <2>1, <2>2
<1>4. ASSUME NEW c \in Clients, CommitRecovery(c)
      PROVE  ~Relying(d)'
  BY <1>4 DEF CommitRecovery, RecoverQueuedJobs
<1>5. ASSUME NEW c \in Clients, NoteRecovery(c)
      PROVE  ~Relying(d)'
  <2>1. CASE d = c
    <3>1. CASE StillOwed(c) = 0
      <4>1. owed[c] = recovery[c].covers
        BY <3>1, <2>1, <1>d DEF StillOwed
      <4>2. repair[c] # "recover" /\ recovery[c].committed
        BY <1>5, <2>1, <4>1 DEF NoteRecovery, Relying
      <4>3. recovery[c].actor # "repair"
        BY <4>2, <2>1 DEF RunsInv
      <4> QED
        BY <1>5, <2>1, <3>1, <4>2, <4>3 DEF NoteRecovery, Proceed, Relying
    <3>2. CASE StillOwed(c) # 0
      <4>1. recovery[c] \in [actor: Actors \cup {"none"}, covers: Nat, committed: BOOLEAN]
        BY <1>d, <2>1 DEF RecoveryRow
      <4> DEFINE row == [recovery[c] EXCEPT !.covers = StillOwed(c), !.committed = FALSE]
      <4>a. row.committed = FALSE
        BY <4>1
      <4> HIDE DEF row
      <4>b. recovery' = [recovery EXCEPT ![c] = row]
        BY <1>5, <3>2 DEF NoteRecovery, row
      <4>2. repair' = repair /\ owed'[c] = StillOwed(c) /\ recovery'[c].committed = FALSE
        BY <1>5, <3>2, <4>a, <4>b, <1>t DEF NoteRecovery
      <4> QED
        BY <2>1, <3>2, <4>2 DEF Relying
    <3> QED
      BY <3>1, <3>2
  <2>2. CASE d # c
    BY <1>5, <2>2, <1>t DEF NoteRecovery, Proceed, Relying
  <2> QED
    BY <2>1, <2>2
<1>6. ASSUME NEW c \in Clients, RecoveryFails(c)
      PROVE  ~Relying(d)'
  <2>1. CASE d = c
    BY <1>6, <2>1, <1>t DEF RecoveryFails, GiveUp, Relying, NoRecovery
  <2>2. CASE d # c
    BY <1>6, <2>2, <1>t DEF RecoveryFails, GiveUp, Relying
  <2> QED
    BY <2>1, <2>2
<1>7. ASSUME NEW c \in Clients, Crash(c)
      PROVE  ~Relying(d)'
  BY <1>7, <1>t DEF Crash, Relying
<1>8. CASE Elsewhere
  BY <1>8, <1>e, ElsewhereKeeps
<1> QED
  BY <1>1, <1>2, <1>3, <1>4, <1>5, <1>6, <1>7, <1>8
  DEF Next, RepairStep, RecoveryStep, FaultStep, Elsewhere

LEMMA StepWindow ==
  ASSUME ~DeletionsInWindow, TypeOK, RunsInv, WindowInv, [Next]_vars
  PROVE  WindowInv'
<1>1. CASE DeleteQueue
  <2>1. \A c \in Clients : ~Relying(c)
    BY <1>1 DEF DeleteQueue
  <2>2. UNCHANGED <<repair, owed, recovery>>
    BY <1>1, ElsewhereKeeps DEF Elsewhere
  <2> QED
    BY <2>1, <2>2 DEF WindowInv, Relying
<1>2. CASE ~DeleteQueue
  BY <1>2, QueueSteps, NobodyStartsRelying DEF WindowInv
<1> QED
  BY <1>1, <1>2

\* A queue is created only when its loss has been recovered.
LEMMA StepDeclares ==
  ASSUME TypeOK, WindowInv, [Next]_vars, ~exists, exists'
  PROVE  recovered
<1>1. PICK c \in Clients : DeclareTopology(c)
  BY ZenonT(30), QueueSteps DEF DeleteQueue
<1>2. Relying(c)
  BY <1>1 DEF DeclareTopology, Relying
<1> QED
  BY <1>2 DEF WindowInv

-----------------------------------------------------------------------------
(* Promises *)

\* No publisher has just been confirmed.
NoneConfirmed == \A c \in Clients : publisher'[c].pc = "sent" => publisher'[c] = publisher[c]

\* What is promised of a job whose row stays was promised before.
LEMMA NoNewPromise ==
  ASSUME NoneConfirmed, NEW j \in Jobs, job'[j] = job[j], Promised(j)'
  PROVE  Promised(j)
BY DEF NoneConfirmed, Promised, Owns

\* A step that changes neither the jobs nor the queue keeps the promises.
LEMMA PromisesKept ==
  ASSUME PromisesInv, NoneConfirmed, UNCHANGED <<job, messages, exists, recovered>>
  PROVE  PromisesInv'
BY NoNewPromise DEF PromisesInv

\* Once the jobs are returned none is promised.
LEMMA ReturnedUnpromised ==
  ASSUME TypeOK, RecoverQueuedJobs
  PROVE  \A j \in Jobs : ~Promised(j)'
<1>1. ASSUME NEW j \in Jobs
      PROVE  job'[j].status \notin {"queued", "scheduled"}
  <2>1. job'[j] = Returned(job[j])
    BY DEF RecoverQueuedJobs
  <2> QED
    BY <2>1 DEF Returned, TypeOK, JobRow
<1> QED
  BY <1>1 DEF Promised, Owns

LEMMA StepPromises ==
  ASSUME TypeOK, TypeOK', RunsInv, WindowInv, PromisesInv, [Next]_vars
  PROVE  PromisesInv'
<1>t. /\ job \in [Jobs -> JobRow] /\ publisher \in [Clients -> PublisherRow]
      /\ recovery \in [Clients -> RecoveryRow]
  BY ZenonT(30) DEF TypeOK
<1>1. CASE DeleteQueue
  BY <1>1 DEF DeleteQueue, PromisesInv
<1>2. ASSUME NEW j \in Jobs, NEW a \in 1..MaxAttempts, Deliver(j, a)
      PROVE  PromisesInv'
  <2>1. NoneConfirmed /\ UNCHANGED <<exists, recovered, publisher>>
    BY <1>2 DEF Deliver, NoneConfirmed, client
  <2>2. ASSUME NEW k \in Jobs, Promised(k)'
        PROVE  IF exists THEN <<k, job'[k].attempt + 1>> \in messages' ELSE ~recovered
    <3>1. job'[k].status \in {"queued", "scheduled"}
      BY <2>2 DEF Promised, Owns
    <3>2. job'[k] = job[k]
      BY <1>2, <1>t, <3>1 DEF Deliver
    <3>3. Promised(k)
      BY <2>1, <2>2, <3>2, NoNewPromise
    <3>4. ASSUME k = j
          PROVE  a # job[k].attempt + 1
      <4>1. SUFFICES ASSUME a = job[k].attempt + 1
                     PROVE  FALSE
        OBVIOUS
      <4>2. a > job[j].attempt
        BY <1>t, <3>4, <4>1 DEF JobRow
      <4>3. job'[j].status = "idle"
        BY <1>2, <1>t, <3>1, <3>2, <3>4, <4>2 DEF Deliver
      <4> QED
        BY <3>1, <3>4, <4>3
    <3> QED
      BY <1>2, <3>2, <3>3, <3>4 DEF Deliver, PromisesInv
  <2> QED
    BY <2>1, <2>2 DEF PromisesInv
<1>3. ASSUME NEW j \in Jobs, Retry(j)
      PROVE  PromisesInv'
  <2>1. NoneConfirmed /\ UNCHANGED <<exists, recovered, publisher, messages>>
    BY <1>3 DEF Retry, NoneConfirmed, client
  <2>2. job'[j].status = "failed" /\ \A k \in Jobs : k # j => job'[k] = job[k]
    BY <1>3, <1>t DEF Retry, JobRow
  <2>3. ~Promised(j)'
    BY <2>2 DEF Promised, Owns
  <2> QED
    BY <2>1, <2>2, <2>3, NoNewPromise DEF PromisesInv
<1>4. ASSUME NEW c \in Clients,
             \/ StartRepair(c) \/ PassiveCheck(c) \/ AcquireLock(c) \/ Recheck(c)
             \/ RecordTopologyLoss(c) \/ RepairFails(c) \/ LockLost(c)
      PROVE  PromisesInv'
  <2>1. UNCHANGED <<job, messages, exists, recovered, publisher>>
    BY <1>4 DEF StartRepair, PassiveCheck, AcquireLock, Recheck, RecordTopologyLoss, RepairFails,
                LockLost, database, client
  <2> QED
    BY <2>1, PromisesKept DEF NoneConfirmed
<1>5. ASSUME NEW c \in Clients, DeclareTopology(c)
      PROVE  PromisesInv'
  <2>1. UNCHANGED <<job, messages, recovered, publisher>> /\ exists'
    BY <1>5 DEF DeclareTopology, database
  <2>2. ~exists => recovered
    BY <2>1, StepDeclares
  <2>3. \A j \in Jobs : Promised(j)' => Promised(j)
    BY <2>1, NoNewPromise DEF NoneConfirmed
  <2> QED
    BY <2>1, <2>2, <2>3 DEF PromisesInv
<1>6. ASSUME NEW c \in Clients, (\E actor \in Actors : EnterRecovery(c, actor)) \/ NoteRecovery(c)
      PROVE  PromisesInv'
  <2>1. PICK actor : publisher' = publisher \/ Proceed(c, actor)
    BY <1>6 DEF EnterRecovery, NoteRecovery
  <2>2. UNCHANGED <<job, messages, exists, recovered>>
    BY <1>6 DEF EnterRecovery, NoteRecovery, database
  <2>3. publisher' = publisher \/ publisher' = [publisher EXCEPT ![c].pc = "send"]
    BY <2>1 DEF Proceed
  <2>4. NoneConfirmed
    BY <2>3, <1>t DEF NoneConfirmed, PublisherRow, IdlePublisher
  <2> QED
    BY <2>2, <2>4, PromisesKept
<1>7. ASSUME NEW c \in Clients, CommitRecovery(c)
      PROVE  PromisesInv'
  BY <1>7, ReturnedUnpromised DEF CommitRecovery, PromisesInv
<1>8. ASSUME NEW c \in Clients, RecoveryFails(c)
      PROVE  PromisesInv'
  <2>1. CASE RecoverQueuedJobs
    BY <2>1, ReturnedUnpromised DEF PromisesInv
  <2>2. CASE UNCHANGED database
    <3>1. UNCHANGED <<job, messages, exists, recovered>>
      BY <1>8, <2>2 DEF RecoveryFails, database
    <3>2. publisher' = publisher \/ publisher' = [publisher EXCEPT ![c].pc = "failed"]
      BY <1>8 DEF RecoveryFails, GiveUp
    <3>3. NoneConfirmed
      BY <3>2, <1>t DEF NoneConfirmed, PublisherRow, IdlePublisher
    <3> QED
      BY <3>1, <3>3, PromisesKept
  <2> QED
    BY <1>8, <2>1, <2>2 DEF RecoveryFails
<1>9. ASSUME NEW c \in Clients, NEW j \in Jobs, Claim(c, j)
      PROVE  PromisesInv'
  <2>1. /\ publisher'[c].pc = "recover"
        /\ \A d \in Clients : d # c => publisher'[d] = publisher[d]
        /\ UNCHANGED <<exists, messages, recovered>>
    BY <1>9, <1>t DEF Claim
  <2>2. NoneConfirmed
    BY <2>1 DEF NoneConfirmed
  <2>3. /\ job'[j].status = "scheduled" /\ job'[j].owner = c
        /\ \A k \in Jobs : k # j => job'[k] = job[k]
    <3>1. job' = [job EXCEPT ![j] = [job[j] EXCEPT !.status = "scheduled", !.owner = c]]
      BY <1>9 DEF Claim
    <3> QED
      BY <1>t, <3>1 DEF JobRow
  <2>4. ~Promised(j)'
    BY <2>1, <2>3 DEF Promised, Owns
  <2> QED
    BY <2>1, <2>2, <2>3, <2>4, NoNewPromise DEF PromisesInv
<1>10. ASSUME NEW c \in Clients, Send(c)
       PROVE  PromisesInv'
  <2>1. /\ exists /\ exists' /\ job' = job
        /\ messages' = messages \cup {<<publisher[c].job, publisher[c].attempt>>}
        /\ \E pc \in {"sent", "recover"} : publisher' = [publisher EXCEPT ![c].pc = pc]
    BY <1>10 DEF Send, database
  <2>2. /\ \A d \in Clients : d # c => publisher'[d] = publisher[d]
        /\ publisher'[c].job = publisher[c].job /\ publisher'[c].attempt = publisher[c].attempt
    BY <2>1, <1>t DEF PublisherRow, IdlePublisher
  <2>3. ASSUME NEW j \in Jobs, Promised(j)'
        PROVE  <<j, job[j].attempt + 1>> \in messages'
    <3>1. CASE publisher'[c].job = j /\ Owns(c)'
      BY <2>1, <2>2, <3>1 DEF Owns
    <3>2. CASE ~(publisher'[c].job = j /\ Owns(c)')
      <4>1. Promised(j)
        BY <2>1, <2>2, <2>3, <3>2 DEF Promised, Owns
      <4> QED
        BY ZenonT(30), <2>1, <4>1 DEF PromisesInv
    <3> QED
      BY <3>1, <3>2
  <2> QED
    BY <2>1, <2>3 DEF PromisesInv
<1>11. ASSUME NEW c \in Clients, SendReturned(c)
       PROVE  PromisesInv'
  <2>1. /\ UNCHANGED <<job, messages, exists, recovered>>
        /\ \E pc \in {"recover", "failed"} : publisher' = [publisher EXCEPT ![c].pc = pc]
    BY ZenonT(30), <1>11 DEF SendReturned, database
  <2>2. NoneConfirmed
    BY <2>1, <1>t DEF NoneConfirmed, PublisherRow, IdlePublisher
  <2> QED
    BY <2>1, <2>2, PromisesKept
<1>12. ASSUME NEW c \in Clients, MarkJobPublished(c) \/ ReleaseJobPublish(c)
       PROVE  PromisesInv'
  <2>1. /\ publisher' = [publisher EXCEPT ![c] = IdlePublisher]
        /\ UNCHANGED <<messages, exists, recovered>>
    BY <1>12 DEF MarkJobPublished, ReleaseJobPublish
  <2>2. NoneConfirmed
    BY <2>1, <1>t DEF NoneConfirmed, IdlePublisher
  <2>3. CASE ~Owns(c)
    <3>1. job' = job
      BY <1>12, <2>3 DEF MarkJobPublished, ReleaseJobPublish
    <3> QED
      BY <2>1, <2>2, <3>1, PromisesKept
  <2>4. CASE Owns(c)
    <3>1. PICK j \in Jobs : j = publisher[c].job
      BY ZenonT(30), <1>12, <1>t, PublisherTypes DEF MarkJobPublished, ReleaseJobPublish
    <3>2. /\ job'[j].attempt = job[j].attempt /\ job'[j].owner = NoClient
          /\ job'[j].status = "queued" => MarkJobPublished(c)
          /\ \A k \in Jobs : k # j => job'[k] = job[k]
      <4>1. CASE MarkJobPublished(c)
        <5>1. job' = [job EXCEPT ![j] = [job[j] EXCEPT !.status = "queued", !.owner = NoClient]]
          BY <4>1, <2>4, <3>1 DEF MarkJobPublished
        <5> QED
          BY <1>t, <3>1, <4>1, <5>1 DEF JobRow
      <4>2. CASE ReleaseJobPublish(c)
        <5>1. job' = [job EXCEPT ![j] = [job[j] EXCEPT !.owner = NoClient]]
          BY <4>2, <2>4, <3>1 DEF ReleaseJobPublish
        <5>2. job[j].status = "scheduled"
          BY <2>4, <3>1 DEF Owns
        <5> QED
          BY <1>t, <3>1, <5>1, <5>2 DEF JobRow
      <4> QED
        BY <1>12, <4>1, <4>2
    <3>3. Promised(j)' => job'[j].status = "queued"
      BY <3>2, TopologyAssumption DEF Promised, Owns
    <3>4. MarkJobPublished(c) => Promised(j)
      BY <2>4, <3>1 DEF MarkJobPublished, Promised
    <3> QED
      BY <2>1, <2>2, <3>1, <3>2, <3>3, <3>4, NoNewPromise DEF PromisesInv
  <2> QED
    BY <2>3, <2>4
<1>13. ASSUME NEW c \in Clients, Crash(c)
       PROVE  PromisesInv'
  <2>1. /\ publisher' = [publisher EXCEPT ![c] = IdlePublisher]
        /\ UNCHANGED <<job, messages, exists, recovered>>
    BY <1>13 DEF Crash, database
  <2>2. NoneConfirmed
    BY <2>1, <1>t DEF NoneConfirmed, IdlePublisher
  <2> QED
    BY <2>1, <2>2, PromisesKept
<1>14. CASE UNCHANGED vars
  BY <1>14, PromisesKept DEF vars, NoneConfirmed
<1> QED
  BY <1>1, <1>2, <1>3, <1>4, <1>5, <1>6, <1>7, <1>8, <1>9, <1>10, <1>11, <1>12, <1>13, <1>14
  DEF Next, RepairStep, RecoveryStep, PublishStep, FaultStep

-----------------------------------------------------------------------------
(* The lock, and what is recovered under it *)

\* A run that has not committed has something to recover.
LEMMA RunIsPending ==
  ASSUME TypeOK, RunsInv, NEW c \in Clients, recovery[c].actor # "none", ~recovery[c].committed
  PROVE  Pending(c)
BY DEF TypeOK, RunsInv, RecoveryRow, Pending

\* Without faults the holder of the lock changes only when the lock is free, and when
\* its holder declares the queue.
LEMMA StepLock ==
  ASSUME ~DeletionsInWindow, TypeOK, RunsInv, LockInv, [Next]_vars
  PROVE  LockInv'
<1> DEFINE Fine(c) == /\ repair[c] \in {"recheck", "loss", "recover", "declare"} => lock = c
                      /\ Pending(c) => repair[c] \in {"loss", "recover"} /\ ~exists
<1>t. /\ repair \in [Clients -> RepairPc] /\ owed \in [Clients -> Nat]
      /\ recovery \in [Clients -> RecoveryRow]
  BY DEF TypeOK
<1>r. \A d \in Clients : /\ owed[d] \in Nat /\ recovery[d].covers \in Nat
                         /\ recovery[d].committed \in BOOLEAN
  BY <1>t DEF RecoveryRow
<1>u. ASSUME UNCHANGED <<repair, owed, recovery, exists, lock>>, faults = 0 \/ faults' # 0
      PROVE  LockInv'
  BY <1>u DEF LockInv, Pending
<1>f. ASSUME Fault
      PROVE  faults' # 0
  BY <1>f DEF Fault, TypeOK
<1>1. CASE DeleteQueue
  <2>1. \A c \in Clients : repair[c] # "found"
    BY <1>1 DEF DeleteQueue, Relying
  <2>2. UNCHANGED <<repair, owed, recovery, lock, faults>> /\ ~exists'
    BY <1>1 DEF DeleteQueue, client
  <2> QED
    BY <2>1, <2>2 DEF LockInv, Pending
<1>2. ASSUME NEW j \in Jobs, Retry(j) \/ \E a \in 1..MaxAttempts : Deliver(j, a)
      PROVE  LockInv'
  <2>1. UNCHANGED <<repair, owed, recovery, lock, faults, exists>>
    BY ZenonT(30), <1>2 DEF Retry, Deliver, client
  <2> QED
    BY <2>1 DEF LockInv, Pending
<1>3. ASSUME NEW c \in Clients, StartRepair(c) \/ PassiveCheck(c) \/ Recheck(c)
      PROVE  LockInv'
  <2>1. UNCHANGED <<owed, recovery, lock, faults, exists>>
    BY <1>3 DEF StartRepair, PassiveCheck, Recheck
  <2>2. \A d \in Clients : d # c => repair'[d] = repair[d]
    BY <1>3, <1>t DEF StartRepair, PassiveCheck, Recheck
  <2>3. /\ repair'[c] = "found" => exists
        /\ repair'[c] \in {"check", "found", "lock"} \/ (repair[c] = "recheck" /\ repair'[c] = "loss" /\ ~exists)
        /\ repair[c] \in {"idle", "check", "recheck"}
    BY <1>3, <1>t DEF StartRepair, PassiveCheck, Recheck
  <2>4. faults = 0 => ~Pending(c)
    BY <2>3 DEF LockInv
  <2> QED
    BY <2>1, <2>2, <2>3, <2>4 DEF LockInv, Pending
<1>4. ASSUME NEW c \in Clients, AcquireLock(c)
      PROVE  LockInv'
  <2>1. /\ UNCHANGED <<owed, recovery, faults, exists>> /\ lock = NoClient /\ lock' = c
        /\ repair[c] = "lock" /\ repair'[c] = "recheck"
        /\ \A d \in Clients : d # c => repair'[d] = repair[d]
    BY <1>4, <1>t DEF AcquireLock
  <2>2. \A d \in Clients : d # NoClient
    BY TopologyAssumption
  <2> QED
    BY <2>1, <2>2 DEF LockInv, Pending
<1>5. ASSUME NEW c \in Clients, RecordTopologyLoss(c)
      PROVE  LockInv'
  <2>1. /\ UNCHANGED <<recovery, faults, exists, lock>>
        /\ repair[c] = "loss" /\ repair'[c] = "recover"
        /\ \A d \in Clients : d # c => repair'[d] = repair[d] /\ owed'[d] = owed[d]
    BY ZenonT(30), <1>5, <1>t DEF RecordTopologyLoss
  <2>2. Pending(c)
    BY <2>1 DEF Pending
  <2> QED
    BY <2>1, <2>2 DEF LockInv, Pending
<1>6. ASSUME NEW c \in Clients, DeclareTopology(c)
      PROVE  LockInv'
  <2>1. /\ UNCHANGED <<owed, recovery, faults>> /\ exists' /\ lock' = Released(c)
        /\ repair[c] \in {"found", "declare"} /\ repair'[c] = "idle"
        /\ \A d \in Clients : d # c => repair'[d] = repair[d]
    BY <1>6, <1>t DEF DeclareTopology
  <2>2. ASSUME faults = 0, NEW d \in Clients
        PROVE  Fine(d)'
    <3>1. d # c => (lock = d => lock' = d)
      BY <2>1 DEF Released
    <3>2. repair'[d] \in {"recheck", "loss", "recover", "declare"} => lock' = d
      BY <2>1, <2>2, <3>1 DEF LockInv
    <3>3. ~Pending(d)
      <4>1. SUFFICES ASSUME Pending(d)
                     PROVE  FALSE
        OBVIOUS
      <4>2. repair[d] \in {"loss", "recover"} /\ ~exists /\ lock = d
        BY <2>2, <4>1 DEF LockInv
      <4>3. repair[c] = "declare"
        BY <2>1, <4>2 DEF LockInv
      <4>4. lock = c
        BY <2>2, <4>3 DEF LockInv
      <4> QED
        BY <4>2, <4>3, <4>4
    <3>4. ~Pending(d)'
      BY <2>1, <3>3 DEF Pending
    <3> QED
      BY <3>2, <3>4
  <2> QED
    BY <2>1, <2>2 DEF LockInv
<1>7. ASSUME NEW c \in Clients, NEW actor \in Actors, EnterRecovery(c, actor)
      PROVE  LockInv'
  <2>1. UNCHANGED <<owed, faults, exists, lock>> /\ recovery[c] = NoRecovery
    BY <1>7 DEF EnterRecovery
  <2>n. ~recovery[c].committed
    BY <2>1 DEF NoRecovery
  <2>2. CASE owed[c] = 0
    <3>1. recovery' = recovery /\ \A d \in Clients : d # c => repair'[d] = repair[d]
      BY <1>7, <2>2, <1>t DEF EnterRecovery, Proceed
    <3>2. repair'[c] = repair[c] \/ (repair[c] = "recover" /\ repair'[c] = "declare")
      BY ZenonT(30), <1>7, <2>2, <1>t DEF EnterRecovery, Proceed, Wants
    <3>3. ~Pending(c)' \/ repair'[c] = repair[c]
      BY <2>1, <2>n, <2>2, <3>1, <3>2 DEF Pending
    <3> QED
      BY <2>1, <3>1, <3>2, <3>3 DEF LockInv, Pending
  <2>3. CASE owed[c] # 0
    <3>1. /\ repair' = repair /\ ~recovery'[c].committed
          /\ \A d \in Clients : d # c => recovery'[d] = recovery[d]
      BY <1>7, <2>3, <1>t DEF EnterRecovery
    <3> QED
      BY <2>1, <2>n, <3>1 DEF LockInv, Pending
  <2> QED
    BY <2>2, <2>3
<1>8. ASSUME NEW c \in Clients, CommitRecovery(c)
      PROVE  LockInv'
  <2>1. /\ UNCHANGED <<owed, faults, exists, lock, repair>>
        /\ \A d \in Clients : d # c => recovery'[d] = recovery[d]
        /\ recovery'[c].committed /\ recovery'[c].covers = recovery[c].covers
        /\ recovery[c].actor # "none" /\ ~recovery[c].committed
    BY <1>8, <1>t DEF CommitRecovery, RecoveryRow
  <2>2. Pending(c)
    BY <2>1, RunIsPending
  <2>3. \A d \in Clients : Pending(d)' => Pending(d)
    BY <2>1, <2>2 DEF Pending
  <2> QED
    BY <2>1, <2>3 DEF LockInv
<1>9. ASSUME NEW c \in Clients, NoteRecovery(c)
      PROVE  LockInv'
  <2>1. /\ UNCHANGED <<faults, exists, lock>> /\ recovery[c].committed
        /\ owed' = [owed EXCEPT ![c] = StillOwed(c)]
    BY <1>9 DEF NoteRecovery
  <2>2. recovery[c].covers <= owed[c]
    BY <2>1 DEF RunsInv, NoRecovery
  <2>3. /\ \A d \in Clients : d # c => /\ repair'[d] = repair[d] /\ owed'[d] = owed[d]
                                       /\ recovery'[d] = recovery[d]
        /\ owed'[c] = StillOwed(c) /\ owed'[c] \in Nat
    BY <1>9, <1>t, <1>r, <2>1, <2>2 DEF NoteRecovery, Proceed, StillOwed
  <2>4. CASE StillOwed(c) = 0
    <3>1. recovery'[c] = NoRecovery /\ (repair'[c] = repair[c] \/ repair'[c] = "declare")
      BY <1>9, <1>t, <2>4 DEF NoteRecovery, Proceed
    <3>2. repair'[c] # repair[c] => repair[c] = "recover"
      BY <1>9, <2>4 DEF NoteRecovery, Proceed, RunsInv
    <3>3. Pending(c)' => repair'[c] = "loss" /\ Pending(c)
      BY <2>3, <2>4, <3>1, <3>2 DEF Pending, NoRecovery
    <3> QED
      BY <2>1, <2>3, <3>1, <3>2, <3>3 DEF LockInv, Pending
  <2>5. CASE StillOwed(c) # 0
    <3>1. Pending(c)
      BY <1>r, <2>1, <2>2, <2>5 DEF Pending, StillOwed
    <3>2. repair' = repair
      BY <1>9, <2>5 DEF NoteRecovery
    <3> QED
      BY <2>1, <2>3, <3>1, <3>2 DEF LockInv, Pending
  <2> QED
    BY <2>4, <2>5
<1>10. ASSUME NEW c \in Clients, PublishStep(c)
       PROVE  LockInv'
  <2>1. UNCHANGED <<repair, owed, recovery, lock, exists>> /\ (faults' = faults \/ Fault)
    BY ZenonT(30), <1>10 DEF PublishStep, Claim, Send, SendReturned, MarkJobPublished, ReleaseJobPublish
  <2>2. faults' # 0 \/ faults = 0
    BY <2>1, <1>f DEF Fault
  <2> QED
    BY ZenonT(30), <2>1, <2>2, <1>u
<1>11. ASSUME NEW c \in Clients, FaultStep(c)
       PROVE  LockInv'
  <2>1. faults' # 0 /\ exists' = exists
    BY <1>11, <1>f DEF FaultStep, RepairFails, LockLost, RecoveryFails, Crash
  <2>2. \A d \in Clients : repair'[d] = repair[d] \/ repair'[d] = "idle"
    BY <1>11, <1>t DEF FaultStep, RepairFails, LockLost, RecoveryFails, GiveUp, Crash, client
  <2> QED
    BY <2>1, <2>2 DEF LockInv
<1>12. CASE UNCHANGED vars
  BY ZenonT(30), <1>12 DEF vars, LockInv, Pending
<1> QED
  BY <1>1, <1>2, <1>3, <1>4, <1>5, <1>6, <1>7, <1>8, <1>9, <1>10, <1>11, <1>12
  DEF Next, RepairStep, RecoveryStep

\* Confirmed jobs are returned only by the recovery handler.
LEMMA StepReturns ==
  ASSUME TypeOK, RunsInv, LockInv, [Next]_vars,
         NEW j \in Jobs, job[j].status = "queued", job'[j].status = "failed"
  PROVE  ~exists \/ faults > 0
<1>t. job \in [Jobs -> JobRow] /\ publisher \in [Clients -> PublisherRow]
  BY DEF TypeOK
<1>1. job' # job
  OBVIOUS
<1>2. ASSUME NEW k \in Jobs, Retry(k) \/ \E a \in 1..MaxAttempts : Deliver(k, a)
      PROVE  FALSE
  <2>1. CASE Retry(k)
    BY <2>1, <1>t DEF Retry
  <2>2. ASSUME NEW a \in 1..MaxAttempts, Deliver(k, a)
        PROVE  FALSE
    BY <2>2, <1>t DEF Deliver
  <2> QED
    BY <1>2, <2>1, <2>2
<1>3. ASSUME NEW c \in Clients, PublishStep(c)
      PROVE  FALSE
  <2>1. ASSUME NEW k \in Jobs, Claim(c, k)
        PROVE  FALSE
    <3>1. job' = [job EXCEPT ![k] = [job[k] EXCEPT !.status = "scheduled", !.owner = c]]
      BY <2>1 DEF Claim
    <3> QED
      BY <1>t, <3>1 DEF JobRow
  <2>2. ASSUME MarkJobPublished(c) \/ ReleaseJobPublish(c)
        PROVE  FALSE
    <3> DEFINE k == publisher[c].job
    <3>1. \/ job' = job
          \/ job' = [job EXCEPT ![k] = [job[k] EXCEPT !.status = "queued", !.owner = NoClient]]
          \/ job' = [job EXCEPT ![k] = [job[k] EXCEPT !.owner = NoClient]]
      BY <2>2 DEF MarkJobPublished, ReleaseJobPublish
    <3> QED
      BY ZenonT(30), <1>t, <3>1 DEF JobRow
  <2>3. ASSUME Send(c) \/ SendReturned(c)
        PROVE  FALSE
    BY <1>1, <2>3 DEF Send, SendReturned, database
  <2> QED
    BY <1>3, <2>1, <2>2, <2>3 DEF PublishStep
<1>4. ASSUME NEW c \in Clients, CommitRecovery(c) \/ RecoveryFails(c)
      PROVE  ~exists \/ faults > 0
  <2>1. Pending(c)
    BY <1>4, RunIsPending DEF CommitRecovery, RecoveryFails
  <2>2. faults = 0 => ~exists
    BY <2>1 DEF LockInv
  <2> QED
    BY <2>2 DEF TypeOK
<1>5. ASSUME NEW c \in Clients,
             \/ StartRepair(c) \/ RepairStep(c) \/ RepairFails(c) \/ LockLost(c) \/ Crash(c)
      PROVE  FALSE
  BY ZenonT(30), <1>1, <1>5 DEF StartRepair, RepairStep, PassiveCheck, AcquireLock, Recheck, RecordTopologyLoss,
                    DeclareTopology, RepairFails, LockLost, Crash, database
<1>6. ASSUME NEW c \in Clients, (\E actor \in Actors : EnterRecovery(c, actor)) \/ NoteRecovery(c)
      PROVE  FALSE
  BY ZenonT(30), <1>1, <1>6 DEF EnterRecovery, NoteRecovery, database
<1>7. ~DeleteQueue /\ ~UNCHANGED vars
  BY <1>1 DEF DeleteQueue, vars
<1> QED
  BY <1>2, <1>3, <1>4, <1>5, <1>6, <1>7 DEF Next, RecoveryStep, FaultStep

-----------------------------------------------------------------------------
(* The theorems *)

LEMMA RecoveryInductive ==
  ASSUME ~DeletionsInWindow
  PROVE  Spec => []RecoveryInv
<1>1. Init => RecoveryInv
  <2> SUFFICES ASSUME Init
               PROVE  RecoveryInv
    BY ZenonT(30)
  <2>1. WindowInv /\ LockInv
    BY DEF Init, WindowInv, LockInv, Pending, NoRecovery
  <2>2. PromisesInv
    BY DEF Init, PromisesInv, Promised, IdlePublisher
  <2> QED
    BY <2>1, <2>2, InitTypes DEF RecoveryInv
<1>2. RecoveryInv /\ [Next]_vars => RecoveryInv'
  BY StepTypes, StepWindow, StepPromises, StepLock DEF RecoveryInv
<1> QED
  BY <1>1, <1>2, PTL DEF Spec

\* However repairs, recoveries, publications and faults interleave, the main queue
\* never exists without the message of a job that check_jobs calls queued.
THEOREM NoJobIsStranded ==
  ASSUME ~DeletionsInWindow
  PROVE  Spec => []NoStrandedJob
<1>1. RecoveryInv => NoStrandedJob
  BY DEF RecoveryInv, PromisesInv, Promised, NoStrandedJob
<1> QED
  BY <1>1, RecoveryInductive, PTL

\* repairTopologyOnConnectionUnbounded declares a lost queue only after
\* RecoverQueuedJobs has committed since the loss.
THEOREM RecoveryBeforeDeclaration ==
  ASSUME ~DeletionsInWindow
  PROVE  Spec => RecoveredBeforeDeclared
<1>1. RecoveryInv /\ [Next]_vars => [~exists /\ exists' => recovered]_vars
  BY StepDeclares DEF RecoveryInv
<1> QED
  BY <1>1, RecoveryInductive, PTL DEF Spec, RecoveredBeforeDeclared

\* As long as no call failed, no lock was lost and no process crashed, confirmed jobs
\* are returned to the publish path only while the queue is missing.
THEOREM NoNeedlessReturn ==
  ASSUME ~DeletionsInWindow
  PROVE  Spec => ReturnedOnlyAfterLoss
<1>1. RecoveryInv /\ [Next]_vars =>
        [\A j \in Jobs : job[j].status = "queued" /\ job'[j].status = "failed" =>
           ~exists \/ faults > 0]_vars
  BY StepReturns DEF RecoveryInv
<1> QED
  BY <1>1, RecoveryInductive, PTL DEF Spec, ReturnedOnlyAfterLoss
=============================================================================
