------------------------ MODULE CheckJobsRefinement ------------------------
(***************************************************************************)
(* The check-job pipeline over PostgreSQL and RabbitMQ implements the      *)
(* lifecycle of JobLifecycle: the phase of a job is read off its status.   *)
(***************************************************************************)
EXTENDS CheckJobs

PhaseOf(status) ==
  CASE status = "none"                              -> "none"
    [] status \in {"scheduled", "queued", "failed"} -> "waiting"
    [] status = "processing"                        -> "running"
    [] status = "completed"                         -> "completed"
    [] status = "dead"                              -> "dead"
    [] status = "deleted"                           -> "removed"

phase == [j \in Jobs |-> PhaseOf(job[j].status)]

attempt == [j \in Jobs |-> job[j].attempt]

recorded == {r.job : r \in results}

Lifecycle == INSTANCE JobLifecycle WITH
  phase <- phase, attempt <- attempt, recorded <- recorded

\* Whatever the schedulers, the workers, the broker and their faults do, a job
\* lives as JobLifecycle allows: attempts run one after the other up to
\* MAX_JOB_ATTEMPTS, AddCheck stores the one result, settled jobs stay settled.
ImplementsLifecycle == Lifecycle!Spec

\* Messages, deliveries and claims never run ahead of the job's attempts by more
\* than the one they ask for, so MarkJobProcessing never skips an attempt.
NoAttemptAhead ==
  \A j \in Jobs :
    /\ \A a \in 1..MaxAttempts : queue[j][a] > 0 => a <= job[j].attempt + 1
    /\ \A w \in Workers : worker[w].job = j => worker[w].attempt <= job[j].attempt + 1
    /\ \A s \in Schedulers : \A c \in Claims(s) : c.job = j => c.attempt <= job[j].attempt
=============================================================================
