------------------------- MODULE CheckJobsRetention -------------------------
(***************************************************************************)
(* The check-job pipeline beside the retention pass, which deletes old     *)
(* results and settled jobs.  A row may be past its retention at any time: *)
(* a message can wait in the main queue, or a worker can stall, for longer *)
(* than the retention of the job it is about.                              *)
(***************************************************************************)
EXTENDS CheckJobsRefinement

CONSTANT RetentionBatch   \* RETENTION_BATCH_SIZE

ExpiredJobs == {j \in Jobs : job[j].status \in {"completed", "dead"}}

\* The two statements of DeleteExpiredData on these tables, one transaction.
DeleteExpiredData(oldResults, oldJobs) ==
  /\ oldResults \subseteq results
  /\ oldJobs \subseteq ExpiredJobs
  /\ Cardinality(oldResults) <= RetentionBatch
  /\ Cardinality(oldJobs) <= RetentionBatch
  /\ results' = results \ oldResults
  /\ job' = [j \in Jobs |-> IF j \in oldJobs THEN Deleted(job[j]) ELSE job[j]]
  /\ UNCHANGED <<monitor, tokens, broker, scheduler, worker, faults>>

RetentionNext ==
  \/ Next
  \/ \E oldResults \in SUBSET results, oldJobs \in SUBSET Jobs :
       DeleteExpiredData(oldResults, oldJobs)

RetentionSpec == Init /\ [][RetentionNext]_vars

FairRetentionSpec == RetentionSpec /\ Fairness

\* A message of job j is in the main queue or with a worker.
Outstanding(j) ==
  \/ \E a \in 1..MaxAttempts : queue[j][a] > 0
  \/ \E w \in Workers : worker[w].job = j

\* The messages of a settled job run out for good, whether or not retention has
\* deleted its row by the time a worker asks for it: MarkJobProcessing tells a row
\* that is gone from a database failure, so the delivery is acknowledged and not
\* requeued for ever, and stale claims do not keep publishing the job.
SettledDeliveriesDrain ==
  \A j \in Jobs : job[j].status \in {"completed", "dead", "deleted"} ~> []~Outstanding(j)
=============================================================================
