--------------------------- MODULE JobLifecycle ---------------------------
(***************************************************************************)
(* What the pipeline promises for one check job, whatever the repository,  *)
(* the queue and the processes around it do: the job waits, runs attempts  *)
(* one at a time and at most MaxAttempts of them, and ends completed with  *)
(* one recorded result, or dead, or removed.  The repository interface     *)
(* has two implementations; CheckJobsRefinement and MemoryPipeline show    *)
(* that both implement this specification.                                 *)
(***************************************************************************)
EXTENDS Naturals

CONSTANTS Jobs, MaxAttempts

VARIABLES
  phase,      \* per job: where it is in its life
  attempt,    \* per job: the number of the last attempt started
  recorded    \* jobs with a stored result

lifecycle == <<phase, attempt, recorded>>

Phases == {"none", "waiting", "running", "completed", "dead", "removed"}

Init ==
  /\ phase = [j \in Jobs |-> "none"]
  /\ attempt = [j \in Jobs |-> 0]
  /\ recorded = {}

Moves(j, from, to) == phase[j] \in from /\ phase'[j] = to

SameAttempt(j) == attempt'[j] = attempt[j]

SameResult(j) == j \in recorded' <=> j \in recorded

Stays(j) == phase'[j] = phase[j] /\ SameAttempt(j) /\ SameResult(j)

Create(j) == Moves(j, {"none"}, "waiting") /\ SameAttempt(j) /\ SameResult(j)

\* Every run is a new attempt, so a duplicate message starts nothing.
Start(j) ==
  /\ Moves(j, {"waiting"}, "running")
  /\ attempt[j] < MaxAttempts
  /\ attempt'[j] = attempt[j] + 1
  /\ SameResult(j)

Fail(j) == Moves(j, {"running"}, "waiting") /\ SameAttempt(j) /\ SameResult(j)

\* The result and the completion of the job are one step.
Complete(j) ==
  /\ Moves(j, {"running"}, "completed")
  /\ SameAttempt(j)
  /\ j \notin recorded
  /\ j \in recorded'

Bury(j) == Moves(j, {"waiting", "running"}, "dead") /\ SameAttempt(j) /\ SameResult(j)

\* A monitor is deleted with its jobs and results; retention removes settled jobs.
Remove(j) ==
  /\ Moves(j, Phases \ {"none"}, "removed")
  /\ SameAttempt(j)
  /\ j \in recorded' => j \in recorded

\* Retention removes a result while its job, or the trace of it, is kept.
ForgetResult(j) ==
  /\ phase[j] \in {"completed", "removed"}
  /\ phase'[j] = phase[j]
  /\ SameAttempt(j)
  /\ j \in recorded
  /\ j \notin recorded'

JobStep(j) ==
  \/ Stays(j)
  \/ Create(j)
  \/ Start(j)
  \/ Fail(j)
  \/ Complete(j)
  \/ Bury(j)
  \/ Remove(j)
  \/ ForgetResult(j)

\* One transaction may move several jobs, each by a move of its own.
Next ==
  /\ phase' \in [Jobs -> Phases]
  /\ attempt' \in [Jobs -> Nat]
  /\ recorded' \subseteq Jobs
  /\ \A j \in Jobs : JobStep(j)

Spec == Init /\ [][Next]_lifecycle
=============================================================================
