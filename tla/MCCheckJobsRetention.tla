------------------------ MODULE MCCheckJobsRetention ------------------------
(* An instance of CheckJobsRetention for TLC. *)
EXTENDS CheckJobsRetention

CONSTANT m1

OneMonitor == [j \in Jobs |-> m1]
=============================================================================
