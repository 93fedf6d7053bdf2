------------------------- MODULE MCTopologyRecovery -------------------------
(* Instances of TopologyRecovery for TLC. *)
EXTENDS TopologyRecovery, TLC

CONSTANT MaxTroubles   \* bound: deletions and faults together

\* The queue is deleted when a handler has returned the jobs and its client has not
\* yet noted it: the one trouble that may come on top of the others.
DeletedBehindHandler ==
  deletions' # deletions /\ \E c \in Clients : recovery[c].committed

\* A step of the environment can always be left out, so the bound takes no step
\* away that fairness asks for.
MCNext ==
  /\ Next
  /\ \/ UNCHANGED <<deletions, faults>>
     \/ deletions + faults < MaxTroubles
     \/ deletions + faults = MaxTroubles /\ DeletedBehindHandler

MCFairSpec == Init /\ [][MCNext]_vars /\ Fairness

\* Clients are interchangeable, and so are jobs.
MCSymmetry == Permutations(Clients) \cup Permutations(Jobs)
=============================================================================
