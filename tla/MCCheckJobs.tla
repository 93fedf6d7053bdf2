---------------------------- MODULE MCCheckJobs ----------------------------
(***************************************************************************)
(* An instance of CheckJobs for TLC: two jobs of one monitor, two          *)
(* schedulers and two workers, within one of several loads, since all of   *)
(* them at once are too many states.                                       *)
(***************************************************************************)
EXTENDS CheckJobsRefinement, TLC

CONSTANTS m1, j1, j2

OneMonitor == [j \in Jobs |-> m1]

\* What a state asks for: jobs created, busy schedulers, busy workers, faults so
\* far and configuration changes.
Load == <<IF job[j2].status # "none" THEN 2 ELSE 1,
          Cardinality({s \in Schedulers : scheduler[s].pc # "idle"}),
          Cardinality({w \in Workers : worker[w].pc # "idle"}),
          faults, monitor[m1].config>>

Loads == {<<1, 1, 2, 1, 1>>,   \* two workers and a change of the monitor
          <<1, 2, 1, 1, 0>>,   \* two schedulers beside a worker
          <<2, 1, 1, 0, 0>>}   \* a second job of the monitor

\* The ids are interchangeable, so j1 is the first to be used.
Bounded ==
  /\ \E l \in Loads : \A i \in DOMAIN l : Load[i] <= l[i]
  /\ job[j2].status # "none" => job[j1].status # "none"

MCNext == Next /\ Bounded'

MCSpec == Init /\ [][MCNext]_vars

MCSymmetry == Permutations(Schedulers) \cup Permutations(Workers)
=============================================================================
