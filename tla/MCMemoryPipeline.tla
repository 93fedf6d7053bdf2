-------------------------- MODULE MCMemoryPipeline --------------------------
(* Instances of MemoryPipeline for TLC. *)
EXTENDS MemoryPipeline

CONSTANT m1

OneMonitor == [j \in Jobs |-> m1]

\* An update or a stalled holder in one behaviour, not both.  Fairness asks for
\* neither.
MCNext == Next /\ (updates + faults)' <= 1

MCFairSpec == Init /\ [][MCNext]_vars /\ Fairness
=============================================================================
