-------------------------- MODULE MCInMemoryQueue --------------------------
(* Instances of InMemoryQueue for TLC. *)
EXTENDS InMemoryQueue, TLC

\* Job ids, publishers and workers are only compared for equality.
MCSymmetry == Permutations(Jobs) \cup Permutations(Publishers) \cup Permutations(Workers)
=============================================================================
