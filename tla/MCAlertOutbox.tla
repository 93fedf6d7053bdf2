--------------------------- MODULE MCAlertOutbox ---------------------------
(* An instance of AlertOutbox for TLC. *)
EXTENDS AlertOutbox, TLC

\* The incidents of a behaviour share MaxFailures.
Bounded == \A i, o \in Incidents : i # o => incident[i].failures + incident[o].failures <= MaxFailures

MCNext == Next /\ Bounded'

MCSpec == Init /\ [][MCNext]_vars

\* Incidents are interchangeable, and so are dispatchers.
MCSymmetry == Permutations(Incidents) \cup Permutations(Dispatchers)
=============================================================================
