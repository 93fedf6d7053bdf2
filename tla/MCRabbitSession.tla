-------------------------- MODULE MCRabbitSession --------------------------
(* An instance of RabbitSession for TLC. *)
EXTENDS RabbitSession

\* Bound: a probe starts beside the first publication and before the first fault, and
\* the second publication waits for its end.  Both are steps of the environment: no
\* fairness asks for them.
MCNext ==
  /\ Next
  /\ user["prober"].pc = "idle" /\ user'["prober"].pc # "idle" =>
       call.number = 1 /\ faults = 0
  /\ call'.number > 1 => user'["prober"].pc = "idle"

MCFairSpec == Init /\ [][MCNext]_vars /\ Fairness
=============================================================================
