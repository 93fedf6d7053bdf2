--------------------------- MODULE MCMonitorStore ---------------------------
(* An instance of MonitorStore for TLC. *)
EXTENDS MonitorStore

CONSTANTS m1, m2, u1, u2

\* The other monitor is there for its URL.
OneMonitor == [j \in Jobs |-> m1]

\* Either several jobs of one monitor, or one job and two monitors that change and
\* exchange their URLs.
Bounded == monitor[m2].status # "none" \/ byURL[u2] # NoMonitor => job[2].status = "none"

MCNext == Next /\ Bounded'

MCSpec == Init /\ [][MCNext]_storeVars
=============================================================================
