--------------------------- MODULE MonitorService ---------------------------
(***************************************************************************)
(* What ProcessMonitor promises about its background monitoring, with no   *)
(* word on how (include/rmg/process/process_monitor.hpp:91-99,             *)
(* docs/architecture/PROCESS_MONITOR.md:9): there is one series of cycles, *)
(* cycles never overlap, none begins once a stop was requested, and the    *)
(* service is over only when the cycle in progress has ended.              *)
(***************************************************************************)
VARIABLES
  mode,     \* is there a monitoring service, and has it been told to end?
  cycling   \* is a monitoring cycle being performed by the service?

vars == <<mode, cycling>>

TypeOK ==
  /\ mode \in {"stopped", "monitoring", "stopping"}
  /\ cycling \in BOOLEAN

Init ==
  /\ mode = "stopped"
  /\ cycling = FALSE

Start ==
  /\ mode = "stopped"
  /\ mode' = "monitoring"
  /\ UNCHANGED cycling

BeginCycle ==
  /\ mode = "monitoring"
  /\ ~cycling
  /\ cycling' = TRUE
  /\ UNCHANGED mode

EndCycle ==
  /\ cycling
  /\ cycling' = FALSE
  /\ UNCHANGED mode

RequestStop ==
  /\ mode = "monitoring"
  /\ mode' = "stopping"
  /\ UNCHANGED cycling

Finish ==
  /\ mode = "stopping"
  /\ ~cycling
  /\ mode' = "stopped"
  /\ UNCHANGED cycling

Next == Start \/ BeginCycle \/ EndCycle \/ RequestStop \/ Finish

Spec == Init /\ [][Next]_vars
=============================================================================
