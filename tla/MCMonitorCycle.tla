--------------------------- MODULE MCMonitorCycle ---------------------------
(***************************************************************************)
(* MonitorCycle on a few module addresses.                                 *)
(***************************************************************************)
EXTENDS MonitorCycle
=============================================================================
