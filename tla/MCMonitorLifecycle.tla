------------------------- MODULE MCMonitorLifecycle -------------------------
(***************************************************************************)
(* MonitorLifecycle on a few clients and background threads.  Clients and  *)
(* threads are interchangeable; the run without liveness exploits it.      *)
(***************************************************************************)
EXTENDS MonitorLifecycle, TLC

Symmetry == Permutations(Callers) \union Permutations(Threads)
=============================================================================
