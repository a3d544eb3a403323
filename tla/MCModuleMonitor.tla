-------------------------- MODULE MCModuleMonitor --------------------------
(***************************************************************************)
(* ModuleMonitor on a few addresses and images, which are interchangeable; *)
(* the run without liveness exploits it.                                   *)
(***************************************************************************)
EXTENDS ModuleMonitor, TLC

Symmetry == Permutations(Bases) \union Permutations(Images)
=============================================================================
