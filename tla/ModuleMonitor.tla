--------------------------- MODULE ModuleMonitor ---------------------------
(***************************************************************************)
(* ModuleMonitor::poll (src/modules/module_monitor.cpp) and a client that  *)
(* follows its two signals, against a process that goes on loading,        *)
(* unloading and replacing modules while a poll delivers its events.       *)
(*                                                                         *)
(* A set of modules is a function from addresses to the image loaded       *)
(* there, None where there is none: poll compares modules by base address. *)
(* One thread polls at a time, as module_monitor.hpp asks.                 *)
(***************************************************************************)
EXTENDS Naturals

CONSTANTS
  Bases,       \* addresses at which a module can be loaded
  Images,      \* the module files that can be loaded
  None,        \* no module
  MaxChanges   \* bound: how often the process changes its modules

ASSUME ModulesAssumption == None \notin Images
ASSUME MaxChangesAssumption == MaxChanges \in Nat

VARIABLES
  target,    \* the modules of the process
  changes,   \* how often target changed
  phase,     \* where poll() is: "idle", "loaded" or "unloaded" signals
  latest,    \* latestModules, the enumeration of the poll in progress
  pending,   \* the addresses the signal of this phase is still to report
  current,   \* currentModules_
  view       \* the client's own picture, built from the events alone

vars == <<target, changes, phase, latest, pending, current, view>>

ModuleSets == [Bases -> Images \union {None}]
NoModules == [b \in Bases |-> None]
At(modules) == {b \in Bases : modules[b] # None}

TypeOK ==
  /\ target \in ModuleSets
  /\ changes \in 0..MaxChanges
  /\ phase \in {"idle", "loaded", "unloaded"}
  /\ latest \in ModuleSets
  /\ pending \in SUBSET Bases
  /\ current \in ModuleSets
  /\ view \in ModuleSets

Init ==
  /\ target \in ModuleSets
  /\ changes = 0
  /\ phase = "idle"
  /\ latest = NoModules
  /\ pending = {}
  /\ current = NoModules
  /\ view = NoModules

-----------------------------------------------------------------------------
(* The process loads, unloads or replaces the module at an address.        *)
TargetChanges(b) ==
  /\ changes < MaxChanges
  /\ changes' = changes + 1
  /\ \E image \in (Images \union {None}) \ {target[b]} :
       target' = [target EXCEPT ![b] = image]
  /\ UNCHANGED <<phase, latest, pending, current, view>>

(* Mutant: an enumeration that replaces the previous set before the diff.  *)
PollEnumerates_CommitsFirst ==
  /\ phase = "idle"
  /\ latest' = target
  /\ current' = target
  /\ pending' = At(target) \ At(current)
  /\ phase' = "loaded"
  /\ UNCHANGED <<target, changes, view>>

(* Mutant: a diff that reports every module found, known or not.           *)
PollEnumerates_NoDiff ==
  /\ phase = "idle"
  /\ latest' = target
  /\ pending' = At(target)
  /\ phase' = "loaded"
  /\ UNCHANGED <<target, changes, current, view>>

(* The enumeration succeeds.                                               *)
PollEnumerates ==
  /\ phase = "idle"
  /\ latest' = target
  /\ pending' = At(target) \ At(current)
  /\ phase' = "loaded"
  /\ UNCHANGED <<target, changes, current, view>>

(* Mutant: a failed enumeration taken for an empty process.                *)
PollFails_ForgetsModules ==
  /\ phase = "idle"
  /\ current' = NoModules
  /\ UNCHANGED <<target, changes, phase, latest, pending, view>>

(* The enumeration of modules or of regions fails: poll() returns the      *)
(* error and keeps what it knew.                                           *)
PollFails ==
  /\ phase = "idle"
  /\ UNCHANGED vars

(* onModuleLoaded.emit(module) for the next new address.                   *)
EmitLoaded(b) ==
  /\ phase = "loaded"
  /\ b \in pending
  /\ pending' = pending \ {b}
  /\ view' = [view EXCEPT ![b] = latest[b]]
  /\ UNCHANGED <<target, changes, phase, latest, current>>

LoadedReported ==
  /\ phase = "loaded"
  /\ pending = {}
  /\ pending' = At(current) \ At(latest)
  /\ phase' = "unloaded"
  /\ UNCHANGED <<target, changes, latest, current, view>>

(* onModuleUnloaded.emit(module) for the next address gone.                *)
EmitUnloaded(b) ==
  /\ phase = "unloaded"
  /\ b \in pending
  /\ pending' = pending \ {b}
  /\ view' = [view EXCEPT ![b] = None]
  /\ UNCHANGED <<target, changes, phase, latest, current>>

(* Mutant: the new set is enumerated afresh instead of moved.              *)
PollReturns_ReadsAgain ==
  /\ phase = "unloaded"
  /\ pending = {}
  /\ current' = target
  /\ latest' = NoModules
  /\ phase' = "idle"
  /\ UNCHANGED <<target, changes, pending, view>>

(* currentModules_ takes over latestModules, and poll() succeeds.          *)
PollReturns ==
  /\ phase = "unloaded"
  /\ pending = {}
  /\ current' = latest
  /\ latest' = NoModules
  /\ phase' = "idle"
  /\ UNCHANGED <<target, changes, pending, view>>

-----------------------------------------------------------------------------
Reporting ==
  \/ LoadedReported
  \/ PollReturns
  \/ \E b \in Bases : EmitLoaded(b) \/ EmitUnloaded(b)

Next ==
  \/ \E b \in Bases : TargetChanges(b)
  \/ PollEnumerates
  \/ PollFails
  \/ Reporting

Spec == Init /\ [][Next]_vars

(* ProcessMonitor's loop polls again and again and every poll runs to its  *)
(* end; an enumeration does not fail for ever.                             *)
Fairness ==
  /\ WF_vars(Reporting)
  /\ WF_vars(PollEnumerates)

FairSpec == Spec /\ Fairness

-----------------------------------------------------------------------------
(* Properties *)

(* Between polls a client that follows the events knows exactly the        *)
(* addresses of currentModules(), whatever changed and whichever polls     *)
(* failed in between.                                                      *)
FollowerAgrees == phase = "idle" => At(view) = At(current)

(* No module is reported loaded twice, or unloaded without having been     *)
(* reported loaded: the client's own picture says so at each event.        *)
NoRepeatedEvent ==
  [][\A b \in Bases : /\ EmitLoaded(b) => view[b] = None
                      /\ EmitUnloaded(b) => view[b] # None]_vars

(* Once the process stops changing, the client comes to know the addresses *)
(* of all its modules, and only those.                                     *)
FollowerCatchesUp == <>[](At(view) = At(target))

(* The difference a poll reports is any difference from the previous poll  *)
(* (module_monitor.hpp:45-48): the client knows which image is where.      *)
FollowerKnowsImages == phase = "idle" => view = current

Feed == INSTANCE ModuleFeed WITH
  loaded <- At(target),
  picture <- IF phase = "idle" THEN At(current) ELSE At(latest),
  known <- At(view)

(* The events of the monitor keep the promise of ModuleFeed.               *)
FeedSpec == Feed!Spec

(* What every step preserves: the events still to come are exactly those   *)
(* that separate the client's picture from the enumeration.                *)
IdleInv ==
  phase = "idle" => pending = {} /\ At(view) = At(current)

LoadedInv ==
  phase = "loaded" =>
    /\ pending = At(latest) \ At(view)
    /\ At(current) \subseteq At(view)
    /\ At(view) \subseteq At(current) \union At(latest)

UnloadedInv ==
  phase = "unloaded" =>
    /\ pending = At(view) \ At(latest)
    /\ At(latest) \subseteq At(view)

PollInv ==
  /\ TypeOK
  /\ IdleInv
  /\ LoadedInv
  /\ UnloadedInv
=============================================================================
