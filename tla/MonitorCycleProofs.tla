------------------------- MODULE MonitorCycleProofs -------------------------
(***************************************************************************)
(* Proofs about MonitorCycle: when the listener does not throw, every      *)
(* cycle leaves the connections, the client's books and the phases it      *)
(* performed as they should be, whatever is set and however the target     *)
(* changes meanwhile.                                                      *)
(*                                                                         *)
(* The invariant is preserved phase by phase: one lemma for each, one step *)
(* for each action.                                                        *)
(***************************************************************************)
EXTENDS MonitorCycle, TLAPS

LEMMA Bounds == MaxFound \in Nat /\ MaxSlots \in Nat
  BY BoundsAssumption

USE Bounds

(* A listener that does not throw: runOnce is left by its end alone        *)
(* (process_monitor.cpp:57-71).                                            *)
Quiet == ~MayThrow

LEMMA CycleInit == Init => CycleInv
<1> SUFFICES ASSUME Init
             PROVE  CycleInv
  OBVIOUS
<1>1. TypeOK
  <2>1. heard \in [Bases -> (-MaxSlots)..MaxSlots]
    BY DEF Init
  <2>2. performed \in SUBSET Phases
    BY DEF Init
  <2>3. 0 \in 0..MaxFound /\ 0 \in 0..MaxSlots
    OBVIOUS
  <2> QED BY <2>1, <2>2, <2>3, Zenon DEF Init, TypeOK
<1>2. SlotsInv
  BY DEF Init, SlotsInv
<1>3. BooksInv
  BY DEF Init, BooksInv, Told
<1>4. PhaseInv
  BY DEF Init, PhaseInv
<1> QED BY <1>1, <1>2, <1>3, <1>4 DEF CycleInv

LEMMA CycleAround ==
  ASSUME CycleInv, Around \/ CycleBegins
  PROVE  CycleInv'
<1> USE DEF CycleInv, TypeOK, SlotsInv, BooksInv, Told, PhaseInv, Had, Phases
<1>1. CASE SetConfig
  BY <1>1 DEF SetConfig, scanVars, pollVars, slotVars
<1>2. CASE SetBaseline
  BY <1>2 DEF SetBaseline, scanVars, pollVars, slotVars
<1>3. CASE TargetChanges
  BY <1>3 DEF TargetChanges, settings, scanVars, pollVars, slotVars, history
<1>4. CASE CycleBegins
  BY <1>4 DEF CycleBegins, Step, settings, scanVars, pollVars, slotVars
<1> QED BY <1>1, <1>2, <1>3, <1>4 DEF Around

LEMMA CycleIntegrity ==
  ASSUME CycleInv, Quiet, IntegrityPhase
  PROVE  CycleInv'
<1> USE DEF CycleInv, TypeOK, SlotsInv, BooksInv, Told, PhaseInv, Had, Phases,
        Step, Performs, Verifying, settings, scanVars, pollVars, slotVars, history
<1>1. CASE IntegritySkipped
  BY <1>1 DEF IntegritySkipped
<1>2. CASE IntegrityFails
  BY <1>2 DEF IntegrityFails
<1>3. CASE IntegrityVerifies
  BY <1>3 DEF IntegrityVerifies
<1>4. CASE EmitViolation
  <2>1. /\ pc = "violations" /\ left > 0
        /\ left' = left - 1
        /\ UNCHANGED <<settings, pc, toScan, modules, pollVars, slotVars, heard, history>>
    BY <1>4, Zenon DEF EmitViolation, Throws, Quiet
  <2> QED BY <2>1
<1>5. CASE ViolationsEmitted
  BY <1>5 DEF ViolationsEmitted
<1> QED BY <1>1, <1>2, <1>3, <1>4, <1>5 DEF IntegrityPhase

LEMMA CycleHooks ==
  ASSUME CycleInv, Quiet, HookPhase
  PROVE  CycleInv'
<1> USE DEF CycleInv, TypeOK, SlotsInv, BooksInv, Told, PhaseInv, Had, Phases,
        Step, Performs, settings, scanVars, pollVars, slotVars, history
<1>1. CASE HooksSkipped
  BY <1>1 DEF HooksSkipped
<1>2. CASE HooksCannotEnumerate
  BY <1>2 DEF HooksCannotEnumerate
<1>3. CASE HooksEnumerate
  BY <1>3 DEF HooksEnumerate
<1>4. CASE EmitFinding
  <2>1. /\ pc = "findings" /\ left > 0
        /\ left' = left - 1
        /\ UNCHANGED <<settings, pc, toScan, modules, pollVars, slotVars, heard, history>>
    BY <1>4, Zenon DEF EmitFinding, Throws, Quiet
  <2> QED BY <2>1
<1>5. CASE FindingsEmitted
  BY <1>5 DEF FindingsEmitted
<1>6. CASE ScanDone
  BY <1>6 DEF ScanDone
<1>7. ASSUME NEW b \in Bases, ScanModule(b)
      PROVE  CycleInv'
  BY <1>7 DEF ScanModule
<1> QED BY <1>1, <1>2, <1>3, <1>4, <1>5, <1>6, <1>7 DEF HookPhase

LEMMA CycleModules ==
  ASSUME CycleInv, Quiet, ModulePhase
  PROVE  CycleInv'
<1> USE DEF CycleInv, TypeOK, SlotsInv, BooksInv, Told, PhaseInv, Had, Phases,
        Step, Performs, settings, scanVars, pollVars, slotVars, history
<1>1. CASE ModulesSkipped
  BY <1>1 DEF ModulesSkipped
<1>2. CASE ModulesConnect
  BY <1>2 DEF ModulesConnect
<1>3. CASE PollFails
  BY <1>3 DEF PollFails
<1>4. CASE PollEnumerates
  BY <1>4 DEF PollEnumerates
<1>5. CASE LoadedReported
  BY <1>5 DEF LoadedReported
<1>6. CASE PollReturns
  BY <1>6 DEF PollReturns
<1>7. CASE ModulesDisconnect
  BY <1>7 DEF ModulesDisconnect
<1>8. ASSUME NEW b \in Bases, EmitLoaded(b)
      PROVE  CycleInv'
  <2>1. /\ pc = "loaded" /\ b \in pending
        /\ Hears(b, 1)
        /\ Reported(b)
    BY <1>8 DEF EmitLoaded, Throws, Quiet
  <2>2. TypeOK' /\ SlotsInv' /\ PhaseInv'
    BY <2>1 DEF Hears, Reported
  <2>3. \A c \in Bases : heard'[c] = IF c = b THEN heard[b] + 1 ELSE heard[c]
    BY <2>1 DEF Hears
  <2>4. Told' = Told \union {b} /\ b \notin Told
    BY <2>1 DEF Reported
  <2>5. BooksInv'
    BY <2>1, <2>3, <2>4 DEF Reported
  <2> QED BY <2>2, <2>5
<1>9. ASSUME NEW b \in Bases, EmitUnloaded(b)
      PROVE  CycleInv'
  <2>1. /\ pc = "unloaded" /\ b \in pending
        /\ Hears(b, -1)
        /\ Reported(b)
    BY <1>9 DEF EmitUnloaded, Throws, Quiet
  <2>2. TypeOK' /\ SlotsInv' /\ PhaseInv'
    BY <2>1 DEF Hears, Reported
  <2>3. \A c \in Bases : heard'[c] = IF c = b THEN heard[b] - 1 ELSE heard[c]
    BY <2>1 DEF Hears
  <2>4. Told' = Told \ {b} /\ b \in Told
    BY <2>1 DEF Reported
  <2>5. BooksInv'
    BY <2>1, <2>3, <2>4 DEF Reported
  <2> QED BY <2>2, <2>5
<1> QED BY <1>1, <1>2, <1>3, <1>4, <1>5, <1>6, <1>7, <1>8, <1>9 DEF ModulePhase

(* At every point of every cycle the connections, the client's books and   *)
(* the phases performed are those of that point                            *)
(* (process_monitor.cpp:57-151).                                           *)
THEOREM CycleInvariant == Quiet => (Spec => []CycleInv)
<1> SUFFICES ASSUME Quiet
             PROVE  Spec => []CycleInv
  OBVIOUS
<1>1. ASSUME CycleInv, [Next]_vars
      PROVE  CycleInv'
  <2>1. CASE UNCHANGED vars
    BY <1>1, <2>1 DEF vars, settings, scanVars, pollVars, slotVars, history,
       CycleInv, TypeOK, SlotsInv, BooksInv, Told, PhaseInv, Had
  <2>2. CASE Next
    BY <1>1, <2>2, CycleAround, CycleIntegrity, CycleHooks, CycleModules
       DEF Next, CycleStep
  <2> QED BY <1>1, <2>1, <2>2
<1> QED BY <1>1, CycleInit, PTL DEF Spec

(* Between cycles the client's books agree with the monitor's view of the  *)
(* modules: no event was lost or delivered twice                           *)
(* (process_monitor.cpp:119-150).                                          *)
THEOREM BooksStayRight == Quiet => (Spec => [](BooksAreRight /\ OneCopyPerEvent))
<1>1. CycleInv => BooksAreRight /\ OneCopyPerEvent
  BY DEF CycleInv, SlotsInv, BooksInv, Told, BooksAreRight, OneCopyPerEvent
<1> QED BY <1>1, CycleInvariant, PTL

(* A cycle in which nothing was set performs every enabled phase, whatever *)
(* fails on the way (process_monitor.cpp:57-71).                           *)
THEOREM NoPhaseIsLost == Quiet => (Spec => []EnabledPhasesPerformed)
<1>1. CycleInv => EnabledPhasesPerformed
  BY DEF CycleInv, TypeOK, PhaseInv, Had, Phases, EnabledPhasesPerformed
<1> QED BY <1>1, CycleInvariant, PTL
=============================================================================
