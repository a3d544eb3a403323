---------------------------- MODULE MonitorCycle ----------------------------
(***************************************************************************)
(* One ProcessMonitor::runOnce after another                               *)
(* (src/process/process_monitor.cpp:57-151): verify, scan for hooks, poll  *)
(* the modules, each phase if it is enabled when its turn comes, each      *)
(* event handed to the client's onEvent listener on the way.  Cycles take  *)
(* turns, as runOnce asks; setConfig and setBaseline come at any time      *)
(* between two steps, from another thread or from the listener.            *)
(*                                                                         *)
(* What a phase finds is left open here: Integrity and ModuleMonitor say   *)
(* what verify() and poll() report.                                        *)
(***************************************************************************)
EXTENDS Integers

CONSTANTS
  Bases,      \* addresses at which a module can be loaded
  MaxFound,   \* bound: findings of one verification or of one module's scan
  MaxSlots,   \* bound: connections to a signal, and copies heard of an event
  MayThrow    \* may the listener throw?

ASSUME BoundsAssumption == {MaxFound, MaxSlots} \subseteq Nat
ASSUME MayThrowAssumption == MayThrow \in BOOLEAN

VARIABLES
  config,         \* the phases that config_ enables
  baseline,       \* has a baseline been installed?
  pc,             \* the step of runOnce that is next
  left,           \* findings this phase has still to emit
  toScan,         \* modules the hook scan has still to scan
  modules,        \* the addresses of the target's modules
  latest,         \* the enumeration of the poll in progress
  known,          \* moduleMonitor_.currentModules()
  pending,        \* the addresses the poll has still to report
  loadedSlots,    \* how many connections onModuleLoaded has
  unloadedSlots,  \* how many connections onModuleUnloaded has
  heard,          \* the client's books: loads less unloads heard, per address
  atStart,        \* history: config when this cycle began
  steadily,       \* history: has nothing been set since this cycle began?
  performed       \* history: the phases this cycle has performed

settings == <<config, baseline>>
scanVars == <<left, toScan>>
pollVars == <<latest, known, pending>>
slotVars == <<loadedSlots, unloadedSlots>>
history  == <<atStart, steadily, performed>>
vars == <<settings, pc, scanVars, modules, pollVars, slotVars, heard, history>>

Phases == {"integrity", "hooks", "modules"}

TypeOK ==
  /\ config \in SUBSET Phases
  /\ baseline \in BOOLEAN
  /\ pc \in {"idle", "integrity", "violations", "hooks", "scan", "findings",
             "modules", "poll", "loaded", "unloaded", "disconnect"}
  /\ left \in 0..MaxFound
  /\ toScan \in SUBSET Bases
  /\ modules \in SUBSET Bases
  /\ latest \in SUBSET Bases
  /\ known \in SUBSET Bases
  /\ pending \in SUBSET Bases
  /\ loadedSlots \in 0..MaxSlots
  /\ unloadedSlots \in 0..MaxSlots
  /\ heard \in [Bases -> (-MaxSlots)..MaxSlots]
  /\ atStart \in SUBSET Phases
  /\ steadily \in BOOLEAN
  /\ performed \in SUBSET Phases

Init ==
  /\ config \in SUBSET Phases
  /\ baseline = FALSE
  /\ pc = "idle"
  /\ left = 0
  /\ toScan = {}
  /\ modules \in SUBSET Bases
  /\ latest = {}
  /\ known = {}
  /\ pending = {}
  /\ loadedSlots = 0
  /\ unloadedSlots = 0
  /\ heard = [b \in Bases |-> 0]
  /\ atStart = config
  /\ steadily = FALSE
  /\ performed = {}

Step(from, to) == pc = from /\ pc' = to
Performs(phase) == performed' = performed \union {phase} /\ UNCHANGED <<atStart, steadily>>

-----------------------------------------------------------------------------
(* Around the cycle *)

SetConfig ==
  /\ config' \in SUBSET Phases \ {config}
  /\ steadily' = FALSE
  /\ UNCHANGED <<baseline, pc, scanVars, modules, pollVars, slotVars, heard,
                 atStart, performed>>

SetBaseline ==
  /\ ~baseline
  /\ baseline' = TRUE
  /\ steadily' = FALSE
  /\ UNCHANGED <<config, pc, scanVars, modules, pollVars, slotVars, heard,
                 atStart, performed>>

TargetChanges ==
  /\ modules' \in SUBSET Bases \ {modules}
  /\ UNCHANGED <<settings, pc, scanVars, pollVars, slotVars, heard, history>>

CycleBegins ==
  /\ Step("idle", "integrity")
  /\ atStart' = config
  /\ steadily' = TRUE
  /\ performed' = {}
  /\ UNCHANGED <<settings, scanVars, modules, pollVars, slotVars, heard>>

(* An exception of the listener leaves emit(), the phase and runOnce: what *)
(* comes after in the cycle is not done.                                   *)
Throws ==
  /\ MayThrow
  /\ pc' = "idle"
  /\ left' = 0
  /\ toScan' = {}
  /\ latest' = {}
  /\ pending' = {}
  /\ UNCHANGED <<settings, modules, known, slotVars, history>>

-----------------------------------------------------------------------------
(* runIntegrityCheckCycle *)

Verifying == "integrity" \in config /\ baseline

IntegritySkipped ==
  /\ ~Verifying
  /\ Step("integrity", "hooks")
  /\ UNCHANGED <<settings, scanVars, modules, pollVars, slotVars, heard, history>>

(* Mutant: a failed verification ends the cycle.                           *)
IntegrityFails_EndsCycle ==
  /\ Verifying
  /\ Step("integrity", "idle")
  /\ Performs("integrity")
  /\ UNCHANGED <<settings, scanVars, modules, pollVars, slotVars, heard>>

IntegrityFails ==
  /\ Verifying
  /\ Step("integrity", "hooks")
  /\ Performs("integrity")
  /\ UNCHANGED <<settings, scanVars, modules, pollVars, slotVars, heard>>

IntegrityVerifies ==
  /\ Verifying
  /\ Step("integrity", "violations")
  /\ left' \in 0..MaxFound
  /\ Performs("integrity")
  /\ UNCHANGED <<settings, toScan, modules, pollVars, slotVars, heard>>

EmitViolation ==
  /\ pc = "violations"
  /\ left > 0
  /\ \/ left' = left - 1 /\ UNCHANGED <<settings, pc, toScan, modules, pollVars, slotVars, history>>
     \/ Throws
  /\ UNCHANGED heard

ViolationsEmitted ==
  /\ left = 0
  /\ Step("violations", "hooks")
  /\ UNCHANGED <<settings, scanVars, modules, pollVars, slotVars, heard, history>>

-----------------------------------------------------------------------------
(* runHookDetectionCycle *)

HooksSkipped ==
  /\ "hooks" \notin config
  /\ Step("hooks", "modules")
  /\ UNCHANGED <<settings, scanVars, modules, pollVars, slotVars, heard, history>>

HooksCannotEnumerate ==
  /\ "hooks" \in config
  /\ Step("hooks", "modules")
  /\ Performs("hooks")
  /\ UNCHANGED <<settings, scanVars, modules, pollVars, slotVars, heard>>

HooksEnumerate ==
  /\ "hooks" \in config
  /\ Step("hooks", "scan")
  /\ toScan' = modules
  /\ Performs("hooks")
  /\ UNCHANGED <<settings, left, modules, pollVars, slotVars, heard>>

(* scanAll of one module: its findings, or an error that is skipped.       *)
ScanModule(b) ==
  /\ b \in toScan
  /\ Step("scan", "findings")
  /\ toScan' = toScan \ {b}
  /\ left' \in 0..MaxFound
  /\ UNCHANGED <<settings, modules, pollVars, slotVars, heard, history>>

EmitFinding ==
  /\ pc = "findings"
  /\ left > 0
  /\ \/ left' = left - 1 /\ UNCHANGED <<settings, pc, toScan, modules, pollVars, slotVars, history>>
     \/ Throws
  /\ UNCHANGED heard

FindingsEmitted ==
  /\ left = 0
  /\ Step("findings", "scan")
  /\ UNCHANGED <<settings, scanVars, modules, pollVars, slotVars, heard, history>>

ScanDone ==
  /\ toScan = {}
  /\ Step("scan", "modules")
  /\ UNCHANGED <<settings, scanVars, modules, pollVars, slotVars, heard, history>>

-----------------------------------------------------------------------------
(* runModuleMonitoringCycle *)

ModulesSkipped ==
  /\ "modules" \notin config
  /\ Step("modules", "idle")
  /\ UNCHANGED <<settings, scanVars, modules, pollVars, slotVars, heard, history>>

ModulesConnect ==
  /\ "modules" \in config
  /\ loadedSlots < MaxSlots /\ unloadedSlots < MaxSlots
  /\ Step("modules", "poll")
  /\ loadedSlots' = loadedSlots + 1
  /\ unloadedSlots' = unloadedSlots + 1
  /\ Performs("modules")
  /\ UNCHANGED <<settings, scanVars, modules, pollVars, heard>>

PollFails ==
  /\ Step("poll", "disconnect")
  /\ UNCHANGED <<settings, scanVars, modules, pollVars, slotVars, heard, history>>

PollEnumerates ==
  /\ Step("poll", "loaded")
  /\ latest' = modules
  /\ pending' = modules \ known
  /\ UNCHANGED <<settings, scanVars, modules, known, slotVars, heard, history>>

(* One copy of the event for each connection.                              *)
Hears(b, copies) ==
  /\ heard[b] + copies \in (-MaxSlots)..MaxSlots
  /\ heard' = [heard EXCEPT ![b] = @ + copies]

Reported(b) ==
  /\ pending' = pending \ {b}
  /\ UNCHANGED <<settings, pc, scanVars, modules, latest, known, slotVars, history>>

(* A throw comes after some of the copies: emit() gives up the rest.        *)
EmitLoaded(b) ==
  /\ pc = "loaded"
  /\ b \in pending
  /\ \/ Hears(b, loadedSlots) /\ Reported(b)
     \/ \E copies \in 1..loadedSlots : Hears(b, copies) /\ Throws

LoadedReported ==
  /\ pending = {}
  /\ Step("loaded", "unloaded")
  /\ pending' = known \ latest
  /\ UNCHANGED <<settings, scanVars, modules, latest, known, slotVars, heard, history>>

EmitUnloaded(b) ==
  /\ pc = "unloaded"
  /\ b \in pending
  /\ \/ Hears(b, -unloadedSlots) /\ Reported(b)
     \/ \E copies \in 1..unloadedSlots : Hears(b, -copies) /\ Throws

PollReturns ==
  /\ pending = {}
  /\ Step("unloaded", "disconnect")
  /\ known' = latest
  /\ latest' = {}
  /\ UNCHANGED <<settings, scanVars, modules, pending, slotVars, heard, history>>

(* Mutant: one of the two connections is left behind.                      *)
ModulesDisconnect_OnlyLoaded ==
  /\ Step("disconnect", "idle")
  /\ loadedSlots' = loadedSlots - 1
  /\ UNCHANGED <<settings, scanVars, modules, pollVars, unloadedSlots, heard, history>>

ModulesDisconnect ==
  /\ Step("disconnect", "idle")
  /\ loadedSlots' = loadedSlots - 1
  /\ unloadedSlots' = unloadedSlots - 1
  /\ UNCHANGED <<settings, scanVars, modules, pollVars, heard, history>>

-----------------------------------------------------------------------------
IntegrityPhase ==
  IntegritySkipped \/ IntegrityFails \/ IntegrityVerifies \/ EmitViolation \/ ViolationsEmitted
HookPhase ==
  \/ HooksSkipped \/ HooksCannotEnumerate \/ HooksEnumerate
  \/ EmitFinding \/ FindingsEmitted \/ ScanDone
  \/ \E b \in Bases : ScanModule(b)
ModulePhase ==
  \/ ModulesSkipped \/ ModulesConnect \/ PollFails \/ PollEnumerates
  \/ LoadedReported \/ PollReturns \/ ModulesDisconnect
  \/ \E b \in Bases : EmitLoaded(b) \/ EmitUnloaded(b)
Around == SetConfig \/ SetBaseline \/ TargetChanges

CycleStep == CycleBegins \/ IntegrityPhase \/ HookPhase \/ ModulePhase

Next == Around \/ CycleStep

Spec == Init /\ [][Next]_vars

(* The background loop begins cycle after cycle, and a cycle that has      *)
(* begun goes on: no phase waits for anything.                             *)
FairSpec == Spec /\ WF_vars(CycleStep)

-----------------------------------------------------------------------------
(* Properties *)

(* A client that keeps books of the module events heard is right between   *)
(* cycles: each load and each unload reached it exactly once, though the   *)
(* signals are connected and disconnected in every cycle                   *)
(* (process_monitor.cpp:119-150) and the target changes during the poll.   *)
BooksAreRight ==
  pc = "idle" => \A b \in Bases : heard[b] = IF b \in known THEN 1 ELSE 0

(* "listeners are not duplicated across cycles"                            *)
(* (process_monitor.cpp:120-122): while poll() reports, each of the two    *)
(* signals has one connection, so each event is delivered once.            *)
OneCopyPerEvent ==
  pc \in {"loaded", "unloaded"} => loadedSlots = 1 /\ unloadedSlots = 1

(* A phase that fails does not cost the cycle the others                   *)
(* (process_monitor.cpp:57-71): a cycle in which nothing was set has       *)
(* performed all that was enabled.                                         *)
EnabledPhasesPerformed ==
  pc = "idle" /\ steadily =>
    performed = IF baseline THEN atStart ELSE atStart \ {"integrity"}

(* setConfig "takes effect starting from the next cycle"                   *)
(* (process_monitor.hpp:121): a cycle performs no phase that was not       *)
(* enabled when it began.                                                  *)
CycleUsesOneConfig == performed \subseteq atStart

(* The loop comes back to poll the modules again and again while that      *)
(* phase is enabled: no failure of any phase stops monitoring for good     *)
(* (process_monitor.cpp:46-71).                                            *)
PollsRecur == [](<>(pc = "poll") \/ <>("modules" \notin config))

-----------------------------------------------------------------------------
(* Why they hold when the listener does not throw *)

(* The two connections last from ModulesConnect to ModulesDisconnect.      *)
SlotsInv ==
  LET slots == IF pc \in {"poll", "loaded", "unloaded", "disconnect"} THEN 1 ELSE 0
  IN  loadedSlots = slots /\ unloadedSlots = slots

(* The modules the client has been told of and not told the end of.        *)
Told == IF pc = "loaded" THEN (known \union latest) \ pending
        ELSE IF pc = "unloaded" THEN latest \union pending
        ELSE known

BooksInv ==
  /\ \A b \in Bases : heard[b] = IF b \in Told THEN 1 ELSE 0
  /\ pc = "loaded" => pending \subseteq latest \ known
  /\ pc = "unloaded" => pending \subseteq known \ latest

(* The phases whose turn is over.                                          *)
Had == IF pc = "integrity" THEN {}
       ELSE IF pc \in {"violations", "hooks"} THEN {"integrity"}
       ELSE IF pc \in {"scan", "findings", "modules"} THEN {"integrity", "hooks"}
       ELSE Phases

PhaseInv ==
  steadily =>
    /\ atStart = config
    /\ performed = (IF baseline THEN config ELSE config \ {"integrity"}) \intersect Had

(* What every step preserves: at every point of a cycle the connections,   *)
(* the client's books and the phases performed are those of that point     *)
(* (process_monitor.cpp:57-151).                                           *)
CycleInv == TypeOK /\ SlotsInv /\ BooksInv /\ PhaseInv
=============================================================================
