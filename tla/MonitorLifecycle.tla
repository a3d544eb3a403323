-------------------------- MODULE MonitorLifecycle --------------------------
(***************************************************************************)
(* The life of a ProcessMonitor and of its background thread               *)
(* (src/process/process_monitor.cpp:11-55): construction, start(), stop(), *)
(* backgroundLoop() and the destructor.  Each access to running_,          *)
(* stopRequested_ or workerThread_ is a step of its own, so calls of       *)
(* different threads interleave between any two of them.                   *)
(*                                                                         *)
(* The contents of a cycle (runOnce) are modelled in MonitorCycle; here a  *)
(* cycle only begins, may run listeners that call back, and ends.          *)
(***************************************************************************)
EXTENDS Naturals, FiniteSets

CONSTANTS
  Callers,          \* client threads that own or share the monitor
  Threads,          \* identities of background threads; bounds the live ones
  None,             \* an std::thread that represents no thread
  MayOverlap,       \* may calls of different clients overlap?
  ListenersMayCall, \* may an onEvent listener call start() and stop()?
  SpawnMayFail      \* may the std::thread constructor throw?

ASSUME ActorsAssumption ==
  /\ Callers \intersect Threads = {}
  /\ None \notin Callers \union Threads
ASSUME OptionsAssumption ==
  {MayOverlap, ListenersMayCall, SpawnMayFail} \subseteq BOOLEAN

VARIABLES
  life,           \* of the object: "alive", "dying" (in its destructor), "dead"
  running,        \* running_
  stopRequested,  \* stopRequested_
  workerThread,   \* workerThread_: the thread it represents, None if not joinable
  pc,             \* [Actors -> where in start(), stop() or ~ProcessMonitor()]
  made,           \* [Actors -> the temporary std::thread of start()]
  loop,           \* [Threads -> where in backgroundLoop()]
  fault           \* "none", "exception" (one left stop()), "terminate"

vars == <<life, running, stopRequested, workerThread, pc, made, loop, fault>>

Actors == Callers \union Threads

InStart == {"start_reset", "start_spawn", "start_assign"}
InStop  == {"stop_joinable", "stop_join", "stop_joining", "stop_clear"}
InDtor  == {"dtor_members"}
Live    == {"check", "cycle", "sleep"}

TypeOK ==
  /\ life \in {"alive", "dying", "dead"}
  /\ running \in BOOLEAN
  /\ stopRequested \in BOOLEAN
  /\ workerThread \in Threads \union {None}
  /\ pc \in [Actors -> {"idle"} \union InStart \union InStop \union InDtor]
  /\ made \in [Actors -> Threads \union {None}]
  /\ loop \in [Threads -> {"unborn", "exited"} \union Live]
  /\ fault \in {"none", "exception", "terminate"}

-----------------------------------------------------------------------------
(* ProcessMonitor(): running_ and stopRequested_ start false and           *)
(* workerThread_ represents no thread.                                     *)
Constructed ==
  /\ life' = "alive"
  /\ running' = FALSE
  /\ stopRequested' = FALSE
  /\ workerThread' = None

Init ==
  /\ life = "alive"
  /\ running = FALSE
  /\ stopRequested = FALSE
  /\ workerThread = None
  /\ pc = [a \in Actors |-> "idle"]
  /\ made = [a \in Actors |-> None]
  /\ loop = [t \in Threads |-> "unborn"]
  /\ fault = "none"

(* After std::terminate no thread takes a step.                            *)
At(a, label)     == fault # "terminate" /\ pc[a] = label
LoopAt(t, label) == fault # "terminate" /\ loop[t] = label
Goto(a, label)   == pc' = [pc EXCEPT ![a] = label]

(* A client may begin a call on a living monitor, alone unless calls may   *)
(* overlap; a background thread may only from a listener that its cycle    *)
(* runs, which the destructor waits for.                                   *)
MayBegin(a) ==
  /\ At(a, "idle")
  /\ IF a \in Threads
     THEN ListenersMayCall /\ life # "dead" /\ loop[a] = "cycle"
     ELSE life = "alive" /\ (MayOverlap \/ \A b \in Callers : pc[b] = "idle")

Construct(c) ==
  /\ At(c, "idle")
  /\ life = "dead"
  /\ Constructed
  /\ UNCHANGED <<pc, made, loop, fault>>

-----------------------------------------------------------------------------
(* start() *)

(* Mutant: start() without the early return.                               *)
StartExchange_NoEarlyReturn(a) ==
  /\ MayBegin(a)
  /\ running' = TRUE
  /\ Goto(a, "start_reset")
  /\ UNCHANGED <<life, stopRequested, workerThread, made, loop, fault>>

(* compare_exchange_strong(running_, false, true): returns at once when it *)
(* fails.                                                                  *)
StartExchange(a) ==
  /\ MayBegin(a)
  /\ running' = TRUE
  /\ IF running THEN UNCHANGED pc ELSE Goto(a, "start_reset")
  /\ UNCHANGED <<life, stopRequested, workerThread, made, loop, fault>>

(* Mutant: a restart that forgets to clear the last stop request.          *)
StartReset_KeepsRequest(a) ==
  /\ At(a, "start_reset")
  /\ Goto(a, "start_spawn")
  /\ UNCHANGED <<life, running, stopRequested, workerThread, made, loop, fault>>

StartReset(a) ==
  /\ At(a, "start_reset")
  /\ stopRequested' = FALSE
  /\ Goto(a, "start_spawn")
  /\ UNCHANGED <<life, running, workerThread, made, loop, fault>>

(* The std::thread constructor: the thread runs from here on, before       *)
(* workerThread_ knows of it.                                              *)
StartSpawn(a) ==
  /\ At(a, "start_spawn")
  /\ \E t \in Threads :
       /\ loop[t] = "unborn"
       /\ loop' = [loop EXCEPT ![t] = "check"]
       /\ made' = [made EXCEPT ![a] = t]
  /\ Goto(a, "start_assign")
  /\ UNCHANGED <<life, running, stopRequested, workerThread, fault>>

(* The std::thread constructor throws std::system_error: the exception     *)
(* leaves start() with running_ already true.                              *)
StartSpawnFails(a) ==
  /\ SpawnMayFail
  /\ At(a, "start_spawn")
  /\ fault' = IF a \in Threads THEN "terminate" ELSE fault
  /\ Goto(a, "idle")
  /\ UNCHANGED <<life, running, stopRequested, workerThread, made, loop>>

(* Mutant: a thread handle that is overwritten, its thread detached.       *)
StartAssign_Overwrites(a) ==
  /\ At(a, "start_assign")
  /\ workerThread' = made[a]
  /\ made' = [made EXCEPT ![a] = None]
  /\ Goto(a, "idle")
  /\ UNCHANGED <<life, running, stopRequested, loop, fault>>

(* Move assignment to workerThread_: std::terminate if it is joinable.     *)
StartAssign(a) ==
  /\ At(a, "start_assign")
  /\ IF workerThread = None
     THEN workerThread' = made[a] /\ UNCHANGED fault
     ELSE fault' = "terminate" /\ UNCHANGED workerThread
  /\ made' = [made EXCEPT ![a] = None]
  /\ Goto(a, "idle")
  /\ UNCHANGED <<life, running, stopRequested, loop>>

-----------------------------------------------------------------------------
(* stop() and ~ProcessMonitor() *)

StopRequest(a) ==
  /\ MayBegin(a)
  /\ stopRequested' = TRUE
  /\ Goto(a, "stop_joinable")
  /\ UNCHANGED <<life, running, workerThread, made, loop, fault>>

(* ~ProcessMonitor() calls stop().  C++ lets an object be destroyed only   *)
(* when no other client is still inside one of its members.                *)
Destroy(c) ==
  /\ At(c, "idle")
  /\ life = "alive"
  /\ \A b \in Callers : pc[b] = "idle"
  /\ life' = "dying"
  /\ stopRequested' = TRUE
  /\ Goto(c, "stop_joinable")
  /\ UNCHANGED <<running, workerThread, made, loop, fault>>

(* Mutant: stop() that does not wait for the thread.                       *)
StopJoinable_NoJoin(a) ==
  /\ At(a, "stop_joinable")
  /\ Goto(a, "stop_clear")
  /\ UNCHANGED <<life, running, stopRequested, workerThread, made, loop, fault>>

StopJoinable(a) ==
  /\ At(a, "stop_joinable")
  /\ Goto(a, IF workerThread # None THEN "stop_join" ELSE "stop_clear")
  /\ UNCHANGED <<life, running, stopRequested, workerThread, made, loop, fault>>

(* join() throws std::system_error when there is no thread to join, when   *)
(* the thread would join itself, or when another thread is joining it      *)
(* already (glibc answers EINVAL); else it blocks.  Thrown on a background *)
(* thread or in the destructor, the exception ends the process.            *)
StopJoin(a) ==
  /\ At(a, "stop_join")
  /\ \/ /\ workerThread \in {None, a} \/ \E b \in Actors : pc[b] = "stop_joining"
        /\ fault' = IF a \in Threads \/ life = "dying" THEN "terminate" ELSE "exception"
        /\ Goto(a, "idle")
     \/ /\ workerThread \notin {None, a}
        /\ \A b \in Actors : pc[b] # "stop_joining"
        /\ Goto(a, "stop_joining")
        /\ UNCHANGED fault
  /\ UNCHANGED <<life, running, stopRequested, workerThread, made, loop>>

(* join() returns when the thread has exited; its identity is free again.  *)
StopJoined(a) ==
  /\ At(a, "stop_joining")
  /\ loop[workerThread] = "exited"
  /\ loop' = [loop EXCEPT ![workerThread] = "unborn"]
  /\ workerThread' = None
  /\ Goto(a, "stop_clear")
  /\ UNCHANGED <<life, running, stopRequested, made, fault>>

(* Mutant: stop() that leaves running_ true.                               *)
StopClear_KeepsRunning(a) ==
  /\ At(a, "stop_clear")
  /\ Goto(a, IF a \in Callers /\ life = "dying" THEN "dtor_members" ELSE "idle")
  /\ UNCHANGED <<life, running, stopRequested, workerThread, made, loop, fault>>

(* stop() returns, to a listener, a client or the destructor: while a      *)
(* monitor is dying, the only client in a call is the one that destroys it.*)
StopClear(a) ==
  /\ At(a, "stop_clear")
  /\ running' = FALSE
  /\ Goto(a, IF a \in Callers /\ life = "dying" THEN "dtor_members" ELSE "idle")
  /\ UNCHANGED <<life, stopRequested, workerThread, made, loop, fault>>

(* The members are destroyed: ~thread() of a joinable workerThread_ calls  *)
(* std::terminate.                                                         *)
DestroyMembers(c) ==
  /\ At(c, "dtor_members")
  /\ life' = "dead"
  /\ fault' = IF workerThread = None THEN fault ELSE "terminate"
  /\ Goto(c, "idle")
  /\ UNCHANGED <<running, stopRequested, workerThread, made, loop>>

-----------------------------------------------------------------------------
(* backgroundLoop() *)

(* Mutant: a loop that never looks at the request.                         *)
LoopCheck_IgnoresRequest(t) ==
  /\ LoopAt(t, "check")
  /\ loop' = [loop EXCEPT ![t] = "cycle"]
  /\ UNCHANGED <<life, running, stopRequested, workerThread, pc, made, fault>>

LoopCheck(t) ==
  /\ LoopAt(t, "check")
  /\ loop' = [loop EXCEPT ![t] = IF stopRequested THEN "exited" ELSE "cycle"]
  /\ UNCHANGED <<life, running, stopRequested, workerThread, pc, made, fault>>

(* runOnce() returns, once the listeners it called have.                   *)
LoopCycle(t) ==
  /\ LoopAt(t, "cycle")
  /\ pc[t] = "idle"
  /\ loop' = [loop EXCEPT ![t] = "sleep"]
  /\ UNCHANGED <<life, running, stopRequested, workerThread, pc, made, fault>>

(* Mutant: a loop that begins its next cycle without a look at the request. *)
LoopSleep_NoCheck(t) ==
  /\ LoopAt(t, "sleep")
  /\ loop' = [loop EXCEPT ![t] = "cycle"]
  /\ UNCHANGED <<life, running, stopRequested, workerThread, pc, made, fault>>

(* sleep_for(config_.pollInterval): no stop request cuts it short.         *)
LoopSleep(t) ==
  /\ LoopAt(t, "sleep")
  /\ loop' = [loop EXCEPT ![t] = "check"]
  /\ UNCHANGED <<life, running, stopRequested, workerThread, pc, made, fault>>

-----------------------------------------------------------------------------
(* A call begins at the client's will; once begun, its steps are the       *)
(* thread's own.                                                           *)
Begin(a)     == StartExchange(a) \/ StopRequest(a)
StartStep(a) == StartReset(a) \/ StartSpawn(a) \/ StartSpawnFails(a) \/ StartAssign(a)
StopStep(a)  == StopJoinable(a) \/ StopJoin(a) \/ StopJoined(a) \/ StopClear(a)
               \/ DestroyMembers(a)
CallStep(a)  == StartStep(a) \/ StopStep(a)
Owner(c)     == Construct(c) \/ Destroy(c)
LoopStep(t)  == LoopCheck(t) \/ LoopCycle(t) \/ LoopSleep(t)

Next ==
  \/ \E a \in Actors : Begin(a) \/ CallStep(a)
  \/ \E c \in Callers : Owner(c)
  \/ \E t \in Threads : LoopStep(t)

Spec == Init /\ [][Next]_vars

(* The operating system schedules every thread that can run: a call that   *)
(* has begun goes on, and so does the loop.  No fairness on Begin, Owner:  *)
(* nobody has to call anything.                                            *)
Fairness ==
  /\ \A a \in Actors : WF_vars(CallStep(a))
  /\ \A t \in Threads : WF_vars(LoopStep(t))

FairSpec == Spec /\ Fairness

-----------------------------------------------------------------------------
(* Properties *)

Born == {t \in Threads : loop[t] # "unborn"}
Working == {t \in Threads : loop[t] \in Live}
Quiet == life = "alive" /\ \A a \in Actors : pc[a] = "idle"

(* start()/stop() manage exactly one background thread                     *)
(* (docs/guides/INTEGRATION_GUIDE.md:52): no two exist at a time, not even *)
(* while one start() has spawned its thread and not yet stored it.         *)
OneWorker == \A t, u \in Born : t = u

(* Between calls, isRunning() is true exactly when a background thread is  *)
(* at work (process_monitor.hpp:101).                                      *)
ActiveIffRunning == Quiet => (running <=> Working # {})

(* "stop() is always safe to call" (PROCESS_MONITOR.md:9): no sequence of  *)
(* calls throws out of stop() or ends the process.                         *)
NoFault == fault = "none"

(* No background thread is ever lost: workerThread_ or the temporary of a  *)
(* start() in progress represents it, unless the process is over.          *)
NoLostThread ==
  fault # "terminate" =>
    \A t \in Born : workerThread = t \/ \E a \in Actors : made[a] = t

(* The destructor leaves no background thread behind, whatever calls came  *)
(* before it (PROCESS_MONITOR.md:20).                                      *)
DeadIsQuiet == life = "dead" /\ fault # "terminate" => Born = {}

(* A call of stop(), once begun, returns: the background thread ends its   *)
(* cycle and its sleep, sees the request and exits.                        *)
StopReturns ==
  \A c \in Callers : pc[c] \in InStop ~> pc[c] = "idle" \/ fault = "terminate"

(* A start() that spawned a thread is followed by a cycle, unless a stop   *)
(* is requested first: a restart is not undone by the stop before it.      *)
StartMonitors ==
  \A c \in Callers :
    pc[c] = "start_assign" ~>
      \/ \E t \in Threads : loop[t] = "cycle"
      \/ \E d \in Callers : pc[d] \in InStop

(* What every step of serial calls preserves: where the one call in        *)
(* progress stands tells what the flags, the handle and the thread are.    *)
Calling == {c \in Callers : pc[c] # "idle"}
Asked(c) == pc[c] \in InStop \union InDtor

OneCall == \A b, c \in Calling : b = c
ListenersIdle == \A t \in Threads : pc[t] = "idle"

TemporaryInv ==
  /\ workerThread # None => workerThread \in Born
  /\ \A a \in Actors : made[a] # None <=> pc[a] = "start_assign"
  /\ \A a \in Actors : made[a] # None => made[a] \in Born

HandleInv ==
  /\ \A t \in Born : workerThread = t \/ \E c \in Callers : made[c] = t
  /\ TemporaryInv

CallInv == \A c \in Callers :
  /\ pc[c] # "idle" => life # "dead"
  /\ pc[c] \in InStart => running /\ workerThread = None /\ life = "alive"
  /\ pc[c] \in {"start_spawn", "start_assign"} => ~stopRequested
  /\ Asked(c) => stopRequested
  /\ pc[c] = "stop_joinable" => (workerThread # None => running)
  /\ pc[c] \in {"stop_join", "stop_joining"} => workerThread # None
  /\ pc[c] \in {"stop_clear", "dtor_members"} => workerThread = None
  /\ pc[c] = "dtor_members" => life = "dying" /\ ~running

QuietInv == Calling = {} =>
  /\ life # "dying"
  /\ workerThread # None => running /\ ~stopRequested /\ life = "alive"
  /\ running => workerThread # None \/ SpawnMayFail

ExitInv == \A t \in Threads : loop[t] = "exited" => stopRequested

(* The inductive invariant of serial calls: every client call finds the    *)
(* monitor either off, with no thread, or on, with one; or, when a thread  *)
(* could not be created, on with none.                                     *)
SerialInv ==
  /\ TypeOK
  /\ NoFault
  /\ OneCall
  /\ ListenersIdle
  /\ HandleInv
  /\ CallInv
  /\ QuietInv
  /\ ExitInv

(* What every step preserves, calls of listeners and overlapping calls of  *)
(* clients included: only a thread in a cycle calls; at most one actor     *)
(* joins at a time; no two handles represent one thread; and a dying       *)
(* monitor is left to its destroyer by the other clients.                  *)
Joining == {a \in Actors : pc[a] = "stop_joining"}

ListenerInv == \A t \in Threads : pc[t] # "idle" => loop[t] = "cycle"

JoinInv ==
  /\ \A a, b \in Joining : a = b
  /\ Joining # {} => workerThread \in Born

OwnerInv ==
  \A a \in Actors : made[a] # None =>
    /\ made[a] # workerThread
    /\ \A b \in Actors : made[b] = made[a] => b = a

(* No threads keep only each other: a listener may start a thread whose    *)
(* handle lives on the stack of its own, and so on, but the first of them  *)
(* is represented by workerThread_ or in a call of somebody else.          *)
RootedInv ==
  \A S \in SUBSET Born : S # {} =>
    \E t \in S : workerThread = t \/ \E a \in Actors \ S : made[a] = t

DyingInv ==
  /\ \A a \in Actors : pc[a] = "dtor_members" => a \in Callers /\ life = "dying"
  /\ life = "dying" =>
       \E c \in Callers :
         /\ Asked(c)
         /\ \A b \in Callers : b # c => pc[b] = "idle"
         /\ pc[c] \in {"stop_clear", "dtor_members"} => workerThread = None
  /\ life = "dead" => Calling = {} /\ workerThread = None

OverlapInv ==
  /\ TypeOK
  /\ fault # "terminate" =>
       /\ ListenerInv /\ TemporaryInv /\ JoinInv /\ OwnerInv /\ RootedInv /\ DyingInv

(* The service a client sees: it is stopping from the moment its request   *)
(* is visible to a thread at work.                                         *)
Service == INSTANCE MonitorService WITH
  mode <- IF Working = {} THEN "stopped"
          ELSE IF stopRequested THEN "stopping" ELSE "monitoring",
  cycling <- \E t \in Threads : loop[t] = "cycle"

(* The monitor keeps the promise of MonitorService: cycles never overlap,  *)
(* and none begins once stop() was called.                                 *)
ServiceSpec == Service!Spec
=============================================================================
