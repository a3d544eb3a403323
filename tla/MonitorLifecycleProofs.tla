----------------------- MODULE MonitorLifecycleProofs -----------------------
(***************************************************************************)
(* Theorems about MonitorLifecycle, for every set of clients and threads.  *)
(***************************************************************************)
EXTENDS MonitorLifecycle, TLAPS

(* The hypothesis of the theorems on serial use: clients take turns, and   *)
(* listeners do not call back.                                             *)
Serial == ~MayOverlap /\ ~ListenersMayCall

(* Every variable keeps its type, under any interleaving of calls.         *)
THEOREM TypeCorrect == Spec => []TypeOK
<1>1. Init => TypeOK
  BY ActorsAssumption DEF Init, TypeOK
<1>2. TypeOK /\ [Next]_vars => TypeOK'
  <2> SUFFICES ASSUME TypeOK, [Next]_vars PROVE TypeOK'
    OBVIOUS
  <2> USE DEF TypeOK, At, LoopAt, Goto, InStart, InStop, InDtor, Live, Actors
  <2>1. ASSUME NEW a \in Actors, Begin(a) PROVE TypeOK'
    BY <2>1 DEF Begin, StartExchange, StopRequest
  <2>2. ASSUME NEW a \in Actors, StartStep(a) PROVE TypeOK'
    <3>1. CASE StartReset(a)
      BY <3>1 DEF StartReset
    <3>2. CASE StartSpawn(a)
      BY <3>2 DEF StartSpawn
    <3>3. CASE StartSpawnFails(a)
      BY <3>3 DEF StartSpawnFails
    <3>4. CASE StartAssign(a)
      BY <3>4 DEF StartAssign
    <3>5. QED
      BY <2>2, <3>1, <3>2, <3>3, <3>4 DEF StartStep
  <2>3. ASSUME NEW a \in Actors, StopStep(a) PROVE TypeOK'
    <3>1. CASE StopJoinable(a)
      BY <3>1 DEF StopJoinable
    <3>2. CASE StopJoin(a)
      BY <3>2 DEF StopJoin
    <3>3. CASE StopJoined(a)
      BY <3>3 DEF StopJoined
    <3>4. CASE StopClear(a)
      BY <3>4 DEF StopClear
    <3>5. CASE DestroyMembers(a)
      BY <3>5 DEF DestroyMembers
    <3>6. QED
      BY <2>3, <3>1, <3>2, <3>3, <3>4, <3>5 DEF StopStep
  <2>4. ASSUME NEW c \in Callers, Owner(c) PROVE TypeOK'
    BY <2>4 DEF Owner, Construct, Constructed, Destroy
  <2>5. ASSUME NEW t \in Threads, LoopStep(t) PROVE TypeOK'
    BY <2>5 DEF LoopStep, LoopCheck, LoopCycle, LoopSleep
  <2>6. CASE UNCHANGED vars
    BY <2>6 DEF vars
  <2>7. QED
    BY <2>1, <2>2, <2>3, <2>4, <2>5, <2>6 DEF Next, CallStep
<1>3. QED
  BY <1>1, <1>2, PTL DEF Spec

-----------------------------------------------------------------------------
(* SerialInv is inductive: one step per action of a client's call, of the  *)
(* owner and of the loop.                                                  *)
LEMMA SerialInit == Init => SerialInv
  BY ActorsAssumption
  DEF Init, SerialInv, TypeOK, NoFault, OneCall, ListenersIdle, HandleInv, TemporaryInv, CallInv,
      QuietInv, ExitInv, Calling, Asked, Born, Actors, InStart, InStop, InDtor, Live

LEMMA SerialBegin ==
  ASSUME Serial, SerialInv, NEW a \in Actors, Begin(a)
  PROVE  SerialInv'
<1> USE ActorsAssumption
    DEF SerialInv, TypeOK, NoFault, OneCall, ListenersIdle, HandleInv, TemporaryInv, CallInv, QuietInv,
        ExitInv, Calling, Asked, Born, Actors, InStart, InStop, InDtor, Live, At, Goto,
        MayBegin, Serial
<1>1. CASE StartExchange(a)
  BY <1>1 DEF StartExchange
<1>2. CASE StopRequest(a)
  BY <1>2 DEF StopRequest
<1>3. QED
  BY <1>1, <1>2 DEF Begin

(* A monitor whose handle is empty, with no start() about to fill it, has  *)
(* no thread.                                                              *)
LEMMA EmptyHandle ==
  ASSUME SerialInv, workerThread = None, \A c \in Callers : pc[c] # "start_assign"
  PROVE  Born = {}
  BY ActorsAssumption DEF SerialInv, HandleInv, TemporaryInv, Actors, Born, TypeOK

(* While one client is in a call, the others are not.                      *)
LEMMA OthersIdle ==
  ASSUME SerialInv, NEW a \in Callers, pc[a] # "idle"
  PROVE  \A c \in Callers : c # a => pc[c] = "idle"
  BY DEF SerialInv, OneCall, Calling

LEMMA SerialStart ==
  ASSUME Serial, SerialInv, NEW a \in Actors, StartStep(a)
  PROVE  SerialInv'
<1> USE ActorsAssumption
    DEF SerialInv, TypeOK, NoFault, OneCall, ListenersIdle, HandleInv, TemporaryInv, CallInv, QuietInv,
        ExitInv, Calling, Asked, Born, Actors, InStart, InStop, InDtor, Live, At, Goto
<1>1. CASE StartReset(a)
  <2>1. a \in Callers /\ pc[a] = "start_reset" /\ workerThread = None
    BY <1>1 DEF StartReset
  <2>2. \A c \in Callers : c # a => pc[c] = "idle"
    BY <2>1, OthersIdle
  <2>3. Born = {}
    BY <2>1, <2>2, EmptyHandle
  <2>4. QED
    BY <1>1, <2>1, <2>2, <2>3 DEF StartReset
<1>2. CASE StartSpawn(a)
  BY <1>2 DEF StartSpawn
<1>3. CASE StartSpawnFails(a)
  BY <1>3, OptionsAssumption DEF StartSpawnFails, Serial
<1>4. CASE StartAssign(a)
  BY <1>4 DEF StartAssign
<1>5. QED
  BY <1>1, <1>2, <1>3, <1>4 DEF StartStep

LEMMA SerialStop ==
  ASSUME Serial, SerialInv, NEW a \in Actors, StopStep(a)
  PROVE  SerialInv'
<1> USE ActorsAssumption
    DEF SerialInv, TypeOK, NoFault, OneCall, ListenersIdle, HandleInv, TemporaryInv, CallInv, QuietInv,
        ExitInv, Calling, Asked, Born, Actors, InStart, InStop, InDtor, Live, At, Goto
<1>1. CASE StopJoinable(a)
  BY <1>1 DEF StopJoinable
<1>2. CASE StopJoin(a)
  BY <1>2 DEF StopJoin
<1>3. CASE StopJoined(a)
  BY <1>3 DEF StopJoined
<1>4. CASE StopClear(a)
  <2>1. a \in Callers /\ pc[a] = "stop_clear" /\ workerThread = None /\ life # "dead"
    BY <1>4 DEF StopClear
  <2>2. \A c \in Callers : c # a => pc[c] = "idle"
    BY <2>1, OthersIdle
  <2>3. QED
    BY <1>4, <2>1, <2>2 DEF StopClear
<1>5. CASE DestroyMembers(a)
  BY <1>5 DEF DestroyMembers
<1>6. QED
  BY <1>1, <1>2, <1>3, <1>4, <1>5 DEF StopStep

LEMMA SerialOwner ==
  ASSUME Serial, SerialInv, NEW c \in Callers, Owner(c)
  PROVE  SerialInv'
<1> USE ActorsAssumption
    DEF SerialInv, TypeOK, NoFault, OneCall, ListenersIdle, HandleInv, TemporaryInv, CallInv, QuietInv,
        ExitInv, Calling, Asked, Born, Actors, InStart, InStop, InDtor, Live, At, Goto
<1>1. CASE Construct(c)
  <2>1. Calling = {} /\ workerThread = None
    BY <1>1 DEF Construct
  <2>2. Born = {}
    BY <2>1, EmptyHandle
  <2>3. QED
    BY <1>1, <2>1, <2>2 DEF Construct, Constructed
<1>2. CASE Destroy(c)
  BY <1>2 DEF Destroy
<1>3. QED
  BY <1>1, <1>2 DEF Owner

LEMMA SerialLoop ==
  ASSUME Serial, SerialInv, NEW t \in Threads, LoopStep(t)
  PROVE  SerialInv'
<1> USE ActorsAssumption
    DEF SerialInv, TypeOK, NoFault, OneCall, ListenersIdle, HandleInv, TemporaryInv, CallInv, QuietInv,
        ExitInv, Calling, Asked, Born, Actors, InStart, InStop, InDtor, Live, LoopAt
<1>1. CASE LoopCheck(t)
  BY <1>1 DEF LoopCheck
<1>2. CASE LoopCycle(t)
  BY <1>2 DEF LoopCycle
<1>3. CASE LoopSleep(t)
  BY <1>3 DEF LoopSleep
<1>4. QED
  BY <1>1, <1>2, <1>3 DEF LoopStep

(* The inductive invariant of serial use: whenever clients take turns, a   *)
(* client's call finds the monitor off, with no thread, or on, with one,   *)
(* or, when a thread could not be created, on with none.                   *)
THEOREM SerialInvariant == Serial => (Spec => []SerialInv)
<1> SUFFICES ASSUME Serial PROVE Spec => []SerialInv
  OBVIOUS
<1>1. SerialInv /\ UNCHANGED vars => SerialInv'
  BY DEF vars, SerialInv, TypeOK, NoFault, OneCall, ListenersIdle, HandleInv, TemporaryInv, CallInv,
         QuietInv, ExitInv, Calling, Asked, Born
<1>2. SerialInv /\ [Next]_vars => SerialInv'
  BY <1>1, SerialBegin, SerialStart, SerialStop, SerialOwner, SerialLoop
  DEF Next, CallStep
<1>3. QED
  BY SerialInit, <1>2, PTL DEF Spec, Serial

(* Serial calls never have two background threads, and no stop() among     *)
(* them throws or ends the process, whether threads can be created or not. *)
THEOREM SerialUseIsSafe ==
  Serial => (Spec => [](OneWorker /\ NoFault))
<1> SUFFICES ASSUME Serial PROVE Spec => [](OneWorker /\ NoFault)
  OBVIOUS
<1>1. SerialInv => OneWorker
  <2> SUFFICES ASSUME SerialInv, NEW t \in Born, NEW u \in Born PROVE t = u
    BY DEF OneWorker
  <2>1. CASE workerThread # None
    <3>1. \A c \in Callers : made[c] = None
      BY <2>1 DEF SerialInv, HandleInv, TemporaryInv, CallInv, InStart, Actors
    <3>2. QED
      BY <3>1, ActorsAssumption DEF SerialInv, HandleInv, TemporaryInv, Born
  <2>2. CASE workerThread = None
    <3>1. PICK b \in Callers, c \in Callers : made[b] = t /\ made[c] = u
      BY <2>2, ActorsAssumption DEF SerialInv, HandleInv, TemporaryInv, Born
    <3>2. pc[b] = "start_assign" /\ pc[c] = "start_assign"
      BY <3>1, ActorsAssumption DEF SerialInv, HandleInv, TemporaryInv, Born, Actors
    <3>3. b = c
      BY <3>2 DEF SerialInv, OneCall, Calling
    <3>4. QED
      BY <3>1, <3>3
  <2>3. QED
    BY <2>1, <2>2
<1>2. SerialInv => NoFault
  BY DEF SerialInv
<1>3. QED
  BY <1>1, <1>2, SerialInvariant, PTL

(* isRunning() tells the truth to clients that take turns, if threads can  *)
(* be created: between their calls it answers true exactly when a          *)
(* background thread is at work.                                           *)
THEOREM IsRunningIsTrue == Serial /\ ~SpawnMayFail => (Spec => []ActiveIffRunning)
<1> SUFFICES ASSUME Serial, ~SpawnMayFail PROVE Spec => []ActiveIffRunning
  OBVIOUS
<1>1. SerialInv => ActiveIffRunning
  <2> SUFFICES ASSUME SerialInv, Quiet PROVE running <=> Working # {}
    BY DEF ActiveIffRunning
  <2>1. Calling = {}
    BY DEF Quiet, Calling, Actors
  <2>2. CASE running
    <3>1. workerThread \in Born /\ ~stopRequested
      BY <2>1, <2>2 DEF SerialInv, QuietInv, HandleInv, TemporaryInv
    <3>2. workerThread \in Working
      BY <3>1 DEF Born, Working, SerialInv, ExitInv, TypeOK
    <3>3. QED
      BY <2>2, <3>2
  <2>3. CASE ~running
    <3>1. Born = {}
      BY <2>1, <2>3, EmptyHandle DEF SerialInv, QuietInv, Calling
    <3>2. QED
      BY <2>3, <3>1 DEF Born, Working, Live
  <2>4. QED
    BY <2>2, <2>3
<1>2. QED
  BY <1>1, SerialInvariant, PTL

-----------------------------------------------------------------------------
(* While no thread is at work nobody is in a cycle; a thread at work, if   *)
(* there is one, is the only one.                                          *)
LEMMA OneAtWork ==
  ASSUME SerialInv, NEW t \in Threads, loop[t] \in Live
  PROVE  /\ t \in Working
         /\ \A u \in Threads : u # t => loop[u] = "unborn"
<1>1. t \in Born /\ t \in Working
  BY DEF Born, Working, Live
<1>2. ASSUME NEW u \in Born PROVE u = t
  <2>1. CASE workerThread # None
    BY <2>1, <1>1, ActorsAssumption
    DEF SerialInv, HandleInv, TemporaryInv, CallInv, InStart, Born, Actors
  <2>2. CASE workerThread = None
    <3>1. PICK b \in Callers, c \in Callers : made[b] = t /\ made[c] = u
      BY <2>2, <1>1, ActorsAssumption DEF SerialInv, HandleInv, TemporaryInv, Born
    <3>2. pc[b] = "start_assign" /\ pc[c] = "start_assign"
      BY <3>1, ActorsAssumption DEF SerialInv, HandleInv, TemporaryInv, Born, Actors
    <3>3. QED
      BY <3>1, <3>2 DEF SerialInv, OneCall, Calling
  <2>3. QED
    BY <2>1, <2>2
<1>3. QED
  BY <1>1, <1>2 DEF Born

(* Serial use of the monitor implements MonitorService.                    *)
THEOREM SerialUseKeepsPromise == Serial => (Spec => ServiceSpec)
<1> SUFFICES ASSUME Serial PROVE Spec => ServiceSpec
  OBVIOUS
<1> USE DEF Live
<1>1. Init => Service!Init
  BY DEF Init, Service!Init, Working
<1>2. SerialInv /\ SerialInv' /\ [Next]_vars => [Service!Next]_(Service!vars)
  <2> SUFFICES ASSUME SerialInv, SerialInv', [Next]_vars
               PROVE  [Service!Next]_(Service!vars)
    OBVIOUS
  <2>a. TypeOK
    BY DEF SerialInv
  <2>1. ASSUME UNCHANGED <<loop, stopRequested>> PROVE UNCHANGED Service!vars
    BY <2>1 DEF Service!vars, Working
  <2>2. ASSUME NEW a \in Actors, Begin(a) PROVE [Service!Next]_(Service!vars)
    <3>1. CASE StartExchange(a)
      BY <3>1, <2>1 DEF StartExchange
    <3>2. CASE StopRequest(a)
      BY <3>2 DEF StopRequest, Working, Service!Next, Service!RequestStop, Service!vars
    <3>3. QED
      BY <2>2, <3>1, <3>2 DEF Begin
  <2>3. ASSUME NEW a \in Actors, StartStep(a) PROVE [Service!Next]_(Service!vars)
    <3>1. ASSUME At(a, "start_reset") \/ At(a, "start_spawn") PROVE Working = {}
      <4>1. a \in Callers /\ pc[a] # "idle" /\ pc[a] # "start_assign" /\ workerThread = None
        BY <3>1 DEF At, SerialInv, ListenersIdle, CallInv, InStart, Actors
      <4>2. Born = {}
        BY <4>1, OthersIdle, EmptyHandle
      <4>3. QED
        BY <4>2 DEF Born, Working
    <3>2. CASE StartReset(a)
      BY <3>1, <3>2 DEF StartReset, Working, Service!vars
    <3>3. CASE StartSpawn(a)
      <4>1. Working = {} /\ ~stopRequested /\ ~stopRequested'
        BY <3>1, <3>3 DEF StartSpawn, At, SerialInv, ListenersIdle, CallInv, Actors
      <4>2. PICK t \in Threads : loop[t] = "unborn" /\ loop' = [loop EXCEPT ![t] = "check"]
        BY <3>3 DEF StartSpawn
      <4>3. Working' # {} /\ \A u \in Threads : loop[u] # "cycle" /\ loop'[u] # "cycle"
        BY <4>1, <4>2, <2>a DEF Working, TypeOK
      <4>4. Service!Start
        BY <4>1, <4>3 DEF Service!Start
      <4>5. QED
        BY <4>4 DEF Service!Next
    <3>4. CASE StartSpawnFails(a)
      BY <3>4, <2>1 DEF StartSpawnFails
    <3>5. CASE StartAssign(a)
      BY <3>5, <2>1 DEF StartAssign
    <3>6. QED
      BY <2>3, <3>2, <3>3, <3>4, <3>5 DEF StartStep
  <2>4. ASSUME NEW a \in Actors, StopStep(a) PROVE [Service!Next]_(Service!vars)
    <3>1. CASE StopJoined(a)
      <4>1. Working' = Working /\ stopRequested' = stopRequested
        BY <3>1, <2>a DEF StopJoined, Working, TypeOK
      <4>2. \A t \in Threads : loop[t] = "cycle" <=> loop'[t] = "cycle"
        BY <3>1, <2>a DEF StopJoined, TypeOK
      <4>3. QED
        BY <4>1, <4>2 DEF Service!vars
    <3>2. CASE ~StopJoined(a)
      BY <2>1, <2>4, <3>2
      DEF StopStep, StopJoinable, StopJoin, StopClear, DestroyMembers
    <3>3. QED
      BY <3>1, <3>2
  <2>5. ASSUME NEW c \in Callers, Owner(c) PROVE [Service!Next]_(Service!vars)
    <3>1. CASE Construct(c)
      <4>1. Calling = {} /\ workerThread = None
        BY <3>1 DEF Construct, SerialInv, CallInv, QuietInv, Calling
      <4>2. Working = {} /\ Working' = {}
        BY <4>1, <3>1, EmptyHandle DEF Construct, Calling, Born, Working
      <4>3. QED
        BY <4>2, <3>1 DEF Construct, Service!vars
    <3>2. CASE Destroy(c)
      BY <3>2 DEF Destroy, Working, Service!Next, Service!RequestStop, Service!vars
    <3>3. QED
      BY <2>5, <3>1, <3>2 DEF Owner
  <2>6. ASSUME NEW t \in Threads, LoopStep(t) PROVE [Service!Next]_(Service!vars)
    <3>1. /\ loop[t] \in Live
          /\ t \in Working
          /\ \A u \in Threads : u # t => loop[u] = "unborn"
      BY <2>6, OneAtWork DEF LoopStep, LoopCheck, LoopCycle, LoopSleep, LoopAt
    <3>2. CASE LoopCheck(t)
      <4>1. CASE stopRequested
        BY <3>1, <3>2, <4>1, <2>a
        DEF LoopCheck, LoopAt, TypeOK, Working, Service!Next, Service!Finish, Service!vars
      <4>2. CASE ~stopRequested
        BY <3>1, <3>2, <4>2, <2>a
        DEF LoopCheck, LoopAt, TypeOK, Working, Service!Next, Service!BeginCycle, Service!vars
      <4>3. QED
        BY <4>1, <4>2
    <3>3. CASE LoopCycle(t)
      BY <3>1, <3>3, <2>a
      DEF LoopCycle, LoopAt, TypeOK, Working, Service!Next, Service!EndCycle, Service!vars
    <3>4. CASE LoopSleep(t)
      BY <3>1, <3>4, <2>a
      DEF LoopSleep, LoopAt, TypeOK, Working, Service!vars
    <3>5. QED
      BY <2>6, <3>2, <3>3, <3>4 DEF LoopStep
  <2>7. CASE UNCHANGED vars
    BY <2>7, <2>1 DEF vars
  <2>8. QED
    BY <2>2, <2>3, <2>4, <2>5, <2>6, <2>7 DEF Next, CallStep
<1>3. QED
  BY <1>1, <1>2, SerialInvariant, PTL DEF Spec, ServiceSpec, Service!Spec

-----------------------------------------------------------------------------
(* Only a thread that exists is in a call.                                 *)
LEMMA CallersExist ==
  ASSUME ListenerInv, NEW a \in Actors, pc[a] # "idle"
  PROVE  a \in Callers \/ a \in Born
  BY DEF ListenerInv, Actors, Born

(* With nothing in workerThread_ and no client that has just started a     *)
(* thread, there is none: a chain of listeners that hold each other's      *)
(* threads has to begin somewhere.                                         *)
LEMMA NobodyLeft ==
  ASSUME ListenerInv, TemporaryInv, RootedInv, workerThread = None,
         \A c \in Callers : pc[c] # "start_assign"
  PROVE  Born = {}
<1> SUFFICES ASSUME Born # {} PROVE FALSE
  OBVIOUS
<1>1. PICK t \in Born : workerThread = t \/ \E a \in Actors \ Born : made[a] = t
  BY DEF RootedInv
<1>2. t \in Threads /\ t # None
  BY ActorsAssumption DEF Born
<1>3. PICK a \in Actors \ Born : made[a] = t
  BY <1>1, <1>2
<1>4. pc[a] = "start_assign"
  BY <1>2, <1>3 DEF TemporaryInv
<1>5. QED
  BY <1>3, <1>4, CallersExist

(* Rooted handles stay so as long as no thread is born and no handle moves.*)
LEMMA RootsStay ==
  ASSUME RootedInv, Born' \subseteq Born, UNCHANGED <<workerThread, made>>
  PROVE  RootedInv'
<1> SUFFICES ASSUME NEW S, S \subseteq Born', S # {}
             PROVE  \E t \in S : workerThread' = t \/ \E a \in Actors \ S : made'[a] = t
  BY DEF RootedInv, Actors
<1>1. S \in SUBSET Born
  OBVIOUS
<1>2. QED
  BY <1>1 DEF RootedInv

(* OverlapInv is inductive without any assumption on who calls, and when.  *)
LEMMA OverlapInit == Init => OverlapInv
<1> SUFFICES ASSUME Init PROVE OverlapInv
  OBVIOUS
<1>1. Born = {}
  BY DEF Init, Born
<1>2. RootedInv
  BY <1>1 DEF RootedInv
<1>3. QED
  BY <1>2, ActorsAssumption
  DEF Init, OverlapInv, TypeOK, ListenerInv, TemporaryInv, JoinInv, OwnerInv, DyingInv,
      Joining, Calling, Asked, Born, Actors, InStart, InStop, InDtor, Live

LEMMA OverlapBegin ==
  ASSUME OverlapInv, TypeOK', NEW a \in Actors, Begin(a)
  PROVE  OverlapInv'
<1> SUFFICES ASSUME fault # "terminate", fault' # "terminate"
             PROVE  OverlapInv'
  BY DEF OverlapInv, Begin, StartExchange, StopRequest, MayBegin, At
<1>0. RootedInv'
  BY RootsStay DEF OverlapInv, Begin, StartExchange, StopRequest, Born
<1> USE ActorsAssumption
    DEF OverlapInv, TypeOK, ListenerInv, TemporaryInv, JoinInv, OwnerInv, DyingInv, Joining,
        Calling, Asked, Born, Actors, InStart, InStop, InDtor, Live, At, Goto, MayBegin
<1>1. CASE StartExchange(a)
  BY <1>0, <1>1 DEF StartExchange
<1>2. CASE StopRequest(a)
  BY <1>0, <1>2 DEF StopRequest
<1>3. QED
  BY <1>1, <1>2 DEF Begin

LEMMA OverlapStart ==
  ASSUME OverlapInv, TypeOK', NEW a \in Actors, StartStep(a)
  PROVE  OverlapInv'
<1>a. TypeOK /\ fault # "terminate"
  BY DEF OverlapInv, StartStep, StartReset, StartSpawn, StartSpawnFails, StartAssign, At
<1>b. ListenerInv /\ TemporaryInv /\ JoinInv /\ OwnerInv /\ RootedInv /\ DyingInv
  BY <1>a DEF OverlapInv
<1>1. CASE StartReset(a) \/ StartSpawnFails(a)
  <2>1. RootedInv'
    BY <1>b, <1>1, RootsStay DEF StartReset, StartSpawnFails, Born
  <2> USE <1>a, <1>b, <2>1, ActorsAssumption
      DEF OverlapInv, TypeOK, ListenerInv, TemporaryInv, JoinInv, OwnerInv, DyingInv, Joining,
          Calling, Asked, Born, Actors, InStart, InStop, InDtor, Live, At, Goto
  <2>2. CASE StartReset(a)
    BY <2>2 DEF StartReset
  <2>3. CASE StartSpawnFails(a)
    BY <2>3 DEF StartSpawnFails
  <2>4. QED
    BY <1>1, <2>2, <2>3
<1>2. CASE StartSpawn(a)
  <2>1. PICK t \in Threads : /\ loop[t] = "unborn"
                             /\ loop' = [loop EXCEPT ![t] = "check"]
                             /\ made' = [made EXCEPT ![a] = t]
    BY <1>2 DEF StartSpawn
  <2>2. /\ pc[a] = "start_spawn" /\ pc[t] = "idle" /\ a # t
        /\ made[a] = None /\ made[t] = None
        /\ Born' = Born \union {t} /\ t \notin Born /\ workerThread' = workerThread
    BY <1>a, <1>b, <1>2, <2>1
    DEF StartSpawn, At, TypeOK, ListenerInv, TemporaryInv, Born, Actors
  <2>3. RootedInv'
    <3> SUFFICES ASSUME NEW S, S \subseteq Born', S # {}
                 PROVE  \E u \in S : workerThread' = u \/ \E b \in Actors \ S : made'[b] = u
      BY DEF RootedInv, Actors
    <3>1. CASE S \subseteq {t}
      <4>1. t \in S /\ a \in Actors \ S /\ made'[a] = t
        BY <1>a, <2>1, <2>2, <3>1 DEF TypeOK
      <4>2. QED
        BY <4>1
    <3>2. CASE S \ {t} # {}
      <4>1. S \ {t} \in SUBSET Born
        BY <2>2
      <4>2. PICK u \in S \ {t} : \/ workerThread = u
                                 \/ \E b \in Actors \ (S \ {t}) : made[b] = u
        BY <1>b, <3>2, <4>1 DEF RootedInv
      <4>3. CASE workerThread = u
        BY <2>2, <4>3
      <4>4. ASSUME NEW b \in Actors \ (S \ {t}), made[b] = u
            PROVE  b \in Actors \ S /\ made'[b] = u
        <5>1. u # None
          BY <4>1, ActorsAssumption DEF Born
        <5>2. b # t /\ b # a
          BY <2>2, <4>4, <5>1
        <5>3. QED
          BY <1>a, <2>1, <4>4, <5>2 DEF TypeOK
      <4>5. QED
        BY <4>2, <4>3, <4>4
    <3>3. QED
      BY <3>1, <3>2
  <2>4. QED
    BY <1>a, <1>b, <1>2, <2>1, <2>2, <2>3, ActorsAssumption
    DEF StartSpawn, OverlapInv, TypeOK, ListenerInv, TemporaryInv, JoinInv, OwnerInv, DyingInv,
        Joining, Calling, Asked, Born, Actors, InStart, InStop, InDtor, Live, At, Goto
<1>3. CASE StartAssign(a)
  <2>1. CASE workerThread # None
    BY <1>3, <2>1 DEF StartAssign, OverlapInv
  <2>2. CASE workerThread = None
    <3>1. /\ pc[a] = "start_assign" /\ workerThread' = made[a]
          /\ made' = [made EXCEPT ![a] = None] /\ pc' = [pc EXCEPT ![a] = "idle"]
          /\ loop' = loop /\ life' = life /\ fault' = fault
      BY <1>3, <2>2 DEF StartAssign, At, Goto
    <3>2. made[a] # None /\ made[a] \in Born /\ Born' = Born
      BY <1>b, <3>1 DEF TemporaryInv, Born
    <3>3. Joining = {} /\ Joining' = {}
      BY <1>a, <1>b, <2>2, <3>1, ActorsAssumption DEF JoinInv, Joining, Born, TypeOK
    <3>4. RootedInv'
      <4> SUFFICES ASSUME NEW S, S \subseteq Born', S # {}
                   PROVE  \E u \in S : workerThread' = u \/ \E b \in Actors \ S : made'[b] = u
        BY DEF RootedInv, Actors
      <4>1. PICK u \in S : workerThread = u \/ \E b \in Actors \ S : made[b] = u
        BY <1>b, <3>2 DEF RootedInv
      <4>2. u # None
        BY <3>2, ActorsAssumption DEF Born
      <4>3. PICK b \in Actors \ S : made[b] = u
        BY <2>2, <4>1, <4>2
      <4>4. b = a => workerThread' = u
        BY <3>1, <4>3
      <4>5. b # a => made'[b] = u
        BY <1>a, <3>1, <4>3 DEF TypeOK
      <4>6. QED
        BY <4>3, <4>4, <4>5
    <3>5. /\ life # "dead"
          /\ life = "dying" =>
               \A c \in Callers : pc[c] \in {"stop_clear", "dtor_members"}
                                  /\ (\A b \in Callers : b # c => pc[b] = "idle")
                                  => FALSE
      <4>1. ASSUME \A c \in Callers : pc[c] # "start_assign" PROVE FALSE
        <5>1. Born = {}
          BY <1>b, <2>2, <4>1, NobodyLeft
        <5>2. QED
          BY <3>2, <5>1
      <4>2. life # "dead"
        BY <1>b, <4>1 DEF DyingInv, Calling
      <4>3. QED
        BY <4>1, <4>2
    <3>6. QED
      BY <1>a, <1>b, <3>1, <3>2, <3>3, <3>4, <3>5, ActorsAssumption
      DEF OverlapInv, TypeOK, ListenerInv, TemporaryInv, JoinInv, OwnerInv, DyingInv,
          Calling, Asked, Born, Actors, InStart, InStop, InDtor, Live
  <2>3. QED
    BY <2>1, <2>2
<1>4. QED
  BY <1>1, <1>2, <1>3 DEF StartStep

LEMMA OverlapStop ==
  ASSUME OverlapInv, TypeOK', NEW a \in Actors, StopStep(a)
  PROVE  OverlapInv'
<1>a. TypeOK /\ fault # "terminate"
  BY DEF OverlapInv, StopStep, StopJoinable, StopJoin, StopJoined, StopClear, DestroyMembers, At
<1>b. ListenerInv /\ TemporaryInv /\ JoinInv /\ OwnerInv /\ RootedInv /\ DyingInv
  BY <1>a DEF OverlapInv
<1>1. CASE StopJoined(a)
  <2>1. /\ pc[a] = "stop_joining" /\ loop[workerThread] = "exited"
        /\ loop' = [loop EXCEPT ![workerThread] = "unborn"]
        /\ workerThread' = None /\ pc' = [pc EXCEPT ![a] = "stop_clear"]
        /\ made' = made /\ life' = life /\ fault' = fault
    BY <1>1 DEF StopJoined, At, Goto
  <2>2. Joining = {a} /\ workerThread \in Born /\ workerThread \in Threads
    BY <1>b, <2>1 DEF JoinInv, Joining, Born
  <2>3. /\ Joining' = {} /\ Born' = Born \ {workerThread}
        /\ pc[workerThread] = "idle" /\ workerThread # a
    BY <1>a, <1>b, <2>1, <2>2 DEF TypeOK, Joining, Born, ListenerInv
  <2>4. RootedInv'
    <3> SUFFICES ASSUME NEW S, S \subseteq Born', S # {}
                 PROVE  \E u \in S : workerThread' = u \/ \E b \in Actors \ S : made'[b] = u
      BY DEF RootedInv, Actors
    <3>1. S \in SUBSET Born /\ workerThread \notin S
      BY <2>3
    <3>2. PICK u \in S : workerThread = u \/ \E b \in Actors \ S : made[b] = u
      BY <1>b, <3>1 DEF RootedInv
    <3>3. QED
      BY <2>1, <3>1, <3>2
  <2>5. TemporaryInv' /\ OwnerInv'
    <3>1. \A b \in Actors : made[b] # None => made[b] # workerThread /\ made[b] \in Born
      BY <1>b DEF OwnerInv, TemporaryInv
    <3>2. QED
      BY <1>a, <1>b, <2>1, <2>3, <3>1, ActorsAssumption
      DEF OwnerInv, TemporaryInv, TypeOK, Born, Actors
  <2>6. ListenerInv'
    BY <1>a, <1>b, <2>1, <2>2, <2>3 DEF ListenerInv, TypeOK, Actors
  <2>7. DyingInv'
    BY <1>a, <1>b, <2>1 DEF DyingInv, TypeOK, Calling, Asked, InStop, InDtor, Actors
  <2>8. QED
    BY <2>3, <2>4, <2>5, <2>6, <2>7 DEF OverlapInv, JoinInv
<1>2. CASE ~StopJoined(a)
  <2>1. RootedInv'
    BY <1>b, <1>2, RootsStay
    DEF StopStep, StopJoinable, StopJoin, StopClear, DestroyMembers, Born
  <2> USE <1>a, <1>b, <2>1, ActorsAssumption
      DEF OverlapInv, TypeOK, ListenerInv, TemporaryInv, JoinInv, OwnerInv, DyingInv, Joining,
          Calling, Asked, Born, Actors, InStart, InStop, InDtor, Live, At, Goto
  <2>2. CASE StopJoinable(a)
    BY <2>2 DEF StopJoinable
  <2>3. CASE StopJoin(a)
    BY <2>3 DEF StopJoin
  <2>4. CASE StopClear(a)
    BY <2>4 DEF StopClear
  <2>5. CASE DestroyMembers(a)
    BY <2>5 DEF DestroyMembers
  <2>6. QED
    BY <1>2, <2>2, <2>3, <2>4, <2>5 DEF StopStep
<1>3. QED
  BY <1>1, <1>2

LEMMA OverlapOther ==
  ASSUME OverlapInv, TypeOK',
         \/ \E c \in Callers : Owner(c)
         \/ \E t \in Threads : LoopStep(t)
         \/ UNCHANGED vars
  PROVE  OverlapInv'
<1>1. ASSUME NEW c \in Callers, Owner(c) PROVE OverlapInv'
  <2>1. fault # "terminate" => RootedInv'
    <3>1. Born' = Born /\ made' = made /\ fault' = fault
      BY <1>1 DEF Owner, Construct, Destroy, Born
    <3>2. fault # "terminate" => workerThread' = workerThread
      BY <1>1 DEF Owner, Construct, Constructed, Destroy, OverlapInv, DyingInv
    <3>3. QED
      BY <3>1, <3>2, RootsStay DEF OverlapInv
  <2> USE <2>1, ActorsAssumption
      DEF OverlapInv, TypeOK, ListenerInv, TemporaryInv, JoinInv, OwnerInv, DyingInv, Joining,
          Calling, Asked, Born, Actors, InStart, InStop, InDtor, Live, At, Goto
  <2>2. CASE Construct(c)
    BY <2>2 DEF Construct, Constructed
  <2>3. CASE Destroy(c)
    BY <2>3 DEF Destroy
  <2>4. QED
    BY <1>1, <2>2, <2>3 DEF Owner
<1>2. ASSUME NEW t \in Threads, LoopStep(t) PROVE OverlapInv'
  <2>1. Born' = Born /\ UNCHANGED <<workerThread, made>>
    BY <1>2
    DEF LoopStep, LoopCheck, LoopCycle, LoopSleep, LoopAt, Born, OverlapInv, TypeOK
  <2>2. fault # "terminate" => RootedInv'
    BY <2>1, RootsStay DEF OverlapInv
  <2> USE <2>2, ActorsAssumption
      DEF OverlapInv, TypeOK, ListenerInv, TemporaryInv, JoinInv, OwnerInv, DyingInv, Joining,
          Calling, Asked, Born, Actors, InStart, InStop, InDtor, Live, LoopAt
  <2>3. CASE LoopCheck(t)
    BY <2>3 DEF LoopCheck
  <2>4. CASE LoopCycle(t)
    BY <2>4 DEF LoopCycle
  <2>5. CASE LoopSleep(t)
    BY <2>5 DEF LoopSleep
  <2>6. QED
    BY <1>2, <2>3, <2>4, <2>5 DEF LoopStep
<1>3. CASE UNCHANGED vars
  BY <1>3
  DEF vars, OverlapInv, TypeOK, ListenerInv, TemporaryInv, JoinInv, OwnerInv, RootedInv,
      DyingInv, Joining, Calling, Asked, Born, Actors
<1>4. QED
  BY <1>1, <1>2, <1>3

(* However the calls of clients and of listeners overlap, no background    *)
(* thread is lost, and none outlives the monitor, as long as the process   *)
(* itself goes on.                                                         *)
THEOREM NoThreadEscapes == Spec => [](NoLostThread /\ DeadIsQuiet)
<1>1. TypeOK' /\ OverlapInv /\ [Next]_vars => OverlapInv'
  BY OverlapBegin, OverlapStart, OverlapStop, OverlapOther DEF Next, CallStep
<1>2. OverlapInv => NoLostThread
  <2> SUFFICES ASSUME OverlapInv, fault # "terminate", NEW t \in Born
               PROVE  workerThread = t \/ \E a \in Actors : made[a] = t
    BY DEF NoLostThread
  <2>1. {t} \in SUBSET Born /\ {t} # {}
    OBVIOUS
  <2>2. PICK u \in {t} : workerThread = u \/ \E a \in Actors \ {t} : made[a] = u
    BY <2>1 DEF OverlapInv, RootedInv
  <2>3. QED
    BY <2>2
<1>3. OverlapInv => DeadIsQuiet
  BY NobodyLeft DEF OverlapInv, DyingInv, Calling, DeadIsQuiet
<1>4. QED
  BY OverlapInit, TypeCorrect, <1>1, <1>2, <1>3, PTL DEF Spec

(* The destructor leaves no thread of its monitor behind, even when other  *)
(* calls were in progress and listeners call, unless the process is over.  *)
THEOREM DestroyedIsQuiet == Spec => []DeadIsQuiet
<1>1. NoLostThread /\ DeadIsQuiet => DeadIsQuiet
  OBVIOUS
<1>2. QED
  BY <1>1, NoThreadEscapes, PTL
=============================================================================
