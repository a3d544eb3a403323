----------------------------- MODULE Guardian -----------------------------
(***************************************************************************)
(* api::RuntimeMemoryGuardian as an owner (src/api/                        *)
(* runtime_memory_guardian.cpp): factories that return it by value, moves, *)
(* destruction, and its ProcessMonitor, which refers to the handle_ member *)
(* and to parts owned by unique_ptr. ProcessHandle is the descriptor it    *)
(* owns. The k-th guardian created brings descriptor, parts and monitor k, *)
(* all for target process k; 0 is none. A client's variables and the       *)
(* factory's temporary are places where a guardian object may live.        *)
(***************************************************************************)
EXTENDS Naturals

CONSTANTS
  Variables,           \* the client's RuntimeMemoryGuardian variables
  Temporary,           \* the object built by a factory's return statement
  MaxGuardians,        \* bound: guardians created
  AssignOverRunning    \* may a guardian be replaced while its monitor runs?

ASSUME GuardianAssumption ==
  Temporary \notin Variables /\ MaxGuardians \in Nat /\ AssignOverRunning \in BOOLEAN

VARIABLES
  object,         \* does an object live in the place?
  descriptor,     \* handle_, the descriptor owned by the object
  parts,          \* platformTraits_ ... integrityChecker_, owned
  monitor,        \* processMonitor_, owned
  opened,         \* the descriptors open in the operating system
  living,         \* the parts that have not been destroyed
  watches,        \* per monitor: the place of the handle it refers to
  active,         \* per monitor: does its background thread run?
  baseline,       \* per monitor: the process of baseline_, Loaded, or 0
  job,            \* the factory, assignment or destructor in progress
  created         \* how many guardians were created

guardVars == <<object, descriptor, parts, monitor, opened, living, watches, active,
               baseline, job, created>>

Places == Variables \union {Temporary}
Numbers == 0..MaxGuardians
Loaded == MaxGuardians + 1
NoJob == [kind |-> "none", from |-> Temporary, to |-> Temporary]
Jobs == [kind : {"none", "return", "assign parts", "assign monitor",
                 "destroy monitor", "destroy parts", "destroy handle"},
         from : Places, to : Places]

GuardianTypeOK ==
  /\ object \in [Places -> BOOLEAN]
  /\ descriptor \in [Places -> Numbers]
  /\ parts \in [Places -> Numbers]
  /\ monitor \in [Places -> Numbers]
  /\ opened \in SUBSET Numbers
  /\ living \in SUBSET Numbers
  /\ watches \in [Numbers -> Places]
  /\ active \in [Numbers -> BOOLEAN]
  /\ baseline \in [Numbers -> 0..Loaded]
  /\ job \in Jobs
  /\ created \in Numbers

GuardianInit ==
  /\ object = [p \in Places |-> FALSE]
  /\ descriptor = [p \in Places |-> 0]
  /\ parts = [p \in Places |-> 0]
  /\ monitor = [p \in Places |-> 0]
  /\ opened = {} /\ living = {}
  /\ watches = [n \in Numbers |-> Temporary]
  /\ active = [n \in Numbers |-> FALSE]
  /\ baseline = [n \in Numbers |-> 0]
  /\ job = NoJob
  /\ created = 0

AtRest == job = NoJob
Usable(p) == AtRest /\ object[p] /\ monitor[p] # 0

-----------------------------------------------------------------------------
(* createForSelf(), createForProcess() for variable v: the constructor     *)
(* wires the monitor to the handle_ of the temporary. When the process     *)
(* cannot be opened nothing is created.                                    *)
Create(v) ==
  /\ AtRest /\ ~object[v]
  /\ created < MaxGuardians
  /\ LET k == created + 1
     IN /\ created' = k
        /\ descriptor' = [descriptor EXCEPT ![Temporary] = k]
        /\ parts' = [parts EXCEPT ![Temporary] = k]
        /\ monitor' = [monitor EXCEPT ![Temporary] = k]
        /\ opened' = opened \union {k}
        /\ living' = living \union {k}
        /\ watches' = [watches EXCEPT ![k] = Temporary]
  /\ object' = [object EXCEPT ![Temporary] = TRUE]
  /\ job' = [kind |-> "return", from |-> Temporary, to |-> v]
  /\ UNCHANGED <<active, baseline>>

(* Every member goes over and leaves an empty one behind.                  *)
MembersMove(from, to) ==
  /\ descriptor' = [descriptor EXCEPT ![to] = descriptor[from], ![from] = 0]
  /\ parts' = [parts EXCEPT ![to] = parts[from], ![from] = 0]
  /\ monitor' = [monitor EXCEPT ![to] = monitor[from], ![from] = 0]
  /\ UNCHANGED <<opened, living, watches, active, baseline, created>>

(* The return value is move-constructed into the Result, the temporary     *)
(* destroyed.                                                              *)
Return ==
  /\ job.kind = "return"
  /\ MembersMove(Temporary, job.to)
  /\ object' = [object EXCEPT ![Temporary] = FALSE, ![job.to] = TRUE]
  /\ job' = NoJob

(* Mutant: a ProcessHandle move constructor that copies the descriptor.    *)
MoveConstruct_CopiesHandle(from, to) ==
  /\ AtRest /\ object[from] /\ ~object[to] /\ from # to
  /\ descriptor' = [descriptor EXCEPT ![to] = descriptor[from]]
  /\ parts' = [parts EXCEPT ![to] = parts[from], ![from] = 0]
  /\ monitor' = [monitor EXCEPT ![to] = monitor[from], ![from] = 0]
  /\ object' = [object EXCEPT ![to] = TRUE]
  /\ UNCHANGED <<opened, living, watches, active, baseline, created, job>>

MoveConstruct(from, to) ==
  /\ AtRest /\ object[from] /\ ~object[to] /\ from # to
  /\ MembersMove(from, to)
  /\ object' = [object EXCEPT ![to] = TRUE]
  /\ UNCHANGED job

(* Mutant: an assignment of handles that exchanges them.                   *)
AssignHandle_Keeps(from, to) ==
  /\ AtRest /\ object[from] /\ object[to] /\ from # to
  /\ AssignOverRunning \/ ~active[monitor[to]]
  /\ job' = [kind |-> "assign parts", from |-> from, to |-> to]
  /\ UNCHANGED <<object, descriptor, parts, monitor, opened, living, watches, active,
                 baseline, created>>

(* Move assignment, member after member in the order of declaration:       *)
(* handle_ closes its descriptor and takes the other;                      *)
AssignHandle(from, to) ==
  /\ AtRest /\ object[from] /\ object[to] /\ from # to
  /\ AssignOverRunning \/ ~active[monitor[to]]
  /\ opened' = opened \ {descriptor[to]}
  /\ descriptor' = [descriptor EXCEPT ![to] = descriptor[from], ![from] = 0]
  /\ job' = [kind |-> "assign parts", from |-> from, to |-> to]
  /\ UNCHANGED <<object, parts, monitor, living, watches, active, baseline, created>>

(* the parts held so far are destroyed;                                    *)
AssignParts ==
  /\ job.kind = "assign parts"
  /\ living' = living \ {parts[job.to]}
  /\ parts' = [parts EXCEPT ![job.to] = parts[job.from], ![job.from] = 0]
  /\ job' = [job EXCEPT !.kind = "assign monitor"]
  /\ UNCHANGED <<object, descriptor, monitor, opened, watches, active, baseline, created>>

(* the monitor held so far is destroyed, which stops it, last of all.      *)
AssignMonitor ==
  /\ job.kind = "assign monitor"
  /\ active' = [active EXCEPT ![monitor[job.to]] = FALSE]
  /\ monitor' = [monitor EXCEPT ![job.to] = monitor[job.from], ![job.from] = 0]
  /\ job' = NoJob
  /\ UNCHANGED <<object, descriptor, parts, opened, living, watches, baseline, created>>

(* Mutant: processMonitor_ declared before what it refers to.              *)
DestroyBegins_PartsFirst(p) ==
  /\ AtRest /\ object[p]
  /\ job' = [kind |-> "destroy parts", from |-> p, to |-> p]
  /\ UNCHANGED <<object, descriptor, parts, monitor, opened, living, watches, active,
                 baseline, created>>

(* Destruction, in the reverse order: the monitor, which stops its thread, *)
DestroyBegins(p) ==
  /\ AtRest /\ object[p]
  /\ job' = [kind |-> "destroy monitor", from |-> p, to |-> p]
  /\ UNCHANGED <<object, descriptor, parts, monitor, opened, living, watches, active,
                 baseline, created>>

DestroyMonitor ==
  /\ job.kind = "destroy monitor"
  /\ active' = [active EXCEPT ![monitor[job.to]] = FALSE]
  /\ monitor' = [monitor EXCEPT ![job.to] = 0]
  /\ job' = [job EXCEPT !.kind = "destroy parts"]
  /\ UNCHANGED <<object, descriptor, parts, opened, living, watches, baseline, created>>

(* then the parts,                                                         *)
DestroyParts ==
  /\ job.kind = "destroy parts"
  /\ living' = living \ {parts[job.to]}
  /\ parts' = [parts EXCEPT ![job.to] = 0]
  /\ job' = [job EXCEPT !.kind = "destroy handle"]
  /\ UNCHANGED <<object, descriptor, monitor, opened, watches, active, baseline, created>>

(* then the handle, which closes its descriptor if it has one.             *)
DestroyHandle ==
  /\ job.kind = "destroy handle"
  /\ opened' = opened \ {descriptor[job.to]}
  /\ descriptor' = [descriptor EXCEPT ![job.to] = 0]
  /\ object' = [object EXCEPT ![job.to] = FALSE]
  /\ job' = NoJob
  /\ UNCHANGED <<parts, monitor, living, watches, active, baseline, created>>

(* monitor().start() and monitor().stop().                                 *)
SwitchMonitor(p) ==
  /\ Usable(p)
  /\ active' = [active EXCEPT ![monitor[p]] = ~@]
  /\ UNCHANGED <<object, descriptor, parts, monitor, opened, living, watches, baseline,
                 job, created>>

InstallBaseline(p, b) ==
  /\ baseline' = [baseline EXCEPT ![monitor[p]] = b]
  /\ UNCHANGED <<object, descriptor, parts, monitor, opened, living, watches, active, job,
                 created>>

(* establishBaseline() reads the target through handle_; when enumeration  *)
(* or capture fails the installed baseline stays.                          *)
EstablishBaseline(p) ==
  Usable(p) /\ \E b \in {descriptor[p], baseline[monitor[p]]} : InstallBaseline(p, b)

(* loadBaseline() likewise, with whatever the file holds.                  *)
LoadBaseline(p) ==
  Usable(p) /\ \E b \in {Loaded, baseline[monitor[p]]} : InstallBaseline(p, b)

GuardianNext ==
  \/ \E v \in Variables : \/ Create(v) \/ DestroyBegins(v) \/ SwitchMonitor(v)
                          \/ EstablishBaseline(v) \/ LoadBaseline(v)
  \/ \E from, to \in Variables : MoveConstruct(from, to) \/ AssignHandle(from, to)
  \/ Return \/ AssignParts \/ AssignMonitor
  \/ DestroyMonitor \/ DestroyParts \/ DestroyHandle

GuardianSpec == GuardianInit /\ [][GuardianNext]_guardVars

-----------------------------------------------------------------------------
(* Whatever is moved, assigned and destroyed, each open descriptor belongs *)
(* to exactly one handle and each handle's descriptor is open: none is     *)
(* closed twice, used after its close, or leaked.                          *)
OneOwner ==
  /\ \A p \in Places : descriptor[p] # 0 => descriptor[p] \in opened
  /\ \A d \in opened : \E p \in Places : object[p] /\ descriptor[p] = d
  /\ \A p, q \in Places : descriptor[p] = descriptor[q] /\ p # q => descriptor[p] = 0

(* A background thread runs only while the parts its monitor was built on  *)
(* live: the destructor stops it before it destroys them.                  *)
RunningMonitorHasParts ==
  \A n \in Numbers : active[n] => n \in living

(* Between calls, a guardian's own baseline was taken from the process     *)
(* checkIntegrity() would read: handle and monitor move together.          *)
BaselineFitsTarget ==
  AtRest => \A p \in Places : object[p] /\ monitor[p] # 0 =>
                baseline[monitor[p]] \in {0, Loaded, descriptor[p]}

(* "handle: The process to monitor. Must outlive this object."             *)
(* (process_monitor.hpp:48-49): between calls the monitor of a guardian    *)
(* refers to the handle_ of a guardian object that lives and holds it.     *)
MonitorWatchesOwnHandle ==
  AtRest => \A v \in Variables : object[v] /\ monitor[v] # 0 => watches[monitor[v]] = v
=============================================================================
