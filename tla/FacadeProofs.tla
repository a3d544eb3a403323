---------------------------- MODULE FacadeProofs ----------------------------
(***************************************************************************)
(* What a program that uses the library meets: guardians with their        *)
(* descriptors and the parts of a monitor that is running, and the exit    *)
(* codes and files of the command line tools.                              *)
(***************************************************************************)
EXTENDS Guardian, CommandLine, TLAPS

(***************************************************************************)
(* Guardian: no descriptor is closed twice or lost, and the parts of a     *)
(* running monitor stay where it looks for them.                           *)
(***************************************************************************)
USE GuardianAssumption

(* The part of the state that descriptors depend on.                       *)
OwnerTypes ==
  /\ object \in [Places -> BOOLEAN]
  /\ descriptor \in [Places -> Numbers]
  /\ opened \in SUBSET Numbers
  /\ created \in Numbers
  /\ job \in Jobs

(* Whose turn it is: the temporary lives only while a factory returns it   *)
(* into a variable that has no object yet; assignments are between two     *)
(* objects, and the object that is being destroyed is there to the end.    *)
JobMakesSense ==
  /\ object[Temporary] <=> job.kind = "return"
  /\ job.kind = "return" => job.to \in Variables /\ ~object[job.to]
  /\ job.kind \in {"destroy monitor", "destroy parts", "destroy handle"} =>
       object[job.to] /\ job.to \in Variables

(* The inductive invariant: only objects have descriptors, descriptors are *)
(* numbered from 1 in the order they were opened, and no two places have   *)
(* the same.                                                               *)
OwnerInv ==
  /\ OwnerTypes
  /\ JobMakesSense
  /\ \A p \in Places : descriptor[p] # 0 => object[p] /\ descriptor[p] \in opened
  /\ \A d \in opened : 0 < d /\ d <= created
  /\ \A d \in opened : \E p \in Places : object[p] /\ descriptor[p] = d
  /\ \A p, q \in Places : descriptor[p] = descriptor[q] /\ p # q => descriptor[p] = 0

(* Steps that leave descriptors and objects alone.                         *)
LEMMA OwnerKept ==
  ASSUME OwnerInv, job' \in Jobs, JobMakesSense',
         UNCHANGED <<object, descriptor, opened, created>>
  PROVE  OwnerInv'
BY DEF OwnerInv, OwnerTypes

(* A move from an object to a place whose own descriptor has been given    *)
(* up already: one owner takes the place of another.                       *)
LEMMA OwnerMoves ==
  ASSUME OwnerInv, job' \in Jobs, JobMakesSense',
         NEW from \in Places, NEW to \in Places, from # to,
         object' \in [Places -> BOOLEAN], object'[to],
         \A p \in Places : p # from /\ p # to => object'[p] = object[p],
         descriptor' = [descriptor EXCEPT ![to] = descriptor[from], ![from] = 0],
         opened' = opened \ {descriptor[to]},
         UNCHANGED created
  PROVE  OwnerInv'
<1> USE DEF OwnerInv, OwnerTypes
<1>1. /\ descriptor' \in [Places -> Numbers]
      /\ descriptor'[to] = descriptor[from] /\ descriptor'[from] = 0
      /\ \A p \in Places : p # from /\ p # to => descriptor'[p] = descriptor[p]
  BY DEF Numbers
<1>2. OwnerTypes'
  BY <1>1
<1>3. ASSUME NEW p \in Places, descriptor'[p] # 0
      PROVE  object'[p] /\ descriptor'[p] \in opened'
  BY <1>1, <1>3
<1>4. ASSUME NEW d \in opened'
      PROVE  \E p \in Places : object'[p] /\ descriptor'[p] = d
  <2>1. PICK p \in Places : object[p] /\ descriptor[p] = d
    OBVIOUS
  <2>2. CASE p = from
    BY <1>1, <2>1, <2>2
  <2>3. CASE p # from
    BY <1>1, <2>1, <2>3
  <2>4. QED
    BY <2>2, <2>3
<1>5. ASSUME NEW p \in Places, NEW q \in Places, descriptor'[p] = descriptor'[q], p # q
      PROVE  descriptor'[p] = 0
  BY <1>1, <1>5
<1>6. \A d \in opened' : 0 < d /\ d <= created'
  OBVIOUS
<1>7. QED
  BY <1>2, <1>3, <1>4, <1>5, <1>6

(* Every step keeps the inductive invariant.                               *)
LEMMA OwnerStep == OwnerInv /\ [GuardianNext]_guardVars => OwnerInv'
<1> SUFFICES ASSUME OwnerInv, [GuardianNext]_guardVars PROVE OwnerInv'
  OBVIOUS
<1> USE DEF Places
<1>0. OwnerTypes /\ JobMakesSense
  BY DEF OwnerInv
<1>1. ASSUME NEW v \in Variables, Create(v) PROVE OwnerInv'
  <2>1. /\ created < MaxGuardians
        /\ created' = created + 1
        /\ descriptor' = [descriptor EXCEPT ![Temporary] = created + 1]
        /\ opened' = opened \union {created + 1}
        /\ object' = [object EXCEPT ![Temporary] = TRUE]
        /\ job' = [kind |-> "return", from |-> Temporary, to |-> v]
        /\ ~object[v] /\ ~object[Temporary]
    BY <1>0, <1>1 DEF Create, AtRest, JobMakesSense, NoJob
  <2>2a. created' \in Numbers
    BY <1>0, <2>1 DEF OwnerTypes, Numbers
  <2>2b. job' \in Jobs
    BY <2>1 DEF Jobs
  <2>2c. object' \in [Places -> BOOLEAN] /\ descriptor' \in [Places -> Numbers]
    BY <1>0, <2>1, <2>2a DEF OwnerTypes
  <2>2d. opened' \in SUBSET Numbers
    BY <1>0, <2>1, <2>2a DEF OwnerTypes
  <2>2. OwnerTypes'
    BY <2>2a, <2>2b, <2>2c, <2>2d DEF OwnerTypes
  <2>3. JobMakesSense'
    BY <1>0, <2>1 DEF OwnerTypes, JobMakesSense
  <2>4. created + 1 \notin opened
    BY <1>0 DEF OwnerInv, OwnerTypes, Numbers
  <2>5. /\ descriptor'[Temporary] = created + 1 /\ descriptor[Temporary] = 0
        /\ \A p \in Variables : descriptor'[p] = descriptor[p] /\ object'[p] = object[p]
    BY <1>0, <2>1 DEF OwnerTypes, OwnerInv
  <2>6. \A p \in Variables : descriptor[p] # created + 1
    BY <1>0, <2>4 DEF OwnerInv, OwnerTypes, Numbers
  <2>7. ASSUME NEW d \in opened'
        PROVE  \E p \in Places : object'[p] /\ descriptor'[p] = d
    BY <1>0, <2>1, <2>5 DEF OwnerInv, OwnerTypes
  <2>8. \A d \in opened' : 0 < d /\ d <= created'
    BY <1>0, <2>1 DEF OwnerInv, OwnerTypes, Numbers
  <2>9. ASSUME NEW p \in Places, NEW q \in Places, descriptor'[p] = descriptor'[q], p # q
        PROVE  descriptor'[p] = 0
    BY <1>0, <2>5, <2>6, <2>9 DEF OwnerInv
  <2>10. ASSUME NEW p \in Places, descriptor'[p] # 0
         PROVE  object'[p] /\ descriptor'[p] \in opened'
    BY <1>0, <2>1, <2>5, <2>10 DEF OwnerInv, OwnerTypes
  <2>11. QED
    BY <2>2, <2>3, <2>7, <2>8, <2>9, <2>10 DEF OwnerInv
<1>2. CASE Return
  <2>1. /\ job.to \in Variables /\ ~object[job.to] /\ job.to # Temporary
        /\ descriptor[job.to] = 0 /\ 0 \notin opened
    BY <1>0, <1>2 DEF Return, JobMakesSense, OwnerInv, OwnerTypes, Numbers
  <2>2. /\ job' = NoJob /\ NoJob \in Jobs
        /\ object' = [object EXCEPT ![Temporary] = FALSE, ![job.to] = TRUE]
        /\ descriptor' = [descriptor EXCEPT ![job.to] = descriptor[Temporary],
                                            ![Temporary] = 0]
        /\ opened' = opened \ {descriptor[job.to]}
        /\ UNCHANGED created
    BY <1>2, <2>1 DEF Return, MembersMove, NoJob, Jobs
  <2>3. /\ object' \in [Places -> BOOLEAN] /\ object'[job.to] /\ ~object'[Temporary]
        /\ \A p \in Places : p # Temporary /\ p # job.to => object'[p] = object[p]
    BY <1>0, <2>1, <2>2 DEF OwnerTypes
  <2>4. JobMakesSense'
    BY <2>2, <2>3 DEF JobMakesSense, NoJob
  <2>5. QED
    BY <2>1, <2>2, <2>3, <2>4, OwnerMoves
<1>3. ASSUME NEW from \in Variables, NEW to \in Variables, MoveConstruct(from, to)
      PROVE  OwnerInv'
  <2>1. from # to /\ ~object[to] /\ descriptor[to] = 0 /\ 0 \notin opened
    BY <1>0, <1>3 DEF MoveConstruct, OwnerInv, OwnerTypes, Numbers
  <2>2. /\ object' = [object EXCEPT ![to] = TRUE] /\ job' = job /\ job = NoJob
        /\ descriptor' = [descriptor EXCEPT ![to] = descriptor[from], ![from] = 0]
        /\ opened' = opened \ {descriptor[to]}
        /\ UNCHANGED created
    BY <1>3, <2>1 DEF MoveConstruct, MembersMove, AtRest
  <2>3. /\ object' \in [Places -> BOOLEAN] /\ object'[to]
        /\ \A p \in Places : p # from /\ p # to => object'[p] = object[p]
        /\ object'[Temporary] = object[Temporary]
    BY <1>0, <2>2 DEF OwnerTypes
  <2>4. JobMakesSense' /\ job' \in Jobs
    BY <1>0, <2>2, <2>3 DEF JobMakesSense, NoJob, OwnerTypes
  <2>5. QED
    BY <2>1, <2>2, <2>3, <2>4, OwnerMoves
<1>4. ASSUME NEW from \in Variables, NEW to \in Variables, AssignHandle(from, to)
      PROVE  OwnerInv'
  <2>1. /\ from # to /\ object[to] /\ job = NoJob
        /\ descriptor' = [descriptor EXCEPT ![to] = descriptor[from], ![from] = 0]
        /\ opened' = opened \ {descriptor[to]}
        /\ UNCHANGED <<created, object>>
        /\ job' = [kind |-> "assign parts", from |-> from, to |-> to]
    BY <1>4 DEF AssignHandle, AtRest
  <2>2. JobMakesSense' /\ job' \in Jobs
    BY <1>0, <2>1 DEF JobMakesSense, NoJob, Jobs
  <2>3. object' \in [Places -> BOOLEAN] /\ object'[to]
    BY <1>0, <2>1 DEF OwnerTypes
  <2>4. QED
    BY <2>1, <2>2, <2>3, OwnerMoves
<1>5. CASE AssignParts
  <2>1. /\ job.kind = "assign parts" /\ job' = [job EXCEPT !.kind = "assign monitor"]
        /\ UNCHANGED <<object, descriptor, opened, created>>
    BY <1>5 DEF AssignParts
  <2>2. job' \in Jobs /\ JobMakesSense'
    BY <1>0, <2>1 DEF OwnerTypes, Jobs, JobMakesSense
  <2>3. QED
    BY <2>1, <2>2, OwnerKept
<1>6. CASE AssignMonitor
  <2>1. job.kind = "assign monitor" /\ job' = NoJob
        /\ UNCHANGED <<object, descriptor, opened, created>>
    BY <1>6 DEF AssignMonitor
  <2>2. job' \in Jobs /\ JobMakesSense'
    BY <1>0, <2>1 DEF OwnerTypes, Jobs, JobMakesSense, NoJob
  <2>3. QED
    BY <2>1, <2>2, OwnerKept
<1>7. ASSUME NEW p \in Variables, DestroyBegins(p) PROVE OwnerInv'
  <2>1. /\ job = NoJob /\ object[p]
        /\ job' = [kind |-> "destroy monitor", from |-> p, to |-> p]
        /\ UNCHANGED <<object, descriptor, opened, created>>
    BY <1>7 DEF DestroyBegins, AtRest
  <2>2. job' \in Jobs /\ JobMakesSense'
    BY <1>0, <2>1 DEF OwnerTypes, Jobs, JobMakesSense, NoJob
  <2>3. QED
    BY <2>1, <2>2, OwnerKept
<1>8. CASE DestroyMonitor
  <2>1. /\ job.kind = "destroy monitor" /\ job' = [job EXCEPT !.kind = "destroy parts"]
        /\ UNCHANGED <<object, descriptor, opened, created>>
    BY <1>8 DEF DestroyMonitor
  <2>2. job' \in Jobs /\ JobMakesSense'
    BY <1>0, <2>1 DEF OwnerTypes, Jobs, JobMakesSense
  <2>3. QED
    BY <2>1, <2>2, OwnerKept
<1>9. CASE DestroyParts
  <2>1. /\ job.kind = "destroy parts" /\ job' = [job EXCEPT !.kind = "destroy handle"]
        /\ UNCHANGED <<object, descriptor, opened, created>>
    BY <1>9 DEF DestroyParts
  <2>2. job' \in Jobs /\ JobMakesSense'
    BY <1>0, <2>1 DEF OwnerTypes, Jobs, JobMakesSense
  <2>3. QED
    BY <2>1, <2>2, OwnerKept
<1>10. CASE DestroyHandle
  <2>1. /\ job.kind = "destroy handle" /\ job' = NoJob
        /\ opened' = opened \ {descriptor[job.to]}
        /\ descriptor' = [descriptor EXCEPT ![job.to] = 0]
        /\ object' = [object EXCEPT ![job.to] = FALSE]
        /\ UNCHANGED created
    BY <1>10 DEF DestroyHandle
  <2>2. job.to \in Variables /\ object[job.to]
    BY <1>0, <2>1 DEF JobMakesSense
  <2>3. /\ descriptor'[job.to] = 0
        /\ \A p \in Places : p # job.to =>
             descriptor'[p] = descriptor[p] /\ object'[p] = object[p]
    BY <1>0, <2>1, <2>2 DEF OwnerTypes
  <2>4. OwnerTypes' /\ JobMakesSense'
    <3> DEFINE q == job.to
    <3>a. /\ object \in [Places -> BOOLEAN] /\ descriptor \in [Places -> Numbers]
          /\ 0 \in Numbers
      BY <1>0 DEF OwnerTypes, Numbers
    <3>b. /\ object' = [object EXCEPT ![q] = FALSE]
          /\ descriptor' = [descriptor EXCEPT ![q] = 0]
      BY <2>1
    <3> HIDE DEF q
    <3>1. object' \in [Places -> BOOLEAN]
      BY <3>a, <3>b
    <3>2. descriptor' \in [Places -> Numbers]
      BY <3>a, <3>b
    <3>3. job' \in Jobs
      BY <2>1 DEF NoJob, Jobs
    <3>4. opened' \in SUBSET Numbers /\ created' \in Numbers
      BY <1>0, <2>1 DEF OwnerTypes
    <3>5. job'.kind = "none"
      BY <2>1 DEF NoJob
    <3>6. ~object'[Temporary]
      BY <1>0, <2>1, <2>2, <2>3 DEF JobMakesSense
    <3>7. JobMakesSense'
      BY <3>5, <3>6 DEF JobMakesSense
    <3>8. QED
      BY <3>1, <3>2, <3>3, <3>4, <3>7 DEF OwnerTypes
  <2>5. ASSUME NEW p \in Places, descriptor'[p] # 0
        PROVE  object'[p] /\ descriptor'[p] \in opened'
    <3>1. p # job.to /\ job.to \in Places
      BY <2>2, <2>3, <2>5
    <3>2. descriptor'[p] = descriptor[p] /\ object'[p] = object[p] /\ descriptor[p] # 0
      BY <2>3, <2>5, <3>1
    <3>3. object[p] /\ descriptor[p] \in opened
      BY <3>2 DEF OwnerInv
    <3>4. descriptor[p] # descriptor[job.to]
      BY <3>1, <3>2 DEF OwnerInv
    <3>5. descriptor'[p] \in opened'
      <4>1. opened' = opened \ {descriptor[job.to]}
        BY <2>1
      <4>2. descriptor'[p] = descriptor[p] /\ descriptor[p] \in opened
        BY <3>2, <3>3, Zenon
      <4>3. QED
        BY <3>4, <4>1, <4>2, Zenon
    <3>6. object'[p]
      BY <3>2, <3>3, Zenon
    <3>7. QED
      BY <3>5, <3>6
  <2>6. ASSUME NEW d \in opened'
        PROVE  \E p \in Places : object'[p] /\ descriptor'[p] = d
    <3>1. d \in opened /\ d # descriptor[job.to]
      BY <2>1
    <3>2. PICK p \in Places : object[p] /\ descriptor[p] = d
      BY <3>1 DEF OwnerInv
    <3>3. p # job.to
      BY <3>1, <3>2
    <3>4. QED
      BY <2>3, <3>2, <3>3
  <2>7. \A d \in opened' : 0 < d /\ d <= created'
    BY <2>1 DEF OwnerInv
  <2>8. ASSUME NEW p \in Places, NEW q \in Places, descriptor'[p] = descriptor'[q], p # q
        PROVE  descriptor'[p] = 0
    BY <2>3, <2>8 DEF OwnerInv
  <2>9. QED
    BY <2>4, <2>5, <2>6, <2>7, <2>8 DEF OwnerInv
<1>11. ASSUME UNCHANGED <<object, descriptor, opened, created, job>> PROVE OwnerInv'
  BY <1>0, <1>11 DEF OwnerInv, OwnerTypes, JobMakesSense
<1>12. ASSUME NEW v \in Variables,
              SwitchMonitor(v) \/ EstablishBaseline(v) \/ LoadBaseline(v)
       PROVE  OwnerInv'
  BY <1>11, <1>12 DEF SwitchMonitor, EstablishBaseline, LoadBaseline, InstallBaseline
<1>13. CASE UNCHANGED guardVars
  BY <1>11, <1>13 DEF guardVars
<1>14. QED
  BY <1>1, <1>2, <1>3, <1>4, <1>5, <1>6, <1>7, <1>8, <1>9, <1>10, <1>12, <1>13
     DEF GuardianNext

(* No descriptor is owned twice, used after it was closed, or leaked,      *)
(* however guardians are created, moved, assigned and destroyed.           *)
THEOREM DescriptorsHaveOneOwner == GuardianSpec => []OneOwner
<1>1. GuardianInit => OwnerInv
  BY DEF GuardianInit, OwnerInv, OwnerTypes, JobMakesSense, NoJob, Jobs, Numbers, Places
<1>2. OwnerInv => OneOwner
  BY DEF OwnerInv, OneOwner
<1>3. QED
  BY <1>1, <1>2, OwnerStep, PTL DEF GuardianSpec

-----------------------------------------------------------------------------
(* The rest of the state has its type.                                     *)
LEMMA TypeStep == GuardianTypeOK /\ OwnerInv /\ [GuardianNext]_guardVars => GuardianTypeOK'
<1> SUFFICES ASSUME GuardianTypeOK, OwnerInv, [GuardianNext]_guardVars
             PROVE  GuardianTypeOK'
  OBVIOUS
<1>1. OwnerTypes'
  BY OwnerStep DEF OwnerInv
<1>2. 0 \in Numbers /\ Temporary \in Places /\ Numbers \subseteq 0..Loaded
  BY DEF Numbers, Places, Loaded
<1>3. job.to \in Places /\ job.from \in Places
  BY DEF GuardianTypeOK, Jobs
<1>4. parts' \in [Places -> Numbers] /\ monitor' \in [Places -> Numbers]
  <2>1. ASSUME NEW v \in Variables, Create(v)
        PROVE  parts' \in [Places -> Numbers] /\ monitor' \in [Places -> Numbers]
    BY <1>1, <2>1 DEF Create, GuardianTypeOK, OwnerTypes
  <2>2. ASSUME NEW from \in Places, NEW to \in Places, MembersMove(from, to)
        PROVE  parts' \in [Places -> Numbers] /\ monitor' \in [Places -> Numbers]
    BY <1>2, <2>2 DEF MembersMove, GuardianTypeOK
  <2>3. CASE Return
    BY <1>2, <1>3, <2>2, <2>3 DEF Return
  <2>4. ASSUME NEW from \in Variables, NEW to \in Variables,
               MoveConstruct(from, to) \/ AssignHandle(from, to)
        PROVE  parts' \in [Places -> Numbers] /\ monitor' \in [Places -> Numbers]
    BY <2>2, <2>4 DEF MoveConstruct, AssignHandle, GuardianTypeOK, Places
  <2>a. parts \in [Places -> Numbers] /\ monitor \in [Places -> Numbers]
    BY DEF GuardianTypeOK
  <2>b. \A f \in [Places -> Numbers], p, q \in Places :
          /\ [f EXCEPT ![p] = 0] \in [Places -> Numbers]
          /\ [f EXCEPT ![p] = f[q], ![q] = 0] \in [Places -> Numbers]
    BY <1>2
  <2>5. CASE AssignParts \/ AssignMonitor
    <3>1. /\ parts' \in {parts, [parts EXCEPT ![job.to] = parts[job.from], ![job.from] = 0]}
          /\ monitor' \in {monitor, [monitor EXCEPT ![job.to] = monitor[job.from],
                                                   ![job.from] = 0]}
      BY <2>5 DEF AssignParts, AssignMonitor
    <3>2. QED
      BY <1>3, <2>a, <2>b, <3>1
  <2>6. CASE DestroyMonitor \/ DestroyParts \/ DestroyHandle
    <3>1. /\ parts' \in {parts, [parts EXCEPT ![job.to] = 0]}
          /\ monitor' \in {monitor, [monitor EXCEPT ![job.to] = 0]}
      BY <2>6 DEF DestroyMonitor, DestroyParts, DestroyHandle
    <3>2. QED
      BY <1>3, <2>a, <2>b, <3>1
  <2>7. ASSUME UNCHANGED <<parts, monitor>>
        PROVE  parts' \in [Places -> Numbers] /\ monitor' \in [Places -> Numbers]
    BY <2>7 DEF GuardianTypeOK
  <2>8. QED
    BY <2>1, <2>3, <2>4, <2>5, <2>6, <2>7
       DEF GuardianNext, DestroyBegins, SwitchMonitor, EstablishBaseline, LoadBaseline,
           InstallBaseline, guardVars
<1>5. living' \in SUBSET Numbers
  <2>1. ASSUME NEW v \in Variables, Create(v) PROVE living' \in SUBSET Numbers
    BY <1>1, <2>1 DEF Create, GuardianTypeOK, OwnerTypes
  <2>2. CASE AssignParts \/ DestroyParts
    BY <2>2 DEF AssignParts, DestroyParts, GuardianTypeOK
  <2>3. CASE UNCHANGED living
    BY <2>3 DEF GuardianTypeOK
  <2>4. QED
    BY <2>1, <2>2, <2>3
       DEF GuardianNext, Return, MoveConstruct, MembersMove, AssignHandle, AssignMonitor,
           DestroyMonitor, DestroyHandle, DestroyBegins, SwitchMonitor, EstablishBaseline,
           LoadBaseline, InstallBaseline, guardVars
<1>6. watches' \in [Numbers -> Places]
  <2>1. ASSUME NEW v \in Variables, Create(v) PROVE watches' \in [Numbers -> Places]
    BY <1>1, <1>2, <2>1 DEF Create, GuardianTypeOK, OwnerTypes
  <2>2. CASE UNCHANGED watches
    BY <2>2 DEF GuardianTypeOK
  <2>3. QED
    BY <2>1, <2>2
       DEF GuardianNext, Return, MoveConstruct, MembersMove, AssignHandle, AssignParts,
           AssignMonitor, DestroyMonitor, DestroyParts, DestroyHandle, DestroyBegins,
           SwitchMonitor, EstablishBaseline, LoadBaseline, InstallBaseline, guardVars
<1>7. active' \in [Numbers -> BOOLEAN]
  <2>1. CASE AssignMonitor \/ DestroyMonitor
    BY <2>1 DEF AssignMonitor, DestroyMonitor, GuardianTypeOK
  <2>2. ASSUME NEW p \in Variables, SwitchMonitor(p)
        PROVE  active' \in [Numbers -> BOOLEAN]
    BY <2>2 DEF SwitchMonitor, GuardianTypeOK
  <2>3. CASE UNCHANGED active
    BY <2>3 DEF GuardianTypeOK
  <2>4. QED
    BY <2>1, <2>2, <2>3
       DEF GuardianNext, Create, Return, MoveConstruct, MembersMove, AssignHandle,
           AssignParts, DestroyParts, DestroyHandle, DestroyBegins,
           EstablishBaseline, LoadBaseline, InstallBaseline, guardVars
<1>8. baseline' \in [Numbers -> 0..Loaded]
  <2>1. ASSUME NEW p \in Variables, NEW b \in 0..Loaded, InstallBaseline(p, b)
        PROVE  baseline' \in [Numbers -> 0..Loaded]
    BY <2>1 DEF InstallBaseline, GuardianTypeOK
  <2>2. ASSUME NEW p \in Variables, EstablishBaseline(p) \/ LoadBaseline(p)
        PROVE  baseline' \in [Numbers -> 0..Loaded]
    <3>1. /\ descriptor[p] \in 0..Loaded /\ Loaded \in 0..Loaded
          /\ baseline[monitor[p]] \in 0..Loaded
      <4>1. Loaded \in 0..Loaded /\ p \in Places
        BY DEF Loaded, Places
      <4>2. descriptor[p] \in Numbers /\ monitor[p] \in Numbers
        BY <4>1 DEF GuardianTypeOK
      <4>3. QED
        BY <1>2, <4>1, <4>2 DEF GuardianTypeOK
    <3>2. QED
      BY <2>1, <2>2, <3>1 DEF EstablishBaseline, LoadBaseline
  <2>3. CASE UNCHANGED baseline
    BY <2>3 DEF GuardianTypeOK
  <2>4. QED
    BY <2>2, <2>3
       DEF GuardianNext, Create, Return, MoveConstruct, MembersMove, AssignHandle,
           AssignParts, AssignMonitor, DestroyMonitor, DestroyParts, DestroyHandle,
           DestroyBegins, SwitchMonitor, guardVars
<1>9. QED
  BY <1>1, <1>4, <1>5, <1>6, <1>7, <1>8 DEF GuardianTypeOK, OwnerTypes

-----------------------------------------------------------------------------
(* The members of a guardian stay together. An assignment and a            *)
(* destruction are the only times when they do not, and then it is known   *)
(* which of them has gone over already.                                    *)
Assigning == job.kind \in {"assign parts", "assign monitor"}
Destroyed == job.kind \in {"destroy parts", "destroy handle"}

WiringJob ==
  /\ Assigning => job.from # job.to /\ job.from \in Variables /\ job.to \in Variables
  /\ Assigning => object[job.from] /\ object[job.to]
  /\ Destroyed => monitor[job.to] = 0

DescriptorFollows ==
  /\ Assigning => descriptor[job.from] = 0 /\ descriptor[job.to] = monitor[job.from]
  /\ \A p \in Places : \/ descriptor[p] = monitor[p]
                       \/ Assigning /\ p \in {job.from, job.to}
                       \/ Destroyed /\ p = job.to

PartsFollow ==
  /\ job.kind = "assign monitor" =>
       parts[job.from] = 0 /\ parts[job.to] = monitor[job.from]
  /\ \A p \in Places : \/ parts[p] = monitor[p]
                       \/ job.kind = "assign monitor" /\ p \in {job.from, job.to}
                       \/ job.kind = "destroy parts" /\ p = job.to

PartsLive ==
  /\ \A p \in Places : parts[p] # 0 => parts[p] \in living /\ parts[p] <= created
  /\ \A p, q \in Places : parts[p] = parts[q] /\ p # q => parts[p] = 0

MonitorsOwned ==
  /\ \A p \in Places : ~object[p] => monitor[p] = 0
  /\ \A n \in Numbers : active[n] => n # 0 /\ \E p \in Places : monitor[p] = n
  /\ Assigning /\ ~AssignOverRunning => ~active[monitor[job.to]]

BaselineIsOwn == \A n \in Numbers : baseline[n] \in {0, n, Loaded}

WiringInv ==
  /\ GuardianTypeOK
  /\ WiringJob
  /\ DescriptorFollows
  /\ PartsFollow
  /\ PartsLive
  /\ MonitorsOwned
  /\ BaselineIsOwn

LEMMA WiringStep == OwnerInv /\ WiringInv /\ [GuardianNext]_guardVars => WiringInv'
<1> SUFFICES ASSUME OwnerInv, WiringInv, [GuardianNext]_guardVars PROVE WiringInv'
  OBVIOUS
<1> USE DEF Places
<1>0. GuardianTypeOK /\ GuardianTypeOK' /\ JobMakesSense /\ JobMakesSense'
  BY OwnerStep, TypeStep DEF OwnerInv, WiringInv
<1>t. /\ object \in [Places -> BOOLEAN]
      /\ descriptor \in [Places -> Numbers] /\ parts \in [Places -> Numbers]
      /\ monitor \in [Places -> Numbers] /\ active \in [Numbers -> BOOLEAN]
      /\ baseline \in [Numbers -> 0..Loaded]
      /\ created \in Nat /\ 0 \in Numbers /\ \A n \in Numbers : n \in Nat
      /\ job.from \in Places /\ job.to \in Places /\ Temporary \in Places
      /\ \A v \in Variables : v \in Places /\ v # Temporary
  <2>1. \A n \in Numbers : n \in Nat
    BY DEF Numbers
  <2>2. job.from \in Places /\ job.to \in Places
    BY <1>0 DEF GuardianTypeOK, Jobs
  <2>3. 0 \in Numbers
    BY DEF Numbers
  <2>4. QED
    BY <1>0, <2>1, <2>2, <2>3 DEF GuardianTypeOK
<1>i. /\ WiringJob /\ DescriptorFollows /\ PartsFollow /\ PartsLive /\ MonitorsOwned
      /\ BaselineIsOwn
  BY DEF WiringInv
<1>r. job = NoJob => ~Assigning /\ ~Destroyed /\ job.kind = "none"
  BY DEF Assigning, Destroyed, NoJob
<1>1. ASSUME NEW v \in Variables, Create(v) PROVE WiringInv'
  <2> DEFINE k == created + 1
  <2>1. /\ job' = [kind |-> "return", from |-> Temporary, to |-> v] /\ job = NoJob
        /\ UNCHANGED <<active, baseline>>
        /\ object' = [object EXCEPT ![Temporary] = TRUE]
        /\ descriptor' = [descriptor EXCEPT ![Temporary] = k]
        /\ parts' = [parts EXCEPT ![Temporary] = k]
        /\ monitor' = [monitor EXCEPT ![Temporary] = k]
        /\ living' = living \union {k} /\ created' = k
    BY <1>1 DEF Create, AtRest
  <2>2. ~Assigning' /\ ~Destroyed' /\ ~object[Temporary]
    BY <1>0, <2>1 DEF Assigning, Destroyed, JobMakesSense, NoJob
  <2>3. /\ parts'[Temporary] = k /\ monitor'[Temporary] = k /\ descriptor'[Temporary] = k
        /\ monitor[Temporary] = 0 /\ object'[Temporary]
        /\ \A p \in Variables : /\ parts'[p] = parts[p] /\ monitor'[p] = monitor[p]
                                /\ descriptor'[p] = descriptor[p] /\ object'[p] = object[p]
    BY <1>t, <1>i, <2>1, <2>2 DEF MonitorsOwned
  <2>4. \A p \in Places : descriptor[p] = monitor[p] /\ parts[p] = monitor[p]
    BY <1>i, <1>r, <2>1 DEF DescriptorFollows, PartsFollow
  <2>5. WiringJob' /\ DescriptorFollows' /\ PartsFollow'
    BY <2>2, <2>3, <2>4
       DEF WiringJob, DescriptorFollows, PartsFollow, Assigning, Destroyed
  <2>6. PartsLive'
    <3>1. \A p \in Variables : parts'[p] # k
      BY <1>t, <1>i, <2>3 DEF PartsLive
    <3>2. \A p \in Places : parts'[p] # 0 => parts'[p] \in living' /\ parts'[p] <= created'
      BY <1>t, <1>i, <2>1, <2>3 DEF PartsLive
    <3>3. ASSUME NEW p \in Places, NEW q \in Places, parts'[p] = parts'[q], p # q
          PROVE  parts'[p] = 0
      BY <1>i, <2>3, <3>1, <3>3 DEF PartsLive
    <3>4. QED
      BY <3>2, <3>3 DEF PartsLive
  <2>7. MonitorsOwned'
    <3>1. ASSUME NEW n \in Numbers, active'[n]
          PROVE  n # 0 /\ \E p \in Places : monitor'[p] = n
      BY <1>i, <2>1, <2>3, <3>1 DEF MonitorsOwned
    <3>2. ASSUME NEW p \in Places, ~object'[p] PROVE monitor'[p] = 0
      BY <1>i, <2>3, <3>2 DEF MonitorsOwned
    <3>3. QED
      BY <2>2, <3>1, <3>2 DEF MonitorsOwned
  <2>8. BaselineIsOwn'
    BY <1>i, <2>1 DEF BaselineIsOwn
  <2>9. QED
    BY <1>0, <2>5, <2>6, <2>7, <2>8 DEF WiringInv
<1>2. ASSUME NEW from \in Places, NEW to \in Places, from # to, MembersMove(from, to),
             ~Assigning, ~Assigning', ~Destroyed, ~Destroyed',
             job.kind # "destroy parts", ~object[to],
             \A p \in Places : ~object'[p] => p = from \/ (p # to /\ ~object[p])
      PROVE  WiringInv'
  <2>1. \A p \in Places : descriptor[p] = monitor[p] /\ parts[p] = monitor[p]
    BY <1>i, <1>2 DEF DescriptorFollows, PartsFollow, Assigning
  <2>2. /\ parts'[to] = parts[from] /\ monitor'[to] = monitor[from]
        /\ descriptor'[to] = descriptor[from]
        /\ parts'[from] = 0 /\ monitor'[from] = 0 /\ descriptor'[from] = 0
        /\ \A p \in Places : p # from /\ p # to =>
             /\ parts'[p] = parts[p] /\ monitor'[p] = monitor[p]
             /\ descriptor'[p] = descriptor[p]
        /\ UNCHANGED <<living, active, baseline, created>>
    BY <1>t, <1>2 DEF MembersMove
  <2>3. WiringJob' /\ DescriptorFollows' /\ PartsFollow'
    BY <1>2, <2>1, <2>2
       DEF WiringJob, DescriptorFollows, PartsFollow, Assigning, Destroyed
  <2>4. PartsLive'
    BY <1>i, <2>2 DEF PartsLive
  <2>5. MonitorsOwned'
    <3>1. monitor[to] = 0
      BY <1>i, <1>2 DEF MonitorsOwned
    <3>2. ASSUME NEW n \in Numbers, active'[n]
          PROVE  n # 0 /\ \E p \in Places : monitor'[p] = n
      <4>1. n # 0 /\ \E p \in Places : monitor[p] = n
        BY <1>i, <2>2, <3>2 DEF MonitorsOwned
      <4>2. PICK p \in Places : monitor[p] = n
        BY <4>1
      <4>3. monitor'[IF p = from THEN to ELSE p] = n
        BY <2>2, <3>1, <4>1, <4>2
      <4>4. QED
        BY <4>1, <4>3
    <3>3. \A p \in Places : ~object'[p] => monitor'[p] = 0
      BY <1>i, <1>2, <2>2 DEF MonitorsOwned
    <3>4. QED
      BY <1>2, <3>2, <3>3 DEF MonitorsOwned
  <2>6. BaselineIsOwn'
    BY <1>i, <2>2 DEF BaselineIsOwn
  <2>7. QED
    BY <1>0, <2>3, <2>4, <2>5, <2>6 DEF WiringInv
<1>3. CASE Return
  <2>1. /\ job.kind = "return" /\ MembersMove(Temporary, job.to) /\ job' = NoJob
        /\ object' = [object EXCEPT ![Temporary] = FALSE, ![job.to] = TRUE]
        /\ job.to \in Variables /\ ~object[job.to]
    BY <1>0, <1>3 DEF Return, JobMakesSense
  <2>2. /\ ~Assigning /\ ~Destroyed /\ ~Assigning' /\ ~Destroyed'
        /\ job.kind # "destroy parts"
    BY <2>1 DEF Assigning, Destroyed, NoJob
  <2>3. \A p \in Places : ~object'[p] => p = Temporary \/ (p # job.to /\ ~object[p])
    BY <1>t, <2>1
  <2>4. QED
    BY <1>t, <1>2, <2>1, <2>2, <2>3
<1>4. ASSUME NEW from \in Variables, NEW to \in Variables, MoveConstruct(from, to)
      PROVE  WiringInv'
  <2>1. /\ from # to /\ MembersMove(from, to) /\ job = NoJob /\ job' = job /\ ~object[to]
        /\ object' = [object EXCEPT ![to] = TRUE]
    BY <1>4 DEF MoveConstruct, AtRest
  <2>2. /\ ~Assigning /\ ~Destroyed /\ ~Assigning' /\ ~Destroyed'
        /\ job.kind # "destroy parts"
    BY <2>1 DEF Assigning, Destroyed, NoJob
  <2>3. \A p \in Places : ~object'[p] => p = from \/ (p # to /\ ~object[p])
    BY <1>t, <2>1
  <2>4. QED
    BY <1>t, <1>2, <2>1, <2>2, <2>3
<1>5. ASSUME NEW from \in Variables, NEW to \in Variables, AssignHandle(from, to)
      PROVE  WiringInv'
  <2>1. /\ job = NoJob /\ from # to /\ object[from] /\ object[to]
        /\ AssignOverRunning \/ ~active[monitor[to]]
        /\ descriptor' = [descriptor EXCEPT ![to] = descriptor[from], ![from] = 0]
        /\ job' = [kind |-> "assign parts", from |-> from, to |-> to]
        /\ UNCHANGED <<object, parts, monitor, living, active, baseline, created>>
    BY <1>5 DEF AssignHandle, AtRest
  <2>2. /\ Assigning' /\ ~Destroyed' /\ job'.from = from /\ job'.to = to
        /\ job'.kind = "assign parts"
    BY <2>1 DEF Assigning, Destroyed
  <2>3. \A p \in Places : descriptor[p] = monitor[p] /\ parts[p] = monitor[p]
    BY <1>i, <1>r, <2>1 DEF DescriptorFollows, PartsFollow
  <2>4. /\ descriptor'[to] = descriptor[from] /\ descriptor'[from] = 0
        /\ \A p \in Places : p # from /\ p # to => descriptor'[p] = descriptor[p]
    BY <1>t, <2>1
  <2>5. WiringJob' /\ DescriptorFollows' /\ PartsFollow'
    BY <2>1, <2>2, <2>3, <2>4 DEF WiringJob, DescriptorFollows, PartsFollow
  <2>6. PartsLive' /\ MonitorsOwned' /\ BaselineIsOwn'
    BY <1>i, <2>1, <2>2 DEF PartsLive, MonitorsOwned, BaselineIsOwn
  <2>7. QED
    BY <1>0, <2>5, <2>6 DEF WiringInv
<1>6. CASE AssignParts
  <2> DEFINE from == job.from
             to == job.to
  <2>1. /\ job.kind = "assign parts" /\ Assigning /\ ~Destroyed
        /\ living' = living \ {parts[to]}
        /\ parts' = [parts EXCEPT ![to] = parts[from], ![from] = 0]
        /\ job' = [job EXCEPT !.kind = "assign monitor"]
        /\ UNCHANGED <<object, descriptor, monitor, active, baseline, created>>
    BY <1>6 DEF AssignParts, Assigning, Destroyed
  <2>2. /\ job'.kind = "assign monitor" /\ job'.from = from /\ job'.to = to
        /\ Assigning' /\ ~Destroyed'
    BY <1>0, <2>1 DEF GuardianTypeOK, Jobs, Assigning, Destroyed
  <2>3. from # to /\ from \in Places /\ to \in Places
    BY <1>i, <2>1 DEF WiringJob
  <2>4. \A p \in Places : parts[p] = monitor[p]
    BY <1>i, <2>1 DEF PartsFollow
  <2>5. /\ parts'[to] = parts[from] /\ parts'[from] = 0
        /\ \A p \in Places : p # from /\ p # to => parts'[p] = parts[p]
    BY <1>t, <2>1, <2>3
  <2>6. WiringJob' /\ DescriptorFollows' /\ PartsFollow'
    BY <1>i, <2>1, <2>2, <2>4, <2>5 DEF WiringJob, DescriptorFollows, PartsFollow
  <2>7. PartsLive'
    <3>1. living' = living \ {parts[to]} /\ UNCHANGED created
      BY <2>1
    <3>2. ASSUME NEW p \in Places, parts'[p] # 0
          PROVE  parts'[p] \in living' /\ parts'[p] <= created'
      <4>1. PICK q \in Places : parts'[p] = parts[q] /\ q # to
        BY <2>3, <2>5, <3>2
      <4>2. parts[q] # parts[to]
        BY <1>i, <2>3, <3>2, <4>1 DEF PartsLive
      <4>3. QED
        BY <1>i, <3>1, <3>2, <4>1, <4>2 DEF PartsLive
    <3>3. ASSUME NEW p \in Places, NEW q \in Places, parts'[p] = parts'[q], p # q
          PROVE  parts'[p] = 0
      BY <1>i, <2>3, <2>5, <3>3 DEF PartsLive
    <3>4. QED
      BY <3>2, <3>3 DEF PartsLive
  <2>8. MonitorsOwned' /\ BaselineIsOwn'
    BY <1>i, <2>1, <2>2 DEF MonitorsOwned, BaselineIsOwn
  <2>9. QED
    BY <1>0, <2>6, <2>7, <2>8 DEF WiringInv
<1>7. CASE AssignMonitor
  <2> DEFINE from == job.from
             to == job.to
  <2>1. /\ job.kind = "assign monitor" /\ Assigning /\ ~Destroyed
        /\ active' = [active EXCEPT ![monitor[to]] = FALSE]
        /\ monitor' = [monitor EXCEPT ![to] = monitor[from], ![from] = 0]
        /\ job' = NoJob
        /\ UNCHANGED <<object, descriptor, parts, living, baseline, created>>
    BY <1>7 DEF AssignMonitor, Assigning, Destroyed
  <2>2. ~Assigning' /\ ~Destroyed'
    BY <2>1 DEF Assigning, Destroyed, NoJob
  <2>3. from # to /\ from \in Places /\ to \in Places /\ object[from] /\ object[to]
    BY <1>i, <2>1 DEF WiringJob
  <2>4. /\ monitor'[to] = monitor[from] /\ monitor'[from] = 0
        /\ \A p \in Places : p # from /\ p # to => monitor'[p] = monitor[p]
    BY <1>t, <2>1, <2>3
  <2>5. DescriptorFollows' /\ PartsFollow' /\ WiringJob'
    <3>1. ASSUME NEW p \in Places
          PROVE  descriptor'[p] = monitor'[p] /\ parts'[p] = monitor'[p]
      <4>1. CASE p # from /\ p # to
        BY <1>i, <2>1, <2>4, <4>1 DEF DescriptorFollows, PartsFollow
      <4>2. CASE p = to
        BY <1>i, <2>1, <2>3, <2>4, <4>2 DEF DescriptorFollows, PartsFollow
      <4>3. CASE p = from
        BY <1>i, <2>1, <2>3, <2>4, <4>3 DEF DescriptorFollows, PartsFollow
      <4>4. QED
        BY <4>1, <4>2, <4>3
    <3>2. QED
      BY <2>2, <3>1
         DEF WiringJob, DescriptorFollows, PartsFollow, Assigning, Destroyed
  <2>6. PartsLive' /\ BaselineIsOwn'
    BY <1>i, <2>1 DEF PartsLive, BaselineIsOwn
  <2>7. MonitorsOwned'
    <3>1. ASSUME NEW n \in Numbers, active'[n]
          PROVE  n # 0 /\ \E p \in Places : monitor'[p] = n
      <4>1. active[n] /\ n # monitor[to]
        BY <1>t, <2>1, <3>1
      <4>2. n # 0 /\ \E p \in Places : monitor[p] = n
        BY <1>i, <4>1 DEF MonitorsOwned
      <4>3. PICK p \in Places : monitor[p] = n
        BY <4>2
      <4>4. monitor'[IF p = from THEN to ELSE p] = n
        BY <2>3, <2>4, <4>1, <4>3
      <4>5. QED
        BY <2>3, <4>2, <4>4
    <3>2. \A p \in Places : ~object'[p] => monitor'[p] = 0
      BY <1>i, <2>1, <2>3, <2>4 DEF MonitorsOwned
    <3>3. QED
      BY <2>2, <3>1, <3>2 DEF MonitorsOwned
  <2>8. QED
    BY <1>0, <2>5, <2>6, <2>7 DEF WiringInv
<1>8. ASSUME NEW p \in Variables, DestroyBegins(p) PROVE WiringInv'
  <2>1. /\ job = NoJob
        /\ job' = [kind |-> "destroy monitor", from |-> p, to |-> p]
        /\ UNCHANGED <<object, descriptor, parts, monitor, living, active, baseline,
                       created>>
    BY <1>8 DEF DestroyBegins, AtRest
  <2>2. ~Assigning' /\ ~Destroyed' /\ job'.kind = "destroy monitor"
    BY <2>1 DEF Assigning, Destroyed
  <2>3. \A q \in Places : descriptor[q] = monitor[q] /\ parts[q] = monitor[q]
    BY <1>i, <1>r, <2>1 DEF DescriptorFollows, PartsFollow
  <2>4. WiringJob' /\ DescriptorFollows' /\ PartsFollow'
    BY <2>1, <2>2, <2>3 DEF WiringJob, DescriptorFollows, PartsFollow
  <2>5. PartsLive' /\ MonitorsOwned' /\ BaselineIsOwn'
    BY <1>i, <2>1, <2>2 DEF PartsLive, MonitorsOwned, BaselineIsOwn
  <2>6. QED
    BY <1>0, <2>4, <2>5 DEF WiringInv
<1>9. CASE DestroyMonitor
  <2> DEFINE to == job.to
  <2>1. /\ job.kind = "destroy monitor" /\ ~Assigning /\ ~Destroyed
        /\ active' = [active EXCEPT ![monitor[to]] = FALSE]
        /\ monitor' = [monitor EXCEPT ![to] = 0]
        /\ job' = [job EXCEPT !.kind = "destroy parts"]
        /\ UNCHANGED <<object, descriptor, parts, living, baseline, created>>
    BY <1>9 DEF DestroyMonitor, Assigning, Destroyed
  <2>2. /\ ~Assigning' /\ Destroyed' /\ job'.kind = "destroy parts" /\ job'.to = to
    BY <1>0, <2>1 DEF GuardianTypeOK, Jobs, Assigning, Destroyed
  <2>3. /\ monitor'[to] = 0 /\ \A p \in Places : p # to => monitor'[p] = monitor[p]
    BY <1>t, <2>1
  <2>4. WiringJob' /\ DescriptorFollows' /\ PartsFollow'
    BY <1>i, <2>1, <2>2, <2>3 DEF WiringJob, DescriptorFollows, PartsFollow
  <2>5. PartsLive' /\ BaselineIsOwn'
    BY <1>i, <2>1 DEF PartsLive, BaselineIsOwn
  <2>6. MonitorsOwned'
    <3>1. ASSUME NEW n \in Numbers, active'[n]
          PROVE  n # 0 /\ \E p \in Places : monitor'[p] = n
      <4>1. active[n] /\ n # monitor[to]
        BY <1>t, <2>1, <3>1
      <4>2. QED
        BY <1>i, <2>3, <4>1 DEF MonitorsOwned
    <3>2. \A p \in Places : ~object'[p] => monitor'[p] = 0
      BY <1>i, <2>1, <2>3 DEF MonitorsOwned
    <3>3. QED
      BY <2>2, <3>1, <3>2 DEF MonitorsOwned
  <2>7. QED
    BY <1>0, <2>4, <2>5, <2>6 DEF WiringInv
<1>10. CASE DestroyParts
  <2> DEFINE to == job.to
  <2>1. /\ job.kind = "destroy parts" /\ ~Assigning /\ Destroyed
        /\ living' = living \ {parts[to]}
        /\ parts' = [parts EXCEPT ![to] = 0]
        /\ job' = [job EXCEPT !.kind = "destroy handle"]
        /\ UNCHANGED <<object, descriptor, monitor, active, baseline, created>>
    BY <1>10 DEF DestroyParts, Assigning, Destroyed
  <2>2. /\ ~Assigning' /\ Destroyed' /\ job'.kind = "destroy handle" /\ job'.to = to
    BY <1>0, <2>1 DEF GuardianTypeOK, Jobs, Assigning, Destroyed
  <2>3. /\ parts'[to] = 0 /\ \A p \in Places : p # to => parts'[p] = parts[p]
        /\ monitor[to] = 0
    BY <1>t, <1>i, <2>1 DEF WiringJob
  <2>4. WiringJob' /\ DescriptorFollows' /\ PartsFollow'
    BY <1>i, <2>1, <2>2, <2>3 DEF WiringJob, DescriptorFollows, PartsFollow
  <2>5. PartsLive'
    BY <1>t, <1>i, <2>1, <2>3 DEF PartsLive
  <2>6. MonitorsOwned' /\ BaselineIsOwn'
    BY <1>i, <2>1, <2>2 DEF MonitorsOwned, BaselineIsOwn
  <2>7. QED
    BY <1>0, <2>4, <2>5, <2>6 DEF WiringInv
<1>11. CASE DestroyHandle
  <2> DEFINE to == job.to
  <2>1. /\ job.kind = "destroy handle" /\ ~Assigning /\ Destroyed
        /\ descriptor' = [descriptor EXCEPT ![to] = 0]
        /\ object' = [object EXCEPT ![to] = FALSE]
        /\ job' = NoJob
        /\ UNCHANGED <<parts, monitor, living, active, baseline, created>>
    BY <1>11 DEF DestroyHandle, Assigning, Destroyed
  <2>2. ~Assigning' /\ ~Destroyed' /\ job'.kind = "none"
    BY <2>1 DEF Assigning, Destroyed, NoJob
  <2>3. /\ descriptor'[to] = 0 /\ monitor[to] = 0
        /\ \A p \in Places : p # to => descriptor'[p] = descriptor[p]
        /\ \A p \in Places : p # to => object'[p] = object[p]
    BY <1>t, <1>i, <2>1 DEF WiringJob
  <2>4. WiringJob' /\ DescriptorFollows' /\ PartsFollow'
    BY <1>i, <2>1, <2>2, <2>3 DEF WiringJob, DescriptorFollows, PartsFollow
  <2>5. PartsLive' /\ BaselineIsOwn'
    BY <1>i, <2>1 DEF PartsLive, BaselineIsOwn
  <2>6. MonitorsOwned'
    BY <1>i, <2>1, <2>2, <2>3 DEF MonitorsOwned
  <2>7. QED
    BY <1>0, <2>4, <2>5, <2>6 DEF WiringInv
<1>12. ASSUME NEW p \in Variables, SwitchMonitor(p) PROVE WiringInv'
  <2>1. /\ monitor[p] # 0 /\ job = NoJob
        /\ active' = [active EXCEPT ![monitor[p]] = ~@]
        /\ UNCHANGED <<object, descriptor, parts, monitor, living, baseline, created, job>>
    BY <1>12 DEF SwitchMonitor, Usable, AtRest
  <2>2. \A n \in Numbers : active'[n] => active[n] \/ n = monitor[p]
    BY <1>t, <2>1
  <2>3. ~Assigning /\ ~Assigning' /\ ~Destroyed /\ ~Destroyed'
    BY <2>1 DEF Assigning, Destroyed, NoJob
  <2>4. WiringJob' /\ DescriptorFollows' /\ PartsFollow' /\ PartsLive' /\ BaselineIsOwn'
    BY <1>i, <2>1, <2>3
       DEF WiringJob, DescriptorFollows, PartsFollow, PartsLive, BaselineIsOwn
  <2>5. MonitorsOwned'
    BY <1>i, <2>1, <2>2, <2>3 DEF MonitorsOwned
  <2>6. QED
    BY <1>0, <2>4, <2>5 DEF WiringInv
<1>13. ASSUME UNCHANGED <<object, descriptor, parts, monitor, living, active, job, created>>,
              BaselineIsOwn'
       PROVE  WiringInv'
  BY <1>0, <1>i, <1>13
     DEF WiringInv, WiringJob, Assigning, Destroyed, DescriptorFollows, PartsFollow,
         PartsLive, MonitorsOwned
<1>14. ASSUME NEW p \in Variables, EstablishBaseline(p) \/ LoadBaseline(p)
       PROVE  WiringInv'
  <2>1. PICK b : InstallBaseline(p, b) /\ b \in {descriptor[p], Loaded, baseline[monitor[p]]}
    BY <1>14 DEF EstablishBaseline, LoadBaseline
  <2>2. descriptor[p] = monitor[p] /\ monitor[p] \in Numbers
    BY <1>i, <1>r, <1>t, <1>14
       DEF DescriptorFollows, EstablishBaseline, LoadBaseline, Usable, AtRest
  <2>3. baseline' = [baseline EXCEPT ![monitor[p]] = b]
    BY <2>1 DEF InstallBaseline
  <2>4. baseline'[monitor[p]] = b /\ \A n \in Numbers : n # monitor[p] => baseline'[n] = baseline[n]
    BY <1>t, <2>2, <2>3
  <2>5. BaselineIsOwn'
    BY <1>i, <2>1, <2>2, <2>4 DEF BaselineIsOwn
  <2>6. QED
    BY <1>13, <2>1, <2>5 DEF InstallBaseline
<1>15. CASE UNCHANGED guardVars
  BY <1>13, <1>15, <1>i DEF guardVars, BaselineIsOwn
<1>16. QED
  BY <1>1, <1>3, <1>4, <1>5, <1>6, <1>7, <1>8, <1>9, <1>10, <1>11, <1>12, <1>14, <1>15
     DEF GuardianNext

(* The wiring holds in every state.                                        *)
LEMMA WiringInvariant == GuardianSpec => [](OwnerInv /\ WiringInv)
<1>1. GuardianInit => OwnerInv
  BY DEF GuardianInit, OwnerInv, OwnerTypes, JobMakesSense, NoJob, Jobs, Numbers, Places
<1>2. GuardianInit => WiringInv
  <2> SUFFICES ASSUME GuardianInit PROVE WiringInv
    OBVIOUS
  <2>1. 0 \in Numbers /\ Temporary \in Places /\ NoJob \in Jobs /\ 0 \in 0..Loaded
    BY DEF Numbers, Places, NoJob, Jobs, Loaded
  <2>2. GuardianTypeOK
    BY <2>1 DEF GuardianInit, GuardianTypeOK
  <2>3. ~Assigning /\ ~Destroyed
    BY DEF GuardianInit, Assigning, Destroyed, NoJob
  <2>4. QED
    BY <2>1, <2>2, <2>3
       DEF GuardianInit, WiringInv, WiringJob, DescriptorFollows, PartsFollow,
           PartsLive, MonitorsOwned, BaselineIsOwn, NoJob
<1>3. QED
  BY <1>1, <1>2, OwnerStep, WiringStep, PTL DEF GuardianSpec

(* The state of a guardian has its type.                                   *)
THEOREM GuardianTypesHold == GuardianSpec => []GuardianTypeOK
<1>1. WiringInv => GuardianTypeOK
  BY DEF WiringInv
<1>2. QED
  BY <1>1, WiringInvariant, PTL

(* Between calls the baseline of a guardian's monitor is of the process    *)
(* its handle reads, whatever was moved and assigned before.               *)
THEOREM BaselineIsOfTarget == GuardianSpec => []BaselineFitsTarget
<1>1. WiringInv => BaselineFitsTarget
  <2> SUFFICES ASSUME WiringInv, AtRest, NEW p \in Places, object[p], monitor[p] # 0
               PROVE  baseline[monitor[p]] \in {0, Loaded, descriptor[p]}
    BY DEF BaselineFitsTarget
  <2>1. ~Assigning /\ ~Destroyed
    BY DEF AtRest, NoJob, Assigning, Destroyed
  <2>2. descriptor[p] = monitor[p]
    BY <2>1 DEF WiringInv, DescriptorFollows
  <2>3. monitor[p] \in Numbers
    BY DEF WiringInv, GuardianTypeOK
  <2>4. QED
    BY <2>2, <2>3 DEF WiringInv, BaselineIsOwn
<1>2. QED
  BY <1>1, WiringInvariant, PTL

(* As long as no guardian is replaced while its monitor runs, a monitor    *)
(* runs only over living parts: moves and destruction keep them alive.     *)
THEOREM RunningMonitorsKeepParts ==
  ASSUME ~AssignOverRunning
  PROVE  GuardianSpec => []RunningMonitorHasParts
<1>1. WiringInv => RunningMonitorHasParts
  <2> SUFFICES ASSUME WiringInv, NEW n \in Numbers, active[n]
               PROVE  n \in living
    BY DEF RunningMonitorHasParts
  <2>1. n # 0 /\ \E p \in Places : monitor[p] = n
    BY DEF WiringInv, MonitorsOwned
  <2>2. PICK p \in Places : monitor[p] = n
    BY <2>1
  <2>3. \A q \in Places : parts[q] # 0 => parts[q] \in living
    BY DEF WiringInv, PartsLive
  <2>4. CASE parts[p] = n
    BY <2>1, <2>3, <2>4
  <2>5. CASE parts[p] # n /\ job.kind = "assign monitor"
    <3>1. Assigning
      BY <2>5 DEF Assigning
    <3>2. p # job.to
      BY <2>2, <3>1 DEF WiringInv, MonitorsOwned
    <3>3. p = job.from /\ job.to \in Places
      BY <2>2, <2>5, <3>1, <3>2 DEF WiringInv, PartsFollow, WiringJob, Places
    <3>4. parts[job.to] = n
      BY <2>2, <2>5, <3>3 DEF WiringInv, PartsFollow
    <3>5. QED
      BY <2>1, <2>3, <3>3, <3>4
  <2>6. CASE job.kind = "destroy parts"
    BY <2>1, <2>2, <2>3, <2>6
       DEF WiringInv, PartsFollow, WiringJob, Destroyed
  <2>7. QED
    BY <2>2, <2>4, <2>5, <2>6 DEF WiringInv, PartsFollow
<1>2. QED
  BY <1>1, WiringInvariant, PTL

-----------------------------------------------------------------------------
(***************************************************************************)
(* CommandLine: what main() of rmg-cli answers, and what it takes for a    *)
(* baseline while the generator writes one.                                *)
(***************************************************************************)
HIDE GuardianAssumption

(* rmg-cli. What was met before the program ends decides its code: no      *)
(* failure so far, an anomaly exactly when something was found, and the    *)
(* operations that main() has passed are in ran if they were asked for.    *)
Troubles == {"failure", "tampered", "hooked"}
AfterList == {"integrity", "read", "load", "detect-hooks", "finish"}
AfterIntegrity == {"detect-hooks", "finish"}
Stages == {"parsing", "list-modules", "exited"} \union AfterList

OperationsRun ==
  /\ cli \in AfterList /\ "list-modules" \in options => "list-modules" \in ran
  /\ cli \in {"read", "load"} => "load-baseline" \in ran /\ "load-baseline" \in options
  /\ cli \in AfterIntegrity /\ "load-baseline" \in options => "load-baseline" \in ran
  /\ cli \in AfterIntegrity /\ "check-integrity" \in options =>
       "check-integrity" \in ran \/ "load-baseline" \in ran
  /\ cli = "finish" /\ "detect-hooks" \in options => "detect-hooks" \in ran

CliInv ==
  /\ cli \in Stages /\ trouble \subseteq Troubles
  /\ anomalyFound \in BOOLEAN
  /\ anomalyFound <=> \E t \in trouble : t # "failure"
  /\ cli # "exited" => "failure" \notin trouble
  /\ ran = {} => trouble = {}
  /\ cli = "parsing" => ran = {}
  /\ OperationsRun
  /\ ExitCodeIsHonest

(* An operation that was run fails,                                        *)
LEMMA FailureIsHonest ==
  ASSUME CliInv, cli # "exited", Fails, ran' # {}
  PROVE  CliInv'
<1>1. /\ trouble' = trouble \union {"failure"} /\ cli' = "exited" /\ cliExit' = 1
      /\ anomalyFound' = anomalyFound
  BY DEF Fails, Exit
<1>2. cli' \in Stages /\ trouble' \subseteq Troubles /\ anomalyFound' \in BOOLEAN
  BY <1>1 DEF CliInv, Stages, Troubles
<1>3. (anomalyFound <=> \E t \in trouble : t # "failure")'
  BY <1>1 DEF CliInv
<1>4. OperationsRun'
  BY <1>1 DEF OperationsRun, AfterList, AfterIntegrity
<1>5. ExitCodeIsHonest'
  BY <1>1 DEF ExitCodeIsHonest
<1>6. QED
  BY <1>1, <1>2, <1>3, <1>4, <1>5 DEF CliInv

(* or reports, and main() goes on after it, where its operations are run.  *)
LEMMA ReportIsHonest ==
  ASSUME CliInv, cli # "exited", NEW what \in {"nothing", "tampered", "hooked"},
         NEW next \in AfterList, Reports(what, next), ran' # {}, OperationsRun'
  PROVE  CliInv'
<1>1. /\ cli' = next /\ cli' # "exited" /\ cli' # "parsing" /\ cli' \in Stages
  BY DEF Reports, AfterList, Stages
<1>2. CASE UNCHANGED <<anomalyFound, trouble>>
  BY <1>1, <1>2 DEF CliInv, ExitCodeIsHonest
<1>3. CASE what # "nothing" /\ anomalyFound' = TRUE /\ trouble' = trouble \union {what}
  <2>1. /\ trouble' \subseteq Troubles /\ "failure" \notin trouble'
        /\ what \in trouble' /\ what # "failure"
    BY <1>3 DEF CliInv, Troubles
  <2>2. QED
    BY <1>1, <1>3, <2>1 DEF CliInv, ExitCodeIsHonest
<1>4. QED
  BY <1>2, <1>3 DEF Reports

(* or was not asked for.                                                   *)
LEMMA SkipIsHonest ==
  ASSUME CliInv, cli # "exited", NEW next \in AfterList, Skips(next), OperationsRun'
  PROVE  CliInv'
<1>1. /\ cli' = next /\ cli' # "exited" /\ cli' # "parsing" /\ cli' \in Stages
  BY DEF Skips, AfterList, Stages
<1>2. QED
  BY <1>1 DEF Skips, CliInv, ExitCodeIsHonest

LEMMA CliStep == CliInv /\ [CommandNext]_commandVars => CliInv'
<1> SUFFICES ASSUME CliInv, [CommandNext]_commandVars PROVE CliInv'
  OBVIOUS
<1>1. CASE ParseArgument
  <2>1. UNCHANGED <<anomalyFound, ran, trouble>> /\ cli = "parsing"
    BY <1>1 DEF ParseArgument
  <2>2. cli' = cli \/ (cli' = "exited" /\ cliExit' = 1)
    BY <1>1 DEF ParseArgument, Exit
  <2>3. trouble = {}
    BY <2>1 DEF CliInv
  <2>4. OperationsRun' /\ ExitCodeIsHonest'
    BY <2>1, <2>2, <2>3 DEF OperationsRun, AfterList, AfterIntegrity, ExitCodeIsHonest
  <2>5. QED
    BY <2>1, <2>2, <2>4 DEF CliInv, Stages
<1>2. CASE ParseEnds
  <2>1. UNCHANGED <<options, anomalyFound, ran, trouble>> /\ cli = "parsing"
    BY <1>2 DEF ParseEnds
  <2>2. \/ cli' = "list-modules"
        \/ cli' = "exited" /\ cliExit' = 1
        \/ cli' = "exited" /\ cliExit' = 0 /\ (options = {} \/ "help" \in options \/ "version" \in options)
    BY <1>2 DEF ParseEnds, Exit
  <2>3. trouble = {}
    BY <2>1 DEF CliInv
  <2>4. OperationsRun' /\ ExitCodeIsHonest'
    BY <2>1, <2>2, <2>3 DEF OperationsRun, AfterList, AfterIntegrity, ExitCodeIsHonest
  <2>5. QED
    BY <2>1, <2>2, <2>4 DEF CliInv, Stages
<1>3. CASE RunListModules
  <2>1. cli = "list-modules" /\ options' = options
    BY <1>3 DEF RunListModules
  <2>2. CASE cli \in options /\ ran' = ran \union {cli} /\ Fails
    BY <2>1, <2>2, FailureIsHonest
  <2>3. CASE cli \in options /\ ran' = ran \union {cli} /\ Reports("nothing", "integrity")
    <3>1. OperationsRun'
      BY <2>1, <2>3 DEF OperationsRun, Reports, AfterIntegrity
    <3>2. QED
      BY <2>1, <2>3, <3>1, ReportIsHonest DEF AfterList
  <2>4. CASE cli \notin options /\ Skips("integrity")
    <3>1. OperationsRun'
      BY <2>1, <2>4 DEF OperationsRun, Skips, AfterIntegrity
    <3>2. QED
      BY <2>1, <2>4, <3>1, SkipIsHonest DEF AfterList
  <2>5. QED
    BY <1>3, <2>2, <2>3, <2>4 DEF RunListModules
<1>4. CASE RunCheckIntegrity
  <2>1. cli = "integrity" /\ options' = options /\ "load-baseline" \notin options
    BY <1>4 DEF RunCheckIntegrity
  <2>2. CASE ran' = ran \union {"check-integrity"} /\ Fails
    BY <2>1, <2>2, FailureIsHonest
  <2>3. CASE ran' = ran \union {"check-integrity"} /\ Reports("tampered", "detect-hooks")
    <3>1. OperationsRun'
      BY <2>1, <2>3 DEF CliInv, OperationsRun, Reports, AfterList
    <3>2. QED
      BY <2>1, <2>3, <3>1, ReportIsHonest DEF AfterList
  <2>4. CASE "check-integrity" \notin options /\ Skips("detect-hooks")
    <3>1. OperationsRun'
      BY <2>1, <2>4 DEF CliInv, OperationsRun, Skips, AfterList
    <3>2. QED
      BY <2>1, <2>4, <3>1, SkipIsHonest DEF AfterList
  <2>5. QED
    BY <1>4, <2>2, <2>3, <2>4 DEF RunCheckIntegrity
<1>5. CASE OpenBaseline
  <2>1. /\ cli = "integrity" /\ options' = options /\ "load-baseline" \in options
        /\ ran' = ran \union {"load-baseline"}
    BY <1>5 DEF OpenBaseline
  <2>2. CASE Fails
    BY <2>1, <2>2, FailureIsHonest
  <2>3. CASE cli' = "read" /\ UNCHANGED <<anomalyFound, trouble>>
    <3>1. OperationsRun'
      BY <2>1, <2>3 DEF CliInv, OperationsRun, AfterList, AfterIntegrity
    <3>2. QED
      BY <2>1, <2>3, <3>1 DEF CliInv, Stages, AfterList, ExitCodeIsHonest
  <2>4. QED
    BY <1>5, <2>2, <2>3 DEF OpenBaseline
<1>6. CASE ReadBaseline
  <2>1. /\ cli = "read" /\ UNCHANGED <<options, ran>> /\ ran # {}
    BY <1>6 DEF ReadBaseline, CliInv, OperationsRun
  <2>2. CASE Fails
    BY <2>1, <2>2, FailureIsHonest
  <2>3. CASE cli' \in {"read", "load"} /\ UNCHANGED <<anomalyFound, trouble>>
    <3>1. OperationsRun'
      BY <2>1, <2>3 DEF CliInv, OperationsRun, AfterList, AfterIntegrity
    <3>2. QED
      BY <2>1, <2>3, <3>1 DEF CliInv, Stages, AfterList, ExitCodeIsHonest
  <2>4. QED
    BY <1>6, <2>1, <2>2, <2>3 DEF ReadBaseline, ReadsOn, ReadsAll
<1>7. CASE LoadAndVerify
  <2>1. /\ cli = "load" /\ UNCHANGED <<options, ran>> /\ ran # {}
    BY <1>7 DEF LoadAndVerify, CliInv, OperationsRun
  <2>2. CASE Fails
    BY <2>1, <2>2, FailureIsHonest
  <2>3. CASE Reports("tampered", "detect-hooks")
    <3>1. OperationsRun'
      BY <2>1, <2>3 DEF CliInv, OperationsRun, AfterList, AfterIntegrity, Reports
    <3>2. QED
      BY <2>1, <2>3, <3>1, ReportIsHonest DEF AfterList
  <2>4. QED
    BY <1>7, <2>2, <2>3 DEF LoadAndVerify
<1>8. CASE RunDetectHooks
  <2>1. cli = "detect-hooks" /\ options' = options
    BY <1>8 DEF RunDetectHooks
  <2>2. CASE ran' = ran \union {cli} /\ Fails
    BY <2>1, <2>2, FailureIsHonest
  <2>3. CASE ran' = ran \union {cli} /\ Reports("hooked", "finish")
    <3>1. OperationsRun'
      BY <2>1, <2>3 DEF CliInv, OperationsRun, AfterList, AfterIntegrity, Reports
    <3>2. QED
      BY <2>1, <2>3, <3>1, ReportIsHonest DEF AfterList
  <2>4. CASE cli \notin options /\ Skips("finish")
    <3>1. OperationsRun'
      BY <2>1, <2>4 DEF CliInv, OperationsRun, AfterList, AfterIntegrity, Skips
    <3>2. QED
      BY <2>1, <2>4, <3>1, SkipIsHonest DEF AfterList
  <2>5. QED
    BY <1>8, <2>2, <2>3, <2>4 DEF RunDetectHooks
<1>9. CASE Finish
  <2>1. /\ cli = "finish" /\ cli' = "exited"
        /\ cliExit' = IF ran = {} THEN 1 ELSE IF anomalyFound THEN 2 ELSE 0
        /\ UNCHANGED <<options, anomalyFound, ran, trouble>>
    BY <1>9 DEF Finish, Exit
  <2>2. OperationsRun'
    BY <2>1 DEF OperationsRun, AfterList, AfterIntegrity
  <2>3. /\ "failure" \notin trouble
        /\ anomalyFound <=> trouble # {}
    BY <2>1 DEF CliInv
  <2>4. /\ (options \intersect Operations) \ ran \subseteq {"check-integrity"}
        /\ "check-integrity" \in (options \ ran) => "load-baseline" \in ran
    BY <2>1 DEF CliInv, OperationsRun, AfterList, AfterIntegrity, Operations
  <2>5. ExitCodeIsHonest'
    <3>1. (cliExit' = 2 <=> trouble' # {} /\ "failure" \notin trouble')
      BY <2>1, <2>3 DEF CliInv
    <3>2. cliExit' = 0 => trouble' = {} /\ ran' # {}
      BY <2>1, <2>3
    <3>3. QED
      BY <2>1, <2>4, <3>1, <3>2 DEF ExitCodeIsHonest
  <2>6. QED
    BY <2>1, <2>2, <2>3, <2>5 DEF CliInv, Stages
<1>10. CASE UNCHANGED cliVars
  BY <1>10 DEF cliVars, CliInv, OperationsRun, ExitCodeIsHonest
<1>11. QED
  BY <1>1, <1>2, <1>3, <1>4, <1>5, <1>6, <1>7, <1>8, <1>9, <1>10
     DEF CommandNext, commandVars, GeneratorStarts, GeneratorCaptures, OpenOutput,
         WriteOutput, CloseOutput

(* The exit code of rmg-cli tells what it found, whatever options it was   *)
(* given and whatever the generator does to the file meanwhile.            *)
THEOREM ExitCodesAreHonest == CommandSpec => []ExitCodeIsHonest
<1>1. CommandInit => CliInv
  BY DEF CommandInit, CliInv, OperationsRun, Stages, AfterList, AfterIntegrity, Troubles,
         ExitCodeIsHonest
<1>2. CliInv => ExitCodeIsHonest
  BY DEF CliInv
<1>3. QED
  BY <1>1, <1>2, CliStep, PTL DEF CommandSpec

-----------------------------------------------------------------------------
(* The file. It always holds the beginning of what one run wrote, of the   *)
(* present run while that writes; a piece knows its place and how many     *)
(* there should be. What rmg-cli has read is in place, and a prefix of the *)
(* file while it reads, unless the file was truncated between two reads.   *)
Piece == [run : Nat, place : Nat, count : Nat]

BeginningOf(s, r, n) ==
  Len(s) <= n /\ \A i \in 1..Len(s) : s[i] = [run |-> r, place |-> i, count |-> n]

Beginning(s) ==
  s # <<>> => \E r \in 1..runs, n \in 1..MaxPieces : BeginningOf(s, r, n)

PrefixOf(s, t) == Len(s) <= Len(t) /\ \A i \in 1..Len(s) : s[i] = t[i]

FileTypes ==
  /\ baselineFile \in Seq(Piece) /\ bytes \in Seq(Piece)
  /\ size \in Nat /\ runs \in Nat /\ pieces \in 0..MaxPieces
  /\ rewritten \in BOOLEAN

ReaderInv ==
  /\ cli \in {"parsing", "list-modules", "integrity"} => bytes = <<>>
  /\ \A i \in 1..Len(bytes) : bytes[i].place = i
  /\ ~rewritten => Beginning(bytes)
  /\ ~rewritten /\ cli = "read" => PrefixOf(bytes, baselineFile)
  /\ cli = "detect-hooks" /\ bytes # <<>> => bytes[1].count <= Len(bytes)

FileInv ==
  /\ FileTypes
  /\ generator # "idle" => runs >= 1
  /\ generator \in {"open", "write", "close"} => pieces >= 1
  /\ generator \in {"write", "close"} => BeginningOf(baselineFile, runs, pieces)
  /\ Beginning(baselineFile)
  /\ ReaderInv

LEMMA BaselineBegins ==
  ASSUME NEW r \in Nat, NEW n \in Nat
  PROVE  Baseline(r, n) \in Seq(Piece) /\ BeginningOf(Baseline(r, n), r, n)
<1>1. Baseline(r, n) \in [1..n -> Piece]
  BY DEF Baseline, Piece
<1>2. Baseline(r, n) \in Seq(Piece) /\ Len(Baseline(r, n)) = n
  BY <1>1
<1>3. QED
  BY <1>2 DEF Baseline, BeginningOf

LEMMA BeginningGrows ==
  ASSUME NEW s \in Seq(Piece), NEW r \in Nat, NEW n \in Nat, BeginningOf(s, r, n), Len(s) < n
  PROVE  LET t == Append(s, Baseline(r, n)[Len(s) + 1])
         IN t \in Seq(Piece) /\ BeginningOf(t, r, n)
<1> DEFINE e == Baseline(r, n)[Len(s) + 1]
           t == Append(s, e)
<1>1. e = [run |-> r, place |-> Len(s) + 1, count |-> n]
  BY DEF Baseline
<1>2. e \in Piece
  BY <1>1 DEF Piece
<1> HIDE DEF e
<1>3. t \in Seq(Piece) /\ Len(t) = Len(s) + 1
  BY <1>2
<1>4. \A i \in 1..Len(t) : t[i] = [run |-> r, place |-> i, count |-> n]
  BY <1>1, <1>2, <1>3 DEF BeginningOf
<1>5. QED
  BY <1>3, <1>4 DEF BeginningOf, e

(* A beginning stays one as the runs go on.                                *)
LEMMA BeginningStays ==
  ASSUME NEW s, runs \in Nat, runs' \in Nat, runs' >= runs, Beginning(s), s' = s
  PROVE  Beginning(s)'
BY DEF Beginning, BeginningOf

(* What was read of a beginning is still a prefix when more is written.    *)
LEMMA PrefixStays ==
  ASSUME NEW b \in Seq(Piece), NEW s \in Seq(Piece), NEW t \in Seq(Piece),
         NEW r \in Nat, NEW n \in Nat, BeginningOf(s, r, n), BeginningOf(t, r, n),
         Len(s) <= Len(t), PrefixOf(b, s)
  PROVE  PrefixOf(b, t)
<1>1. Len(b) \in Nat /\ Len(s) \in Nat /\ Len(t) \in Nat
  OBVIOUS
<1>2. \A i \in 1..Len(b) : i \in 1..Len(s) /\ i \in 1..Len(t)
  BY <1>1 DEF PrefixOf
<1>3. ASSUME NEW i \in 1..Len(b) PROVE b[i] = t[i]
  <2>1. s[i] = [run |-> r, place |-> i, count |-> n]
    BY <1>2 DEF BeginningOf
  <2>2. t[i] = [run |-> r, place |-> i, count |-> n]
    BY <1>2 DEF BeginningOf
  <2>3. b[i] = s[i]
    BY DEF PrefixOf
  <2>4. QED
    BY <2>1, <2>2, <2>3
<1>4. Len(b) <= Len(t)
  BY <1>1 DEF PrefixOf
<1>5. QED
  BY <1>3, <1>4 DEF PrefixOf

LEMMA FileStep == FileInv /\ [CommandNext]_commandVars => FileInv'
<1> SUFFICES ASSUME FileInv, [CommandNext]_commandVars PROVE FileInv'
  OBVIOUS
<1>0. /\ FileTypes /\ Beginning(baselineFile)
      /\ generator \in {"write", "close"} => BeginningOf(baselineFile, runs, pieces)
      /\ generator \in {"open", "write", "close"} => pieces \in 1..MaxPieces
      /\ generator # "idle" => runs >= 1
      /\ ReaderInv
  BY DEF FileInv, FileTypes
<1> DEFINE Generator == /\ generator # "idle" => runs >= 1
                        /\ generator \in {"open", "write", "close"} => pieces >= 1
                        /\ generator \in {"write", "close"} =>
                             BeginningOf(baselineFile, runs, pieces)
                        /\ Beginning(baselineFile)
<1>r. Generator
  BY DEF FileInv
<1>p. ~rewritten /\ cli = "read" => PrefixOf(bytes, baselineFile)
  BY <1>0 DEF ReaderInv
<1>g. ASSUME UNCHANGED genVars, bytes' \in Seq(Piece), size' \in Nat, ReaderInv'
      PROVE  FileInv'
  <2>1. UNCHANGED <<baselineFile, generator, pieces, runs, rewritten>>
    BY <1>g DEF genVars
  <2>2. FileTypes'
    BY <1>0, <1>g, <2>1 DEF FileTypes
  <2>3. Generator'
    BY <1>r, <2>1 DEF Beginning, BeginningOf
  <2>4. QED
    BY <1>g, <2>2, <2>3 DEF FileInv
<1>c. ASSUME UNCHANGED cliVars, baselineFile' \in Seq(Piece), runs' \in Nat, runs' >= runs,
             pieces' \in 0..MaxPieces, rewritten' \in BOOLEAN, Generator',
             ~rewritten' => ~rewritten,
             ~rewritten' /\ cli = "read" => PrefixOf(bytes, baselineFile')
      PROVE  FileInv'
  <2>1. UNCHANGED <<cli, bytes, size>>
    BY <1>c DEF cliVars
  <2>2. FileTypes'
    BY <1>0, <1>c, <2>1 DEF FileTypes
  <2>3. ~rewritten' => Beginning(bytes)'
    <3>1. runs \in Nat
      BY <1>0 DEF FileTypes
    <3>2. QED
      BY <1>0, <1>c, <2>1, <3>1, BeginningStays DEF ReaderInv
  <2>4. ReaderInv'
    BY <1>0, <1>c, <2>1, <2>3 DEF ReaderInv, PrefixOf
  <2>5. QED
    BY <1>c, <2>2, <2>4 DEF FileInv
<1>1. CASE /\ UNCHANGED <<bytes, size, genVars>>
           /\ cli' = "detect-hooks" => bytes = <<>> \/ bytes[1].count <= Len(bytes)
           /\ cli' \in {"parsing", "list-modules", "integrity"} => bytes = <<>>
           /\ cli' = "read" => cli = "read"
  <2>1. UNCHANGED <<runs, baselineFile, rewritten>>
    BY <1>1 DEF genVars
  <2>2. ReaderInv'
    BY <1>0, <1>1, <2>1 DEF ReaderInv, Beginning, BeginningOf, PrefixOf
  <2>3. QED
    BY <1>0, <1>1, <1>g, <2>2 DEF FileTypes
<1>2. CASE ParseArgument
  BY <1>1, <1>2, <1>0 DEF ReaderInv, ParseArgument, Exit
<1>3. CASE ParseEnds
  BY <1>1, <1>3, <1>0 DEF ReaderInv, ParseEnds, Exit
<1>4. CASE RunListModules
  BY <1>1, <1>4, <1>0 DEF ReaderInv, RunListModules, Fails, Reports, Skips, Exit
<1>5. CASE RunCheckIntegrity
  BY <1>1, <1>5, <1>0 DEF ReaderInv, RunCheckIntegrity, Fails, Reports, Skips, Exit
<1>6. CASE LoadAndVerify
  BY <1>1, <1>6, <1>0 DEF ReaderInv, LoadAndVerify, Fails, Reports, Exit
<1>7. CASE RunDetectHooks
  BY <1>1, <1>7, <1>0 DEF ReaderInv, RunDetectHooks, Fails, Reports, Skips, Exit
<1>8. CASE Finish
  BY <1>1, <1>8, <1>0 DEF ReaderInv, Finish, Exit
<1>9. CASE OpenBaseline
  <2>1. /\ UNCHANGED <<bytes, genVars>> /\ bytes = <<>> /\ cli' \in {"read", "exited"}
        /\ size' = size \/ size' = Len(baselineFile)
    BY <1>0, <1>9 DEF OpenBaseline, Fails, Exit, ReaderInv
  <2>2. ReaderInv'
    <3>1. baselineFile' = baselineFile /\ Len(baselineFile) \in Nat
      BY <1>0, <2>1 DEF genVars, FileTypes
    <3>2. bytes' = <<>> /\ Len(bytes') = 0
      BY <2>1
    <3>3. PrefixOf(bytes, baselineFile)'
      BY <3>1, <3>2 DEF PrefixOf
    <3>4. QED
      BY <2>1, <3>2, <3>3 DEF ReaderInv, Beginning
  <2>3. size' \in Nat
    BY <1>0, <2>1 DEF FileTypes
  <2>4. QED
    BY <1>0, <1>g, <2>1, <2>2, <2>3 DEF FileTypes
<1>10. CASE ReadBaseline
  <2>1. CASE ReadsAll \/ (Fails /\ UNCHANGED bytes)
    BY <1>1, <1>10, <2>1 DEF ReadBaseline, ReadsAll, Fails, Exit
  <2>2. CASE ReadsOn
    <3> DEFINE k == Len(bytes) + 1
    <3>1. /\ bytes' = Append(bytes, baselineFile[k]) /\ cli = "read" /\ cli' = "read"
          /\ Len(bytes) < Len(baselineFile) /\ UNCHANGED <<size, genVars>>
      BY <1>10, <2>2 DEF ReadBaseline, ReadsOn
    <3>2. /\ baselineFile \in Seq(Piece) /\ bytes \in Seq(Piece) /\ size \in Nat
          /\ runs' = runs /\ baselineFile' = baselineFile /\ rewritten' = rewritten
      BY <1>0, <3>1 DEF FileTypes, genVars
    <3>3. /\ k \in 1..Len(baselineFile) /\ baselineFile[k] \in Piece
          /\ bytes' \in Seq(Piece) /\ Len(bytes') = k
          /\ bytes'[k] = baselineFile[k]
          /\ \A i \in 1..Len(bytes) : bytes'[i] = bytes[i]
          /\ \A i \in 1..k : i = k \/ i \in 1..Len(bytes)
      BY <3>1, <3>2
    <3>4. PICK r \in 1..runs, n \in 1..MaxPieces : BeginningOf(baselineFile, r, n)
      BY <1>0, <3>2, <3>3 DEF Beginning
    <3>5. \A i \in 1..Len(bytes') : bytes'[i].place = i
      <4> HIDE DEF k
      <4>0. baselineFile[k] = [run |-> r, place |-> k, count |-> n]
        BY <3>3, <3>4 DEF BeginningOf
      <4>1. baselineFile[k].place = k
        BY <4>0
      <4>2. QED
        BY <1>0, <3>3, <4>1 DEF ReaderInv
    <3>6. ~rewritten => PrefixOf(bytes', baselineFile)
      BY <1>0, <3>1, <3>3 DEF ReaderInv, PrefixOf
    <3>7. ASSUME ~rewritten PROVE BeginningOf(bytes', r, n)
      <4>1. n \in Nat /\ Len(baselineFile) \in Nat /\ Len(bytes') \in Nat
        BY <3>2, <3>3, <3>4, CommandAssumption
      <4>2. \A i \in 1..Len(bytes') : i \in 1..Len(baselineFile)
        BY <3>3, <4>1
      <4>3. ASSUME NEW i \in 1..Len(bytes')
            PROVE  bytes'[i] = [run |-> r, place |-> i, count |-> n]
        <5>1. bytes'[i] = baselineFile[i]
          BY <3>6, <3>7 DEF PrefixOf
        <5>2. baselineFile[i] = [run |-> r, place |-> i, count |-> n]
          BY <3>4, <4>2 DEF BeginningOf
        <5>3. QED
          BY <5>1, <5>2
      <4>4. Len(bytes') <= n
        BY <3>4, <3>6, <3>7, <4>1 DEF BeginningOf, PrefixOf
      <4>5. QED
        BY <4>3, <4>4 DEF BeginningOf
    <3>8. ReaderInv'
      BY <3>1, <3>2, <3>5, <3>6, <3>7 DEF ReaderInv, Beginning, BeginningOf, PrefixOf
    <3>9. QED
      BY <1>g, <3>1, <3>2, <3>3, <3>8
  <2>3. QED
    BY <1>10, <2>1, <2>2 DEF ReadBaseline
<1>11. CASE GeneratorStarts
  <2>1. /\ UNCHANGED <<baselineFile, pieces, rewritten, cliVars>> /\ runs' = runs + 1
        /\ generator' \in {"capture", generator} /\ generator = "idle"
    BY <1>11 DEF GeneratorStarts
  <2>2. runs \in Nat /\ runs' \in Nat /\ runs' >= runs /\ runs' >= 1
    BY <1>0, <2>1 DEF FileTypes
  <2>3. Beginning(baselineFile)'
    BY <1>0, <2>1, <2>2, BeginningStays
  <2>4. QED
    BY <1>0, <1>c, <1>p, <2>1, <2>2, <2>3 DEF FileTypes
<1>12. CASE GeneratorCaptures
  <2>1. /\ UNCHANGED <<baselineFile, runs, rewritten, cliVars>> /\ generator = "capture"
        /\ \/ generator' = "idle" /\ UNCHANGED pieces
           \/ generator' = "open" /\ pieces' \in 1..MaxPieces
    BY <1>12 DEF GeneratorCaptures, GeneratorExits
  <2>2. Beginning(baselineFile)' /\ runs \in Nat /\ runs >= 1 /\ MaxPieces \in Nat
    BY <1>0, <2>1, CommandAssumption DEF Beginning, BeginningOf, FileTypes
  <2>3. pieces' \in 0..MaxPieces /\ (generator' = "open" => pieces' >= 1)
    BY <1>0, <2>1, <2>2 DEF FileTypes
  <2>4. QED
    BY <1>0, <1>c, <1>p, <2>1, <2>2, <2>3 DEF FileTypes
<1>13. CASE OpenOutput
  <2>1. /\ UNCHANGED <<pieces, runs, cliVars>> /\ generator = "open"
        /\ \/ generator' = "idle" /\ UNCHANGED baselineFile
           \/ generator' = "write" /\ baselineFile' = <<>>
        /\ \/ UNCHANGED <<baselineFile, rewritten>>
           \/ /\ baselineFile' = <<>>
              /\ rewritten' = (rewritten \/ (cli = "read" /\ bytes # <<>>))
    BY <1>13 DEF OpenOutput, GeneratorExits
  <2>2. Beginning(baselineFile)' /\ runs \in Nat /\ runs >= 1 /\ pieces >= 1
    BY <1>0, <2>1 DEF Beginning, BeginningOf, FileTypes
  <2>3. baselineFile' \in Seq(Piece)
    <3>1. <<>> \in Seq(Piece)
      OBVIOUS
    <3>2. QED
      BY <1>0, <2>1, <3>1 DEF FileTypes
  <2>4. generator' = "write" => BeginningOf(baselineFile, runs, pieces)'
    BY <1>0, <2>1, <2>2 DEF BeginningOf, FileTypes
  <2>5. /\ rewritten' \in BOOLEAN /\ (~rewritten' => ~rewritten)
        /\ ~rewritten' /\ cli = "read" => PrefixOf(bytes, baselineFile')
    <3>1. CASE UNCHANGED <<baselineFile, rewritten>>
      BY <1>0, <1>p, <3>1 DEF FileTypes
    <3>2. CASE /\ baselineFile' = <<>>
               /\ rewritten' = (rewritten \/ (cli = "read" /\ bytes # <<>>))
      <4>1. PrefixOf(<<>>, <<>>)
        BY DEF PrefixOf
      <4>2. QED
        BY <1>0, <3>2, <4>1 DEF FileTypes
    <3>3. QED
      BY <2>1, <3>1, <3>2
  <2>6. QED
    BY <1>0, <1>c, <2>1, <2>2, <2>3, <2>4, <2>5 DEF FileTypes
<1>14. CASE WriteOutput
  <2>1. /\ UNCHANGED <<pieces, runs, rewritten, cliVars>> /\ generator = "write"
        /\ generator' \in {"write", "close", "idle"}
    BY <1>14 DEF WriteOutput, GeneratorExits
  <2>2. /\ runs \in Nat /\ runs >= 1 /\ pieces \in Nat /\ pieces \in 1..MaxPieces
        /\ baselineFile \in Seq(Piece) /\ BeginningOf(baselineFile, runs, pieces)
    BY <1>0, <2>1 DEF FileTypes
  <2>3. \/ UNCHANGED baselineFile
        \/ /\ Len(baselineFile) < pieces
           /\ baselineFile' = Append(baselineFile,
                                     Baseline(runs, pieces)[Len(baselineFile) + 1])
    BY <1>14 DEF WriteOutput
  <2>4. baselineFile' \in Seq(Piece) /\ BeginningOf(baselineFile', runs, pieces)
    BY <2>2, <2>3, BeginningGrows
  <2>5. Beginning(baselineFile)' /\ BeginningOf(baselineFile, runs, pieces)'
    BY <2>1, <2>2, <2>4 DEF Beginning, BeginningOf
  <2>6. Len(baselineFile) <= Len(baselineFile')
    BY <2>2, <2>3, <2>4 DEF BeginningOf
  <2>7. ~rewritten' /\ cli = "read" => PrefixOf(bytes, baselineFile')
    BY <1>0, <1>p, <2>1, <2>2, <2>4, <2>6, PrefixStays DEF FileTypes
  <2>8. QED
    BY <1>0, <1>c, <2>1, <2>2, <2>4, <2>5, <2>7 DEF FileTypes
<1>15. CASE CloseOutput
  <2>1. /\ UNCHANGED <<pieces, runs, rewritten, cliVars>>
        /\ generator = "close" /\ generator' = "idle"
        /\ baselineFile' \in {Baseline(runs, pieces), baselineFile}
    BY <1>15 DEF CloseOutput, GeneratorExits
  <2>2. /\ runs \in Nat /\ runs >= 1 /\ pieces \in Nat /\ pieces \in 1..MaxPieces
        /\ baselineFile \in Seq(Piece) /\ BeginningOf(baselineFile, runs, pieces)
    BY <1>0, <2>1 DEF FileTypes
  <2>3. baselineFile' \in Seq(Piece) /\ BeginningOf(baselineFile', runs, pieces)
    BY <2>1, <2>2, BaselineBegins
  <2>4. Beginning(baselineFile)'
    BY <2>1, <2>2, <2>3 DEF Beginning, BeginningOf
  <2>5. Len(baselineFile) <= Len(baselineFile')
    <3>1. Len(Baseline(runs, pieces)) = pieces
      BY <2>2 DEF Baseline
    <3>2. QED
      BY <2>1, <2>2, <3>1 DEF BeginningOf
  <2>6. ~rewritten' /\ cli = "read" => PrefixOf(bytes, baselineFile')
    BY <1>0, <1>p, <2>1, <2>2, <2>3, <2>5, PrefixStays DEF FileTypes
  <2>7. QED
    BY <1>0, <1>c, <2>1, <2>2, <2>3, <2>4, <2>6 DEF FileTypes
<1>16. CASE UNCHANGED commandVars
  BY <1>0, <1>16, <1>1 DEF commandVars, cliVars, ReaderInv
<1>17. QED
  BY <1>2, <1>3, <1>4, <1>5, <1>6, <1>7, <1>8, <1>9, <1>10, <1>11, <1>12, <1>13, <1>14,
     <1>15, <1>16 DEF CommandNext

(* A baseline that rmg-cli verified has no part missing, whenever the      *)
(* generator truncates and writes the file; and it is the whole of one     *)
(* run's, the count at its head being that run's, unless the file was      *)
(* truncated between two reads of it.                                      *)
THEOREM VerifiedBaselinesAreWhole == CommandSpec => []NoHalfBaseline
<1>1. CommandInit => FileInv
  <2> SUFFICES ASSUME CommandInit PROVE FileInv
    OBVIOUS
  <2>1. /\ bytes = <<>> /\ baselineFile = <<>> /\ generator = "idle" /\ cli = "parsing"
        /\ size = 0 /\ runs = 0 /\ pieces = 0 /\ rewritten = FALSE
    BY DEF CommandInit
  <2>2. FileTypes
    <3>1. <<>> \in Seq(Piece)
      OBVIOUS
    <3>2. 0 \in 0..MaxPieces
      BY CommandAssumption
    <3>3. QED
      BY <2>1, <3>1, <3>2 DEF FileTypes
  <2>3. ReaderInv
    BY <2>1 DEF ReaderInv, Beginning
  <2>4. QED
    BY <2>1, <2>2, <2>3 DEF FileInv, Beginning
<1>2. FileInv => NoHalfBaseline
  <2>0. ASSUME FileInv, cli = "detect-hooks", bytes # <<>>
        PROVE  bytes[1].count <= Len(bytes) /\ \A i \in DOMAIN bytes : bytes[i].place = i
    BY <2>0 DEF FileInv, FileTypes, ReaderInv
  <2> SUFFICES ASSUME FileInv, cli = "detect-hooks", bytes # <<>>, ~rewritten
               PROVE  \E r \in 1..runs, n \in 1..MaxPieces : bytes = Baseline(r, n)
    BY <2>0 DEF NoHalfBaseline
  <2>1. bytes \in Seq(Piece) /\ bytes[1].count <= Len(bytes)
    BY DEF FileInv, FileTypes, ReaderInv
  <2>2. PICK r \in 1..runs, n \in 1..MaxPieces : BeginningOf(bytes, r, n)
    BY DEF FileInv, ReaderInv, Beginning
  <2>3. Len(bytes) >= 1
    BY <2>1
  <2>4. bytes[1].count = n
    <3>1. 1 \in 1..Len(bytes)
      BY <2>1, <2>3
    <3>2. bytes[1] = [run |-> r, place |-> 1, count |-> n]
      BY <2>2, <3>1 DEF BeginningOf
    <3>3. QED
      BY <3>2
  <2>5. Len(bytes) = n
    BY <2>1, <2>2, <2>4 DEF BeginningOf
  <2>6. bytes = Baseline(r, n)
    <3>1. bytes = [i \in 1..n |-> bytes[i]]
      BY <2>1, <2>5
    <3>2. \A i \in 1..n : bytes[i] = [run |-> r, place |-> i, count |-> n]
      BY <2>2, <2>5 DEF BeginningOf
    <3>3. QED
      BY <3>1, <3>2 DEF Baseline
  <2>7. QED
    BY <2>6
<1>3. QED
  BY <1>1, <1>2, FileStep, PTL DEF CommandSpec
=============================================================================
