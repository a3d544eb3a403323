----------------------------- MODULE ModuleView -----------------------------
(***************************************************************************)
(* ModuleEnumerator::enumerate (src/modules/module_enumerator.cpp) over    *)
(* both platforms' enumerations, of a process that maps and unmaps pages   *)
(* in between. On Linux each of the two enumerations reads the maps file   *)
(* once; on Windows modules are counted, listed and queried one by one,    *)
(* and regions are walked call by call. A page is None (nothing there) or  *)
(* a record: the file it maps, or Anonymous, and whether it is executable. *)
(***************************************************************************)
EXTENDS Naturals, FiniteSets

CONSTANTS
  PageCount,    \* pages of the address space
  Files,        \* files that can be mapped
  OddFiles,     \* those whose line in maps does not end in "/path": the name
                \* has a space, or the file was deleted
  Anonymous,    \* no file, or no modulePath
  None,         \* nothing mapped
  MaxRemaps     \* bound: pages that change during an enumeration

Address == 0..(PageCount - 1)
Mappings == {None} \union [file : Files \union {Anonymous}, exec : BOOLEAN]

ASSUME ModuleViewAssumption ==
  /\ PageCount \in Nat \ {0} /\ MaxRemaps \in Nat
  /\ OddFiles \subseteq Files /\ Anonymous \notin Files

VARIABLES
  memory,     \* the process: what each page holds
  steady,     \* history: the pages that have not changed since the start
  stage,      \* where enumerate() is
  capacity,   \* Windows: how many handles the size query asked room for
  handles,    \* Windows: modules listed and not queried yet
  overrun,    \* Windows: did the loop read handles past the end of its vector?
  modules,    \* nativeModules
  cursor,     \* Windows: the address of the next VirtualQueryEx
  regions     \* allRegions

viewVars == <<memory, steady, stage, capacity, handles, overrun, modules, cursor, regions>>

(* The maximal run of equal pages from page a on; a region of memory.      *)
RunFrom(a) ==
  LET ends == {b \in (a + 1)..PageCount : \A c \in a..(b - 1) : memory[c] = memory[a]}
  IN [base |-> a, end |-> CHOOSE b \in ends : \A c \in ends : c <= b,
      file |-> memory[a].file, exec |-> memory[a].exec]
MappedRegions ==
  {RunFrom(a) : a \in {b \in Address : memory[b] # None /\ (b = 0 \/ memory[b - 1] # memory[b])}}

(* parseProcMaps(): only a last field that begins with '/' is a path.      *)
ParseMaps == {[r EXCEPT !.file = IF @ \in OddFiles THEN Anonymous ELSE @] : r \in MappedRegions}

(* Mutant: one module per run of adjacent regions, the last one kept.      *)
SpanOf_LastRun(file, found) ==
  LET own == {r \in found : r.file = file}
      last == CHOOSE r \in own : \A s \in own : s.base <= r.base
  IN [file |-> file, base |-> last.base, end |-> last.end]

(* Regions of one file, adjacent or not, make one module from the lowest   *)
(* base to the highest end.                                                *)
SpanOf(file, found) ==
  LET own == {r \in found : r.file = file}
  IN [file |-> file,
      base |-> CHOOSE a \in {r.base : r \in own} : \A r \in own : a <= r.base,
      end |-> CHOOSE b \in {r.end : r \in own} : \A r \in own : r.end <= b]
FilesOf(found) == {r.file : r \in found} \ {Anonymous}

(* Mutant: an end that is taken to be inside.                              *)
CodeSections_Inclusive(module) ==
  {r \in regions : r.exec /\ r.base >= module.base /\ r.base <= module.end}

(* deriveCodeSections(): by the address of the region, not by its file.    *)
CodeSections(module) ==
  {r \in regions : r.exec /\ r.base >= module.base /\ r.base < module.end}

ViewInit ==
  /\ memory = [a \in Address |-> None]
  /\ steady = Address
  /\ stage = "start"
  /\ capacity = 0 /\ handles = {} /\ overrun = FALSE
  /\ modules = {} /\ cursor = 0 /\ regions = {}

-----------------------------------------------------------------------------
(* The process as enumerate() finds it.                                    *)
ProcessLoaded ==
  /\ stage = "start"
  /\ memory' \in [Address -> Mappings]
  /\ stage' = "ready"
  /\ UNCHANGED <<steady, capacity, handles, overrun, modules, cursor, regions>>

(* A page is mapped, unmapped or mapped otherwise.                         *)
Remap(a) ==
  /\ stage \notin {"start", "done"}
  /\ PageCount - Cardinality(steady) < MaxRemaps
  /\ \E m \in Mappings \ {memory[a]} : memory' = [memory EXCEPT ![a] = m]
  /\ steady' = steady \ {a}
  /\ UNCHANGED <<stage, capacity, handles, overrun, modules, cursor, regions>>

(* Linux: enumerateModules(), then enumerateRegions(), a read of maps each.*)
ListModules ==
  /\ stage = "ready"
  /\ modules' = {SpanOf(f, ParseMaps) : f \in FilesOf(ParseMaps)}
  /\ stage' = "listed"
  /\ UNCHANGED <<memory, steady, capacity, handles, overrun, cursor, regions>>

ListRegions ==
  /\ stage = "listed"
  /\ regions' = ParseMaps
  /\ stage' = "done"
  /\ UNCHANGED <<memory, steady, capacity, handles, overrun, modules, cursor>>

(* Windows: EnumProcessModulesEx for the size;                             *)
CountModules ==
  /\ stage = "ready"
  /\ capacity' = Cardinality(FilesOf(MappedRegions))
  /\ stage' = IF capacity' = 0 THEN "walking" ELSE "counted"
  /\ UNCHANGED <<memory, steady, handles, overrun, modules, cursor, regions>>

(* for the handles: as many as there is room for are written, but the loop *)
(* runs to the number there are now;                                       *)
FetchHandles ==
  /\ stage = "counted"
  /\ LET now == FilesOf(MappedRegions)
     IN /\ \E written \in SUBSET now :
             /\ Cardinality(written) = (IF Cardinality(now) < capacity
                                        THEN Cardinality(now) ELSE capacity)
             /\ handles' = written
        /\ overrun' = (Cardinality(now) > capacity)
  /\ stage' = "querying"
  /\ UNCHANGED <<memory, steady, capacity, modules, cursor, regions>>

(* and one query per handle; a module unloaded meanwhile is skipped.       *)
QueryHandle(f) ==
  /\ stage = "querying" /\ f \in handles
  /\ handles' = handles \ {f}
  /\ modules' = modules \union (IF f \in FilesOf(MappedRegions)
                                THEN {SpanOf(f, MappedRegions)} ELSE {})
  /\ UNCHANGED <<memory, steady, stage, capacity, overrun, cursor, regions>>

HandlesQueried ==
  /\ stage = "querying" /\ handles = {}
  /\ stage' = "walking"
  /\ UNCHANGED <<memory, steady, capacity, handles, overrun, modules, cursor, regions>>

(* Mutant: a walk that goes on at the next page.                           *)
WalkRegion_PageByPage ==
  /\ stage = "walking" /\ cursor < PageCount
  /\ regions' = regions \union (IF memory[cursor] # None THEN {RunFrom(cursor)} ELSE {})
  /\ cursor' = cursor + 1
  /\ UNCHANGED <<memory, steady, stage, capacity, handles, overrun, modules>>

(* VirtualQueryEx answers for the pages from the cursor on that are alike. *)
WalkRegion ==
  /\ stage = "walking" /\ cursor < PageCount
  /\ IF memory[cursor] = None
     THEN cursor' = cursor + 1 /\ UNCHANGED regions
     ELSE /\ regions' = regions \union {RunFrom(cursor)}
          /\ cursor' = RunFrom(cursor).end
  /\ UNCHANGED <<memory, steady, stage, capacity, handles, overrun, modules>>

WalkEnds ==
  /\ stage = "walking" /\ cursor = PageCount
  /\ stage' = "done"
  /\ UNCHANGED <<memory, steady, capacity, handles, overrun, modules, cursor, regions>>

ViewNext ==
  \/ ProcessLoaded
  \/ \E a \in Address : Remap(a)
  \/ ListModules \/ ListRegions
  \/ CountModules \/ FetchHandles \/ HandlesQueried \/ \E f \in Files : QueryHandle(f)
  \/ WalkRegion \/ WalkEnds

ViewSpec == ViewInit /\ [][ViewNext]_viewVars

-----------------------------------------------------------------------------
(* An executable region that was there, with its neighbours, from the      *)
(* first read to the last is a code section of the module of its file,     *)
(* whatever else of the process changed between the two enumerations, on   *)
(* either platform, unless the handles overran or (Linux) the line of its  *)
(* file is odd: integrity checks miss no code because something else was   *)
(* loaded or unloaded at the same time.                                    *)
SteadyCodeIsCovered ==
  stage = "done" /\ ~overrun =>
    \A r \in MappedRegions :
      /\ r.exec /\ r.file \in Files \ OddFiles
      /\ {a \in Address : r.base <= a + 1 /\ a <= r.end} \subseteq steady
      => \E m \in modules : m.file = r.file /\ r \in CodeSections(m)

(* In a process that does not change, a code section lies wholly within    *)
(* its module, and belongs to a second module, or to another file, only    *)
(* where the images are interleaved.                                       *)
QuietSectionsAreOwned ==
  stage = "done" /\ steady = Address =>
    \A m \in modules : \A r \in CodeSections(m) :
      /\ r.end <= m.end
      /\ r.file # m.file => \E own \in regions : own.file = m.file /\ own.base >= r.end
      /\ r.file # m.file => \E own \in regions : own.file = m.file /\ own.end <= r.base

(* The regions reported never overlap, although on Windows they are walked *)
(* one by one while the process maps and unmaps pages.                     *)
RegionsAreDisjoint ==
  \A r, s \in regions : r # s => r.end <= s.base \/ s.end <= r.base
=============================================================================
