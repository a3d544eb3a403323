----------------------------- MODULE ViewProofs -----------------------------
(***************************************************************************)
(* What a scan sees of a process: the regions of its memory, the modules   *)
(* made of them, what two snapshots differ in, the jumps at the start of   *)
(* its code, and what bytes a handle reads.                                *)
(***************************************************************************)
EXTENDS ProcessAccess, ModuleView, MemoryView, HookScan, InductionLemmas

(***************************************************************************)
(* ProcessAccess.                                                          *)
(***************************************************************************)
USE ProcessAssumption

(* Whatever exits, starts, opens and closes in between, the inductive      *)
(* invariant is kept, action by action.                                    *)
LEMMA AccessStep == AccessInv /\ [AccessNext]_accessVars => AccessInv'
<1> SUFFICES ASSUME AccessInv, [AccessNext]_accessVars PROVE AccessInv'
  OBVIOUS
<1> USE DEF AccessInv, AccessTypeOK, OrNone
<1>1. ASSUME NEW p \in Processes, ProcessStarts(p) PROVE AccessInv'
  BY <1>1 DEF ProcessStarts
<1>2. CASE ProcessExits
  BY <1>2 DEF ProcessExits
<1>3. CASE OpenChecks
  BY <1>3 DEF OpenChecks, OpenAnswers
<1>4. CASE OpenOpens
  BY <1>4 DEF OpenOpens, OpenAnswers
<1>5. CASE OpenWindows
  BY <1>5 DEF OpenWindows, OpenAnswers
<1>6. CASE Close
  BY <1>6 DEF Close
<1>7. CASE EnumerateRegions
  BY <1>7 DEF EnumerateRegions, Enumerated
<1>8. CASE ReadMemory
  BY <1>8 DEF ReadMemory
<1>9. CASE UNCHANGED accessVars
  BY <1>9 DEF accessVars
<1>10. QED
  BY <1>1, <1>2, <1>3, <1>4, <1>5, <1>6, <1>7, <1>8, <1>9 DEF AccessNext

(* No bytes of one process are taken for those of another whose regions    *)
(* were enumerated, on either platform.                                    *)
THEOREM NoForeignBytes == AccessSpec => []BytesMatchRegions
<1>1. AccessInit => AccessInv
  BY DEF AccessInit, AccessInv, AccessTypeOK, OrNone
<1>2. AccessInv => BytesMatchRegions
  BY DEF AccessInv, BytesMatchRegions
<1>3. QED
  BY <1>1, <1>2, AccessStep, PTL DEF AccessSpec

-----------------------------------------------------------------------------
HIDE ProcessAssumption

(***************************************************************************)
(* ModuleView: the regions of an address space, as functions of what its   *)
(* pages hold, so that what is proved of one state can be used of the next.*)
(***************************************************************************)
EndsFrom(pages, a) == {b \in (a + 1)..PageCount : \A c \in a..(b - 1) : pages[c] = pages[a]}
RunEnd(pages, a) == CHOOSE b \in EndsFrom(pages, a) : \A c \in EndsFrom(pages, a) : c <= b
StartsRegion(pages, a) == pages[a] # None /\ (a = 0 \/ pages[a - 1] # pages[a])
RunAt(pages, a) ==
  [base |-> a, end |-> RunEnd(pages, a), file |-> pages[a].file, exec |-> pages[a].exec]
RegionsOf(pages) == {RunAt(pages, a) : a \in {b \in Address : StartsRegion(pages, b)}}

LEMMA RunFromIs == \A a : RunFrom(a) = RunAt(memory, a)
  BY DEF RunFrom, RunAt, RunEnd, EndsFrom

LEMMA RunFromIsNext == \A a : RunFrom(a)' = RunAt(memory', a)
  BY DEF RunFrom, RunAt, RunEnd, EndsFrom

LEMMA MappedRegionsAre == MappedRegions = RegionsOf(memory)
  BY RunFromIs DEF MappedRegions, RegionsOf, StartsRegion

LEMMA MappedRegionsAreNext == MappedRegions' = RegionsOf(memory')
  BY RunFromIsNext DEF MappedRegions, RegionsOf, StartsRegion

(* A run ends where the pages stop being alike, or with the address space. *)
EndsAt(pages, a, e) ==
  /\ e \in (a + 1)..PageCount
  /\ \A c \in a..(e - 1) : pages[c] = pages[a]
  /\ e = PageCount \/ pages[e] # pages[a]

LEMMA RunsEnd ==
  ASSUME NEW pages, NEW a \in Address
  PROVE  EndsAt(pages, a, RunEnd(pages, a))
<1> DEFINE ends == EndsFrom(pages, a)
           e == RunEnd(pages, a)
<1>0. PageCount \in Nat /\ a \in Nat /\ a < PageCount
  BY ModuleViewAssumption DEF Address
<1>1. ends \in SUBSET Nat /\ \A c \in ends : c <= PageCount
  BY <1>0 DEF EndsFrom
<1>2. a + 1 \in ends
  <2>1. \A c \in a..((a + 1) - 1) : c = a
    BY <1>0
  <2>2. QED
    BY <1>0, <2>1 DEF EndsFrom
<1>3. e \in ends /\ \A c \in ends : c <= e
  <2>1. \E b \in ends : \A c \in ends : c <= b
    <3> HIDE DEF ends
    <3>1. QED
      BY <1>0, <1>1, <1>2, GreatestNumber
  <2>2. QED
    BY <2>1 DEF RunEnd
<1>4. e \in (a + 1)..PageCount /\ \A c \in a..(e - 1) : pages[c] = pages[a]
  BY <1>3 DEF EndsFrom
<1> HIDE DEF e
<1>5. ASSUME e # PageCount, pages[e] = pages[a] PROVE FALSE
  <2>1. e + 1 \in (a + 1)..PageCount /\ e \in Nat
    BY <1>0, <1>4, <1>5
  <2>2. \A c \in a..((e + 1) - 1) : c = e \/ c \in a..(e - 1)
    BY <1>0, <2>1
  <2>3. e + 1 \in ends
    BY <1>4, <1>5, <2>1, <2>2 DEF EndsFrom
  <2>4. e + 1 <= e
    BY <1>3, <2>3
  <2>5. QED
    BY <2>1, <2>4
<1>6. QED
  BY <1>4, <1>5 DEF EndsAt, e

LEMMA RunsEndOnce ==
  ASSUME NEW pages, NEW a \in Address, NEW e, NEW f, EndsAt(pages, a, e), EndsAt(pages, a, f)
  PROVE  e = f
<1>0. PageCount \in Nat /\ a \in Nat /\ a < PageCount
  BY ModuleViewAssumption DEF Address
<1>1. e \in Nat /\ f \in Nat /\ a < e /\ a < f /\ e <= PageCount /\ f <= PageCount
  BY <1>0 DEF EndsAt
<1>2. ASSUME e < f PROVE FALSE
  <2>1. e \in a..(f - 1) /\ e # PageCount
    BY <1>0, <1>1, <1>2
  <2>2. QED
    BY <2>1 DEF EndsAt
<1>3. ASSUME f < e PROVE FALSE
  <2>1. f \in a..(e - 1) /\ f # PageCount
    BY <1>0, <1>1, <1>3
  <2>2. QED
    BY <2>1 DEF EndsAt
<1>4. QED
  BY <1>1, <1>2, <1>3

(* A region is named by its base, has pages, and ends before the next.     *)
LEMMA RegionsAre ==
  ASSUME NEW pages, NEW r \in RegionsOf(pages)
  PROVE  /\ r.base \in Address /\ StartsRegion(pages, r.base)
         /\ EndsAt(pages, r.base, r.end)
         /\ r = RunAt(pages, r.base)
         /\ r.end \in Nat /\ r.base < r.end /\ r.end <= PageCount
<1>1. PICK a \in Address : StartsRegion(pages, a) /\ r = RunAt(pages, a)
  BY DEF RegionsOf
<1>2. r.base = a /\ r.end = RunEnd(pages, a)
  BY <1>1 DEF RunAt
<1>3. EndsAt(pages, a, r.end)
  BY <1>2, RunsEnd
<1>4. r.end \in Nat /\ a < r.end /\ r.end <= PageCount
  BY <1>3, ModuleViewAssumption DEF EndsAt, Address
<1>5. QED
  BY <1>1, <1>2, <1>3, <1>4

LEMMA RegionsEndBefore ==
  ASSUME NEW pages, NEW a \in Address, NEW e, EndsAt(pages, a, e),
         NEW b \in Address, StartsRegion(pages, b), a < b
  PROVE  e <= b
<1>0. PageCount \in Nat /\ a \in Nat /\ b \in Nat /\ e \in Nat
  BY ModuleViewAssumption DEF Address, EndsAt
<1>1. ASSUME b < e PROVE FALSE
  <2>1. b \in a..(e - 1) /\ b - 1 \in a..(e - 1) /\ b # 0
    BY <1>0, <1>1
  <2>2. pages[b] = pages[b - 1]
    BY <2>1 DEF EndsAt
  <2>3. QED
    BY <2>1, <2>2 DEF StartsRegion
<1>2. QED
  BY <1>0, <1>1

LEMMA RegionsOfAreDisjoint ==
  ASSUME NEW pages, NEW r \in RegionsOf(pages), NEW s \in RegionsOf(pages), r # s
  PROVE  r.end <= s.base \/ s.end <= r.base
<1>1. /\ r.base \in Address /\ s.base \in Address
      /\ StartsRegion(pages, r.base) /\ StartsRegion(pages, s.base)
      /\ EndsAt(pages, r.base, r.end) /\ EndsAt(pages, s.base, s.end)
      /\ r = RunAt(pages, r.base) /\ s = RunAt(pages, s.base)
  BY RegionsAre
<1>2. r.base # s.base
  BY <1>1
<1>3. CASE r.base < s.base
  <2>1. r.end <= s.base
    BY <1>1, <1>3, RegionsEndBefore
  <2>2. QED
    BY <2>1
<1>4. CASE s.base < r.base
  <2>1. s.end <= r.base
    BY <1>1, <1>4, RegionsEndBefore
  <2>2. QED
    BY <2>1
<1>5. QED
  BY <1>1, <1>2, <1>3, <1>4 DEF Address

(* What maps says of a region is the region but for an odd file's name.    *)
Parsed(r) == [r EXCEPT !.file = IF @ \in OddFiles THEN Anonymous ELSE @]
ParsedOf(pages) == {Parsed(r) : r \in RegionsOf(pages)}

LEMMA ParseMapsIs == ParseMaps = ParsedOf(memory)
  BY MappedRegionsAre DEF ParseMaps, ParsedOf, Parsed

LEMMA ParsedKeeps ==
  ASSUME NEW pages, NEW r \in RegionsOf(pages)
  PROVE  /\ Parsed(r).base = r.base /\ Parsed(r).end = r.end
         /\ Parsed(r).exec = r.exec
         /\ Parsed(r).file = r.file \/ Parsed(r).file = Anonymous
         /\ r.file \notin OddFiles => Parsed(r) = r
<1>1. r = [base |-> r.base, end |-> r.end, file |-> r.file, exec |-> r.exec]
  BY RegionsAre DEF RunAt
<1>2. Parsed(r) = [base |-> r.base, end |-> r.end,
                   file |-> IF r.file \in OddFiles THEN Anonymous ELSE r.file,
                   exec |-> r.exec]
  BY <1>1 DEF Parsed
<1>3. QED
  BY <1>1, <1>2

(* A set of regions that a list of modules can be made of.                 *)
Apart(found) ==
  \A r, s \in found : r # s => r.end <= s.base \/ s.end <= r.base
Sized(found) ==
  \A r \in found : r.base \in Address /\ r.end \in Nat /\ r.base < r.end /\ r.end <= PageCount

LEMMA RegionsAreApart ==
  ASSUME NEW pages
  PROVE  /\ Apart(RegionsOf(pages)) /\ Sized(RegionsOf(pages))
         /\ Apart(ParsedOf(pages)) /\ Sized(ParsedOf(pages))
<1>1. Apart(RegionsOf(pages)) /\ Sized(RegionsOf(pages))
  BY RegionsOfAreDisjoint, RegionsAre DEF Apart, Sized
<1>2. Sized(ParsedOf(pages))
  BY ParsedKeeps, RegionsAre DEF ParsedOf, Sized
<1>3. ASSUME NEW r \in RegionsOf(pages), NEW s \in RegionsOf(pages), Parsed(r) # Parsed(s)
      PROVE  Parsed(r).end <= Parsed(s).base \/ Parsed(s).end <= Parsed(r).base
  <2>1. r # s
    BY <1>3
  <2>2. r.end <= s.base \/ s.end <= r.base
    BY <2>1, RegionsOfAreDisjoint
  <2>3. QED
    BY <2>2, ParsedKeeps
<1>4. Apart(ParsedOf(pages))
  BY <1>3 DEF Apart, ParsedOf
<1>5. QED
  BY <1>1, <1>2, <1>4

(* A module spans the regions of its file, from the lowest to the highest. *)
LEMMA SpansAre ==
  ASSUME NEW found, Sized(found), NEW file, NEW r \in found, r.file = file
  PROVE  /\ SpanOf(file, found).file = file
         /\ SpanOf(file, found).base <= r.base
         /\ r.end <= SpanOf(file, found).end
         /\ \E s \in found : s.file = file /\ s.base = SpanOf(file, found).base
         /\ \E s \in found : s.file = file /\ s.end = SpanOf(file, found).end
<1> DEFINE own == {s \in found : s.file = file}
           bases == {s.base : s \in own}
           ends == {s.end : s \in own}
           low == CHOOSE a \in bases : \A s \in own : a <= s.base
           high == CHOOSE b \in ends : \A s \in own : s.end <= b
<1>1. r \in own
  OBVIOUS
<1>2. \A s \in own : s.base \in Nat /\ s.end \in Nat /\ s.end <= PageCount
  BY ModuleViewAssumption DEF Sized, Address
<1>3. bases \in SUBSET Nat /\ bases # {} /\ ends \in SUBSET Nat /\ ends # {}
  BY <1>1, <1>2
<1>4. low \in bases /\ \A s \in own : low <= s.base
  <2>1. \E a \in bases : \A b \in bases : a <= b
    <3> HIDE DEF bases
    <3>1. QED
      BY <1>3, LeastNumber
  <2>2. \E a \in bases : \A s \in own : a <= s.base
    BY <2>1
  <2>3. QED
    BY <2>2
<1>5. high \in ends /\ \A s \in own : s.end <= high
  <2>1. PageCount \in Nat /\ \A b \in ends : b <= PageCount
    BY <1>2, ModuleViewAssumption
  <2>2. \E a \in ends : \A b \in ends : b <= a
    <3> HIDE DEF ends
    <3>1. QED
      BY <1>3, <2>1, GreatestNumber
  <2>3. \E a \in ends : \A s \in own : s.end <= a
    BY <2>2
  <2>4. QED
    BY <2>3
<1>6. SpanOf(file, found) = [file |-> file, base |-> low, end |-> high]
  BY DEF SpanOf
<1> HIDE DEF low, high
<1>7. SpanOf(file, found).file = file /\ SpanOf(file, found).base = low /\ SpanOf(file, found).end = high
  BY <1>6
<1>8. QED
  BY <1>1, <1>4, <1>5, <1>7

-----------------------------------------------------------------------------
ViewTypeOK ==
  /\ memory \in [Address -> Mappings]
  /\ steady \subseteq Address
  /\ stage \in {"start", "ready", "counted", "querying", "listed", "walking", "done"}
  /\ cursor \in 0..PageCount
  /\ capacity \in Nat
  /\ overrun \in BOOLEAN

(* Whatever the process does meanwhile, the walk leaves what it reports    *)
(* behind its cursor.                                                      *)
Walked ==
  /\ Sized(regions) /\ Apart(regions)
  /\ stage \notin {"walking", "done"} => regions = {} /\ cursor = 0
  /\ stage = "walking" => \A r \in regions : r.end <= cursor
  /\ stage \in {"start", "ready", "counted"} => modules = {}
  /\ stage # "done" /\ stage # "walking" /\ stage # "querying" => overrun = FALSE

LEMMA SizedAndApart ==
  ASSUME NEW found, Sized(found), Apart(found), NEW a \in Address,
         \A r \in found : r.end <= a, NEW pages
  PROVE  /\ Sized(found \union {RunAt(pages, a)})
         /\ Apart(found \union {RunAt(pages, a)})
         /\ RunAt(pages, a).end \in Nat
         /\ a < RunAt(pages, a).end /\ RunAt(pages, a).end <= PageCount
<1> DEFINE new == RunAt(pages, a)
<1>1. new.base = a /\ new.end = RunEnd(pages, a)
  BY DEF RunAt
<1>2. new.end \in Nat /\ a < new.end /\ new.end <= PageCount
  BY <1>1, RunsEnd, ModuleViewAssumption DEF EndsAt, Address
<1> HIDE DEF new
<1>3. Sized(found \union {new})
  BY <1>1, <1>2 DEF Sized
<1>4. Apart(found \union {new})
  BY <1>1 DEF Apart
<1>5. QED
  BY <1>2, <1>3, <1>4 DEF new

(* There are finitely many regions, of finitely many files.                *)
LEMMA FiniteImage ==
  ASSUME NEW S, IsFiniteSet(S), NEW f
  PROVE  IsFiniteSet({f[x] : x \in S})
<1> DEFINE T == {f[x] : x \in S}
           g == [x \in S |-> f[x]]
<1>1. g \in [S -> T]
  OBVIOUS
<1>2. \A t \in T : \E x \in S : g[x] = t
  OBVIOUS
<1>3. g \in Surjection(S, T)
  BY <1>1, <1>2 DEF Surjection
<1> HIDE DEF g
<1>4. QED
  BY <1>3, FS_Surjection

LEMMA FilesAreFinite ==
  ASSUME NEW pages
  PROVE  IsFiniteSet(FilesOf(RegionsOf(pages)))
<1> DEFINE starts == {b \in Address : StartsRegion(pages, b)}
           fileAt == [a \in starts |-> RunAt(pages, a).file]
<1>1. IsFiniteSet(Address)
  BY ModuleViewAssumption, FS_Interval DEF Address
<1>2. IsFiniteSet(starts)
  BY <1>1, FS_Subset
<1>3. IsFiniteSet({fileAt[a] : a \in starts})
  <2> HIDE DEF starts, fileAt
  <2>1. QED
    BY <1>2, FiniteImage
<1>4. FilesOf(RegionsOf(pages)) \subseteq {fileAt[a] : a \in starts}
  BY DEF FilesOf, RegionsOf
<1>5. QED
  BY <1>3, <1>4, FS_Subset

LEMMA ViewTypeStep == ViewTypeOK /\ [ViewNext]_viewVars => ViewTypeOK'
<1> SUFFICES ASSUME ViewTypeOK, [ViewNext]_viewVars PROVE ViewTypeOK'
  OBVIOUS
<1>0. PageCount \in Nat
  BY ModuleViewAssumption
<1>1. CASE ProcessLoaded
  BY <1>1 DEF ProcessLoaded, ViewTypeOK
<1>2. CASE \E a \in Address : Remap(a)
  BY <1>2 DEF Remap, ViewTypeOK
<1>3. CASE ListModules \/ ListRegions
  BY <1>3 DEF ListModules, ListRegions, ViewTypeOK
<1>4. CASE CountModules
  <2>1. Cardinality(FilesOf(MappedRegions)) \in Nat
    BY FilesAreFinite, MappedRegionsAre, FS_CardinalityType
  <2>2. QED
    BY <1>4, <2>1 DEF CountModules, ViewTypeOK
<1>5. CASE FetchHandles
  BY <1>5 DEF FetchHandles, ViewTypeOK
<1>6. CASE HandlesQueried \/ \E f \in Files : QueryHandle(f)
  BY <1>6 DEF HandlesQueried, QueryHandle, ViewTypeOK
<1>7. CASE WalkRegion
  <2>1. cursor \in Address
    BY <1>0, <1>7 DEF WalkRegion, ViewTypeOK, Address
  <2>2. RunFrom(cursor).end = RunEnd(memory, cursor)
    BY RunFromIs DEF RunAt
  <2>3. RunFrom(cursor).end \in 0..PageCount
    BY <1>0, <2>1, <2>2, RunsEnd DEF EndsAt, Address
  <2>4. cursor + 1 \in 0..PageCount
    BY <1>0, <2>1 DEF Address
  <2>5. QED
    BY <1>7, <2>3, <2>4 DEF WalkRegion, ViewTypeOK
<1>8. CASE WalkEnds
  BY <1>8 DEF WalkEnds, ViewTypeOK
<1>9. CASE UNCHANGED viewVars
  BY <1>9 DEF viewVars, ViewTypeOK
<1>10. QED
  BY <1>1, <1>2, <1>3, <1>4, <1>5, <1>6, <1>7, <1>8, <1>9 DEF ViewNext

LEMMA WalkedStep == ViewTypeOK /\ Walked /\ [ViewNext]_viewVars => Walked'
<1> SUFFICES ASSUME ViewTypeOK, Walked, [ViewNext]_viewVars PROVE Walked'
  OBVIOUS
<1>0. PageCount \in Nat /\ cursor \in Nat /\ cursor <= PageCount
  BY ModuleViewAssumption DEF ViewTypeOK
<1>1. CASE ProcessLoaded \/ ListModules \/ CountModules \/ FetchHandles \/ HandlesQueried
  BY <1>1 DEF ProcessLoaded, ListModules, CountModules, FetchHandles, HandlesQueried,
              Walked, Sized, Apart
<1>2. CASE \E a \in Address : Remap(a)
  BY <1>2 DEF Remap, Walked, Sized, Apart
<1>3. CASE ListRegions
  <2>1. regions' = ParsedOf(memory)
    BY <1>3, ParseMapsIs DEF ListRegions
  <2>2. Sized(regions') /\ Apart(regions')
    BY <2>1, RegionsAreApart
  <2>3. QED
    BY <1>3, <2>2 DEF ListRegions, Walked, Sized, Apart
<1>4. CASE \E f \in Files : QueryHandle(f)
  BY <1>4 DEF QueryHandle, Walked, Sized, Apart
<1>5. CASE WalkRegion
  <2>1. cursor \in Address /\ stage = "walking" /\ stage' = "walking"
    BY <1>0, <1>5 DEF WalkRegion, Address
  <2>2. CASE memory[cursor] = None
    <3>1. cursor' = cursor + 1 /\ regions' = regions
      BY <1>5, <2>2 DEF WalkRegion
    <3>2. \A r \in regions : r.end \in Nat /\ r.end <= cursor
      BY <2>1 DEF Walked, Sized
    <3>3. \A r \in regions' : r.end <= cursor'
      BY <1>0, <3>1, <3>2
    <3>4. QED
      BY <2>1, <3>1, <3>3 DEF Walked, Sized, Apart
  <2>3. CASE memory[cursor] # None
    <3>1. /\ cursor' = RunAt(memory, cursor).end
          /\ regions' = regions \union {RunAt(memory, cursor)}
      BY <1>5, <2>3, RunFromIs DEF WalkRegion
    <3>2. \A r \in regions : r.end \in Nat /\ r.end <= cursor
      BY <2>1 DEF Walked, Sized
    <3>3. /\ Sized(regions') /\ Apart(regions')
          /\ cursor' \in Nat /\ cursor < cursor'
      BY <2>1, <3>1, <3>2, SizedAndApart DEF Walked
    <3>4. \A r \in regions' : r.end <= cursor'
      <4>1. \A r \in regions : r.end <= cursor'
        BY <1>0, <3>2, <3>3
      <4>2. QED
        BY <3>1, <3>3, <4>1
    <3>5. QED
      BY <2>1, <3>3, <3>4 DEF Walked, Sized, Apart
  <2>4. QED
    BY <2>2, <2>3
<1>6. CASE WalkEnds
  BY <1>6 DEF WalkEnds, Walked, Sized, Apart
<1>7. CASE UNCHANGED viewVars
  BY <1>7 DEF viewVars, Walked, Sized, Apart
<1>8. QED
  BY <1>1, <1>2, <1>3, <1>4, <1>5, <1>6, <1>7 DEF ViewNext

LEMMA ViewInitially == ViewInit => ViewTypeOK /\ Walked
<1> SUFFICES ASSUME ViewInit PROVE ViewTypeOK /\ Walked
  OBVIOUS
<1>1. 0 \in 0..PageCount
  BY ModuleViewAssumption
<1>2. ViewTypeOK
  BY <1>1 DEF ViewInit, ViewTypeOK, Mappings
<1>3. Walked
  BY DEF ViewInit, Walked, Sized, Apart
<1>4. QED
  BY <1>2, <1>3

(* The regions reported never overlap, on either platform, whatever is     *)
(* mapped and unmapped between two calls of VirtualQueryEx, for every size *)
(* of the address space: allRegions of ModuleEnumerator::enumerate().      *)
THEOREM RegionsNeverOverlap == ViewSpec => []RegionsAreDisjoint
<1>1. ViewInit => ViewTypeOK /\ Walked
  BY ViewInitially
<1>2. (ViewTypeOK /\ Walked) /\ [ViewNext]_viewVars => (ViewTypeOK /\ Walked)'
  BY ViewTypeStep, WalkedStep
<1>3. ViewTypeOK /\ Walked => RegionsAreDisjoint
  BY DEF Walked, Apart, RegionsAreDisjoint
<1>4. QED
  BY <1>1, <1>2, <1>3, PTL DEF ViewSpec

-----------------------------------------------------------------------------
(* Modules that are spans of the files of one set of regions.              *)
MadeOf(found) == \A m \in modules : \E f \in FilesOf(found) : m = SpanOf(f, found)

(* In a process that does not change, both enumerations are of the same    *)
(* regions, and the walk has reported those it has passed.                 *)
Quiet ==
  steady = Address =>
    /\ stage = "listed" => MadeOf(ParsedOf(memory))
    /\ stage \in {"querying", "walking"} => MadeOf(RegionsOf(memory))
    /\ stage = "walking" =>
         /\ regions = {r \in RegionsOf(memory) : r.end <= cursor}
         /\ cursor < PageCount /\ memory[cursor] # None => StartsRegion(memory, cursor)
    /\ stage = "done" => \/ regions = RegionsOf(memory) /\ MadeOf(RegionsOf(memory))
                         \/ regions = ParsedOf(memory) /\ MadeOf(ParsedOf(memory))

(* A walk from the start of a region passes that region and no other.      *)
LEMMA StepOverRegion ==
  ASSUME NEW pages, NEW a \in Address, StartsRegion(pages, a)
  PROVE  /\ {r \in RegionsOf(pages) : r.end <= RunAt(pages, a).end}
              = {r \in RegionsOf(pages) : r.end <= a} \union {RunAt(pages, a)}
         /\ RunAt(pages, a).end < PageCount /\ pages[RunAt(pages, a).end] # None
              => StartsRegion(pages, RunAt(pages, a).end)
<1> DEFINE new == RunAt(pages, a)
<1>0. PageCount \in Nat /\ a \in Nat
  BY ModuleViewAssumption DEF Address
<1>1. new \in RegionsOf(pages) /\ new.base = a
  BY DEF RegionsOf, RunAt
<1> HIDE DEF new
<1>2. EndsAt(pages, a, new.end) /\ new.end \in Nat /\ a < new.end /\ new.end <= PageCount
  BY <1>1, RegionsAre
<1>3. ASSUME NEW r \in RegionsOf(pages), r.end <= new.end, r # new PROVE r.end <= a
  <2>1. r.base \in Nat /\ r.end \in Nat /\ r.base < r.end
    BY RegionsAre, ModuleViewAssumption DEF Address
  <2>2. r.end <= new.base \/ new.end <= r.base
    BY <1>1, <1>3, RegionsOfAreDisjoint
  <2>3. QED
    BY <1>0, <1>1, <1>2, <1>3, <2>1, <2>2
<1>4. ASSUME NEW r \in RegionsOf(pages), r.end <= a PROVE r.end <= new.end
  <2>1. r.end \in Nat
    BY RegionsAre
  <2>2. QED
    BY <1>0, <1>2, <1>4, <2>1
<1>5. {r \in RegionsOf(pages) : r.end <= new.end}
        = {r \in RegionsOf(pages) : r.end <= a} \union {new}
  BY <1>1, <1>2, <1>3, <1>4
<1>6. ASSUME new.end < PageCount, pages[new.end] # None PROVE StartsRegion(pages, new.end)
  <2>1. new.end # PageCount /\ new.end # 0 /\ new.end - 1 \in a..(new.end - 1)
    BY <1>0, <1>2, <1>6
  <2>2. pages[new.end] # pages[a] /\ pages[new.end - 1] = pages[a]
    BY <1>2, <2>1 DEF EndsAt
  <2>3. QED
    BY <1>6, <2>2 DEF StartsRegion
<1>7. QED
  BY <1>5, <1>6 DEF new

(* A walk over a page with nothing in it passes no region.                 *)
LEMMA StepOverNothing ==
  ASSUME NEW pages, NEW a \in Address, pages[a] = None
  PROVE  /\ {r \in RegionsOf(pages) : r.end <= a + 1} = {r \in RegionsOf(pages) : r.end <= a}
         /\ pages[a + 1] # None => StartsRegion(pages, a + 1)
<1>0. PageCount \in Nat /\ a \in Nat
  BY ModuleViewAssumption DEF Address
<1>1. ASSUME NEW r \in RegionsOf(pages), r.end <= a + 1 PROVE r.end <= a
  <2>1. /\ r.base \in Nat /\ r.end \in Nat /\ r.base < r.end
        /\ StartsRegion(pages, r.base) /\ EndsAt(pages, r.base, r.end)
    BY RegionsAre, ModuleViewAssumption DEF Address
  <2>2. ASSUME r.end = a + 1 PROVE FALSE
    <3>1. a \in r.base..(r.end - 1)
      BY <1>0, <2>1, <2>2
    <3>2. pages[a] = pages[r.base]
      BY <2>1, <3>1 DEF EndsAt
    <3>3. QED
      BY <2>1, <3>2 DEF StartsRegion
  <2>3. QED
    BY <1>0, <1>1, <2>1, <2>2
<1>2. ASSUME NEW r \in RegionsOf(pages), r.end <= a PROVE r.end <= a + 1
  <2>1. r.end \in Nat
    BY RegionsAre
  <2>2. QED
    BY <1>0, <1>2, <2>1
<1>3. pages[a + 1] # None => StartsRegion(pages, a + 1)
  BY <1>0 DEF StartsRegion
<1>4. QED
  BY <1>1, <1>2, <1>3

LEMMA NothingBeforeZero ==
  ASSUME NEW pages
  PROVE  /\ {r \in RegionsOf(pages) : r.end <= 0} = {}
         /\ pages[0] # None => StartsRegion(pages, 0)
<1>1. \A r \in RegionsOf(pages) : r.base \in Nat /\ r.end \in Nat /\ r.base < r.end
  BY RegionsAre, ModuleViewAssumption DEF Address
<1>2. \A r \in RegionsOf(pages) : ~(r.end <= 0)
  BY <1>1
<1>3. QED
  BY <1>2 DEF StartsRegion

LEMMA QuietStep == ViewTypeOK /\ Walked /\ Quiet /\ [ViewNext]_viewVars => Quiet'
<1> SUFFICES ASSUME ViewTypeOK, Walked, Quiet, [ViewNext]_viewVars, steady' = Address
             PROVE  Quiet'
  BY DEF Quiet
<1>0. PageCount \in Nat /\ cursor \in Nat /\ cursor <= PageCount
  BY ModuleViewAssumption DEF ViewTypeOK
<1>1. CASE ProcessLoaded
  BY <1>1 DEF ProcessLoaded, Quiet
<1>2. ASSUME NEW a \in Address, Remap(a) PROVE FALSE
  BY <1>2 DEF Remap
<1>3. CASE ListModules
  <2>1. /\ modules' = {SpanOf(f, ParsedOf(memory)) : f \in FilesOf(ParsedOf(memory))}
        /\ stage' = "listed" /\ memory' = memory
    BY <1>3, ParseMapsIs DEF ListModules
  <2>2. MadeOf(ParsedOf(memory))'
    BY <2>1 DEF MadeOf, ParsedOf, RegionsOf, RunAt, StartsRegion
  <2>3. QED
    BY <2>1, <2>2 DEF Quiet
<1>4. CASE ListRegions
  <2>1. /\ stage = "listed" /\ stage' = "done" /\ regions' = ParsedOf(memory)
        /\ memory' = memory /\ modules' = modules /\ steady' = steady
    BY <1>4, ParseMapsIs DEF ListRegions
  <2>2. MadeOf(ParsedOf(memory))'
    BY <2>1 DEF Quiet, MadeOf
  <2>3. QED
    BY <2>1, <2>2 DEF Quiet
<1>5. CASE CountModules
  <2>1. /\ stage' \in {"walking", "counted"} /\ modules' = {} /\ memory' = memory
        /\ regions' = {} /\ cursor' = 0
    BY <1>5 DEF CountModules, Walked
  <2>2. MadeOf(RegionsOf(memory))'
    BY <2>1 DEF MadeOf
  <2>3. regions' = {r \in RegionsOf(memory) : r.end <= cursor'}
    BY <2>1, NothingBeforeZero
  <2>4. memory[cursor'] # None => StartsRegion(memory, cursor')
    BY <2>1, NothingBeforeZero
  <2>5. QED
    BY <2>1, <2>2, <2>3, <2>4 DEF Quiet
<1>6. CASE FetchHandles
  <2>1. stage' = "querying" /\ modules' = {}
    BY <1>6 DEF FetchHandles, Walked
  <2>2. QED
    BY <2>1 DEF Quiet, MadeOf
<1>7. ASSUME NEW f \in Files, QueryHandle(f) PROVE Quiet'
  <2>1. /\ stage = "querying" /\ stage' = "querying" /\ memory' = memory
        /\ modules' = modules \union (IF f \in FilesOf(RegionsOf(memory))
                                      THEN {SpanOf(f, RegionsOf(memory))} ELSE {})
        /\ steady' = steady
    BY <1>7, MappedRegionsAre DEF QueryHandle
  <2>2. MadeOf(RegionsOf(memory))
    BY <2>1 DEF Quiet
  <2>3. MadeOf(RegionsOf(memory))'
    BY <2>1, <2>2 DEF MadeOf
  <2>4. QED
    BY <2>1, <2>3 DEF Quiet
<1>8. CASE HandlesQueried
  <2>1. /\ stage = "querying" /\ stage' = "walking" /\ memory' = memory
        /\ regions' = {} /\ cursor' = 0 /\ modules' = modules /\ steady' = steady
    BY <1>8 DEF HandlesQueried, Walked
  <2>2. MadeOf(RegionsOf(memory))'
    BY <2>1 DEF Quiet, MadeOf
  <2>3. regions' = {r \in RegionsOf(memory) : r.end <= cursor'}
    BY <2>1, NothingBeforeZero
  <2>4. memory[cursor'] # None => StartsRegion(memory, cursor')
    BY <2>1, NothingBeforeZero
  <2>5. QED
    BY <2>1, <2>2, <2>3, <2>4 DEF Quiet
<1>9. CASE WalkRegion
  <2>1. /\ cursor \in Address /\ stage = "walking" /\ stage' = "walking"
        /\ memory' = memory /\ modules' = modules /\ steady' = steady /\ cursor < PageCount
    BY <1>0, <1>9 DEF WalkRegion, Address
  <2>2. /\ MadeOf(RegionsOf(memory))
        /\ regions = {r \in RegionsOf(memory) : r.end <= cursor}
        /\ memory[cursor] # None => StartsRegion(memory, cursor)
    BY <2>1 DEF Quiet
  <2>3. MadeOf(RegionsOf(memory))'
    BY <2>1, <2>2 DEF MadeOf
  <2>4. /\ regions' = {r \in RegionsOf(memory) : r.end <= cursor'}
        /\ cursor' < PageCount /\ memory[cursor'] # None => StartsRegion(memory, cursor')
    <3>1. CASE memory[cursor] = None
      <4>1. cursor' = cursor + 1 /\ regions' = regions
        BY <1>9, <3>1 DEF WalkRegion
      <4>2. QED
        BY <2>1, <2>2, <3>1, <4>1, StepOverNothing
    <3>2. CASE memory[cursor] # None
      <4>1. /\ cursor' = RunAt(memory, cursor).end
            /\ regions' = regions \union {RunAt(memory, cursor)}
        BY <1>9, <3>2, RunFromIs DEF WalkRegion
      <4>2. QED
        BY <2>1, <2>2, <3>2, <4>1, StepOverRegion
    <3>3. QED
      BY <3>1, <3>2
  <2>5. QED
    BY <2>1, <2>3, <2>4 DEF Quiet
<1>10. CASE WalkEnds
  <2>1. /\ stage = "walking" /\ stage' = "done" /\ memory' = memory /\ cursor = PageCount
        /\ modules' = modules /\ regions' = regions /\ steady' = steady
    BY <1>10 DEF WalkEnds
  <2>2. /\ MadeOf(RegionsOf(memory))
        /\ regions = {r \in RegionsOf(memory) : r.end <= PageCount}
    BY <2>1 DEF Quiet
  <2>3. regions = RegionsOf(memory)
    BY <2>2, RegionsAre
  <2>4. QED
    BY <2>1, <2>2, <2>3 DEF Quiet, MadeOf
<1>11. CASE UNCHANGED viewVars
  <2>1. /\ stage' = stage /\ memory' = memory /\ cursor' = cursor
        /\ modules' = modules /\ regions' = regions /\ steady' = steady
    BY <1>11 DEF viewVars
  <2>2. QED
    BY <2>1 DEF Quiet, MadeOf
<1>12. QED
  BY <1>1, <1>2, <1>3, <1>4, <1>5, <1>6, <1>7, <1>8, <1>9, <1>10, <1>11 DEF ViewNext

(* A section of a module lies between the regions that bound the module.   *)
LEMMA SectionsOfSpans ==
  ASSUME NEW found, Sized(found), Apart(found), NEW f \in FilesOf(found),
         NEW r \in found,
         r.base >= SpanOf(f, found).base, r.base < SpanOf(f, found).end
  PROVE  /\ r.end <= SpanOf(f, found).end
         /\ r.file # f => \E own \in found : own.file = f /\ own.base >= r.end
         /\ r.file # f => \E own \in found : own.file = f /\ own.end <= r.base
<1> DEFINE m == SpanOf(f, found)
<1>1. PICK q \in found : q.file = f
  BY DEF FilesOf
<1>2. \A s \in found : s.base \in Nat /\ s.end \in Nat /\ s.base < s.end
  BY ModuleViewAssumption DEF Sized, Address
<1>3. PICK low \in found : low.file = f /\ low.base = m.base
  BY <1>1, SpansAre
<1>4. PICK high \in found : high.file = f /\ high.end = m.end
  BY <1>1, SpansAre
<1>5. CASE r.file = f
  BY <1>5, SpansAre
<1>6. CASE r.file # f
  <2>1. r # low /\ r # high
    BY <1>3, <1>4, <1>6
  <2>2. r.end <= high.base
    <3>1. r.end <= high.base \/ high.end <= r.base
      BY <2>1 DEF Apart
    <3>2. ~(high.end <= r.base)
      BY <1>2, <1>4
    <3>3. QED
      BY <3>1, <3>2
  <2>3. low.end <= r.base
    <3>1. r.end <= low.base \/ low.end <= r.base
      BY <2>1 DEF Apart
    <3>2. ~(r.end <= low.base)
      BY <1>2, <1>3
    <3>3. QED
      BY <3>1, <3>2
  <2>4. r.end <= m.end
    BY <1>2, <1>4, <2>2
  <2>5. QED
    BY <1>2, <1>3, <1>4, <2>2, <2>3, <2>4
<1>7. QED
  BY <1>5, <1>6

LEMMA QuietIsEnough == Quiet => QuietSectionsAreOwned
<1> SUFFICES ASSUME Quiet, stage = "done", steady = Address,
                    NEW m \in modules, NEW r \in CodeSections(m)
             PROVE  /\ r.end <= m.end
                    /\ r.file # m.file =>
                         \E own \in regions : own.file = m.file /\ own.base >= r.end
                    /\ r.file # m.file =>
                         \E own \in regions : own.file = m.file /\ own.end <= r.base
  BY DEF QuietSectionsAreOwned
<1>1. PICK found : found = regions /\ Sized(found) /\ Apart(found) /\ MadeOf(found)
  BY RegionsAreApart DEF Quiet
<1>2. PICK f \in FilesOf(found) : m = SpanOf(f, found)
  BY <1>1 DEF MadeOf
<1>3. m.file = f
  BY <1>2 DEF SpanOf
<1>4. r \in found /\ r.base >= m.base /\ r.base < m.end
  BY <1>1 DEF CodeSections
<1>5. QED
  BY <1>1, <1>2, <1>3, <1>4, SectionsOfSpans

(* In a process that does not change, code sections are those of their     *)
(* module, on either platform and for every layout of the address space:   *)
(* deriveCodeSections() and the two enumerations it joins.                 *)
THEOREM QuietSectionsHaveOwners == ViewSpec => []QuietSectionsAreOwned
<1>1. ViewInit => ViewTypeOK /\ Walked /\ Quiet
  <2>1. ViewInit => Quiet
    BY DEF ViewInit, Quiet
  <2>2. QED
    BY <2>1, ViewInitially
<1>2. (ViewTypeOK /\ Walked /\ Quiet) /\ [ViewNext]_viewVars
        => (ViewTypeOK /\ Walked /\ Quiet)'
  BY ViewTypeStep, WalkedStep, QuietStep
<1>3. ViewTypeOK /\ Walked /\ Quiet => QuietSectionsAreOwned
  BY QuietIsEnough
<1>4. QED
  BY <1>1, <1>2, <1>3, PTL DEF ViewSpec

-----------------------------------------------------------------------------
(* An executable region that has been there, with its neighbours, all the  *)
(* time, of a file whose line in maps names it; and a module that spans it.*)
Steady(r) ==
  /\ r \in RegionsOf(memory)
  /\ r.exec /\ r.file \in Files \ OddFiles
  /\ {a \in Address : r.base <= a + 1 /\ a <= r.end} \subseteq steady
Covered(r) == \E m \in modules : m.file = r.file /\ m.base <= r.base /\ r.base < m.end

(* Once modules are listed every steady region is covered, or its module   *)
(* is about to be; the walk never stops inside it.                         *)
SteadyInv ==
  ~overrun =>
    \A r : Steady(r) =>
      /\ stage \in {"listed", "walking", "done"} => Covered(r)
      /\ stage = "querying" => r.file \in handles \/ Covered(r)
      /\ stage = "walking" => cursor <= r.base \/ (r.end <= cursor /\ r \in regions)
      /\ stage = "done" => r \in regions

(* A region whose pages and neighbours are not remapped was there before.  *)
LEMMA RemappedElsewhere ==
  ASSUME NEW pages \in [Address -> Mappings], NEW a \in Address, NEW m,
         NEW r \in RegionsOf([pages EXCEPT ![a] = m]),
         ~(r.base <= a + 1 /\ a <= r.end)
  PROVE  r \in RegionsOf(pages)
<1> DEFINE changed == [pages EXCEPT ![a] = m]
<1>0. PageCount \in Nat /\ a \in Nat
  BY ModuleViewAssumption DEF Address
<1>1. /\ r.base \in Address /\ StartsRegion(changed, r.base)
      /\ EndsAt(changed, r.base, r.end)
      /\ r = RunAt(changed, r.base)
      /\ r.base \in Nat /\ r.end \in Nat /\ r.base < r.end /\ r.end <= PageCount
  BY RegionsAre, ModuleViewAssumption DEF Address
<1>2. \A c \in Address : c # a => changed[c] = pages[c]
  OBVIOUS
<1> HIDE DEF changed
<1>3. changed[r.base] = pages[r.base]
  BY <1>0, <1>1, <1>2
<1>4. EndsAt(pages, r.base, r.end)
  <2>1. \A c \in r.base..(r.end - 1) : c \in Address /\ c # a
    BY <1>0, <1>1 DEF Address
  <2>2. r.end # PageCount => r.end \in Address /\ r.end # a
    BY <1>0, <1>1 DEF Address
  <2>3. QED
    BY <1>1, <1>2, <1>3, <2>1, <2>2 DEF EndsAt
<1>5. StartsRegion(pages, r.base)
  <2>1. r.base # 0 => r.base - 1 \in Address /\ r.base - 1 # a
    BY <1>0, <1>1 DEF Address
  <2>2. QED
    BY <1>1, <1>2, <1>3, <2>1 DEF StartsRegion
<1>6. r.end = RunEnd(pages, r.base)
  BY <1>1, <1>4, RunsEnd, RunsEndOnce
<1>7. r = RunAt(pages, r.base)
  BY <1>1, <1>3, <1>6 DEF RunAt
<1>8. QED
  BY <1>1, <1>5, <1>7 DEF RegionsOf

(* So what is steady after a step was steady before it.                    *)
LEMMA SteadyWas ==
  ASSUME ViewTypeOK, [ViewNext]_viewVars, ~ProcessLoaded, NEW r, Steady(r)'
  PROVE  Steady(r)
<1>1. ASSUME NEW a \in Address, Remap(a) PROVE Steady(r)
  <2>1. PICK m : memory' = [memory EXCEPT ![a] = m]
    BY <1>1 DEF Remap
  <2>2. steady' = steady \ {a}
    BY <1>1 DEF Remap
  <2>3. r \in RegionsOf(memory') /\ r.exec /\ r.file \in Files \ OddFiles
        /\ {c \in Address : r.base <= c + 1 /\ c <= r.end} \subseteq steady'
    BY DEF Steady, RegionsOf, RunAt, StartsRegion
  <2>4. ~(r.base <= a + 1 /\ a <= r.end)
    BY <2>2, <2>3
  <2>5. r \in RegionsOf(memory)
    BY <2>1, <2>3, <2>4, RemappedElsewhere DEF ViewTypeOK
  <2>6. QED
    BY <2>2, <2>3, <2>5 DEF Steady
<1>2. CASE memory' = memory /\ steady' = steady
  BY <1>2 DEF Steady
<1>3. CASE ListModules \/ ListRegions \/ CountModules \/ FetchHandles \/ HandlesQueried
  BY <1>2, <1>3 DEF ListModules, ListRegions, CountModules, FetchHandles, HandlesQueried
<1>4. CASE \E f \in Files : QueryHandle(f)
  BY <1>2, <1>4 DEF QueryHandle
<1>5. CASE WalkRegion \/ WalkEnds \/ UNCHANGED viewVars
  BY <1>2, <1>5 DEF WalkRegion, WalkEnds, viewVars
<1>6. QED
  BY <1>1, <1>3, <1>4, <1>5 DEF ViewNext

(* A steady region's file is listed, and its span covers it.               *)
LEMMA SpansCover ==
  ASSUME NEW found, Sized(found), NEW r \in found, r.file \in Files
  PROVE  /\ r.file \in FilesOf(found)
         /\ SpanOf(r.file, found).file = r.file
         /\ SpanOf(r.file, found).base <= r.base
         /\ r.base < SpanOf(r.file, found).end
<1>1. r.file \in FilesOf(found)
  BY ModuleViewAssumption DEF FilesOf
<1>2. /\ SpanOf(r.file, found).file = r.file
      /\ SpanOf(r.file, found).base <= r.base
      /\ r.end <= SpanOf(r.file, found).end
      /\ \E s \in found : s.end = SpanOf(r.file, found).end
  BY SpansAre
<1>3. r.base \in Nat /\ r.end \in Nat /\ r.base < r.end /\ SpanOf(r.file, found).end \in Nat
  BY <1>2, ModuleViewAssumption DEF Sized, Address
<1>4. QED
  BY <1>1, <1>2, <1>3

LEMMA SteadyIsParsed ==
  ASSUME NEW r, Steady(r)
  PROVE  r \in ParsedOf(memory) /\ r \in RegionsOf(memory) /\ r.file \in Files
         /\ r.base \in Address /\ r.end \in Nat /\ r.base < r.end /\ r.end <= PageCount
         /\ StartsRegion(memory, r.base)
         /\ RunAt(memory, r.base) = r
<1>1. r \in RegionsOf(memory) /\ r.file \in Files /\ r.file \notin OddFiles
  BY DEF Steady
<1>2. Parsed(r) = r
  BY <1>1, ParsedKeeps
<1>3. r \in ParsedOf(memory)
  BY <1>1, <1>2 DEF ParsedOf
<1>4. QED
  BY <1>1, <1>3, RegionsAre

(* As many handles as files, of the files: all of them.                    *)
LEMMA AllWritten ==
  ASSUME NEW pages, NEW written \in SUBSET FilesOf(RegionsOf(pages)), NEW room \in Nat,
         Cardinality(written) = (IF Cardinality(FilesOf(RegionsOf(pages))) < room
                                 THEN Cardinality(FilesOf(RegionsOf(pages))) ELSE room),
         ~(Cardinality(FilesOf(RegionsOf(pages))) > room)
  PROVE  written = FilesOf(RegionsOf(pages))
<1> DEFINE now == FilesOf(RegionsOf(pages))
<1>1. IsFiniteSet(now) /\ Cardinality(now) \in Nat
  BY FilesAreFinite, FS_CardinalityType
<1>2. Cardinality(written) = Cardinality(now)
  BY <1>1
<1>3. QED
  BY <1>1, <1>2, FS_Subset

LEMMA SteadyStep == ViewTypeOK /\ Walked /\ SteadyInv /\ [ViewNext]_viewVars => SteadyInv'
<1> SUFFICES ASSUME ViewTypeOK, Walked, SteadyInv, [ViewNext]_viewVars, ~overrun',
                    NEW r, Steady(r)'
             PROVE  /\ stage' \in {"listed", "walking", "done"} => Covered(r)'
                    /\ stage' = "querying" => r.file \in handles' \/ Covered(r)'
                    /\ stage' = "walking" =>
                         cursor' <= r.base \/ (r.end <= cursor' /\ r \in regions')
                    /\ stage' = "done" => r \in regions'
  BY DEF SteadyInv
<1>0. PageCount \in Nat /\ cursor \in Nat /\ cursor <= PageCount
  BY ModuleViewAssumption DEF ViewTypeOK
<1>1. CASE ProcessLoaded
  BY <1>1 DEF ProcessLoaded
<1>2. CASE ~ProcessLoaded
  <2>1. Steady(r)
    BY <1>2, SteadyWas
  <2>2. ASSUME ~overrun
        PROVE  /\ stage \in {"listed", "walking", "done"} => Covered(r)
               /\ stage = "querying" => r.file \in handles \/ Covered(r)
               /\ stage = "walking" => cursor <= r.base \/ (r.end <= cursor /\ r \in regions)
               /\ stage = "done" => r \in regions
    BY <2>1, <2>2 DEF SteadyInv
  <2>3. /\ r \in ParsedOf(memory) /\ r \in RegionsOf(memory) /\ r.file \in Files
        /\ r.base \in Address /\ r.end \in Nat /\ r.base < r.end /\ r.end <= PageCount
        /\ StartsRegion(memory, r.base) /\ RunAt(memory, r.base) = r /\ r.base \in Nat
    BY <2>1, SteadyIsParsed, ModuleViewAssumption DEF Address
  <2>4. CASE \E a \in Address : Remap(a)
    BY <2>2, <2>4 DEF Remap, Covered
  <2>5. CASE ListModules
    <3>1. SpanOf(r.file, ParsedOf(memory)) \in modules' /\ stage' = "listed"
      BY <2>3, <2>5, ParseMapsIs, SpansCover, RegionsAreApart DEF ListModules
    <3>2. QED
      BY <2>3, <3>1, SpansCover, RegionsAreApart DEF Covered
  <2>6. CASE ListRegions
    BY <2>2, <2>3, <2>6, ParseMapsIs DEF ListRegions, Covered
  <2>7. CASE CountModules
    <3>1. r.file \in FilesOf(RegionsOf(memory)) /\ IsFiniteSet(FilesOf(RegionsOf(memory)))
      BY <2>3, SpansCover, RegionsAreApart, FilesAreFinite
    <3>2. Cardinality(FilesOf(RegionsOf(memory))) # 0
      BY <3>1, FS_EmptySet
    <3>3. stage' = "counted"
      BY <2>7, <3>2, MappedRegionsAre DEF CountModules
    <3>4. QED
      BY <3>3
  <2>8. CASE FetchHandles
    <3>1. /\ stage' = "querying"
          /\ overrun' = (Cardinality(FilesOf(RegionsOf(memory))) > capacity)
      BY <2>8, MappedRegionsAre DEF FetchHandles
    <3>2. ~(Cardinality(FilesOf(RegionsOf(memory))) > capacity)
      BY <3>1
    <3>3. \E written \in SUBSET FilesOf(RegionsOf(memory)) :
            /\ Cardinality(written)
                 = (IF Cardinality(FilesOf(RegionsOf(memory))) < capacity
                    THEN Cardinality(FilesOf(RegionsOf(memory))) ELSE capacity)
            /\ handles' = written
      BY <2>8, MappedRegionsAre DEF FetchHandles
    <3>4. handles' = FilesOf(RegionsOf(memory))
      BY <3>2, <3>3, AllWritten DEF ViewTypeOK
    <3>5. r.file \in handles'
      BY <2>3, <3>4, SpansCover, RegionsAreApart
    <3>6. QED
      BY <3>1, <3>5
  <2>9. ASSUME NEW f \in Files, QueryHandle(f)
        PROVE  stage' = "querying" /\ (r.file \in handles' \/ Covered(r)')
    <3>1. /\ stage = "querying" /\ stage' = "querying" /\ handles' = handles \ {f}
          /\ modules \subseteq modules' /\ overrun' = overrun
          /\ f \in FilesOf(RegionsOf(memory)) =>
               SpanOf(f, RegionsOf(memory)) \in modules'
      BY <2>9, MappedRegionsAre DEF QueryHandle
    <3>2. CASE r.file = f
      BY <2>3, <3>1, <3>2, SpansCover, RegionsAreApart DEF Covered
    <3>3. CASE r.file # f
      BY <2>2, <3>1, <3>3 DEF Covered
    <3>4. QED
      BY <3>1, <3>2, <3>3
  <2>10. CASE HandlesQueried
    <3>1. /\ cursor' = 0 /\ cursor' <= r.base /\ stage = "querying" /\ stage' = "walking"
          /\ handles = {} /\ modules' = modules /\ overrun' = overrun
      BY <2>3, <2>10 DEF HandlesQueried, Walked
    <3>2. Covered(r)'
      BY <2>2, <3>1 DEF Covered
    <3>3. QED
      BY <2>3, <3>1, <3>2
  <2>11. CASE WalkRegion
    <3>1. /\ cursor \in Address /\ stage = "walking" /\ stage' = "walking"
          /\ modules' = modules /\ overrun' = overrun /\ regions \subseteq regions'
      BY <1>0, <2>11 DEF WalkRegion, Address
    <3>2. Covered(r)'
      BY <2>2, <3>1 DEF Covered
    <3>3. cursor < cursor' /\ cursor' \in Nat
      <4>1. RunFrom(cursor).end = RunEnd(memory, cursor)
        BY RunFromIs DEF RunAt
      <4>2. EndsAt(memory, cursor, RunEnd(memory, cursor))
        BY <3>1, RunsEnd
      <4>3. QED
        BY <1>0, <2>11, <4>1, <4>2 DEF WalkRegion, EndsAt
    <3>4. CASE r.end <= cursor /\ r \in regions
      BY <1>0, <2>3, <3>1, <3>2, <3>3, <3>4
    <3>5. CASE cursor <= r.base
      <4>1. CASE cursor = r.base
        <5>1. memory[cursor] # None /\ RunFrom(cursor) = r
          BY <2>3, <4>1, RunFromIs DEF StartsRegion
        <5>2. cursor' = r.end /\ r \in regions'
          BY <2>11, <5>1 DEF WalkRegion
        <5>3. QED
          BY <2>3, <3>1, <3>2, <5>2
      <4>2. CASE cursor < r.base
        <5>1. CASE memory[cursor] = None
          <6>1. cursor' = cursor + 1
            BY <2>11, <5>1 DEF WalkRegion
          <6>2. cursor' <= r.base
            BY <1>0, <2>3, <4>2, <6>1
          <6>3. QED
            BY <2>3, <3>1, <3>2, <3>3, <6>2
        <5>2. CASE memory[cursor] # None
          <6>1. cursor' = RunEnd(memory, cursor)
            BY <2>11, <5>2, RunFromIs DEF WalkRegion, RunAt
          <6>2. cursor' <= r.base
            BY <2>3, <3>1, <4>2, <6>1, RunsEnd, RegionsEndBefore
          <6>3. QED
            BY <2>3, <3>1, <3>2, <3>3, <6>2
        <5>3. QED
          BY <5>1, <5>2
      <4>3. QED
        BY <1>0, <2>3, <3>5, <4>1, <4>2
    <3>6. QED
      BY <2>2, <3>1, <3>4, <3>5
  <2>12. CASE WalkEnds
    <3>1. /\ stage = "walking" /\ stage' = "done" /\ cursor = PageCount
          /\ modules' = modules /\ regions' = regions /\ overrun' = overrun
      BY <2>12 DEF WalkEnds
    <3>2. ~(cursor <= r.base)
      BY <1>0, <2>3, <3>1
    <3>3. QED
      BY <2>2, <3>1, <3>2 DEF Covered
  <2>13. CASE UNCHANGED viewVars
    BY <2>2, <2>13 DEF viewVars, Covered
  <2>14. QED
    BY <1>2, <2>4, <2>5, <2>6, <2>7, <2>8, <2>9, <2>10, <2>11, <2>12, <2>13 DEF ViewNext
<1>3. QED
  BY <1>1, <1>2

LEMMA SteadyIsEnough == Walked /\ SteadyInv => SteadyCodeIsCovered
<1> SUFFICES ASSUME Walked, SteadyInv, stage = "done", ~overrun,
                    NEW r \in MappedRegions,
                    r.exec /\ r.file \in Files \ OddFiles,
                    {a \in Address : r.base <= a + 1 /\ a <= r.end} \subseteq steady
             PROVE  \E m \in modules : m.file = r.file /\ r \in CodeSections(m)
  BY DEF SteadyCodeIsCovered
<1>1. Steady(r)
  BY MappedRegionsAre DEF Steady
<1>2. Covered(r) /\ r \in regions
  BY <1>1 DEF SteadyInv
<1>3. PICK m \in modules : m.file = r.file /\ m.base <= r.base /\ r.base < m.end
  BY <1>2 DEF Covered
<1>4. r.base >= m.base
  BY <1>3
<1>5. QED
  BY <1>2, <1>3, <1>4 DEF CodeSections

(* Code that was there all the time is found in the module of its file,    *)
(* whatever else is loaded and unloaded meanwhile, unless the handles      *)
(* overran: the enumerations of both platforms, for every address space.   *)
THEOREM SteadyCodeIsFound == ViewSpec => []SteadyCodeIsCovered
<1>1. ViewInit => ViewTypeOK /\ Walked /\ SteadyInv
  <2>1. ViewInit => SteadyInv
    BY DEF ViewInit, SteadyInv
  <2>2. QED
    BY <2>1, ViewInitially
<1>2. (ViewTypeOK /\ Walked /\ SteadyInv) /\ [ViewNext]_viewVars
        => (ViewTypeOK /\ Walked /\ SteadyInv)'
  BY ViewTypeStep, WalkedStep, SteadyStep
<1>3. ViewTypeOK /\ Walked /\ SteadyInv => SteadyCodeIsCovered
  BY SteadyIsEnough
<1>4. QED
  BY <1>1, <1>2, <1>3, PTL DEF ViewSpec

-----------------------------------------------------------------------------
(***************************************************************************)
(* MemoryView: the regions of a process, as functions of its cells.        *)
(***************************************************************************)
AlikeIn(cs, a, b) ==
  IF cs[a] = Unmapped \/ cs[b] = Unmapped THEN cs[a] = cs[b]
  ELSE cs[a].protection = cs[b].protection
CellEnds(cs, a) == {b \in (a + 1)..CellCount : \A c \in a..(b - 1) : AlikeIn(cs, a, c)}
CellEnd(cs, a) == CHOOSE b \in CellEnds(cs, a) : \A c \in CellEnds(cs, a) : c <= b
CellRegion(cs, a) == [base |-> a, end |-> CellEnd(cs, a), protection |-> cs[a].protection]
StartsCells(cs, a) == cs[a] # Unmapped /\ (a = 0 \/ ~AlikeIn(cs, a - 1, a))
CellRegions(cs) == {CellRegion(cs, a) : a \in {b \in CellAddress : StartsCells(cs, b)}}

LEMMA AllRegionsAre == AllRegions = CellRegions(cells)
  BY DEF AllRegions, CellRegions, RegionAt, CellRegion, CellEnd, CellEnds, StartsCells,
         Alike, AlikeIn

LEMMA AllRegionsAreNext == AllRegions' = CellRegions(cells')
  BY DEF AllRegions, CellRegions, RegionAt, CellRegion, CellEnd, CellEnds, StartsCells,
         Alike, AlikeIn

LEMMA CellRunsEnd ==
  ASSUME NEW cs, NEW a \in CellAddress
  PROVE  CellEnd(cs, a) \in CellEnds(cs, a)
<1> DEFINE ends == CellEnds(cs, a)
<1>0. CellCount \in Nat /\ a \in Nat /\ a < CellCount
  BY MemoryViewAssumption DEF CellAddress
<1>1. ends \in SUBSET Nat /\ \A c \in ends : c <= CellCount
  BY <1>0 DEF CellEnds
<1>2. a + 1 \in ends
  <2>1. \A c \in a..((a + 1) - 1) : c = a
    BY <1>0
  <2>2. AlikeIn(cs, a, a)
    BY DEF AlikeIn
  <2>3. QED
    BY <1>0, <2>1, <2>2 DEF CellEnds
<1>3. \E b \in ends : \A c \in ends : c <= b
  <2> HIDE DEF ends
  <2>1. QED
    BY <1>0, <1>1, <1>2, GreatestNumber
<1>4. QED
  BY <1>3 DEF CellEnd

(* Extents: what an enumerated and a captured region have in common.       *)
Extended(found) ==
  \A r \in found :
    r.base \in CellAddress /\ r.end \in Nat /\ r.base < r.end /\ r.end <= CellCount
Clear(found, others) ==
  \A r \in found, s \in others : r.end <= s.base \/ s.end <= r.base
Distinct(found) ==
  \A r, s \in found : r # s => r.end <= s.base \/ s.end <= r.base

LEMMA CellRegionsAreDistinct ==
  ASSUME NEW cs
  PROVE  Extended(CellRegions(cs)) /\ Distinct(CellRegions(cs))
<1>0. CellCount \in Nat
  BY MemoryViewAssumption
<1>1. ASSUME NEW a \in CellAddress
      PROVE  /\ CellRegion(cs, a).base = a /\ CellRegion(cs, a).end \in CellEnds(cs, a)
             /\ CellRegion(cs, a).end \in Nat /\ a < CellRegion(cs, a).end /\ a \in Nat
             /\ CellRegion(cs, a).end <= CellCount
  BY <1>0, CellRunsEnd DEF CellRegion, CellEnds, CellAddress
<1>2. ASSUME NEW a \in CellAddress, NEW b \in CellAddress, StartsCells(cs, b), a < b
      PROVE  CellRegion(cs, a).end <= b
  <2>1. ASSUME b < CellRegion(cs, a).end PROVE FALSE
    <3>1. /\ b \in a..(CellRegion(cs, a).end - 1) /\ b - 1 \in a..(CellRegion(cs, a).end - 1)
          /\ b # 0
      BY <1>1, <1>2, <2>1
    <3>2. AlikeIn(cs, a, b) /\ AlikeIn(cs, a, b - 1)
      BY <1>1, <3>1 DEF CellEnds
    <3>3. AlikeIn(cs, b - 1, b)
      BY <3>2 DEF AlikeIn
    <3>4. QED
      BY <1>2, <3>1, <3>3 DEF StartsCells
  <2>2. QED
    BY <1>1, <2>1
<1>3. ASSUME NEW a \in CellAddress, NEW b \in CellAddress,
             StartsCells(cs, a), StartsCells(cs, b), CellRegion(cs, a) # CellRegion(cs, b)
      PROVE  \/ CellRegion(cs, a).end <= CellRegion(cs, b).base
             \/ CellRegion(cs, b).end <= CellRegion(cs, a).base
  <2>1. a < b \/ b < a
    BY <1>1, <1>3
  <2>2. QED
    BY <1>1, <1>2, <1>3, <2>1
<1>4. QED
  BY <1>1, <1>3 DEF CellRegions, Extended, Distinct

-----------------------------------------------------------------------------
(* A snapshot: distinct regions, and of each no more bytes than it has.    *)
Whole(snapshot) ==
  /\ Extended(snapshot) /\ Distinct(snapshot)
  /\ \A r \in snapshot : r.bytes \in Seq(Bytes) /\ Len(r.bytes) <= r.end - r.base

ScanInv ==
  /\ cells \in [CellAddress -> Cells]
  /\ Extended(toCapture) /\ Distinct(toCapture)
  /\ Whole(captured) /\ Clear(captured, toCapture)
  /\ Whole(before) /\ Whole(after)
  /\ scanning = "compared" => diff = Compare(before, after)
  /\ scanning # "compared" => diff = NoDiff
  /\ scanning = "no" => toCapture = {} /\ captured = {}
  /\ scanning = "compared" => toCapture = {}

(* What a read of a region gives: mapped bytes, no more than it spans.     *)
LEMMA ReadsAreBytes ==
  ASSUME cells \in [CellAddress -> Cells], NEW r,
         r.base \in CellAddress, r.end \in Nat, r.base < r.end, r.end <= CellCount
  PROVE  /\ [i \in 1..Readable(r) |-> cells[r.base + i - 1].byte] \in Seq(Bytes)
         /\ Readable(r) \in Nat /\ Readable(r) <= r.end - r.base
<1> DEFINE lengths == {n \in 0..(r.end - r.base) :
                         \A i \in 0..(n - 1) : cells[r.base + i] # Unmapped}
           n == Readable(r)
<1>0. r.base \in Nat /\ CellCount \in Nat
  BY MemoryViewAssumption DEF CellAddress
<1>1. PICK size \in Nat : size = r.end - r.base
  BY <1>0
<1>2. lengths \in SUBSET Nat /\ 0 \in lengths /\ \A k \in lengths : k <= size
  BY <1>1
<1>3. n \in lengths
  <2>1. \E k \in lengths : \A l \in lengths : l <= k
    <3> HIDE DEF lengths
    <3>1. QED
      BY <1>1, <1>2, GreatestNumber
  <2>2. QED
    BY <2>1 DEF Readable
<1>4. n \in Nat /\ n <= size /\ \A i \in 0..(n - 1) : cells[r.base + i] # Unmapped
  BY <1>1, <1>2, <1>3
<1> HIDE DEF n
<1>5. ASSUME NEW i \in 1..n PROVE cells[r.base + i - 1].byte \in Bytes
  <2>1. i - 1 \in 0..(n - 1) /\ r.base + i - 1 = r.base + (i - 1)
    BY <1>0, <1>4
  <2>2. r.base + (i - 1) \in CellAddress
    BY <1>0, <1>1, <1>4, <2>1 DEF CellAddress
  <2>3. cells[r.base + (i - 1)] \in Cells /\ cells[r.base + (i - 1)] # Unmapped
    BY <1>4, <2>1, <2>2
  <2>4. QED
    BY <2>1, <2>3 DEF Cells
<1>6. [i \in 1..n |-> cells[r.base + i - 1].byte] \in [1..n -> Bytes]
  BY <1>5
<1>7. [i \in 1..n |-> cells[r.base + i - 1].byte] \in Seq(Bytes)
  BY <1>4, <1>6
<1>8. QED
  BY <1>1, <1>4, <1>7 DEF n

LEMMA ScanInitially == ScanInit => ScanInv
<1> SUFFICES ASSUME ScanInit PROVE ScanInv
  OBVIOUS
<1>1. cells \in [CellAddress -> Cells]
  BY DEF ScanInit, Cells
<1>2. QED
  BY <1>1 DEF ScanInit, ScanInv, Extended, Distinct, Whole, Clear

(* What a scan finds when it begins is distinct, and nothing is captured.  *)
LEMMA FilteredAreDistinct ==
  ASSUME NEW cs, NEW found \in SUBSET CellRegions(cs)
  PROVE  Extended(found) /\ Distinct(found) /\ Whole({}) /\ Clear({}, found)
<1>1. Extended(CellRegions(cs)) /\ Distinct(CellRegions(cs))
  BY CellRegionsAreDistinct
<1>2. QED
  BY <1>1 DEF Extended, Distinct, Whole, Clear

LEMMA ScanInvStep == ScanInv /\ [ScanNext]_scanVars => ScanInv'
<1> SUFFICES ASSUME ScanInv, [ScanNext]_scanVars PROVE ScanInv'
  OBVIOUS
<1>1. CASE ScanBegins
  <2>1. PICK found \in SUBSET CellRegions(cells') : toCapture' = found
    BY <1>1, AllRegionsAreNext DEF ScanBegins
  <2>2. Extended(toCapture') /\ Distinct(toCapture') /\ Clear({}, toCapture') /\ Whole({})
    BY <2>1, FilteredAreDistinct
  <2>3. /\ scanning = "no" /\ scanning' = "first" /\ captured = {} /\ captured' = {}
        /\ diff = NoDiff /\ diff' = NoDiff /\ before' = before /\ after' = after
        /\ cells' \in [CellAddress -> Cells]
    BY <1>1 DEF ScanBegins, ScanInv, NoDiff
  <2>4. Whole(before)' /\ Whole(after)' /\ Whole(captured)' /\ Clear(captured, toCapture)'
    BY <2>2, <2>3 DEF ScanInv, Whole, Extended, Distinct, Clear
  <2>5. Extended(toCapture)' /\ Distinct(toCapture)'
    BY <2>2 DEF Extended, Distinct
  <2>6. QED
    BY <2>3, <2>4, <2>5 DEF ScanInv, NoDiff
<1>2. CASE CaptureRegion
  <2> DEFINE n == NextRegion
             bytes == [i \in 1..Readable(n) |-> cells[n.base + i - 1].byte]
             kept == [base |-> n.base, end |-> n.end, bytes |-> bytes]
  <2>1. n \in toCapture
    <3> DEFINE bases == {r.base : r \in toCapture}
    <3>1. bases \in SUBSET Nat /\ bases # {}
      BY <1>2, MemoryViewAssumption DEF CaptureRegion, ScanInv, Extended, CellAddress
    <3>2. \E a \in bases : \A b \in bases : a <= b
      <4> HIDE DEF bases
      <4>1. QED
        BY <3>1, LeastNumber
    <3>3. \E r \in toCapture : \A s \in toCapture : r.base <= s.base
      BY <3>2
    <3>4. QED
      BY <3>3 DEF NextRegion
  <2>2. /\ toCapture' = toCapture \ {n}
        /\ captured' \subseteq captured \union {kept}
        /\ UNCHANGED <<cells, scanning, before, after, diff>>
        /\ scanning # "no" /\ scanning # "compared"
    BY <1>2 DEF CaptureRegion, ScanInv
  <2> HIDE DEF n
  <2>3. /\ n.base \in CellAddress /\ n.end \in Nat /\ n.base < n.end /\ n.end <= CellCount
    BY <2>1 DEF ScanInv, Extended
  <2>4. bytes \in Seq(Bytes) /\ Len(bytes) <= n.end - n.base
    <3>1. bytes \in Seq(Bytes) /\ Readable(n) \in Nat /\ Readable(n) <= n.end - n.base
      BY <2>3, ReadsAreBytes DEF ScanInv
    <3>2. Len(bytes) = Readable(n)
      BY <3>1
    <3>3. QED
      BY <3>1, <3>2
  <2>5. kept.base = n.base /\ kept.end = n.end /\ kept.bytes = bytes
    OBVIOUS
  <2> HIDE DEF kept, bytes
  <2>6. Whole(captured \union {kept})
    <3>1. Extended(captured \union {kept})
      BY <2>3, <2>5 DEF ScanInv, Whole, Extended
    <3>2. \A r \in captured : r.end <= n.base \/ n.end <= r.base
      BY <2>1 DEF ScanInv, Clear
    <3>3. Distinct(captured \union {kept})
      BY <2>5, <3>2 DEF ScanInv, Whole, Distinct
    <3>4. \A r \in captured \union {kept} :
            r.bytes \in Seq(Bytes) /\ Len(r.bytes) <= r.end - r.base
      BY <2>4, <2>5 DEF ScanInv, Whole
    <3>5. QED
      BY <3>1, <3>3, <3>4 DEF Whole
  <2>7. Whole(captured')
    BY <2>2, <2>6 DEF Whole, Extended, Distinct
  <2>8. Clear(captured', toCapture')
    <3>1. \A s \in toCapture' : s \in toCapture /\ s # n
      BY <2>2
    <3>2. \A s \in toCapture' : kept.end <= s.base \/ s.end <= kept.base
      BY <2>1, <2>5, <3>1 DEF ScanInv, Distinct
    <3>3. QED
      BY <2>2, <3>1, <3>2 DEF ScanInv, Clear
  <2>9. Whole(before)' /\ Whole(after)' /\ Whole(captured)' /\ Clear(captured, toCapture)'
    BY <2>2, <2>7, <2>8 DEF ScanInv, Whole, Extended, Distinct, Clear
  <2>10. Extended(toCapture)' /\ Distinct(toCapture)'
    BY <2>2 DEF ScanInv, Extended, Distinct
  <2>11. QED
    BY <2>2, <2>9, <2>10 DEF ScanInv, NoDiff
<1>3. CASE FirstScanEnds
  <2>1. PICK found \in SUBSET CellRegions(cells) : toCapture' = found
    BY <1>3, AllRegionsAre DEF FirstScanEnds
  <2>2. Extended(toCapture') /\ Distinct(toCapture') /\ Clear({}, toCapture') /\ Whole({})
    BY <2>1, FilteredAreDistinct
  <2>3. /\ scanning = "first" /\ scanning' = "second" /\ captured' = {} /\ before' = captured
        /\ after' = after /\ diff' = diff /\ cells' = cells
    BY <1>3 DEF FirstScanEnds
  <2>4. Whole(before)' /\ Whole(after)' /\ Whole(captured)' /\ Clear(captured, toCapture)'
    BY <2>2, <2>3 DEF ScanInv, Whole, Extended, Distinct, Clear
  <2>5. Extended(toCapture)' /\ Distinct(toCapture)'
    BY <2>2 DEF Extended, Distinct
  <2>6. QED
    BY <2>3, <2>4, <2>5 DEF ScanInv, NoDiff
<1>4. CASE SecondScanEnds
  <2>1. /\ scanning = "second" /\ scanning' = "compared" /\ captured' = {}
        /\ after' = captured /\ before' = before /\ toCapture = {} /\ toCapture' = {}
        /\ diff' = Compare(before, captured) /\ cells' = cells
    BY <1>4 DEF SecondScanEnds
  <2>2. Whole(before)' /\ Whole(after)' /\ Whole(captured)' /\ Clear(captured, toCapture)'
    BY <2>1 DEF ScanInv, Whole, Extended, Distinct, Clear
  <2>3. Extended(toCapture)' /\ Distinct(toCapture)'
    BY <2>1 DEF Extended, Distinct
  <2>4. (diff = Compare(before, after))'
    BY <2>1
  <2>5. QED
    BY <2>1, <2>2, <2>3, <2>4 DEF ScanInv
<1>5. CASE ScanGivesUp
  <2>1. /\ scanning # "compared" /\ scanning' = "failed"
        /\ UNCHANGED <<cells, toCapture, captured, before, after, diff>>
    BY <1>5 DEF ScanGivesUp
  <2>2. QED
    BY <2>1 DEF ScanInv, Whole, Extended, Distinct, Clear, NoDiff
<1>6. ASSUME NEW first \in CellAddress, NEW last \in CellAddress, RangeChanges(first, last)
      PROVE  ScanInv'
  <2>1. /\ cells' \in [CellAddress -> Cells]
        /\ UNCHANGED <<scanning, toCapture, captured, before, after, diff>>
        /\ scanning # "compared"
    BY <1>6 DEF RangeChanges, ScanInv
  <2>2. QED
    BY <2>1 DEF ScanInv, Whole, Extended, Distinct, Clear, NoDiff
<1>7. CASE UNCHANGED scanVars
  <2>1. UNCHANGED <<cells, scanning, toCapture, captured, before, after, diff>>
    BY <1>7 DEF scanVars
  <2>2. (scanning = "compared" => diff = Compare(before, after))'
    BY <2>1 DEF ScanInv
  <2>3. QED
    BY <2>1, <2>2 DEF ScanInv, Whole, Extended, Distinct, Clear, NoDiff
<1>8. QED
  BY <1>1, <1>2, <1>3, <1>4, <1>5, <1>6, <1>7 DEF ScanNext

(* What a snapshot holds for an address its region has a byte of.          *)
LEMMA BytesAre ==
  ASSUME NEW snapshot, Whole(snapshot), NEW r \in snapshot, NEW a \in Nat,
         r.base <= a, a < r.base + Len(r.bytes)
  PROVE  ByteAt(snapshot, a) = r.bytes[a + 1 - r.base] /\ ByteAt(snapshot, a) # Unmapped
<1> DEFINE holding == {s \in snapshot : s.base <= a /\ a < s.base + Len(s.bytes)}
<1>1. \A s \in snapshot : /\ s.base \in Nat /\ s.end \in Nat /\ s.base < s.end
                          /\ s.bytes \in Seq(Bytes) /\ Len(s.bytes) \in Nat
                          /\ s.base + Len(s.bytes) <= s.end
  BY MemoryViewAssumption DEF Whole, Extended, CellAddress
<1>2. ASSUME NEW s \in holding, s # r PROVE FALSE
  <2>1. s.end <= r.base \/ r.end <= s.base
    BY <1>2 DEF Whole, Distinct
  <2>2. QED
    BY <1>1, <2>1
<1>3. holding = {r}
  BY <1>2
<1>4. ByteAt(snapshot, a) = r.bytes[a + 1 - r.base]
  <2>1. (CHOOSE s \in holding : TRUE) = r
    BY <1>3
  <2>2. QED
    BY <1>3, <2>1 DEF ByteAt
<1>5. a + 1 - r.base \in 1..Len(r.bytes) /\ r.bytes \in Seq(Bytes)
  BY <1>1
<1>6. r.bytes[a + 1 - r.base] \in Bytes
  BY <1>5
<1>7. QED
  BY <1>4, <1>6, MemoryViewAssumption

(* An address that a snapshot holds a byte for is in one of its regions.   *)
LEMMA BytesComeFrom ==
  ASSUME NEW snapshot, NEW a, ByteAt(snapshot, a) # Unmapped
  PROVE  \E r \in snapshot : r.base <= a /\ a < r.base + Len(r.bytes)
BY DEF ByteAt

(* Two captured regions: where they differ, and a maximal run of that.     *)
Differ(b, c, i) ==
  i \in 1..Least(Len(b.bytes), Len(c.bytes)) /\ b.bytes[i] # c.bytes[i]
IsRun(b, c, f, l) ==
  /\ f \in 1..Least(Len(b.bytes), Len(c.bytes)) /\ l \in 1..Least(Len(b.bytes), Len(c.bytes))
  /\ f <= l
  /\ \A i \in f..l : Differ(b, c, i)
  /\ ~Differ(b, c, f - 1) /\ ~Differ(b, c, l + 1)
Run(b, f, l) == [address |-> b.base + f - 1, length |-> l + 1 - f]
Pairs(old, new) ==
  {p \in old \X new : p[2] \in Containing(p[1].base, new) /\ p[2].base = p[1].base}

LEMMA RunsAreChanged ==
  ASSUME NEW b, NEW c
  PROVE  /\ \A d \in ChangedRuns(b, c) : \E f, l : IsRun(b, c, f, l) /\ d = Run(b, f, l)
         /\ \A f, l : IsRun(b, c, f, l) => Run(b, f, l) \in ChangedRuns(b, c)
<1> DEFINE length == Least(Len(b.bytes), Len(c.bytes))
           runs == {r \in (1..length) \X (1..length) :
                      /\ r[1] <= r[2]
                      /\ \A i \in r[1]..r[2] : Differ(b, c, i)
                      /\ ~Differ(b, c, r[1] - 1) /\ ~Differ(b, c, r[2] + 1)}
<1>1. ChangedRuns(b, c) = {Run(b, r[1], r[2]) : r \in runs}
  BY DEF ChangedRuns, Differ, Run
<1>2. \A r \in runs : IsRun(b, c, r[1], r[2])
  BY DEF IsRun
<1>3. \A f, l : IsRun(b, c, f, l) => <<f, l>> \in runs
  BY DEF IsRun
<1> HIDE DEF runs
<1>4. ASSUME NEW f, NEW l, IsRun(b, c, f, l) PROVE Run(b, f, l) \in ChangedRuns(b, c)
  <2>1. <<f, l>> \in runs /\ <<f, l>>[1] = f /\ <<f, l>>[2] = l
    BY <1>3, <1>4
  <2>2. QED
    BY <1>1, <2>1
<1>5. QED
  BY <1>1, <1>2, <1>4

LEMMA ComparedIs ==
  ASSUME NEW old, NEW new
  PROVE  /\ Compare(old, new).changedRanges
              = UNION {ChangedRuns(p[1], p[2]) : p \in Pairs(old, new)}
         /\ Compare(old, new).regionSetIdentical
              <=> /\ \A b \in old : \E p \in Pairs(old, new) : p[1] = b
                  /\ \A c \in new : Containing(c.base, old) # {}
  BY DEF Compare, Pairs

(* What a reported range is: a run of two captured regions of one base.    *)
IsReport(d, b, c, f, l) ==
  /\ c.base = b.base /\ IsRun(b, c, f, l)
  /\ d.address = b.base + f - 1 /\ d.length = l + 1 - f
  /\ 1 <= f /\ f <= l /\ l <= Len(b.bytes) /\ l <= Len(c.bytes)

LEMMA ReportedRangesAre ==
  ASSUME NEW old, NEW new, Whole(old), Whole(new), NEW d \in Compare(old, new).changedRanges
  PROVE  \E b \in old, c \in new, f, l \in Nat : IsReport(d, b, c, f, l)
<1>1. PICK p \in Pairs(old, new) : d \in ChangedRuns(p[1], p[2])
  BY ComparedIs
<1>2. PICK b \in old, c \in new : c.base = b.base /\ d \in ChangedRuns(b, c)
  BY <1>1 DEF Pairs
<1>3. PICK f, l : IsRun(b, c, f, l) /\ d = Run(b, f, l)
  BY <1>2, RunsAreChanged
<1>4. Len(b.bytes) \in Nat /\ Len(c.bytes) \in Nat
  BY DEF Whole
<1>5. f \in Nat /\ l \in Nat /\ 1 <= f /\ f <= l /\ l <= Len(b.bytes) /\ l <= Len(c.bytes)
  BY <1>3, <1>4 DEF IsRun, Least
<1>6. d.address = b.base + f - 1 /\ d.length = l + 1 - f
  BY <1>3 DEF Run
<1>7. IsReport(d, b, c, f, l)
  BY <1>2, <1>3, <1>5, <1>6 DEF IsReport
<1>8. QED
  BY <1>5, <1>7

(* Regions of one snapshot with one base are one region.                   *)
LEMMA OneRegionPerBase ==
  ASSUME NEW snapshot, Whole(snapshot), NEW r \in snapshot, NEW s \in snapshot,
         NEW a \in Nat, r.base <= a, a < r.end, s.base <= a, a < s.end
  PROVE  r = s
<1>1. /\ r.base \in Nat /\ r.end \in Nat /\ s.base \in Nat /\ s.end \in Nat
  BY MemoryViewAssumption DEF Whole, Extended, CellAddress
<1>2. r # s => r.end <= s.base \/ s.end <= r.base
  BY DEF Whole, Distinct
<1>3. QED
  BY <1>1, <1>2

LEMMA ReportsAreSound ==
  ASSUME NEW old, NEW new, Whole(old), Whole(new)
  PROVE  /\ \A a \in CellAddress :
              (\E d \in Compare(old, new).changedRanges :
                  d.address <= a /\ a < d.address + d.length) =>
                /\ ByteAt(old, a) # Unmapped /\ ByteAt(new, a) # Unmapped
                /\ ByteAt(old, a) # ByteAt(new, a)
         /\ \A c, d \in Compare(old, new).changedRanges :
              c # d /\ c.address + c.length = d.address => d.address \in {r.base : r \in old}
<1>0. /\ \A r \in old : /\ r.base \in Nat /\ r.end \in Nat /\ r.base < r.end
                        /\ Len(r.bytes) \in Nat /\ r.base + Len(r.bytes) <= r.end
      /\ \A r \in new : /\ r.base \in Nat /\ r.end \in Nat /\ r.base < r.end
                        /\ Len(r.bytes) \in Nat /\ r.base + Len(r.bytes) <= r.end
  BY MemoryViewAssumption DEF Whole, Extended, CellAddress
<1>1. ASSUME NEW a \in CellAddress, NEW d \in Compare(old, new).changedRanges,
             d.address <= a, a < d.address + d.length
      PROVE  /\ ByteAt(old, a) # Unmapped /\ ByteAt(new, a) # Unmapped
             /\ ByteAt(old, a) # ByteAt(new, a)
  <2>1. a \in Nat
    BY MemoryViewAssumption DEF CellAddress
  <2>2. PICK b \in old, c \in new, f \in Nat, l \in Nat : IsReport(d, b, c, f, l)
    BY ReportedRangesAre
  <2> USE DEF IsReport
  <2>3. PICK i \in Nat : i = a + 1 - b.base
    BY <1>0, <1>1, <2>1, <2>2
  <2>4. f <= i /\ i <= l /\ b.base <= a /\ a < b.base + Len(b.bytes)
        /\ a < c.base + Len(c.bytes)
    <3>1. PICK base \in Nat, size \in Nat, room \in Nat :
            base = b.base /\ size = Len(b.bytes) /\ room = Len(c.bytes)
      BY <1>0
    <3>2. base + f - 1 <= a /\ a < (base + f - 1) + (l + 1 - f)
      BY <1>1, <2>2, <3>1
    <3>3. /\ 1 <= f /\ f <= l /\ l <= size /\ l <= room
          /\ i = a + 1 - base
      BY <2>2, <2>3, <3>1
    <3>4. f <= i /\ i <= l /\ base <= a /\ a < base + size /\ a < base + room
      BY <2>1, <3>2, <3>3
    <3>5. QED
      BY <2>2, <3>1, <3>4
  <2>5. Differ(b, c, i)
    <3>1. i \in f..l
      BY <2>2, <2>3, <2>4
    <3>2. QED
      BY <2>2, <3>1 DEF IsRun
  <2>6. b.bytes[i] # c.bytes[i]
    BY <2>5 DEF Differ
  <2>7. ByteAt(old, a) = b.bytes[i] /\ ByteAt(old, a) # Unmapped
    BY <2>1, <2>3, <2>4, BytesAre
  <2>8. ByteAt(new, a) = c.bytes[i] /\ ByteAt(new, a) # Unmapped
    BY <2>1, <2>2, <2>3, <2>4, BytesAre
  <2>9. QED
    BY <2>6, <2>7, <2>8
<1>2. ASSUME NEW d \in Compare(old, new).changedRanges,
             NEW e \in Compare(old, new).changedRanges,
             d # e, d.address + d.length = e.address
      PROVE  e.address \in {r.base : r \in old}
  <2>1. PICK b \in old, c \in new, f \in Nat, l \in Nat : IsReport(d, b, c, f, l)
    BY ReportedRangesAre
  <2>2. PICK b2 \in old, c2 \in new, f2 \in Nat, l2 \in Nat : IsReport(e, b2, c2, f2, l2)
    BY ReportedRangesAre
  <2> USE DEF IsReport
  <2>3. b.base + l = b2.base + f2 - 1
    <3>1. PICK base \in Nat, base2 \in Nat : base = b.base /\ base2 = b2.base
      BY <1>0
    <3>2. (base + f - 1) + (l + 1 - f) = base2 + f2 - 1
      BY <1>2, <2>1, <2>2, <3>1
    <3>3. base + l = base2 + f2 - 1
      BY <3>2
    <3>4. QED
      BY <3>1, <3>3
  <2>4. CASE b = b2
    <3>1. c = c2
      <4>1. c.base <= c.base /\ c.base < c.end /\ c2.base <= c.base /\ c.base < c2.end
        BY <1>0, <2>1, <2>2, <2>4
      <4>2. QED
        BY <1>0, <4>1, OneRegionPerBase
    <3>2. l + 1 = f2
      BY <1>0, <2>1, <2>2, <2>3, <2>4
    <3>3. Differ(b, c, f2)
      <4>1. f2 \in f2..l2
        BY <2>2
      <4>2. QED
        BY <2>2, <2>4, <3>1, <4>1 DEF IsRun
    <3>4. ~Differ(b, c, l + 1)
      BY <2>1 DEF IsRun
    <3>5. QED
      BY <3>2, <3>3, <3>4
  <2>5. CASE b # b2
    <3>1. b.end <= b2.base \/ b2.end <= b.base
      BY <2>5 DEF Whole, Distinct
    <3>2. PICK base \in Nat, end \in Nat, size \in Nat :
            /\ base = b.base /\ end = b.end /\ size = Len(b.bytes)
            /\ base + size <= end /\ l <= size
      BY <1>0, <2>1
    <3>3. PICK base2 \in Nat, end2 \in Nat, size2 \in Nat :
            /\ base2 = b2.base /\ end2 = b2.end /\ size2 = Len(b2.bytes)
            /\ base2 + size2 <= end2 /\ l2 <= size2
      BY <1>0, <2>2
    <3>4. /\ base + l = base2 + f2 - 1
          /\ end <= base2 \/ end2 <= base
          /\ 1 <= f /\ f <= l /\ 1 <= f2 /\ f2 <= l2
      BY <2>1, <2>2, <2>3, <3>1, <3>2, <3>3
    <3>5. base2 + f2 - 1 = base2
      <4>1. CASE end <= base2
        <5>1. base + l <= base2
          BY <3>2, <4>1
        <5>2. base2 + f2 - 1 <= base2
          BY <3>4, <5>1
        <5>3. f2 = 1
          BY <3>4, <5>2
        <5>4. QED
          BY <5>3
      <4>2. ASSUME end2 <= base PROVE FALSE
        <5>1. base2 + f2 <= end2
          BY <3>3, <3>4
        <5>2. end2 < base + l
          BY <3>2, <3>3, <3>4, <4>2
        <5>3. QED
          BY <3>2, <3>3, <3>4, <5>1, <5>2
      <4>3. QED
        BY <3>4, <4>1, <4>2
    <3>6. e.address = b2.base
      BY <2>2, <3>3, <3>5
    <3>7. QED
      BY <3>6
  <2>6. QED
    BY <2>4, <2>5
<1>3. QED
  BY <1>1, <1>2

(* Every difference lies in a maximal run of differences.                  *)
LEMMA DifferencesHaveRuns ==
  ASSUME NEW b, NEW c, Len(b.bytes) \in Nat, Len(c.bytes) \in Nat,
         NEW i \in Nat, Differ(b, c, i)
  PROVE  \E f, l \in Nat : IsRun(b, c, f, l) /\ f <= i /\ i <= l
<1> DEFINE length == Least(Len(b.bytes), Len(c.bytes))
           firsts == {f \in 1..i : \A j \in f..i : Differ(b, c, j)}
           lasts == {l \in i..length : \A j \in i..l : Differ(b, c, j)}
<1>1. length \in Nat
  BY DEF Least
<1>2. \A j : Differ(b, c, j) => j \in 1..length
  BY DEF Differ
<1> HIDE DEF length
<1>3. i \in 1..length
  BY <1>2
<1>4. firsts \in SUBSET Nat /\ i \in firsts
  <2>1. \A j \in i..i : j = i
    OBVIOUS
  <2>2. QED
    BY <1>3, <2>1
<1>5. lasts \in SUBSET Nat /\ i \in lasts /\ \A l \in lasts : l <= length
  <2>1. \A j \in i..i : j = i
    OBVIOUS
  <2>2. QED
    BY <1>1, <1>3, <2>1
<1>6. PICK f \in firsts : \A g \in firsts : f <= g
  <2> HIDE DEF firsts
  <2>1. QED
    BY <1>4, LeastNumber
<1>7. PICK l \in lasts : \A g \in lasts : g <= l
  <2> HIDE DEF lasts
  <2>1. QED
    BY <1>1, <1>5, GreatestNumber
<1>8. /\ f \in Nat /\ 1 <= f /\ f <= i /\ \A j \in f..i : Differ(b, c, j)
      /\ l \in Nat /\ i <= l /\ l <= length /\ \A j \in i..l : Differ(b, c, j)
  BY <1>1, <1>6, <1>7
<1>9. ASSUME Differ(b, c, f - 1) PROVE FALSE
  <2>1. f - 1 \in 1..i
    BY <1>2, <1>8, <1>9
  <2>2. \A j \in (f - 1)..i : j = f - 1 \/ j \in f..i
    BY <1>8
  <2>3. f - 1 \in firsts
    BY <1>8, <1>9, <2>1, <2>2
  <2>4. f <= f - 1
    BY <1>6, <2>3
  <2>5. QED
    BY <1>8, <2>4
<1>10. ASSUME Differ(b, c, l + 1) PROVE FALSE
  <2>1. l + 1 \in i..length
    BY <1>1, <1>2, <1>8, <1>10
  <2>2. \A j \in i..(l + 1) : j = l + 1 \/ j \in i..l
    BY <1>8
  <2>3. l + 1 \in lasts
    BY <1>8, <1>10, <2>1, <2>2
  <2>4. l + 1 <= l
    BY <1>7, <2>3
  <2>5. QED
    BY <1>8, <2>4
<1>11. \A j \in f..l : Differ(b, c, j)
  <2>1. \A j \in f..l : j \in f..i \/ j \in i..l
    BY <1>8
  <2>2. QED
    BY <1>8, <2>1
<1>12. f \in 1..length /\ l \in 1..length /\ f <= l
  BY <1>1, <1>8
<1>13. IsRun(b, c, f, l)
  BY <1>9, <1>10, <1>11, <1>12 DEF IsRun, length
<1>14. QED
  BY <1>8, <1>13

(* An address captured twice in regions of one base, with different bytes, *)
(* is reported.                                                            *)
LEMMA DifferencesAreReported ==
  ASSUME NEW old, NEW new, Whole(old), Whole(new),
         NEW b \in old, NEW c \in new, c.base = b.base, NEW a \in Nat,
         b.base <= a, a < b.base + Len(b.bytes), a < c.base + Len(c.bytes),
         ByteAt(old, a) # ByteAt(new, a)
  PROVE  \E d \in Compare(old, new).changedRanges :
            d.address <= a /\ a < d.address + d.length
<1>0. /\ b.base \in Nat /\ c.end \in Nat /\ c.base < c.end
      /\ Len(b.bytes) \in Nat /\ Len(c.bytes) \in Nat
  BY MemoryViewAssumption DEF Whole, Extended, CellAddress
<1>1. PICK i \in Nat : i = a + 1 - b.base
  BY <1>0
<1>2. ByteAt(old, a) = b.bytes[i] /\ ByteAt(new, a) = c.bytes[i]
  BY <1>1, BytesAre
<1>3. i \in 1..Least(Len(b.bytes), Len(c.bytes))
  BY <1>0, <1>1 DEF Least
<1>4. Differ(b, c, i)
  BY <1>2, <1>3 DEF Differ
<1>5. PICK f \in Nat, l \in Nat : IsRun(b, c, f, l) /\ f <= i /\ i <= l
  BY <1>0, <1>4, DifferencesHaveRuns
<1>6. Run(b, f, l) \in ChangedRuns(b, c)
  BY <1>5, RunsAreChanged
<1>7. <<b, c>> \in Pairs(old, new)
  BY <1>0 DEF Pairs, Containing
<1>8. Run(b, f, l) \in Compare(old, new).changedRanges
  BY <1>6, <1>7, ComparedIs
<1>9. Run(b, f, l).address <= a /\ a < Run(b, f, l).address + Run(b, f, l).length
  <2>1. PICK base \in Nat : base = b.base
    BY <1>0
  <2>2. Run(b, f, l).address = base + f - 1 /\ Run(b, f, l).length = l + 1 - f
    BY <2>1 DEF Run
  <2>3. i = a + 1 - base
    BY <1>1, <2>1
  <2>4. base + f - 1 <= a /\ a < (base + f - 1) + (l + 1 - f)
    BY <1>5, <2>3
  <2>5. QED
    BY <2>2, <2>4
<1>10. QED
  BY <1>8, <1>9

(* Snapshots of the same regions are said to be, and hide no difference.   *)
LEMMA SameRegionsAreCompared ==
  ASSUME NEW old, NEW new, Whole(old), Whole(new), Extents(old) = Extents(new)
  PROVE  /\ Compare(old, new).regionSetIdentical
         /\ \A a \in CellAddress :
              /\ ByteAt(old, a) # Unmapped /\ ByteAt(new, a) # Unmapped
              /\ ByteAt(old, a) # ByteAt(new, a)
              => \E d \in Compare(old, new).changedRanges :
                    d.address <= a /\ a < d.address + d.length
<1>0. /\ \A r \in old : /\ r.base \in Nat /\ r.end \in Nat /\ r.base < r.end
                        /\ Len(r.bytes) \in Nat /\ r.base + Len(r.bytes) <= r.end
      /\ \A r \in new : /\ r.base \in Nat /\ r.end \in Nat /\ r.base < r.end
                        /\ Len(r.bytes) \in Nat /\ r.base + Len(r.bytes) <= r.end
  BY MemoryViewAssumption DEF Whole, Extended, CellAddress
<1>1. /\ \A b \in old : \E c \in new : c.base = b.base /\ c.end = b.end
      /\ \A c \in new : \E b \in old : c.base = b.base /\ c.end = b.end
  <2>1. ASSUME NEW b \in old PROVE \E c \in new : c.base = b.base /\ c.end = b.end
    <3>1. <<b.base, b.end>> \in Extents(new)
      BY DEF Extents
    <3>2. QED
      BY <3>1 DEF Extents
  <2>2. ASSUME NEW c \in new PROVE \E b \in old : c.base = b.base /\ c.end = b.end
    <3>1. <<c.base, c.end>> \in Extents(old)
      BY DEF Extents
    <3>2. QED
      BY <3>1 DEF Extents
  <2>3. QED
    BY <2>1, <2>2
<1>2. \A b \in old : \E p \in Pairs(old, new) : p[1] = b
  <2>1. ASSUME NEW b \in old PROVE \E p \in Pairs(old, new) : p[1] = b
    <3>1. PICK c \in new : c.base = b.base /\ c.end = b.end
      BY <1>1
    <3>2. <<b, c>> \in Pairs(old, new)
      BY <1>0, <3>1 DEF Pairs, Containing
    <3>3. QED
      BY <3>2
  <2>2. QED
    BY <2>1
<1>3. \A c \in new : Containing(c.base, old) # {}
  BY <1>0, <1>1 DEF Containing
<1>4. ASSUME NEW a \in CellAddress, ByteAt(old, a) # Unmapped, ByteAt(new, a) # Unmapped,
             ByteAt(old, a) # ByteAt(new, a)
      PROVE  \E d \in Compare(old, new).changedRanges :
                d.address <= a /\ a < d.address + d.length
  <2>1. a \in Nat
    BY MemoryViewAssumption DEF CellAddress
  <2>2. PICK b \in old : b.base <= a /\ a < b.base + Len(b.bytes)
    BY <1>4, BytesComeFrom
  <2>3. PICK c \in new : c.base <= a /\ a < c.base + Len(c.bytes)
    BY <1>4, BytesComeFrom
  <2>4. PICK b2 \in old : c.base = b2.base /\ c.end = b2.end
    BY <1>1
  <2>5. a < b.end /\ a < c.end
    BY <1>0, <2>1, <2>2, <2>3
  <2>6. b = b2
    BY <2>1, <2>2, <2>3, <2>4, <2>5, OneRegionPerBase
  <2>7. c.base = b.base
    BY <2>4, <2>6
  <2>8. QED
    BY <1>4, <2>1, <2>2, <2>3, <2>7, DifferencesAreReported
<1>5. QED
  BY <1>2, <1>3, <1>4, ComparedIs

(* A region that begins where the other snapshot has none is noticed.      *)
LEMMA NewRegionsAreNoticed ==
  ASSUME NEW old, NEW new,
         \/ \E r \in old : Containing(r.base, new) = {}
         \/ \E r \in new : Containing(r.base, old) = {}
  PROVE  ~Compare(old, new).regionSetIdentical
<1>1. ASSUME NEW r \in old, Containing(r.base, new) = {}
      PROVE  ~(\E p \in Pairs(old, new) : p[1] = r)
  BY <1>1 DEF Pairs
<1>2. QED
  BY <1>1, ComparedIs

-----------------------------------------------------------------------------
LEMMA ScanAlways == ScanSpec => []ScanInv
<1>1. ScanInit => ScanInv
  BY ScanInitially
<1>2. ScanInv /\ [ScanNext]_scanVars => ScanInv'
  BY ScanInvStep
<1>3. QED
  BY <1>1, <1>2, PTL DEF ScanSpec

(* What MemoryDiff::compare() reports as changed was captured by both      *)
(* scans with different bytes, and no range touches another of its region, *)
(* for every memory and every change of it between and during the scans.   *)
THEOREM DiffsAreSound == ScanSpec => []DiffIsSound
<1>1. ScanInv => DiffIsSound
  <2> SUFFICES ASSUME ScanInv PROVE DiffIsSound
    OBVIOUS
  <2>1. Whole(before) /\ Whole(after)
    BY DEF ScanInv
  <2>2. CASE scanning = "compared"
    <3>1. diff = Compare(before, after)
      BY <2>2 DEF ScanInv
    <3>2. QED
      BY <2>1, <3>1, ReportsAreSound DEF DiffIsSound, Reported
  <2>3. CASE scanning # "compared"
    <3>1. diff.changedRanges = {}
      BY <2>3 DEF ScanInv, NoDiff
    <3>2. QED
      BY <3>1 DEF DiffIsSound, Reported
  <2>4. QED
    BY <2>2, <2>3
<1>2. QED
  BY <1>1, ScanAlways, PTL

(* Two scans of the same regions hide no difference, and a region that     *)
(* begins where the other scan has none is noticed: compare() with         *)
(* capture() and the filter, for every memory.                             *)
THEOREM DiffsAreComplete == ScanSpec => []DiffIsComplete
<1>1. ScanInv => DiffIsComplete
  <2> SUFFICES ASSUME ScanInv, scanning = "compared" PROVE DiffIsComplete
    BY DEF DiffIsComplete
  <2>1. Whole(before) /\ Whole(after) /\ diff = Compare(before, after)
    BY DEF ScanInv
  <2>2. Extents(before) = Extents(after) =>
          /\ diff.regionSetIdentical
          /\ \A a \in CellAddress :
               /\ ByteAt(before, a) # Unmapped /\ ByteAt(after, a) # Unmapped
               /\ ByteAt(before, a) # ByteAt(after, a)
               => a \in Reported
    BY <2>1, SameRegionsAreCompared DEF Reported
  <2>3. (\/ \E r \in before : Containing(r.base, after) = {}
         \/ \E r \in after : Containing(r.base, before) = {}) => ~diff.regionSetIdentical
    BY <2>1, NewRegionsAreNoticed
  <2>4. QED
    BY <2>2, <2>3 DEF DiffIsComplete
<1>2. QED
  BY <1>1, ScanAlways, PTL

-----------------------------------------------------------------------------
(***************************************************************************)
(* HookScan.                                                               *)
(***************************************************************************)
(* A section whose decoded jump leaves the module: what one round reports. *)
Escapes(s) ==
  /\ DecodeRedirectTarget(s) # NoTarget
  /\ DecodeRedirectTarget(s) < ModuleBase \/ DecodeRedirectTarget(s) >= ModuleEnd

HookTypeOK ==
  /\ prologue \in [Sections -> Prologues]
  /\ readable \in [Sections -> {0, JumpLength, LongLength}]
  /\ toScan \subseteq Sections
  /\ detecting \in {"no", "scanning", "done", "failed"}

(* What has been reported is what escapes among the sections scanned.      *)
ReportedSoFar ==
  /\ detecting = "no" => findings = {}
  /\ detecting \in {"scanning", "done"} => findings = {s \in Sections \ toScan : Escapes(s)}
  /\ detecting = "done" => toScan = {}

HookInv == HookTypeOK /\ ReportedSoFar

LEMMA Wraps ==
  ASSUME NEW a \in Int, NEW n \in Nat \ {0}
  PROVE  a % n \in 0..(n - 1)
  OBVIOUS

LEMMA WrapsNot ==
  ASSUME NEW n \in Nat \ {0}, NEW a \in 0..(n - 1)
  PROVE  a % n = a
  OBVIOUS

LEMMA SectionsAreAddresses == Sections \subseteq Nat
  BY HookAssumption

LEMMA ModuleEndIsItsEnd == ModuleEnd = ModuleBase + ModuleSize
<1>1. ModuleBase + ModuleSize \in 0..(AddressCount - 1) /\ AddressCount \in Nat \ {0}
  BY HookAssumption
<1>2. QED
  BY <1>1, WrapsNot DEF ModuleEnd

LEMMA SignedIsAnInteger ==
  ASSUME NEW w \in Words
  PROVE  Signed(w) \in Int /\ (w < HalfWord => Signed(w) = w)
  BY HookAssumption DEF Words, Signed

(* A jump is reported when the processor leaves the module by it.          *)
LEMMA JumpsAreJudged ==
  ASSUME HookTypeOK, NEW s \in Sections,
         prologue[s].code = "jump", readable[s] >= JumpLength
  PROVE  Escapes(s) <=> Landing(s) \notin InModule
<1>1. prologue[s].word \in Words
  BY DEF HookTypeOK, Prologues, Words
<1>2. Signed(prologue[s].word) \in Int
  BY <1>1, SignedIsAnInteger
<1>3. s \in Nat
  BY SectionsAreAddresses
<1>4. DecodeRedirectTarget(s) = Landing(s)
  BY DEF DecodeRedirectTarget, Landing
<1>5. Landing(s) \in 0..(AddressCount - 1)
  <2>1. s + JumpLength + Signed(prologue[s].word) \in Int
    BY <1>2, <1>3 DEF JumpLength
  <2>2. Landing(s) = (s + JumpLength + Signed(prologue[s].word)) % AddressCount
    BY DEF Landing
  <2>3. QED
    BY <2>1, <2>2, Wraps, HookAssumption
<1>6. QED
  BY <1>4, <1>5, ModuleEndIsItsEnd, HookAssumption DEF Escapes, InModule, NoTarget

LEMMA LowerHalfWords ==
  ASSUME NEW w \in Words, w < HalfWord
  PROVE  /\ w # NoTarget
         /\ w \in InModule <=> ~(w < ModuleBase \/ w >= ModuleBase + ModuleSize)
         /\ Signed(w) % AddressCount = w
<1>1. w \in 0..(AddressCount - 1) /\ AddressCount \in Nat \ {0} /\ w \in Nat
  BY HookAssumption DEF Words
<1>2. Signed(w) = w
  BY SignedIsAnInteger
<1>3. w % AddressCount = w
  BY <1>1, WrapsNot
<1>4. w # NoTarget
  BY <1>1 DEF NoTarget
<1>5. w \in InModule <=> ~(w < ModuleBase \/ w >= ModuleBase + ModuleSize)
  BY <1>1, HookAssumption DEF InModule
<1>6. QED
  BY <1>2, <1>3, <1>4, <1>5

(* So is a push of a lower-half word and a return.                         *)
LEMMA ReturnsAreJudged ==
  ASSUME HookTypeOK, NEW s \in Sections,
         prologue[s].code = "push return", readable[s] >= LongLength,
         prologue[s].word < HalfWord
  PROVE  Escapes(s) <=> Landing(s) \notin InModule
<1>1. prologue[s].word \in Words
  <2>1. prologue[s] \in Prologues
    BY DEF HookTypeOK
  <2>2. QED
    BY <2>1 DEF Prologues, Words
<1>2. PICK w : w = prologue[s].word
  OBVIOUS
<1>3. w \in Words /\ w < HalfWord
  BY <1>1, <1>2
<1>4. /\ w # NoTarget
      /\ w \in InModule <=> ~(w < ModuleBase \/ w >= ModuleBase + ModuleSize)
      /\ Signed(w) % AddressCount = w
  BY <1>3, LowerHalfWords, Zenon
<1>5. Landing(s) = w
  BY <1>2, <1>4 DEF Landing
<1>6. DecodeRedirectTarget(s) = w
  BY <1>2 DEF DecodeRedirectTarget
<1>7. Escapes(s) <=> w < ModuleBase \/ w >= ModuleBase + ModuleSize
  BY <1>4, <1>6, ModuleEndIsItsEnd, Zenon DEF Escapes
<1>8. QED
  BY <1>4, <1>5, <1>7, Zenon

(* Nothing else that FindingsAreEscapes speaks of is reported.             *)
LEMMA UnrecognisedIsNotReported ==
  ASSUME HookTypeOK, NEW s \in Sections,
         prologue[s].code = "other" \/ readable[s] < JumpLength
  PROVE  ~Escapes(s)
<1>1. readable[s] \in {0, JumpLength, LongLength}
  BY DEF HookTypeOK
<1>2. CASE prologue[s].code = "other"
  <2>1. DecodeRedirectTarget(s) = NoTarget
    BY <1>2 DEF DecodeRedirectTarget
  <2>2. QED
    BY <2>1 DEF Escapes
<1>3. CASE readable[s] < JumpLength
  <2>1. ~(readable[s] >= JumpLength) /\ ~(readable[s] >= LongLength)
    BY <1>1, <1>3 DEF JumpLength, LongLength
  <2>2. DecodeRedirectTarget(s) = NoTarget
    BY <2>1 DEF DecodeRedirectTarget
  <2>3. QED
    BY <2>2 DEF Escapes
<1>4. QED
  BY <1>2, <1>3

LEMMA HookInitially == HookInit => HookInv
<1> SUFFICES ASSUME HookInit PROVE HookInv
  OBVIOUS
<1>1. [code |-> "other", word |-> 0] \in Prologues
  BY DEF Prologues
<1>2. QED
  BY <1>1 DEF HookInit, HookInv, HookTypeOK, ReportedSoFar

LEMMA HookStep == HookInv /\ [HookNext]_hookVars => HookInv'
<1> SUFFICES ASSUME HookInv, [HookNext]_hookVars PROVE HookInv'
  OBVIOUS
<1>1. CASE DetectHooks
  <2>1. CASE detecting' = "failed" /\ UNCHANGED <<prologue, readable, toScan>>
    BY <1>1, <2>1 DEF DetectHooks, HookInv, HookTypeOK, ReportedSoFar
  <2>2. CASE detecting' = "scanning"
    <3>1. HookTypeOK' /\ toScan' = Sections /\ findings' = {}
      <4>1. ~(detecting' = "failed")
        BY <2>2
      <4>2. QED
        BY <1>1, <2>2, <4>1 DEF DetectHooks, HookInv, HookTypeOK, ReportedSoFar
    <3>2. findings' = {s \in Sections \ toScan' : Escapes(s)'}
      BY <3>1
    <3>3. QED
      BY <2>2, <3>1, <3>2 DEF HookInv, ReportedSoFar
  <2>3. QED
    BY <1>1, <2>1, <2>2 DEF DetectHooks
<1>2. CASE ScanSection
  <2> DEFINE section == CHOOSE s \in toScan : \A t \in toScan : s <= t
  <2>1. section \in toScan
    <3>1. toScan \in SUBSET Nat /\ toScan # {}
      BY <1>2, SectionsAreAddresses DEF ScanSection, HookInv, HookTypeOK
    <3>2. \E m \in toScan : \A n \in toScan : m <= n
      BY <3>1, LeastNumber
    <3>3. QED
      BY <3>2
  <2>2. /\ toScan' = toScan \ {section}
        /\ findings' = findings \union (IF Escapes(section) THEN {section} ELSE {})
        /\ UNCHANGED <<prologue, readable, detecting>>
        /\ detecting = "scanning"
    BY <1>2 DEF ScanSection, Escapes
  <2> HIDE DEF section
  <2>3. \A s : Escapes(s)' <=> Escapes(s)
    BY <2>2 DEF Escapes, DecodeRedirectTarget, NoTarget
  <2>4. HookTypeOK'
    BY <2>2 DEF HookInv, HookTypeOK
  <2>5. findings = {s \in Sections \ toScan : Escapes(s)}
    BY <2>2 DEF HookInv, ReportedSoFar
  <2>6. findings' = {s \in Sections \ toScan' : Escapes(s)}
    <3>1. section \in Sections
      BY <2>1 DEF HookInv, HookTypeOK
    <3>2. QED
      BY <2>1, <2>2, <2>5, <3>1
  <2>7. findings' = {s \in Sections \ toScan' : Escapes(s)'}
    BY <2>3, <2>6
  <2>8. QED
    BY <2>2, <2>4, <2>7 DEF HookInv, ReportedSoFar
<1>3. CASE ScanAllReturns
  <2>1. \A s : Escapes(s)' <=> Escapes(s)
    BY <1>3 DEF ScanAllReturns, Escapes, DecodeRedirectTarget, NoTarget
  <2>2. findings' = {s \in Sections \ toScan' : Escapes(s)}
    BY <1>3 DEF ScanAllReturns, HookInv, ReportedSoFar
  <2>3. findings' = {s \in Sections \ toScan' : Escapes(s)'}
    BY <2>1, <2>2
  <2>4. QED
    BY <1>3, <2>3 DEF ScanAllReturns, HookInv, HookTypeOK, ReportedSoFar
<1>4. CASE UNCHANGED hookVars
  <2>1. \A s : Escapes(s)' <=> Escapes(s)
    BY <1>4 DEF hookVars, Escapes, DecodeRedirectTarget, NoTarget
  <2>2. {s \in Sections \ toScan : Escapes(s)}' = {s \in Sections \ toScan : Escapes(s)}
    BY <1>4, <2>1 DEF hookVars
  <2>3. QED
    BY <1>4, <2>2 DEF hookVars, HookInv, HookTypeOK, ReportedSoFar
<1>5. QED
  BY <1>1, <1>2, <1>3, <1>4 DEF HookNext

LEMMA HookInvIsEnough == HookInv => FindingsAreEscapes
<1> SUFFICES ASSUME HookInv, detecting = "done", NEW s \in Sections
             PROVE  /\ Decided(s) => (s \in findings <=> Landing(s) \notin InModule)
                    /\ prologue[s].code = "other" \/ readable[s] < JumpLength
                         => s \notin findings
  BY DEF FindingsAreEscapes
<1>1. HookTypeOK /\ (s \in findings <=> Escapes(s))
  BY DEF HookInv, ReportedSoFar
<1>2. Decided(s) => (Escapes(s) <=> Landing(s) \notin InModule)
  BY <1>1, JumpsAreJudged, ReturnsAreJudged, Zenon DEF Decided
<1>3. QED
  BY <1>1, <1>2, UnrecognisedIsNotReported

(* Of the sections whose first instruction is decided, a finished scan has *)
(* reported exactly those from which the processor leaves the module:      *)
(* InlineHookDetector::scan() with decodeRedirectTarget(), for every       *)
(* module, width of addresses and displacement.                            *)
THEOREM ScansFindEscapes == HookSpec => []FindingsAreEscapes
<1>1. HookInit => HookInv
  BY HookInitially
<1>2. HookInv /\ [HookNext]_hookVars => HookInv'
  BY HookStep
<1>3. HookInv => FindingsAreEscapes
  BY HookInvIsEnough
<1>4. QED
  BY <1>1, <1>2, <1>3, PTL DEF HookSpec
=============================================================================
