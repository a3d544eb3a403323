----------------------------- MODULE MemoryView -----------------------------
(***************************************************************************)
(* Two scans of a process that runs on, and their comparison:              *)
(* MemoryScanner::scan, MemorySnapshot::capture and MemoryDiff::compare    *)
(* (src/memory). The region list is read at once, the contents region by   *)
(* region. A cell of memory is Unmapped or a record of its protection and  *)
(* its byte; a region is a maximal run of cells protected alike.           *)
(***************************************************************************)
EXTENDS Naturals, Sequences, FiniteSets

CONSTANTS
  CellCount,   \* cells of memory
  Unmapped,    \* no memory there
  Protections, \* subsets of {"execute", "write"}, beside read
  Bytes,       \* what a cell can hold
  MaxWrites    \* bound: how often the process changes its memory

ASSUME MemoryViewAssumption ==
  /\ CellCount \in Nat \ {0} /\ MaxWrites \in Nat
  /\ Unmapped \notin Bytes

CellAddress == 0..(CellCount - 1)
Cells == {Unmapped} \union [protection : Protections, byte : Bytes]

VARIABLES
  cells,      \* the process
  writes,     \* how often it changed
  filter,     \* the ScanFilter
  scanning,   \* "no", "first", "second", "failed" or "compared"
  asked,      \* did the scan in progress find a region to capture?
  toCapture,  \* regions enumerated and not captured yet
  captured,   \* SnapshotRegions of the scan in progress
  before,     \* the first snapshot
  after,      \* the second
  diff        \* DiffResult: changedRanges, regionSetIdentical

scanVars == <<cells, writes, filter, scanning, asked, toCapture, captured, before, after, diff>>

NoDiff == [changedRanges |-> {}, regionSetIdentical |-> TRUE]

Alike(a, b) ==
  IF cells[a] = Unmapped \/ cells[b] = Unmapped THEN cells[a] = cells[b]
  ELSE cells[a].protection = cells[b].protection

(* The regions of the process, as the platform enumerates them.            *)
RegionAt(a) ==
  LET ends == {b \in (a + 1)..CellCount : \A c \in a..(b - 1) : Alike(a, c)}
  IN [base |-> a, end |-> CHOOSE b \in ends : \A c \in ends : c <= b,
      protection |-> cells[a].protection]
AllRegions ==
  {RegionAt(a) : a \in {b \in CellAddress : cells[b] # Unmapped /\ (b = 0 \/ ~Alike(b - 1, b))}}

(* Filtering by the region's module goes the same way.                     *)
MatchesFilter(region) ==
  /\ filter.executableOnly => "execute" \in region.protection
  /\ filter.excludeWritableExecutable => ~({"write", "execute"} \subseteq region.protection)

(* What one readMemory() gives: the bytes up to the first unmapped cell.   *)
Readable(region) ==
  LET lengths == {n \in 0..(region.end - region.base) :
                    \A i \in 0..(n - 1) : cells[region.base + i] # Unmapped}
  IN CHOOSE n \in lengths : \A k \in lengths : k <= n

ScanInit ==
  /\ cells = [a \in CellAddress |-> Unmapped]
  /\ writes = 0
  /\ filter = [executableOnly |-> FALSE, excludeWritableExecutable |-> FALSE]
  /\ scanning = "no"
  /\ asked = FALSE /\ toCapture = {} /\ captured = {} /\ before = {} /\ after = {}
  /\ diff = NoDiff

-----------------------------------------------------------------------------
(* The process writes, maps, unmaps or protects a range, or exits.         *)
RangeChanges(first, last) ==
  /\ scanning \in {"first", "second"}
  /\ writes < MaxWrites
  /\ writes' = writes + 1
  /\ \E c \in Cells :
       cells' = [a \in CellAddress |-> IF first <= a /\ a <= last THEN c ELSE cells[a]]
  /\ UNCHANGED <<filter, scanning, asked, toCapture, captured, before, after, diff>>

(* A process, and the first scan() of it: enumeration and filtering.       *)
ScanBegins ==
  /\ scanning = "no"
  /\ cells' \in [CellAddress -> Cells]
  /\ filter' \in [executableOnly : BOOLEAN, excludeWritableExecutable : BOOLEAN]
  /\ toCapture' = {r \in AllRegions' : MatchesFilter(r)'}
  /\ asked' = (toCapture' # {})
  /\ scanning' = "first"
  /\ UNCHANGED <<writes, captured, before, after, diff>>

NextRegion == CHOOSE r \in toCapture : \A s \in toCapture : r.base <= s.base

(* capture() reads the next region. What is kept is its extent as it was   *)
(* enumerated and the bytes read, which a short read makes fewer. A read   *)
(* that gives nothing is an error, and the region is skipped, unless the   *)
(* process is gone: then Linux reports an empty read.                      *)
CaptureRegion ==
  /\ toCapture # {}
  /\ toCapture' = toCapture \ {NextRegion}
  /\ LET bytes == [i \in 1..Readable(NextRegion) |-> cells[NextRegion.base + i - 1].byte]
         kept == [base |-> NextRegion.base, end |-> NextRegion.end, bytes |-> bytes]
     IN \/ /\ bytes # <<>> \/ \A a \in CellAddress : cells[a] = Unmapped
           /\ captured' = captured \union {kept}
        \/ bytes = <<>> /\ UNCHANGED captured
  /\ UNCHANGED <<cells, writes, filter, scanning, asked, before, after, diff>>

(* A scan that captured none of the regions it asked for is an error.      *)
ScanFailed == asked /\ captured = {}

(* The first scan returns and the second begins.                           *)
FirstScanEnds ==
  /\ scanning = "first" /\ toCapture = {}
  /\ ~ScanFailed
  /\ before' = captured /\ captured' = {}
  /\ scanning' = "second"
  /\ toCapture' = {r \in AllRegions : MatchesFilter(r)}
  /\ asked' = (toCapture' # {})
  /\ UNCHANGED <<cells, writes, filter, after, diff>>

(* A scan fails; nothing is compared.                                      *)
ScanGivesUp ==
  /\ scanning \in {"first", "second"} /\ toCapture = {} /\ ScanFailed
  /\ scanning' = "failed"
  /\ UNCHANGED <<cells, writes, filter, asked, toCapture, captured, before, after, diff>>

Containing(a, snapshot) == {r \in snapshot : r.base <= a /\ a < r.end}
Least(m, n) == IF m < n THEN m ELSE n

(* compareRegionContents(): the maximal runs of bytes that differ.         *)
ChangedRuns(b, c) ==
  LET length == Least(Len(b.bytes), Len(c.bytes))
      differs(i) == i \in 1..length /\ b.bytes[i] # c.bytes[i]
  IN {[address |-> b.base + run[1] - 1, length |-> run[2] + 1 - run[1]] :
        run \in {r \in (1..length) \X (1..length) :
                   /\ r[1] <= r[2]
                   /\ \A i \in r[1]..r[2] : differs(i)
                   /\ ~differs(r[1] - 1) /\ ~differs(r[2] + 1)}}

(* Mutant: whatever region contains the base address is compared.          *)
Compare_AnyOverlap(old, new) ==
  LET pairs == {p \in old \X new : p[2] \in Containing(p[1].base, new)}
  IN [changedRanges |-> UNION {ChangedRuns(p[1], p[2]) : p \in pairs},
      regionSetIdentical |-> /\ \A b \in old : \E p \in pairs : p[1] = b
                             /\ \A c \in new : Containing(c.base, old) # {}]

(* Mutant: regions that appeared are not looked for.                       *)
Compare_OldOnly(old, new) ==
  LET pairs == {p \in old \X new : p[2] \in Containing(p[1].base, new) /\ p[2].base = p[1].base}
  IN [changedRanges |-> UNION {ChangedRuns(p[1], p[2]) : p \in pairs},
      regionSetIdentical |-> \A b \in old : \E p \in pairs : p[1] = b]

(* compare(): regions are matched by base address.                         *)
Compare(old, new) ==
  LET pairs == {p \in old \X new : p[2] \in Containing(p[1].base, new) /\ p[2].base = p[1].base}
  IN [changedRanges |-> UNION {ChangedRuns(p[1], p[2]) : p \in pairs},
      regionSetIdentical |-> /\ \A b \in old : \E p \in pairs : p[1] = b
                             /\ \A c \in new : Containing(c.base, old) # {}]

(* The second scan returns and the two are compared.                       *)
SecondScanEnds ==
  /\ scanning = "second" /\ toCapture = {}
  /\ ~ScanFailed
  /\ after' = captured /\ captured' = {}
  /\ scanning' = "compared"
  /\ diff' = Compare(before, captured)
  /\ UNCHANGED <<cells, writes, filter, asked, toCapture, before>>

ScanNext ==
  \/ ScanBegins \/ CaptureRegion \/ FirstScanEnds \/ SecondScanEnds \/ ScanGivesUp
  \/ \E first, last \in CellAddress : first <= last /\ RangeChanges(first, last)

ScanSpec == ScanInit /\ [][ScanNext]_scanVars

-----------------------------------------------------------------------------
(* The byte a snapshot holds for an address; None for none.                *)
ByteAt(snapshot, a) ==
  LET holding == {r \in snapshot : r.base <= a /\ a < r.base + Len(r.bytes)}
      r == CHOOSE r \in holding : TRUE
  IN IF holding = {} THEN Unmapped ELSE r.bytes[a + 1 - r.base]
Reported == {a \in CellAddress : \E c \in diff.changedRanges :
                                    c.address <= a /\ a < c.address + c.length}
Extents(snapshot) == {<<r.base, r.end>> : r \in snapshot}

(* Each address reported as changed was captured by both scans, with       *)
(* different bytes, whatever was mapped, unmapped or protected between     *)
(* enumeration, capture and the second scan; no range touches another of   *)
(* its region.                                                             *)
DiffIsSound ==
  /\ \A a \in Reported : /\ ByteAt(before, a) # Unmapped /\ ByteAt(after, a) # Unmapped
                         /\ ByteAt(before, a) # ByteAt(after, a)
  /\ \A c, d \in diff.changedRanges : c # d /\ c.address + c.length = d.address
                                      => d.address \in {r.base : r \in before}

(* When both scans covered the same regions, every address captured twice  *)
(* with different bytes is reported, and the region sets are said to be    *)
(* the same; when a region of one scan begins where the other has none,    *)
(* they are not.                                                           *)
DiffIsComplete ==
  scanning = "compared" =>
    /\ Extents(before) = Extents(after) =>
         /\ diff.regionSetIdentical
         /\ \A a \in CellAddress :
              /\ ByteAt(before, a) # Unmapped /\ ByteAt(after, a) # Unmapped
              /\ ByteAt(before, a) # ByteAt(after, a)
              => a \in Reported
    /\ (\/ \E r \in before : Containing(r.base, after) = {}
        \/ \E r \in after : Containing(r.base, before) = {}) => ~diff.regionSetIdentical
=============================================================================
