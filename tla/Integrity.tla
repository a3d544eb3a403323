----------------------------- MODULE Integrity -----------------------------
(***************************************************************************)
(* Capturing an integrity baseline and verifying the process against it:   *)
(* IntegrityBaseline::create, IntegrityChecker::verify and the read they   *)
(* share (MemoryScanner::read over pread of /proc/<pid>/mem), while the    *)
(* target goes on patching and unmapping its code and may exit.            *)
(*                                                                         *)
(* A section is a sequence of pages, read one page at a time.  A digest is *)
(* the algorithm's name with the bytes hashed: hashing is taken to be      *)
(* injective, as the code relies on for SHA-256.                           *)
(***************************************************************************)
EXTENDS Naturals, Sequences

CONSTANTS
  Sections,     \* the code sections of the target's modules
  Pages,        \* pages per section
  Bytes,        \* contents of a page
  Hole,         \* a page that is not mapped
  None,         \* no section, no baseline
  Algorithms,   \* names of hash algorithms
  Checker,      \* the algorithm of the IntegrityChecker's hash provider
  MaxChanges    \* bound: how often the target changes a page

ASSUME PagesAssumption == Pages \in Nat \ {0}
ASSUME ValuesAssumption == Hole \notin Bytes /\ None \notin Sections
ASSUME CheckerAssumption == Checker \in Algorithms
ASSUME MaxChangesAssumption == MaxChanges \in Nat

VARIABLES
  memory,      \* the target's sections, page by page
  exited,      \* has the target exited?
  changes,     \* how often it changed a page
  op,          \* the operation in progress: "idle", "create" or "verify"
  algorithm,   \* of the baseline being captured
  todo,        \* the sections the operation has still to read
  cur,         \* the section being read, None between reads
  buf,         \* the pages of cur read so far
  entries,     \* the digests captured so far: a function on some sections
  baseline,    \* the installed baseline
  report,      \* the report of verify(), complete when op is "idle"
  touched,     \* history: the sections changed since create() of baseline began
  touchedNew,  \* history: the sections changed since the create() in progress began
  steady       \* history: the pages at odds with baseline throughout this verify()

target == <<memory, exited, changes>>
reading == <<todo, cur, buf>>
history == <<touched, touchedNew, steady>>
vars == <<target, op, algorithm, reading, entries, baseline, report, history>>

PageNumbers == 1..Pages
NoEntries == [s \in {} |-> <<>>]
NoReport == [tampered |-> {}, unreadable |-> {}]

(* What the read of a section finds at a page: nothing past the end of the *)
(* section, and nothing anywhere once the process has exited.              *)
Page(s, p) == IF exited \/ p > Pages THEN Hole ELSE memory[s][p]

Digest(a, bytes) == <<a, bytes>>

(* The pages an entry covers whose content is not what it was then.        *)
AtOdds(base) ==
  {x \in (DOMAIN base.entries) \X PageNumbers :
     LET bytes == base.entries[x[1]][2]
     IN  x[2] <= Len(bytes) /\ bytes[x[2]] # Page(x[1], x[2])}

(* Digests of one algorithm, for some of the sections.                     *)
Digests(captured, a) ==
  /\ DOMAIN captured \subseteq Sections
  /\ \A s \in DOMAIN captured :
       /\ captured[s] = Digest(a, captured[s][2])
       /\ captured[s][2] \in Seq(Bytes)

TypeOK ==
  /\ memory \in [Sections -> [PageNumbers -> Bytes \union {Hole}]]
  /\ exited \in BOOLEAN
  /\ changes \in 0..MaxChanges
  /\ op \in {"idle", "create", "verify"}
  /\ algorithm \in Algorithms
  /\ todo \in SUBSET Sections
  /\ cur \in Sections \union {None}
  /\ op = "idle" => cur = None
  /\ buf \in Seq(Bytes) /\ Len(buf) <= Pages
  /\ Digests(entries, algorithm)
  /\ baseline # None =>
       /\ baseline.algorithm \in Algorithms
       /\ Digests(baseline.entries, baseline.algorithm)
  /\ report \in [tampered: SUBSET Sections, unreadable: SUBSET Sections]
  /\ touched \in SUBSET Sections
  /\ touchedNew \in SUBSET Sections
  /\ steady \in SUBSET (Sections \X PageNumbers)

Init ==
  /\ memory \in [Sections -> [PageNumbers -> Bytes]]
  /\ exited = FALSE
  /\ changes = 0
  /\ op = "idle"
  /\ algorithm = Checker
  /\ todo = {}
  /\ cur = None
  /\ buf = <<>>
  /\ entries = NoEntries
  /\ baseline = None
  /\ report = NoReport
  /\ touched = {}
  /\ touchedNew = {}
  /\ steady = {}

-----------------------------------------------------------------------------
(* The target *)

(* What the history records of a change to the pages of some sections.     *)
Recorded(sections) ==
  /\ touched' = touched \union sections
  /\ touchedNew' = touchedNew \union sections
  /\ steady' = IF op = "verify" THEN steady \intersect AtOdds(baseline)' ELSE steady

(* The target writes to a page of code, unmaps it or maps it again.        *)
ChangePage(s, p) ==
  /\ ~exited
  /\ changes < MaxChanges
  /\ changes' = changes + 1
  /\ \E b \in (Bytes \union {Hole}) \ {memory[s][p]} :
       memory' = [memory EXCEPT ![s][p] = b]
  /\ UNCHANGED exited
  /\ UNCHANGED <<op, algorithm, reading, entries, baseline, report>>
  /\ Recorded({s})

Exit ==
  /\ ~exited
  /\ exited' = TRUE
  /\ UNCHANGED <<memory, changes>>
  /\ UNCHANGED <<op, algorithm, reading, entries, baseline, report>>
  /\ Recorded(Sections)

-----------------------------------------------------------------------------
(* MemoryScanner::read *)

NextSection(s) ==
  /\ op # "idle"
  /\ cur = None
  /\ s \in todo
  /\ todo' = todo \ {s}
  /\ cur' = s
  /\ buf' = <<>>
  /\ UNCHANGED <<target, op, algorithm, entries, baseline, report, history>>

(* Mutant: a read that takes an unmapped page for data.                    *)
ReadPage_ThroughHoles ==
  /\ cur # None
  /\ Len(buf) < Pages
  /\ buf' = Append(buf, Page(cur, Len(buf) + 1))
  /\ UNCHANGED <<target, op, algorithm, todo, cur, entries, baseline, report, history>>

ReadPage ==
  /\ cur # None
  /\ LET page == Page(cur, Len(buf) + 1) IN
       /\ page # Hole
       /\ buf' = Append(buf, page)
  /\ UNCHANGED <<target, op, algorithm, todo, cur, entries, baseline, report, history>>

(* pread has no more to give: the section is read, or the next page is a   *)
(* hole.  Nothing at all is an error, unless the process has exited: then  *)
(* pread answers 0, which readMemoryLinux takes for a success.             *)
ReadOver == cur # None /\ Page(cur, Len(buf) + 1) = Hole
ReadSucceeds == ReadOver /\ (buf # <<>> \/ exited)
ReadFails    == ReadOver /\ buf = <<>> /\ ~exited

-----------------------------------------------------------------------------
(* IntegrityBaseline::create, called by establishBaseline with the         *)
(* sections that an enumeration has just found.                            *)

Enumerated == {s \in Sections : Page(s, 1) # Hole}

CreateBegin ==
  /\ op = "idle"
  /\ Enumerated # {}
  /\ op' = "create"
  /\ algorithm' \in Algorithms
  /\ todo' = Enumerated
  /\ entries' = NoEntries
  /\ touchedNew' = {}
  /\ UNCHANGED <<target, cur, buf, baseline, report, touched, steady>>

(* No section at all is no error: the baseline is empty.                   *)
CreateOfNothing ==
  /\ op = "idle"
  /\ Enumerated = {}
  /\ \E a \in Algorithms : baseline' = [algorithm |-> a, entries |-> NoEntries]
  /\ touched' = {}
  /\ report' = NoReport
  /\ steady' = {}
  /\ UNCHANGED <<target, op, algorithm, reading, entries, touchedNew>>

CreateRecords ==
  /\ op = "create"
  /\ ReadSucceeds
  /\ entries' = [s \in DOMAIN entries \union {cur} |->
                   IF s = cur THEN Digest(algorithm, buf) ELSE entries[s]]
  /\ cur' = None
  /\ UNCHANGED <<target, op, algorithm, todo, buf, baseline, report, history>>

CreateOmits ==
  /\ op = "create"
  /\ ReadFails
  /\ cur' = None
  /\ UNCHANGED <<target, op, algorithm, todo, buf, entries, baseline, report, history>>

(* All sections are done: install the baseline, unless none could be read. *)
(* establishBaseline() then returns the error and keeps the baseline it    *)
(* had.  What an older baseline was found to be is history.                *)
CreateEnd ==
  /\ op = "create"
  /\ cur = None
  /\ todo = {}
  /\ op' = "idle"
  /\ \/ /\ DOMAIN entries # {}
        /\ baseline' = [algorithm |-> algorithm, entries |-> entries]
        /\ touched' = touchedNew
        /\ report' = NoReport
        /\ steady' = {}
     \/ /\ DOMAIN entries = {}
        /\ UNCHANGED <<baseline, touched, report, steady>>
  /\ UNCHANGED <<target, algorithm, reading, entries, touchedNew>>

-----------------------------------------------------------------------------
(* IntegrityChecker::verify, called by checkIntegrity and by each cycle of *)
(* ProcessMonitor when there is a baseline.                                *)

Verifiable == baseline # None /\ baseline.algorithm = Checker

(* Mutant: no comparison of algorithms.                                    *)
VerifyBegin_AnyAlgorithm ==
  /\ op = "idle"
  /\ baseline # None
  /\ op' = "verify"
  /\ todo' = DOMAIN baseline.entries
  /\ report' = NoReport
  /\ steady' = AtOdds(baseline)
  /\ UNCHANGED <<target, algorithm, cur, buf, entries, baseline, touched, touchedNew>>

VerifyBegin ==
  /\ op = "idle"
  /\ Verifiable
  /\ op' = "verify"
  /\ todo' = DOMAIN baseline.entries
  /\ report' = NoReport
  /\ steady' = AtOdds(baseline)
  /\ UNCHANGED <<target, algorithm, cur, buf, entries, baseline, touched, touchedNew>>

(* No baseline, or one captured with another algorithm: an error, and no   *)
(* report.                                                                 *)
VerifyRefuses ==
  /\ op = "idle"
  /\ ~Verifiable
  /\ report' = NoReport
  /\ steady' = {}
  /\ UNCHANGED <<target, op, algorithm, reading, entries, baseline, touched, touchedNew>>

(* Mutant: only the pages that could be read are compared.                 *)
VerifyCompares_Prefix ==
  /\ op = "verify"
  /\ ReadSucceeds
  /\ report' = [report EXCEPT !.tampered = @ \union
       {s \in {cur} : baseline.entries[s] # Digest(Checker, buf) /\ Len(buf) = Pages}]
  /\ cur' = None
  /\ UNCHANGED <<target, op, algorithm, todo, buf, entries, baseline, history>>

VerifyCompares ==
  /\ op = "verify"
  /\ ReadSucceeds
  /\ report' = [report EXCEPT !.tampered = @ \union
       {s \in {cur} : baseline.entries[s] # Digest(Checker, buf)}]
  /\ cur' = None
  /\ UNCHANGED <<target, op, algorithm, todo, buf, entries, baseline, history>>

VerifyCannotRead ==
  /\ op = "verify"
  /\ ReadFails
  /\ report' = [report EXCEPT !.unreadable = @ \union {cur}]
  /\ cur' = None
  /\ UNCHANGED <<target, op, algorithm, todo, buf, entries, baseline, history>>

VerifyEnd ==
  /\ op = "verify"
  /\ cur = None
  /\ todo = {}
  /\ op' = "idle"
  /\ UNCHANGED <<target, algorithm, reading, entries, baseline, report, history>>

-----------------------------------------------------------------------------
Targets == Exit \/ \E s \in Sections, p \in PageNumbers : ChangePage(s, p)
Reads   == ReadPage \/ \E s \in Sections : NextSection(s)
Creates == CreateBegin \/ CreateOfNothing \/ CreateRecords \/ CreateOmits \/ CreateEnd
Verifies == VerifyBegin \/ VerifyRefuses \/ VerifyCompares \/ VerifyCannotRead \/ VerifyEnd

Next == Targets \/ Reads \/ Creates \/ Verifies

Spec == Init /\ [][Next]_vars

-----------------------------------------------------------------------------
(* Properties *)

(* A section is reported tampered only if the target changed it, or went   *)
(* away, after the capture of the installed baseline began: an untouched   *)
(* process never raises an alarm, whoever else was patched or unmapped.    *)
AlarmIsReal == op = "idle" => report.tampered \subseteq touched

(* A page that differs from the baseline throughout a verification is      *)
(* found: its section is reported tampered or unreadable.                  *)
SteadyTamperIsFound ==
  op = "idle" =>
    \A x \in steady : x[1] \in report.tampered \union report.unreadable

(* "If a section's memory cannot be fully read, that section is omitted    *)
(* from the baseline" (integrity_baseline.hpp:42-43): every digest of a    *)
(* baseline installed of a process that is still there covers its whole    *)
(* section.                                                                *)
BaselineIsWhole ==
  baseline # None /\ ~exited =>
    \A s \in DOMAIN baseline.entries : Len(baseline.entries[s][2]) = Pages

-----------------------------------------------------------------------------
(* Why AlarmIsReal and SteadyTamperIsFound hold *)

(* What was read of a section is what the section still holds; and the     *)
(* read went as far as it could.                                           *)
Current(s, bytes) ==
  /\ ~exited
  /\ Len(bytes) <= Pages
  /\ \A p \in 1..Len(bytes) : bytes[p] = memory[s][p]
Complete(s, bytes) == Current(s, bytes) /\ Page(s, Len(bytes) + 1) = Hole

(* Of the sections left alone, the pages read, the digests captured and    *)
(* the installed baseline are up to date.                                  *)
CreateInv ==
  op = "create" =>
    /\ exited => touchedNew = Sections
    /\ \A s \in DOMAIN entries \ touchedNew : Complete(s, entries[s][2])
    /\ cur \notin touchedNew \union {None} => Current(cur, buf)

BaselineInv ==
  baseline # None =>
    \A s \in DOMAIN baseline.entries \ touched : Complete(s, baseline.entries[s][2])

(* A verification reads the sections of the baseline.  Every steady        *)
(* difference is still ahead of it, in the pages it holds, or reported.    *)
VerifyInv ==
  op = "verify" =>
    /\ Verifiable
    /\ todo \union ({cur} \ {None}) \subseteq DOMAIN baseline.entries
    /\ cur \notin touched \union {None} => Current(cur, buf)
    /\ steady \subseteq AtOdds(baseline)
    /\ \A x \in steady :
         \/ x[1] \in todo \union report.tampered \union report.unreadable
         \/ x[1] = cur /\ (x[2] <= Len(buf) => buf[x[2]] # baseline.entries[cur][2][x[2]])

(* A finished verification missed nothing; no verification accuses a       *)
(* section left alone.                                                     *)
ReportInv ==
  /\ report.tampered \subseteq touched
  /\ op # "verify" =>
       \A x \in steady : x[1] \in report.tampered \union report.unreadable

(* What every step of the target, of create() and of verify() preserves    *)
(* (integrity_baseline.cpp:104-135, integrity_checker.cpp:11-44).          *)
IntegrityInv == TypeOK /\ CreateInv /\ BaselineInv /\ VerifyInv /\ ReportInv
=============================================================================
