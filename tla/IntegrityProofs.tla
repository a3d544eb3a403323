-------------------------- MODULE IntegrityProofs --------------------------
(***************************************************************************)
(* Proofs about Integrity: whatever the target does between any two page   *)
(* reads, no verification accuses a section that was left alone, and none  *)
(* misses a page that differs throughout it.                               *)
(***************************************************************************)
EXTENDS Integrity, SequenceTheorems, TLAPS

USE PagesAssumption, ValuesAssumption, CheckerAssumption, MaxChangesAssumption

(* Two reads of the same pages that each went as far as they could read    *)
(* the same (linux_process_handle.cpp:148-164).                            *)
LEMMA CompleteReadsAgree ==
  ASSUME TypeOK, NEW s \in Sections,
         NEW b \in Seq(Bytes), NEW c \in Seq(Bytes),
         Complete(s, b), Complete(s, c)
  PROVE  b = c
<1> USE DEF Complete, Current, Page
<1>1. \A i \in 1..Len(b) : b[i] \in Bytes /\ i \in 1..Pages
  OBVIOUS
<1>2. \A i \in 1..Len(c) : c[i] \in Bytes /\ i \in 1..Pages
  OBVIOUS
<1>3. ~(Len(b) < Len(c))
  <2>1. SUFFICES ASSUME Len(b) < Len(c)
                 PROVE  FALSE
    OBVIOUS
  <2>2. Len(b) + 1 \in 1..Len(c) /\ Len(b) + 1 <= Pages
    BY <2>1
  <2>3. memory[s][Len(b) + 1] = Hole
    BY <2>2
  <2>4. memory[s][Len(b) + 1] \in Bytes
    BY <2>2, <1>2
  <2> QED BY <2>3, <2>4
<1>4. ~(Len(c) < Len(b))
  <2>1. SUFFICES ASSUME Len(c) < Len(b)
                 PROVE  FALSE
    OBVIOUS
  <2>2. Len(c) + 1 \in 1..Len(b) /\ Len(c) + 1 <= Pages
    BY <2>1
  <2>3. memory[s][Len(c) + 1] = Hole
    BY <2>2
  <2>4. memory[s][Len(c) + 1] \in Bytes
    BY <2>2, <1>1
  <2> QED BY <2>3, <2>4
<1>5. Len(b) = Len(c)
  BY <1>3, <1>4
<1>6. \A i \in 1..Len(b) : b[i] = c[i]
  BY <1>5
<1> QED BY <1>5, <1>6, SeqEqual

LEMMA IntegrityInit == Init => IntegrityInv
<1> SUFFICES ASSUME Init
             PROVE  IntegrityInv
  OBVIOUS
<1> USE DEF Init
<1>1. TypeOK
  <2>1. memory \in [Sections -> [PageNumbers -> Bytes \union {Hole}]]
    OBVIOUS
  <2>2. buf \in Seq(Bytes) /\ Len(buf) <= Pages
    OBVIOUS
  <2>3. DOMAIN entries = {}
    BY DEF NoEntries
  <2>4. report \in [tampered: SUBSET Sections, unreadable: SUBSET Sections]
    BY DEF NoReport
  <2>5. 0 \in 0..MaxChanges
    OBVIOUS
  <2>6. Digests(entries, algorithm)
    BY <2>3 DEF Digests
  <2> QED BY <2>1, <2>2, <2>4, <2>5, <2>6, Zenon DEF TypeOK
<1>2. CreateInv /\ BaselineInv /\ VerifyInv
  BY DEF CreateInv, BaselineInv, VerifyInv
<1>3. ReportInv
  BY DEF ReportInv, NoReport
<1> QED BY <1>1, <1>2, <1>3 DEF IntegrityInv

(* The target touches some sections, and leaves the others as they are.    *)
Touches(sections) ==
  /\ sections \in SUBSET Sections
  /\ Recorded(sections)
  /\ UNCHANGED <<op, algorithm, reading, entries, baseline, report>>
  /\ exited' = exited \/ sections = Sections
  /\ \A s \in Sections \ sections : memory'[s] = memory[s]
  /\ memory' \in [Sections -> [PageNumbers -> Bytes \union {Hole}]]
  /\ exited' \in BOOLEAN
  /\ changes' \in 0..MaxChanges

LEMMA TargetTouches ==
  ASSUME TypeOK, Targets
  PROVE  \E sections : Touches(sections)
<1>1. ASSUME Exit
      PROVE  Touches(Sections)
  BY <1>1 DEF Exit, Touches, TypeOK
<1>2. ASSUME NEW s \in Sections, NEW p \in PageNumbers, ChangePage(s, p)
      PROVE  Touches({s})
  BY <1>2 DEF ChangePage, Touches, TypeOK
<1> QED BY <1>1, <1>2 DEF Targets

(* The target changes a page of one section, or exits.                     *)
LEMMA TargetKeeps ==
  ASSUME IntegrityInv, NEW touches, Touches(touches)
  PROVE  IntegrityInv'
<1>1. TypeOK /\ CreateInv /\ BaselineInv /\ VerifyInv /\ ReportInv
  BY DEF IntegrityInv
<1>2. UNCHANGED <<op, algorithm, todo, cur, buf, entries, baseline, report>>
  BY DEF Touches, reading
<1>3. /\ touched' = touched \union touches
      /\ touchedNew' = touchedNew \union touches
      /\ steady' \subseteq steady
      /\ op = "verify" => steady' \subseteq AtOdds(baseline)'
      /\ op # "verify" => steady' = steady
  BY DEF Touches, Recorded
<1>4. ASSUME NEW s \in Sections \ touches, NEW bytes
      PROVE  /\ Current(s, bytes) => Current(s, bytes)'
             /\ Complete(s, bytes) => Complete(s, bytes)'
  BY DEF Touches, Current, Complete, Page
<1>5. TypeOK'
  BY <1>1, <1>2, <1>3 DEF TypeOK, Touches, Digests, Digest
<1>6. CreateInv'
  BY <1>1, <1>2, <1>3, <1>4 DEF CreateInv, Touches, TypeOK, Digests
<1>7. BaselineInv'
  BY <1>1, <1>2, <1>3, <1>4 DEF BaselineInv, TypeOK, Digests
<1>8. VerifyInv'
  BY <1>1, <1>2, <1>3, <1>4 DEF VerifyInv, Verifiable, TypeOK
<1>9. ReportInv'
  BY <1>1, <1>2, <1>3 DEF ReportInv
<1> QED BY <1>5, <1>6, <1>7, <1>8, <1>9 DEF IntegrityInv

(* The reads that create() and verify() share.                             *)
LEMMA ReadKeeps ==
  ASSUME IntegrityInv, Reads
  PROVE  IntegrityInv'
<1>1. TypeOK /\ CreateInv /\ BaselineInv /\ VerifyInv /\ ReportInv
  BY DEF IntegrityInv
<1>2. UNCHANGED <<memory, exited, changes, op, algorithm, entries, baseline,
                  report, touched, touchedNew, steady>>
  BY DEF Reads, NextSection, ReadPage, target, history
<1>3. BaselineInv' /\ ReportInv'
  BY <1>1, <1>2 DEF BaselineInv, ReportInv, Complete, Current, Page
<1>4. ASSUME NEW s \in Sections, NextSection(s)
      PROVE  IntegrityInv'
  <2>1. /\ op # "idle" /\ cur = None /\ s \in todo
        /\ todo' = todo \ {s} /\ cur' = s /\ buf' = <<>>
    BY <1>4 DEF NextSection
  <2>2. TypeOK'
    BY <1>1, <1>2, <2>1 DEF TypeOK, Digests
  <2>3. ASSUME op = "create", s \notin touchedNew
        PROVE  ~exited
    BY <1>1, <2>3 DEF CreateInv
  <2>4. ASSUME op = "verify", s \notin touched
        PROVE  ~exited
    BY <1>1, <2>1, <2>4 DEF VerifyInv, Verifiable, BaselineInv, Complete, Current
  <2>5. CreateInv'
    BY <1>1, <1>2, <2>1, <2>3 DEF CreateInv, Complete, Current, Page
  <2>6. VerifyInv'
    <3>1. AtOdds(baseline)' = AtOdds(baseline)
      BY <1>2 DEF AtOdds, Page
    <3>2. Len(buf') = 0
      BY <2>1
    <3>3. \A x \in steady : x[1] # None /\ x[2] \in Nat \ {0}
      BY <1>1 DEF TypeOK, PageNumbers
    <3>4. \A x \in steady : x[2] <= Len(buf') => FALSE
      BY <3>2, <3>3
    <3>5. op = "verify" /\ s \notin touched => Current(s, buf)'
      BY <1>2, <2>4, <3>2 DEF Current
    <3> QED BY <1>1, <1>2, <2>1, <3>1, <3>3, <3>4, <3>5 DEF VerifyInv, Verifiable
  <2> QED BY <1>3, <2>2, <2>5, <2>6 DEF IntegrityInv
<1>5. CASE ReadPage
  <2> DEFINE page == Page(cur, Len(buf) + 1)
  <2>1. /\ cur \in Sections /\ page # Hole
        /\ todo' = todo /\ cur' = cur /\ buf' = Append(buf, page)
    BY <1>1, <1>5 DEF ReadPage, TypeOK
  <2>2. /\ Len(buf) \in Nat /\ Len(buf) + 1 \in PageNumbers
        /\ page = memory[cur][Len(buf) + 1] /\ page \in Bytes
    <3>1. Len(buf) \in Nat /\ memory[cur] \in [PageNumbers -> Bytes \union {Hole}]
      BY <1>1, <2>1 DEF TypeOK
    <3>2. ~(Len(buf) + 1 > Pages) /\ page = memory[cur][Len(buf) + 1]
      BY <2>1 DEF Page
    <3>3. Len(buf) + 1 \in PageNumbers
      BY <3>1, <3>2 DEF PageNumbers
    <3> QED BY <2>1, <3>1, <3>2, <3>3
  <2>3. /\ buf' \in Seq(Bytes) /\ Len(buf') = Len(buf) + 1
        /\ \A i \in 1..Len(buf) : buf'[i] = buf[i]
        /\ buf'[Len(buf) + 1] = page
    BY <1>1, <2>1, <2>2 DEF TypeOK
  <2> HIDE DEF page
  <2>4. TypeOK'
    BY <1>1, <1>2, <2>1, <2>2, <2>3 DEF TypeOK, Digests, PageNumbers
  <2>5. Current(cur, buf) => Current(cur, buf)'
    BY <1>2, <2>1, <2>2, <2>3 DEF Current, PageNumbers
  <2>6. CreateInv'
    BY <1>1, <1>2, <2>1, <2>5 DEF CreateInv, Complete, Current, Page
  <2>7. VerifyInv'
    <3> SUFFICES ASSUME op = "verify"
                 PROVE  VerifyInv'
      BY <1>2 DEF VerifyInv
    <3>1. AtOdds(baseline)' = AtOdds(baseline)
      BY <1>2 DEF AtOdds, Page
    <3>2. ASSUME NEW x \in steady, x[1] = cur, x[2] <= Len(buf'),
                 x[1] \notin todo \union report.tampered \union report.unreadable
          PROVE  buf'[x[2]] # baseline.entries[cur][2][x[2]]
      <4>1. x \in AtOdds(baseline)
        BY <1>1 DEF VerifyInv
      <4>2. x[2] \in PageNumbers /\ baseline.entries[cur][2][x[2]] # Page(cur, x[2])
        BY <4>1, <3>2 DEF AtOdds
      <4>3. CASE x[2] = Len(buf) + 1
        BY <2>3, <4>2, <4>3 DEF page
      <4>4. CASE x[2] # Len(buf) + 1
        <5>1. x[2] \in 1..Len(buf)
          BY <2>2, <2>3, <3>2, <4>2, <4>4 DEF PageNumbers
        <5>2. buf[x[2]] # baseline.entries[cur][2][x[2]]
          BY <1>1, <3>2, <5>1 DEF VerifyInv
        <5> QED BY <2>3, <5>1, <5>2
      <4> QED BY <4>3, <4>4
    <3> QED BY <1>1, <1>2, <2>1, <2>5, <3>1, <3>2 DEF VerifyInv, Verifiable
  <2> QED BY <1>3, <2>4, <2>6, <2>7 DEF IntegrityInv
<1> QED BY <1>4, <1>5 DEF Reads

(* IntegrityBaseline::create (integrity_baseline.cpp:104-135).             *)
LEMMA CreateKeeps ==
  ASSUME IntegrityInv, Creates
  PROVE  IntegrityInv'
<1>1. TypeOK /\ CreateInv /\ BaselineInv /\ VerifyInv /\ ReportInv
  BY DEF IntegrityInv
<1>2. UNCHANGED <<memory, exited, changes>>
  BY DEF Creates, CreateBegin, CreateOfNothing, CreateRecords, CreateOmits, CreateEnd, target
<1>3. CASE CreateBegin
  <2>1. /\ op' = "create" /\ algorithm' \in Algorithms /\ todo' \in SUBSET Sections
        /\ entries' = NoEntries /\ touchedNew' = {} /\ ~exited
        /\ UNCHANGED <<cur, buf, baseline, report, touched, steady>>
        /\ op = "idle"
    BY <1>3 DEF CreateBegin, Enumerated, Page
  <2>2. DOMAIN entries' = {}
    BY <2>1 DEF NoEntries
  <2>3. TypeOK'
    BY <1>1, <1>2, <2>1, <2>2 DEF TypeOK, Digests
  <2>4. CreateInv'
    BY <1>1, <1>2, <2>1, <2>2 DEF CreateInv, TypeOK
  <2> QED BY <1>1, <1>2, <2>1, <2>3, <2>4
       DEF IntegrityInv, BaselineInv, VerifyInv, ReportInv, Complete, Current, Page
<1>4. CASE CreateOfNothing
  <2>1. PICK a \in Algorithms : baseline' = [algorithm |-> a, entries |-> NoEntries]
    BY <1>4 DEF CreateOfNothing
  <2>2. baseline'.algorithm \in Algorithms /\ DOMAIN baseline'.entries = {}
    BY <2>1 DEF NoEntries
  <2>3. /\ op = "idle" /\ touched' = {} /\ report' = NoReport /\ steady' = {}
        /\ UNCHANGED <<op, algorithm, todo, cur, buf, entries, touchedNew>>
    BY <1>4 DEF CreateOfNothing, reading
  <2>4. TypeOK'
    BY <1>1, <1>2, <2>2, <2>3 DEF TypeOK, Digests, NoReport
  <2>5. CreateInv' /\ BaselineInv' /\ VerifyInv' /\ ReportInv'
    BY <1>1, <1>2, <2>2, <2>3 DEF CreateInv, BaselineInv, VerifyInv, ReportInv, NoReport
  <2> QED BY <2>4, <2>5 DEF IntegrityInv
<1>5. CASE CreateRecords
  <2>1. /\ op = "create" /\ cur \in Sections /\ ReadOver /\ cur' = None
        /\ entries' = [s \in DOMAIN entries \union {cur} |->
                         IF s = cur THEN Digest(algorithm, buf) ELSE entries[s]]
        /\ UNCHANGED <<op, algorithm, todo, buf, baseline, report, touched, touchedNew, steady>>
    BY <1>1, <1>5 DEF CreateRecords, ReadSucceeds, ReadOver, history, TypeOK
  <2>2. /\ DOMAIN entries' = DOMAIN entries \union {cur}
        /\ entries'[cur] = Digest(algorithm, buf) /\ entries'[cur][2] = buf
        /\ \A s \in DOMAIN entries' \ {cur} : entries'[s] = entries[s]
    BY <2>1 DEF Digest
  <2>3. Digests(entries', algorithm')
    BY <1>1, <2>1, <2>2 DEF TypeOK, Digests
  <2>4. TypeOK'
    BY <1>1, <1>2, <2>1, <2>3 DEF TypeOK
  <2>5. \A s \in DOMAIN entries' \ touchedNew : Complete(s, entries'[s][2])
    BY <1>1, <2>1, <2>2 DEF CreateInv, Complete, ReadOver, TypeOK
  <2>6. CreateInv'
    <3>1. ASSUME NEW s \in DOMAIN entries' \ touchedNew'
          PROVE  Complete(s, entries[s][2])'
      <4>1. Complete(s, entries'[s][2])
        BY <2>1, <2>5
      <4> QED BY <1>2, <4>1 DEF Complete, Current, Page
    <3> QED BY <1>1, <1>2, <2>1, <3>1 DEF CreateInv
  <2>7. BaselineInv' /\ VerifyInv' /\ ReportInv'
    BY <1>1, <1>2, <2>1 DEF BaselineInv, VerifyInv, ReportInv, Complete, Current, Page
  <2> QED BY <2>4, <2>6, <2>7 DEF IntegrityInv
<1>6. CASE CreateOmits
  BY <1>1, <1>2, <1>6 DEF CreateOmits, history, IntegrityInv, TypeOK, CreateInv, BaselineInv,
     VerifyInv, ReportInv, Complete, Current, Page
<1>7. CASE CreateEnd
  <2>1. /\ op = "create" /\ op' = "idle" /\ cur = None
        /\ UNCHANGED <<algorithm, todo, cur, buf, entries, touchedNew>>
    BY <1>7 DEF CreateEnd, reading
  <2>2. CASE /\ baseline' = [algorithm |-> algorithm, entries |-> entries]
             /\ touched' = touchedNew /\ report' = NoReport /\ steady' = {}
    <3>1. baseline'.algorithm = algorithm /\ baseline'.entries = entries
      BY <2>2
    <3>2. TypeOK'
      BY <1>1, <1>2, <2>1, <2>2, <3>1 DEF TypeOK, NoReport
    <3>3. BaselineInv'
      BY <1>1, <1>2, <2>1, <2>2, <3>1 DEF BaselineInv, CreateInv, Complete, Current, Page
    <3> QED BY <1>1, <1>2, <2>1, <2>2, <3>2, <3>3
         DEF IntegrityInv, CreateInv, VerifyInv, ReportInv, NoReport
  <2>3. CASE UNCHANGED <<baseline, touched, report, steady>>
    BY <1>1, <1>2, <2>1, <2>3 DEF IntegrityInv, TypeOK, CreateInv, BaselineInv, VerifyInv,
       ReportInv, Complete, Current, Page
  <2> QED BY <1>7, <2>2, <2>3 DEF CreateEnd
<1> QED BY <1>3, <1>4, <1>5, <1>6, <1>7 DEF Creates

(* IntegrityChecker::verify (integrity_checker.cpp:11-44).                 *)
LEMMA VerifyKeeps ==
  ASSUME IntegrityInv, Verifies
  PROVE  IntegrityInv'
<1>1. TypeOK /\ CreateInv /\ BaselineInv /\ VerifyInv /\ ReportInv
  BY DEF IntegrityInv
<1>2. UNCHANGED <<memory, exited, changes, algorithm, entries, baseline, touched, touchedNew>>
  BY DEF Verifies, VerifyBegin, VerifyRefuses, VerifyCompares, VerifyCannotRead, VerifyEnd,
     target, history
<1>3. op # "create" /\ op' # "create" /\ CreateInv' /\ BaselineInv'
  <2>1. op # "create" /\ op' # "create"
    BY DEF Verifies, VerifyBegin, VerifyRefuses, VerifyCompares, VerifyCannotRead, VerifyEnd
  <2> QED BY <1>1, <1>2, <2>1 DEF CreateInv, BaselineInv, Complete, Current, Page
<1>4. AtOdds(baseline)' = AtOdds(baseline)
  BY <1>2 DEF AtOdds, Page
<1>5. CASE VerifyBegin
  <2>1. /\ op = "idle" /\ Verifiable /\ op' = "verify" /\ cur' = cur /\ buf' = buf
        /\ todo' = DOMAIN baseline.entries /\ report' = NoReport /\ steady' = AtOdds(baseline)
        /\ cur = None
    BY <1>1, <1>5 DEF VerifyBegin, TypeOK
  <2>2. DOMAIN baseline.entries \in SUBSET Sections
    BY <1>1, <2>1 DEF TypeOK, Digests, Verifiable
  <2>3. ASSUME NEW x \in AtOdds(baseline)
        PROVE  x[1] \in DOMAIN baseline.entries /\ x \in Sections \X PageNumbers
    BY <2>2 DEF AtOdds
  <2>4. steady' \in SUBSET (Sections \X PageNumbers)
    BY <2>1, <2>3
  <2>5. report' \in [tampered: SUBSET Sections, unreadable: SUBSET Sections]
    BY <2>1 DEF NoReport
  <2>6. TypeOK'
    BY <1>1, <1>2, <2>1, <2>2, <2>4, <2>5 DEF TypeOK, Digests
  <2>7. \A x \in steady' : x[1] \in todo'
    BY <2>1, <2>3
  <2>8. VerifyInv'
    BY <1>2, <1>4, <2>1, <2>7 DEF VerifyInv, Verifiable
  <2>9. ReportInv'
    BY <2>1 DEF ReportInv, NoReport
  <2> QED BY <1>3, <2>9, <2>6, <2>8 DEF IntegrityInv
<1>6. CASE VerifyRefuses
  <2>1. /\ op = "idle" /\ UNCHANGED <<op, todo, cur, buf>>
        /\ report' = NoReport /\ steady' = {}
    BY <1>6 DEF VerifyRefuses, reading
  <2> QED BY <1>1, <1>2, <1>3, <2>1 DEF IntegrityInv, TypeOK, Digests, VerifyInv, ReportInv, NoReport
<1>7. CASE VerifyCompares
  <2>1. /\ op = "verify" /\ cur \in Sections /\ ReadOver /\ cur' = None
        /\ report' = [report EXCEPT !.tampered = @ \union
             {s \in {cur} : baseline.entries[s] # Digest(Checker, buf)}]
        /\ UNCHANGED <<op, todo, buf, steady>>
    BY <1>1, <1>7 DEF VerifyCompares, ReadSucceeds, ReadOver, history, TypeOK
  <2> DEFINE bytes == baseline.entries[cur][2]
  <2>2. /\ Verifiable /\ cur \in DOMAIN baseline.entries
        /\ bytes \in Seq(Bytes) /\ baseline.entries[cur] = <<Checker, bytes>>
        /\ buf \in Seq(Bytes)
    BY <1>1, <2>1 DEF VerifyInv, Verifiable, TypeOK, Digests, Digest
  <2>3. /\ report'.unreadable = report.unreadable
        /\ report'.tampered = report.tampered \union (IF bytes # buf THEN {cur} ELSE {})
        /\ report' \in [tampered: SUBSET Sections, unreadable: SUBSET Sections]
    BY <1>1, <2>1, <2>2 DEF Digest, TypeOK
  <2>4. TypeOK'
    BY <1>1, <1>2, <2>1, <2>3 DEF TypeOK, Digests
  <2>5. ASSUME cur \notin touched
        PROVE  bytes = buf
    <3>1. Complete(cur, bytes)
      BY <1>1, <2>2, <2>5 DEF BaselineInv, Verifiable
    <3>2. Complete(cur, buf)
      BY <1>1, <2>1, <2>5 DEF VerifyInv, Complete, ReadOver, TypeOK
    <3> QED BY <1>1, <2>1, <2>2, <3>1, <3>2, CompleteReadsAgree
  <2>6. ReportInv'
    BY <1>1, <1>2, <2>1, <2>3, <2>5 DEF ReportInv
  <2>7. ASSUME NEW x \in steady, x[1] = cur,
               cur \notin todo \union report.tampered \union report.unreadable
        PROVE  bytes # buf
    <3>1. x \in AtOdds(baseline)
      BY <1>1, <2>1 DEF VerifyInv
    <3>2. x[2] <= Len(bytes)
      BY <2>7, <3>1 DEF AtOdds
    <3>3. x[2] <= Len(buf) => buf[x[2]] # bytes[x[2]]
      BY <1>1, <2>1, <2>7 DEF VerifyInv
    <3> QED BY <3>2, <3>3
  <2>8. VerifyInv'
    BY <1>1, <1>2, <1>4, <2>1, <2>3, <2>7 DEF VerifyInv, Verifiable
  <2> QED BY <1>3, <2>4, <2>6, <2>8 DEF IntegrityInv
<1>8. CASE VerifyCannotRead
  <2>1. /\ op = "verify" /\ cur \in Sections /\ cur' = None
        /\ report' = [report EXCEPT !.unreadable = @ \union {cur}]
        /\ UNCHANGED <<op, todo, buf, steady>>
    BY <1>1, <1>8 DEF VerifyCannotRead, ReadFails, ReadOver, history, TypeOK
  <2>2. /\ report'.unreadable = report.unreadable \union {cur}
        /\ report'.tampered = report.tampered
        /\ report' \in [tampered: SUBSET Sections, unreadable: SUBSET Sections]
    BY <1>1, <2>1 DEF TypeOK
  <2>3. TypeOK' /\ ReportInv'
    BY <1>1, <1>2, <2>1, <2>2 DEF TypeOK, Digests, ReportInv
  <2>4. VerifyInv'
    BY <1>1, <1>2, <1>4, <2>1, <2>2 DEF VerifyInv, Verifiable
  <2> QED BY <1>3, <2>3, <2>4 DEF IntegrityInv
<1>9. CASE VerifyEnd
  <2>1. /\ op = "verify" /\ op' = "idle" /\ cur = None /\ todo = {}
        /\ UNCHANGED <<todo, cur, buf, report, steady>>
    BY <1>9 DEF VerifyEnd, reading, history
  <2>2. \A x \in steady : x[1] # None
    BY <1>1 DEF TypeOK
  <2>3. ReportInv'
    BY <1>1, <1>2, <2>1, <2>2 DEF ReportInv, VerifyInv
  <2>4. TypeOK' /\ VerifyInv'
    BY <1>1, <1>2, <2>1 DEF TypeOK, Digests, VerifyInv
  <2> QED BY <1>3, <2>3, <2>4 DEF IntegrityInv
<1> QED BY <1>5, <1>6, <1>7, <1>8, <1>9 DEF Verifies

(* Every step of the target, of create() and of verify() preserves what    *)
(* the two operations rely on (integrity_baseline.cpp:104-135,             *)
(* integrity_checker.cpp:11-44).                                           *)
THEOREM IntegrityInvariant == Spec => []IntegrityInv
<1>1. ASSUME IntegrityInv, [Next]_vars
      PROVE  IntegrityInv'
  <2>1. CASE UNCHANGED vars
    <3>1. UNCHANGED <<memory, exited, changes, op, algorithm, todo, cur, buf, entries,
                      baseline, report, touched, touchedNew, steady>>
      BY <2>1 DEF vars, target, reading, history
    <3>2. AtOdds(baseline)' = AtOdds(baseline)
      BY <3>1 DEF AtOdds, Page
    <3> QED BY <1>1, <3>1, <3>2 DEF IntegrityInv, TypeOK, Digests, CreateInv, BaselineInv,
         VerifyInv, Verifiable, ReportInv, Complete, Current, Page
  <2>2. CASE Targets
    BY <1>1, <2>2, TargetTouches, TargetKeeps DEF IntegrityInv
  <2>3. CASE Reads
    BY <1>1, <2>3, ReadKeeps
  <2>4. CASE Creates
    BY <1>1, <2>4, CreateKeeps
  <2>5. CASE Verifies
    BY <1>1, <2>5, VerifyKeeps
  <2> QED BY <1>1, <2>1, <2>2, <2>3, <2>4, <2>5 DEF Next
<1> QED BY <1>1, IntegrityInit, PTL DEF Spec

(* A process left alone never raises an alarm, whatever happens to the     *)
(* others of its sections (integrity_checker.cpp:29-41).                   *)
THEOREM NoFalseAlarm == Spec => []AlarmIsReal
<1>1. IntegrityInv => AlarmIsReal
  BY DEF IntegrityInv, ReportInv, AlarmIsReal
<1> QED BY <1>1, IntegrityInvariant, PTL

(* A page that differs from the baseline throughout a verification never   *)
(* goes unnoticed (integrity_checker.cpp:22-41).                           *)
THEOREM NoTamperMissed == Spec => []SteadyTamperIsFound
<1>1. IntegrityInv => SteadyTamperIsFound
  BY DEF IntegrityInv, ReportInv, SteadyTamperIsFound
<1> QED BY <1>1, IntegrityInvariant, PTL
=============================================================================
