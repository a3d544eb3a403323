----------------------------- MODULE CoreProofs -----------------------------
(***************************************************************************)
(* The core classes that keep what they have promised over several steps:  *)
(* the sink of the logger, the slots of a signal, the polls of the module  *)
(* monitor.                                                                *)
(***************************************************************************)
EXTENDS LogSink, SignalSlots, ModuleMonitor, InductionLemmas, SequenceTheorems

(***************************************************************************)
(* LogSink.                                                                *)
(***************************************************************************)
USE LogAssumption

(* What holds between any two steps: a thread inside write() holds the     *)
(* mutex, so that neither the sink nor the level can change under it, and  *)
(* the sink installed has not been destroyed.                              *)
WriterHolds(t) ==
  record[t].stage = "writing" =>
    /\ mutex = t
    /\ record[t].to = sink /\ sink # NoSink
    /\ record[t].level >= minLevel

LogInv ==
  /\ LogTypeOK
  /\ sink \in alive \union {NoSink}
  /\ \A t \in Writers : WriterHolds(t)

(* A thread that logs nothing has a well-formed record.                    *)
LEMMA NoRecordIsRecord == NoRecord \in Record
BY DEF NoRecord, Record

(* Every step of the logger keeps the types.                               *)
LEMMA LogTypes == LogTypeOK /\ [LogNext]_logVars => LogTypeOK'
<1> SUFFICES ASSUME LogTypeOK, [LogNext]_logVars PROVE LogTypeOK'
  OBVIOUS
<1> USE DEF LogTypeOK
<1>1. ASSUME NEW t \in Writers, NEW level \in Levels, LogCalled(t, level) PROVE LogTypeOK'
  BY <1>1 DEF LogCalled, Record
<1>2. ASSUME NEW t \in Writers, LogSkips(t) PROVE LogTypeOK'
  BY <1>2, NoRecordIsRecord DEF LogSkips
<1>3. ASSUME NEW t \in Writers, LogWrites(t) PROVE LogTypeOK'
  BY <1>3 DEF LogWrites, Record
<1>4. ASSUME NEW t \in Writers, WriteReturns(t) PROVE LogTypeOK'
  BY <1>4, NoRecordIsRecord DEF WriteReturns
<1>5. ASSUME NEW s \in Sinks \union {NoSink}, SetSink(s) PROVE LogTypeOK'
  BY <1>5 DEF SetSink
<1>6. ASSUME NEW level \in Levels, SetMinLevel(level) PROVE LogTypeOK'
  BY <1>6 DEF SetMinLevel
<1>7. CASE UNCHANGED logVars
  BY <1>7 DEF logVars
<1>8. QED
  BY <1>1, <1>2, <1>3, <1>4, <1>5, <1>6, <1>7 DEF LogNext, LogStep

(* Every step keeps what a writing thread holds: only the holder of the    *)
(* mutex releases it, and the sink and the level change only while it is   *)
(* free.                                                                   *)
LEMMA LogStepInv == LogInv /\ [LogNext]_logVars => LogInv'
<1> SUFFICES ASSUME LogInv, [LogNext]_logVars PROVE LogInv'
  OBVIOUS
<1>0. LogTypeOK' /\ LogTypeOK
  BY LogTypes DEF LogInv
<1> SUFFICES sink' \in alive' \union {NoSink} /\ \A u \in Writers : WriterHolds(u)'
  BY <1>0 DEF LogInv
<1> USE DEF LogInv, WriterHolds
<1>1. ASSUME NEW t \in Writers, NEW level \in Levels, LogCalled(t, level)
      PROVE  sink' \in alive' \union {NoSink} /\ \A u \in Writers : WriterHolds(u)'
  BY <1>0, <1>1 DEF LogCalled, LogTypeOK, Record
<1>2. ASSUME NEW t \in Writers, LogSkips(t)
      PROVE  sink' \in alive' \union {NoSink} /\ \A u \in Writers : WriterHolds(u)'
  BY <1>0, <1>2 DEF LogSkips, NoRecord, LogTypeOK, Record
<1>3. ASSUME NEW t \in Writers, LogWrites(t)
      PROVE  sink' \in alive' \union {NoSink} /\ \A u \in Writers : WriterHolds(u)'
  BY <1>0, <1>3 DEF LogWrites, LogTypeOK, Record
<1>4. ASSUME NEW t \in Writers, WriteReturns(t)
      PROVE  sink' \in alive' \union {NoSink} /\ \A u \in Writers : WriterHolds(u)'
  BY <1>0, <1>4 DEF WriteReturns, NoRecord, LogTypeOK, Record
<1>5. ASSUME NEW s \in Sinks \union {NoSink}, SetSink(s)
      PROVE  sink' \in alive' \union {NoSink} /\ \A u \in Writers : WriterHolds(u)'
  BY <1>0, <1>5 DEF SetSink, LogTypeOK
<1>6. ASSUME NEW level \in Levels, SetMinLevel(level)
      PROVE  sink' \in alive' \union {NoSink} /\ \A u \in Writers : WriterHolds(u)'
  BY <1>0, <1>6 DEF SetMinLevel, LogTypeOK
<1>7. CASE UNCHANGED logVars
  BY <1>7 DEF logVars
<1>8. QED
  BY <1>1, <1>2, <1>3, <1>4, <1>5, <1>6, <1>7 DEF LogNext, LogStep

(* A sink is neither destroyed nor replaced while a thread is inside its   *)
(* write(), no two threads are inside at once, and no record below the     *)
(* minimum level is being written.                                         *)
THEOREM SinkIsSafe == LogSpec => []SinkOutlivesWrite
<1>1. LogInit => LogInv
  BY NoRecordIsRecord DEF LogInit, LogInv, LogTypeOK, WriterHolds, NoRecord
<1>2. LogInv => SinkOutlivesWrite
  BY DEF LogInv, WriterHolds, SinkOutlivesWrite
<1>3. QED
  BY <1>1, <1>2, LogStepInv, PTL DEF LogSpec

-----------------------------------------------------------------------------
(***************************************************************************)
(* SignalSlots.                                                            *)
(***************************************************************************)
HIDE LogAssumption
USE SignalAssumption

Increasing(s) == \A i, j \in DOMAIN s : i < j => s[i] < s[j]

(* The erasure loop computes a value, its type known.                      *)
KeptUpTo(f, s, ids) ==
  /\ f \in [0..Len(s) -> Seq(Ids)]
  /\ f[0] = <<>>
  /\ \A i \in 1..Len(s) :
       f[i] = IF s[i] \in ids THEN f[i - 1] ELSE Append(f[i - 1], s[i])

LEMMA WithoutDef ==
  ASSUME NEW s \in Seq(Ids), NEW ids
  PROVE  \E f : KeptUpTo(f, s, ids) /\ Without(s, ids) = f[Len(s)]
<1> DEFINE n == Len(s)
           Body(f) == [i \in 0..n |-> IF i = 0 THEN <<>>
                                      ELSE IF s[i] \in ids THEN f[i - 1]
                                           ELSE Append(f[i - 1], s[i])]
           step == [p \in Nat \X Seq(Ids) |->
                      IF p[1] \in 1..n /\ s[p[1]] \notin ids
                      THEN Append(p[2], s[p[1]]) ELSE p[2]]
<1>1. n \in Nat /\ <<>> \in Seq(Ids)
  OBVIOUS
<1>2. \A p \in Nat \X Seq(Ids) : step[p] \in Seq(Ids)
  OBVIOUS
<1>3. step \in [Nat \X Seq(Ids) -> Seq(Ids)]
  <2>1. step = [p \in Nat \X Seq(Ids) |-> step[p]]
    OBVIOUS
  <2> HIDE DEF step
  <2>2. QED
    BY <1>2, <2>1
<1>4. PICK g : Computes(g, n, Seq(Ids), <<>>, step)
  <2> HIDE DEF step, n
  <2>1. QED
    BY <1>1, <1>3, Recursion
<1>5. g = Body(g)
  <2>0. g \in [0..n -> Seq(Ids)]
    BY <1>4 DEF Computes
  <2>1. ASSUME NEW i \in 1..n
        PROVE  step[<<i, g[i - 1]>>] = IF s[i] \in ids THEN g[i - 1] ELSE Append(g[i - 1], s[i])
    <3>1. g[i - 1] \in Seq(Ids) /\ i \in Nat
      BY <1>1, <2>0
    <3>2. QED
      BY <3>1
  <2>2. \A i \in 0..n : i # 0 => i \in 1..n
    OBVIOUS
  <2> HIDE DEF step, n
  <2>3. QED
    BY <1>4, <2>1, <2>2 DEF Computes
<1> DEFINE f == CHOOSE f : f = Body(f)
<1>6. f = Body(f)
  <2> HIDE DEF Body
  <2>1. QED
    BY <1>5
<1>7. Without(s, ids) = f[n]
  BY DEF Without
<1> HIDE DEF f
<1>8. f[0] = <<>>
  BY <1>1, <1>6
<1>9. ASSUME NEW i \in 1..n
      PROVE  f[i] = IF s[i] \in ids THEN f[i - 1] ELSE Append(f[i - 1], s[i])
  <2>1. i \in 0..n /\ i # 0
    BY <1>1
  <2>2. f[i] = Body(f)[i]
    <3> HIDE DEF Body, n
    <3>1. QED
      BY <1>6
  <2>3. QED
    BY <2>1, <2>2
<1>10. f \in [0..n -> Seq(Ids)]
  <2> DEFINE P == {k \in Nat : k <= n => f[k] \in Seq(Ids)}
  <2>1. 0 \in P
    BY <1>1, <1>8
  <2>2. ASSUME NEW k \in Nat, k \in P PROVE k + 1 \in P
    <3>1. SUFFICES ASSUME k + 1 <= n PROVE f[k + 1] \in Seq(Ids)
      OBVIOUS
    <3>2. f[k] \in Seq(Ids) /\ k + 1 \in 1..n /\ k + 1 - 1 = k /\ s[k + 1] \in Ids
      BY <1>1, <2>2, <3>1
    <3> HIDE DEF n
    <3>3. f[k + 1] = IF s[k + 1] \in ids THEN f[k + 1 - 1] ELSE Append(f[k + 1 - 1], s[k + 1])
      BY <1>9, <3>2
    <3>4. Append(f[k], s[k + 1]) \in Seq(Ids)
      BY <3>2
    <3>5. QED
      BY <3>2, <3>3, <3>4
  <2>3. \A k \in Nat : k \in P
    <3> HIDE DEF P
    <3>1. QED
      BY <2>1, <2>2, Induction
  <2>4. \A k \in 0..n : f[k] \in Seq(Ids)
    BY <1>1, <2>3
  <2>5. f = [i \in 0..n |-> f[i]]
    BY <1>6
  <2>6. QED
    BY <2>4, <2>5
<1>11. QED
  BY <1>7, <1>8, <1>9, <1>10 DEF KeptUpTo

(* What the erasure leaves: the other listeners, still in order.           *)
LEMMA WithoutKeepsOthers ==
  ASSUME NEW s \in Seq(Ids), NEW ids, Increasing(s)
  PROVE  /\ Without(s, ids) \in Seq(Ids)
         /\ Increasing(Without(s, ids))
         /\ Elements(Without(s, ids)) = Elements(s) \ ids
<1>0. PICK f : KeptUpTo(f, s, ids) /\ Without(s, ids) = f[Len(s)]
  BY WithoutDef
<1>1. /\ f \in [0..Len(s) -> Seq(Ids)] /\ f[0] = <<>>
      /\ \A i \in 1..Len(s) :
           f[i] = IF s[i] \in ids THEN f[i - 1] ELSE Append(f[i - 1], s[i])
      /\ Without(s, ids) = f[Len(s)]
  BY <1>0 DEF KeptUpTo
<1> DEFINE Upto(k) == {s[i] : i \in 1..k} \ ids
           Good(k) == Increasing(f[k]) /\ Elements(f[k]) = Upto(k)
           P == {k \in Nat : k <= Len(s) => Good(k)}
<1>2. 0 \in P
  BY <1>1 DEF Increasing, Elements
<1>3. ASSUME NEW k \in Nat, k \in P PROVE k + 1 \in P
  <2>1. SUFFICES ASSUME k + 1 <= Len(s) PROVE Good(k + 1)
    OBVIOUS
  <2>2. Good(k) /\ f[k] \in Seq(Ids) /\ k + 1 \in 1..Len(s) /\ k + 1 - 1 = k
    <3>1. Len(s) \in Nat /\ k <= Len(s) /\ k \in 0..Len(s)
      BY <2>1
    <3> HIDE DEF Good
    <3>2. QED
      BY <1>1, <1>3, <2>1, <3>1
  <2>3. f[k + 1] = IF s[k + 1] \in ids THEN f[k] ELSE Append(f[k], s[k + 1])
    BY <1>1, <2>2
  <2>4. {s[i] : i \in 1..(k + 1)} = {s[i] : i \in 1..k} \union {s[k + 1]}
    BY <2>2
  <2>5. CASE s[k + 1] \in ids
    BY <2>2, <2>3, <2>4, <2>5
  <2>6. CASE s[k + 1] \notin ids
    <3> DEFINE q == f[k]
               e == s[k + 1]
               a == Append(q, e)
    <3>1. q \in Seq(Ids) /\ e \in Ids /\ f[k + 1] = a
      BY <2>2, <2>3, <2>6
    <3>2. \A i \in DOMAIN q : q[i] < e
      <4>1. ASSUME NEW i \in DOMAIN q PROVE q[i] < e
        <5>1. q[i] \in Elements(q)
          BY DEF Elements
        <5>2. PICK j \in 1..k : q[i] = s[j]
          BY <2>2, <5>1
        <5>3. j \in DOMAIN s /\ k + 1 \in DOMAIN s /\ j < k + 1
          BY <2>2
        <5>4. QED
          BY <5>2, <5>3 DEF Increasing
      <4>2. QED
        BY <4>1
    <3> HIDE DEF q, e
    <3>3. /\ Len(a) = Len(q) + 1 /\ a[Len(q) + 1] = e /\ DOMAIN a = 1..(Len(q) + 1)
          /\ \A i \in 1..Len(q) : a[i] = q[i]
      BY <3>1
    <3>4. Increasing(q) /\ DOMAIN q = 1..Len(q) /\ Len(q) \in Nat
      BY <2>2, <3>1 DEF q
    <3> HIDE DEF a
    <3>5. Increasing(a)
      BY <3>2, <3>3, <3>4 DEF Increasing
    <3>6. Elements(a) = Elements(q) \union {e}
      BY <3>3, <3>4 DEF Elements
    <3>7. Elements(q) = Upto(k)
      BY <2>2 DEF q
    <3>8. QED
      BY <2>4, <2>6, <3>1, <3>5, <3>6, <3>7 DEF e
  <2>7. QED
    BY <2>5, <2>6
<1>4. \A k \in Nat : k \in P
  <2> HIDE DEF P
  <2>1. QED
    BY <1>2, <1>3, Induction
<1>5. Len(s) \in P /\ Len(s) \in Nat /\ Len(s) \in 0..Len(s) /\ Len(s) <= Len(s)
  <2> HIDE DEF P
  <2>1. QED
    BY <1>4
<1>6. Good(Len(s)) /\ f[Len(s)] \in Seq(Ids)
  <2> HIDE DEF Good
  <2>1. QED
    BY <1>1, <1>5
<1>7. {s[i] : i \in 1..Len(s)} = Elements(s)
  BY DEF Elements
<1>8. QED
  BY <1>1, <1>6, <1>7

-----------------------------------------------------------------------------
(* The vector holds identities that were handed out, in their order; the   *)
(* lock keeps it as it was when an emission began until it is copied; and  *)
(* what an emission has called and what it has still to call make up, in   *)
(* order, the copy: nobody who had left, everybody who stayed.             *)
Ordered(t) ==
  /\ Increasing(heard[t]) /\ Increasing(snapshot[t])
  /\ \A x \in Elements(heard[t]), y \in Elements(snapshot[t]) : x < y

Covered(t) ==
  /\ (Elements(heard[t]) \union Elements(snapshot[t])) \intersect left[t] = {}
  /\ stayed[t] \subseteq Elements(heard[t]) \union Elements(snapshot[t])

Emitting(t) == emission[t] \notin {"idle", "locked"}

EmissionInv(t) ==
  /\ emission[t] = "locked" =>
       /\ holder = t /\ heard[t] = <<>>
       /\ Elements(listeners) \intersect left[t] = {}
       /\ stayed[t] \subseteq Elements(listeners)
  /\ Emitting(t) => Ordered(t) /\ Covered(t)

SignalInv ==
  /\ SignalTypeOK
  /\ Increasing(listeners)
  /\ \A x \in Elements(listeners) : x < nextId
  /\ \A t \in Emitters : EmissionInv(t)

LEMMA AppendKeepsOrder ==
  ASSUME NEW s \in Seq(Ids), NEW e \in Ids, Increasing(s), \A x \in Elements(s) : x < e
  PROVE  /\ Append(s, e) \in Seq(Ids) /\ Increasing(Append(s, e))
         /\ Elements(Append(s, e)) = Elements(s) \union {e}
<1> DEFINE a == Append(s, e)
<1>1. /\ a \in Seq(Ids) /\ DOMAIN a = 1..(Len(s) + 1) /\ a[Len(s) + 1] = e
      /\ \A i \in 1..Len(s) : a[i] = s[i]
      /\ DOMAIN s = 1..Len(s) /\ Len(s) \in Nat
  OBVIOUS
<1>2. \A i \in 1..Len(s) : s[i] < e
  BY <1>1 DEF Elements
<1> HIDE DEF a
<1>3. Increasing(a)
  BY <1>1, <1>2 DEF Increasing
<1>4. Elements(a) = Elements(s) \union {e}
  BY <1>1 DEF Elements
<1>5. QED
  BY <1>1, <1>3, <1>4 DEF a

LEMMA TailKeepsOrder ==
  ASSUME NEW s \in Seq(Ids), s # <<>>, Increasing(s)
  PROVE  /\ Tail(s) \in Seq(Ids) /\ Increasing(Tail(s)) /\ Head(s) \in Ids
         /\ Elements(s) = Elements(Tail(s)) \union {Head(s)}
         /\ \A x \in Elements(Tail(s)) : Head(s) < x
<1> DEFINE r == Tail(s)
           n == Len(s)
<1>1. /\ r \in Seq(Ids) /\ n \in Nat /\ n >= 1 /\ DOMAIN r = 1..(n - 1) /\ DOMAIN s = 1..n
      /\ \A i \in 1..(n - 1) : r[i] = s[i + 1]
      /\ Head(s) = s[1] /\ s[1] \in Ids
  OBVIOUS
<1> HIDE DEF r, n
<1>2. ASSUME NEW i \in DOMAIN r, NEW j \in DOMAIN r, i < j PROVE r[i] < r[j]
  <2>1. r[i] = s[i + 1] /\ r[j] = s[j + 1] /\ i + 1 \in 1..n /\ j + 1 \in 1..n /\ i + 1 < j + 1
    BY <1>1, <1>2
  <2>2. QED
    BY <1>1, <2>1 DEF Increasing
<1>3. ASSUME NEW x \in Elements(s) PROVE x \in Elements(r) \union {Head(s)}
  <2>1. PICK i \in 1..n : x = s[i]
    BY <1>1 DEF Elements
  <2>2. CASE i = 1
    BY <1>1, <2>1, <2>2
  <2>3. CASE i # 1
    <3>1. i - 1 \in 1..(n - 1) /\ r[i - 1] = s[i]
      BY <1>1, <2>3
    <3>2. QED
      BY <1>1, <2>1, <3>1 DEF Elements
  <2>4. QED
    BY <2>2, <2>3
<1>4. ASSUME NEW x \in Elements(r) PROVE x \in Elements(s) /\ Head(s) < x
  <2>1. PICK i \in 1..(n - 1) : x = r[i]
    BY <1>1 DEF Elements
  <2>2. x = s[i + 1] /\ i + 1 \in 1..n /\ 1 \in 1..n /\ 1 < i + 1
    BY <1>1, <2>1
  <2>3. QED
    BY <1>1, <2>2 DEF Elements, Increasing
<1>5. Head(s) \in Elements(s)
  BY <1>1 DEF Elements
<1>6. QED
  BY <1>1, <1>2, <1>3, <1>4, <1>5 DEF r, Increasing

(* Steps under the lock, or that leave the list alone: an emission's own   *)
(* state is kept when it is not the one that steps.                        *)
LEMMA OtherEmissions ==
  ASSUME SignalTypeOK, NEW t \in Emitters, EmissionInv(t),
         emission'[t] = emission[t], heard'[t] = heard[t], snapshot'[t] = snapshot[t],
         left'[t] = left[t], stayed'[t] \subseteq stayed[t],
         emission[t] = "locked" => UNCHANGED <<listeners, holder>>
  PROVE  EmissionInv(t)'
BY DEF EmissionInv, Emitting, Ordered, Covered, Increasing, Elements

(* connect() and its like: their caller is idle or runs a listener.        *)
LEMMA BriefLocks ==
  ASSUME SignalInv, NEW u \in Emitters, LocksBriefly(u),
         \A t \in Emitters : stayed'[t] \subseteq stayed[t]
  PROVE  \A t \in Emitters : EmissionInv(t)'
<1> SUFFICES ASSUME NEW t \in Emitters PROVE EmissionInv(t)'
  OBVIOUS
<1>1. /\ holder = NoEmitter /\ emission[u] \in {"idle", "waiting"} /\ UNCHANGED holder
      /\ emission' = [emission EXCEPT ![u] = IF @ = "waiting" THEN "returning" ELSE "idle"]
      /\ UNCHANGED <<snapshot, heard, left>>
  BY DEF LocksBriefly
<1>2. EmissionInv(t) /\ emission[t] # "locked"
  BY <1>1, SignalAssumption DEF SignalInv, EmissionInv
<1>3. CASE t # u
  <2>1. emission'[t] = emission[t]
    BY <1>1, <1>3 DEF SignalInv, SignalTypeOK
  <2>2. QED
    BY <1>1, <1>2, <2>1, OtherEmissions DEF SignalInv
<1>4. CASE t = u
  <2>1. \/ emission'[t] = "idle"
        \/ emission'[t] = "returning" /\ emission[t] = "waiting"
    BY <1>1, <1>4 DEF SignalInv, SignalTypeOK
  <2>2. emission'[t] = "returning" => Ordered(t) /\ Covered(t)
    BY <1>2, <2>1 DEF EmissionInv, Emitting
  <2>3. Ordered(t) /\ Covered(t) => Ordered(t)' /\ Covered(t)'
    BY <1>1 DEF Ordered, Covered, Increasing, Elements
  <2>4. QED
    BY <2>1, <2>2, <2>3 DEF EmissionInv, Emitting
<1>5. QED
  BY <1>3, <1>4

(* Every step keeps the types.                                             *)
LEMMA SignalTypes == SignalInv /\ [SignalNext]_sigVars => SignalTypeOK'
<1> SUFFICES ASSUME SignalInv, [SignalNext]_sigVars PROVE SignalTypeOK'
  OBVIOUS
<1>0. SignalTypeOK /\ Increasing(listeners)
  BY DEF SignalInv
<1> USE <1>0 DEF SignalTypeOK
<1>1. ASSUME NEW t \in Emitters, Connect(t) PROVE SignalTypeOK'
  BY <1>1 DEF Connect, LocksBriefly, Ids
<1>2. ASSUME NEW t \in Emitters, NEW ids, Erase(t, ids) PROVE SignalTypeOK'
  <2>1. listeners' \in Seq(Ids)
    BY <1>2, WithoutKeepsOthers DEF Erase
  <2>2. QED
    BY <1>2, <2>1 DEF Erase, LocksBriefly
<1>3. ASSUME NEW t \in Emitters, EmitLocks(t) PROVE SignalTypeOK'
  <2>1. Elements(listeners) \in SUBSET Ids
    BY DEF Elements
  <2>2. (1..(nextId - 1)) \ Elements(listeners) \in SUBSET Ids
    BY DEF Ids
  <2>3. emissions' \in 0..MaxEmissions
    BY <1>3 DEF EmitLocks
  <2>4. <<>> \in Seq(Ids)
    OBVIOUS
  <2>5. QED
    BY <1>3, <2>1, <2>2, <2>3, <2>4 DEF EmitLocks
<1>4. ASSUME NEW t \in Emitters, EmitCopies(t) PROVE SignalTypeOK'
  BY <1>4 DEF EmitCopies
<1>5. ASSUME NEW t \in Emitters, CallSlot(t) PROVE SignalTypeOK'
  <2>1. /\ Head(snapshot[t]) \in Ids /\ Tail(snapshot[t]) \in Seq(Ids)
        /\ Append(heard[t], Head(snapshot[t])) \in Seq(Ids)
    BY <1>5 DEF CallSlot
  <2>2. QED
    BY <1>5, <2>1 DEF CallSlot
<1>6. ASSUME NEW t \in Emitters, SlotReturns(t) \/ EmitReturns(t) \/ SlotCallsBack(t)
      PROVE  SignalTypeOK'
  BY <1>6 DEF SlotReturns, EmitReturns, SlotCallsBack
<1>7. CASE UNCHANGED sigVars
  BY <1>7 DEF sigVars
<1>8. QED
  BY <1>1, <1>2, <1>3, <1>4, <1>5, <1>6, <1>7
     DEF SignalNext, ListChange, EmitStep, Disconnect, DisconnectAll

LEMMA SignalStep == SignalInv /\ [SignalNext]_sigVars => SignalInv'
<1> SUFFICES ASSUME SignalInv, [SignalNext]_sigVars PROVE SignalInv'
  OBVIOUS
<1>0. /\ SignalTypeOK' /\ SignalTypeOK /\ Increasing(listeners)
      /\ \A x \in Elements(listeners) : x < nextId
      /\ \A t \in Emitters : EmissionInv(t)
  BY SignalTypes DEF SignalInv
<1>t. /\ listeners \in Seq(Ids) /\ nextId \in Nat
      /\ emission \in [Emitters -> {"idle", "locked", "calling", "inside", "waiting", "returning"}]
      /\ snapshot \in [Emitters -> Seq(Ids)] /\ heard \in [Emitters -> Seq(Ids)]
      /\ stayed \in [Emitters -> SUBSET Ids] /\ left \in [Emitters -> SUBSET Ids]
  BY <1>0 DEF SignalTypeOK
<1>l. ASSUME UNCHANGED <<listeners, nextId>>, \A t \in Emitters : EmissionInv(t)'
      PROVE  SignalInv'
  BY <1>0, <1>l DEF SignalInv, Increasing, Elements
<1>1. ASSUME NEW u \in Emitters, Connect(u) PROVE SignalInv'
  <2>1. /\ LocksBriefly(u) /\ nextId \in Ids /\ listeners' = Append(listeners, nextId)
        /\ nextId' = nextId + 1 /\ stayed' = stayed
    BY <1>1 DEF Connect
  <2>2. /\ Increasing(listeners') /\ Elements(listeners') = Elements(listeners) \union {nextId}
    BY <1>0, <1>t, <2>1, AppendKeepsOrder
  <2>3. \A x \in Elements(listeners') : x < nextId'
    <3>1. \A x \in Elements(listeners) : x \in Nat
      BY <1>t DEF Elements, Ids
    <3>2. QED
      BY <1>0, <1>t, <2>1, <2>2, <3>1
  <2>4. \A t \in Emitters : EmissionInv(t)'
    BY <2>1, BriefLocks
  <2>5. Increasing(listeners)' /\ \A x \in Elements(listeners)' : x < nextId'
    BY <2>2, <2>3 DEF Increasing, Elements
  <2>6. QED
    BY <1>0, <2>4, <2>5 DEF SignalInv
<1>2. ASSUME NEW u \in Emitters, NEW ids, Erase(u, ids) PROVE SignalInv'
  <2>1. /\ LocksBriefly(u) /\ listeners' = Without(listeners, ids) /\ nextId' = nextId
        /\ stayed' = [t \in Emitters |-> stayed[t] \ ids]
    BY <1>2 DEF Erase
  <2>2. /\ Increasing(listeners') /\ Elements(listeners') = Elements(listeners) \ ids
    BY <1>0, <1>t, <2>1, WithoutKeepsOthers
  <2>3. \A t \in Emitters : EmissionInv(t)'
    BY <2>1, BriefLocks
  <2>4. Increasing(listeners)' /\ \A x \in Elements(listeners)' : x < nextId'
    BY <1>0, <2>1, <2>2 DEF Increasing, Elements
  <2>5. QED
    BY <1>0, <2>3, <2>4 DEF SignalInv
<1>3. ASSUME NEW u \in Emitters, EmitLocks(u) PROVE SignalInv'
  <2>1. /\ holder = NoEmitter /\ holder' = u /\ emission' = [emission EXCEPT ![u] = "locked"]
        /\ stayed' = [stayed EXCEPT ![u] = Elements(listeners)]
        /\ left' = [left EXCEPT ![u] = (1..(nextId - 1)) \ Elements(listeners)]
        /\ heard' = [heard EXCEPT ![u] = <<>>]
        /\ UNCHANGED <<listeners, nextId, snapshot>>
    BY <1>3 DEF EmitLocks
  <2>2. ASSUME NEW t \in Emitters, t # u PROVE EmissionInv(t)'
    <3>1. /\ emission'[t] = emission[t] /\ heard'[t] = heard[t] /\ snapshot'[t] = snapshot[t]
          /\ left'[t] = left[t] /\ stayed'[t] = stayed[t]
      BY <1>t, <2>1, <2>2
    <3>2. emission[t] # "locked"
      BY <1>0, <2>1, SignalAssumption DEF EmissionInv
    <3>3. QED
      BY <1>0, <3>1, <3>2, OtherEmissions
  <2>3. EmissionInv(u)'
    <3>1. /\ emission'[u] = "locked" /\ heard'[u] = <<>> /\ stayed'[u] = Elements(listeners)
          /\ left'[u] = (1..(nextId - 1)) \ Elements(listeners)
      BY <1>t, <2>1
    <3>2. Elements(listeners)' = Elements(listeners)
      BY <2>1 DEF Elements
    <3>3. QED
      BY <2>1, <3>1, <3>2 DEF EmissionInv, Emitting
  <2>4. QED
    BY <1>l, <2>1, <2>2, <2>3
<1>4. ASSUME NEW u \in Emitters, EmitCopies(u) PROVE SignalInv'
  <2>1. /\ emission[u] = "locked" /\ emission' = [emission EXCEPT ![u] = "calling"]
        /\ snapshot' = [snapshot EXCEPT ![u] = listeners]
        /\ UNCHANGED <<listeners, nextId, heard, stayed, left>>
    BY <1>4 DEF EmitCopies
  <2>2. holder = u /\ heard[u] = <<>>
    BY <1>0, <2>1 DEF EmissionInv
  <2>3. ASSUME NEW t \in Emitters, t # u PROVE EmissionInv(t)'
    <3>1. /\ emission'[t] = emission[t] /\ heard'[t] = heard[t] /\ snapshot'[t] = snapshot[t]
          /\ left'[t] = left[t] /\ stayed'[t] = stayed[t]
      BY <1>t, <2>1, <2>3
    <3>2. emission[t] # "locked"
      BY <1>0, <2>2, <2>3 DEF EmissionInv
    <3>3. QED
      BY <1>0, <3>1, <3>2, OtherEmissions
  <2>4. EmissionInv(u)'
    <3>1. /\ emission'[u] = "calling" /\ heard'[u] = <<>> /\ snapshot'[u] = listeners
          /\ left'[u] = left[u] /\ stayed'[u] = stayed[u]
      BY <1>t, <2>1, <2>2
    <3>2. Increasing(heard'[u]) /\ Elements(heard'[u]) = {}
      BY <3>1 DEF Increasing, Elements
    <3>3. /\ Elements(listeners) \intersect left[u] = {}
          /\ stayed[u] \subseteq Elements(listeners)
      BY <1>0, <2>1 DEF EmissionInv
    <3>4. Ordered(u)'
      BY <1>0, <3>1, <3>2 DEF Ordered, Increasing, Elements
    <3>5. Covered(u)'
      BY <3>1, <3>2, <3>3 DEF Covered, Elements
    <3>6. QED
      BY <3>1, <3>4, <3>5 DEF EmissionInv, Emitting
  <2>5. QED
    BY <1>l, <2>1, <2>3, <2>4
<1>5. ASSUME NEW u \in Emitters, CallSlot(u) PROVE SignalInv'
  <2> DEFINE h == heard[u]
             s == snapshot[u]
  <2>1. /\ emission[u] = "calling" /\ s # <<>>
        /\ heard' = [heard EXCEPT ![u] = Append(h, Head(s))]
        /\ snapshot' = [snapshot EXCEPT ![u] = Tail(s)]
        /\ emission' = [emission EXCEPT ![u] = "inside"]
        /\ UNCHANGED <<listeners, nextId, holder, stayed, left>>
    BY <1>5 DEF CallSlot
  <2>2. ASSUME NEW t \in Emitters, t # u PROVE EmissionInv(t)'
    <3>1. /\ emission'[t] = emission[t] /\ heard'[t] = heard[t] /\ snapshot'[t] = snapshot[t]
          /\ left'[t] = left[t] /\ stayed'[t] = stayed[t]
      BY <1>t, <2>1, <2>2
    <3>2. QED
      BY <1>0, <2>1, <3>1, OtherEmissions
  <2>3. Ordered(u) /\ Covered(u)
    BY <1>0, <2>1 DEF EmissionInv, Emitting
  <2>4. /\ h \in Seq(Ids) /\ s \in Seq(Ids) /\ Increasing(h) /\ Increasing(s)
        /\ \A x \in Elements(h), y \in Elements(s) : x < y
    BY <1>t, <2>3 DEF Ordered
  <2>5. /\ heard'[u] = Append(h, Head(s)) /\ snapshot'[u] = Tail(s)
        /\ emission'[u] = "inside" /\ stayed'[u] = stayed[u] /\ left'[u] = left[u]
    BY <1>t, <2>1
  <2>6. (Elements(h) \union Elements(s)) \intersect left[u] = {}
    BY <2>3 DEF Covered
  <2>7. stayed[u] \subseteq Elements(h) \union Elements(s)
    BY <2>3 DEF Covered
  <2> HIDE DEF h, s
  <2>8. /\ Tail(s) \in Seq(Ids) /\ Increasing(Tail(s)) /\ Head(s) \in Ids
        /\ Elements(s) = Elements(Tail(s)) \union {Head(s)}
        /\ \A x \in Elements(Tail(s)) : Head(s) < x
    BY <2>1, <2>4, TailKeepsOrder
  <2>9. /\ Increasing(Append(h, Head(s)))
        /\ Elements(Append(h, Head(s))) = Elements(h) \union {Head(s)}
    BY <2>4, <2>8, AppendKeepsOrder
  <2>10. /\ Increasing(heard'[u]) /\ Increasing(snapshot'[u])
         /\ \A x \in Elements(heard'[u]), y \in Elements(snapshot'[u]) : x < y
    BY <2>4, <2>5, <2>8, <2>9
  <2>11. /\ (Elements(heard'[u]) \union Elements(snapshot'[u])) \intersect left'[u] = {}
         /\ stayed'[u] \subseteq Elements(heard'[u]) \union Elements(snapshot'[u])
    BY <2>5, <2>6, <2>7, <2>8, <2>9
  <2>12. Ordered(u)' /\ Covered(u)'
    BY <2>10, <2>11 DEF Ordered, Covered, Increasing, Elements
  <2>13. EmissionInv(u)'
    BY <2>5, <2>12 DEF EmissionInv, Emitting
  <2>14. QED
    BY <1>l, <2>1, <2>2, <2>13
<1>6. ASSUME NEW u \in Emitters, SlotReturns(u) \/ EmitReturns(u) \/ SlotCallsBack(u)
      PROVE  SignalInv'
  <2>1. /\ Emitting(u)
        /\ \E e \in {"idle", "calling", "waiting"} : emission' = [emission EXCEPT ![u] = e]
        /\ UNCHANGED <<listeners, nextId, holder, snapshot, heard, stayed, left>>
    BY <1>6 DEF SlotReturns, EmitReturns, SlotCallsBack, Emitting
  <2>2. ASSUME NEW t \in Emitters, t # u PROVE EmissionInv(t)'
    <3>1. /\ emission'[t] = emission[t] /\ heard'[t] = heard[t] /\ snapshot'[t] = snapshot[t]
          /\ left'[t] = left[t] /\ stayed'[t] = stayed[t]
      BY <1>t, <2>1, <2>2
    <3>2. QED
      BY <1>0, <2>1, <3>1, OtherEmissions
  <2>3. EmissionInv(u)'
    <3>1. Ordered(u) /\ Covered(u)
      BY <1>0, <2>1 DEF EmissionInv
    <3>2. Ordered(u)' /\ Covered(u)'
      BY <2>1, <3>1 DEF Ordered, Covered, Increasing, Elements
    <3>3. emission'[u] # "locked"
      BY <1>t, <2>1
    <3>4. QED
      BY <3>2, <3>3 DEF EmissionInv
  <2>4. QED
    BY <1>l, <2>1, <2>2, <2>3
<1>7. CASE UNCHANGED sigVars
  <2>1. UNCHANGED <<listeners, nextId, holder, emission, snapshot, heard, stayed, left>>
    BY <1>7 DEF sigVars
  <2>2. \A t \in Emitters : EmissionInv(t)'
    BY <1>0, <2>1, OtherEmissions
  <2>3. QED
    BY <1>l, <2>1, <2>2
<1>8. QED
  BY <1>1, <1>2, <1>3, <1>4, <1>5, <1>6, <1>7
     DEF SignalNext, ListChange, EmitStep, Disconnect, DisconnectAll

(* Every emission is whole: in order, nobody twice, nobody who had left,   *)
(* everybody who stayed, for any threads, connections and emissions.       *)
THEOREM EmissionsAreWhole == SignalSpec => []EmissionIsWhole
<1>1. SignalInit => SignalInv
  <2> SUFFICES ASSUME SignalInit PROVE SignalInv
    OBVIOUS
  <2>1. <<>> \in Seq(Ids) /\ 1 \in 1..(MaxConnections + 1) /\ 0 \in 0..MaxEmissions
    OBVIOUS
  <2>2. SignalTypeOK
    BY <2>1 DEF SignalInit, SignalTypeOK
  <2>3. QED
    BY <2>2 DEF SignalInit, SignalInv, Increasing, Elements, EmissionInv, Emitting
<1>2. SignalInv => EmissionIsWhole
  <2> SUFFICES ASSUME SignalInv, NEW t \in Emitters, emission[t] \notin {"idle", "locked"}
               PROVE  /\ \A i, j \in DOMAIN heard[t] : i < j => heard[t][i] < heard[t][j]
                      /\ Elements(heard[t]) \intersect left[t] = {}
                      /\ stayed[t] \subseteq Elements(heard[t]) \union Elements(snapshot[t])
    BY DEF EmissionIsWhole
  <2>1. Ordered(t) /\ Covered(t)
    BY DEF SignalInv, EmissionInv, Emitting
  <2>2. QED
    BY <2>1 DEF Ordered, Covered, Increasing
<1>3. QED
  BY <1>1, <1>2, SignalStep, PTL DEF SignalSpec

-----------------------------------------------------------------------------
(***************************************************************************)
(* ModuleMonitor, for every set of addresses and images and any number of  *)
(* changes of the process.                                                 *)
(***************************************************************************)
HIDE SignalAssumption
USE ModulesAssumption, MaxChangesAssumption

(* Whichever changes, failures and events come, every variable keeps its   *)
(* type and the events still to come separate view from enumeration.       *)
THEOREM PollInvariant == Spec => []PollInv
<1> USE DEF TypeOK, ModuleSets, At, IdleInv, LoadedInv, UnloadedInv
<1>1. Init => PollInv
  BY DEF Init, PollInv, NoModules
<1>2. PollInv /\ [Next]_vars => PollInv'
  <2> SUFFICES ASSUME PollInv, [Next]_vars PROVE PollInv'
    OBVIOUS
  <2> USE DEF PollInv
  <2>1. ASSUME NEW b \in Bases, TargetChanges(b) PROVE PollInv'
    BY <2>1 DEF TargetChanges
  <2>2. CASE PollEnumerates
    BY <2>2 DEF PollEnumerates
  <2>3. CASE PollFails
    BY <2>3 DEF PollFails, vars
  <2>4. ASSUME NEW b \in Bases, EmitLoaded(b) PROVE PollInv'
    BY <2>4 DEF EmitLoaded
  <2>5. CASE LoadedReported
    BY <2>5 DEF LoadedReported
  <2>6. ASSUME NEW b \in Bases, EmitUnloaded(b) PROVE PollInv'
    BY <2>6 DEF EmitUnloaded
  <2>7. CASE PollReturns
    BY <2>7 DEF PollReturns, NoModules
  <2>8. CASE UNCHANGED vars
    BY <2>8 DEF vars
  <2>9. QED
    BY <2>1, <2>2, <2>3, <2>4, <2>5, <2>6, <2>7, <2>8 DEF Next, Reporting
<1>3. QED
  BY <1>1, <1>2, PTL DEF Spec

(* A client that only follows the events knows the addresses of            *)
(* currentModules() between polls.                                         *)
THEOREM FollowerIsRight == Spec => []FollowerAgrees
<1>1. PollInv => FollowerAgrees
  BY DEF PollInv, IdleInv, FollowerAgrees
<1>2. QED
  BY <1>1, PollInvariant, PTL

(* No module is reported loaded twice, nor unloaded before it was loaded.  *)
THEOREM EventsAlternate == Spec => NoRepeatedEvent
<1>1. ASSUME PollInv, NEW b \in Bases, EmitLoaded(b) PROVE view[b] = None
  BY <1>1 DEF PollInv, LoadedInv, EmitLoaded, At
<1>2. ASSUME PollInv, NEW b \in Bases, EmitUnloaded(b) PROVE view[b] # None
  BY <1>2 DEF PollInv, UnloadedInv, EmitUnloaded, At
<1>3. PollInv => [\A b \in Bases : /\ EmitLoaded(b) => view[b] = None
                                   /\ EmitUnloaded(b) => view[b] # None]_vars
  BY <1>1, <1>2
<1>4. QED
  BY <1>3, PollInvariant, PTL DEF NoRepeatedEvent

(* The monitor implements ModuleFeed: every event moves the client towards *)
(* the enumeration being delivered, and a poll begins where the last ended.*)
THEOREM MonitorImplementsFeed == Spec => FeedSpec
<1>1. Init => Feed!Init
  BY DEF Init, Feed!Init, At, NoModules
<1>2. PollInv /\ PollInv' /\ [Next]_vars => [Feed!Next]_(Feed!vars)
  <2> SUFFICES ASSUME PollInv, PollInv', [Next]_vars
               PROVE  [Feed!Next]_(Feed!vars)
    OBVIOUS
  <2> USE DEF PollInv, TypeOK, ModuleSets, At, IdleInv, LoadedInv, UnloadedInv, Feed!vars
  <2>1. ASSUME NEW b \in Bases, TargetChanges(b) PROVE Feed!Change
    BY <2>1 DEF TargetChanges, Feed!Change
  <2>2. CASE PollEnumerates
    <3>1. Feed!TakePicture
      BY <2>2 DEF PollEnumerates, Feed!TakePicture
    <3>2. QED
      BY <3>1 DEF Feed!Next
  <2>3. CASE PollFails
    BY <2>3 DEF PollFails, vars
  <2>4. ASSUME NEW b \in Bases, EmitLoaded(b) PROVE Feed!ReportLoaded(b)
    BY <2>4 DEF EmitLoaded, Feed!ReportLoaded
  <2>5. CASE LoadedReported
    BY <2>5 DEF LoadedReported
  <2>6. ASSUME NEW b \in Bases, EmitUnloaded(b) PROVE Feed!ReportUnloaded(b)
    BY <2>6 DEF EmitUnloaded, Feed!ReportUnloaded
  <2>7. CASE PollReturns
    BY <2>7 DEF PollReturns
  <2>8. CASE UNCHANGED vars
    BY <2>8 DEF vars
  <2>9. QED
    BY <2>1, <2>2, <2>3, <2>4, <2>5, <2>6, <2>7, <2>8 DEF Next, Reporting, Feed!Next
<1>3. QED
  BY <1>1, <1>2, PollInvariant, PTL DEF Spec, FeedSpec, Feed!Spec
=============================================================================
