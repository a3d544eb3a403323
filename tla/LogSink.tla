------------------------------ MODULE LogSink ------------------------------
(***************************************************************************)
(* core::Logger (src/core/logger.cpp): one mutex around the sink and the   *)
(* minimum level, held while the sink writes. Threads log, replace the     *)
(* sink and change the level. A sink whose write() logs itself, a member   *)
(* of ChattySinks, waits for the mutex its own thread holds: its write()   *)
(* never returns.                                                          *)
(***************************************************************************)
EXTENDS Naturals

CONSTANTS
  Writers,       \* threads that use the logger
  NoWriter,      \* nobody holds mutex_
  Sinks,         \* the sinks a program installs, each once
  NoSink,        \* a null sink_
  ChattySinks,   \* sinks whose write() calls the logger
  ConsoleSink,   \* the one installed first
  Levels,        \* the levels, Trace to Critical
  Info,          \* the minimum level at first
  MaxRecords     \* bound: calls of log()

ASSUME LogAssumption ==
  /\ NoWriter \notin Writers /\ NoSink \notin Sinks
  /\ ConsoleSink \in Sinks /\ ChattySinks \subseteq Sinks
  /\ Levels \subseteq Nat /\ Info \in Levels /\ MaxRecords \in Nat

VARIABLES
  mutex,      \* the thread that holds mutex_
  sink,       \* sink_
  alive,      \* the sinks that have not been destroyed
  minLevel,   \* minLevel_
  record,     \* per thread: the record it logs; its sink once it is written
  records     \* how many records were logged

logVars == <<mutex, sink, alive, minLevel, record, records>>

Record == [stage : {"idle", "waiting", "writing"}, level : Levels, to : Sinks \union {NoSink}]
NoRecord == [stage |-> "idle", level |-> Info, to |-> NoSink]

LogTypeOK ==
  /\ mutex \in Writers \union {NoWriter}
  /\ sink \in Sinks \union {NoSink}
  /\ alive \in SUBSET Sinks
  /\ minLevel \in Levels
  /\ record \in [Writers -> Record]
  /\ records \in 0..MaxRecords

LogInit ==
  /\ mutex = NoWriter
  /\ sink = ConsoleSink
  /\ alive = Sinks
  /\ minLevel = Info
  /\ record = [t \in Writers |-> NoRecord]
  /\ records = 0

-----------------------------------------------------------------------------
LogCalled(t, level) ==
  /\ record[t].stage = "idle"
  /\ records < MaxRecords
  /\ records' = records + 1
  /\ record' = [record EXCEPT ![t] = [stage |-> "waiting", level |-> level,
                                           to |-> NoSink]]
  /\ UNCHANGED <<mutex, sink, alive, minLevel>>

(* No sink, or a record below the minimum level.                           *)
LogSkips(t) ==
  /\ record[t].stage = "waiting" /\ mutex = NoWriter
  /\ sink = NoSink \/ record[t].level < minLevel
  /\ record' = [record EXCEPT ![t] = NoRecord]
  /\ UNCHANGED <<mutex, sink, alive, minLevel, records>>

(* Mutant: the sink is called after the lock has been released.            *)
LogWrites_Unlocked(t) ==
  /\ record[t].stage = "waiting" /\ mutex = NoWriter
  /\ sink # NoSink /\ record[t].level >= minLevel
  /\ record' = [record EXCEPT ![t] = [stage |-> "writing",
                                           level |-> record[t].level, to |-> sink]]
  /\ UNCHANGED <<mutex, sink, alive, minLevel, records>>

LogWrites(t) ==
  /\ record[t].stage = "waiting" /\ mutex = NoWriter
  /\ sink # NoSink /\ record[t].level >= minLevel
  /\ mutex' = t
  /\ record' = [record EXCEPT ![t] = [stage |-> "writing",
                                           level |-> record[t].level, to |-> sink]]
  /\ UNCHANGED <<sink, alive, minLevel, records>>

(* Mutant: a path out of log() that leaves the mutex locked.               *)
WriteReturns_KeepsLock(t) ==
  /\ record[t].stage = "writing" /\ record[t].to \notin ChattySinks
  /\ record' = [record EXCEPT ![t] = NoRecord]
  /\ UNCHANGED <<mutex, sink, alive, minLevel, records>>

WriteReturns(t) ==
  /\ record[t].stage = "writing" /\ record[t].to \notin ChattySinks
  /\ mutex' = NoWriter
  /\ record' = [record EXCEPT ![t] = NoRecord]
  /\ UNCHANGED <<sink, alive, minLevel, records>>

(* setSink(): the old sink is destroyed before the mutex is released.      *)
SetSink(s) ==
  /\ mutex = NoWriter
  /\ s \in alive \union {NoSink} /\ s # sink
  /\ sink' = s
  /\ alive' = alive \ {sink}
  /\ UNCHANGED <<mutex, minLevel, record, records>>

SetMinLevel(level) ==
  /\ mutex = NoWriter
  /\ minLevel' = level
  /\ UNCHANGED <<mutex, sink, alive, record, records>>

LogStep(t) == LogSkips(t) \/ LogWrites(t) \/ WriteReturns(t)

LogNext ==
  \/ \E t \in Writers : LogStep(t) \/ \E level \in Levels : LogCalled(t, level)
  \/ \E s \in Sinks \union {NoSink} : SetSink(s)
  \/ \E level \in Levels : SetMinLevel(level)

(* A thread in log() runs on, and obtains a mutex that stays free.         *)
LogFairness == \A t \in Writers : WF_logVars(LogStep(t))

LogSpec == LogInit /\ [][LogNext]_logVars /\ LogFairness

-----------------------------------------------------------------------------
(* While a thread is inside write(), it alone is; its sink is the one      *)
(* installed and has not been destroyed, although other threads replace    *)
(* it; and its record still meets the minimum level, although other        *)
(* threads change that.                                                    *)
SinkOutlivesWrite ==
  \A t \in Writers : record[t].stage = "writing" =>
    /\ mutex = t
    /\ record[t].to = sink /\ sink \in alive
    /\ record[t].level >= minLevel
    /\ \A u \in Writers \ {t} : record[u].stage # "writing"

(* Every log() returns.                                                    *)
EveryLogReturns ==
  \A t \in Writers : record[t].stage = "waiting" ~> record[t].stage = "idle"
=============================================================================
