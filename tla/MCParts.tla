------------------------------ MODULE MCParts ------------------------------
(***************************************************************************)
(* The parts of the library that run apart from the monitor, each in an    *)
(* instance of its own: they share no state, so a behaviour is one of one  *)
(* part.                                                                   *)
(***************************************************************************)
EXTENDS SignalSlots, LogSink, Guardian, ProcessAccess, ModuleView, MemoryView,
        HashBuffer, BaselineFormat, HookScan, CommandLine

VARIABLE part   \* the part whose behaviour it is

ReadOnly == {}
MCProtections == {ReadOnly, {"execute", "write"}}

(* Two entries with fields that tell them apart: texts by their length and *)
(* their first byte, addresses at the end of the range.                    *)
Text(first, length) == [i \in 1..length |-> (first + i) % Radix]
MCEntry(k, named, located) ==
  [baseAddress |-> Radix^WideWidth - k, size |-> k, digest |-> Text(k, 1),
   name |-> Text(k, named), ownerModule |-> Text(k + 1, named),
   ownerModulePath |-> Text(k + 1, located)]
MCBaselines ==
  UNION {{[algorithm |-> Text(1, a), entries |-> [k \in 1..n |-> MCEntry(k, named[k], located[k])]] :
            a \in 0..1, named \in [1..n -> 0..1], located \in [1..n -> 0..1]} : n \in 0..2}

MCInit ==
  /\ part \in {"signal", "log", "guardian", "access", "modules", "memory", "hash",
               "format", "hooks", "tools"}
  /\ SignalInit /\ LogInit /\ GuardianInit /\ AccessInit /\ ViewInit
  /\ ScanInit /\ HashInit /\ FormatInit /\ HookInit /\ CommandInit

sigIdle == UNCHANGED sigVars
logIdle == UNCHANGED logVars
guardIdle == UNCHANGED guardVars
accessIdle == UNCHANGED accessVars
viewIdle == UNCHANGED viewVars
scanIdle == UNCHANGED scanVars
hashIdle == UNCHANGED hashVars
formatIdle == UNCHANGED formatVars
hookIdle == UNCHANGED hookVars
toolsIdle == UNCHANGED commandVars

SignalPart ==
  /\ part = "signal" /\ SignalNext
  /\ logIdle /\ guardIdle /\ accessIdle /\ viewIdle /\ scanIdle /\ hashIdle /\ formatIdle
  /\ hookIdle /\ toolsIdle
LogPart ==
  /\ part = "log" /\ LogNext
  /\ sigIdle /\ guardIdle /\ accessIdle /\ viewIdle /\ scanIdle /\ hashIdle /\ formatIdle
  /\ hookIdle /\ toolsIdle
GuardianPart ==
  /\ part = "guardian" /\ GuardianNext
  /\ sigIdle /\ logIdle /\ accessIdle /\ viewIdle /\ scanIdle /\ hashIdle /\ formatIdle
  /\ hookIdle /\ toolsIdle
AccessPart ==
  /\ part = "access" /\ AccessNext
  /\ sigIdle /\ logIdle /\ guardIdle /\ viewIdle /\ scanIdle /\ hashIdle /\ formatIdle
  /\ hookIdle /\ toolsIdle
ModulesPart ==
  /\ part = "modules" /\ ViewNext
  /\ sigIdle /\ logIdle /\ guardIdle /\ accessIdle /\ scanIdle /\ hashIdle /\ formatIdle
  /\ hookIdle /\ toolsIdle
MemoryPart ==
  /\ part = "memory" /\ ScanNext
  /\ sigIdle /\ logIdle /\ guardIdle /\ accessIdle /\ viewIdle /\ hashIdle /\ formatIdle
  /\ hookIdle /\ toolsIdle
HashPart ==
  /\ part = "hash" /\ HashNext
  /\ sigIdle /\ logIdle /\ guardIdle /\ accessIdle /\ viewIdle /\ scanIdle /\ formatIdle
  /\ hookIdle /\ toolsIdle
FormatPart ==
  /\ part = "format" /\ FormatNext
  /\ sigIdle /\ logIdle /\ guardIdle /\ accessIdle /\ viewIdle /\ scanIdle /\ hashIdle
  /\ hookIdle /\ toolsIdle
HooksPart ==
  /\ part = "hooks" /\ HookNext
  /\ sigIdle /\ logIdle /\ guardIdle /\ accessIdle /\ viewIdle /\ scanIdle /\ hashIdle
  /\ formatIdle /\ toolsIdle
ToolsPart ==
  /\ part = "tools" /\ CommandNext
  /\ sigIdle /\ logIdle /\ guardIdle /\ accessIdle /\ viewIdle /\ scanIdle /\ hashIdle
  /\ formatIdle /\ hookIdle

MCNext ==
  /\ UNCHANGED part
  /\ \/ SignalPart \/ LogPart \/ GuardianPart \/ AccessPart \/ ModulesPart
     \/ MemoryPart \/ HashPart \/ FormatPart \/ HooksPart \/ ToolsPart

MCVars == <<part, sigVars, logVars, guardVars, accessVars, viewVars, scanVars, hashVars,
            formatVars, hookVars, commandVars>>

MCSpec ==
  /\ MCInit /\ [][MCNext]_MCVars
  /\ SignalFairness /\ LogFairness
=============================================================================
