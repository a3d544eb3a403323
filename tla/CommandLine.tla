---------------------------- MODULE CommandLine ----------------------------
(***************************************************************************)
(* The two programs that share a baseline file: rmg-cli (tools/rmg-cli/    *)
(* main.cpp) and rmg-baseline-generator (tools/baseline-generator/         *)
(* main.cpp), which may rewrite the file while rmg-cli reads it. A         *)
(* serialized baseline is a sequence of pieces, each a record of the       *)
(* generator's run, the piece's place and how many there are; anything     *)
(* that holds as many pieces as its first one says is accepted by          *)
(* deserialize() (see BaselineFormat).                                     *)
(***************************************************************************)
EXTENDS Naturals, Sequences

CONSTANTS
  MaxArguments,   \* bound: arguments of rmg-cli
  MaxPieces,      \* bound: pieces of a baseline
  MaxRuns         \* bound: runs of the generator

ASSUME CommandAssumption ==
  MaxArguments \in Nat /\ MaxPieces \in Nat /\ MaxRuns \in Nat

VARIABLES
  options,        \* CliOptions: the options that were given
  arguments,      \* how many arguments were parsed
  cli,            \* where main() of rmg-cli is
  anomalyFound,   \* anomalyFound
  ran,            \* the operations that were run; ranAnyOperation
  trouble,        \* history: "failure", "tampered", "hooked" that was met
  size,           \* readFileBytes(): the size of the file
  bytes,          \* the bytes handed to loadBaseline()
  cliExit,        \* the exit code; 0..2, 3 before
  baselineFile,   \* its contents; empty when it does not exist
  exists,         \* does it?
  generator,      \* where main() of the generator is
  pieces,         \* pieces of the baseline it writes
  runs,           \* how often it was started
  generatorExit,  \* its exit code; 3 before
  rewritten       \* history: was the file truncated between two reads of rmg-cli?

cliVars == <<options, arguments, cli, anomalyFound, ran, trouble, size, bytes, cliExit>>
genVars == <<baselineFile, exists, generator, pieces, runs, generatorExit, rewritten>>
commandVars == <<cliVars, genVars>>

Flags == {"self", "list-modules", "check-integrity", "detect-hooks", "version", "help"}
Valued == {"pid", "load-baseline"}
Operations == {"list-modules", "check-integrity", "detect-hooks", "load-baseline"}
NoExit == 3

CommandInit ==
  /\ options = {} /\ arguments = 0 /\ cli = "parsing"
  /\ anomalyFound = FALSE /\ ran = {} /\ trouble = {}
  /\ size = 0 /\ bytes = <<>> /\ cliExit = NoExit
  /\ baselineFile = <<>> /\ exists = FALSE
  /\ generator = "idle" /\ pieces = 0 /\ runs = 0 /\ generatorExit = NoExit
  /\ rewritten = FALSE

Baseline(run, n) == [i \in 1..n |-> [run |-> run, place |-> i, count |-> n]]

-----------------------------------------------------------------------------
(* parseArgs(): a flag; an option with its value; or, at the last, an      *)
(* option without one or an unknown word, which ends the program.          *)
Exit(code) == cliExit' = code /\ cli' = "exited"

ParseArgument ==
  /\ cli = "parsing"
  /\ \/ \E f \in Flags : /\ arguments + 1 <= MaxArguments
                         /\ options' = options \union {f}
                         /\ arguments' = arguments + 1
                         /\ UNCHANGED <<cli, cliExit>>
     \/ \E v \in Valued : /\ arguments + 2 <= MaxArguments
                          /\ options' = options \union {v}
                          /\ arguments' = arguments + 2
                          /\ UNCHANGED <<cli, cliExit>>
     \/ /\ arguments + 1 <= MaxArguments
        /\ Exit(1) /\ arguments' = arguments + 1 /\ UNCHANGED options
  /\ UNCHANGED <<anomalyFound, ran, trouble, size, bytes, genVars>>

(* All are parsed. Help and version come before the target is looked for,  *)
(* which is attached to, or not.                                           *)
ParseEnds ==
  /\ cli = "parsing"
  /\ IF options = {} \/ "help" \in options \/ "version" \in options THEN Exit(0)
     ELSE \/ Exit(1)
          \/ /\ options \intersect {"self", "pid"} # {}
             /\ cli' = "list-modules" /\ UNCHANGED cliExit
  /\ arguments' = 0
  /\ UNCHANGED <<options, anomalyFound, ran, trouble, size, bytes, genVars>>

(* An operation fails, and the program with it.                            *)
Fails == trouble' = trouble \union {"failure"} /\ Exit(1) /\ UNCHANGED anomalyFound

(* An operation reports, and the program goes on; what it reports counts.  *)
Reports(what, next) ==
  /\ cli' = next /\ UNCHANGED cliExit
  /\ \/ UNCHANGED <<anomalyFound, trouble>>
     \/ what # "nothing" /\ anomalyFound' = TRUE /\ trouble' = trouble \union {what}

Skips(next) == cli' = next /\ UNCHANGED <<anomalyFound, ran, trouble, cliExit>>

RunListModules ==
  /\ cli = "list-modules"
  /\ IF cli \in options
     THEN ran' = ran \union {cli} /\ (Fails \/ Reports("nothing", "integrity"))
     ELSE Skips("integrity")
  /\ UNCHANGED <<options, arguments, size, bytes, genVars>>

(* --check-integrity, which --load-baseline takes precedence over:         *)
(* establishBaseline() or checkIntegrity() fails, or there is a report. An *)
(* unreadable section does not count.                                      *)
RunCheckIntegrity ==
  /\ cli = "integrity" /\ "load-baseline" \notin options
  /\ IF "check-integrity" \in options
     THEN ran' = ran \union {"check-integrity"} /\ (Fails \/ Reports("tampered", "detect-hooks"))
     ELSE Skips("detect-hooks")
  /\ UNCHANGED <<options, arguments, size, bytes, genVars>>

(* --load-baseline: the file is opened, its size taken,                    *)
OpenBaseline ==
  /\ cli = "integrity" /\ "load-baseline" \in options
  /\ ran' = ran \union {"load-baseline"}
  /\ IF exists
     THEN /\ cli' = "read" /\ size' = Len(baselineFile)
          /\ UNCHANGED <<anomalyFound, trouble, cliExit>>
     ELSE Fails /\ UNCHANGED size
  /\ UNCHANGED <<options, arguments, bytes, genVars>>

(* read() is a loop of reads of the file, which go on where the last one   *)
(* ended until they have that many bytes. An error ends it, and so does    *)
(* the end of the file, which read() then reports.                         *)
ReadsOn ==
  /\ Len(bytes) < size /\ Len(bytes) < Len(baselineFile)
  /\ bytes' = Append(bytes, baselineFile[Len(bytes) + 1])
  /\ UNCHANGED <<cli, anomalyFound, trouble, cliExit>>

ReadsAll ==
  /\ Len(bytes) = size /\ cli' = "load"
  /\ UNCHANGED <<bytes, anomalyFound, trouble, cliExit>>

(* Mutant: a read that comes short goes unnoticed; the rest of the buffer  *)
(* is zero.                                                                *)
ReadBaseline_Short ==
  /\ cli = "read"
  /\ \/ ReadsOn
     \/ ReadsAll
     \/ /\ Len(bytes) < size
        /\ bytes' = [i \in 1..size |-> IF i \in DOMAIN bytes THEN bytes[i]
                                       ELSE [run |-> 0, place |-> 0, count |-> 0]]
        /\ cli' = "load" /\ UNCHANGED <<anomalyFound, trouble, cliExit>>
  /\ UNCHANGED <<options, arguments, ran, size, genVars>>

ReadBaseline ==
  /\ cli = "read"
  /\ \/ ReadsOn
     \/ ReadsAll
     \/ Len(bytes) < size /\ Fails /\ UNCHANGED bytes
  /\ UNCHANGED <<options, arguments, ran, size, genVars>>

(* loaded and verified.                                                    *)
LoadAndVerify ==
  /\ cli = "load"
  /\ \/ Fails
     \/ bytes # <<>> /\ Len(bytes) >= bytes[1].count /\ Reports("tampered", "detect-hooks")
  /\ UNCHANGED <<options, arguments, ran, size, bytes, genVars>>

(* Mutant: the result of the hook scan replaces what was found before.     *)
RunDetectHooks_Overwrites ==
  /\ cli = "detect-hooks"
  /\ IF cli \in options
     THEN /\ ran' = ran \union {cli}
          /\ \/ Fails
             \/ /\ cli' = "finish" /\ UNCHANGED cliExit
                /\ \/ anomalyFound' = FALSE /\ UNCHANGED trouble
                   \/ anomalyFound' = TRUE /\ trouble' = trouble \union {"hooked"}
     ELSE Skips("finish")
  /\ UNCHANGED <<options, arguments, size, bytes, genVars>>

RunDetectHooks ==
  /\ cli = "detect-hooks"
  /\ IF cli \in options
     THEN ran' = ran \union {cli} /\ (Fails \/ Reports("hooked", "finish"))
     ELSE Skips("finish")
  /\ UNCHANGED <<options, arguments, size, bytes, genVars>>

(* The exit code; it is an error when there was nothing to do.             *)
Finish ==
  /\ cli = "finish"
  /\ Exit(IF ran = {} THEN 1 ELSE IF anomalyFound THEN 2 ELSE 0)
  /\ UNCHANGED <<options, arguments, anomalyFound, ran, trouble, size, bytes, genVars>>

-----------------------------------------------------------------------------
(* The generator: its arguments are parsed; an error in them ends it, as   *)
(* does --help, with 0.                                                    *)
GeneratorStarts ==
  /\ generator = "idle" /\ runs < MaxRuns
  /\ runs' = runs + 1
  /\ \/ generator' = "capture" /\ generatorExit' = NoExit
     \/ generatorExit' \in {0, 1} /\ UNCHANGED generator
  /\ UNCHANGED <<baselineFile, exists, pieces, rewritten, cliVars>>

GeneratorExits(code) == generator' = "idle" /\ generatorExit' = code

(* A target and an output must be named, the target opened, its modules    *)
(* enumerated and their sections captured, or the program ends; then there *)
(* is a baseline to write.                                                 *)
GeneratorCaptures ==
  /\ generator = "capture"
  /\ \/ GeneratorExits(1) /\ UNCHANGED pieces
     \/ generator' = "open" /\ pieces' \in 1..MaxPieces /\ UNCHANGED generatorExit
  /\ UNCHANGED <<baselineFile, exists, runs, rewritten, cliVars>>

(* writeFileBytes(): the file is truncated,                                *)
OpenOutput ==
  /\ generator = "open"
  /\ \/ GeneratorExits(1) /\ UNCHANGED <<baselineFile, exists, rewritten>>
     \/ /\ baselineFile' = <<>> /\ exists' = TRUE /\ generator' = "write"
        /\ rewritten' = (rewritten \/ (cli = "read" /\ bytes # <<>>))
        /\ UNCHANGED generatorExit
  /\ UNCHANGED <<pieces, runs, cliVars>>

(* written piece by piece, the rest being left in the stream's buffer, or  *)
(* a write fails and the file stays as it is,                              *)
WriteOutput ==
  /\ generator = "write"
  /\ \/ /\ Len(baselineFile) < pieces
        /\ baselineFile' = Append(baselineFile, Baseline(runs, pieces)[Len(baselineFile) + 1])
        /\ UNCHANGED <<generator, generatorExit>>
     \/ generator' = "close" /\ UNCHANGED <<baselineFile, generatorExit>>
     \/ GeneratorExits(1) /\ UNCHANGED baselineFile
  /\ UNCHANGED <<exists, pieces, runs, rewritten, cliVars>>

(* and closed: good() was asked before, so that a flush that fails now is  *)
(* not reported.                                                           *)
CloseOutput ==
  /\ generator = "close"
  /\ baselineFile' \in {Baseline(runs, pieces), baselineFile}
  /\ GeneratorExits(0)
  /\ UNCHANGED <<exists, pieces, runs, rewritten, cliVars>>

CommandNext ==
  \/ ParseArgument \/ ParseEnds \/ RunListModules \/ RunCheckIntegrity
  \/ OpenBaseline \/ ReadBaseline \/ LoadAndVerify \/ RunDetectHooks \/ Finish
  \/ GeneratorStarts \/ GeneratorCaptures \/ OpenOutput \/ WriteOutput \/ CloseOutput

CommandSpec == CommandInit /\ [][CommandNext]_commandVars

-----------------------------------------------------------------------------
(* rmg-cli exits with 2 exactly when something was found and nothing       *)
(* failed; with 0 only when nothing was found or failed and every          *)
(* operation asked for was run, but for a check that a loaded baseline     *)
(* takes the place of, or when help or the version was asked for.          *)
ExitCodeIsHonest ==
  cli = "exited" =>
    /\ cliExit = 2 <=> trouble # {} /\ "failure" \notin trouble
    /\ cliExit = 0 =>
         \/ options \intersect {"help", "version"} # {} \/ options = {}
         \/ /\ trouble = {} /\ ran # {}
            /\ (options \intersect Operations) \ ran \subseteq {"check-integrity"}
            /\ "check-integrity" \in (options \ ran) => "load-baseline" \in ran

(* What rmg-cli has verified was never a baseline with a part missing: the *)
(* pieces its header counts are all there, each in its place. It is the    *)
(* whole of what one run of the generator wrote, although the generator    *)
(* truncates and writes the file while rmg-cli measures and reads it,      *)
(* unless the file was truncated between two reads of it: the pieces may   *)
(* then be of several runs, which nothing in the format gives away.        *)
NoHalfBaseline ==
  cli = "detect-hooks" /\ bytes # <<>> =>
    /\ bytes[1].count <= Len(bytes)
    /\ \A i \in DOMAIN bytes : bytes[i].place = i
    /\ ~rewritten => \E run \in 1..runs, n \in 1..MaxPieces : bytes = Baseline(run, n)
=============================================================================
