--------------------------- MODULE ProcessAccess ---------------------------
(***************************************************************************)
(* How a ProcessHandle reaches its target while processes exit and their   *)
(* identifier is given to new ones (src/platform/linux/                    *)
(* linux_process_handle.cpp, linux_memory_region_enumerator.cpp;           *)
(* windows/win_process_handle.cpp). On Linux memory is read through the    *)
(* descriptor opened once, which stays with the process it was opened for, *)
(* and regions are read through the identifier, which does not. One        *)
(* identifier is modelled, with all the processes that bear it in turn.    *)
(***************************************************************************)
CONSTANTS
  Processes,   \* the processes that bear the identifier, one after another
  NoProcess    \* nobody has the identifier; no handle; nothing read

ASSUME ProcessAssumption == NoProcess \notin Processes

VARIABLES
  bearer,     \* the process that has the identifier now
  unborn,     \* processes that have not run yet
  opening,    \* where open() is: "no", "checked" by kill(), "done"
  backend,    \* "linux" or "windows"
  native,     \* the process the native handle stands for
  failure,    \* the error of the last open()
  regionsOf,  \* the process whose regions were enumerated last
  bytesOf     \* the process the last bytes came from; NoProcess for none

accessVars == <<bearer, unborn, opening, backend, native, failure, regionsOf, bytesOf>>

OrNone == Processes \union {NoProcess}

AccessTypeOK ==
  /\ bearer \in OrNone
  /\ unborn \in SUBSET Processes
  /\ opening \in {"no", "checked", "done"}
  /\ backend \in {"linux", "windows"}
  /\ native \in OrNone
  /\ failure \in {"none", "NotFound", "AccessDenied", "PlatformError"}
  /\ regionsOf \in OrNone
  /\ bytesOf \in OrNone

AccessInit ==
  /\ bearer = NoProcess
  /\ unborn = Processes
  /\ opening = "no"
  /\ backend = "linux"
  /\ native = NoProcess
  /\ failure = "none"
  /\ regionsOf = NoProcess
  /\ bytesOf = NoProcess

-----------------------------------------------------------------------------
(* A process is started and given the free identifier. Windows does not    *)
(* give an identifier away while a handle to its last bearer is open.      *)
ProcessStarts(p) ==
  /\ bearer = NoProcess /\ p \in unborn
  /\ backend = "windows" => native = NoProcess
  /\ bearer' = p
  /\ unborn' = unborn \ {p}
  /\ UNCHANGED <<opening, backend, native, failure, regionsOf, bytesOf>>

(* It exits and is reaped.                                                 *)
ProcessExits ==
  /\ bearer # NoProcess
  /\ bearer' = NoProcess
  /\ UNCHANGED <<unborn, opening, backend, native, failure, regionsOf, bytesOf>>

OpenAnswers(process, error) ==
  /\ opening' = IF process = NoProcess THEN "no" ELSE "done"
  /\ native' = process
  /\ failure' = error
  /\ UNCHANGED <<bearer, unborn, regionsOf, bytesOf>>

(* open() on Linux: kill(processId, 0) first;                              *)
OpenChecks ==
  /\ opening = "no"
  /\ backend' = "linux"
  /\ \/ bearer = NoProcess /\ OpenAnswers(NoProcess, "NotFound")
     \/ bearer # NoProcess /\ OpenAnswers(NoProcess, "AccessDenied")
     \/ /\ bearer # NoProcess
        /\ opening' = "checked" /\ failure' = "none"
        /\ UNCHANGED <<bearer, unborn, native, regionsOf, bytesOf>>

(* then /proc/<pid>/mem, of whoever has the identifier by now.             *)
OpenOpens ==
  /\ opening = "checked"
  /\ UNCHANGED backend
  /\ \/ bearer = NoProcess /\ OpenAnswers(NoProcess, "NotFound")
     \/ bearer # NoProcess /\ OpenAnswers(bearer, "none")
     \/ \E error \in {"AccessDenied", "PlatformError"} : OpenAnswers(NoProcess, error)

(* open() on Windows: one call of OpenProcess; openSelf(): one call of     *)
(* DuplicateHandle.                                                        *)
OpenWindows ==
  /\ opening = "no"
  /\ backend' = "windows"
  /\ \/ bearer = NoProcess /\ OpenAnswers(NoProcess, "NotFound")
     \/ bearer # NoProcess /\ OpenAnswers(bearer, "none")
     \/ \E error \in {"AccessDenied", "PlatformError"} : OpenAnswers(NoProcess, error)

(* The handle is destroyed.                                                *)
Close ==
  /\ opening = "done"
  /\ opening' = "no"
  /\ native' = NoProcess /\ regionsOf' = NoProcess /\ bytesOf' = NoProcess
  /\ UNCHANGED <<bearer, unborn, backend, failure>>

(* Regions: through /proc/<pid>/maps on Linux, through the handle on       *)
(* Windows. Without a process to ask it fails, or lists nothing.           *)
Enumerated == IF backend = "linux" \/ native = bearer THEN bearer ELSE NoProcess

EnumerateRegions ==
  /\ opening = "done"
  /\ Enumerated # NoProcess
  /\ regionsOf' = Enumerated
  /\ bytesOf' = NoProcess
  /\ UNCHANGED <<bearer, unborn, opening, backend, native, failure>>

(* Mutant: memory opened anew, by identifier, for each read.               *)
ReadMemory_ByIdentifier ==
  /\ opening = "done" /\ regionsOf # NoProcess
  /\ bytesOf' = bearer
  /\ UNCHANGED <<bearer, unborn, opening, backend, native, failure, regionsOf>>

(* Bytes of an enumerated region: those of the process behind the handle;  *)
(* once it is gone, none (Linux: an empty success; Windows: an error).     *)
ReadMemory ==
  /\ opening = "done" /\ regionsOf # NoProcess
  /\ bytesOf' = IF native = bearer THEN native ELSE NoProcess
  /\ UNCHANGED <<bearer, unborn, opening, backend, native, failure, regionsOf>>

AccessNext ==
  \/ \E p \in Processes : ProcessStarts(p)
  \/ ProcessExits
  \/ OpenChecks \/ OpenOpens \/ OpenWindows \/ Close
  \/ EnumerateRegions \/ ReadMemory

AccessSpec == AccessInit /\ [][AccessNext]_accessVars

-----------------------------------------------------------------------------
(* The inductive invariant: a process has the identifier for one stretch   *)
(* of time, so a process behind a handle that still has it had it when     *)
(* regions were enumerated.                                                *)
AccessInv ==
  /\ AccessTypeOK
  /\ bearer \notin unborn /\ native \notin unborn /\ regionsOf \notin unborn
  /\ native = bearer /\ regionsOf # NoProcess => regionsOf = native
  /\ bytesOf # NoProcess => bytesOf = native /\ regionsOf = native
  /\ opening = "done" <=> native # NoProcess
  /\ opening # "done" => regionsOf = NoProcess /\ bytesOf = NoProcess

(* Bytes are never read from one process at addresses enumerated in        *)
(* another, although on Linux the two go different ways and the identifier *)
(* may have passed on between them.                                        *)
BytesMatchRegions ==
  bytesOf # NoProcess => bytesOf = regionsOf
=============================================================================
