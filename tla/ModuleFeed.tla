----------------------------- MODULE ModuleFeed -----------------------------
(***************************************************************************)
(* What a client that only listens to onModuleLoaded/onModuleUnloaded is   *)
(* promised (include/rmg/modules/module_monitor.hpp:36-49): the set of     *)
(* module addresses it builds up moves event by event towards a picture of *)
(* the process, and a newer picture is taken only when the last one has    *)
(* been delivered in full.                                                 *)
(***************************************************************************)
CONSTANT Bases   \* addresses at which a module can be loaded

VARIABLES
  loaded,    \* the addresses at which the process has a module
  picture,   \* the addresses the feed is delivering
  known      \* the addresses the client believes to be in use

vars == <<loaded, picture, known>>

Init ==
  /\ loaded \in SUBSET Bases
  /\ picture = {}
  /\ known = {}

(* The process loads and unloads modules as it likes.                      *)
Change ==
  /\ loaded' \in SUBSET Bases
  /\ UNCHANGED <<picture, known>>

TakePicture ==
  /\ known = picture
  /\ picture' = loaded
  /\ UNCHANGED <<loaded, known>>

ReportLoaded(b) ==
  /\ b \in picture \ known
  /\ known' = known \union {b}
  /\ UNCHANGED <<loaded, picture>>

ReportUnloaded(b) ==
  /\ b \in known \ picture
  /\ known' = known \ {b}
  /\ UNCHANGED <<loaded, picture>>

Next ==
  \/ Change
  \/ TakePicture
  \/ \E b \in Bases : ReportLoaded(b) \/ ReportUnloaded(b)

Spec == Init /\ [][Next]_vars
=============================================================================
