---------------------------- MODULE SignalSlots ----------------------------
(***************************************************************************)
(* core::Signal (include/rmg/core/event.hpp): listeners connected and      *)
(* disconnected by any thread, also from inside a listener, while other    *)
(* threads emit. An emission copies the list under mutex_ and calls the    *)
(* copy without it. A listener is known by the identity of its Connection. *)
(***************************************************************************)
EXTENDS Naturals, Sequences

CONSTANTS
  Emitters,         \* threads that use the signal
  NoEmitter,        \* nobody holds mutex_
  MaxConnections,   \* bound: how often connect() is called
  MaxEmissions      \* bound: how often emit() is called

ASSUME SignalAssumption ==
  NoEmitter \notin Emitters /\ MaxConnections \in Nat /\ MaxEmissions \in Nat

VARIABLES
  listeners,   \* listeners_, the identities in the order of the vector
  nextId,      \* nextId_
  holder,      \* the thread that holds mutex_
  emission,    \* per thread: where its emit() is
  snapshot,    \* per thread: the copies not called yet
  heard,       \* per thread: the listeners its emit() has called, in order
  stayed,      \* history: listeners connected ever since the emit() began
  left,        \* history: listeners disconnected before the emit() began
  emissions    \* how often emit() was called

sigVars == <<listeners, nextId, holder, emission, snapshot, heard, stayed, left,
             emissions>>

Ids == 1..MaxConnections
Elements(s) == {s[i] : i \in DOMAIN s}

SignalTypeOK ==
  /\ listeners \in Seq(Ids)
  /\ nextId \in 1..(MaxConnections + 1)
  /\ holder \in Emitters \union {NoEmitter}
  /\ emission \in [Emitters -> {"idle", "locked", "calling", "inside", "waiting", "returning"}]
  /\ snapshot \in [Emitters -> Seq(Ids)]
  /\ heard \in [Emitters -> Seq(Ids)]
  /\ stayed \in [Emitters -> SUBSET Ids]
  /\ left \in [Emitters -> SUBSET Ids]
  /\ emissions \in 0..MaxEmissions

SignalInit ==
  /\ listeners = <<>>
  /\ nextId = 1
  /\ holder = NoEmitter
  /\ emission = [t \in Emitters |-> "idle"]
  /\ snapshot = [t \in Emitters |-> <<>>]
  /\ heard = [t \in Emitters |-> <<>>]
  /\ stayed = [t \in Emitters |-> {}]
  /\ left = [t \in Emitters |-> {}]
  /\ emissions = 0

-----------------------------------------------------------------------------
(* connect() and its like take mutex_, from outside any emission or from   *)
(* the listener that is running, which goes on afterwards.                 *)
LocksBriefly(t) ==
  /\ holder = NoEmitter
  /\ emission[t] \in {"idle", "waiting"}
  /\ emission' = [emission EXCEPT ![t] = IF @ = "waiting" THEN "returning" ELSE "idle"]
  /\ UNCHANGED <<holder, snapshot, heard, left, emissions>>

Connect(t) ==
  /\ nextId \in Ids
  /\ LocksBriefly(t)
  /\ listeners' = Append(listeners, nextId)
  /\ nextId' = nextId + 1
  /\ UNCHANGED stayed

(* std::remove_if keeps the others, in their order.                        *)
Without(s, ids) ==
  LET kept[i \in 0..Len(s)] ==
        IF i = 0 THEN <<>>
        ELSE IF s[i] \in ids THEN kept[i - 1] ELSE Append(kept[i - 1], s[i])
  IN  kept[Len(s)]

(* The erasure of one listener, or of all; the history notes it.           *)
Erase(t, ids) ==
  /\ LocksBriefly(t)
  /\ listeners' = Without(listeners, ids)
  /\ stayed' = [u \in Emitters |-> stayed[u] \ ids]
  /\ UNCHANGED nextId

Disconnect(t, id) == id < nextId /\ Erase(t, {id})
DisconnectAll(t) == Erase(t, Ids)

EmitLocks(t) ==
  /\ emission[t] = "idle" /\ holder = NoEmitter
  /\ emissions < MaxEmissions
  /\ emissions' = emissions + 1
  /\ holder' = t
  /\ emission' = [emission EXCEPT ![t] = "locked"]
  /\ stayed' = [stayed EXCEPT ![t] = Elements(listeners)]
  /\ left' = [left EXCEPT ![t] = (1..(nextId - 1)) \ Elements(listeners)]
  /\ heard' = [heard EXCEPT ![t] = <<>>]
  /\ UNCHANGED <<listeners, nextId, snapshot>>

(* Mutant: the lock is held until the last listener has been called.       *)
EmitCopies_KeepsLock(t) ==
  /\ emission[t] = "locked"
  /\ snapshot' = [snapshot EXCEPT ![t] = listeners]
  /\ emission' = [emission EXCEPT ![t] = "calling"]
  /\ UNCHANGED <<listeners, nextId, holder, heard, stayed, left, emissions>>

EmitCopies(t) ==
  /\ emission[t] = "locked"
  /\ snapshot' = [snapshot EXCEPT ![t] = listeners]
  /\ holder' = NoEmitter
  /\ emission' = [emission EXCEPT ![t] = "calling"]
  /\ UNCHANGED <<listeners, nextId, heard, stayed, left, emissions>>

(* Mutant: the loop goes through the live list by index.                   *)
CallSlot_LiveList(t) ==
  /\ emission[t] = "calling"
  /\ snapshot[t] # <<>>
  /\ LET next == Len(heard[t]) + 1
     IN IF next \in DOMAIN listeners
        THEN /\ heard' = [heard EXCEPT ![t] = Append(@, listeners[next])]
             /\ snapshot' = [snapshot EXCEPT ![t] = SubSeq(listeners, next + 1, Len(listeners))]
             /\ emission' = [emission EXCEPT ![t] = "inside"]
        ELSE /\ snapshot' = [snapshot EXCEPT ![t] = <<>>]
             /\ UNCHANGED <<heard, emission>>
  /\ UNCHANGED <<listeners, nextId, holder, stayed, left, emissions>>

CallSlot(t) ==
  /\ emission[t] = "calling"
  /\ snapshot[t] # <<>>
  /\ heard' = [heard EXCEPT ![t] = Append(@, Head(snapshot[t]))]
  /\ snapshot' = [snapshot EXCEPT ![t] = Tail(@)]
  /\ emission' = [emission EXCEPT ![t] = "inside"]
  /\ UNCHANGED <<listeners, nextId, holder, stayed, left, emissions>>

(* A listener calls connect(), disconnect() or disconnectAll(), once.      *)
SlotCallsBack(t) ==
  /\ emission[t] = "inside"
  /\ emission' = [emission EXCEPT ![t] = "waiting"]
  /\ UNCHANGED <<listeners, nextId, holder, snapshot, heard, stayed, left, emissions>>

SlotReturns(t) ==
  /\ emission[t] \in {"inside", "returning"}
  /\ emission' = [emission EXCEPT ![t] = "calling"]
  /\ UNCHANGED <<listeners, nextId, holder, snapshot, heard, stayed, left, emissions>>

EmitReturns(t) ==
  /\ emission[t] = "calling"
  /\ snapshot[t] = <<>>
  /\ emission' = [emission EXCEPT ![t] = "idle"]
  /\ UNCHANGED <<listeners, nextId, holder, snapshot, heard, stayed, left, emissions>>

EmitStep(t) ==
  EmitCopies(t) \/ CallSlot(t) \/ SlotReturns(t) \/ EmitReturns(t)

ListChange(t) ==
  Connect(t) \/ DisconnectAll(t) \/ \E id \in Ids : Disconnect(t, id)

SignalNext ==
  \E t \in Emitters : ListChange(t) \/ EmitLocks(t) \/ EmitStep(t) \/ SlotCallsBack(t)

(* Threads inside emit() run on, and a listener that waits for a free      *)
(* mutex_ obtains it once the others have stopped contending.              *)
SignalFairness ==
  \A t \in Emitters : /\ WF_sigVars(EmitStep(t))
                      /\ WF_sigVars(emission[t] = "waiting" /\ ListChange(t))

SignalSpec == SignalInit /\ [][SignalNext]_sigVars /\ SignalFairness

-----------------------------------------------------------------------------
(* An emission calls listeners in the order of their connection and none   *)
(* twice; none whose disconnect() had returned before it began; and, by    *)
(* the time it returns, all that were connected from its beginning to its  *)
(* end, whatever was connected or disconnected by listeners and threads    *)
(* meanwhile.                                                              *)
EmissionIsWhole ==
  \A t \in Emitters : emission[t] \notin {"idle", "locked"} =>
    /\ \A i, j \in DOMAIN heard[t] : i < j => heard[t][i] < heard[t][j]
    /\ Elements(heard[t]) \intersect left[t] = {}
    /\ stayed[t] \subseteq Elements(heard[t]) \union Elements(snapshot[t])

(* Every emit() returns, although its listeners connect and disconnect     *)
(* listeners of the same signal: none of them waits for a lock emit()      *)
(* holds, and what they connect does not lengthen the emission.            *)
EveryEmitReturns ==
  \A t \in Emitters : emission[t] = "locked" ~> emission[t] = "idle"
=============================================================================
