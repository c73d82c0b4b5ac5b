---------------------------- MODULE CountingConn ----------------------------
(***************************************************************************)
(* countingConn, the wrapper that reports the traffic of an upstream       *)
(* connection.  The two copy loops of a tunnel read and write through it;  *)
(* each adds its bytes to a pending counter and then flushes, when enough  *)
(* are pending, or arms one deferred flush; the deferred flush is a timer  *)
(* callback of its own; Close flushes what is left and reports the close.  *)
(* A flush swaps the two counters one after the other.                     *)
(*                                                                         *)
(* A transfer counts as one unit.  What is added after the flush of Close  *)
(* is never reported: the code gives up on it and so does the model.       *)
(***************************************************************************)
EXTENDS Naturals, FiniteSets

CONSTANTS
    Copiers,           \* goroutine -> the direction it copies
    DeferredFlushes,   \* timer callbacks that may exist at once
    Closers,           \* goroutines that call Close
    FlushThreshold,    \* trafficFlushThreshold, in units
    MaxTransfers       \* bound: units moved in each direction

Directions == {"read", "write"}

CopyLoops == DOMAIN Copiers
ConnActors == CopyLoops \cup DeferredFlushes \cup Closers

ASSUME ConnAssumption ==
    /\ Copiers \in [DOMAIN Copiers -> Directions]
    /\ IsFiniteSet(ConnActors)
    /\ MaxTransfers \in Nat

VARIABLES
    transferred,       \* direction -> units moved
    pendingBytes,      \* direction -> pendingRead, pendingWrite
    reportedBytes,     \* direction -> units given to OnTrafficDelta
    flushArmed, connClosed,
    connActors         \* actor -> [at, read, write]: its step, units it has swapped out

connVars == <<transferred, pendingBytes, reportedBytes, flushArmed, connClosed, connActors>>

ConnPhases == {"idle", "added", "arm", "armed", "fired", "swapRead", "swapWrite", "report"}

ConnTypeOK ==
    /\ \A count \in {transferred, pendingBytes, reportedBytes} :
         count \in [Directions -> 0..MaxTransfers]
    /\ flushArmed \in BOOLEAN
    /\ connClosed \in BOOLEAN
    /\ connActors \in [ConnActors ->
         [at : ConnPhases, read : 0..MaxTransfers, write : 0..MaxTransfers]]

ConnInit ==
    /\ transferred = [d \in Directions |-> 0]
    /\ pendingBytes = [d \in Directions |-> 0]
    /\ reportedBytes = [d \in Directions |-> 0]
    /\ flushArmed = FALSE
    /\ connClosed = FALSE
    /\ connActors = [a \in ConnActors |-> [at |-> "idle", read |-> 0, write |-> 0]]

ActorAt(a, phase) == connActors[a].at = phase
ActorGoto(a, phase) == connActors' = [connActors EXCEPT ![a].at = phase]

-----------------------------------------------------------------------------
\* Read or Write returned data: it is added to the counter of its direction. A
\* call that was in the kernel may return after Close.
Transfer(c) ==
    LET d == Copiers[c] IN
    /\ ActorAt(c, "idle")
    /\ transferred[d] < MaxTransfers
    /\ transferred' = [transferred EXCEPT ![d] = @ + 1]
    /\ pendingBytes' = [pendingBytes EXCEPT ![d] = @ + 1]
    /\ ActorGoto(c, IF pendingBytes[d] + 1 >= FlushThreshold THEN "swapRead" ELSE "added")
    /\ UNCHANGED <<reportedBytes, flushArmed, connClosed>>

\* armDeferredFlush: not on a closed connection, not when one is armed.
CheckClosed(c) ==
    /\ ActorAt(c, "added")
    /\ ActorGoto(c, IF connClosed THEN "idle" ELSE "arm")
    /\ UNCHANGED <<transferred, pendingBytes, reportedBytes, flushArmed, connClosed>>

ArmDeferredFlush(c) ==
    /\ ActorAt(c, "arm")
    /\ \/ /\ flushArmed
          /\ ActorGoto(c, "idle")
          /\ UNCHANGED flushArmed
       \/ /\ ~flushArmed
          /\ flushArmed' = TRUE
          /\ \E t \in DeferredFlushes :
               /\ ActorAt(t, "idle")
               /\ connActors' = [connActors EXCEPT ![c].at = "idle", ![t].at = "armed"]
    /\ UNCHANGED <<transferred, pendingBytes, reportedBytes, connClosed>>

\* Mutant: the callback does not disarm before it flushes.
FireKeepsArmed(t) ==
    /\ ActorAt(t, "armed")
    /\ ActorGoto(t, "fired")
    /\ UNCHANGED <<transferred, pendingBytes, reportedBytes, flushArmed, connClosed>>

\* The timer callback: disarm, give up on a closed connection, flush.
FireDeferredFlush(t) ==
    /\ ActorAt(t, "armed")
    /\ flushArmed' = FALSE
    /\ ActorGoto(t, "fired")
    /\ UNCHANGED <<transferred, pendingBytes, reportedBytes, connClosed>>

FiredCheckClosed(t) ==
    /\ ActorAt(t, "fired")
    /\ ActorGoto(t, IF connClosed THEN "idle" ELSE "swapRead")
    /\ UNCHANGED <<transferred, pendingBytes, reportedBytes, flushArmed, connClosed>>

\* Close: once, by whoever is first.
CloseConn(c) ==
    /\ c \in Closers
    /\ ActorAt(c, "idle")
    /\ ~connClosed
    /\ connClosed' = TRUE
    /\ ActorGoto(c, "swapRead")
    /\ UNCHANGED <<transferred, pendingBytes, reportedBytes, flushArmed>>

\* flushPendingTraffic: two swaps and the report.
SwapRead(a) ==
    /\ ActorAt(a, "swapRead")
    /\ pendingBytes' = [pendingBytes EXCEPT !["read"] = 0]
    /\ connActors' = [connActors EXCEPT ![a].at = "swapWrite", ![a].read = pendingBytes["read"]]
    /\ UNCHANGED <<transferred, reportedBytes, flushArmed, connClosed>>

\* Mutant: the counter is loaded, and cleared with the report.
LoadWrite(a) ==
    /\ ActorAt(a, "swapWrite")
    /\ connActors' = [connActors EXCEPT ![a].at = "report", ![a].write = pendingBytes["write"]]
    /\ UNCHANGED <<transferred, pendingBytes, reportedBytes, flushArmed, connClosed>>

SwapWrite(a) ==
    /\ ActorAt(a, "swapWrite")
    /\ pendingBytes' = [pendingBytes EXCEPT !["write"] = 0]
    /\ connActors' = [connActors EXCEPT ![a].at = "report", ![a].write = pendingBytes["write"]]
    /\ UNCHANGED <<transferred, reportedBytes, flushArmed, connClosed>>

ReportTraffic(a) ==
    /\ ActorAt(a, "report")
    /\ reportedBytes' = [d \in Directions |-> reportedBytes[d] + connActors[a][d]]
    /\ connActors' = [connActors EXCEPT ![a] = [at |-> "idle", read |-> 0, write |-> 0]]
    /\ UNCHANGED <<transferred, pendingBytes, flushArmed, connClosed>>

-----------------------------------------------------------------------------
ConnNext ==
    \/ \E c \in CopyLoops : Transfer(c) \/ CheckClosed(c) \/ ArmDeferredFlush(c)
    \/ \E t \in DeferredFlushes : FireDeferredFlush(t) \/ FiredCheckClosed(t)
    \/ \E c \in Closers : CloseConn(c)
    \/ \E a \in ConnActors : SwapRead(a) \/ SwapWrite(a) \/ ReportTraffic(a)

ConnSpec == ConnInit /\ [][ConnNext]_connVars

-----------------------------------------------------------------------------
(* Properties *)

\* The units that flushes have swapped out and not yet reported.
SwappedOut(d) ==
    {unit \in ConnActors \X (1..MaxTransfers) : unit[2] <= connActors[unit[1]][d]}

\* Every unit moved is pending, in the hands of one flush, or reported: flushes
\* of both copy loops, the timer and Close never count one twice or drop one
\* (countingConn.flushPendingTraffic).
TrafficCountedOnce ==
    \A d \in Directions :
      transferred[d] = pendingBytes[d] + reportedBytes[d] + Cardinality(SwappedOut(d))

\* While the connection is open, pending units have a flush on its way: no
\* interleaving of the timer and the copy loops leaves them for ever on a
\* connection that goes silent (countingConn.armDeferredFlush).
PendingWillFlush ==
    ~connClosed =>
      /\ pendingBytes["read"] > 0 =>
           \E a \in ConnActors : connActors[a].at \in
             {"added", "arm", "armed", "fired", "swapRead"}
      /\ pendingBytes["write"] > 0 =>
           \E a \in ConnActors : connActors[a].at \in
             {"added", "arm", "armed", "fired", "swapRead", "swapWrite"}

\* Bytes are neither counted twice nor lost, nor left pending for ever.
TrafficNotLost == TrafficCountedOnce /\ PendingWillFlush
=============================================================================
