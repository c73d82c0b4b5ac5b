----------------------------- MODULE DirtyFlush -----------------------------
(***************************************************************************)
(* Weak persistence: internal/state/dirtyset.go, flush.go, engine.go and   *)
(* the marks that cmd/resin sets on behalf of the router and the pool.     *)
(*                                                                         *)
(* An object changes in memory and its key is marked dirty; the flush      *)
(* worker drains the marks, reads the current values and writes them to    *)
(* cache.db in one transaction.  An object is abstracted to the number of  *)
(* its last write, 0 when it does not exist.  The order of the two halves  *)
(* of a write differs between the callers:                                 *)
(*                                                                         *)
(*   MarkFirst  the router's hot path and the lease cleaner emit the event *)
(*              inside Compute, before Compute publishes the new value;    *)
(*   MarkLast   the control plane's lease operations and the node pool     *)
(*              publish first and mark after the map's lock is released.   *)
(***************************************************************************)
EXTENDS Naturals, FiniteSets, ConcurrentMap

CONSTANTS
    Keys,
    MarkFirst, MarkLast,  \* goroutines writing in either way
    WritesTo,             \* writer -> keys it may write
    MaxWrites,            \* bound of the writes
    MaxFailures,          \* bound of the failed transactions
    MaxCrashes            \* bound of the crashes

ASSUME FlushAssumption ==
    /\ MarkFirst \cap MarkLast = {}
    /\ WritesTo \in [MarkFirst \cup MarkLast -> SUBSET Keys]
    /\ {MaxWrites, MaxFailures, MaxCrashes} \subseteq Nat

VARIABLES
    mem,       \* the objects in memory
    disk,      \* the rows of cache.db
    dirty,     \* DirtySet.m: key -> operation
    writers,   \* writes in flight
    flush,     \* FlushDirtySets in progress
    writes, failures, crashes

vars == <<mem, disk, dirty, writers, flush, writes, failures, crashes>>

Absent == 0

Ops == {"upsert", "delete"}

Write == [pc : {"remark", "store", "mark"}, key : Keys, val : Nat]

IdleFlush == [pc |-> "idle", drained |-> EmptyMap, batch |-> EmptyMap]

TypeOK ==
    /\ mem \in [Keys -> Nat]
    /\ disk \in [Keys -> Nat]
    /\ IsMap(dirty, Keys, Ops)
    /\ IsMap(writers, MarkFirst \cup MarkLast, Write)
    /\ DOMAIN flush = {"pc", "drained", "batch"}
    /\ flush.pc \in {"idle", "flush"}
    /\ IsMap(flush.drained, Keys, Ops)
    /\ IsMap(flush.batch, Keys, Nat)
    /\ {writes, failures, crashes} \subseteq Nat

Init ==
    /\ mem = [k \in Keys |-> Absent]
    /\ disk = [k \in Keys |-> Absent]
    /\ dirty = EmptyMap
    /\ writers = EmptyMap
    /\ flush = IdleFlush
    /\ writes = 0
    /\ failures = 0
    /\ crashes = 0

-----------------------------------------------------------------------------
\* A MarkFirst writer holds the key's Compute from its mark to its store.
Locked(k) == \E w \in DOMAIN writers \cap MarkFirst : writers[w].key = k

OpFor(val) == IF val = Absent THEN "delete" ELSE "upsert"

\* Mutant: a mark that classifyDirtySet does not know.
MarkTouch(k, op) == dirty' = MapPut(dirty, k, "touch")

\* MarkUpsert or MarkDelete: the last mark of a key wins.
MarkOp(k, op) == dirty' = MapPut(dirty, k, op)

\* A write sets a fresh value, or deletes an object that exists.
NewWrite(w, k, val) ==
    /\ w \notin DOMAIN writers
    /\ k \in WritesTo[w]
    /\ ~Locked(k)
    /\ writes < MaxWrites
    /\ writes' = writes + 1
    /\ val = writes + 1 \/ (val = Absent /\ mem[k] # Absent)

\* routeSticky hit, rotation, creation and abort; the sweep's expiry.
EmitInCompute(w, k, val) ==
    /\ w \in MarkFirst
    /\ NewWrite(w, k, val)
    /\ MarkOp(k, OpFor(val))
    /\ writers' = MapPut(writers, w, [pc |-> "store", key |-> k, val |-> val])
    /\ UNCHANGED <<mem, disk, flush, failures, crashes>>

\* routeSticky replacing a lease: cleanupPreviousLease emits the removal ...
EmitRemoval(w, k, val) ==
    /\ w \in MarkFirst
    /\ mem[k] # Absent
    /\ val # Absent
    /\ NewWrite(w, k, val)
    /\ MarkOp(k, "delete")
    /\ writers' = MapPut(writers, w, [pc |-> "remark", key |-> k, val |-> val])
    /\ UNCHANGED <<mem, disk, flush, failures, crashes>>

\* ... then the creation.
EmitCreate(w) ==
    /\ w \in DOMAIN writers
    /\ writers[w].pc = "remark"
    /\ MarkOp(writers[w].key, "upsert")
    /\ writers' = [writers EXCEPT ![w].pc = "store"]
    /\ UNCHANGED <<mem, disk, flush, writes, failures, crashes>>

\* Compute returns: the value is in the map and the key is free.
ComputeStores(w) ==
    /\ w \in DOMAIN writers
    /\ writers[w].pc = "store"
    /\ mem' = [mem EXCEPT ![writers[w].key] = writers[w].val]
    /\ writers' = MapDelete(writers, w)
    /\ UNCHANGED <<disk, dirty, flush, writes, failures, crashes>>

\* UpsertLease, DeleteLease, AddNodeFromSub, RemoveNodeFromSub: Compute ...
Publish(w, k, val) ==
    /\ w \in MarkLast
    /\ NewWrite(w, k, val)
    /\ mem' = [mem EXCEPT ![k] = val]
    /\ writers' = MapPut(writers, w, [pc |-> "mark", key |-> k, val |-> val])
    /\ UNCHANGED <<disk, dirty, flush, failures, crashes>>

\* ... then the callback that marks the key.
MarkAfter(w) ==
    /\ w \in DOMAIN writers
    /\ writers[w].pc = "mark"
    /\ MarkOp(writers[w].key, OpFor(writers[w].val))
    /\ writers' = MapDelete(writers, w)
    /\ UNCHANGED <<mem, disk, flush, writes, failures, crashes>>

-----------------------------------------------------------------------------
\* Mutant: the worker waits for the threshold and forgets the interval.
DrainAtThreshold ==
    /\ flush.pc = "idle"
    /\ Cardinality(DOMAIN dirty) >= 2
    /\ flush' = [pc |-> "flush", drained |-> dirty, batch |-> EmptyMap]
    /\ dirty' = EmptyMap
    /\ UNCHANGED <<mem, disk, writers, writes, failures, crashes>>

\* The worker skips an empty flush; when it flushes depends on a threshold
\* and an interval, that is on anything.
Drain ==
    /\ flush.pc = "idle"
    /\ dirty # EmptyMap
    /\ flush' = [pc |-> "flush", drained |-> dirty, batch |-> EmptyMap]
    /\ dirty' = EmptyMap
    /\ UNCHANGED <<mem, disk, writers, writes, failures, crashes>>

\* One turn of classifyDirtySet: a delete is taken as marked, an upsert reads
\* the current value, and a missing value is a delete.
Classify(k) ==
    /\ flush.pc = "flush"
    /\ k \in DOMAIN flush.drained \ DOMAIN flush.batch
    /\ flush' = [flush EXCEPT
                   !.batch = MapPut(@, k, IF flush.drained[k] = "delete"
                                          THEN Absent ELSE mem[k])]
    /\ UNCHANGED <<mem, disk, dirty, writers, writes, failures, crashes>>

Classified == flush.pc = "flush" /\ DOMAIN flush.batch = DOMAIN flush.drained

\* FlushTx commits ...
FlushTx ==
    /\ Classified
    /\ disk' = [k \in Keys |-> IF k \in DOMAIN flush.batch
                               THEN flush.batch[k] ELSE disk[k]]
    /\ flush' = IdleFlush
    /\ UNCHANGED <<mem, dirty, writers, writes, failures, crashes>>

\* Mutant: the drained marks overwrite newer ones.
MergeOverwrites ==
    /\ Classified
    /\ failures < MaxFailures
    /\ failures' = failures + 1
    /\ dirty' = [k \in DOMAIN dirty \cup DOMAIN flush.drained |->
                   IF k \in DOMAIN flush.drained THEN flush.drained[k] ELSE dirty[k]]
    /\ flush' = IdleFlush
    /\ UNCHANGED <<mem, disk, writers, writes, crashes>>

\* Mutant: the marks of a failed flush are not merged back.
MergeForgets ==
    /\ Classified
    /\ failures < MaxFailures
    /\ failures' = failures + 1
    /\ flush' = IdleFlush
    /\ UNCHANGED <<mem, disk, dirty, writers, writes, crashes>>

\* ... or fails and Merge restores the marks not set again since the drain.
FlushFails ==
    /\ Classified
    /\ failures < MaxFailures
    /\ failures' = failures + 1
    /\ dirty' = [k \in DOMAIN dirty \cup DOMAIN flush.drained |->
                   IF k \in DOMAIN dirty THEN dirty[k] ELSE flush.drained[k]]
    /\ flush' = IdleFlush
    /\ UNCHANGED <<mem, disk, writers, writes, crashes>>

\* The process dies; bootstrap loads what cache.db holds, marking nothing.
Crash ==
    /\ crashes < MaxCrashes
    /\ crashes' = crashes + 1
    /\ mem' = disk
    /\ dirty' = EmptyMap
    /\ writers' = EmptyMap
    /\ flush' = IdleFlush
    /\ UNCHANGED <<disk, writes, failures>>

-----------------------------------------------------------------------------
WriterStep(w) == EmitCreate(w) \/ ComputeStores(w) \/ MarkAfter(w)

FlushStep ==
    \/ Drain
    \/ \E k \in Keys : Classify(k)
    \/ FlushTx
    \/ FlushFails

Next ==
    \/ \E w \in MarkFirst \cup MarkLast, k \in Keys, v \in 0..MaxWrites :
         EmitInCompute(w, k, v) \/ EmitRemoval(w, k, v) \/ Publish(w, k, v)
    \/ \E w \in MarkFirst \cup MarkLast : WriterStep(w)
    \/ FlushStep
    \/ Crash

Spec == Init /\ [][Next]_vars

\* Writers run on, and the worker's ticker keeps firing.
FairSpec ==
    /\ Spec
    /\ \A w \in MarkFirst \cup MarkLast : WF_vars(WriterStep(w))
    /\ WF_vars(FlushStep)

-----------------------------------------------------------------------------
\* Someone still has to deal with k: a write in flight, a mark, or a flush
\* that drained k's mark and has not committed.
Pending(k) ==
    \/ \E w \in DOMAIN writers : writers[w].key = k
    \/ k \in DOMAIN dirty
    \/ k \in DOMAIN flush.drained

WritersOf(k) == {w \in MarkFirst \cup MarkLast : k \in WritesTo[w]}

\* Keys one goroutine at a time writes, publishing before it marks: nodes that
\* one subscription holds, and their links, written under its opLock.
Serial(k) ==
    /\ WritersOf(k) \subseteq MarkLast
    /\ \A v, w \in WritersOf(k) : v = w

\* No change is forgotten: an object whose row differs from memory has a mark
\* that will reach it.
NothingForgotten == \A k \in Keys : mem[k] # disk[k] => Pending(k)

\* No change of a serially written object is forgotten: not by a failed flush,
\* not by a mark set between drain and commit, not by a crash in between.
SerialNotForgotten ==
    \A k \in Keys : Serial(k) /\ mem[k] # disk[k] => Pending(k)

\* No ghost rows: an object that only the routing hot path and the lease
\* cleaner write does not keep, once removed, a row that no mark will ever
\* delete.  Their marks are set while Compute holds the key, so that no other
\* mark can come between a removal's mark and the removal.
NoGhostRow ==
    \A k \in Keys :
        WritersOf(k) \subseteq MarkFirst /\ mem[k] = Absent /\ disk[k] # Absent
        => Pending(k)

\* When the writes stop, the rows of serially written objects catch up with
\* memory, and removed leases leave cache.db.
EventuallyPersisted ==
    \A k \in Keys :
        /\ Serial(k) => <>[](mem[k] = disk[k])
        /\ WritersOf(k) \subseteq MarkFirst => <>[](mem[k] = Absent => disk[k] = Absent)
=============================================================================
