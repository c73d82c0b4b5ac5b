-------------------------- MODULE DirtyFlushProofs --------------------------
(***************************************************************************)
(* Proofs about DirtyFlush: type correctness, that no change of a serially *)
(* written object is forgotten, and that a removed lease leaves no ghost   *)
(* row, for all keys, writers and bounds.                                  *)
(***************************************************************************)
EXTENDS DirtyFlush, ConcurrentMapProofs

-----------------------------------------------------------------------------
\* The phase of a write tells which kind of writer is at work, and a removal
\* by the hot path has no creation to announce.
WriterShape ==
    \A w \in DOMAIN writers :
        /\ writers[w].key \in WritesTo[w]
        /\ writers[w].pc = "mark" <=> w \in MarkLast
        /\ writers[w].pc \in {"remark", "store"} <=> w \in MarkFirst
        /\ writers[w].pc = "remark" => writers[w].val # Absent

\* The batch covers drained marks only; an idle worker holds none.
FlushShape ==
    /\ DOMAIN flush.batch \subseteq DOMAIN flush.drained
    /\ flush.pc = "idle" => DOMAIN flush.drained = {}

Busy(k) == \E w \in DOMAIN writers : writers[w].key = k

\* What the newest mark of an object nobody is writing says of it: a delete
\* mark means that it is gone, what was read for the row is what it is.
Settled(k) ==
    /\ k \in DOMAIN dirty => (dirty[k] = "delete" => mem[k] = Absent)
    /\ k \notin DOMAIN dirty /\ k \in DOMAIN flush.drained =>
         /\ flush.drained[k] = "delete" => mem[k] = Absent
         /\ k \in DOMAIN flush.batch => flush.batch[k] = mem[k]
    /\ k \notin DOMAIN dirty /\ k \notin DOMAIN flush.drained => mem[k] = disk[k]

SerialKey(k) ==
    Serial(k) =>
        /\ \A w \in DOMAIN writers : writers[w].key = k => writers[w].val = mem[k]
        /\ ~Busy(k) => Settled(k)

SerialInv == \A k \in Keys : SerialKey(k)

\* The newest mark says delete, down to the row.
Removing(k) ==
    /\ k \in DOMAIN dirty => dirty[k] = "delete"
    /\ k \notin DOMAIN dirty /\ k \in DOMAIN flush.drained =>
         /\ flush.drained[k] = "delete"
         /\ k \in DOMAIN flush.batch => flush.batch[k] = Absent
    /\ k \notin DOMAIN dirty /\ k \notin DOMAIN flush.drained => disk[k] = Absent

\* A mark is left, or the row is about to go, or it is gone.
Leaving(k) ==
    \/ k \in DOMAIN dirty
    \/ /\ k \in DOMAIN flush.drained
       /\ k \in DOMAIN flush.batch => flush.batch[k] = Absent
    \/ k \notin DOMAIN flush.drained /\ disk[k] = Absent

Hot(k) == WritersOf(k) \subseteq MarkFirst

HotKey(k) ==
    Hot(k) =>
        /\ \A v, w \in DOMAIN writers :
             writers[v].key = k /\ writers[w].key = k => v = w
        /\ \A w \in DOMAIN writers :
             writers[w].key = k /\ writers[w].val = Absent => Removing(k)
        /\ ~Busy(k) /\ mem[k] = Absent => Leaving(k)

HotInv == \A k \in Keys : HotKey(k)

Inv == TypeOK /\ WriterShape /\ FlushShape /\ SerialInv /\ HotInv

-----------------------------------------------------------------------------
\* The initial states satisfy the invariant.
LEMMA InvInit == Init => Inv
<1> SUFFICES ASSUME Init PROVE Inv
  OBVIOUS
<1>0. /\ \A K, V : IsMap(EmptyMap, K, V)
      /\ DOMAIN EmptyMap = {}
  BY EmptyMapType
<1>1. TypeOK
  BY <1>0 DEF Init, TypeOK, IdleFlush, Absent
<1>2. WriterShape /\ FlushShape
  BY <1>0 DEF Init, WriterShape, FlushShape, IdleFlush
<1>3. SerialInv
  BY <1>0 DEF Init, SerialInv, SerialKey, Settled, Busy, IdleFlush
<1>4. HotInv
  BY <1>0 DEF Init, HotInv, HotKey, Leaving, Busy, IdleFlush
<1> QED
  BY <1>1, <1>2, <1>3, <1>4 DEF Inv

\* A mark sets one key of the dirty set.
LEMMA MarkFacts ==
    ASSUME TypeOK, NEW k \in Keys, NEW op \in Ops, MarkOp(k, op)
    PROVE  /\ IsMap(dirty', Keys, Ops)
           /\ DOMAIN dirty' = DOMAIN dirty \cup {k}
           /\ dirty'[k] = op
           /\ \A x \in DOMAIN dirty \ {k} : dirty'[x] = dirty[x]
<1>1. IsMap(dirty, Keys, Ops)
  BY DEF TypeOK
<1> QED
  BY <1>1, MapPutType DEF MarkOp

\* The entries of the writers' table.
LEMMA WriterFields ==
    ASSUME TypeOK, NEW w \in DOMAIN writers
    PROVE  /\ w \in MarkFirst \cup MarkLast
           /\ writers[w] \in Write
           /\ writers[w].key \in Keys
           /\ writers[w].val \in Nat
<1>1. IsMap(writers, MarkFirst \cup MarkLast, Write)
  BY DEF TypeOK
<1>2. w \in MarkFirst \cup MarkLast /\ writers[w] \in Write
  BY <1>1, MapValueType
<1> QED
  BY <1>2 DEF Write

\* A write that begins.
LEMMA BeginFacts ==
    ASSUME TypeOK, NEW w \in MarkFirst \cup MarkLast, NEW q \in Write,
           writers' = MapPut(writers, w, q)
    PROVE  /\ IsMap(writers', MarkFirst \cup MarkLast, Write)
           /\ DOMAIN writers' = DOMAIN writers \cup {w}
           /\ writers'[w] = q
           /\ \A v \in DOMAIN writers \ {w} : writers'[v] = writers[v]
<1>1. IsMap(writers, MarkFirst \cup MarkLast, Write)
  BY DEF TypeOK
<1> QED
  BY <1>1 DEF IsMap, MapPut

\* A write that ends.
LEMMA EndFacts ==
    ASSUME TypeOK, NEW w, writers' = MapDelete(writers, w)
    PROVE  /\ IsMap(writers', MarkFirst \cup MarkLast, Write)
           /\ DOMAIN writers' = DOMAIN writers \ {w}
           /\ \A v \in DOMAIN writers \ {w} : writers'[v] = writers[v]
<1>1. IsMap(writers, MarkFirst \cup MarkLast, Write)
  BY DEF TypeOK
<1> QED
  BY <1>1 DEF IsMap, MapDelete

-----------------------------------------------------------------------------
\* A hot-path write that begins by marking its key.
LEMMA BeginHot ==
    ASSUME Inv, NEW w \in MarkFirst, NEW k \in Keys, NEW val \in Nat,
           NEW op \in Ops, NEW pc \in {"remark", "store"},
           NewWrite(w, k, val), MarkOp(k, op),
           writers' = MapPut(writers, w, [pc |-> pc, key |-> k, val |-> val]),
           val = Absent => pc = "store" /\ op = "delete",
           UNCHANGED <<mem, disk, flush, failures, crashes>>
    PROVE  Inv'
<1> DEFINE q == [pc |-> pc, key |-> k, val |-> val]
<1>0. TypeOK /\ WriterShape /\ FlushShape /\ SerialInv /\ HotInv
  BY DEF Inv
<1>1. q \in Write /\ q.key = k /\ q.val = val /\ q.pc = pc
  BY DEF Write
<1>2. /\ IsMap(writers', MarkFirst \cup MarkLast, Write)
      /\ DOMAIN writers' = DOMAIN writers \cup {w}
      /\ writers'[w] = q
      /\ \A v \in DOMAIN writers \ {w} : writers'[v] = writers[v]
  BY <1>0, <1>1, BeginFacts
<1>3. /\ IsMap(dirty', Keys, Ops)
      /\ DOMAIN dirty' = DOMAIN dirty \cup {k}
      /\ dirty'[k] = op
      /\ \A x \in DOMAIN dirty \ {k} : dirty'[x] = dirty[x]
  BY <1>0, MarkFacts
<1>4. /\ w \notin DOMAIN writers
      /\ k \in WritesTo[w]
      /\ ~Locked(k)
      /\ writes' = writes + 1
  BY DEF NewWrite
<1>5. w \notin MarkLast
  BY FlushAssumption
<1>6. TypeOK'
  BY <1>0, <1>2, <1>3, <1>4 DEF TypeOK
<1>7. WriterShape'
  BY <1>0, <1>1, <1>2, <1>4, <1>5 DEF WriterShape
<1>8. FlushShape'
  BY <1>0 DEF FlushShape
<1>9. SerialInv'
  <2> SUFFICES ASSUME NEW x \in Keys, Serial(x) PROVE SerialKey(x)'
    BY DEF SerialInv, SerialKey, Serial, WritersOf
  <2>1. x # k
    BY <1>4, <1>5 DEF Serial, WritersOf
  <2>2. SerialKey(x)
    BY <1>0 DEF SerialInv
  <2> QED
    BY <1>1, <1>2, <1>3, <2>1, <2>2, <1>4 DEF SerialKey, Settled, Busy
<1>10. HotInv'
  <2> SUFFICES ASSUME NEW x \in Keys, Hot(x) PROVE HotKey(x)'
    BY DEF HotInv, HotKey, Hot, WritersOf
  <2>1. HotKey(x)
    BY <1>0 DEF HotInv
  <2>2. CASE x # k
    BY <1>1, <1>2, <1>3, <1>4, <2>1, <2>2 DEF HotKey, Leaving, Removing, Busy
  <2>3. CASE x = k
    <3>1. \A v \in DOMAIN writers : writers[v].key # k
      BY <1>0, <1>4, <2>3, WriterFields
      DEF Locked, WriterShape, Hot, WritersOf
    <3>2. \A v \in DOMAIN writers' : writers'[v].key = k => v = w
      BY <1>2, <3>1
    <3>3. Removing(k)' \/ val # Absent
      BY <1>3 DEF Removing
    <3> QED
      BY <1>1, <1>2, <2>3, <3>2, <3>3 DEF HotKey, Busy
  <2> QED
    BY <2>2, <2>3
<1> QED
  BY <1>6, <1>7, <1>8, <1>9, <1>10 DEF Inv

\* routeSticky and the sweep keep the invariant.
LEMMA EmitInComputeInv ==
    ASSUME Inv, NEW w, NEW k \in Keys, NEW val \in Nat, EmitInCompute(w, k, val)
    PROVE  Inv'
BY BeginHot DEF EmitInCompute, OpFor, Ops

\* So does the first half of a replacement.
LEMMA EmitRemovalInv ==
    ASSUME Inv, NEW w, NEW k \in Keys, NEW val \in Nat, EmitRemoval(w, k, val)
    PROVE  Inv'
BY BeginHot DEF EmitRemoval, Ops

\* The second half of a replacement announces the creation.
LEMMA EmitCreateInv ==
    ASSUME Inv, NEW w, EmitCreate(w)
    PROVE  Inv'
<1> DEFINE k == writers[w].key
<1>0. TypeOK /\ WriterShape /\ FlushShape /\ SerialInv /\ HotInv
  BY DEF Inv
<1>1. w \in DOMAIN writers /\ writers[w].pc = "remark"
  BY DEF EmitCreate
<1>2. w \in MarkFirst /\ w \notin MarkLast /\ k \in WritesTo[w] /\ writers[w].val # Absent
  BY <1>0, <1>1, FlushAssumption DEF WriterShape
<1>3. k \in Keys /\ writers[w] \in Write
  BY <1>0, <1>1, WriterFields
<1>4. /\ IsMap(dirty', Keys, Ops)
      /\ DOMAIN dirty' = DOMAIN dirty \cup {k}
      /\ dirty'[k] = "upsert"
      /\ \A x \in DOMAIN dirty \ {k} : dirty'[x] = dirty[x]
  BY <1>0, <1>3, MarkFacts DEF EmitCreate, Ops
<1>5. /\ writers' = [writers EXCEPT ![w] = [writers[w] EXCEPT !.pc = "store"]]
      /\ [writers[w] EXCEPT !.pc = "store"] \in Write
  BY <1>3 DEF EmitCreate, Write
<1>6. IsMap(writers, MarkFirst \cup MarkLast, Write)
  BY <1>0 DEF TypeOK
<1>7. /\ IsMap(writers', MarkFirst \cup MarkLast, Write)
      /\ DOMAIN writers' = DOMAIN writers
      /\ writers'[w] = [writers[w] EXCEPT !.pc = "store"]
      /\ \A v \in DOMAIN writers \ {w} : writers'[v] = writers[v]
  BY <1>1, <1>5, <1>6 DEF IsMap
<1>8. /\ writers'[w].pc = "store"
      /\ \A v \in DOMAIN writers : writers'[v].key = writers[v].key
      /\ \A v \in DOMAIN writers : writers'[v].val = writers[v].val
  BY <1>3, <1>7 DEF Write
<1>9. UNCHANGED <<mem, disk, flush, writes, failures, crashes>>
  BY DEF EmitCreate
<1>10. TypeOK'
  BY <1>0, <1>4, <1>7, <1>9 DEF TypeOK
<1>11. WriterShape' /\ FlushShape'
  BY <1>0, <1>2, <1>7, <1>8, <1>9 DEF WriterShape, FlushShape
<1>12. SerialInv'
  <2> SUFFICES ASSUME NEW x \in Keys, Serial(x) PROVE SerialKey(x)'
    BY DEF SerialInv, SerialKey, Serial, WritersOf
  <2>1. x # k
    BY <1>2 DEF Serial, WritersOf
  <2>2. SerialKey(x)
    BY <1>0 DEF SerialInv
  <2> QED
    BY <1>4, <1>7, <1>8, <1>9, <2>1, <2>2 DEF SerialKey, Settled, Busy
<1>13. HotInv'
  <2> SUFFICES ASSUME NEW x \in Keys, Hot(x) PROVE HotKey(x)'
    BY DEF HotInv, HotKey, Hot, WritersOf
  <2>1. HotKey(x)
    BY <1>0 DEF HotInv
  <2>2. CASE x # k
    BY <1>4, <1>7, <1>8, <1>9, <2>1, <2>2 DEF HotKey, Leaving, Removing, Busy
  <2>3. CASE x = k
    BY <1>1, <1>2, <1>7, <1>8, <2>1, <2>3 DEF HotKey, Busy
  <2> QED
    BY <2>2, <2>3
<1> QED
  BY <1>10, <1>11, <1>12, <1>13 DEF Inv

\* Compute's return stores the value and frees the key.
LEMMA ComputeStoresInv ==
    ASSUME Inv, NEW w, ComputeStores(w)
    PROVE  Inv'
<1> DEFINE k == writers[w].key
<1>0. TypeOK /\ WriterShape /\ FlushShape /\ SerialInv /\ HotInv
  BY DEF Inv
<1>1. /\ w \in DOMAIN writers /\ writers[w].pc = "store"
      /\ mem' = [mem EXCEPT ![k] = writers[w].val]
      /\ UNCHANGED <<disk, dirty, flush, writes, failures, crashes>>
  BY DEF ComputeStores
<1>2. w \in MarkFirst /\ w \notin MarkLast /\ k \in WritesTo[w]
  BY <1>0, <1>1, FlushAssumption DEF WriterShape
<1>3. k \in Keys /\ writers[w].val \in Nat
  BY <1>0, <1>1, WriterFields
<1>4. /\ IsMap(writers', MarkFirst \cup MarkLast, Write)
      /\ DOMAIN writers' = DOMAIN writers \ {w}
      /\ \A v \in DOMAIN writers \ {w} : writers'[v] = writers[v]
  BY <1>0, EndFacts DEF ComputeStores
<1>5. TypeOK'
  BY <1>0, <1>1, <1>3, <1>4 DEF TypeOK
<1>6. WriterShape' /\ FlushShape'
  BY <1>0, <1>1, <1>4 DEF WriterShape, FlushShape
<1>7. mem \in [Keys -> Nat]
  BY <1>0 DEF TypeOK
<1>8. SerialInv'
  <2> SUFFICES ASSUME NEW x \in Keys, Serial(x) PROVE SerialKey(x)'
    BY DEF SerialInv, SerialKey, Serial, WritersOf
  <2>1. x # k
    BY <1>2 DEF Serial, WritersOf
  <2>2. SerialKey(x)
    BY <1>0 DEF SerialInv
  <2>3. mem'[x] = mem[x]
    BY <1>1, <1>7, <2>1
  <2>4. Busy(x)' <=> Busy(x)
    BY <1>1, <1>4, <2>1 DEF Busy
  <2> QED
    BY <1>1, <1>4, <2>2, <2>3, <2>4 DEF SerialKey, Settled
<1>9. HotInv'
  <2> SUFFICES ASSUME NEW x \in Keys, Hot(x) PROVE HotKey(x)'
    BY DEF HotInv, HotKey, Hot, WritersOf
  <2>1. HotKey(x)
    BY <1>0 DEF HotInv
  <2>2. CASE x # k
    <3>1. mem'[x] = mem[x]
      BY <1>1, <1>7, <2>2
    <3>2. Busy(x)' <=> Busy(x)
      BY <1>1, <1>4, <2>2 DEF Busy
    <3> QED
      BY <1>1, <1>4, <2>1, <3>1, <3>2 DEF HotKey, Leaving, Removing
  <2>3. CASE x = k
    <3>1. mem'[k] = writers[w].val
      BY <1>1, <1>3, <1>7
    <3>2. writers[w].val = Absent => Removing(x)
      BY <1>1, <2>1, <2>3 DEF HotKey
    <3>3. writers[w].val = Absent => Leaving(x)'
      BY <1>1, <3>2 DEF Removing, Leaving
    <3> QED
      BY <1>1, <1>4, <2>1, <2>3, <3>1, <3>3 DEF HotKey
  <2> QED
    BY <2>2, <2>3
<1> QED
  BY <1>5, <1>6, <1>8, <1>9 DEF Inv

-----------------------------------------------------------------------------
\* Publishing a change before marking it keeps the invariant.
LEMMA PublishInv ==
    ASSUME Inv, NEW w, NEW k \in Keys, NEW val \in Nat, Publish(w, k, val)
    PROVE  Inv'
<1> DEFINE q == [pc |-> "mark", key |-> k, val |-> val]
<1>0. TypeOK /\ WriterShape /\ FlushShape /\ SerialInv /\ HotInv
  BY DEF Inv
<1>1. /\ w \in MarkLast /\ w \notin MarkFirst
      /\ w \notin DOMAIN writers
      /\ k \in WritesTo[w]
      /\ writes' = writes + 1
      /\ mem' = [mem EXCEPT ![k] = val]
      /\ writers' = MapPut(writers, w, q)
      /\ UNCHANGED <<disk, dirty, flush, failures, crashes>>
  BY FlushAssumption DEF Publish, NewWrite
<1>2. q \in Write /\ q.key = k /\ q.val = val /\ q.pc = "mark"
  BY DEF Write
<1>3. /\ IsMap(writers', MarkFirst \cup MarkLast, Write)
      /\ DOMAIN writers' = DOMAIN writers \cup {w}
      /\ writers'[w] = q
      /\ \A v \in DOMAIN writers \ {w} : writers'[v] = writers[v]
  BY <1>0, <1>1, <1>2, BeginFacts
<1>4. mem \in [Keys -> Nat]
  BY <1>0 DEF TypeOK
<1>5. TypeOK'
  BY <1>0, <1>1, <1>3 DEF TypeOK
<1>6. WriterShape' /\ FlushShape'
  BY <1>0, <1>1, <1>2, <1>3 DEF WriterShape, FlushShape
<1>7. SerialInv'
  <2> SUFFICES ASSUME NEW x \in Keys, Serial(x) PROVE SerialKey(x)'
    BY DEF SerialInv, SerialKey, Serial, WritersOf
  <2>1. SerialKey(x)
    BY <1>0 DEF SerialInv
  <2>2. CASE x # k
    <3>1. mem'[x] = mem[x]
      BY <1>1, <1>4, <2>2
    <3>2. Busy(x)' <=> Busy(x)
      BY <1>1, <1>2, <1>3, <2>2 DEF Busy
    <3> QED
      BY <1>1, <1>2, <1>3, <2>1, <2>2, <3>1, <3>2 DEF SerialKey, Settled
  <2>3. CASE x = k
    <3>1. mem'[k] = val
      BY <1>1, <1>4
    <3>2. \A v \in DOMAIN writers : writers[v].key # k
      BY <1>0, <1>1, <2>3, WriterFields DEF Serial, WritersOf, WriterShape
    <3>3. Busy(k)'
      BY <1>2, <1>3 DEF Busy
    <3> QED
      BY <1>2, <1>3, <2>3, <3>1, <3>2, <3>3 DEF SerialKey
  <2> QED
    BY <2>2, <2>3
<1>8. HotInv'
  <2> SUFFICES ASSUME NEW x \in Keys, Hot(x) PROVE HotKey(x)'
    BY DEF HotInv, HotKey, Hot, WritersOf
  <2>1. HotKey(x)
    BY <1>0 DEF HotInv
  <2>2. x # k
    BY <1>1 DEF Hot, WritersOf
  <2>3. mem'[x] = mem[x]
    BY <1>1, <1>4, <2>2
  <2>4. Busy(x)' <=> Busy(x)
    BY <1>1, <1>2, <1>3, <2>2 DEF Busy
  <2> QED
    BY <1>1, <1>2, <1>3, <2>1, <2>2, <2>3, <2>4 DEF HotKey, Leaving, Removing
<1> QED
  BY <1>5, <1>6, <1>7, <1>8 DEF Inv

\* The mark that follows a publication says what memory holds.
LEMMA MarkAfterInv ==
    ASSUME Inv, NEW w, MarkAfter(w)
    PROVE  Inv'
<1> DEFINE k == writers[w].key
           op == OpFor(writers[w].val)
<1>0. TypeOK /\ WriterShape /\ FlushShape /\ SerialInv /\ HotInv
  BY DEF Inv
<1>1. /\ w \in DOMAIN writers /\ writers[w].pc = "mark"
      /\ UNCHANGED <<mem, disk, flush, writes, failures, crashes>>
  BY DEF MarkAfter
<1>2. w \in MarkLast /\ w \notin MarkFirst /\ k \in WritesTo[w]
  BY <1>0, <1>1, FlushAssumption DEF WriterShape
<1>3. k \in Keys /\ writers[w].val \in Nat
  BY <1>0, <1>1, WriterFields
<1>4. /\ op \in Ops
      /\ op = "delete" => writers[w].val = Absent
  BY DEF OpFor, Ops
<1>5. /\ IsMap(dirty', Keys, Ops)
      /\ DOMAIN dirty' = DOMAIN dirty \cup {k}
      /\ dirty'[k] = op
      /\ \A x \in DOMAIN dirty \ {k} : dirty'[x] = dirty[x]
  BY <1>0, <1>3, <1>4, MarkFacts DEF MarkAfter
<1>6. /\ IsMap(writers', MarkFirst \cup MarkLast, Write)
      /\ DOMAIN writers' = DOMAIN writers \ {w}
      /\ \A v \in DOMAIN writers \ {w} : writers'[v] = writers[v]
  BY <1>0, EndFacts DEF MarkAfter
<1>7. TypeOK'
  BY <1>0, <1>1, <1>5, <1>6 DEF TypeOK
<1>8. WriterShape' /\ FlushShape'
  BY <1>0, <1>1, <1>6 DEF WriterShape, FlushShape
<1>9. SerialInv'
  <2> SUFFICES ASSUME NEW x \in Keys, Serial(x) PROVE SerialKey(x)'
    BY DEF SerialInv, SerialKey, Serial, WritersOf
  <2>1. SerialKey(x)
    BY <1>0 DEF SerialInv
  <2>2. CASE x # k
    <3>1. Busy(x)' <=> Busy(x)
      BY <1>1, <1>6, <2>2 DEF Busy
    <3> QED
      BY <1>1, <1>5, <1>6, <2>1, <2>2, <3>1 DEF SerialKey, Settled
  <2>3. CASE x = k
    <3>1. writers[w].val = mem[k]
      BY <1>1, <2>1, <2>3 DEF SerialKey
    <3>2. Settled(x)'
      BY <1>1, <1>4, <1>5, <2>3, <3>1 DEF Settled
    <3> QED
      BY <1>1, <1>6, <2>1, <2>3, <3>2 DEF SerialKey
  <2> QED
    BY <2>2, <2>3
<1>10. HotInv'
  <2> SUFFICES ASSUME NEW x \in Keys, Hot(x) PROVE HotKey(x)'
    BY DEF HotInv, HotKey, Hot, WritersOf
  <2>1. HotKey(x)
    BY <1>0 DEF HotInv
  <2>2. x # k
    BY <1>2 DEF Hot, WritersOf
  <2>3. Busy(x)' <=> Busy(x)
    BY <1>1, <1>6, <2>2 DEF Busy
  <2> QED
    BY <1>1, <1>5, <1>6, <2>1, <2>2, <2>3 DEF HotKey, Leaving, Removing
<1> QED
  BY <1>7, <1>8, <1>9, <1>10 DEF Inv

-----------------------------------------------------------------------------
\* Draining moves every mark to the flush.
LEMMA DrainInv ==
    ASSUME Inv, Drain
    PROVE  Inv'
<1>0. TypeOK /\ WriterShape /\ FlushShape /\ SerialInv /\ HotInv
  BY DEF Inv
<1>1. /\ DOMAIN flush.drained = {}
      /\ flush' = [pc |-> "flush", drained |-> dirty, batch |-> EmptyMap]
      /\ dirty' = EmptyMap
      /\ UNCHANGED <<mem, disk, writers, writes, failures, crashes>>
  BY <1>0 DEF Drain, FlushShape
<1>2. /\ \A K, V : IsMap(EmptyMap, K, V)
      /\ DOMAIN EmptyMap = {}
  BY EmptyMapType
<1>3. /\ flush'.pc = "flush" /\ flush'.drained = dirty /\ flush'.batch = EmptyMap
      /\ DOMAIN flush' = {"pc", "drained", "batch"}
  BY <1>1
<1>4. TypeOK'
  BY <1>0, <1>1, <1>2, <1>3 DEF TypeOK
<1>5. WriterShape' /\ FlushShape'
  BY <1>0, <1>1, <1>2, <1>3 DEF WriterShape, FlushShape
<1>6. SerialInv'
  BY <1>0, <1>1, <1>2, <1>3
  DEF SerialInv, SerialKey, Serial, WritersOf, Settled, Busy
<1>7. HotInv'
  BY <1>0, <1>1, <1>2, <1>3
  DEF HotInv, HotKey, Hot, WritersOf, Leaving, Removing, Busy
<1> QED
  BY <1>4, <1>5, <1>6, <1>7 DEF Inv

\* Reading one object for its row.
LEMMA ClassifyInv ==
    ASSUME Inv, NEW k, Classify(k)
    PROVE  Inv'
<1> DEFINE val == IF flush.drained[k] = "delete" THEN Absent ELSE mem[k]
<1>0. TypeOK /\ WriterShape /\ FlushShape /\ SerialInv /\ HotInv
  BY DEF Inv
<1>1. /\ k \in DOMAIN flush.drained \ DOMAIN flush.batch
      /\ flush.pc = "flush"
      /\ flush' = [flush EXCEPT !.batch = MapPut(flush.batch, k, val)]
      /\ UNCHANGED <<mem, disk, dirty, writers, writes, failures, crashes>>
  BY DEF Classify
<1>2. k \in Keys /\ val \in Nat
  BY <1>0, <1>1 DEF TypeOK, IsMap, Absent
<1>3. /\ flush'.pc = flush.pc /\ flush'.drained = flush.drained
      /\ flush'.batch = MapPut(flush.batch, k, val)
      /\ DOMAIN flush' = {"pc", "drained", "batch"}
  BY <1>0, <1>1 DEF TypeOK
<1>4. IsMap(flush.batch, Keys, Nat)
  BY <1>0 DEF TypeOK
<1>5. /\ IsMap(flush'.batch, Keys, Nat)
      /\ DOMAIN flush'.batch = DOMAIN flush.batch \cup {k}
      /\ flush'.batch[k] = val
      /\ \A x \in DOMAIN flush.batch \ {k} : flush'.batch[x] = flush.batch[x]
  <2> HIDE DEF val
  <2> QED
    BY <1>2, <1>3, <1>4 DEF IsMap, MapPut
<1>6. TypeOK'
  BY <1>0, <1>1, <1>3, <1>5 DEF TypeOK
<1>7. WriterShape' /\ FlushShape'
  BY <1>0, <1>1, <1>3, <1>5 DEF WriterShape, FlushShape
<1>8. SerialInv'
  BY <1>0, <1>1, <1>3, <1>5
  DEF SerialInv, SerialKey, Serial, WritersOf, Settled, Busy
<1>9. HotInv'
  BY <1>0, <1>1, <1>3, <1>5
  DEF HotInv, HotKey, Hot, WritersOf, Leaving, Removing, Busy
<1> QED
  BY <1>6, <1>7, <1>8, <1>9 DEF Inv

\* Committing the batch.
LEMMA FlushTxInv ==
    ASSUME Inv, FlushTx
    PROVE  Inv'
<1>0. TypeOK /\ WriterShape /\ FlushShape /\ SerialInv /\ HotInv
  BY DEF Inv
<1>1. /\ DOMAIN flush.batch = DOMAIN flush.drained
      /\ disk' = [k \in Keys |-> IF k \in DOMAIN flush.batch
                                 THEN flush.batch[k] ELSE disk[k]]
      /\ flush' = IdleFlush
      /\ UNCHANGED <<mem, dirty, writers, writes, failures, crashes>>
  BY DEF FlushTx, Classified
<1>2. /\ \A K, V : IsMap(EmptyMap, K, V)
      /\ DOMAIN EmptyMap = {}
  BY EmptyMapType
<1>3. /\ flush'.pc = "idle" /\ flush'.drained = EmptyMap /\ flush'.batch = EmptyMap
      /\ DOMAIN flush' = {"pc", "drained", "batch"}
  BY <1>1 DEF IdleFlush
<1>4. disk' \in [Keys -> Nat]
  BY <1>0, <1>1 DEF TypeOK, IsMap
<1>5. TypeOK'
  BY <1>0, <1>1, <1>2, <1>3, <1>4 DEF TypeOK
<1>6. WriterShape' /\ FlushShape'
  BY <1>0, <1>1, <1>2, <1>3 DEF WriterShape, FlushShape
<1>7. SerialInv'
  BY <1>0, <1>1, <1>2, <1>3
  DEF SerialInv, SerialKey, Serial, WritersOf, Settled, Busy
<1>8. HotInv'
  BY <1>0, <1>1, <1>2, <1>3
  DEF HotInv, HotKey, Hot, WritersOf, Leaving, Removing, Busy
<1> QED
  BY <1>5, <1>6, <1>7, <1>8 DEF Inv

\* A failed transaction gives the marks back.
LEMMA FlushFailsInv ==
    ASSUME Inv, FlushFails
    PROVE  Inv'
<1>0. TypeOK /\ WriterShape /\ FlushShape /\ SerialInv /\ HotInv
  BY DEF Inv
<1>1. /\ failures' = failures + 1
      /\ dirty' = [k \in DOMAIN dirty \cup DOMAIN flush.drained |->
                     IF k \in DOMAIN dirty THEN dirty[k] ELSE flush.drained[k]]
      /\ flush' = IdleFlush
      /\ UNCHANGED <<mem, disk, writers, writes, crashes>>
  BY DEF FlushFails
<1>2. /\ \A K, V : IsMap(EmptyMap, K, V)
      /\ DOMAIN EmptyMap = {}
  BY EmptyMapType
<1>3. /\ flush'.pc = "idle" /\ flush'.drained = EmptyMap /\ flush'.batch = EmptyMap
      /\ DOMAIN flush' = {"pc", "drained", "batch"}
  BY <1>1 DEF IdleFlush
<1>4. IsMap(dirty', Keys, Ops)
  BY <1>0, <1>1 DEF TypeOK, IsMap
<1>5. TypeOK'
  BY <1>0, <1>1, <1>2, <1>3, <1>4 DEF TypeOK
<1>6. WriterShape' /\ FlushShape'
  BY <1>0, <1>1, <1>2, <1>3 DEF WriterShape, FlushShape
<1>7. SerialInv'
  BY <1>0, <1>1, <1>2, <1>3
  DEF SerialInv, SerialKey, Serial, WritersOf, Settled, Busy
<1>8. HotInv'
  BY <1>0, <1>1, <1>2, <1>3
  DEF HotInv, HotKey, Hot, WritersOf, Leaving, Removing, Busy
<1> QED
  BY <1>5, <1>6, <1>7, <1>8 DEF Inv

\* A restart finds memory and rows equal.
LEMMA CrashInv ==
    ASSUME Inv, Crash
    PROVE  Inv'
<1>0. TypeOK
  BY DEF Inv
<1>1. /\ crashes' = crashes + 1
      /\ mem' = disk /\ dirty' = EmptyMap /\ writers' = EmptyMap
      /\ flush' = IdleFlush
      /\ UNCHANGED <<disk, writes, failures>>
  BY DEF Crash
<1>2. /\ \A K, V : IsMap(EmptyMap, K, V)
      /\ DOMAIN EmptyMap = {}
  BY EmptyMapType
<1>3. /\ flush'.pc = "idle" /\ flush'.drained = EmptyMap /\ flush'.batch = EmptyMap
      /\ DOMAIN flush' = {"pc", "drained", "batch"}
  BY <1>1 DEF IdleFlush
<1>4. TypeOK'
  BY <1>0, <1>1, <1>2, <1>3 DEF TypeOK
<1>5. WriterShape' /\ FlushShape'
  BY <1>1, <1>2, <1>3 DEF WriterShape, FlushShape
<1>6. SerialInv'
  BY <1>1, <1>2, <1>3 DEF SerialInv, SerialKey, Settled
<1>7. HotInv'
  BY <1>1, <1>2, <1>3 DEF HotInv, HotKey, Leaving
<1> QED
  BY <1>4, <1>5, <1>6, <1>7 DEF Inv

-----------------------------------------------------------------------------
\* Every step keeps the invariant.
LEMMA InvStep == Inv /\ [Next]_vars => Inv'
<1> SUFFICES ASSUME Inv, [Next]_vars PROVE Inv'
  OBVIOUS
<1>1. CASE UNCHANGED vars
  BY <1>1 DEF vars, Inv, TypeOK, WriterShape, FlushShape, SerialInv, SerialKey,
              Serial, WritersOf, Settled, Busy, HotInv, HotKey, Hot, Leaving, Removing
<1>2. ASSUME NEW w \in MarkFirst \cup MarkLast, NEW k \in Keys, NEW v \in 0..MaxWrites,
             EmitInCompute(w, k, v) \/ EmitRemoval(w, k, v) \/ Publish(w, k, v)
      PROVE  Inv'
  <2>1. v \in Nat
    BY FlushAssumption
  <2> QED
    BY <1>2, <2>1, EmitInComputeInv, EmitRemovalInv, PublishInv
<1>3. ASSUME NEW w, WriterStep(w) PROVE Inv'
  BY <1>3, EmitCreateInv, ComputeStoresInv, MarkAfterInv DEF WriterStep
<1>4. CASE FlushStep
  BY <1>4, DrainInv, ClassifyInv, FlushTxInv, FlushFailsInv DEF FlushStep
<1>5. CASE Crash
  BY <1>5, CrashInv
<1> QED
  BY <1>1, <1>2, <1>3, <1>4, <1>5 DEF Next

\* Every reachable state satisfies the invariant.
THEOREM FlushInvariant == Spec => []Inv
<1> QED
  BY InvInit, InvStep, PTL DEF Spec

\* The flush model is well typed: every drained mark is an upsert or a delete
\* and every row a value.
THEOREM FlushTypeCorrect == Spec => []TypeOK
<1>1. Inv => TypeOK
  BY DEF Inv
<1> QED
  BY <1>1, FlushInvariant, PTL

\* No change of a serially written object is forgotten, whatever flushes fail
\* and whenever the process dies.
THEOREM SerialCorrect == Spec => []SerialNotForgotten
<1>1. Inv => SerialNotForgotten
  BY DEF Inv, SerialInv, SerialKey, Settled, Busy, SerialNotForgotten, Pending
<1> QED
  BY <1>1, FlushInvariant, PTL

\* A lease removed by the hot path or the cleaner leaves no ghost row.
THEOREM GhostCorrect == Spec => []NoGhostRow
<1>1. Inv => NoGhostRow
  BY DEF Inv, HotInv, HotKey, Hot, Leaving, Busy, NoGhostRow, Pending
<1> QED
  BY <1>1, FlushInvariant, PTL
=============================================================================
