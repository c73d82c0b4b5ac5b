------------------------- MODULE NodeServicesProofs -------------------------
(***************************************************************************)
(* Proofs about the services around a node, for any number of producers,   *)
(* workers, keys, domains, connections and platforms: the probe queue, the *)
(* latency table, the traffic counters with their deferred flush, the      *)
(* request counts on their way to metrics.db, and the schedule of probes.  *)
(* They share no state; each has its own invariant.                        *)
(***************************************************************************)
EXTENDS ProbeQueue, ProbeSchedule, LatencyTable, CountingConn, MetricsBuckets,
        ConcurrentMapProofs, FiniteSetTheorems

-----------------------------------------------------------------------------
(* Probe queue *)

\* An object in the table is the object of one key, also for those that hold it.
KeysAgree ==
    /\ \A k, l \in DOMAIN table : table[k] = table[l] => k = l
    /\ \A k \in DOMAIN table :
         /\ \A p \in DOMAIN triggers : triggers[p].state = table[k] => triggers[p].key = k
         /\ \A w \in DOMAIN runs : runs[w].state = table[k] => runs[w].key = k

\* An object nobody refers to has no flags, so that it can be given out again.
FreshClean == \A st \in FreshStates : flags[st] = {}

\* A worker has an object from the look-up on, and none before it.
RunsHaveState ==
    \A w \in DOMAIN runs :
        IF runs[w].pc = "load" THEN runs[w].state = NoState ELSE runs[w].state \in States

\* A queued task does not run, and a running one is marked as running.
NotBoth == \A st \in States : ~({"queued", "running"} \subseteq flags[st])
RunsMarked ==
    \A w \in DOMAIN runs : runs[w].pc \in {"exec", "finish"} => "running" \in flags[runs[w].state]

\* Somebody will push a token for the object, clear its mark, or take it up.
Cared(k, st) ==
    \/ Tokens(k) # {}
    \/ \E p \in DOMAIN triggers : triggers[p].state = st /\ triggers[p].pc \in {"push", "drop"}
    \/ \E w \in DOMAIN runs : runs[w].key = k /\ runs[w].pc = "load"
    \/ \E w \in DOMAIN runs : runs[w].state = st /\ runs[w].pc \in {"mark", "push", "drop"}

QueuedCared ==
    ~stopped => \A k \in DOMAIN table : "queued" \in flags[table[k]] => Cared(k, table[k])

QueueInv ==
    /\ QueueTypeOK /\ KeysAgree /\ FreshClean /\ RunsHaveState
    /\ NotBoth /\ RunsMarked /\ OneRunPerState /\ QueuedCared

\* The object of a step is the only one whose flags change.
FlagsAt(st, f) == flags' = [flags EXCEPT ![st] = f]

\* A compare-and-swap changes the flags of one object.
LEMMA FlagsWritten ==
    ASSUME QueueTypeOK, NEW st \in States, NEW f \in SUBSET Flags, FlagsAt(st, f)
    PROVE  /\ flags' \in [States -> SUBSET Flags]
           /\ flags'[st] = f
           /\ \A s \in States \ {st} : flags'[s] = flags[s]
BY DEF QueueTypeOK, FlagsAt

\* Tokens stay where none is taken.
KeepsTokens == \A k \in Keys : Tokens(k) # {} => Tokens(k)' # {}

\* A push adds a token and loses none.
LEMMA PushKeeps ==
    ASSUME QueueTypeOK, NEW high, NEW k \in Keys, Push(high, k)
    PROVE  /\ queue' \in [Priorities -> Seq(Keys)]
           /\ KeepsTokens
           /\ Tokens(k)' # {}
<1>1. PICK pr \in Priorities : pr = Priority(high)
  BY DEF Priority, Priorities
<1>2. queue \in [Priorities -> Seq(Keys)]
  BY DEF QueueTypeOK
<1>3. queue' = [queue EXCEPT ![pr] = Append(queue[pr], k)]
  BY <1>1 DEF Push
<1>4. PICK q \in Seq(Keys) : q = queue[pr]
  BY <1>1, <1>2
<1>5. /\ Append(q, k) \in Seq(Keys)
      /\ Len(Append(q, k)) = Len(q) + 1
      /\ \A i \in 1..Len(q) : Append(q, k)[i] = q[i]
      /\ Append(q, k)[Len(q) + 1] = k
      /\ Len(q) \in Nat
  BY <1>4
<1>6. queue'[pr] = Append(q, k) /\ \A x \in Priorities \ {pr} : queue'[x] = queue[x]
  BY <1>2, <1>3, <1>4
<1>7. queue' \in [Priorities -> Seq(Keys)]
  BY <1>2, <1>3, <1>4, <1>5
<1>8. pr \in Tokens(k)'
  <2>1. Len(q) + 1 \in 1..Len(queue'[pr]) /\ queue'[pr][Len(q) + 1] = k
    BY <1>5, <1>6
  <2> QED
    BY <2>1 DEF Tokens
<1>9. ASSUME NEW l \in Keys, NEW x \in Tokens(l) PROVE x \in Tokens(l)'
  <2>1. PICK i \in 1..Len(queue[x]) : queue[x][i] = l
    BY <1>9 DEF Tokens
  <2>2. x \in Priorities
    BY <1>9 DEF Tokens
  <2>3. i \in 1..Len(queue'[x]) /\ queue'[x][i] = l
    <3>1. CASE x = pr
      BY <1>4, <1>5, <1>6, <2>1, <3>1
    <3>2. CASE x # pr
      BY <1>6, <2>1, <2>2, <3>2
    <3> QED
      BY <3>1, <3>2
  <2> QED
    BY <2>2, <2>3 DEF Tokens
<1> QED
  BY <1>7, <1>8, <1>9 DEF KeepsTokens

\* A trigger that stays, and changes its phase and the flags of its object.
LEMMA TriggerMoves ==
    ASSUME QueueInv, NEW p \in DOMAIN triggers, NEW t \in Trigger,
           triggers' = [triggers EXCEPT ![p] = t],
           t.key = triggers[p].key, t.state = triggers[p].state,
           NEW f \in SUBSET Flags, FlagsAt(t.state, f),
           UNCHANGED <<table, queue, stopped, runs>>,
           ~({"queued", "running"} \subseteq f),
           "running" \in flags[t.state] => "running" \in f,
           "queued" \in f => \/ t.pc \in {"push", "drop"}
                             \/ "queued" \in flags[t.state] /\ triggers[p].pc \notin {"push", "drop"}
    PROVE  QueueInv'
<1>1. PICK st \in States : st = t.state
  BY DEF Trigger
<1>2. /\ DOMAIN triggers' = DOMAIN triggers /\ triggers'[p] = t
      /\ \A q \in DOMAIN triggers \ {p} : triggers'[q] = triggers[q]
      /\ triggers[p].state = st
  BY <1>1
<1>3. /\ flags' \in [States -> SUBSET Flags] /\ flags'[st] = f
      /\ \A s \in States \ {st} : flags'[s] = flags[s]
  BY <1>1, FlagsWritten DEF QueueInv
<1>4. IsMap(triggers', Producers, Trigger)
  BY DEF QueueInv, QueueTypeOK, IsMap
<1>5. QueueTypeOK'
  BY <1>3, <1>4 DEF QueueInv, QueueTypeOK
<1>6. KeysAgree' /\ RunsHaveState'
  BY <1>2 DEF QueueInv, KeysAgree, RunsHaveState
<1>7. FreshClean'
  <2>1. \A s : Holders(s)' = Holders(s)
    BY <1>1, <1>2 DEF Holders
  <2>2. FreshStates' = FreshStates
    BY <2>1 DEF FreshStates, InTable
  <2>3. st \notin FreshStates
    BY <1>2 DEF FreshStates, Holders
  <2> QED
    BY <1>3, <2>2, <2>3 DEF QueueInv, FreshClean, FreshStates
<1>8. NotBoth'
  BY <1>3 DEF QueueInv, NotBoth
<1>9. RunsMarked'
  BY <1>1, <1>3 DEF QueueInv, RunsMarked, RunsHaveState
<1>10. OneRunPerState'
  BY DEF QueueInv, OneRunPerState
<1>11. QueuedCared'
  <2>1. SUFFICES ASSUME ~stopped, NEW k \in DOMAIN table, "queued" \in flags'[table[k]]
                 PROVE  Cared(k, table[k])'
    BY DEF QueuedCared
  <2>2. PICK s \in States : s = table[k]
    BY DEF QueueInv, QueueTypeOK, IsMap
  <2>3. Tokens(k)' = Tokens(k)
    BY DEF Tokens
  <2>4. CASE s = st /\ t.pc \in {"push", "drop"}
    BY <1>1, <1>2, <2>2, <2>4 DEF Cared
  <2>5. CASE "queued" \in flags[s] /\ (s = st => triggers[p].pc \notin {"push", "drop"})
    <3>1. Cared(k, s)
      BY <2>1, <2>2, <2>5 DEF QueueInv, QueuedCared
    <3>2. (\E q \in DOMAIN triggers : triggers[q].state = s /\ triggers[q].pc \in {"push", "drop"})
            => \E q \in DOMAIN triggers' : triggers'[q].state = s /\ triggers'[q].pc \in {"push", "drop"}
      BY <1>2, <2>5
    <3>3. Cared(k, s)'
      BY <2>3, <3>1, <3>2 DEF Cared
    <3> QED
      BY <2>2, <3>3 DEF Cared
  <2> QED
    BY <1>1, <1>3, <2>1, <2>2, <2>4, <2>5
<1> QED
  BY <1>5, <1>6, <1>7, <1>8, <1>9, <1>10, <1>11 DEF QueueInv

\* A trigger that leaves: with the object in its table or not, with a token
\* pushed or not.
LEMMA TriggerEnds ==
    ASSUME QueueInv, NEW p \in DOMAIN triggers, NEW key, key = triggers[p].key,
           NEW f \in SUBSET Flags, TriggerLeaves(p, f),
           UNCHANGED <<stopped, runs>>,
           queue' \in [Priorities -> Seq(Keys)], KeepsTokens,
           \/ table' = table
           \/ /\ f = {}
              /\ \E k \in DOMAIN table :
                   table[k] = triggers[p].state /\ table' = MapDelete(table, k),
           ~({"queued", "running"} \subseteq f),
           "running" \in flags[triggers[p].state] => "running" \in f,
           "queued" \in f => \/ Tokens(key)' # {}
                             \/ /\ "queued" \in flags[triggers[p].state]
                                /\ triggers[p].pc \notin {"push", "drop"}
    PROVE  QueueInv'
<1>1. PICK st \in States : st = triggers[p].state
  BY DEF QueueInv, QueueTypeOK, IsMap, Trigger
<1>2. PICK g \in SUBSET Flags : g = Left(p, st, f) /\ g \in {f, {}}
  BY DEF Left
<1>3. FlagsAt(st, g)
  BY <1>1, <1>2 DEF TriggerLeaves, FlagsAt
<1>4. /\ flags' \in [States -> SUBSET Flags] /\ flags'[st] = g
      /\ \A s \in States \ {st} : flags'[s] = flags[s]
  BY <1>3, FlagsWritten DEF QueueInv
<1>5. /\ IsMap(triggers', Producers, Trigger) /\ DOMAIN triggers' = DOMAIN triggers \ {p}
      /\ \A q \in DOMAIN triggers \ {p} : triggers'[q] = triggers[q]
  BY DEF TriggerLeaves, QueueInv, QueueTypeOK, IsMap, MapDelete
<1>6. /\ IsMap(table', Keys, States) /\ DOMAIN table' \subseteq DOMAIN table
      /\ \A k \in DOMAIN table' : table'[k] = table[k]
      /\ \A k \in DOMAIN table \ DOMAIN table' : table[k] = st /\ f = {}
  BY <1>1 DEF QueueInv, QueueTypeOK, IsMap, MapDelete
<1>7. QueueTypeOK'
  BY <1>4, <1>5, <1>6 DEF QueueInv, QueueTypeOK
<1>8. KeysAgree'
  BY <1>5, <1>6 DEF QueueInv, KeysAgree
<1>9. RunsHaveState' /\ OneRunPerState'
  BY DEF QueueInv, RunsHaveState, OneRunPerState
<1>10. FreshClean'
  <2>1. SUFFICES ASSUME NEW s \in States, ~InTable(s)', Holders(s)' = {} PROVE flags'[s] = {}
    BY DEF FreshClean, FreshStates
  <2>2. Holders(s) \subseteq {p} /\ (s # st => Holders(s) = {}) /\ (s = st => Holders(s) = {p})
    BY <1>1, <1>5, <2>1 DEF Holders
  <2>3. s # st => ~InTable(s)
    BY <1>6, <2>1 DEF InTable
  <2>4. CASE s # st
    BY <1>4, <2>2, <2>3, <2>4 DEF QueueInv, FreshClean, FreshStates
  <2>5. CASE s = st
    <3>1. CASE InTable(st)
      <4>1. PICK k \in DOMAIN table : table[k] = st
        BY <3>1 DEF InTable
      <4>2. k \notin DOMAIN table'
        BY <1>6, <2>1, <2>5, <4>1 DEF InTable
      <4> QED
        BY <1>2, <1>4, <1>6, <2>5, <4>1, <4>2
    <3>2. CASE ~InTable(st)
      BY <1>2, <1>4, <2>2, <2>5, <3>2 DEF Left
    <3> QED
      BY <3>1, <3>2
  <2> QED
    BY <2>4, <2>5
<1>11. NotBoth'
  BY <1>2, <1>4 DEF QueueInv, NotBoth
<1>12. RunsMarked'
  <2>1. SUFFICES ASSUME NEW w \in DOMAIN runs, runs[w].pc \in {"exec", "finish"}
                 PROVE  "running" \in flags'[runs[w].state]
    BY DEF RunsMarked
  <2>2. "running" \in flags[runs[w].state] /\ runs[w].state \in States
    BY <2>1 DEF QueueInv, RunsMarked, RunsHaveState
  <2>3. CASE runs[w].state = st
    <3>1. w # p
      BY QueueAssumption DEF QueueInv, QueueTypeOK, IsMap
    <3>2. w \in Holders(st)
      BY <2>3 DEF Holders
    <3> QED
      BY <1>1, <1>2, <1>4, <2>2, <2>3, <3>1, <3>2 DEF Left
  <2> QED
    BY <1>4, <2>2, <2>3
<1>13. QueuedCared'
  <2>1. SUFFICES ASSUME ~stopped, NEW k \in DOMAIN table', "queued" \in flags'[table'[k]]
                 PROVE  Cared(k, table[k])'
    BY DEF QueuedCared
  <2>2. PICK s \in States : s = table[k] /\ s = table'[k] /\ k \in DOMAIN table /\ k \in Keys
    BY <1>6, <2>1 DEF QueueInv, QueueTypeOK, IsMap
  <2>3. CASE s = st /\ Tokens(key)' # {}
    <3>1. key = k
      BY <1>1, <2>2, <2>3 DEF QueueInv, KeysAgree
    <3> QED
      BY <2>3, <3>1 DEF Cared
  <2>4. CASE "queued" \in flags[s] /\ (s = st => triggers[p].pc \notin {"push", "drop"})
    <3>1. Cared(k, s)
      BY <2>1, <2>2, <2>4 DEF QueueInv, QueuedCared
    <3>2. (\E q \in DOMAIN triggers : triggers[q].state = s /\ triggers[q].pc \in {"push", "drop"})
            => \E q \in DOMAIN triggers' : triggers'[q].state = s /\ triggers'[q].pc \in {"push", "drop"}
      BY <1>1, <1>5, <2>4
    <3>3. Tokens(k) # {} => Tokens(k)' # {}
      BY <2>2 DEF KeepsTokens
    <3>4. Cared(k, s)'
      BY <3>1, <3>2, <3>3 DEF Cared
    <3> QED
      BY <2>2, <3>4 DEF Cared
  <2> QED
    BY <1>1, <1>2, <1>4, <2>1, <2>2, <2>3, <2>4
<1> QED
  BY <1>7, <1>8, <1>9, <1>10, <1>11, <1>12, <1>13 DEF QueueInv

\* A worker that holds a table's object works for its key.
LEMMA KeyOfRun ==
    ASSUME KeysAgree, NEW w \in DOMAIN runs, NEW k \in DOMAIN table, runs[w].state = table[k]
    PROVE  runs[w].key = k
BY DEF KeysAgree

\* A worker that stays with its object, and changes its phase and the flags.
LEMMA RunMoves ==
    ASSUME QueueInv, NEW w \in DOMAIN runs, NEW r \in Run,
           runs' = [runs EXCEPT ![w] = r],
           r.key = runs[w].key, r.state = runs[w].state,
           runs[w].pc # "load", r.pc # "load",
           NEW f \in SUBSET Flags, FlagsAt(r.state, f),
           UNCHANGED <<table, stopped, triggers>>,
           queue' \in [Priorities -> Seq(Keys)], KeepsTokens,
           ~({"queued", "running"} \subseteq f),
           r.pc \in {"exec", "finish"} =>
               /\ "running" \in f
               /\ runs[w].pc \in {"exec", "finish"} \/ "running" \notin flags[r.state],
           "running" \in flags[r.state] /\ "running" \notin f => runs[w].pc \in {"exec", "finish"},
           "queued" \in f => \/ r.pc \in {"mark", "push", "drop"}
                             \/ Tokens(r.key)' # {}
                             \/ /\ "queued" \in flags[r.state]
                                /\ runs[w].pc \notin {"mark", "push", "drop"}
    PROVE  QueueInv'
<1>1. PICK st \in States : st = r.state /\ st = runs[w].state
  BY DEF QueueInv, RunsHaveState
<1>2. /\ DOMAIN runs' = DOMAIN runs /\ runs'[w] = r
      /\ \A v \in DOMAIN runs \ {w} : runs'[v] = runs[v]
  OBVIOUS
<1>3. /\ flags' \in [States -> SUBSET Flags] /\ flags'[st] = f
      /\ \A s \in States \ {st} : flags'[s] = flags[s]
  BY <1>1, FlagsWritten DEF QueueInv
<1>4. IsMap(runs', ProbeWorkers, Run)
  BY DEF QueueInv, QueueTypeOK, IsMap
<1>5. QueueTypeOK'
  BY <1>3, <1>4 DEF QueueInv, QueueTypeOK
<1>6. KeysAgree'
  BY <1>1, <1>2 DEF QueueInv, KeysAgree
<1>7. RunsHaveState'
  BY <1>1, <1>2 DEF QueueInv, RunsHaveState
<1>8. FreshClean'
  <2>1. \A s : Holders(s)' = Holders(s)
    BY <1>1, <1>2 DEF Holders
  <2>2. FreshStates' = FreshStates
    BY <2>1 DEF FreshStates, InTable
  <2>3. st \notin FreshStates
    BY <1>1 DEF FreshStates, Holders
  <2> QED
    BY <1>3, <2>2, <2>3 DEF QueueInv, FreshClean, FreshStates
<1>9. NotBoth'
  BY <1>3 DEF QueueInv, NotBoth
<1>10. \A v \in DOMAIN runs : runs[v].pc \in {"exec", "finish"} => runs[v].state \in States
  BY DEF QueueInv, RunsHaveState
<1>11. RunsMarked'
  <2>1. SUFFICES ASSUME NEW v \in DOMAIN runs, runs'[v].pc \in {"exec", "finish"}
                 PROVE  "running" \in flags'[runs'[v].state]
    BY <1>2 DEF RunsMarked
  <2>2. CASE v = w
    BY <1>1, <1>2, <1>3, <2>1, <2>2
  <2>3. CASE v # w
    <3>1. runs'[v] = runs[v] /\ "running" \in flags[runs[v].state]
      BY <1>2, <2>1, <2>3 DEF QueueInv, RunsMarked
    <3>2. runs[v].state = st => runs[w].pc \notin {"exec", "finish"}
      BY <1>1, <2>1, <2>3, <3>1 DEF QueueInv, OneRunPerState, QueueTypeOK, IsMap
    <3> QED
      BY <1>1, <1>3, <1>10, <2>1, <3>1, <3>2
  <2> QED
    BY <2>2, <2>3
<1>12. OneRunPerState'
  <2>1. SUFFICES ASSUME NEW u \in DOMAIN runs, NEW v \in DOMAIN runs, u # v,
                        runs'[u].pc \in {"exec", "finish"}, runs'[v].pc \in {"exec", "finish"},
                        runs'[u].state = runs'[v].state
                 PROVE  FALSE
    BY <1>2 DEF OneRunPerState
  <2>2. u = w \/ v = w
    BY <1>2, <2>1 DEF QueueInv, OneRunPerState, QueueTypeOK, IsMap
  <2>3. PICK x \in DOMAIN runs : x # w /\ runs[x].pc \in {"exec", "finish"} /\ runs[x].state = st
    BY <1>1, <1>2, <2>1, <2>2
  <2>4. runs[w].pc \notin {"exec", "finish"}
    BY <1>1, <2>3 DEF QueueInv, OneRunPerState, QueueTypeOK, IsMap
  <2>5. "running" \in flags[st]
    BY <2>3 DEF QueueInv, RunsMarked
  <2> QED
    BY <1>1, <1>2, <2>1, <2>2, <2>4, <2>5
<1>13. QueuedCared'
  <2>1. SUFFICES ASSUME ~stopped, NEW k \in DOMAIN table, "queued" \in flags'[table[k]]
                 PROVE  Cared(k, table[k])'
    BY DEF QueuedCared
  <2>2. PICK s \in States : s = table[k] /\ k \in Keys
    BY DEF QueueInv, QueueTypeOK, IsMap
  <2>3. CASE s = st /\ r.pc \in {"mark", "push", "drop"}
    BY <1>1, <1>2, <2>2, <2>3 DEF Cared
  <2>4. CASE s = st /\ Tokens(r.key)' # {}
    <3>1. runs[w].key = k
      BY <1>1, <2>2, <2>4, KeyOfRun DEF QueueInv
    <3>2. r.key = k
      BY <3>1
    <3> QED
      BY <2>4, <3>2 DEF Cared
  <2>5. CASE "queued" \in flags[s] /\ (s = st => runs[w].pc \notin {"mark", "push", "drop"})
    <3>1. Cared(k, s)
      BY <2>1, <2>2, <2>5 DEF QueueInv, QueuedCared
    <3>2. (\E v \in DOMAIN runs : runs[v].state = s /\ runs[v].pc \in {"mark", "push", "drop"})
            => \E v \in DOMAIN runs' : runs'[v].state = s /\ runs'[v].pc \in {"mark", "push", "drop"}
      BY <1>1, <1>2, <2>5
    <3>3. (\E v \in DOMAIN runs : runs[v].key = k /\ runs[v].pc = "load")
            => \E v \in DOMAIN runs' : runs'[v].key = k /\ runs'[v].pc = "load"
      BY <1>2
    <3>4. Tokens(k) # {} => Tokens(k)' # {}
      BY <2>2 DEF KeepsTokens
    <3>5. Cared(k, s)'
      BY <3>1, <3>2, <3>3, <3>4 DEF Cared
    <3> QED
      BY <2>2, <3>5 DEF Cared
  <2> QED
    BY <1>1, <1>3, <2>1, <2>2, <2>3, <2>4, <2>5
<1> QED
  BY <1>5, <1>6, <1>7, <1>8, <1>9, <1>11, <1>12, <1>13 DEF QueueInv

\* What a phase change of a trigger writes.
LEMMA TriggerAdvances ==
    ASSUME QueueTypeOK, NEW p \in DOMAIN triggers,
           NEW phase \in {"cas", "push", "upgrade", "revert", "drop", "delete"},
           TriggerGoto(p, phase)
    PROVE  \E t \in Trigger :
             /\ triggers' = [triggers EXCEPT ![p] = t]
             /\ t.pc = phase /\ t.key = triggers[p].key /\ t.state = triggers[p].state
<1>1. triggers[p] \in Trigger
  BY MapValueType DEF QueueTypeOK
<1>2. [triggers[p] EXCEPT !.pc = phase] \in Trigger
  BY <1>1 DEF Trigger
<1>3. triggers' = [triggers EXCEPT ![p] = [triggers[p] EXCEPT !.pc = phase]]
  BY DEF TriggerGoto
<1>4. /\ [triggers[p] EXCEPT !.pc = phase].pc = phase
      /\ [triggers[p] EXCEPT !.pc = phase].key = triggers[p].key
      /\ [triggers[p] EXCEPT !.pc = phase].state = triggers[p].state
  BY <1>1 DEF Trigger
<1> QED
  BY <1>2, <1>3, <1>4

\* The state of a trigger: an object and its flags.
LEMMA TriggerFacts ==
    ASSUME QueueTypeOK, NEW p \in DOMAIN triggers
    PROVE  /\ triggers[p].state \in States /\ triggers[p].key \in Keys
           /\ triggers[p] \in Trigger /\ flags[triggers[p].state] \in SUBSET Flags
<1>1. triggers[p] \in Trigger
  BY MapValueType DEF QueueTypeOK
<1> QED
  BY <1>1 DEF Trigger, QueueTypeOK

\* An untouched queue keeps its tokens.
LEMMA SameQueueKeeps ==
    ASSUME QueueTypeOK, queue' = queue
    PROVE  KeepsTokens /\ queue' \in [Priorities -> Seq(Keys)]
BY DEF KeepsTokens, Tokens, QueueTypeOK

\* A trigger marks the object it found, queued or dirty.
LEMMA TriggerCasKeeps ==
    ASSUME QueueInv, NEW p, TriggerCas(p)
    PROVE  QueueInv'
<1>1. /\ p \in DOMAIN triggers /\ triggers[p].pc = "cas" /\ QueueTypeOK
      /\ UNCHANGED <<table, queue, stopped, runs>>
  BY DEF TriggerCas, TriggerAt, QueueInv
<1>2. PICK st \in States : st = triggers[p].state /\ flags[st] \in SUBSET Flags
  BY <1>1, TriggerFacts
<1>3. NotBoth
  BY DEF QueueInv
<1>4. CASE /\ "running" \notin flags[st] /\ "queued" \in flags[st]
           /\ flags' = [flags EXCEPT ![st] = @ \cup {"queuedHigh"}]
           /\ TriggerGoto(p, "upgrade")
  <2>1. PICK t \in Trigger :
          /\ triggers' = [triggers EXCEPT ![p] = t]
          /\ t.pc = "upgrade" /\ t.key = triggers[p].key /\ t.state = triggers[p].state
    BY <1>1, <1>4, TriggerAdvances
  <2>2. PICK f \in SUBSET Flags : f = flags[st] \cup {"queuedHigh"}
    BY <1>2 DEF Flags
  <2>3. FlagsAt(st, f)
    BY <1>4, <2>2 DEF FlagsAt
  <2> QED
    BY <1>1, <1>2, <1>3, <1>4, <2>1, <2>2, <2>3, TriggerMoves DEF NotBoth
<1>5. CASE /\ flags[st] \cap {"running", "queued"} = {}
           /\ flags' = [flags EXCEPT ![st] = (@ \ {"queuedHigh"}) \cup {"queued"}
                                                \cup HighFlag(triggers[p].high, "queuedHigh")]
           /\ TriggerGoto(p, "push")
  <2>1. PICK t \in Trigger :
          /\ triggers' = [triggers EXCEPT ![p] = t]
          /\ t.pc = "push" /\ t.key = triggers[p].key /\ t.state = triggers[p].state
    BY <1>1, <1>5, TriggerAdvances
  <2>2. PICK f \in SUBSET Flags : f = (flags[st] \ {"queuedHigh"}) \cup {"queued"}
                                         \cup HighFlag(triggers[p].high, "queuedHigh")
    BY <1>2 DEF Flags, HighFlag
  <2>3. FlagsAt(st, f)
    BY <1>5, <2>2 DEF FlagsAt
  <2>4. "running" \notin f /\ "running" \notin flags[st]
    BY <1>5, <2>2 DEF HighFlag
  <2> QED
    BY <1>1, <1>2, <2>1, <2>3, <2>4, TriggerMoves
<1>6. CASE TriggerLeaves(p, flags[st] \cup {"dirty"} \cup HighFlag(triggers[p].high, "dirtyHigh"))
  <2>1. PICK f \in SUBSET Flags :
          f = flags[st] \cup {"dirty"} \cup HighFlag(triggers[p].high, "dirtyHigh")
    BY <1>2 DEF Flags, HighFlag
  <2>2. TriggerLeaves(p, f)
    BY <1>6, <2>1
  <2>3. ("queued" \in f <=> "queued" \in flags[st]) /\ ("running" \in f <=> "running" \in flags[st])
    BY <2>1 DEF HighFlag
  <2>4. ~({"queued", "running"} \subseteq f)
    BY <1>2, <1>3, <2>3 DEF NotBoth
  <2>5. PICK key : key = triggers[p].key
    OBVIOUS
  <2>6. KeepsTokens /\ queue' \in [Priorities -> Seq(Keys)]
    BY <1>1, SameQueueKeeps
  <2> QED
    BY <1>1, <1>2, <2>2, <2>3, <2>4, <2>5, <2>6, TriggerEnds
<1> QED
  BY <1>2, <1>4, <1>5, <1>6 DEF TriggerCas

\* The rest of a trigger: the token is pushed or the mark is taken back.
LEMMA TriggerLeavesSame ==
    ASSUME QueueInv, NEW p \in DOMAIN triggers, NEW key, key = triggers[p].key,
           TriggerLeaves(p, flags[triggers[p].state]),
           UNCHANGED <<table, stopped, runs>>,
           queue' \in [Priorities -> Seq(Keys)], KeepsTokens,
           Tokens(key)' # {}
    PROVE  QueueInv'
<1>1. PICK st \in States : st = triggers[p].state /\ flags[st] \in SUBSET Flags
  BY TriggerFacts DEF QueueInv
<1>2. PICK f \in SUBSET Flags : f = flags[st]
  BY <1>1
<1>3. TriggerLeaves(p, f)
  BY <1>1, <1>2
<1>4. ~({"queued", "running"} \subseteq f)
  BY <1>2 DEF QueueInv, NotBoth
<1> QED
  BY <1>1, <1>2, <1>3, <1>4, TriggerEnds

\* A trigger moves on without touching flags, table or queue.
LEMMA TriggerStays ==
    ASSUME QueueInv, NEW p \in DOMAIN triggers,
           NEW phase \in {"revert", "drop"}, TriggerGoto(p, phase),
           phase = "revert" => triggers[p].pc = "upgrade",
           UNCHANGED <<flags, table, queue, stopped, runs>>
    PROVE  QueueInv'
<1>1. PICK st \in States : st = triggers[p].state /\ flags[st] \in SUBSET Flags
  BY TriggerFacts DEF QueueInv
<1>2. PICK t \in Trigger :
        /\ triggers' = [triggers EXCEPT ![p] = t]
        /\ t.pc = phase /\ t.key = triggers[p].key /\ t.state = triggers[p].state
  BY TriggerAdvances DEF QueueInv
<1>3. PICK f \in SUBSET Flags : f = flags[st]
  BY <1>1
<1>4. FlagsAt(st, f)
  BY <1>3 DEF FlagsAt, QueueInv, QueueTypeOK
<1>5. ~({"queued", "running"} \subseteq f)
  BY <1>3 DEF QueueInv, NotBoth
<1> QED
  BY <1>1, <1>2, <1>3, <1>4, <1>5, TriggerMoves

\* A trigger pushes its token, or an urgent one beside it.
LEMMA TriggerPushKeeps ==
    ASSUME QueueInv, NEW p, TriggerPush(p) \/ TriggerUpgrade(p)
    PROVE  QueueInv'
<1>1. /\ p \in DOMAIN triggers /\ QueueTypeOK /\ triggers[p].pc \in {"push", "upgrade"}
      /\ UNCHANGED <<table, stopped, runs>>
  BY DEF TriggerPush, TriggerUpgrade, TriggerAt, QueueInv
<1>2. PICK key \in Keys : key = triggers[p].key
  BY <1>1, TriggerFacts
<1>3. PICK high : high = IF triggers[p].pc = "push" THEN triggers[p].high ELSE TRUE
  OBVIOUS
<1>4. CASE Push(high, key) /\ TriggerLeaves(p, flags[triggers[p].state])
  <2>1. queue' \in [Priorities -> Seq(Keys)] /\ KeepsTokens /\ Tokens(key)' # {}
    BY <1>1, <1>4, PushKeeps
  <2> QED
    BY <1>1, <1>2, <1>4, <2>1, TriggerLeavesSame
<1>5. CASE /\ UNCHANGED <<queue, flags>>
           /\ \/ triggers[p].pc = "upgrade" /\ TriggerGoto(p, "revert")
              \/ TriggerGoto(p, "drop")
  BY <1>1, <1>5, TriggerStays
<1> QED
  BY <1>2, <1>3, <1>4, <1>5 DEF TriggerPush, TriggerUpgrade, TriggerAt

\* A full queue: the trigger is about to take its mark back.
LEMMA TriggerRevertKeeps ==
    ASSUME QueueInv, NEW p, TriggerRevert(p)
    PROVE  QueueInv'
<1>1. /\ p \in DOMAIN triggers /\ QueueTypeOK /\ triggers[p].pc = "revert"
      /\ UNCHANGED <<table, queue, stopped, runs>>
  BY DEF TriggerRevert, TriggerAt, QueueInv
<1>2. PICK st \in States :
        st = triggers[p].state /\ flags[st] \in SUBSET Flags /\ triggers[p] \in Trigger
  BY <1>1, TriggerFacts
<1>3. PICK t \in Trigger : t = [triggers[p] EXCEPT !.pc = "cas", !.upgrade = FALSE]
  BY <1>2 DEF Trigger
<1>4. t.key = triggers[p].key /\ t.state = triggers[p].state /\ t.pc = "cas"
  BY <1>2, <1>3 DEF Trigger
<1>5. triggers' = [triggers EXCEPT ![p] = t]
  BY <1>3 DEF TriggerRevert
<1>6. PICK f \in SUBSET Flags : f = flags[st] \ {"queuedHigh"}
  BY <1>2
<1>7. FlagsAt(st, f)
  BY <1>2, <1>6 DEF TriggerRevert, FlagsAt
<1>8. ~({"queued", "running"} \subseteq f)
  BY <1>6 DEF QueueInv, NotBoth
<1> QED
  BY <1>1, <1>2, <1>4, <1>5, <1>6, <1>7, <1>8, TriggerMoves

\* The mark is taken back.
LEMMA TriggerDropKeeps ==
    ASSUME QueueInv, NEW p, TriggerDrop(p)
    PROVE  QueueInv'
<1>1. /\ p \in DOMAIN triggers /\ QueueTypeOK /\ TriggerGoto(p, "delete")
      /\ UNCHANGED <<table, queue, stopped, runs>>
  BY DEF TriggerDrop, TriggerAt, QueueInv
<1>2. PICK st \in States : st = triggers[p].state /\ flags[st] \in SUBSET Flags
  BY <1>1, TriggerFacts
<1>3. PICK t \in Trigger :
        /\ triggers' = [triggers EXCEPT ![p] = t]
        /\ t.pc = "delete" /\ t.key = triggers[p].key /\ t.state = triggers[p].state
  BY <1>1, TriggerAdvances
<1>4. PICK f \in SUBSET Flags : f = flags[st] \cap {"running"}
  BY <1>2
<1>5. FlagsAt(st, f)
  BY <1>2, <1>4 DEF TriggerDrop, ClearDropped, FlagsAt
<1>6. "queued" \notin f /\ ("running" \in flags[st] => "running" \in f)
  BY <1>4
<1> QED
  BY <1>1, <1>2, <1>3, <1>5, <1>6, TriggerMoves

\* An object without a mark leaves the table.
LEMMA TriggerDeleteKeeps ==
    ASSUME QueueInv, NEW p, TriggerDelete(p)
    PROVE  QueueInv'
<1>1. /\ p \in DOMAIN triggers /\ QueueTypeOK /\ triggers[p].pc = "delete"
      /\ UNCHANGED <<queue, stopped, runs>>
      /\ TryDelete(triggers[p].key, triggers[p].state)
      /\ TriggerLeaves(p, flags[triggers[p].state])
  BY DEF TriggerDelete, TriggerAt, QueueInv
<1>2. PICK st \in States : st = triggers[p].state /\ flags[st] \in SUBSET Flags
  BY <1>1, TriggerFacts
<1>3. PICK f \in SUBSET Flags : f = flags[st]
  BY <1>2
<1>4. TriggerLeaves(p, f)
  BY <1>1, <1>2, <1>3
<1>5. ~({"queued", "running"} \subseteq f)
  BY <1>3 DEF QueueInv, NotBoth
<1>6. PICK key : key = triggers[p].key
  OBVIOUS
<1>7. KeepsTokens /\ queue' \in [Priorities -> Seq(Keys)]
  BY <1>1, SameQueueKeeps
<1>8. \/ table' = table
      \/ /\ f = {}
         /\ \E k \in DOMAIN table :
              table[k] = triggers[p].state /\ table' = MapDelete(table, k)
  BY <1>1, <1>2, <1>3 DEF TryDelete
<1> QED
  BY <1>1, <1>2, <1>3, <1>4, <1>5, <1>6, <1>7, <1>8, TriggerEnds

\* Every step of a trigger.
LEMMA TriggerStepKeeps ==
    ASSUME QueueInv, NEW p, TriggerStep(p)
    PROVE  QueueInv'
BY TriggerCasKeeps, TriggerPushKeeps, TriggerRevertKeeps, TriggerDropKeeps, TriggerDeleteKeeps
   DEF TriggerStep

\* A trigger begins on the object of its key, or on a new one.
LEMMA EnqueueProbeKeeps ==
    ASSUME QueueInv, NEW p \in Producers, NEW k \in Keys, EnqueueProbe(p, k)
    PROVE  QueueInv'
<1>1. /\ p \notin DOMAIN triggers /\ QueueTypeOK
      /\ UNCHANGED <<flags, queue, stopped, runs>>
  BY DEF EnqueueProbe, QueueInv
<1>2. PICK st \in States :
        /\ (k \in DOMAIN table /\ st = table[k]) \/ (k \notin DOMAIN table /\ st \in FreshStates)
        /\ table' = MapPut(table, k, st)
        /\ triggers' = MapPut(triggers, p, [pc |-> "cas", key |-> k, state |-> st,
                                            high |-> p \in Urgent, upgrade |-> p \in Urgent])
  <2>1. PICK st \in IF k \in DOMAIN table THEN {table[k]} ELSE FreshStates :
          /\ table' = MapPut(table, k, st)
          /\ triggers' = MapPut(triggers, p, [pc |-> "cas", key |-> k, state |-> st,
                                              high |-> p \in Urgent, upgrade |-> p \in Urgent])
    BY DEF EnqueueProbe
  <2>2. st \in States
    BY <1>1, <2>1 DEF FreshStates, QueueTypeOK, IsMap
  <2> QED
    BY <2>1, <2>2
<1>3. PICK t \in Trigger : t = [pc |-> "cas", key |-> k, state |-> st,
                                high |-> p \in Urgent, upgrade |-> p \in Urgent]
  <2>1. PICK b \in BOOLEAN : b = (p \in Urgent)
    <3>1. CASE p \in Urgent
      BY <3>1
    <3>2. CASE p \notin Urgent
      <4>1. FALSE = (p \in Urgent)
        BY <3>2
      <4> QED
        BY <4>1, Zenon
    <3> QED
      BY <3>1, <3>2
  <2>2. [pc |-> "cas", key |-> k, state |-> st, high |-> b, upgrade |-> b] \in Trigger
    BY DEF Trigger
  <2> QED
    BY <2>1, <2>2, Zenon
<1>4. t.pc = "cas" /\ t.key = k /\ t.state = st
  BY <1>3
<1>5. /\ IsMap(triggers', Producers, Trigger) /\ DOMAIN triggers' = DOMAIN triggers \cup {p}
      /\ triggers'[p] = t /\ \A q \in DOMAIN triggers : triggers'[q] = triggers[q]
  BY <1>1, <1>2, <1>3 DEF QueueTypeOK, IsMap, MapPut
<1>6. /\ IsMap(table', Keys, States) /\ DOMAIN table' = DOMAIN table \cup {k}
      /\ table'[k] = st /\ \A l \in DOMAIN table : table'[l] = table[l]
  BY <1>1, <1>2 DEF QueueTypeOK, IsMap, MapPut
<1>7. st \in FreshStates => /\ \A l \in DOMAIN table : table[l] # st
                            /\ \A q \in DOMAIN triggers : triggers[q].state # st
                            /\ \A w \in DOMAIN runs : runs[w].state # st
                            /\ flags[st] = {}
  BY DEF FreshStates, InTable, Holders, QueueInv, FreshClean
<1>8. QueueTypeOK'
  BY <1>1, <1>5, <1>6 DEF QueueTypeOK
<1>9. KeysAgree'
  <2>1. KeysAgree
    BY DEF QueueInv
  <2>2. CASE k \in DOMAIN table /\ st = table[k]
    BY <1>1, <1>4, <1>5, <1>6, <2>1, <2>2 DEF KeysAgree
  <2>3. CASE k \notin DOMAIN table /\ st \in FreshStates
    BY <1>1, <1>4, <1>5, <1>6, <1>7, <2>1, <2>3 DEF KeysAgree
  <2> QED
    BY <1>2, <2>2, <2>3
<1>10. RunsHaveState' /\ OneRunPerState' /\ NotBoth' /\ RunsMarked'
  BY <1>1 DEF QueueInv, RunsHaveState, OneRunPerState, NotBoth, RunsMarked
<1>11. FreshClean'
  <2>1. FreshStates' \subseteq FreshStates
    BY <1>1, <1>5, <1>6 DEF FreshStates, InTable, Holders
  <2> QED
    BY <1>1, <2>1 DEF QueueInv, FreshClean
<1>12. QueuedCared'
  <2>1. SUFFICES ASSUME ~stopped, NEW l \in DOMAIN table', "queued" \in flags[table'[l]]
                 PROVE  Cared(l, table[l])'
    BY <1>1 DEF QueuedCared
  <2>2. l \in DOMAIN table /\ table'[l] = table[l]
    BY <1>2, <1>6, <1>7, <2>1
  <2>3. PICK s : s = table[l] /\ s = table'[l]
    BY <2>2
  <2>4. Cared(l, s)
    BY <2>1, <2>2, <2>3 DEF QueueInv, QueuedCared
  <2>5. Tokens(l)' = Tokens(l)
    BY <1>1 DEF Tokens
  <2>6. Cared(l, s)'
    BY <1>1, <1>5, <2>4, <2>5 DEF Cared
  <2> QED
    BY <2>3, <2>6 DEF Cared
<1> QED
  BY <1>8, <1>9, <1>10, <1>11, <1>12 DEF QueueInv

\* The state of a worker: a key and, after the look-up, an object.
LEMMA RunFacts ==
    ASSUME QueueInv, NEW w \in DOMAIN runs
    PROVE  /\ runs[w] \in Run /\ runs[w].key \in Keys
           /\ runs[w].pc # "load" =>
                runs[w].state \in States /\ flags[runs[w].state] \in SUBSET Flags
<1>1. runs[w] \in Run
  BY MapValueType DEF QueueInv, QueueTypeOK
<1> QED
  BY <1>1 DEF Run, QueueInv, QueueTypeOK, RunsHaveState

\* What a phase change of a worker writes.
LEMMA RunAdvances ==
    ASSUME QueueInv, NEW w \in DOMAIN runs,
           NEW phase \in {"exec", "finish", "push", "drop", "delete"},
           \/ RunGoto(w, phase)
           \/ \E high \in BOOLEAN :
                runs' = [runs EXCEPT ![w].pc = phase, ![w].high = high]
    PROVE  \E r \in Run :
             /\ runs' = [runs EXCEPT ![w] = r]
             /\ r.pc = phase /\ r.key = runs[w].key /\ r.state = runs[w].state
<1>1. runs[w] \in Run
  BY RunFacts
<1>2. CASE RunGoto(w, phase)
  <2>1. PICK r \in Run : r = [runs[w] EXCEPT !.pc = phase]
    BY <1>1 DEF Run
  <2>2. runs' = [runs EXCEPT ![w] = r]
    BY <1>2, <2>1 DEF RunGoto
  <2>3. r.pc = phase /\ r.key = runs[w].key /\ r.state = runs[w].state
    BY <1>1, <2>1 DEF Run
  <2> QED
    BY <2>2, <2>3
<1>3. ASSUME NEW high \in BOOLEAN, runs' = [runs EXCEPT ![w].pc = phase, ![w].high = high]
      PROVE  \E r \in Run :
               /\ runs' = [runs EXCEPT ![w] = r]
               /\ r.pc = phase /\ r.key = runs[w].key /\ r.state = runs[w].state
  <2>1. PICK r \in Run : r = [runs[w] EXCEPT !.pc = phase, !.high = high]
    BY <1>1 DEF Run
  <2>2. runs' = [runs EXCEPT ![w] = r]
    BY <1>3, <2>1
  <2>3. r.pc = phase /\ r.key = runs[w].key /\ r.state = runs[w].state
    BY <1>1, <2>1 DEF Run
  <2> QED
    BY <2>2, <2>3
<1> QED
  BY <1>2, <1>3

\* A worker turns the mark from queued to running, or finds the token stale.
LEMMA MarkTaskRunningKeeps ==
    ASSUME QueueInv, NEW w, MarkTaskRunning(w)
    PROVE  QueueInv'
<1>1. /\ w \in DOMAIN runs /\ runs[w].pc = "mark" /\ QueueTypeOK
      /\ UNCHANGED <<table, queue, stopped, triggers>>
  BY DEF MarkTaskRunning, RunAt, QueueInv
<1>2. PICK st \in States : st = runs[w].state /\ flags[st] \in SUBSET Flags
  BY <1>1, RunFacts
<1>3. KeepsTokens /\ queue' \in [Priorities -> Seq(Keys)]
  BY <1>1, SameQueueKeeps
<1>4. CASE /\ "queued" \in flags[st] /\ RunGoto(w, "exec")
           /\ flags' = [flags EXCEPT ![st] = (@ \ {"queued", "queuedHigh"}) \cup {"running"}]
  <2>1. PICK r \in Run :
          /\ runs' = [runs EXCEPT ![w] = r]
          /\ r.pc = "exec" /\ r.key = runs[w].key /\ r.state = runs[w].state
    BY <1>1, <1>4, RunAdvances
  <2>2. PICK f \in SUBSET Flags : f = (flags[st] \ {"queued", "queuedHigh"}) \cup {"running"}
    BY <1>2 DEF Flags
  <2>3. FlagsAt(st, f)
    BY <1>4, <2>2 DEF FlagsAt
  <2>4. "queued" \notin f /\ "running" \in f /\ "running" \notin flags[st]
    BY <1>4, <2>2 DEF QueueInv, NotBoth
  <2> QED
    BY <1>1, <1>2, <1>3, <2>1, <2>3, <2>4, RunMoves
<1>5. CASE "queued" \notin flags[st] /\ RunGoto(w, "delete") /\ UNCHANGED flags
  <2>1. PICK r \in Run :
          /\ runs' = [runs EXCEPT ![w] = r]
          /\ r.pc = "delete" /\ r.key = runs[w].key /\ r.state = runs[w].state
    BY <1>1, <1>5, RunAdvances
  <2>2. PICK f \in SUBSET Flags : f = flags[st]
    BY <1>2
  <2>3. FlagsAt(st, f)
    BY <1>1, <1>5, <2>2 DEF FlagsAt, QueueTypeOK
  <2>4. "queued" \notin f /\ ("running" \in flags[st] <=> "running" \in f)
    BY <1>5, <2>2
  <2> QED
    BY <1>1, <1>2, <1>3, <2>1, <2>3, <2>4, RunMoves
<1> QED
  BY <1>2, <1>4, <1>5 DEF MarkTaskRunning

\* The probe itself touches nothing of the queue.
LEMMA ExecuteTaskKeeps ==
    ASSUME QueueInv, NEW w, ExecuteTask(w)
    PROVE  QueueInv'
<1>1. /\ w \in DOMAIN runs /\ runs[w].pc = "exec" /\ QueueTypeOK
      /\ UNCHANGED <<flags, table, queue, stopped, triggers>> /\ RunGoto(w, "finish")
  BY DEF ExecuteTask, RunAt, QueueInv
<1>2. PICK st \in States : st = runs[w].state /\ flags[st] \in SUBSET Flags
  BY <1>1, RunFacts
<1>3. KeepsTokens /\ queue' \in [Priorities -> Seq(Keys)]
  BY <1>1, SameQueueKeeps
<1>4. PICK r \in Run :
        /\ runs' = [runs EXCEPT ![w] = r]
        /\ r.pc = "finish" /\ r.key = runs[w].key /\ r.state = runs[w].state
  BY <1>1, RunAdvances
<1>5. PICK f \in SUBSET Flags : f = flags[st]
  BY <1>2
<1>6. FlagsAt(st, f)
  BY <1>1, <1>5 DEF FlagsAt, QueueTypeOK
<1>7. "running" \in f /\ "queued" \notin f
  BY <1>1, <1>2, <1>5 DEF QueueInv, RunsMarked, NotBoth
<1> QED
  BY <1>1, <1>2, <1>3, <1>4, <1>6, <1>7, RunMoves

\* The end of a run: requeued when it became dirty meanwhile.
LEMMA FinishTaskKeeps ==
    ASSUME QueueInv, NEW w, FinishTask(w)
    PROVE  QueueInv'
<1>1. /\ w \in DOMAIN runs /\ runs[w].pc = "finish" /\ QueueTypeOK
      /\ UNCHANGED <<table, queue, stopped, triggers>>
  BY DEF FinishTask, RunAt, QueueInv
<1>2. PICK st \in States : st = runs[w].state /\ flags[st] \in SUBSET Flags
  BY <1>1, RunFacts
<1>3. KeepsTokens /\ queue' \in [Priorities -> Seq(Keys)]
  BY <1>1, SameQueueKeeps
<1>4. "queued" \notin flags[st]
  BY <1>1, <1>2 DEF QueueInv, RunsMarked, NotBoth
<1>5. PICK high \in BOOLEAN : high = ("dirtyHigh" \in flags[st])
  <2>1. CASE "dirtyHigh" \in flags[st]
    BY <2>1
  <2>2. CASE "dirtyHigh" \notin flags[st]
    <3>1. FALSE = ("dirtyHigh" \in flags[st])
      BY <2>2
    <3> QED
      BY <3>1, Zenon
  <2> QED
    BY <2>1, <2>2
<1>6. CASE /\ flags' = [flags EXCEPT ![st] = {"queued"} \cup HighFlag(high, "queuedHigh")]
           /\ runs' = [runs EXCEPT ![w].pc = "push", ![w].high = high]
  <2>1. PICK r \in Run :
          /\ runs' = [runs EXCEPT ![w] = r]
          /\ r.pc = "push" /\ r.key = runs[w].key /\ r.state = runs[w].state
    BY <1>1, <1>6, RunAdvances
  <2>2. PICK f \in SUBSET Flags : f = {"queued"} \cup HighFlag(high, "queuedHigh")
    BY DEF Flags, HighFlag
  <2>3. FlagsAt(st, f)
    BY <1>6, <2>2 DEF FlagsAt
  <2>4. "running" \notin f
    BY <2>2 DEF HighFlag
  <2> QED
    BY <1>1, <1>2, <1>3, <2>1, <2>3, <2>4, RunMoves
<1>7. CASE flags' = [flags EXCEPT ![st] = @ \cap {"queued"}] /\ RunGoto(w, "delete")
  <2>1. PICK r \in Run :
          /\ runs' = [runs EXCEPT ![w] = r]
          /\ r.pc = "delete" /\ r.key = runs[w].key /\ r.state = runs[w].state
    BY <1>1, <1>7, RunAdvances
  <2>2. PICK f \in SUBSET Flags : f = flags[st] \cap {"queued"}
    BY <1>2
  <2>3. FlagsAt(st, f)
    BY <1>7, <2>2 DEF FlagsAt
  <2>4. "running" \notin f /\ "queued" \notin f
    BY <1>4, <2>2
  <2> QED
    BY <1>1, <1>2, <1>3, <2>1, <2>3, <2>4, RunMoves
<1>8. \/ /\ flags' = [flags EXCEPT ![st] = {"queued"} \cup HighFlag("dirtyHigh" \in flags[st], "queuedHigh")]
         /\ runs' = [runs EXCEPT ![w].pc = "push", ![w].high = "dirtyHigh" \in flags[st]]
      \/ flags' = [flags EXCEPT ![st] = @ \cap {"queued"}] /\ RunGoto(w, "delete")
  BY <1>2 DEF FinishTask
<1> QED
  BY <1>5, <1>6, <1>7, <1>8

\* A worker pushes the token of the next run.
LEMMA RequeueKeeps ==
    ASSUME QueueInv, NEW w, RequeueTask(w)
    PROVE  QueueInv'
<1>1. /\ w \in DOMAIN runs /\ runs[w].pc = "push" /\ QueueTypeOK
      /\ UNCHANGED <<flags, table, stopped, triggers>>
  BY DEF RequeueTask, RunAt, QueueInv
<1>2. PICK st \in States : st = runs[w].state /\ flags[st] \in SUBSET Flags
  BY <1>1, RunFacts
<1>3. PICK key \in Keys : key = runs[w].key
  BY <1>1, RunFacts
<1>4. PICK f \in SUBSET Flags : f = flags[st]
  BY <1>2
<1>5. FlagsAt(st, f) /\ ~({"queued", "running"} \subseteq f)
  BY <1>1, <1>4 DEF FlagsAt, QueueTypeOK, QueueInv, NotBoth
<1>6. CASE Push(runs[w].high, key) /\ RunGoto(w, "delete")
  <2>1. queue' \in [Priorities -> Seq(Keys)] /\ KeepsTokens /\ Tokens(key)' # {}
    <3>1. PICK high : high = runs[w].high
      OBVIOUS
    <3>2. Push(high, key)
      BY <1>6, <3>1
    <3> QED
      BY <1>1, <3>2, PushKeeps
  <2>2. PICK r \in Run :
          /\ runs' = [runs EXCEPT ![w] = r]
          /\ r.pc = "delete" /\ r.key = key /\ r.state = st
    BY <1>1, <1>2, <1>3, <1>6, RunAdvances
  <2>3. Tokens(r.key)' # {}
    BY <2>1, <2>2
  <2> QED
    BY <1>1, <1>2, <1>3, <1>4, <1>5, <2>1, <2>2, <2>3, RunMoves
<1>7. CASE UNCHANGED queue /\ RunGoto(w, "drop")
  <2>1. PICK r \in Run :
          /\ runs' = [runs EXCEPT ![w] = r]
          /\ r.pc = "drop" /\ r.key = runs[w].key /\ r.state = runs[w].state
    BY <1>1, <1>7, RunAdvances
  <2>2. KeepsTokens /\ queue' \in [Priorities -> Seq(Keys)]
    BY <1>1, <1>7, SameQueueKeeps
  <2> QED
    BY <1>1, <1>2, <1>4, <1>5, <2>1, <2>2, RunMoves
<1> QED
  BY <1>3, <1>6, <1>7 DEF RequeueTask

\* A full queue: the worker takes its mark back.
LEMMA RequeueDroppedKeeps ==
    ASSUME QueueInv, NEW w, RequeueDropped(w)
    PROVE  QueueInv'
<1>1. /\ w \in DOMAIN runs /\ runs[w].pc = "drop" /\ QueueTypeOK /\ RunGoto(w, "delete")
      /\ UNCHANGED <<table, queue, stopped, triggers>>
  BY DEF RequeueDropped, RunAt, QueueInv
<1>2. PICK st \in States : st = runs[w].state /\ flags[st] \in SUBSET Flags
  BY <1>1, RunFacts
<1>3. KeepsTokens /\ queue' \in [Priorities -> Seq(Keys)]
  BY <1>1, SameQueueKeeps
<1>4. PICK r \in Run :
        /\ runs' = [runs EXCEPT ![w] = r]
        /\ r.pc = "delete" /\ r.key = runs[w].key /\ r.state = runs[w].state
  BY <1>1, RunAdvances
<1>5. PICK f \in SUBSET Flags : f = flags[st] \cap {"running"}
  BY <1>2
<1>6. FlagsAt(st, f)
  BY <1>2, <1>5 DEF RequeueDropped, ClearDropped, FlagsAt
<1>7. "queued" \notin f /\ ("running" \in flags[st] => "running" \in f)
  BY <1>5
<1> QED
  BY <1>1, <1>2, <1>3, <1>4, <1>6, <1>7, RunMoves

\* A worker that is done leaves its object, and takes it out of the table when
\* it has no flags.
LEMMA TryDeleteKeeps ==
    ASSUME QueueInv, NEW w, TryDeleteTaskState(w)
    PROVE  QueueInv'
<1>1. /\ w \in DOMAIN runs /\ runs[w].pc = "delete" /\ QueueTypeOK
      /\ UNCHANGED <<queue, stopped, triggers>>
      /\ TryDelete(runs[w].key, runs[w].state) /\ RunLeaves(w)
  BY DEF TryDeleteTaskState, RunAt, QueueInv
<1>2. PICK st \in States : st = runs[w].state /\ flags[st] \in SUBSET Flags
  BY <1>1, RunFacts
<1>3. PICK g \in SUBSET Flags : g = Left(w, st, flags[st]) /\ g \in {flags[st], {}}
  BY <1>2 DEF Left
<1>4. FlagsAt(st, g)
  BY <1>1, <1>2, <1>3 DEF RunLeaves, FlagsAt
<1>5. /\ flags' \in [States -> SUBSET Flags] /\ flags'[st] = g
      /\ \A s \in States \ {st} : flags'[s] = flags[s]
  BY <1>1, <1>4, FlagsWritten
<1>6. /\ IsMap(runs', ProbeWorkers, Run) /\ DOMAIN runs' = DOMAIN runs \ {w}
      /\ \A v \in DOMAIN runs \ {w} : runs'[v] = runs[v]
  BY <1>1 DEF RunLeaves, QueueTypeOK, IsMap, MapDelete
<1>7. /\ IsMap(table', Keys, States) /\ DOMAIN table' \subseteq DOMAIN table
      /\ \A k \in DOMAIN table' : table'[k] = table[k]
      /\ \A k \in DOMAIN table \ DOMAIN table' : table[k] = st /\ flags[st] = {}
  BY <1>1, <1>2 DEF TryDelete, QueueTypeOK, IsMap, MapDelete
<1>8. QueueTypeOK'
  BY <1>1, <1>5, <1>6, <1>7 DEF QueueTypeOK
<1>9. KeysAgree' /\ RunsHaveState' /\ OneRunPerState'
  BY <1>1, <1>6, <1>7 DEF QueueInv, KeysAgree, RunsHaveState, OneRunPerState
<1>10. FreshClean'
  <2>1. SUFFICES ASSUME NEW s \in States, ~InTable(s)', Holders(s)' = {} PROVE flags'[s] = {}
    BY DEF FreshClean, FreshStates
  <2>2. Holders(s) \subseteq {w} /\ (s # st => Holders(s) = {}) /\ (s = st => Holders(s) = {w})
    BY <1>1, <1>2, <1>6, <2>1 DEF Holders
  <2>3. s # st => ~InTable(s)
    BY <1>7, <2>1 DEF InTable
  <2>4. CASE s # st
    BY <1>5, <2>2, <2>3, <2>4 DEF QueueInv, FreshClean, FreshStates
  <2>5. CASE s = st
    <3>1. CASE InTable(st)
      <4>1. PICK k \in DOMAIN table : table[k] = st
        BY <3>1 DEF InTable
      <4>2. k \notin DOMAIN table'
        BY <1>7, <2>1, <2>5, <4>1 DEF InTable
      <4> QED
        BY <1>3, <1>5, <1>7, <2>5, <4>1, <4>2
    <3>2. CASE ~InTable(st)
      BY <1>3, <1>5, <2>2, <2>5, <3>2 DEF Left
    <3> QED
      BY <3>1, <3>2
  <2> QED
    BY <2>4, <2>5
<1>11. NotBoth'
  BY <1>3, <1>5 DEF QueueInv, NotBoth
<1>12. RunsMarked'
  <2>1. SUFFICES ASSUME NEW v \in DOMAIN runs, v # w, runs[v].pc \in {"exec", "finish"}
                 PROVE  "running" \in flags'[runs[v].state]
    BY <1>6 DEF RunsMarked
  <2>2. "running" \in flags[runs[v].state] /\ runs[v].state \in States
    BY <2>1 DEF QueueInv, RunsMarked, RunsHaveState
  <2>3. CASE runs[v].state = st
    <3>1. v \in Holders(st)
      BY <2>3 DEF Holders
    <3> QED
      BY <1>3, <1>5, <2>1, <2>2, <2>3, <3>1 DEF Left
  <2> QED
    BY <1>5, <2>2, <2>3
<1>13. QueuedCared'
  <2>1. SUFFICES ASSUME ~stopped, NEW k \in DOMAIN table', "queued" \in flags'[table'[k]]
                 PROVE  Cared(k, table[k])'
    BY <1>1 DEF QueuedCared
  <2>2. PICK s \in States : s = table[k] /\ s = table'[k] /\ k \in DOMAIN table
    BY <1>1, <1>7, <2>1 DEF QueueTypeOK, IsMap
  <2>3. "queued" \in flags[s]
    BY <1>3, <1>5, <2>1, <2>2
  <2>4. Cared(k, s)
    BY <2>1, <2>2, <2>3 DEF QueueInv, QueuedCared
  <2>5. Tokens(k)' = Tokens(k)
    BY <1>1 DEF Tokens
  <2>6. Cared(k, s)'
    BY <1>1, <1>6, <2>4, <2>5 DEF Cared
  <2> QED
    BY <2>2, <2>6 DEF Cared
<1> QED
  BY <1>8, <1>9, <1>10, <1>11, <1>12, <1>13 DEF QueueInv

\* The token that a worker takes is the only one that leaves the queues.
LEMMA TokenTaken ==
    ASSUME QueueTypeOK, NEW pr \in Priorities, queue[pr] # <<>>,
           queue' = [queue EXCEPT ![pr] = Tail(@)]
    PROVE  /\ queue' \in [Priorities -> Seq(Keys)]
           /\ Head(queue[pr]) \in Keys
           /\ \A k \in Keys \ {Head(queue[pr])} : Tokens(k) # {} => Tokens(k)' # {}
<1>1. queue \in [Priorities -> Seq(Keys)]
  BY DEF QueueTypeOK
<1>2. PICK q \in Seq(Keys) : q = queue[pr] /\ q # <<>>
  BY <1>1
<1>3. /\ Tail(q) \in Seq(Keys) /\ Head(q) \in Keys /\ Head(q) = q[1]
      /\ Len(q) \in Nat \ {0} /\ Len(Tail(q)) = Len(q) - 1
      /\ \A i \in 1..Len(q) - 1 : Tail(q)[i] = q[i + 1]
  BY <1>2
<1>4. queue' \in [Priorities -> Seq(Keys)] /\ queue'[pr] = Tail(q)
  BY <1>1, <1>2, <1>3
<1>5. \A x \in Priorities \ {pr} : queue'[x] = queue[x]
  BY <1>1
<1>6. ASSUME NEW k \in Keys \ {Head(q)}, NEW x \in Tokens(k) PROVE x \in Tokens(k)'
  <2>1. x \in Priorities
    BY <1>6 DEF Tokens
  <2>2. PICK i \in 1..Len(queue[x]) : queue[x][i] = k
    BY <1>6 DEF Tokens
  <2>3. CASE x # pr
    BY <1>5, <2>1, <2>2, <2>3 DEF Tokens
  <2>4. CASE x = pr
    <3>1. i \in 1..Len(q) /\ q[i] = k /\ i # 1
      BY <1>2, <1>3, <1>6, <2>2, <2>4
    <3>2. i - 1 \in 1..Len(Tail(q)) /\ Tail(q)[i - 1] = k
      BY <1>3, <3>1
    <3> QED
      BY <1>4, <2>1, <2>4, <3>2 DEF Tokens
  <2> QED
    BY <2>3, <2>4
<1> QED
  BY <1>2, <1>3, <1>4, <1>6

\* A worker takes a token, and is then the one who cares.
LEMMA DequeueKeeps ==
    ASSUME QueueInv, NEW w \in ProbeWorkers, NEW pr \in Priorities, Dequeue(w, pr)
    PROVE  QueueInv'
<1>1. /\ w \notin DOMAIN runs /\ QueueTypeOK /\ queue[pr] # <<>>
      /\ queue' = [queue EXCEPT ![pr] = Tail(@)]
      /\ UNCHANGED <<flags, table, stopped, triggers>>
  BY DEF Dequeue, QueueInv
<1>2. PICK key \in Keys : key = Head(queue[pr])
  BY <1>1, TokenTaken
<1>3. /\ queue' \in [Priorities -> Seq(Keys)]
      /\ \A k \in Keys \ {key} : Tokens(k) # {} => Tokens(k)' # {}
  BY <1>1, <1>2, TokenTaken
<1>4. PICK r \in Run : r = [pc |-> "load", key |-> key, state |-> NoState, high |-> FALSE]
  BY DEF Run
<1>5. r.pc = "load" /\ r.key = key /\ r.state = NoState /\ NoState \notin States
  BY <1>4, QueueAssumption
<1>6. runs' = MapPut(runs, w, r)
  BY <1>2, <1>4 DEF Dequeue
<1>7. /\ IsMap(runs', ProbeWorkers, Run) /\ DOMAIN runs' = DOMAIN runs \cup {w}
      /\ runs'[w] = r /\ \A v \in DOMAIN runs : runs'[v] = runs[v]
  BY <1>1, <1>6 DEF QueueTypeOK, IsMap, MapPut
<1>8. QueueTypeOK'
  BY <1>1, <1>3, <1>7 DEF QueueTypeOK
<1>9. KeysAgree'
  <2>1. \A k \in DOMAIN table : table[k] # NoState
    BY <1>1, <1>5 DEF QueueTypeOK, IsMap
  <2> QED
    BY <1>1, <1>5, <1>7, <2>1 DEF QueueInv, KeysAgree
<1>10. RunsHaveState' /\ OneRunPerState' /\ NotBoth' /\ RunsMarked'
  BY <1>1, <1>5, <1>7 DEF QueueInv, RunsHaveState, OneRunPerState, NotBoth, RunsMarked
<1>11. FreshClean'
  <2>1. FreshStates' \subseteq FreshStates
    BY <1>1, <1>7 DEF FreshStates, InTable, Holders
  <2> QED
    BY <1>1, <2>1 DEF QueueInv, FreshClean
<1>12. QueuedCared'
  <2>1. SUFFICES ASSUME ~stopped, NEW k \in DOMAIN table, "queued" \in flags[table[k]]
                 PROVE  Cared(k, table[k])'
    BY <1>1 DEF QueuedCared
  <2>2. CASE k = key
    BY <1>5, <1>7, <2>2 DEF Cared
  <2>3. CASE k # key
    <3>1. k \in Keys
      BY <1>1 DEF QueueTypeOK, IsMap
    <3>2. PICK s : s = table[k]
      OBVIOUS
    <3>3. Cared(k, s)
      BY <2>1, <3>2 DEF QueueInv, QueuedCared
    <3>4. Tokens(k) # {} => Tokens(k)' # {}
      BY <1>3, <2>3, <3>1
    <3>5. Cared(k, s)'
      BY <1>1, <1>7, <3>3, <3>4 DEF Cared
    <3> QED
      BY <1>1, <3>2, <3>5 DEF Cared
  <2> QED
    BY <2>2, <2>3
<1> QED
  BY <1>8, <1>9, <1>10, <1>11, <1>12 DEF QueueInv

\* The look-up of the object: the token's worker takes it up, or drops the token
\* of a key that has left the table.
LEMMA LoadTaskKeeps ==
    ASSUME QueueInv, NEW w, LoadTask(w)
    PROVE  QueueInv'
<1>1. /\ w \in DOMAIN runs /\ runs[w].pc = "load" /\ QueueTypeOK
      /\ UNCHANGED <<flags, table, queue, stopped, triggers>>
      /\ runs[w].state = NoState /\ NoState \notin States
  BY QueueAssumption DEF LoadTask, RunAt, QueueInv, RunsHaveState
<1>2. PICK key \in Keys : key = runs[w].key
  BY <1>1, RunFacts
<1>3. \A k : Tokens(k)' = Tokens(k)
  BY <1>1 DEF Tokens
<1>4. NotBoth'
  BY <1>1 DEF QueueInv, NotBoth
<1>5. CASE key \in DOMAIN table
  <2>1. runs' = [runs EXCEPT ![w].pc = "mark", ![w].state = table[key]]
    BY <1>2, <1>5 DEF LoadTask
  <2>2. PICK st \in States : st = table[key]
    BY <1>1, <1>5 DEF QueueTypeOK, IsMap
  <2>3. runs[w] \in Run
    BY <1>1, RunFacts
  <2>4. PICK r \in Run : r = [runs[w] EXCEPT !.pc = "mark", !.state = st]
    BY <2>2, <2>3 DEF Run
  <2>5. r.pc = "mark" /\ r.key = key /\ r.state = st
    BY <1>2, <2>3, <2>4 DEF Run
  <2>6. /\ DOMAIN runs' = DOMAIN runs /\ runs'[w] = r
        /\ \A v \in DOMAIN runs \ {w} : runs'[v] = runs[v]
    BY <1>1, <2>1, <2>2, <2>4
  <2>7. IsMap(runs', ProbeWorkers, Run)
    BY <1>1, <2>1, <2>2, <2>4 DEF QueueTypeOK, IsMap
  <2>8. QueueTypeOK'
    BY <1>1, <2>7 DEF QueueTypeOK
  <2>9. KeysAgree'
    BY <1>1, <1>5, <2>2, <2>5, <2>6 DEF QueueInv, KeysAgree
  <2>10. RunsHaveState' /\ OneRunPerState' /\ RunsMarked'
    BY <1>1, <2>5, <2>6 DEF QueueInv, RunsHaveState, OneRunPerState, RunsMarked
  <2>11. FreshClean'
    <3>1. FreshStates' \subseteq FreshStates
      BY <1>1, <2>6 DEF FreshStates, InTable, Holders
    <3> QED
      BY <1>1, <3>1 DEF QueueInv, FreshClean
  <2>12. QueuedCared'
    <3>1. SUFFICES ASSUME ~stopped, NEW k \in DOMAIN table, "queued" \in flags[table[k]]
                   PROVE  Cared(k, table[k])'
      BY <1>1 DEF QueuedCared
    <3>2. PICK s : s = table[k]
      OBVIOUS
    <3>3. CASE k = key
      BY <1>1, <2>2, <2>5, <2>6, <3>3 DEF Cared
    <3>4. CASE k # key
      <4>1. Cared(k, s)
        BY <3>1, <3>2 DEF QueueInv, QueuedCared
      <4>2. Cared(k, s)'
        BY <1>1, <1>2, <1>3, <2>6, <3>4, <4>1 DEF Cared
      <4> QED
        BY <1>1, <3>2, <4>2 DEF Cared
    <3> QED
      BY <3>3, <3>4
  <2> QED
    BY <1>4, <2>8, <2>9, <2>10, <2>11, <2>12 DEF QueueInv
<1>6. CASE key \notin DOMAIN table
  <2>1. /\ IsMap(runs', ProbeWorkers, Run) /\ DOMAIN runs' = DOMAIN runs \ {w}
        /\ \A v \in DOMAIN runs \ {w} : runs'[v] = runs[v]
    BY <1>1, <1>2, <1>6 DEF LoadTask, QueueTypeOK, IsMap, MapDelete
  <2>2. QueueTypeOK'
    BY <1>1, <2>1 DEF QueueTypeOK
  <2>3. KeysAgree' /\ RunsHaveState' /\ OneRunPerState' /\ RunsMarked'
    BY <1>1, <2>1 DEF QueueInv, KeysAgree, RunsHaveState, OneRunPerState, RunsMarked
  <2>4. FreshClean'
    <3>1. \A s \in States : Holders(s)' = Holders(s)
      BY <1>1, <2>1 DEF Holders
    <3>2. FreshStates' = FreshStates
      BY <1>1, <3>1 DEF FreshStates, InTable
    <3> QED
      BY <1>1, <3>2 DEF QueueInv, FreshClean
  <2>5. QueuedCared'
    <3>1. SUFFICES ASSUME ~stopped, NEW k \in DOMAIN table, "queued" \in flags[table[k]]
                   PROVE  Cared(k, table[k])'
      BY <1>1 DEF QueuedCared
    <3>2. PICK s : s = table[k] /\ k # key
      BY <1>6
    <3>3. Cared(k, s)
      BY <3>1, <3>2 DEF QueueInv, QueuedCared
    <3>4. Cared(k, s)'
      BY <1>1, <1>2, <1>3, <2>1, <3>2, <3>3 DEF Cared
    <3> QED
      BY <1>1, <3>2, <3>4 DEF Cared
  <2> QED
    BY <1>4, <2>2, <2>3, <2>4, <2>5 DEF QueueInv
<1> QED
  BY <1>5, <1>6

\* Every step of a worker.
LEMMA WorkerStepKeeps ==
    ASSUME QueueInv, NEW w \in ProbeWorkers, WorkerStep(w)
    PROVE  QueueInv'
BY DequeueKeeps, LoadTaskKeeps, MarkTaskRunningKeeps, ExecuteTaskKeeps, FinishTaskKeeps,
   RequeueKeeps, RequeueDroppedKeeps, TryDeleteKeeps
   DEF WorkerStep

\* Stop drops what is queued, with the marks.
LEMMA StopKeeps ==
    ASSUME QueueInv, StopDropPending
    PROVE  QueueInv'
<1>1. /\ UNCHANGED <<flags, table, triggers, runs>> /\ stopped' = TRUE
      /\ queue' = [pr \in Priorities |-> <<>>]
  BY DEF StopDropPending
<1>2. QueueTypeOK'
  BY <1>1 DEF QueueInv, QueueTypeOK
<1>3. FreshClean'
  BY <1>1 DEF QueueInv, FreshClean, FreshStates, InTable, Holders
<1> QED
  BY <1>1, <1>2, <1>3
     DEF QueueInv, KeysAgree, RunsHaveState, NotBoth, RunsMarked, OneRunPerState, QueuedCared

\* Nothing happens.
LEMMA QueueStutters ==
    ASSUME QueueInv, UNCHANGED queueVars
    PROVE  QueueInv'
<1>1. UNCHANGED <<flags, table, queue, stopped, triggers, runs>>
  BY DEF queueVars
<1>2. FreshClean'
  BY <1>1 DEF QueueInv, FreshClean, FreshStates, InTable, Holders
<1>3. QueuedCared'
  BY <1>1 DEF QueueInv, QueuedCared, Cared, Tokens
<1> QED
  BY <1>1, <1>2, <1>3
     DEF QueueInv, QueueTypeOK, KeysAgree, RunsHaveState, NotBoth, RunsMarked, OneRunPerState

\* An empty table and empty queues.
LEMMA QueueInvInit == QueueInit => QueueInv
<1> SUFFICES ASSUME QueueInit PROVE QueueInv
  OBVIOUS
<1>1. DOMAIN table = {} /\ DOMAIN triggers = {} /\ DOMAIN runs = {}
  BY EmptyMapType DEF QueueInit
<1>2. QueueTypeOK
  <2>1. queue \in [Priorities -> Seq(Keys)] /\ flags \in [States -> SUBSET Flags]
    BY DEF QueueInit
  <2>2. /\ IsMap(table, Keys, States) /\ IsMap(triggers, Producers, Trigger)
        /\ IsMap(runs, ProbeWorkers, Run)
    BY EmptyMapType DEF QueueInit
  <2> QED
    BY <2>1, <2>2 DEF QueueInit, QueueTypeOK
<1>3. FreshClean /\ NotBoth
  BY DEF QueueInit, FreshClean, FreshStates, NotBoth
<1> QED
  BY <1>1, <1>2, <1>3
     DEF QueueInv, KeysAgree, RunsHaveState, RunsMarked, OneRunPerState, QueuedCared

\* The invariant of the queue, at all times.
LEMMA QueueInvHolds == QueueSpec => []QueueInv
<1>1. QueueInv /\ [QueueNext]_queueVars => QueueInv'
  BY EnqueueProbeKeeps, TriggerStepKeeps, WorkerStepKeeps, StopKeeps, QueueStutters DEF QueueNext
<1> QED
  BY QueueInvInit, <1>1, PTL DEF QueueSpec

\* However the triggers, the stale tokens and the requeues interleave, a state
\* object is run by one worker at a time (markTaskRunning, finishTask).
THEOREM RunsCorrect == QueueSpec => []OneRunPerState
<1>1. QueueInv => OneRunPerState
  BY DEF QueueInv
<1> QED
  BY QueueInvHolds, <1>1, PTL

\* The probe manager loses no key: a key in the table that is marked queued has
\* a token, or somebody who will push one, take the mark back or take it up.
THEOREM KeysCorrect == QueueSpec => []NoStuckKey
<1>1. ASSUME QueueInv PROVE NoStuckKey
  <2>1. SUFFICES ASSUME NEW k \in DOMAIN table, "queued" \in flags[table[k]], ~stopped
                 PROVE  \/ Tokens(k) # {}
                        \/ \E p \in DOMAIN triggers :
                             triggers[p].key = k /\ triggers[p].pc \in {"push", "drop"}
                        \/ \E w \in DOMAIN runs :
                             runs[w].key = k /\ runs[w].pc \in {"load", "mark", "push", "drop"}
    BY DEF NoStuckKey
  <2>2. Cared(k, table[k])
    BY <1>1, <2>1 DEF QueueInv, QueuedCared
  <2>3. KeysAgree
    BY <1>1 DEF QueueInv
  <2> QED
    BY <2>2, <2>3 DEF Cared, KeysAgree
<1> QED
  BY QueueInvHolds, <1>1, PTL

-----------------------------------------------------------------------------
(* Latency table *)

\* The bound and the rows need nothing but that both tables stay finite.
LatencyInv ==
    /\ LatencyTypeOK
    /\ IsFiniteSet(DOMAIN latencies) /\ IsFiniteSet(DOMAIN latencyRows)
    /\ RegularBounded /\ RowsFollowTable

\* A set that gives up an element, or has room, keeps its bound with one more.
LEMMA RoomForOne ==
    ASSUME NEW S, IsFiniteSet(S), NEW n \in Nat, NEW x, NEW T,
           \/ T \subseteq S /\ Cardinality(S) < n
           \/ \E e \in S : T \subseteq S \ {e} /\ Cardinality(S) <= n
    PROVE  IsFiniteSet(T \cup {x}) /\ Cardinality(T \cup {x}) <= n
<1>1. IsFiniteSet(T) /\ Cardinality(T) < n
  <2>1. Cardinality(S) \in Nat
    BY FS_CardinalityType
  <2>2. CASE T \subseteq S /\ Cardinality(S) < n
    <3>1. IsFiniteSet(T) /\ Cardinality(T) <= Cardinality(S)
      BY <2>2, FS_Subset
    <3>2. Cardinality(T) \in Nat
      BY <3>1, FS_CardinalityType
    <3> QED
      BY <2>1, <2>2, <3>1, <3>2
  <2>3. ASSUME NEW e \in S, T \subseteq S \ {e}, Cardinality(S) <= n
        PROVE  IsFiniteSet(T) /\ Cardinality(T) < n
    <3>1. IsFiniteSet(S \ {e}) /\ Cardinality(S \ {e}) = Cardinality(S) - 1
      BY FS_RemoveElement
    <3>2. IsFiniteSet(T) /\ Cardinality(T) <= Cardinality(S \ {e})
      BY <2>3, <3>1, FS_Subset
    <3>3. Cardinality(T) \in Nat
      BY <3>2, FS_CardinalityType
    <3> QED
      BY <2>1, <2>3, <3>1, <3>2, <3>3
  <2> QED
    BY <2>2, <2>3
<1>2. Cardinality(T) \in Nat
  BY <1>1, FS_CardinalityType
<1>3. /\ IsFiniteSet(T \cup {x})
      /\ Cardinality(T \cup {x}) = IF x \in T THEN Cardinality(T) ELSE Cardinality(T) + 1
  BY <1>1, FS_AddElement
<1> QED
  BY <1>1, <1>2, <1>3

\* A sample of a new domain takes a free slot or the one it evicts.
LEMMA RecordKeepsRegular ==
    ASSUME LatencyInv, NEW g \in Recorders, NEW d \in Domains, NEW slot \in Slot,
           NEW out \in IF slot.authority THEN {{}} ELSE Evictable(latencies, d),
           latencies' = MapPut(MapKeep(latencies, DOMAIN latencies \ out), d, slot)
    PROVE  IsFiniteSet(DOMAIN latencies') /\ RegularBounded'
<1>1. /\ DOMAIN latencies' = (DOMAIN latencies \ out) \cup {d}
      /\ latencies'[d] = slot
      /\ \A e \in DOMAIN latencies \ (out \cup {d}) : latencies'[e] = latencies[e]
  BY DEF MapPut, MapKeep
<1>2. IsFiniteSet(DOMAIN latencies')
  <2>1. IsFiniteSet(DOMAIN latencies \ out)
    BY FS_Subset DEF LatencyInv
  <2> QED
    BY <1>1, <2>1, FS_AddElement
<1>3. PICK R : R = Regular(latencies) /\ IsFiniteSet(R) /\ Cardinality(R) <= MaxEntries
  <2>1. Regular(latencies) \in SUBSET (DOMAIN latencies)
    BY DEF Regular
  <2> QED
    BY <2>1, FS_Subset DEF LatencyInv, RegularBounded
<1>4. MaxEntries \in Nat
  BY LatencyAssumption
<1>5. Cardinality(R) \in Nat
  BY <1>3, FS_CardinalityType
<1>6. CASE slot.authority
  <2>1. Regular(latencies)' \in SUBSET R
    BY <1>1, <1>3, <1>6 DEF Regular
  <2>2. IsFiniteSet(Regular(latencies)') /\ Cardinality(Regular(latencies)') <= Cardinality(R)
    BY <1>3, <2>1, FS_Subset
  <2>3. Cardinality(Regular(latencies)') \in Nat
    BY <2>2, FS_CardinalityType
  <2> QED
    BY <1>2, <1>3, <1>4, <1>5, <2>2, <2>3 DEF RegularBounded
<1>7. CASE ~slot.authority
  <2>1. PICK S : S = R \ {d} /\ IsFiniteSet(S) /\ Cardinality(S) <= MaxEntries
    <3>1. R \ {d} \in SUBSET R
      OBVIOUS
    <3>2. IsFiniteSet(R \ {d}) /\ Cardinality(R \ {d}) <= Cardinality(R)
      BY <1>3, <3>1, FS_Subset
    <3>3. Cardinality(R \ {d}) \in Nat
      BY <3>2, FS_CardinalityType
    <3> QED
      BY <1>3, <1>4, <1>5, <3>2, <3>3
  <2>2. Regular(latencies)' = (S \ out) \cup {d}
    BY <1>1, <1>3, <1>7, <2>1 DEF Regular
  <2>3. \/ out = {} /\ Cardinality(S) < MaxEntries
        \/ \E e \in S : out = {e}
    <3>1. out \in Evictable(latencies, d)
      BY <1>7
    <3>2. CASE Cardinality(S) < MaxEntries
      BY <1>3, <2>1, <3>1, <3>2 DEF Evictable
    <3>3. CASE ~(Cardinality(S) < MaxEntries)
      <4>1. PICK e \in Oldest(MapDelete(latencies, d)) : out = {e}
        BY <1>3, <2>1, <3>1, <3>3 DEF Evictable
      <4>2. e \in Regular(MapDelete(latencies, d))
        BY <4>1 DEF Oldest
      <4>3. e \in S
        BY <1>3, <2>1, <4>2 DEF Regular, MapDelete
      <4> QED
        BY <4>1, <4>3
    <3> QED
      BY <3>2, <3>3
  <2>4. PICK T : T = S \ out
    OBVIOUS
  <2>5. \/ T \subseteq S /\ Cardinality(S) < MaxEntries
        \/ \E e \in S : T \subseteq S \ {e} /\ Cardinality(S) <= MaxEntries
    BY <2>1, <2>3, <2>4
  <2>6. Cardinality(T \cup {d}) <= MaxEntries
    BY <1>4, <2>1, <2>5, RoomForOne
  <2> QED
    BY <1>2, <2>2, <2>4, <2>6 DEF RegularBounded
<1> QED
  BY <1>6, <1>7 DEF Slot

\* Domains whose table entry and row stay as they are, and stay pending when they
\* are, cause no divergence.
LEMMA RowsKept ==
    ASSUME RowsFollowTable,
           \A d \in Domains \ Pending' :
               /\ d \notin Pending
               /\ d \in DOMAIN latencies' <=> d \in DOMAIN latencies
               /\ d \in DOMAIN latencies => latencies'[d].updated = latencies[d].updated
               /\ d \in DOMAIN latencyRows' <=> d \in DOMAIN latencyRows
               /\ d \in DOMAIN latencyRows => latencyRows'[d] = latencyRows[d]
    PROVE  RowsFollowTable'
BY DEF RowsFollowTable

\* A sample: the domain it evicts is marked at once, its own is about to be.
LEMMA RecordKeeps ==
    ASSUME LatencyInv, NEW g \in Recorders, NEW d \in Domains, RecordLatencySample(g, d)
    PROVE  LatencyInv'
<1>1. /\ g \notin DOMAIN unmarked /\ clock < MaxClock /\ clock' = clock + 1
      /\ UNCHANGED <<authorities, latencyRows, latencyMarks>> /\ LatencyTypeOK
  BY DEF RecordLatencySample, LatencyInv
<1>2. clock \in 0..MaxClock /\ MaxClock \in Nat /\ clock' \in 0..MaxClock
  BY <1>1, LatencyAssumption DEF LatencyTypeOK
<1>3. PICK b \in BOOLEAN : b = (d \in authorities)
  <2>1. CASE d \in authorities
    BY <2>1
  <2>2. CASE d \notin authorities
    <3>1. FALSE = (d \in authorities)
      BY <2>2
    <3> QED
      BY <3>1, Zenon
  <2> QED
    BY <2>1, <2>2
<1>4. PICK slot \in Slot : slot = [authority |-> b, access |-> clock + 1, updated |-> clock + 1]
  BY <1>1, <1>2 DEF Slot
<1>5. slot.authority = b
  BY <1>4
<1>6. PICK out \in IF slot.authority THEN {{}} ELSE Evictable(latencies, d) :
        /\ latencies' = MapPut(MapKeep(latencies, DOMAIN latencies \ out), d, slot)
        /\ unmarked' = MapPut(unmarked, g, {d} \cup out)
  BY <1>3, <1>4, <1>5 DEF RecordLatencySample
<1>7. IsFiniteSet(DOMAIN latencies') /\ RegularBounded'
  BY <1>6, RecordKeepsRegular
<1>8. /\ DOMAIN latencies' = (DOMAIN latencies \ out) \cup {d} /\ latencies'[d] = slot
      /\ \A e \in DOMAIN latencies \ (out \cup {d}) : latencies'[e] = latencies[e]
  BY <1>6 DEF MapPut, MapKeep
<1>9. out \subseteq Domains
  <2>1. CASE out = {}
    BY <2>1
  <2>2. CASE out # {}
    <3>1. PICK e \in Oldest(MapDelete(latencies, d)) : out = {e}
      BY <1>6, <2>2 DEF Evictable
    <3>2. e \in DOMAIN latencies
      BY <3>1 DEF Oldest, Regular, MapDelete
    <3> QED
      BY <1>1, <3>1, <3>2 DEF LatencyTypeOK, IsMap
  <2> QED
    BY <2>1, <2>2
<1>10. /\ DOMAIN unmarked' = DOMAIN unmarked \cup {g} /\ unmarked'[g] = {d} \cup out
       /\ \A h \in DOMAIN unmarked : unmarked'[h] = unmarked[h]
       /\ IsMap(unmarked', Recorders, SUBSET Domains)
  BY <1>1, <1>6, <1>9 DEF MapPut, LatencyTypeOK, IsMap
<1>11. IsMap(latencies', Domains, Slot)
  BY <1>1, <1>6 DEF MapPut, MapKeep, LatencyTypeOK, IsMap
<1>12. LatencyTypeOK'
  BY <1>1, <1>2, <1>10, <1>11 DEF LatencyTypeOK
<1>13. Pending \cup {d} \cup out \subseteq Pending'
  BY <1>1, <1>10 DEF Pending
<1>14. RowsFollowTable'
  <2>1. RowsFollowTable
    BY DEF LatencyInv
  <2>2. \A e \in Domains \ Pending' : e \notin Pending /\ e \notin out \cup {d}
    BY <1>13
  <2>3. \A e \in Domains \ Pending' :
          /\ e \notin Pending
          /\ e \in DOMAIN latencies' <=> e \in DOMAIN latencies
          /\ e \in DOMAIN latencies => latencies'[e].updated = latencies[e].updated
          /\ e \in DOMAIN latencyRows' <=> e \in DOMAIN latencyRows
          /\ e \in DOMAIN latencyRows => latencyRows'[e] = latencyRows[e]
    BY <1>1, <1>8, <2>2
  <2> QED
    BY <2>1, <2>3, RowsKept
<1> QED
  BY <1>1, <1>7, <1>12, <1>14 DEF LatencyInv

\* The mark that follows a sample.
LEMMA MarkKeeps ==
    ASSUME LatencyInv, NEW g \in Recorders, NEW d \in Domains, MarkNodeLatency(g, d)
    PROVE  LatencyInv'
<1>1. /\ g \in DOMAIN unmarked /\ d \in unmarked[g] /\ latencyMarks' = latencyMarks \cup {d}
      /\ UNCHANGED <<authorities, latencies, clock, latencyRows>> /\ LatencyTypeOK
  BY DEF MarkNodeLatency, LatencyInv
<1>2. /\ IsMap(unmarked', Recorders, SUBSET Domains)
      /\ \A h \in DOMAIN unmarked : \A e \in unmarked[h] \ {d} :
           h \in DOMAIN unmarked' /\ e \in unmarked'[h]
  BY <1>1 DEF MarkNodeLatency, MapDelete, LatencyTypeOK, IsMap
<1>3. LatencyTypeOK'
  BY <1>1, <1>2 DEF LatencyTypeOK
<1>4. Pending \subseteq Pending'
  BY <1>1, <1>2 DEF Pending
<1>5. RowsFollowTable'
  BY <1>1, <1>4, RowsKept DEF LatencyInv
<1>6. RegularBounded'
  BY <1>1 DEF LatencyInv, RegularBounded, Regular
<1> QED
  BY <1>1, <1>3, <1>5, <1>6 DEF LatencyInv

\* A read that touches changes the age of an entry only.
LEMMA TouchKeeps ==
    ASSUME LatencyInv, NEW d \in Domains, GetDomainStats(d)
    PROVE  LatencyInv'
<1>1. /\ d \in DOMAIN latencies /\ clock < MaxClock /\ clock' = clock + 1
      /\ UNCHANGED <<authorities, latencyRows, latencyMarks, unmarked>> /\ LatencyTypeOK
  BY DEF GetDomainStats, LatencyInv
<1>2. clock \in 0..MaxClock /\ MaxClock \in Nat /\ clock' \in 0..MaxClock
  BY <1>1, LatencyAssumption DEF LatencyTypeOK
<1>3. latencies[d] \in Slot
  BY <1>1 DEF LatencyTypeOK, IsMap
<1>4. PICK slot \in Slot : /\ slot = [latencies[d] EXCEPT !.access = clock + 1]
                           /\ slot.authority = latencies[d].authority
                           /\ slot.updated = latencies[d].updated
  <2>1. PICK now \in 0..MaxClock : now = clock + 1
    BY <1>1, <1>2
  <2>2. [latencies[d] EXCEPT !.access = now] \in Slot
    BY <1>3 DEF Slot
  <2>3. /\ [latencies[d] EXCEPT !.access = now].authority = latencies[d].authority
        /\ [latencies[d] EXCEPT !.access = now].updated = latencies[d].updated
    BY <1>3 DEF Slot
  <2> QED
    BY <2>1, <2>2, <2>3
<1>5. latencies' = [latencies EXCEPT ![d] = slot]
  BY <1>4 DEF GetDomainStats
<1>6. /\ IsMap(latencies', Domains, Slot) /\ DOMAIN latencies' = DOMAIN latencies
      /\ latencies'[d] = slot
      /\ \A e \in DOMAIN latencies \ {d} : latencies'[e] = latencies[e]
  BY <1>1, <1>5 DEF LatencyTypeOK, IsMap
<1>7. LatencyTypeOK'
  BY <1>1, <1>2, <1>6 DEF LatencyTypeOK
<1>8. Regular(latencies)' = Regular(latencies)
  BY <1>4, <1>6 DEF Regular
<1>9. Pending' = Pending
  BY <1>1 DEF Pending
<1>10. RowsFollowTable'
  BY <1>1, <1>4, <1>6, <1>9, RowsKept DEF LatencyInv
<1> QED
  BY <1>1, <1>6, <1>7, <1>8, <1>10 DEF LatencyInv, RegularBounded

\* A new authority list trims the regular part and marks what it drops.
LEMMA AuthoritiesKeep ==
    ASSUME LatencyInv, NEW A \in AuthorityLists, SetLatencyAuthorities(A)
    PROVE  LatencyInv'
<1>1. /\ authorities' \in AuthorityLists
      /\ UNCHANGED <<latencies, clock, latencyRows, latencyMarks, unmarked>>
  BY DEF SetLatencyAuthorities
<1> QED
  BY <1>1 DEF LatencyInv, LatencyTypeOK, RegularBounded, Regular, RowsFollowTable, Pending

\* A flush brings the rows to the table and clears the marks.
LEMMA FlushKeeps ==
    ASSUME LatencyInv, FlushLatencyRows
    PROVE  LatencyInv'
<1>1. /\ latencyMarks' = {} /\ LatencyTypeOK
      /\ UNCHANGED <<authorities, latencies, clock, unmarked>>
      /\ latencyRows' = [d \in (DOMAIN latencyRows \ latencyMarks)
                                 \cup (latencyMarks \cap DOMAIN latencies) |->
                           IF d \in latencyMarks THEN latencies[d].updated ELSE latencyRows[d]]
  BY DEF FlushLatencyRows, LatencyInv
<1>2. /\ \A d \in latencyMarks :
           /\ d \in DOMAIN latencyRows' <=> d \in DOMAIN latencies
           /\ d \in DOMAIN latencies => latencyRows'[d] = latencies[d].updated
      /\ \A d : d \notin latencyMarks =>
           /\ d \in DOMAIN latencyRows' <=> d \in DOMAIN latencyRows
           /\ d \in DOMAIN latencyRows => latencyRows'[d] = latencyRows[d]
  BY <1>1
<1>3. IsMap(latencyRows', Domains, 0..MaxClock)
  <2>1. \A d \in DOMAIN latencies : latencies[d].updated \in 0..MaxClock
    BY <1>1 DEF LatencyTypeOK, IsMap, Slot
  <2> QED
    BY <1>1, <2>1 DEF LatencyTypeOK, IsMap
<1>4. LatencyTypeOK'
  BY <1>1, <1>3 DEF LatencyTypeOK
<1>5. IsFiniteSet(DOMAIN latencyRows')
  <2>1. IsFiniteSet(DOMAIN latencyRows \cup DOMAIN latencies)
    BY FS_Union DEF LatencyInv
  <2>2. DOMAIN latencyRows' \in SUBSET (DOMAIN latencyRows \cup DOMAIN latencies)
    BY <1>1
  <2> QED
    BY <2>1, <2>2, FS_Subset
<1>6. RowsFollowTable'
  <2>1. Pending \subseteq Pending' \cup latencyMarks
    BY <1>1 DEF Pending
  <2> QED
    BY <1>1, <1>2, <2>1 DEF LatencyInv, RowsFollowTable
<1>7. RegularBounded'
  BY <1>1 DEF LatencyInv, RegularBounded, Regular
<1> QED
  BY <1>1, <1>4, <1>5, <1>6, <1>7 DEF LatencyInv

\* A restart loads the rows, as many as there is room for.
LEMMA RestoreKeeps ==
    ASSUME LatencyInv, RestoreLatencies
    PROVE  LatencyInv'
<1>1. /\ unmarked' = EmptyMap /\ UNCHANGED <<authorities, clock, latencyRows>> /\ LatencyTypeOK
  BY DEF RestoreLatencies, LatencyInv
<1>2. PICK R : R = DOMAIN latencyRows \ authorities
  OBVIOUS
<1>3. PICK keep \in SUBSET R :
        /\ Cardinality(keep) = IF Cardinality(R) <= MaxEntries THEN Cardinality(R) ELSE MaxEntries
        /\ latencies' = [d \in (DOMAIN latencyRows \cap authorities) \cup keep |->
                           [authority |-> d \in authorities,
                            access |-> latencyRows[d], updated |-> latencyRows[d]]]
        /\ latencyMarks' = R \ keep
  BY <1>2 DEF RestoreLatencies
<1>4. DOMAIN latencies' = (DOMAIN latencyRows \cap authorities) \cup keep
  BY <1>3
<1>5. \A d \in DOMAIN latencies' :
        latencies'[d] = [authority |-> d \in authorities,
                         access |-> latencyRows[d], updated |-> latencyRows[d]]
  BY <1>3
<1>6. \A d \in DOMAIN latencies' :
        /\ latencies'[d] \in Slot
        /\ latencies'[d].authority <=> d \in authorities
        /\ latencies'[d].updated = latencyRows[d]
  <2>1. SUFFICES ASSUME NEW d \in DOMAIN latencies'
                 PROVE  /\ latencies'[d] \in Slot
                        /\ latencies'[d].authority <=> d \in authorities
                        /\ latencies'[d].updated = latencyRows[d]
    OBVIOUS
  <2>2. PICK b \in BOOLEAN : b = (d \in authorities)
    <3>1. CASE d \in authorities
      BY <3>1
    <3>2. CASE d \notin authorities
      <4>1. FALSE = (d \in authorities)
        BY <3>2
      <4> QED
        BY <4>1, Zenon
    <3> QED
      BY <3>1, <3>2
  <2>3. latencyRows[d] \in 0..MaxClock
    BY <1>1, <1>2, <1>4, <2>1 DEF LatencyTypeOK, IsMap
  <2>4. latencies'[d] = [authority |-> b, access |-> latencyRows[d], updated |-> latencyRows[d]]
    BY <1>5, <2>2
  <2>5. latencies'[d] \in Slot
    BY <2>3, <2>4 DEF Slot
  <2>6. latencies'[d].authority <=> d \in authorities
    <3>1. latencies'[d].authority = b
      BY <2>4
    <3> QED
      BY <2>2, <3>1, Zenon
  <2>7. latencies'[d].updated = latencyRows[d]
    BY <2>4
  <2> QED
    BY <2>5, <2>6, <2>7
<1>7. DOMAIN latencyRows \subseteq Domains
  BY <1>1 DEF LatencyTypeOK, IsMap
<1>8. LatencyTypeOK'
  <2>1. IsMap(latencies', Domains, Slot)
    BY <1>2, <1>3, <1>4, <1>6, <1>7 DEF IsMap
  <2>2. IsMap(unmarked', Recorders, SUBSET Domains)
    BY <1>1, EmptyMapType
  <2> QED
    BY <1>1, <1>2, <1>3, <1>7, <2>1, <2>2 DEF LatencyTypeOK
<1>9. IsFiniteSet(DOMAIN latencies') /\ IsFiniteSet(keep)
  <2>1. DOMAIN latencies' \in SUBSET (DOMAIN latencyRows) /\ keep \in SUBSET (DOMAIN latencyRows)
    BY <1>2, <1>4
  <2> QED
    BY <2>1, FS_Subset DEF LatencyInv
<1>10. RegularBounded'
  <2>1. Regular(latencies)' = keep
    BY <1>2, <1>3, <1>4, <1>6 DEF Regular
  <2>2. IsFiniteSet(R)
    <3>1. R \in SUBSET (DOMAIN latencyRows)
      BY <1>2
    <3> QED
      BY <3>1, FS_Subset DEF LatencyInv
  <2>3. Cardinality(R) \in Nat /\ MaxEntries \in Nat
    BY <2>2, FS_CardinalityType, LatencyAssumption
  <2> QED
    BY <1>3, <2>1, <2>3 DEF RegularBounded
<1>11. RowsFollowTable'
  <2>1. R \ keep \subseteq Pending'
    BY <1>3 DEF Pending
  <2> QED
    BY <1>1, <1>2, <1>3, <1>4, <1>6, <2>1 DEF RowsFollowTable
<1> QED
  BY <1>1, <1>8, <1>9, <1>10, <1>11 DEF LatencyInv

\* An empty table and no rows.
LEMMA LatencyInvInit == LatencyInit => LatencyInv
<1> SUFFICES ASSUME LatencyInit PROVE LatencyInv
  OBVIOUS
<1>1. DOMAIN latencies = {} /\ DOMAIN latencyRows = {}
  BY EmptyMapType DEF LatencyInit
<1>2. LatencyTypeOK
  BY EmptyMapType, LatencyAssumption DEF LatencyInit, LatencyTypeOK
<1>3. RegularBounded
  <2>1. Regular(latencies) = {}
    BY <1>1 DEF Regular
  <2> QED
    BY <2>1, FS_EmptySet, LatencyAssumption DEF RegularBounded
<1> QED
  BY <1>1, <1>2, <1>3, FS_EmptySet DEF LatencyInv, RowsFollowTable

\* The invariant of the latency table, at all times.
LEMMA LatencyInvHolds == LatencySpec => []LatencyInv
<1>1. ASSUME LatencyInv, UNCHANGED latencyVars PROVE LatencyInv'
  BY <1>1 DEF latencyVars, LatencyInv, LatencyTypeOK, RegularBounded, Regular,
              RowsFollowTable, Pending
<1>2. LatencyInv /\ [LatencyNext]_latencyVars => LatencyInv'
  BY <1>1, RecordKeeps, MarkKeeps, TouchKeeps, AuthoritiesKeep, FlushKeeps, RestoreKeeps
     DEF LatencyNext
<1> QED
  BY LatencyInvInit, <1>2, PTL DEF LatencySpec

\* However samples, changes of the authority list and restarts interleave, the
\* regular partition stays within MaxEntries (upsertRegularLocked, LoadEntry).
THEOREM PartitionCorrect == LatencySpec => []RegularBounded
<1>1. LatencyInv => RegularBounded
  BY DEF LatencyInv
<1> QED
  BY LatencyInvHolds, <1>1, PTL

\* A row of node_latency that differs from the table has its domain marked or
\* about to be marked: evictions and trims reach cache.db.
THEOREM LatencyRowsCorrect == LatencySpec => []RowsFollowTable
<1>1. LatencyInv => RowsFollowTable
  BY DEF LatencyInv
<1> QED
  BY LatencyInvHolds, <1>1, PTL

-----------------------------------------------------------------------------
(* Deferred flush of the traffic counters *)

FlushPhases(d) ==
    {"added", "arm", "armed", "fired", "swapRead"} \cup (IF d = "write" THEN {"swapWrite"} ELSE {})

\* An armed flush has its timer; so a copy loop that finds it armed may leave.
ConnInv ==
    /\ pendingBytes \in [Directions -> Nat]
    /\ connActors \in [ConnActors -> [at : ConnPhases, read : Nat, write : Nat]]
    /\ ~connClosed =>
         /\ flushArmed => \E a \in ConnActors : connActors[a].at = "armed"
         /\ \A d \in Directions : pendingBytes[d] > 0 =>
              \E a \in ConnActors : connActors[a].at \in FlushPhases(d)

\* What a phase change writes.
LEMMA ActorMoves ==
    ASSUME ConnInv, NEW a \in ConnActors, NEW phase \in ConnPhases, ActorGoto(a, phase)
    PROVE  /\ connActors' \in [ConnActors -> [at : ConnPhases, read : Nat, write : Nat]]
           /\ connActors'[a].at = phase
           /\ \A b \in ConnActors \ {a} : connActors'[b] = connActors[b]
BY DEF ConnInv, ActorGoto

\* A copy loop adds to the pending traffic and sees to its flush.
LEMMA CopyKeeps ==
    ASSUME ConnInv, NEW c \in CopyLoops, Transfer(c) \/ CheckClosed(c) \/ ArmDeferredFlush(c)
    PROVE  ConnInv'
<1>1. c \in ConnActors
  BY DEF ConnActors
<1>2. CASE Transfer(c)
  <2>1. PICK d \in Directions : d = Copiers[c]
    BY ConnAssumption DEF CopyLoops
  <2>2. PICK phase \in {"swapRead", "added"} : ActorGoto(c, phase)
    BY <1>2 DEF Transfer
  <2>3. /\ connActors' \in [ConnActors -> [at : ConnPhases, read : Nat, write : Nat]]
        /\ connActors'[c].at = phase
        /\ \A b \in ConnActors \ {c} : connActors'[b] = connActors[b]
    BY <1>1, <2>2, ActorMoves DEF ConnPhases
  <2>4. connActors[c].at = "idle" /\ UNCHANGED <<flushArmed, connClosed>>
    BY <1>2 DEF Transfer, ActorAt
  <2>5. pendingBytes' \in [Directions -> Nat]
    BY <1>2, <2>1 DEF Transfer, ConnInv
  <2>6. \A e \in Directions : phase \in FlushPhases(e)
    BY DEF FlushPhases
  <2> QED
    BY <1>1, <2>3, <2>4, <2>5, <2>6 DEF ConnInv
<1>3. CASE CheckClosed(c)
  <2>1. PICK phase \in {"idle", "arm"} : ActorGoto(c, phase) /\ (~connClosed => phase = "arm")
    BY <1>3 DEF CheckClosed
  <2>2. /\ connActors' \in [ConnActors -> [at : ConnPhases, read : Nat, write : Nat]]
        /\ connActors'[c].at = phase
        /\ \A b \in ConnActors \ {c} : connActors'[b] = connActors[b]
    BY <1>1, <2>1, ActorMoves DEF ConnPhases
  <2>3. connActors[c].at = "added" /\ UNCHANGED <<flushArmed, connClosed, pendingBytes>>
    BY <1>3 DEF CheckClosed, ActorAt
  <2>4. \A e \in Directions : "arm" \in FlushPhases(e)
    BY DEF FlushPhases
  <2> QED
    BY <1>1, <2>1, <2>2, <2>3, <2>4 DEF ConnInv
<1>4. CASE ArmDeferredFlush(c)
  <2>1. connActors[c].at = "arm" /\ UNCHANGED <<connClosed, pendingBytes>>
    BY <1>4 DEF ArmDeferredFlush, ActorAt
  <2>2. \A e \in Directions : "armed" \in FlushPhases(e)
    BY DEF FlushPhases
  <2>3. CASE flushArmed /\ ActorGoto(c, "idle") /\ UNCHANGED flushArmed
    <3>1. /\ connActors' \in [ConnActors -> [at : ConnPhases, read : Nat, write : Nat]]
          /\ \A b \in ConnActors \ {c} : connActors'[b] = connActors[b]
      BY <1>1, <2>3, ActorMoves DEF ConnPhases
    <3> QED
      BY <1>1, <2>1, <2>2, <2>3, <3>1 DEF ConnInv
  <2>4. ASSUME NEW t \in DeferredFlushes, ActorAt(t, "idle"), flushArmed' = TRUE,
               connActors' = [connActors EXCEPT ![c].at = "idle", ![t].at = "armed"]
        PROVE  ConnInv'
    <3>1. t \in ConnActors /\ t # c
      BY <2>1, <2>4 DEF ConnActors, ActorAt
    <3>2. /\ connActors' \in [ConnActors -> [at : ConnPhases, read : Nat, write : Nat]]
          /\ connActors'[t].at = "armed"
      BY <1>1, <2>4, <3>1 DEF ConnInv, ConnPhases
    <3> QED
      BY <2>1, <2>2, <2>4, <3>1, <3>2 DEF ConnInv
  <2> QED
    BY <1>4, <2>3, <2>4 DEF ArmDeferredFlush
<1> QED
  BY <1>2, <1>3, <1>4

\* The timer fires and goes on to flush.
LEMMA TimerKeeps ==
    ASSUME ConnInv, NEW t \in DeferredFlushes, FireDeferredFlush(t) \/ FiredCheckClosed(t)
    PROVE  ConnInv'
<1>1. t \in ConnActors
  BY DEF ConnActors
<1>2. PICK phase \in {"fired", "idle", "swapRead"} :
        ActorGoto(t, phase) /\ (phase = "idle" => connClosed)
  BY DEF FireDeferredFlush, FiredCheckClosed
<1>3. /\ connActors' \in [ConnActors -> [at : ConnPhases, read : Nat, write : Nat]]
      /\ connActors'[t].at = phase
      /\ \A b \in ConnActors \ {t} : connActors'[b] = connActors[b]
  BY <1>1, <1>2, ActorMoves DEF ConnPhases
<1>4. /\ UNCHANGED <<connClosed, pendingBytes>>
      /\ flushArmed' = FALSE \/ (flushArmed' = flushArmed /\ connActors[t].at = "fired")
  BY DEF FireDeferredFlush, FiredCheckClosed, ActorAt
<1>5. \A e \in Directions : {"fired", "swapRead"} \subseteq FlushPhases(e)
  BY DEF FlushPhases
<1> QED
  BY <1>1, <1>2, <1>3, <1>4, <1>5 DEF ConnInv

\* Close goes on to flush.
LEMMA CloseKeeps ==
    ASSUME ConnInv, NEW c \in Closers, CloseConn(c)
    PROVE  ConnInv'
<1>1. c \in ConnActors
  BY DEF ConnActors
<1>2. connActors' \in [ConnActors -> [at : ConnPhases, read : Nat, write : Nat]]
  BY <1>1, ActorMoves DEF CloseConn, ConnPhases
<1> QED
  BY <1>2 DEF CloseConn, ConnInv

\* A flush swaps out both directions and reports them.
LEMMA FlushingKeeps ==
    ASSUME ConnInv, NEW a \in ConnActors, SwapRead(a) \/ SwapWrite(a) \/ ReportTraffic(a)
    PROVE  ConnInv'
<1>1. UNCHANGED <<flushArmed, connClosed>>
  BY DEF SwapRead, SwapWrite, ReportTraffic
<1>2. CASE SwapRead(a)
  <2>1. connActors[a].at = "swapRead" /\ pendingBytes["read"] \in Nat
    BY <1>2 DEF SwapRead, ActorAt, ConnInv, Directions
  <2>2. /\ connActors' \in [ConnActors -> [at : ConnPhases, read : Nat, write : Nat]]
        /\ connActors'[a].at = "swapWrite"
        /\ \A b \in ConnActors \ {a} : connActors'[b] = connActors[b]
    BY <1>2, <2>1 DEF SwapRead, ConnInv, ConnPhases
  <2>3. /\ pendingBytes' \in [Directions -> Nat] /\ pendingBytes'["read"] = 0
        /\ pendingBytes'["write"] = pendingBytes["write"]
    BY <1>2 DEF SwapRead, ConnInv, Directions
  <2>4. "swapWrite" \in FlushPhases("write")
    BY DEF FlushPhases
  <2>5. \A d \in Directions : pendingBytes'[d] > 0 => d = "write"
    BY <2>3 DEF Directions
  <2> QED
    BY <1>1, <2>1, <2>2, <2>3, <2>4, <2>5 DEF ConnInv
<1>3. CASE SwapWrite(a)
  <2>1. connActors[a].at = "swapWrite" /\ pendingBytes["write"] \in Nat
    BY <1>3 DEF SwapWrite, ActorAt, ConnInv, Directions
  <2>2. /\ connActors' \in [ConnActors -> [at : ConnPhases, read : Nat, write : Nat]]
        /\ \A b \in ConnActors \ {a} : connActors'[b] = connActors[b]
    BY <1>3, <2>1 DEF SwapWrite, ConnInv, ConnPhases
  <2>3. /\ pendingBytes' \in [Directions -> Nat] /\ pendingBytes'["write"] = 0
        /\ pendingBytes'["read"] = pendingBytes["read"]
    BY <1>3 DEF SwapWrite, ConnInv, Directions
  <2>4. "swapWrite" \notin FlushPhases("read")
    BY DEF FlushPhases
  <2>5. \A d \in Directions : pendingBytes'[d] > 0 => d = "read" /\ pendingBytes[d] > 0
    BY <2>3 DEF Directions
  <2> QED
    BY <1>1, <2>1, <2>2, <2>3, <2>4, <2>5 DEF ConnInv
<1>4. CASE ReportTraffic(a)
  <2>1. connActors[a].at = "report" /\ pendingBytes' = pendingBytes
    BY <1>4 DEF ReportTraffic, ActorAt
  <2>2. /\ connActors' \in [ConnActors -> [at : ConnPhases, read : Nat, write : Nat]]
        /\ \A b \in ConnActors \ {a} : connActors'[b] = connActors[b]
    BY <1>4 DEF ReportTraffic, ConnInv, ConnPhases
  <2>3. \A d : "report" \notin FlushPhases(d)
    BY DEF FlushPhases
  <2> QED
    BY <1>1, <2>1, <2>2, <2>3 DEF ConnInv
<1> QED
  BY <1>2, <1>3, <1>4

\* On an open connection pending bytes always have a flush on its way: the copy
\* loop that added them, the armed timer or a flush before its swap.
THEOREM FlushCorrect == ConnSpec => []PendingWillFlush
<1>1. ConnInit => ConnInv
  BY DEF ConnInit, ConnInv, ConnPhases
<1>2. ASSUME ConnInv, UNCHANGED connVars PROVE ConnInv'
  BY <1>2 DEF ConnInv, connVars
<1>3. ConnInv /\ [ConnNext]_connVars => ConnInv'
  BY <1>2, CopyKeeps, TimerKeeps, CloseKeeps, FlushingKeeps DEF ConnNext
<1>4. ConnInv => PendingWillFlush
  BY DEF ConnInv, PendingWillFlush, FlushPhases, Directions
<1> QED
  BY <1>1, <1>3, <1>4, PTL DEF ConnSpec

-----------------------------------------------------------------------------
(* The sums of the traffic counters *)

\* h[a] units in the hands of every a, numbered.
Units(h, A, n) == {unit \in A \X (1..n) : unit[2] <= h[unit[1]]}

\* The units of finitely many holders are finitely many.
LEMMA UnitsFinite ==
    ASSUME NEW A, IsFiniteSet(A), NEW n \in Nat, NEW h
    PROVE  IsFiniteSet(Units(h, A, n)) /\ Cardinality(Units(h, A, n)) \in Nat
<1>1. IsFiniteSet(1..n)
  BY FS_Interval
<1>2. IsFiniteSet(A \X (1..n))
  BY <1>1, FS_Product
<1>3. Units(h, A, n) \subseteq A \X (1..n)
  BY DEF Units
<1> QED
  BY <1>2, <1>3, FS_Subset, FS_CardinalityType

\* The units of one actor.
LEMMA UnitsOfOne ==
    ASSUME NEW a, NEW k \in Nat
    PROVE  IsFiniteSet({a} \X (1..k)) /\ Cardinality({a} \X (1..k)) = k
<1>1. IsFiniteSet(1..k) /\ Cardinality(1..k) = k
  BY FS_Interval
<1>2. IsFiniteSet({a}) /\ Cardinality({a}) = 1
  BY FS_Singleton
<1> QED
  BY <1>1, <1>2, FS_Product

\* Taken apart: the units of one actor and those of the others.
LEMMA UnitsSplit ==
    ASSUME NEW A, IsFiniteSet(A), NEW n \in Nat, NEW h \in [A -> 0..n], NEW a \in A,
           NEW rest, rest = {unit \in Units(h, A, n) : unit[1] # a}
    PROVE  /\ IsFiniteSet(rest) /\ Cardinality(rest) \in Nat
           /\ Cardinality(Units(h, A, n)) = Cardinality(rest) + h[a]
<1>1. PICK own : own = {a} \X (1..h[a])
  OBVIOUS
<1>2. h[a] \in Nat /\ h[a] <= n
  OBVIOUS
<1>3. IsFiniteSet(own) /\ Cardinality(own) = h[a]
  BY <1>1, <1>2, UnitsOfOne
<1>4. IsFiniteSet(Units(h, A, n))
  BY UnitsFinite
<1>5. IsFiniteSet(rest) /\ Cardinality(rest) \in Nat
  BY <1>4, FS_Subset, FS_CardinalityType
<1>6. Units(h, A, n) = rest \cup own
  BY <1>1, <1>2 DEF Units
<1>7. rest \cap own = {}
  BY <1>1
<1>8. Cardinality(rest \cup own) = Cardinality(rest) + Cardinality(own) - Cardinality(rest \cap own)
  BY <1>3, <1>5, FS_Union
<1>9. Cardinality(rest \cap own) = 0
  BY <1>7, FS_EmptySet
<1> QED
  BY <1>2, <1>3, <1>5, <1>6, <1>8, <1>9

\* What one actor takes or gives changes the number of units by as much.
LEMMA UnitsChange ==
    ASSUME NEW A, IsFiniteSet(A), NEW n \in Nat, NEW h \in [A -> 0..n], NEW g \in [A -> 0..n],
           NEW a \in A, \A b \in A \ {a} : g[b] = h[b]
    PROVE  Cardinality(Units(g, A, n)) + h[a] = Cardinality(Units(h, A, n)) + g[a]
<1>1. PICK rest : rest = {unit \in Units(h, A, n) : unit[1] # a}
  OBVIOUS
<1>2. rest = {unit \in Units(g, A, n) : unit[1] # a}
  BY <1>1 DEF Units
<1>3. /\ Cardinality(rest) \in Nat
      /\ Cardinality(Units(h, A, n)) = Cardinality(rest) + h[a]
  BY <1>1, UnitsSplit
<1>4. Cardinality(Units(g, A, n)) = Cardinality(rest) + g[a]
  BY <1>2, UnitsSplit
<1> QED
  BY <1>3, <1>4

\* Only a flush between its swaps and its report has units in its hands; what
\* it has was pending, and so never exceeds what was moved.
HandsInv ==
    /\ transferred \in [Directions -> 0..MaxTransfers]
    /\ reportedBytes \in [Directions -> Nat]
    /\ \A a \in ConnActors :
         /\ connActors[a].read <= MaxTransfers /\ connActors[a].write <= MaxTransfers
         /\ connActors[a].read # 0 => connActors[a].at \in {"swapWrite", "report"}
         /\ connActors[a].write # 0 => connActors[a].at = "report"

CountInv == ConnInv /\ HandsInv /\ TrafficCountedOnce

\* The units in the actors' hands, as a function of the actors.
LEMMA HandsAreUnits ==
    ASSUME ConnInv, HandsInv, NEW d \in Directions
    PROVE  \E h \in [ConnActors -> 0..MaxTransfers] :
             /\ \A a \in ConnActors : h[a] = connActors[a][d]
             /\ SwappedOut(d) = Units(h, ConnActors, MaxTransfers)
<1>1. PICK h : h = [a \in ConnActors |-> connActors[a][d]]
  OBVIOUS
<1>2. \A a \in ConnActors : connActors[a][d] \in 0..MaxTransfers
  BY ConnAssumption DEF ConnInv, HandsInv, Directions
<1>3. h \in [ConnActors -> 0..MaxTransfers] /\ \A a \in ConnActors : h[a] = connActors[a][d]
  BY <1>1, <1>2
<1>4. SwappedOut(d) = Units(h, ConnActors, MaxTransfers)
  BY <1>3 DEF SwappedOut, Units
<1> QED
  BY <1>3, <1>4

\* What one actor takes or gives, where the others keep what they have.
LEMMA SwappedChange ==
    ASSUME ConnInv, HandsInv, ConnInv', HandsInv', NEW d \in Directions, NEW a \in ConnActors,
           \A b \in ConnActors \ {a} : connActors'[b][d] = connActors[b][d]
    PROVE  /\ Cardinality(SwappedOut(d)) \in Nat /\ Cardinality(SwappedOut(d)') \in Nat
           /\ connActors[a][d] \in Nat /\ connActors'[a][d] \in Nat
           /\ Cardinality(SwappedOut(d)') + connActors[a][d]
                = Cardinality(SwappedOut(d)) + connActors'[a][d]
<1>1. PICK h \in [ConnActors -> 0..MaxTransfers] :
             /\ \A b \in ConnActors : h[b] = connActors[b][d]
             /\ SwappedOut(d) = Units(h, ConnActors, MaxTransfers)
  BY HandsAreUnits
<1>2. PICK g : g = [b \in ConnActors |-> connActors'[b][d]]
  OBVIOUS
<1>3. \A b \in ConnActors : connActors'[b][d] \in 0..MaxTransfers
  BY ConnAssumption DEF ConnInv, HandsInv, Directions
<1>4. g \in [ConnActors -> 0..MaxTransfers] /\ \A b \in ConnActors : g[b] = connActors'[b][d]
  BY <1>2, <1>3
<1>5. SwappedOut(d)' = Units(g, ConnActors, MaxTransfers)
  BY <1>4 DEF SwappedOut, Units
<1>6. \A b \in ConnActors \ {a} : g[b] = h[b]
  BY <1>1, <1>4
<1>7. IsFiniteSet(ConnActors) /\ MaxTransfers \in Nat
  BY ConnAssumption
<1>8. Cardinality(Units(g, ConnActors, MaxTransfers)) + h[a]
        = Cardinality(Units(h, ConnActors, MaxTransfers)) + g[a]
  BY <1>1, <1>4, <1>6, <1>7, UnitsChange
<1>9. /\ Cardinality(Units(g, ConnActors, MaxTransfers)) \in Nat
      /\ Cardinality(Units(h, ConnActors, MaxTransfers)) \in Nat
  BY <1>7, UnitsFinite
<1> QED
  BY <1>1, <1>4, <1>5, <1>8, <1>9

\* A step on which nobody takes or gives units.
LEMMA SwappedStays ==
    ASSUME NEW d \in Directions, \A b \in ConnActors : connActors'[b][d] = connActors[b][d]
    PROVE  SwappedOut(d)' = SwappedOut(d)
BY DEF SwappedOut

\* What is swapped out is a number.
LEMMA SwappedIsNat ==
    ASSUME ConnInv, HandsInv, NEW d \in Directions
    PROVE  Cardinality(SwappedOut(d)) \in Nat
<1>1. PICK h : SwappedOut(d) = Units(h, ConnActors, MaxTransfers)
  BY HandsAreUnits
<1> QED
  BY <1>1, ConnAssumption, UnitsFinite

\* Steps that move an actor without units.
LEMMA MovesCount ==
    ASSUME CountInv, ConnInv', UNCHANGED <<transferred, pendingBytes, reportedBytes>>,
           \A a \in ConnActors :
             /\ connActors'[a].read = connActors[a].read /\ connActors'[a].write = connActors[a].write
             /\ \/ connActors'[a] = connActors[a]
                \/ connActors[a].at \notin {"swapWrite", "report"}
    PROVE  CountInv'
<1>1. HandsInv'
  BY DEF CountInv, HandsInv
<1>2. \A d \in Directions : \A a \in ConnActors : connActors'[a][d] = connActors[a][d]
  BY DEF CountInv, ConnInv, Directions
<1>3. \A d \in Directions : SwappedOut(d)' = SwappedOut(d)
  BY <1>2, SwappedStays
<1>4. TrafficCountedOnce'
  BY <1>3 DEF CountInv, TrafficCountedOnce
<1> QED
  BY <1>1, <1>4 DEF CountInv

\* A unit that is moved is pending.
LEMMA TransferCounts ==
    ASSUME CountInv, NEW c \in CopyLoops, Transfer(c), ConnInv'
    PROVE  CountInv'
<1>1. PICK d \in Directions : d = Copiers[c]
  BY ConnAssumption DEF CopyLoops
<1>2. c \in ConnActors
  BY DEF ConnActors
<1>3. PICK phase \in {"swapRead", "added"} : connActors' = [connActors EXCEPT ![c].at = phase]
  BY DEF Transfer, ActorGoto
<1>4. \A a \in ConnActors :
        connActors'[a].read = connActors[a].read /\ connActors'[a].write = connActors[a].write
  BY <1>2, <1>3 DEF CountInv, ConnInv
<1>5. /\ connActors[c].at = "idle" /\ connActors[c].read = 0 /\ connActors[c].write = 0
      /\ \A a \in ConnActors \ {c} : connActors'[a] = connActors[a]
  BY <1>2, <1>3 DEF Transfer, ActorAt, CountInv, ConnInv, HandsInv
<1>6. /\ transferred' \in [Directions -> 0..MaxTransfers]
      /\ transferred'[d] = transferred[d] + 1 /\ pendingBytes'[d] = pendingBytes[d] + 1
      /\ \A e \in Directions \ {d} :
           transferred'[e] = transferred[e] /\ pendingBytes'[e] = pendingBytes[e]
      /\ UNCHANGED reportedBytes
  BY <1>1, ConnAssumption DEF Transfer, CountInv, ConnInv, HandsInv
<1>7. HandsInv'
  BY <1>2, <1>4, <1>5, <1>6 DEF CountInv, HandsInv
<1>8. \A e \in Directions : \A a \in ConnActors : connActors'[a][e] = connActors[a][e]
  BY <1>4 DEF CountInv, ConnInv, Directions
<1>9. \A e \in Directions : SwappedOut(e)' = SwappedOut(e) /\ Cardinality(SwappedOut(e)) \in Nat
  BY <1>8, SwappedStays, SwappedIsNat DEF CountInv
<1>10. TrafficCountedOnce'
  <2>1. SUFFICES ASSUME NEW e \in Directions
                 PROVE  transferred'[e] = pendingBytes'[e] + reportedBytes'[e] + Cardinality(SwappedOut(e)')
    BY DEF TrafficCountedOnce
  <2>2. PICK n \in Nat : n = Cardinality(SwappedOut(e)) /\ n = Cardinality(SwappedOut(e)')
    BY <1>9
  <2>3. transferred[e] = pendingBytes[e] + reportedBytes[e] + n
    BY <2>2 DEF CountInv, TrafficCountedOnce
  <2>4. /\ transferred[e] \in Nat /\ pendingBytes[e] \in Nat /\ reportedBytes[e] \in Nat
        /\ reportedBytes'[e] = reportedBytes[e]
    BY <1>6, ConnAssumption DEF CountInv, ConnInv, HandsInv
  <2> QED
    BY <1>1, <1>6, <2>2, <2>3, <2>4
<1> QED
  BY <1>7, <1>10 DEF CountInv

\* Checks, arming, the timer and Close.
LEMMA PhasesCount ==
    ASSUME CountInv, ConnInv',
           \/ \E c \in CopyLoops : CheckClosed(c) \/ ArmDeferredFlush(c)
           \/ \E t \in DeferredFlushes : FireDeferredFlush(t) \/ FiredCheckClosed(t)
           \/ \E c \in Closers : CloseConn(c)
    PROVE  CountInv'
<1>1. UNCHANGED <<transferred, pendingBytes, reportedBytes>>
  BY DEF CheckClosed, ArmDeferredFlush, FireDeferredFlush, FiredCheckClosed, CloseConn
<1>2. CASE \E c \in CopyLoops, t \in DeferredFlushes :
             /\ connActors[c].at = "arm" /\ connActors[t].at = "idle"
             /\ connActors' = [connActors EXCEPT ![c].at = "idle", ![t].at = "armed"]
  <2>1. PICK c \in ConnActors, t \in ConnActors :
             /\ connActors[c].at = "arm" /\ connActors[t].at = "idle"
             /\ connActors' = [connActors EXCEPT ![c].at = "idle", ![t].at = "armed"]
    BY <1>2 DEF ConnActors
  <2>2. c # t
    BY <2>1
  <2>3. \A a \in ConnActors :
          connActors'[a].read = connActors[a].read /\ connActors'[a].write = connActors[a].write
    BY <2>1, <2>2 DEF CountInv, ConnInv
  <2>4. \A a \in ConnActors \ {c, t} : connActors'[a] = connActors[a]
    BY <2>1, <2>2 DEF CountInv, ConnInv
  <2> QED
    BY <1>1, <2>1, <2>3, <2>4, MovesCount
<1>3. CASE \E a \in ConnActors, phase \in ConnPhases :
             ActorGoto(a, phase) /\ connActors[a].at \notin {"swapWrite", "report"}
  <2>1. PICK a \in ConnActors, phase \in ConnPhases :
             ActorGoto(a, phase) /\ connActors[a].at \notin {"swapWrite", "report"}
    BY <1>3
  <2>2. \A b \in ConnActors :
          connActors'[b].read = connActors[b].read /\ connActors'[b].write = connActors[b].write
    BY <2>1 DEF CountInv, ConnInv, ActorGoto
  <2>3. \A b \in ConnActors \ {a} : connActors'[b] = connActors[b]
    BY <2>1 DEF CountInv, ConnInv, ActorGoto
  <2> QED
    BY <1>1, <2>1, <2>2, <2>3, MovesCount
<1>4. ASSUME NEW c \in CopyLoops, CheckClosed(c) \/ ArmDeferredFlush(c) PROVE CountInv'
  <2>1. c \in ConnActors
    BY DEF ConnActors
  <2>2. CASE CheckClosed(c)
    <3>1. connActors[c].at = "added" /\ \E phase \in ConnPhases : ActorGoto(c, phase)
      BY <2>2 DEF CheckClosed, ActorAt, ConnPhases
    <3> QED BY <1>3, <2>1, <3>1
  <2>3. CASE ArmDeferredFlush(c)
    <3>1. connActors[c].at = "arm" /\ "idle" \in ConnPhases
      BY <2>3 DEF ArmDeferredFlush, ActorAt, ConnPhases
    <3>2. CASE ActorGoto(c, "idle")
      BY <1>3, <2>1, <3>1, <3>2
    <3>3. CASE ~ActorGoto(c, "idle")
      BY <1>2, <2>3, <3>1, <3>3 DEF ArmDeferredFlush, ActorAt
    <3> QED BY <3>2, <3>3
  <2> QED BY <1>4, <2>2, <2>3
<1>5. ASSUME NEW t \in DeferredFlushes, FireDeferredFlush(t) \/ FiredCheckClosed(t) PROVE CountInv'
  <2>1. t \in ConnActors
    BY DEF ConnActors
  <2>2. connActors[t].at \in {"armed", "fired"} /\ \E phase \in ConnPhases : ActorGoto(t, phase)
    BY <1>5 DEF FireDeferredFlush, FiredCheckClosed, ActorAt, ConnPhases
  <2> QED BY <1>3, <2>1, <2>2
<1>6. ASSUME NEW c \in Closers, CloseConn(c) PROVE CountInv'
  <2>1. c \in ConnActors
    BY DEF ConnActors
  <2>2. connActors[c].at = "idle" /\ ActorGoto(c, "swapRead") /\ "swapRead" \in ConnPhases
    BY <1>6 DEF CloseConn, ActorAt, ConnPhases
  <2> QED BY <1>3, <2>1, <2>2
<1> QED
  BY <1>4, <1>5, <1>6

\* A swap takes what is pending in one direction.
LEMMA SwapCounts ==
    ASSUME CountInv, ConnInv', NEW a \in ConnActors, NEW d \in Directions,
           UNCHANGED <<transferred, reportedBytes>>,
           pendingBytes' = [pendingBytes EXCEPT ![d] = 0],
           connActors[a][d] = 0, connActors'[a][d] = pendingBytes[d],
           \A e \in Directions \ {d} : connActors'[a][e] = connActors[a][e],
           \A b \in ConnActors \ {a} : connActors'[b] = connActors[b],
           connActors'[a].read # 0 => connActors'[a].at \in {"swapWrite", "report"},
           connActors'[a].write # 0 => connActors'[a].at = "report"
    PROVE  CountInv'
<1>1. \A e \in Directions :
        /\ pendingBytes[e] \in Nat /\ reportedBytes[e] \in Nat /\ transferred[e] \in 0..MaxTransfers
        /\ Cardinality(SwappedOut(e)) \in Nat
        /\ transferred[e] = pendingBytes[e] + reportedBytes[e] + Cardinality(SwappedOut(e))
  BY SwappedIsNat, ConnAssumption DEF CountInv, ConnInv, HandsInv, TrafficCountedOnce
<1>2. pendingBytes[d] <= MaxTransfers
  BY <1>1, ConnAssumption
<1>3. \A e \in Directions : connActors[a][e] <= MaxTransfers
  BY DEF CountInv, ConnInv, HandsInv, Directions
<1>4. \A e \in Directions : connActors'[a][e] <= MaxTransfers
  BY <1>2, <1>3
<1>5. connActors'[a].read <= MaxTransfers /\ connActors'[a].write <= MaxTransfers
  BY <1>4 DEF ConnInv, Directions
<1>6. HandsInv'
  BY <1>5 DEF CountInv, HandsInv
<1>7. \A e \in Directions : \A b \in ConnActors \ {a} : connActors'[b][e] = connActors[b][e]
  OBVIOUS
<1>8. SUFFICES ASSUME NEW e \in Directions
               PROVE  transferred'[e] = pendingBytes'[e] + reportedBytes'[e] + Cardinality(SwappedOut(e)')
  BY <1>6 DEF CountInv, TrafficCountedOnce
<1>9. PICK n, m, x, y : /\ n = Cardinality(SwappedOut(e)) /\ m = Cardinality(SwappedOut(e)')
                        /\ x = connActors[a][e] /\ y = connActors'[a][e]
  OBVIOUS
<1>10. n \in Nat /\ m \in Nat /\ x \in Nat /\ y \in Nat /\ m + x = n + y
  BY <1>6, <1>7, <1>9, SwappedChange DEF CountInv
<1>11. CASE e = d
  <2>1. x = 0 /\ y = pendingBytes[d] /\ pendingBytes'[d] = 0
    BY <1>9, <1>11 DEF CountInv, ConnInv
  <2> QED
    BY <1>1, <1>9, <1>10, <1>11, <2>1
<1>12. CASE e # d
  <2>1. x = y /\ pendingBytes'[e] = pendingBytes[e]
    BY <1>9, <1>12 DEF CountInv, ConnInv
  <2> QED
    BY <1>1, <1>9, <1>10, <2>1
<1> QED
  BY <1>11, <1>12

\* What a flush swaps out and reports leaves the sum as it was.
LEMMA FlushCounts ==
    ASSUME CountInv, ConnInv', NEW a \in ConnActors, SwapRead(a) \/ SwapWrite(a) \/ ReportTraffic(a)
    PROVE  CountInv'
<1>1. /\ connActors[a] \in [at : ConnPhases, read : Nat, write : Nat]
      /\ connActors'[a] \in [at : ConnPhases, read : Nat, write : Nat]
      /\ connActors[a]["read"] = connActors[a].read /\ connActors[a]["write"] = connActors[a].write
      /\ connActors'[a]["read"] = connActors'[a].read /\ connActors'[a]["write"] = connActors'[a].write
  BY DEF CountInv, ConnInv
<1>2. CASE SwapRead(a)
  <2>1. connActors[a].at = "swapRead" /\ connActors[a].read = 0 /\ connActors[a].write = 0
    BY <1>2 DEF SwapRead, ActorAt, CountInv, HandsInv
  <2>2. /\ connActors'[a].at = "swapWrite" /\ connActors'[a].read = pendingBytes["read"]
        /\ connActors'[a].write = connActors[a].write
        /\ \A b \in ConnActors \ {a} : connActors'[b] = connActors[b]
    BY <1>2 DEF SwapRead, CountInv, ConnInv
  <2>3. PICK d \in Directions : d = "read" /\ \A e \in Directions \ {d} : e = "write"
    BY DEF Directions
  <2>4. /\ connActors[a][d] = 0 /\ connActors'[a][d] = pendingBytes[d]
        /\ \A e \in Directions \ {d} : connActors'[a][e] = connActors[a][e]
    BY <1>1, <2>1, <2>2, <2>3
  <2>5. pendingBytes' = [pendingBytes EXCEPT ![d] = 0] /\ UNCHANGED <<transferred, reportedBytes>>
    BY <1>2, <2>3 DEF SwapRead
  <2> QED
    BY <2>1, <2>2, <2>4, <2>5, SwapCounts
<1>3. CASE SwapWrite(a)
  <2>1. connActors[a].at = "swapWrite" /\ connActors[a].write = 0
    BY <1>3 DEF SwapWrite, ActorAt, CountInv, HandsInv
  <2>2. /\ connActors'[a].at = "report" /\ connActors'[a].write = pendingBytes["write"]
        /\ connActors'[a].read = connActors[a].read
        /\ \A b \in ConnActors \ {a} : connActors'[b] = connActors[b]
    BY <1>3 DEF SwapWrite, CountInv, ConnInv
  <2>3. PICK d \in Directions : d = "write" /\ \A e \in Directions \ {d} : e = "read"
    BY DEF Directions
  <2>4. /\ connActors[a][d] = 0 /\ connActors'[a][d] = pendingBytes[d]
        /\ \A e \in Directions \ {d} : connActors'[a][e] = connActors[a][e]
    BY <1>1, <2>1, <2>2, <2>3
  <2>5. pendingBytes' = [pendingBytes EXCEPT ![d] = 0] /\ UNCHANGED <<transferred, reportedBytes>>
    BY <1>3, <2>3 DEF SwapWrite
  <2> QED
    BY <2>1, <2>2, <2>4, <2>5, SwapCounts
<1>4. CASE ReportTraffic(a)
  <2>1. /\ connActors'[a].read = 0 /\ connActors'[a].write = 0
        /\ \A b \in ConnActors \ {a} : connActors'[b] = connActors[b]
        /\ UNCHANGED <<transferred, pendingBytes>>
    BY <1>4 DEF ReportTraffic, CountInv, ConnInv
  <2>2. \A e \in Directions : /\ reportedBytes'[e] = reportedBytes[e] + connActors[a][e]
                              /\ connActors[a][e] \in Nat /\ connActors'[a][e] = 0
    BY <1>1, <1>4, <2>1 DEF ReportTraffic, Directions
  <2>3. reportedBytes' \in [Directions -> Nat]
    <3>1. reportedBytes' = [e \in Directions |-> reportedBytes[e] + connActors[a][e]]
      BY <1>4 DEF ReportTraffic
    <3>2. \A e \in Directions : reportedBytes[e] \in Nat
      BY DEF CountInv, HandsInv
    <3> QED BY <2>2, <3>1, <3>2
  <2>4. HandsInv'
    BY <2>1, <2>3, ConnAssumption DEF CountInv, HandsInv
  <2>5. SUFFICES ASSUME NEW e \in Directions
                 PROVE  transferred'[e] = pendingBytes'[e] + reportedBytes'[e] + Cardinality(SwappedOut(e)')
    BY <2>4 DEF CountInv, TrafficCountedOnce
  <2>6. PICK n, m, x, y : /\ n = Cardinality(SwappedOut(e)) /\ m = Cardinality(SwappedOut(e)')
                          /\ x = connActors[a][e] /\ y = connActors'[a][e]
    OBVIOUS
  <2>7. \A b \in ConnActors \ {a} : connActors'[b][e] = connActors[b][e]
    BY <2>1
  <2>8. n \in Nat /\ m \in Nat /\ x \in Nat /\ y \in Nat /\ m + x = n + y
    BY <2>4, <2>6, <2>7, SwappedChange DEF CountInv
  <2>9. /\ pendingBytes[e] \in Nat /\ reportedBytes[e] \in Nat
        /\ transferred[e] = pendingBytes[e] + reportedBytes[e] + n
    BY <2>6 DEF CountInv, ConnInv, HandsInv, TrafficCountedOnce
  <2> QED
    BY <2>1, <2>2, <2>6, <2>8, <2>9
<1> QED
  BY <1>2, <1>3, <1>4

\* No traffic yet.
LEMMA CountInit == ConnInit => CountInv
<1> SUFFICES ASSUME ConnInit PROVE CountInv
  OBVIOUS
<1>1. ConnInv
  BY DEF ConnInit, ConnInv, ConnPhases
<1>2. HandsInv
  BY ConnAssumption DEF ConnInit, HandsInv
<1>3. ASSUME NEW d \in Directions PROVE SwappedOut(d) = {}
  <2>1. \A a \in ConnActors : connActors[a][d] = 0
    BY DEF ConnInit, Directions
  <2> QED BY <2>1, ConnAssumption DEF SwappedOut
<1>4. TrafficCountedOnce
  BY <1>3, FS_EmptySet DEF ConnInit, TrafficCountedOnce
<1> QED
  BY <1>1, <1>2, <1>4 DEF CountInv

\* For any number of copy loops, timers and closers, every unit moved is counted
\* exactly once, as pending, in the hands of one flush or reported, and on an open
\* connection what is pending has a flush on its way (countingConn.Read and Write,
\* armDeferredFlush, flushPendingTraffic, Close).
THEOREM TrafficCorrect == ConnSpec => []TrafficNotLost
<1>1. CountInv /\ [ConnNext]_connVars => CountInv'
  <2> SUFFICES ASSUME CountInv, [ConnNext]_connVars PROVE CountInv'
    OBVIOUS
  <2>1. ConnInv'
    BY CopyKeeps, TimerKeeps, CloseKeeps, FlushingKeeps DEF CountInv, ConnNext, ConnInv, connVars
  <2>2. CASE UNCHANGED connVars
    BY <2>1, <2>2, MovesCount DEF connVars
  <2> QED
    BY <2>1, <2>2, TransferCounts, PhasesCount, FlushCounts DEF ConnNext
<1>2. CountInv => TrafficCountedOnce
  BY DEF CountInv
<1>3. ConnSpec => []PendingWillFlush
  BY FlushCorrect
<1> QED
  BY <1>1, <1>2, <1>3, CountInit, PTL DEF ConnSpec, TrafficNotLost

-----------------------------------------------------------------------------
(* Metrics buckets *)

\* Counters as they are read and kept.
Readings == [Scopes -> [requests : Nat, success : Nat]]

\* A bucket with a start and, for every platform, a number of requests.
IsBucket(b) ==
    /\ b = [start |-> b.start, counts |-> b.counts]
    /\ b.start \in Nat
    /\ \A p \in MetricPlatforms : b.counts[p].requests \in Nat

BucketsTyped ==
    /\ counters \in Readings /\ baseline \in Readings /\ aggregation.seen \in Readings
    /\ aggregation = [by |-> aggregation.by, unread |-> aggregation.unread,
                      reading |-> aggregation.reading, seen |-> aggregation.seen]
    /\ IsBucket(currentBucket)
    /\ IsFiniteSet(cutBuckets) /\ \A b \in cutBuckets : IsBucket(b)
    /\ pendingTasks \in Seq(ToSet(pendingTasks))
    /\ \A i \in DOMAIN pendingTasks : IsBucket(pendingTasks[i])
    /\ IsFiniteSet(DOMAIN bucketRows)
    /\ \A t \in DOMAIN bucketRows :
         t \in Nat /\ \A p \in MetricPlatforms : bucketRows[t][p].requests \in Nat
    /\ bucketTime \in Nat
    /\ taskWritten \in BOOLEAN
    /\ managerPhase \in {"running", "stopping", "drain", "stopped"}

\* An aggregation is the ticker's while the manager runs, or Stop's; what it
\* has read lies between the last aggregation and now.
ReadingsInOrder ==
    /\ aggregation.by \in {"none", "ticker", "stop"}
    /\ aggregation.by = "ticker" => managerPhase = "running"
    /\ aggregation.by = "stop" => managerPhase = "stopping"
    /\ \A p \in MetricPlatforms :
         /\ baseline[p].requests <= counters[p].requests
         /\ aggregation.by # "none" /\ p \notin aggregation.unread =>
              /\ baseline[p].requests <= aggregation.seen[p].requests
              /\ aggregation.seen[p].requests <= counters[p].requests

\* One task for a time, in one place.
TasksApart ==
    /\ \A b, c \in cutBuckets : b.start = c.start => b = c
    /\ \A i, j \in DOMAIN pendingTasks : pendingTasks[i].start = pendingTasks[j].start => i = j
    /\ \A b \in cutBuckets, i \in DOMAIN pendingTasks : b.start # pendingTasks[i].start

\* Until Stop has cut the last bucket everything cut before is for an earlier
\* time; after it nothing is left in it.
CurrentApart ==
    IF managerPhase \in {"running", "stopping"}
    THEN /\ currentBucket.start <= bucketTime
         /\ \A b \in Tasks : b.start < currentBucket.start
         /\ \A t \in DOMAIN bucketRows : t < currentBucket.start
    ELSE \A p \in MetricPlatforms : currentBucket.counts[p].requests = 0

\* Between its two transactions a task has its rows and is still the first.
FirstWritten ==
    taskWritten =>
        /\ pendingTasks # <<>>
        /\ Head(pendingTasks).start \in DOMAIN bucketRows
        /\ bucketRows[Head(pendingTasks).start] = Head(pendingTasks).counts

\* What PlatformCountsOnce says of the counts.
EachReported == \A p \in MetricPlatforms : Reported(p) = baseline[p].requests

BucketsInv == BucketsTyped /\ ReadingsInOrder /\ TasksApart /\ CurrentApart /\ FirstWritten

\* The requests numbered in finitely many buckets are finitely many.
LEMMA RequestsFinite ==
    ASSUME NEW S, IsFiniteSet(S), NEW p, \A b \in S : b.counts[p].requests \in Nat
    PROVE  IsFiniteSet(RequestsIn(S, p)) /\ Cardinality(RequestsIn(S, p)) \in Nat
<1>1. PICK f : f = [b \in S |-> {b} \X (1..b.counts[p].requests)]
  OBVIOUS
<1>2. PICK T : T = {{b} \X (1..b.counts[p].requests) : b \in S}
  OBVIOUS
<1>3. f \in Surjection(S, T)
  BY <1>1, <1>2 DEF Surjection
<1>4. IsFiniteSet(T)
  BY <1>3, FS_Surjection
<1>5. ASSUME NEW t \in T
      PROVE  IsFiniteSet(t)
  <2>1. PICK b \in S : t = {b} \X (1..b.counts[p].requests)
    BY <1>2
  <2>2. PICK n \in Nat : n = b.counts[p].requests
    OBVIOUS
  <2>3. IsFiniteSet({b})
    BY FS_Singleton
  <2>4. IsFiniteSet(1..n)
    BY FS_Interval
  <2> QED
    BY <2>1, <2>2, <2>3, <2>4, FS_Product
<1>6. IsFiniteSet(UNION T)
  BY <1>4, <1>5, FS_UNION
<1> QED
  BY <1>2, <1>6, FS_CardinalityType DEF RequestsIn

\* One bucket's are as many as it counts.
LEMMA RequestsOfOne ==
    ASSUME NEW b, NEW p, b.counts[p].requests \in Nat
    PROVE  /\ IsFiniteSet(RequestsIn({b}, p))
           /\ Cardinality(RequestsIn({b}, p)) = b.counts[p].requests
<1>1. PICK n \in Nat : n = b.counts[p].requests
  OBVIOUS
<1>2. RequestsIn({b}, p) = {b} \X (1..n)
  BY <1>1 DEF RequestsIn
<1>3. IsFiniteSet({b}) /\ Cardinality({b}) = 1
  BY FS_Singleton
<1>4. IsFiniteSet(1..n) /\ Cardinality(1..n) = n
  BY FS_Interval
<1>5. /\ IsFiniteSet({b} \X (1..n))
      /\ Cardinality({b} \X (1..n)) = Cardinality({b}) * Cardinality(1..n)
  BY <1>3, <1>4, FS_Product
<1>6. 1 * n = n
  OBVIOUS
<1> QED
  BY <1>1, <1>2, <1>3, <1>4, <1>5, <1>6

\* One more bucket adds its requests, unless it is there or has none.
LEMMA RequestsAdd ==
    ASSUME NEW S, IsFiniteSet(S), NEW p, \A c \in S : c.counts[p].requests \in Nat,
           NEW b, b.counts[p].requests \in Nat,
           b \in S => b.counts[p].requests = 0
    PROVE  Cardinality(RequestsIn(S \cup {b}, p))
             = Cardinality(RequestsIn(S, p)) + b.counts[p].requests
<1>1. IsFiniteSet(RequestsIn(S, p)) /\ Cardinality(RequestsIn(S, p)) \in Nat
  BY RequestsFinite
<1>2. /\ IsFiniteSet(RequestsIn({b}, p))
      /\ Cardinality(RequestsIn({b}, p)) = b.counts[p].requests
  BY RequestsOfOne
<1>3. RequestsIn(S \cup {b}, p) = RequestsIn(S, p) \cup RequestsIn({b}, p)
  BY DEF RequestsIn
<1>4. RequestsIn(S, p) \cap RequestsIn({b}, p) = {}
  <2>1. CASE b \in S
    <3>1. b.counts[p].requests = 0
      BY <2>1
    <3>2. RequestsIn({b}, p) = {}
      BY <3>1 DEF RequestsIn
    <3> QED
      BY <3>2
  <2>2. CASE b \notin S
    <3>1. \A x \in RequestsIn(S, p) : x[1] \in S
      BY DEF RequestsIn
    <3>2. \A x \in RequestsIn({b}, p) : x[1] = b
      BY DEF RequestsIn
    <3> QED
      BY <2>2, <3>1, <3>2
  <2> QED
    BY <2>1, <2>2
<1>5. Cardinality(RequestsIn(S, p) \cap RequestsIn({b}, p)) = 0
  BY <1>4, FS_EmptySet
<1>6. Cardinality(RequestsIn(S, p) \cup RequestsIn({b}, p))
        = Cardinality(RequestsIn(S, p)) + Cardinality(RequestsIn({b}, p)) - 0
  BY <1>1, <1>2, <1>5, FS_Union
<1>7. \A k, m \in Nat : k + m - 0 = k + m
  OBVIOUS
<1> QED
  BY <1>1, <1>2, <1>3, <1>6, <1>7

\* A list has finitely many tasks.
LEMMA ToSetFinite ==
    ASSUME NEW s, s \in Seq(ToSet(s))
    PROVE  IsFiniteSet(ToSet(s))
<1>1. PICK n \in Nat : n = Len(s) /\ DOMAIN s = 1..n
  OBVIOUS
<1>2. s \in Surjection(1..n, ToSet(s))
  BY <1>1 DEF Surjection, ToSet
<1>3. IsFiniteSet(1..n)
  BY FS_Interval
<1> QED
  BY <1>2, <1>3, FS_Surjection

\* A task appended to the list: the list's first stays the first.
LEMMA AppendBack ==
    ASSUME NEW s, s \in Seq(ToSet(s)), NEW e
    PROVE  /\ Append(s, e) \in Seq(ToSet(Append(s, e)))
           /\ ToSet(Append(s, e)) = ToSet(s) \cup {e}
           /\ Append(s, e) # <<>>
           /\ s # <<>> => Head(Append(s, e)) = Head(s)
           /\ DOMAIN Append(s, e) = DOMAIN s \cup {Len(s) + 1}
           /\ Len(s) + 1 \notin DOMAIN s
           /\ \A i \in DOMAIN s : Append(s, e)[i] = s[i]
           /\ Append(s, e)[Len(s) + 1] = e
<1>1. PICK S : S = ToSet(s) \cup {e}
  OBVIOUS
<1>2. s \in Seq(S) /\ e \in S
  BY <1>1
<1>3. PICK t : t = Append(s, e)
  OBVIOUS
<1>4. /\ t \in Seq(S) /\ Len(t) = Len(s) + 1 /\ Len(s) \in Nat
      /\ \A i \in 1..Len(s) : t[i] = s[i]
      /\ t[Len(s) + 1] = e
      /\ DOMAIN t = 1..(Len(s) + 1) /\ DOMAIN s = 1..Len(s)
  BY <1>2, <1>3
<1>5. ToSet(t) = S
  BY <1>1, <1>4 DEF ToSet
<1>6. t # <<>> /\ (s # <<>> => Head(t) = Head(s))
  BY <1>2, <1>4
<1> QED
  BY <1>1, <1>3, <1>4, <1>5, <1>6

\* A list without its first task.
LEMMA TailRest ==
    ASSUME NEW s, s \in Seq(ToSet(s)), s # <<>>
    PROVE  /\ Tail(s) \in Seq(ToSet(Tail(s)))
           /\ ToSet(s) = ToSet(Tail(s)) \cup {Head(s)}
           /\ 1 \in DOMAIN s /\ Head(s) = s[1]
           /\ \A i \in DOMAIN Tail(s) : i # 0 /\ i \in Nat /\ i + 1 \in DOMAIN s /\ Tail(s)[i] = s[i + 1]
<1>1. PICK t : t = Tail(s)
  OBVIOUS
<1>2. /\ t \in Seq(ToSet(s)) /\ Len(s) \in Nat /\ Len(s) > 0 /\ Len(t) = Len(s) - 1
      /\ DOMAIN s = 1..Len(s) /\ DOMAIN t = 1..(Len(s) - 1)
      /\ Head(s) = s[1]
      /\ \A i \in 1..(Len(s) - 1) : t[i] = s[i + 1]
  BY <1>1
<1>3. t \in Seq(ToSet(t))
  <2>1. \A i \in 1..Len(t) : t[i] \in ToSet(t)
    BY <1>2 DEF ToSet
  <2> QED
    BY <1>2, <2>1
<1>4. ASSUME NEW i \in DOMAIN s, i # 1
      PROVE  s[i] \in ToSet(t)
  <2>1. i - 1 \in DOMAIN t /\ t[i - 1] = s[i]
    BY <1>2, <1>4
  <2> QED
    BY <2>1 DEF ToSet
<1>5. \A i \in DOMAIN t : t[i] \in ToSet(s)
  BY <1>2 DEF ToSet
<1>6. ToSet(s) = ToSet(t) \cup {Head(s)}
  <2>1. \A x \in ToSet(t) : x \in ToSet(s)
    BY <1>5 DEF ToSet
  <2>2. Head(s) \in ToSet(s)
    BY <1>2 DEF ToSet
  <2>3. ASSUME NEW x \in ToSet(s)
        PROVE  x \in ToSet(t) \cup {Head(s)}
    <3>1. PICK i \in DOMAIN s : x = s[i]
      BY DEF ToSet
    <3> QED
      BY <1>2, <1>4, <3>1
  <2> QED
    BY <2>1, <2>2, <2>3
<1> QED
  BY <1>1, <1>2, <1>3, <1>6

\* Rows stand for finitely many buckets, each well typed.
LEMMA StoredFinite ==
    ASSUME BucketsTyped
    PROVE  IsFiniteSet(Stored) /\ \A b \in Stored : IsBucket(b)
<1>1. PICK D : D = DOMAIN bucketRows \ Starts(Tasks)
  OBVIOUS
<1>2. PICK f : f = [t \in D |-> [start |-> t, counts |-> bucketRows[t]]]
  OBVIOUS
<1>3. f \in Surjection(D, Stored)
  BY <1>1, <1>2 DEF Surjection, Stored
<1>4. IsFiniteSet(D)
  BY <1>1, FS_Difference DEF BucketsTyped
<1>5. IsFiniteSet(Stored)
  BY <1>3, <1>4, FS_Surjection
<1>6. \A b \in Stored : IsBucket(b)
  BY DEF Stored, BucketsTyped, IsBucket
<1> QED
  BY <1>5, <1>6

\* So do the tasks.
LEMMA TasksFinite ==
    ASSUME BucketsTyped
    PROVE  IsFiniteSet(Tasks) /\ \A b \in Tasks : IsBucket(b)
<1>1. IsFiniteSet(ToSet(pendingTasks)) /\ IsFiniteSet(cutBuckets)
  BY ToSetFinite DEF BucketsTyped
<1>2. IsFiniteSet(Tasks)
  BY <1>1, FS_Union DEF Tasks
<1>3. \A b \in Tasks : IsBucket(b)
  BY DEF Tasks, ToSet, BucketsTyped
<1> QED
  BY <1>2, <1>3

\* Where a step leaves the buckets and what they are measured against alone,
\* the report is the same.
LEMMA ReportStays ==
    ASSUME EachReported,
           UNCHANGED <<baseline, currentBucket, cutBuckets, pendingTasks, bucketRows>>
    PROVE  EachReported'
BY DEF EachReported, Reported, Unwritten, Stored, Starts, Tasks

\* An addition of RecordRequest moves a counter up and touches no bucket.
LEMMA RecordingKeeps ==
    ASSUME BucketsInv, EachReported, NEW scope, NEW field \in {"requests", "success"},
           Add(scope, field), OnlyRecording
    PROVE  BucketsInv' /\ EachReported'
<1> USE DEF OnlyRecording, tasks
<1>1. counters \in Readings
  BY DEF BucketsInv, BucketsTyped
<1>2. counters' = [counters EXCEPT ![scope][field] = @ + 1]
  BY DEF Add
<1>3. /\ counters' \in Readings
      /\ \A s \in Scopes : counters[s].requests <= counters'[s].requests
  <2>1. CASE scope \notin Scopes
    <3>1. counters' = counters
      BY <1>1, <1>2, <2>1 DEF Readings
    <3> QED
      BY <1>1, <3>1 DEF Readings
  <2>2. CASE scope \in Scopes /\ field = "requests"
    BY <1>1, <1>2, <2>2 DEF Readings
  <2>3. CASE scope \in Scopes /\ field = "success"
    BY <1>1, <1>2, <2>3 DEF Readings
  <2> QED
    BY <2>1, <2>2, <2>3
<1>4. BucketsTyped'
  BY <1>3 DEF BucketsInv, BucketsTyped
<1>5. ReadingsInOrder'
  <2>1. \A p \in MetricPlatforms :
          /\ p \in Scopes /\ counters[p].requests \in Nat /\ counters'[p].requests \in Nat
          /\ baseline[p].requests \in Nat /\ aggregation.seen[p].requests \in Nat
    BY <1>1, <1>3 DEF Scopes, Readings, BucketsInv, BucketsTyped
  <2> QED
    BY <1>3, <2>1 DEF BucketsInv, ReadingsInOrder
<1>6. TasksApart' /\ CurrentApart' /\ FirstWritten'
  BY DEF BucketsInv, TasksApart, CurrentApart, FirstWritten, Tasks
<1> QED
  BY <1>4, <1>5, <1>6, ReportStays DEF BucketsInv

\* A read by the aggregation touches no bucket either.
LEMMA ReadingKeeps ==
    ASSUME BucketsInv, EachReported, OnlyAggregation, UNCHANGED <<baseline, currentBucket>>,
           aggregation' = [by |-> aggregation.by', unread |-> aggregation.unread',
                           reading |-> aggregation.reading', seen |-> aggregation.seen'],
           aggregation.seen' \in Readings, ReadingsInOrder'
    PROVE  BucketsInv' /\ EachReported'
<1> USE DEF OnlyAggregation, tasks
<1>1. BucketsTyped'
  BY DEF BucketsInv, BucketsTyped
<1>2. TasksApart' /\ CurrentApart' /\ FirstWritten'
  BY DEF BucketsInv, TasksApart, CurrentApart, FirstWritten, Tasks
<1> QED
  BY <1>1, <1>2, ReportStays DEF BucketsInv

\* No requests is a reading of the counters.
LEMMA ZeroReadings == Zero \in Readings
BY DEF Zero, Readings

\* An aggregation begins with every scope unread.
LEMMA BeginKeeps ==
    ASSUME BucketsInv, EachReported, NEW by \in {"ticker", "stop"}, BeginAggregation(by)
    PROVE  BucketsInv' /\ EachReported'
<1>1. /\ aggregation' = [by |-> by, unread |-> Scopes, reading |-> {}, seen |-> Zero]
      /\ UNCHANGED <<baseline, currentBucket>> /\ OnlyAggregation
  BY DEF BeginAggregation
<1>2. \A p \in MetricPlatforms : p \in Scopes
  BY DEF Scopes
<1>3. ReadingsInOrder'
  BY <1>1, <1>2 DEF BeginAggregation, OnlyAggregation, BucketsInv, ReadingsInOrder
<1> QED
  BY <1>1, <1>3, ZeroReadings, ReadingKeeps

\* A scope just read is between the baseline and its counter.
LEMMA ReadKeeps ==
    ASSUME BucketsInv, EachReported, NEW scope \in Scopes,
           ReadRequests(scope) \/ ReadSuccess(scope)
    PROVE  BucketsInv' /\ EachReported'
<1>1. PICK a : a = aggregation
  OBVIOUS
<1>2. /\ a = [by |-> a.by, unread |-> a.unread, reading |-> a.reading, seen |-> a.seen]
      /\ a.seen \in Readings /\ counters \in Readings /\ baseline \in Readings
      /\ ReadingsInOrder
  BY <1>1 DEF BucketsInv, BucketsTyped
<1>3. \A p \in MetricPlatforms : p \in Scopes
  BY DEF Scopes
<1>4. CASE ReadRequests(scope)
  <2>1. /\ aggregation' = [a EXCEPT !.unread = @ \ {scope}, !.reading = {scope},
                             !.seen[scope].requests = counters[scope].requests]
        /\ UNCHANGED <<baseline, currentBucket>> /\ OnlyAggregation
    BY <1>1, <1>4 DEF ReadRequests
  <2>2. PICK seen : seen = [a.seen EXCEPT ![scope].requests = counters[scope].requests]
    OBVIOUS
  <2>3. aggregation' = [by |-> a.by, unread |-> a.unread \ {scope}, reading |-> {scope},
                        seen |-> seen]
    BY <1>2, <2>1, <2>2
  <2>4. /\ seen \in Readings
        /\ seen[scope].requests = counters[scope].requests
        /\ \A s \in Scopes : s # scope => seen[s] = a.seen[s]
    BY <1>2, <2>2 DEF Readings
  <2>5. ReadingsInOrder'
    <3>1. /\ aggregation.by' \in {"none", "ticker", "stop"}
          /\ aggregation.by' = "ticker" => managerPhase' = "running"
          /\ aggregation.by' = "stop" => managerPhase' = "stopping"
      BY <1>1, <1>2, <2>1, <2>3 DEF OnlyAggregation, ReadingsInOrder
    <3>2. ASSUME NEW p \in MetricPlatforms
          PROVE  /\ baseline'[p].requests <= counters'[p].requests
                 /\ aggregation.by' # "none" /\ p \notin aggregation.unread' =>
                      /\ baseline'[p].requests <= aggregation.seen'[p].requests
                      /\ aggregation.seen'[p].requests <= counters'[p].requests
      <4>1. baseline[p].requests <= counters[p].requests /\ counters[p].requests \in Nat
        BY <1>2, <1>3 DEF ReadingsInOrder, Readings
      <4>2. CASE p = scope
        <5>1. baseline' = baseline /\ counters' = counters
          BY <2>1 DEF OnlyAggregation
        <5>2. aggregation'.seen = seen
          BY <2>3
        <5>3. seen[p].requests = counters[p].requests
          BY <2>4, <4>2
        <5> QED
          BY <4>1, <5>1, <5>2, <5>3
      <4>3. CASE p # scope
        BY <4>1, <4>3, <1>1, <1>2, <1>3, <2>1, <2>3, <2>4 DEF OnlyAggregation, ReadingsInOrder
      <4> QED
        BY <4>2, <4>3
    <3> QED
      BY <3>1, <3>2 DEF ReadingsInOrder
  <2>6. /\ aggregation' = [by |-> aggregation.by', unread |-> aggregation.unread',
                           reading |-> aggregation.reading', seen |-> aggregation.seen']
        /\ aggregation.seen' \in Readings
    BY <2>3, <2>4
  <2> QED
    BY <2>1, <2>5, <2>6, ReadingKeeps
<1>5. CASE ReadSuccess(scope)
  <2>1. /\ aggregation' = [a EXCEPT !.reading = {},
                             !.seen[scope].success = counters[scope].success]
        /\ UNCHANGED <<baseline, currentBucket>> /\ OnlyAggregation
    BY <1>1, <1>5 DEF ReadSuccess
  <2>2. PICK seen : seen = [a.seen EXCEPT ![scope].success = counters[scope].success]
    OBVIOUS
  <2>3. aggregation' = [by |-> a.by, unread |-> a.unread, reading |-> {}, seen |-> seen]
    BY <1>2, <2>1, <2>2
  <2>4. /\ seen \in Readings
        /\ \A s \in Scopes : seen[s].requests = a.seen[s].requests
    BY <1>2, <2>2 DEF Readings
  <2>5. ReadingsInOrder'
    BY <1>1, <1>2, <1>3, <2>1, <2>3, <2>4 DEF OnlyAggregation, ReadingsInOrder
  <2>6. /\ aggregation' = [by |-> aggregation.by', unread |-> aggregation.unread',
                           reading |-> aggregation.reading', seen |-> aggregation.seen']
        /\ aggregation.seen' \in Readings
    BY <2>3, <2>4
  <2> QED
    BY <2>1, <2>5, <2>6, ReadingKeeps
<1> QED
  BY <1>4, <1>5

\* Time passes a bucket's end.
LEMMA BoundaryKeeps ==
    ASSUME BucketsInv, EachReported, BucketBoundary
    PROVE  BucketsInv' /\ EachReported'
<1> USE DEF BucketBoundary, tasks
<1>1. BucketsTyped'
  BY DEF BucketsInv, BucketsTyped
<1>2. ReadingsInOrder' /\ TasksApart' /\ FirstWritten'
  BY DEF BucketsInv, ReadingsInOrder, TasksApart, FirstWritten
<1>3. bucketTime \in Nat /\ bucketTime' = bucketTime + 1 /\ currentBucket.start \in Nat
  BY DEF BucketsInv, BucketsTyped, IsBucket
<1>4. CurrentApart'
  BY <1>3 DEF BucketsInv, CurrentApart, Tasks
<1> QED
  BY <1>1, <1>2, <1>4, ReportStays DEF BucketsInv

\* The manager begins to stop, and ends.
LEMMA PhaseKeeps ==
    ASSUME BucketsInv, EachReported, StopManager \/ DrainEnds
    PROVE  BucketsInv' /\ EachReported'
<1> USE DEF StopManager, DrainEnds, OnlyTasks, tasks
<1>1. BucketsTyped'
  BY DEF BucketsInv, BucketsTyped
<1>2. ReadingsInOrder'
  BY DEF BucketsInv, ReadingsInOrder
<1>3. TasksApart' /\ FirstWritten'
  BY DEF BucketsInv, TasksApart, FirstWritten
<1>4. CurrentApart'
  BY DEF BucketsInv, CurrentApart, Tasks
<1> QED
  BY <1>1, <1>2, <1>3, <1>4, ReportStays DEF BucketsInv

\* The current bucket's requests add to those of the tasks.
LEMMA ReportSum ==
    ASSUME NEW c, IsBucket(c), NEW T, IsFiniteSet(T), \A b \in T : IsBucket(b),
           NEW p \in MetricPlatforms, c \in T => c.counts[p].requests = 0
    PROVE  /\ Cardinality(RequestsIn({c} \cup T, p))
                = Cardinality(RequestsIn(T, p)) + c.counts[p].requests
           /\ Cardinality(RequestsIn(T, p)) \in Nat
<1>1. c.counts[p].requests \in Nat /\ \A b \in T : b.counts[p].requests \in Nat
  BY DEF IsBucket
<1>2. {c} \cup T = T \cup {c}
  OBVIOUS
<1>3. Cardinality(RequestsIn(T \cup {c}, p))
        = Cardinality(RequestsIn(T, p)) + c.counts[p].requests
  BY <1>1, RequestsAdd
<1>4. Cardinality(RequestsIn(T, p)) \in Nat
  BY <1>1, RequestsFinite
<1> QED
  BY <1>2, <1>3, <1>4

\* What is reported of a platform: the current bucket, the tasks, the rows.
LEMMA ReportedParts ==
    ASSUME BucketsInv, NEW p \in MetricPlatforms
    PROVE  /\ Reported(p) = Cardinality(RequestsIn(Tasks, p)) + currentBucket.counts[p].requests
                              + Cardinality(RequestsIn(Stored, p))
           /\ Cardinality(RequestsIn(Tasks, p)) \in Nat
           /\ Cardinality(RequestsIn(Stored, p)) \in Nat
           /\ currentBucket.counts[p].requests \in Nat
<1>1. /\ IsBucket(currentBucket)
      /\ IsFiniteSet(Tasks) /\ \A b \in Tasks : IsBucket(b)
      /\ IsFiniteSet(Stored) /\ \A b \in Stored : IsBucket(b)
  BY TasksFinite, StoredFinite DEF BucketsInv, BucketsTyped
<1>2. currentBucket \in Tasks => currentBucket.counts[p].requests = 0
  <2>1. currentBucket.start \in Nat
    BY <1>1 DEF IsBucket
  <2> QED
    BY <2>1 DEF BucketsInv, CurrentApart
<1>3. /\ Cardinality(RequestsIn({currentBucket} \cup Tasks, p))
           = Cardinality(RequestsIn(Tasks, p)) + currentBucket.counts[p].requests
      /\ Cardinality(RequestsIn(Tasks, p)) \in Nat
  BY <1>1, <1>2, ReportSum
<1>4. \A b \in Stored : b.counts[p].requests \in Nat
  BY <1>1 DEF IsBucket
<1>5. Cardinality(RequestsIn(Stored, p)) \in Nat
  BY <1>1, <1>4, RequestsFinite
<1>6. currentBucket.counts[p].requests \in Nat
  BY <1>1 DEF IsBucket
<1> QED
  BY <1>3, <1>5, <1>6 DEF Reported, Unwritten

\* A cut bucket joins the list; as a task it was counted before.
LEMMA EnqueueKeeps ==
    ASSUME BucketsInv, EachReported, NEW b \in cutBuckets, EnqueuePersistTask(b)
    PROVE  BucketsInv' /\ EachReported'
<1> USE DEF OnlyTasks
<1>1. PICK s : s = pendingTasks
  OBVIOUS
<1>2. /\ cutBuckets' = cutBuckets \ {b} /\ pendingTasks' = Append(s, b)
      /\ OnlyTasks /\ UNCHANGED <<taskWritten, bucketRows, managerPhase>>
  BY <1>1 DEF EnqueuePersistTask
<1>3. s \in Seq(ToSet(s)) /\ IsBucket(b) /\ \A i \in DOMAIN s : IsBucket(s[i])
  BY <1>1 DEF BucketsInv, BucketsTyped
<1>4. PICK t : t = Append(s, b)
  OBVIOUS
<1>5. /\ t \in Seq(ToSet(t))
      /\ ToSet(t) = ToSet(s) \cup {b}
      /\ t # <<>> /\ (s # <<>> => Head(t) = Head(s))
      /\ DOMAIN t = DOMAIN s \cup {Len(s) + 1}
      /\ Len(s) + 1 \notin DOMAIN s
      /\ \A i \in DOMAIN s : t[i] = s[i]
      /\ t[Len(s) + 1] = b
  BY <1>3, <1>4, AppendBack
<1>6. Tasks' = Tasks
  BY <1>1, <1>2, <1>4, <1>5 DEF Tasks
<1>7. BucketsTyped'
  <2>1. IsFiniteSet(cutBuckets')
    BY <1>2, FS_Difference DEF BucketsInv, BucketsTyped
  <2>2. \A i \in DOMAIN t : IsBucket(t[i])
    BY <1>3, <1>5
  <2> QED
    BY <1>2, <1>4, <1>5, <2>1, <2>2 DEF BucketsInv, BucketsTyped
<1>8. ReadingsInOrder'
  BY <1>2 DEF BucketsInv, ReadingsInOrder
<1>9. TasksApart'
  <2>1. TasksApart
    BY DEF BucketsInv
  <2>2. \A i, j \in DOMAIN t : t[i].start = t[j].start => i = j
    BY <1>1, <1>5, <2>1 DEF TasksApart
  <2>3. \A c \in cutBuckets', i \in DOMAIN t : c.start # t[i].start
    BY <1>1, <1>2, <1>5, <2>1 DEF TasksApart
  <2>4. \A c, d \in cutBuckets' : c.start = d.start => c = d
    BY <1>2, <2>1 DEF TasksApart
  <2> QED
    BY <1>2, <1>4, <2>2, <2>3, <2>4 DEF TasksApart
<1>10. CurrentApart'
  BY <1>2, <1>6 DEF BucketsInv, CurrentApart
<1>11. FirstWritten'
  BY <1>1, <1>2, <1>4, <1>5 DEF BucketsInv, FirstWritten
<1>12. EachReported'
  BY <1>2, <1>6 DEF EachReported, Reported, Unwritten, Stored, Starts
<1> QED
  BY <1>7, <1>8, <1>9, <1>10, <1>11, <1>12 DEF BucketsInv

\* Rows are written for a task that is still in the list, so nothing is counted twice.
LEMMA WriteKeeps ==
    ASSUME BucketsInv, EachReported, WriteBucket
    PROVE  BucketsInv' /\ EachReported'
<1> USE DEF OnlyTasks
<1>1. PICK h : h = Head(pendingTasks)
  OBVIOUS
<1>2. PICK rows : rows = MapPut(bucketRows, h.start, h.counts)
  OBVIOUS
<1>3. /\ pendingTasks # <<>> /\ bucketRows' = rows /\ taskWritten' = TRUE
      /\ OnlyTasks /\ UNCHANGED <<pendingTasks, cutBuckets, managerPhase>>
  BY <1>1, <1>2 DEF WriteBucket
<1>4. h \in Tasks /\ IsBucket(h)
  <2>1. 1 \in DOMAIN pendingTasks /\ h = pendingTasks[1]
    BY <1>1, <1>3, TailRest DEF BucketsInv, BucketsTyped
  <2> QED
    BY <2>1 DEF Tasks, ToSet, BucketsInv, BucketsTyped
<1>5. /\ DOMAIN rows = DOMAIN bucketRows \cup {h.start}
      /\ rows[h.start] = h.counts
      /\ \A t \in DOMAIN bucketRows : t # h.start => rows[t] = bucketRows[t]
  BY <1>2 DEF MapPut
<1>6. Tasks' = Tasks
  BY <1>3 DEF Tasks
<1>7. Stored' = Stored
  <2>1. h.start \in Starts(Tasks)
    BY <1>4 DEF Starts
  <2>2. PICK D : D = DOMAIN bucketRows \ Starts(Tasks)
    OBVIOUS
  <2>3. DOMAIN rows \ Starts(Tasks) = D /\ \A t \in D : rows[t] = bucketRows[t]
    BY <1>5, <2>1, <2>2
  <2>4. Stored' = {[start |-> t, counts |-> rows[t]] : t \in D}
    BY <1>3, <1>6, <2>3 DEF Stored, Starts
  <2> QED
    BY <2>2, <2>3, <2>4 DEF Stored
<1>8. BucketsTyped'
  <2>1. IsFiniteSet(DOMAIN rows)
    <3>1. IsFiniteSet(DOMAIN bucketRows)
      BY DEF BucketsInv, BucketsTyped
    <3>2. IsFiniteSet(DOMAIN bucketRows \cup {h.start})
      BY <3>1, FS_AddElement
    <3> QED
      BY <1>5, <3>2
  <2>2. \A t \in DOMAIN rows :
          t \in Nat /\ \A p \in MetricPlatforms : rows[t][p].requests \in Nat
    BY <1>4, <1>5 DEF IsBucket, BucketsInv, BucketsTyped
  <2> QED
    BY <1>3, <2>1, <2>2 DEF BucketsInv, BucketsTyped
<1>9. ReadingsInOrder'
  BY <1>3 DEF BucketsInv, ReadingsInOrder
<1>10. TasksApart'
  BY <1>3 DEF BucketsInv, TasksApart
<1>11. CurrentApart'
  BY <1>3, <1>4, <1>5, <1>6 DEF BucketsInv, CurrentApart
<1>12. FirstWritten'
  BY <1>1, <1>3, <1>5 DEF FirstWritten
<1>13. EachReported'
  BY <1>3, <1>6, <1>7 DEF EachReported, Reported, Unwritten
<1> QED
  BY <1>8, <1>9, <1>10, <1>11, <1>12, <1>13 DEF BucketsInv

\* A task is retried, or leaves the list for its rows, which hold its counts.
LEMMA RestKeeps ==
    ASSUME BucketsInv, EachReported, WriteRest
    PROVE  BucketsInv' /\ EachReported'
<1> USE DEF OnlyTasks
<1>1. /\ taskWritten /\ taskWritten' = FALSE
      /\ OnlyTasks /\ UNCHANGED <<bucketRows, cutBuckets, managerPhase>>
      /\ pendingTasks' \in {pendingTasks, Tail(pendingTasks)}
  BY DEF WriteRest
<1>2. ReadingsInOrder'
  BY <1>1 DEF BucketsInv, ReadingsInOrder
<1>3. FirstWritten'
  BY <1>1 DEF FirstWritten
<1>4. CASE pendingTasks' = pendingTasks
  <2>1. BucketsTyped'
    BY <1>1, <1>4 DEF BucketsInv, BucketsTyped
  <2>2. TasksApart' /\ CurrentApart'
    BY <1>1, <1>4 DEF BucketsInv, TasksApart, CurrentApart, Tasks
  <2> QED
    BY <1>1, <1>2, <1>3, <1>4, <2>1, <2>2, ReportStays DEF BucketsInv
<1>5. CASE pendingTasks' = Tail(pendingTasks)
  <2>1. PICK s : s = pendingTasks
    OBVIOUS
  <2>2. PICK t : t = Tail(s)
    OBVIOUS
  <2>3. PICK h : h = Head(s)
    OBVIOUS
  <2>4. /\ s \in Seq(ToSet(s)) /\ s # <<>>
        /\ h.start \in DOMAIN bucketRows /\ bucketRows[h.start] = h.counts
    BY <1>1, <2>1, <2>3 DEF BucketsInv, BucketsTyped, FirstWritten
  <2>5. /\ t \in Seq(ToSet(t))
        /\ ToSet(s) = ToSet(t) \cup {h}
        /\ 1 \in DOMAIN s /\ h = s[1]
        /\ \A i \in DOMAIN t : i # 0 /\ i \in Nat /\ i + 1 \in DOMAIN s /\ t[i] = s[i + 1]
    BY <2>2, <2>3, <2>4, TailRest
  <2>6. TasksApart /\ IsBucket(h)
    BY <2>1, <2>5 DEF BucketsInv, BucketsTyped
  <2>7. /\ \A i \in DOMAIN t : t[i].start # h.start
        /\ \A b \in cutBuckets : b.start # h.start
    <3>1. ASSUME NEW i \in DOMAIN t
          PROVE  t[i].start # h.start
      <4>1. i + 1 # 1
        BY <2>5
      <4> QED
        BY <2>1, <2>5, <2>6, <4>1 DEF TasksApart
    <3>2. \A b \in cutBuckets : b.start # h.start
      BY <2>1, <2>5, <2>6 DEF TasksApart
    <3> QED
      BY <3>1, <3>2
  <2>8. PICK T : T = cutBuckets \cup ToSet(t)
    OBVIOUS
  <2>9. Tasks' = T /\ Tasks = T \cup {h} /\ \A b \in T : b.start # h.start
    <3>1. Tasks' = T /\ Tasks = T \cup {h}
      BY <1>1, <1>5, <2>1, <2>2, <2>5, <2>8 DEF Tasks
    <3>2. \A b \in ToSet(t) : b.start # h.start
      BY <2>7 DEF ToSet
    <3> QED
      BY <2>7, <2>8, <3>1, <3>2
  <2>10. Stored' = Stored \cup {h} /\ h \notin Stored
    <3>1. PICK S : S = Starts(T)
      OBVIOUS
    <3>2. Starts(Tasks) = S \cup {h.start} /\ h.start \notin S
      BY <2>9, <3>1 DEF Starts
    <3>3. h = [start |-> h.start, counts |-> bucketRows[h.start]]
      BY <2>4, <2>6 DEF IsBucket
    <3>4. PICK D : D = DOMAIN bucketRows \ Starts(Tasks)
      OBVIOUS
    <3>5. DOMAIN bucketRows \ S = D \cup {h.start} /\ h.start \notin D
      BY <2>4, <3>2, <3>4
    <3>6. Stored' = {[start |-> x, counts |-> bucketRows[x]] : x \in D \cup {h.start}}
      BY <1>1, <2>9, <3>1, <3>5 DEF Stored, Starts
    <3>7. Stored = {[start |-> x, counts |-> bucketRows[x]] : x \in D}
      BY <3>4 DEF Stored
    <3>8. h \notin Stored
      BY <3>5, <3>7
    <3> QED
      BY <3>3, <3>6, <3>7, <3>8
  <2>11. BucketsTyped'
    <3>1. \A i \in DOMAIN t : IsBucket(t[i])
      BY <2>1, <2>5 DEF BucketsInv, BucketsTyped
    <3> QED
      BY <1>1, <1>5, <2>1, <2>2, <2>5, <3>1 DEF BucketsInv, BucketsTyped
  <2>12. TasksApart'
    <3>1. ASSUME NEW i \in DOMAIN t, NEW j \in DOMAIN t, t[i].start = t[j].start
          PROVE  i = j
      <4>1. i + 1 = j + 1
        BY <2>1, <2>5, <2>6, <3>1 DEF TasksApart
      <4> QED
        BY <2>5, <4>1
    <3>2. \A b \in cutBuckets, i \in DOMAIN t : b.start # t[i].start
      BY <2>1, <2>5, <2>6 DEF TasksApart
    <3> QED
      BY <1>1, <1>5, <2>1, <2>2, <2>6, <3>1, <3>2 DEF TasksApart
  <2>13. CurrentApart'
    BY <1>1, <2>9 DEF BucketsInv, CurrentApart
  <2>14. ASSUME NEW p \in MetricPlatforms
         PROVE  (Reported(p) = baseline[p].requests)'
    <3>1. PICK c : c = currentBucket
      OBVIOUS
    <3>2. /\ IsBucket(c) /\ IsFiniteSet(Tasks) /\ \A b \in Tasks : IsBucket(b)
          /\ IsFiniteSet(Stored) /\ \A b \in Stored : IsBucket(b)
      BY <3>1, TasksFinite, StoredFinite DEF BucketsInv, BucketsTyped
    <3>3. IsFiniteSet(T) /\ \A b \in T : IsBucket(b)
      BY <2>9, <3>2, FS_Subset
    <3>4. /\ c.counts[p].requests \in Nat /\ h.counts[p].requests \in Nat
          /\ \A b \in T : b.counts[p].requests \in Nat
          /\ \A b \in Stored : b.counts[p].requests \in Nat
      BY <2>6, <3>2, <3>3 DEF IsBucket
    <3>5. c \in T => c.counts[p].requests = 0
      <4>1. c.start \in Nat
        BY <3>2 DEF IsBucket
      <4> QED
        BY <2>9, <3>1, <4>1 DEF BucketsInv, CurrentApart
    <3>6. /\ Cardinality(RequestsIn({c} \cup T, p))
               = Cardinality(RequestsIn(T, p)) + c.counts[p].requests
          /\ Cardinality(RequestsIn(T, p)) \in Nat
      BY <3>2, <3>3, <3>5, ReportSum
    <3>7. Cardinality(RequestsIn(T \cup {h}, p))
            = Cardinality(RequestsIn(T, p)) + h.counts[p].requests
      BY <2>9, <3>3, <3>4, RequestsAdd
    <3>8. Cardinality(RequestsIn(Stored \cup {h}, p))
            = Cardinality(RequestsIn(Stored, p)) + h.counts[p].requests
      BY <2>10, <3>2, <3>4, RequestsAdd
    <3>9. /\ Reported(p) = Cardinality(RequestsIn(Tasks, p)) + c.counts[p].requests
                              + Cardinality(RequestsIn(Stored, p))
          /\ Cardinality(RequestsIn(Stored, p)) \in Nat
      BY <3>1, ReportedParts
    <3>10. Reported(p)' = Cardinality(RequestsIn({c} \cup T, p))
                           + Cardinality(RequestsIn(Stored \cup {h}, p))
      BY <1>1, <2>9, <2>10, <3>1 DEF Reported, Unwritten
    <3>11. Reported(p)' = Reported(p)
      BY <2>9, <3>4, <3>6, <3>7, <3>8, <3>9, <3>10
    <3>12. Reported(p) = baseline[p].requests /\ baseline' = baseline
      BY <1>1 DEF EachReported
    <3> QED
      BY <3>11, <3>12
  <2> QED
    BY <1>2, <1>3, <2>11, <2>12, <2>13, <2>14 DEF BucketsInv, EachReported
<1> QED
  BY <1>1, <1>4, <1>5

\* A platform's delta is its own; only the global one is put together.
LEMMA DeltasOf ==
    ASSUME NEW seen, NEW p \in MetricPlatforms
    PROVE  Deltas(seen)[p] = Delta(seen, p)
BY DEF Deltas, Scopes

\* The end of an aggregation: the bucket, cut or not, takes what is new.
LEMMA CutKeeps ==
    ASSUME BucketsInv, EachReported, CutBucket
    PROVE  BucketsInv' /\ EachReported'
<1>1. PICK a : a = aggregation
  OBVIOUS
<1>2. PICK c : c = currentBucket
  OBVIOUS
<1>3. PICK counts : counts = Plus(c.counts, Deltas(a.seen))
  OBVIOUS
<1>4. PICK b : b = [start |-> c.start, counts |-> counts]
  OBVIOUS
<1>5. /\ a = [by |-> a.by, unread |-> a.unread, reading |-> a.reading, seen |-> a.seen]
      /\ a.seen \in Readings /\ counters \in Readings /\ baseline \in Readings
      /\ IsBucket(c) /\ bucketTime \in Nat
  BY <1>1, <1>2 DEF BucketsInv, BucketsTyped
<1>6. /\ a.by # "none" /\ a.unread = {} /\ a.reading = {}
      /\ baseline' = a.seen
      /\ aggregation' = [a EXCEPT !.by = "none", !.seen = Zero]
      /\ \/ /\ cutBuckets' = cutBuckets \cup {[c EXCEPT !.counts = counts]}
            /\ \/ a.by = "stop" /\ currentBucket' = [start |-> c.start, counts |-> Zero]
               \/ /\ a.by # "stop" /\ bucketTime > c.start
                  /\ currentBucket' = [start |-> bucketTime, counts |-> Zero]
         \/ /\ currentBucket' = [c EXCEPT !.counts = counts]
            /\ a.by = "stop" => counts = Zero
            /\ UNCHANGED cutBuckets
      /\ managerPhase' = IF a.by = "stop" THEN "drain" ELSE managerPhase
      /\ UNCHANGED <<counters, recording, tasks, bucketTime>>
  BY <1>1, <1>2, <1>3 DEF CutBucket, ResetCounts
<1>7. [c EXCEPT !.counts = counts] = b
  BY <1>4, <1>5 DEF IsBucket
<1>8. /\ a.by \in {"ticker", "stop"}
      /\ a.by = "ticker" => managerPhase = "running"
      /\ a.by = "stop" => managerPhase = "stopping"
      /\ managerPhase \in {"running", "stopping"}
  BY <1>1, <1>6 DEF BucketsInv, ReadingsInOrder
<1>9. /\ c.start <= bucketTime
      /\ \A x \in Tasks : x.start < c.start
      /\ \A t \in DOMAIN bucketRows : t < c.start
  BY <1>2, <1>8 DEF BucketsInv, CurrentApart
<1>10. ASSUME NEW p \in MetricPlatforms
       PROVE  /\ counts[p].requests
                   = c.counts[p].requests + (a.seen[p].requests - baseline[p].requests)
              /\ counts[p].requests \in Nat
              /\ a.seen[p].requests <= counters[p].requests
  <2>1. p \in Scopes
    BY DEF Scopes
  <2>2. PICK m : m = Deltas(a.seen)
    OBVIOUS
  <2>3. m[p] = Delta(a.seen, p)
    BY <2>2, DeltasOf
  <2>4. m[p].requests = NonNegativeDelta(a.seen[p].requests, baseline[p].requests)
    BY <2>3 DEF Delta
  <2>5. /\ a.seen[p].requests \in Nat /\ baseline[p].requests \in Nat
        /\ counters[p].requests \in Nat /\ c.counts[p].requests \in Nat
    BY <1>5, <2>1 DEF Readings, IsBucket
  <2>6. /\ baseline[p].requests <= a.seen[p].requests
        /\ a.seen[p].requests <= counters[p].requests
    BY <1>1, <1>6 DEF BucketsInv, ReadingsInOrder
  <2>7. m[p].requests = a.seen[p].requests - baseline[p].requests
    BY <2>4, <2>5, <2>6 DEF NonNegativeDelta
  <2>8. counts[p].requests = c.counts[p].requests + m[p].requests
    BY <1>3, <2>1, <2>2 DEF Plus
  <2> QED
    BY <2>5, <2>6, <2>7, <2>8
<1>11. IsBucket(b) /\ b.start = c.start /\ b.counts = counts
  BY <1>4, <1>5, <1>10 DEF IsBucket
<1>12. \A n \in Nat : IsBucket([start |-> n, counts |-> Zero])
  BY DEF IsBucket, Zero, Scopes
<1>13. \A p \in MetricPlatforms : Zero[p].requests = 0
  BY DEF Zero, Scopes
<1>14. /\ aggregation' = [by |-> "none", unread |-> {}, reading |-> {}, seen |-> Zero]
       /\ pendingTasks' = pendingTasks /\ taskWritten' = taskWritten
       /\ bucketRows' = bucketRows /\ bucketTime' = bucketTime /\ counters' = counters
  BY <1>5, <1>6 DEF tasks
<1>15. ReadingsInOrder'
  BY <1>6, <1>10, <1>14 DEF ReadingsInOrder
<1>16. FirstWritten'
  BY <1>14 DEF BucketsInv, FirstWritten
<1>17. managerPhase' \in {"running", "stopping", "drain", "stopped"}
  BY <1>6 DEF BucketsInv, BucketsTyped
<1>18. ASSUME NEW p \in MetricPlatforms
       PROVE  /\ Reported(p) = Cardinality(RequestsIn(Tasks, p)) + c.counts[p].requests
                                 + Cardinality(RequestsIn(Stored, p))
              /\ Cardinality(RequestsIn(Tasks, p)) \in Nat
              /\ Cardinality(RequestsIn(Stored, p)) \in Nat
              /\ Reported(p) = baseline[p].requests
              /\ c.counts[p].requests \in Nat
              /\ a.seen[p].requests \in Nat /\ baseline[p].requests \in Nat
  <2>1. p \in Scopes
    BY DEF Scopes
  <2> QED
    BY <1>2, <1>5, <2>1, ReportedParts DEF EachReported, Readings
<1>19. /\ IsFiniteSet(Tasks) /\ \A x \in Tasks : IsBucket(x)
       /\ b \notin Tasks
  <2>1. IsFiniteSet(Tasks) /\ \A x \in Tasks : IsBucket(x)
    BY TasksFinite DEF BucketsInv
  <2>2. c.start \in Nat
    BY <1>5 DEF IsBucket
  <2> QED
    BY <1>9, <1>11, <2>1, <2>2
<1>20. CASE cutBuckets' = cutBuckets /\ currentBucket' = b /\ (a.by = "stop" => counts = Zero)
  <2>1. BucketsTyped'
    BY <1>5, <1>6, <1>11, <1>14, <1>17, <1>20, ZeroReadings DEF BucketsInv, BucketsTyped
  <2>2. TasksApart'
    BY <1>14, <1>20 DEF BucketsInv, TasksApart
  <2>3. Tasks' = Tasks /\ Stored' = Stored
    BY <1>14, <1>20 DEF Tasks, Stored, Starts
  <2>4. CurrentApart'
    <3>1. CASE a.by = "stop"
      <4>1. managerPhase' = "drain" /\ currentBucket'.counts = Zero
        BY <1>6, <1>11, <1>20, <3>1
      <4> QED
        BY <1>13, <4>1 DEF CurrentApart
    <3>2. CASE a.by # "stop"
      <4>1. managerPhase' \in {"running", "stopping"} /\ currentBucket'.start = c.start
        BY <1>6, <1>8, <1>11, <1>20, <3>2
      <4> QED
        BY <1>9, <1>14, <2>3, <4>1 DEF CurrentApart
    <3> QED
      BY <3>1, <3>2
  <2>5. ASSUME NEW p \in MetricPlatforms
        PROVE  (Reported(p) = baseline[p].requests)'
    <3>1. Cardinality(RequestsIn({b} \cup Tasks, p))
            = Cardinality(RequestsIn(Tasks, p)) + counts[p].requests
      BY <1>11, <1>19, ReportSum
    <3>2. Reported(p)' = Cardinality(RequestsIn({b} \cup Tasks, p))
                           + Cardinality(RequestsIn(Stored, p))
      BY <1>20, <2>3 DEF Reported, Unwritten
    <3>3. Reported(p)' = a.seen[p].requests
      BY <1>10, <1>18, <3>1, <3>2
    <3> QED
      BY <1>6, <3>3
  <2> QED
    BY <1>15, <1>16, <2>1, <2>2, <2>4, <2>5 DEF BucketsInv, EachReported
<1>21. CASE /\ cutBuckets' = cutBuckets \cup {b}
            /\ \/ a.by = "stop" /\ currentBucket' = [start |-> c.start, counts |-> Zero]
               \/ /\ a.by # "stop" /\ bucketTime > c.start
                  /\ currentBucket' = [start |-> bucketTime, counts |-> Zero]
  <2>1. PICK d : d = currentBucket'
    OBVIOUS
  <2>2. IsBucket(d) /\ d.counts = Zero /\ c.start \in Nat
    BY <1>5, <1>12, <1>21, <2>1 DEF IsBucket
  <2>3. BucketsTyped'
    <3>1. IsFiniteSet(cutBuckets \cup {b}) /\ \A x \in cutBuckets \cup {b} : IsBucket(x)
      BY <1>11, FS_AddElement DEF BucketsInv, BucketsTyped
    <3> QED
      BY <1>5, <1>6, <1>14, <1>17, <1>21, <2>1, <2>2, <3>1, ZeroReadings
      DEF BucketsInv, BucketsTyped
  <2>4. Tasks' = Tasks \cup {b}
    BY <1>14, <1>21 DEF Tasks
  <2>5. Stored' = Stored
    <3>1. c.start \notin DOMAIN bucketRows
      BY <1>9, <2>2
    <3>2. Starts(Tasks \cup {b}) = Starts(Tasks) \cup {c.start}
      BY <1>11 DEF Starts
    <3>3. DOMAIN bucketRows \ Starts(Tasks \cup {b}) = DOMAIN bucketRows \ Starts(Tasks)
      BY <3>1, <3>2
    <3> QED
      BY <1>14, <2>4, <3>3 DEF Stored, Starts
  <2>6. TasksApart'
    <3>1. TasksApart
      BY DEF BucketsInv
    <3>2. \A x \in cutBuckets : x.start # b.start
      BY <1>9, <1>11, <2>2 DEF Tasks
    <3>3. \A i \in DOMAIN pendingTasks : pendingTasks[i].start # b.start
      BY <1>9, <1>11, <2>2 DEF Tasks, ToSet
    <3> QED
      BY <1>14, <1>21, <3>1, <3>2, <3>3 DEF TasksApart
  <2>7. CurrentApart'
    <3>1. CASE a.by = "stop"
      BY <1>6, <1>13, <2>1, <2>2, <3>1 DEF CurrentApart
    <3>2. CASE a.by # "stop"
      <4>1. d.start = bucketTime /\ bucketTime > c.start /\ bucketTime \in Nat
        BY <1>5, <1>21, <2>1, <3>2
      <4>2. \A x \in Tasks \cup {b} : x.start < d.start
        <5>1. ASSUME NEW x \in Tasks
              PROVE  x.start < d.start
          <6>1. x.start \in Nat /\ x.start < c.start
            BY <1>9, <1>19 DEF IsBucket
          <6> QED
            BY <2>2, <4>1, <6>1
        <5> QED
          BY <1>11, <4>1, <5>1
      <4>3. \A t \in DOMAIN bucketRows : t < d.start
        <5>1. \A t \in DOMAIN bucketRows : t \in Nat
          BY DEF BucketsInv, BucketsTyped
        <5> QED
          BY <1>9, <2>2, <4>1, <5>1
      <4>4. managerPhase' \in {"running", "stopping"} /\ d.start <= bucketTime'
        BY <1>6, <1>8, <1>14, <3>2, <4>1
      <4> QED
        BY <1>14, <2>1, <2>4, <4>2, <4>3, <4>4 DEF CurrentApart
    <3> QED
      BY <3>1, <3>2
  <2>8. ASSUME NEW p \in MetricPlatforms
        PROVE  (Reported(p) = baseline[p].requests)'
    <3>1. PICK T : T = Tasks \cup {b}
      OBVIOUS
    <3>2. IsFiniteSet(T) /\ \A x \in T : IsBucket(x)
      BY <1>11, <1>19, <3>1, FS_AddElement
    <3>3. d.counts[p].requests = 0
      BY <1>13, <2>2
    <3>4. /\ Cardinality(RequestsIn({d} \cup T, p))
               = Cardinality(RequestsIn(T, p)) + d.counts[p].requests
          /\ Cardinality(RequestsIn(T, p)) \in Nat
      BY <2>2, <3>2, <3>3, ReportSum
    <3>5. Cardinality(RequestsIn({b} \cup Tasks, p))
            = Cardinality(RequestsIn(Tasks, p)) + b.counts[p].requests
      BY <1>11, <1>19, ReportSum
    <3>6. T = {b} \cup Tasks
      BY <3>1
    <3>7. Reported(p)' = Cardinality(RequestsIn({d} \cup T, p))
                           + Cardinality(RequestsIn(Stored, p))
      BY <2>1, <2>4, <2>5, <3>1 DEF Reported, Unwritten
    <3>8. Reported(p)' = a.seen[p].requests
      BY <1>10, <1>11, <1>18, <3>3, <3>4, <3>5, <3>6, <3>7
    <3> QED
      BY <1>6, <3>8
  <2> QED
    BY <1>15, <1>16, <2>3, <2>6, <2>7, <2>8 DEF BucketsInv, EachReported
<1> QED
  BY <1>6, <1>7, <1>20, <1>21

\* Nothing is counted at the start.
LEMMA BucketsInvInit == MetricsInit => BucketsInv /\ EachReported
<1> SUFFICES ASSUME MetricsInit PROVE BucketsInv /\ EachReported
  OBVIOUS
<1>1. /\ counters = Zero /\ baseline = Zero /\ cutBuckets = {} /\ pendingTasks = <<>>
      /\ aggregation = [by |-> "none", unread |-> {}, reading |-> {}, seen |-> Zero]
      /\ currentBucket = [start |-> 0, counts |-> Zero]
      /\ taskWritten = FALSE /\ bucketRows = EmptyMap /\ bucketTime = 0
      /\ managerPhase = "running"
  BY DEF MetricsInit
<1>2. DOMAIN bucketRows = {}
  BY <1>1 DEF EmptyMap
<1>3. ToSet(pendingTasks) = {} /\ DOMAIN pendingTasks = {}
  BY <1>1 DEF ToSet
<1>4. Tasks = {} /\ Stored = {}
  BY <1>1, <1>2, <1>3 DEF Tasks, Stored
<1>5. \A p \in MetricPlatforms : p \in Scopes /\ Zero[p].requests = 0
  BY DEF Zero, Scopes
<1>6. BucketsTyped
  <2>1. IsFiniteSet(cutBuckets) /\ IsFiniteSet(DOMAIN bucketRows)
    BY <1>1, <1>2, FS_EmptySet
  <2>2. IsBucket(currentBucket)
    BY <1>1, <1>5 DEF IsBucket
  <2> QED
    <3>1. pendingTasks \in Seq(ToSet(pendingTasks))
      BY <1>1
    <3>2. counters \in Readings /\ baseline \in Readings /\ aggregation.seen \in Readings
      BY <1>1, ZeroReadings
    <3> QED
      BY <1>1, <1>2, <1>3, <2>1, <2>2, <3>1, <3>2 DEF BucketsTyped
<1>7. ReadingsInOrder /\ TasksApart /\ CurrentApart /\ FirstWritten
  BY <1>1, <1>2, <1>3, <1>4, <1>5
  DEF ReadingsInOrder, TasksApart, CurrentApart, FirstWritten
<1>8. BucketsInv
  BY <1>6, <1>7 DEF BucketsInv
<1>9. ASSUME NEW p \in MetricPlatforms
      PROVE  Reported(p) = baseline[p].requests
  <2>1. RequestsIn(Tasks, p) = {} /\ RequestsIn(Stored, p) = {}
    BY <1>4 DEF RequestsIn
  <2>2. currentBucket.counts[p].requests = 0
    BY <1>1, <1>5
  <2>3. Reported(p) = 0 + 0 + 0
    BY <1>8, <2>1, <2>2, ReportedParts, FS_EmptySet
  <2> QED
    BY <1>1, <1>5, <2>3
<1> QED
  BY <1>8, <1>9 DEF EachReported

\* However requests, aggregations, cuts and retried writes interleave, what is
\* reported of a platform is what was aggregated, and no two buckets overwrite
\* each other before Stop, for any number of platforms, requests and buckets.
THEOREM MetricsCorrect == MetricsSpec => []PlatformCountsOnce
<1>1. BucketsInv /\ EachReported /\ [MetricsNext]_metricsVars => BucketsInv' /\ EachReported'
  <2> SUFFICES ASSUME BucketsInv, EachReported, [MetricsNext]_metricsVars
               PROVE  BucketsInv' /\ EachReported'
    OBVIOUS
  <2>1. ASSUME NEW g, NEW p, NEW ok, RecordRequest(g, p, ok)
        PROVE  BucketsInv' /\ EachReported'
    BY <2>1, RecordingKeeps DEF RecordRequest
  <2>2. ASSUME NEW g, RecordGlobalOK(g) \/ RecordPlatform(g) \/ RecordPlatformOK(g)
        PROVE  BucketsInv' /\ EachReported'
    BY <2>2, RecordingKeeps DEF RecordGlobalOK, RecordPlatform, RecordPlatformOK
  <2>3. CASE UNCHANGED metricsVars
    <3> USE <2>3 DEF metricsVars
    <3>1. BucketsTyped' /\ ReadingsInOrder'
      BY DEF BucketsInv, BucketsTyped, ReadingsInOrder
    <3>2. TasksApart' /\ CurrentApart' /\ FirstWritten'
      BY DEF BucketsInv, TasksApart, CurrentApart, FirstWritten, Tasks
    <3> QED
      BY <3>1, <3>2, ReportStays DEF BucketsInv
  <2> QED
    BY <2>1, <2>2, <2>3, BeginKeeps, ReadKeeps, CutKeeps, BoundaryKeeps, EnqueueKeeps,
       WriteKeeps, RestKeeps, PhaseKeeps DEF MetricsNext
<1>2. BucketsInv /\ EachReported => PlatformCountsOnce
  <2> SUFFICES ASSUME BucketsInv, EachReported PROVE PlatformCountsOnce
    OBVIOUS
  <2>1. \A b, c \in Tasks : b.start = c.start => b = c
    BY DEF BucketsInv, TasksApart, Tasks, ToSet
  <2>2. /\ currentBucket.start \in Nat
        /\ managerPhase \in {"running", "stopping"} =>
             \A b \in Tasks : b.start < currentBucket.start
    BY DEF BucketsInv, BucketsTyped, IsBucket, CurrentApart
  <2> QED
    BY <2>1, <2>2 DEF PlatformCountsOnce, Unwritten, EachReported
<1> QED
  BY <1>1, <1>2, BucketsInvInit, PTL DEF MetricsSpec

-----------------------------------------------------------------------------
(* Probe schedule *)

\* The configuration in use tests one of its authorities.
ScheduleInv == ScheduleTypeOK /\ probeConfig.domain \in probeConfig.authorities

\* An accepted configuration has intervals above the lookahead and lists the
\* domain it tests.
LEMMA AcceptedConfig ==
    ASSUME NEW c \in ConfigRequests, Valid(c)
    PROVE  /\ Completed(c) \in ProbeConfig
           /\ Completed(c).domain \in Completed(c).authorities
<1>1. c \in [domain : ProbeDomains, authorities : SUBSET ProbeDomains,
             interval : [Attempts -> 0..MaxAge]]
  BY ScheduleAssumption
<1>2. c.interval \in [Attempts -> MinProbeInterval..MaxAge]
  BY <1>1, ScheduleAssumption DEF Valid, MinProbeInterval
<1> QED
  BY <1>1, <1>2 DEF Completed, ProbeConfig

\* Stamps of an attempt keep the ages of a node well typed and young.
LEMMA Stamps ==
    ASSUME NEW a \in [Attempts -> Ages], NEW domain
    PROVE  /\ RecordLatency(a, domain) \in [Attempts -> Ages]
           /\ RecordLatency(a, domain)["latency"] = 0
           /\ domain \in probeConfig.authorities => RecordLatency(a, domain)["authority"] = 0
           /\ UpdateNodeEgressIP(a) \in [Attempts -> Ages]
           /\ UpdateNodeEgressIP(a)["egress"] = 0
<1>1. 0 \in Ages
  BY ScheduleAssumption DEF Ages, Never
<1> QED
  BY <1>1 DEF RecordLatency, UpdateNodeEgressIP, Attempts

\* A probe is started with the node and the kind it was asked for.
LEMMA ProbeStarted ==
    ASSUME ScheduleInv, NEW n \in ProbeNodes, NEW kind \in Kinds, NEW sync \in BOOLEAN
    PROVE  NewProbe(n, kind, sync) \in Probe
<1>1. probeConfig.domain \in ProbeDomains
  BY DEF ScheduleInv, ScheduleTypeOK, ProbeConfig
<1> QED
  BY <1>1, ScheduleAssumption DEF NewProbe, Probe

\* What the end of an egress probe leaves.
LEMMA EgressEnds ==
    ASSUME ScheduleInv, NEW p \in probing, NEW outcome, EndEgressProbe(p, outcome)
    PROVE  /\ age' \in [ProbeNodes -> [Attempts -> Ages]]
           /\ p.node \in ProbeNodes /\ age'[p.node]["egress"] = 0
<1>1. PICK n \in ProbeNodes : n = p.node
  BY DEF ScheduleInv, ScheduleTypeOK, Probe
<1>2. PICK a \in [Attempts -> Ages] : a = age[n]
  BY DEF ScheduleInv, ScheduleTypeOK
<1>3. PICK b \in [Attempts -> Ages] :
        b = IF outcome = "fetchError" THEN a ELSE RecordLatency(a, p.domain)
  BY Stamps
<1>4. age' = [age EXCEPT ![n] = UpdateNodeEgressIP(b)]
  BY <1>1, <1>2, <1>3 DEF EndEgressProbe, ScheduleInv, ScheduleTypeOK
<1>5. UpdateNodeEgressIP(b) \in [Attempts -> Ages] /\ UpdateNodeEgressIP(b)["egress"] = 0
  BY Stamps
<1> QED
  BY <1>1, <1>4, <1>5 DEF ScheduleInv, ScheduleTypeOK

\* What the end of a latency probe leaves, and a request's report.
LEMMA LatencyStamped ==
    ASSUME ScheduleInv, NEW n \in ProbeNodes, NEW domain,
           age' = [age EXCEPT ![n] = RecordLatency(@, domain)]
    PROVE  /\ age' \in [ProbeNodes -> [Attempts -> Ages]]
           /\ age'[n]["latency"] = 0
           /\ domain \in probeConfig.authorities => age'[n]["authority"] = 0
<1>1. PICK a \in [Attempts -> Ages] : a = age[n]
  BY DEF ScheduleInv, ScheduleTypeOK
<1>2. age' = [age EXCEPT ![n] = RecordLatency(a, domain)]
  BY <1>1 DEF ScheduleInv, ScheduleTypeOK
<1>3. /\ RecordLatency(a, domain) \in [Attempts -> Ages]
      /\ RecordLatency(a, domain)["latency"] = 0
      /\ domain \in probeConfig.authorities => RecordLatency(a, domain)["authority"] = 0
  BY Stamps
<1> QED
  BY <1>2, <1>3 DEF ScheduleInv, ScheduleTypeOK

\* Every step keeps the invariant.
LEMMA ScheduleStep ==
    ASSUME ScheduleInv, [ScheduleNext]_scheduleVars
    PROVE  ScheduleInv'
<1> USE DEF ScheduleInv, ScheduleTypeOK
<1>1. CASE ScanEgress \/ ScanLatency
  BY <1>1 DEF ScanEgress, ScanLatency, Kinds
<1>2. ASSUME NEW n \in ProbeNodes, NEW kind \in Kinds,
             TriggerImmediateProbe(n, kind) \/ StartProbe(n, kind) \/ ProbeSync(n, kind)
      PROVE  ScheduleInv'
  <2>1. \A sync \in BOOLEAN : NewProbe(n, kind, sync) \in Probe
    BY ProbeStarted
  <2>2. probing' \subseteq Probe
    <3>1. CASE TriggerImmediateProbe(n, kind)
      BY <3>1 DEF TriggerImmediateProbe
    <3>2. CASE StartProbe(n, kind)
      BY <2>1, <3>2 DEF StartProbe
    <3>3. CASE ProbeSync(n, kind)
      BY <2>1, <3>3 DEF ProbeSync
    <3> QED
      BY <1>2, <3>1, <3>2, <3>3
  <2>3. waiting' \subseteq ProbeNodes \X Kinds
    <3>1. waiting' \subseteq waiting \cup {<<n, kind>>}
      BY <1>2 DEF TriggerImmediateProbe, StartProbe, ProbeSync
    <3> QED
      BY <3>1
  <2>4. UNCHANGED <<probeConfig, nodeStatus, age>>
    BY <1>2 DEF TriggerImmediateProbe, StartProbe, ProbeSync
  <2> QED
    BY <2>2, <2>3, <2>4
<1>3. ASSUME NEW p \in probing, EndLatencyProbe(p)
      PROVE  ScheduleInv'
  <2>1. p.node \in ProbeNodes
    BY DEF Probe
  <2>2. age' \in [ProbeNodes -> [Attempts -> Ages]]
    BY <1>3, <2>1, LatencyStamped DEF EndLatencyProbe
  <2> QED
    BY <1>3, <2>2 DEF EndLatencyProbe
<1>4. ASSUME NEW p \in probing, NEW outcome, EndEgressProbe(p, outcome)
      PROVE  ScheduleInv'
  <2>1. age' \in [ProbeNodes -> [Attempts -> Ages]]
    BY <1>4, EgressEnds
  <2> QED
    BY <1>4, <2>1 DEF EndEgressProbe
<1>5. ASSUME NEW n \in ProbeNodes, NEW domain, TrafficLatency(n, domain)
      PROVE  ScheduleInv'
  <2>1. age' \in [ProbeNodes -> [Attempts -> Ages]]
    BY <1>5, LatencyStamped DEF TrafficLatency
  <2> QED
    BY <1>5, <2>1 DEF TrafficLatency
<1>6. ASSUME NEW c \in ConfigRequests, PatchRuntimeConfig(c)
      PROVE  ScheduleInv'
  BY <1>6, AcceptedConfig DEF PatchRuntimeConfig
<1>7. ASSUME NEW n \in ProbeNodes, NEW status \in {"enabled", "disabled"}, NodeChanges(n, status)
      PROVE  ScheduleInv'
  BY <1>7 DEF NodeChanges
<1>8. CASE TimePasses
  <2>1. age' \in [ProbeNodes -> [Attempts -> Ages]]
    BY <1>8, ScheduleAssumption DEF TimePasses, Ages, Never
  <2> QED
    BY <1>8, <2>1 DEF TimePasses
<1>9. CASE UNCHANGED scheduleVars
  BY <1>9 DEF scheduleVars
<1> QED
  BY <1>1, <1>2, <1>3, <1>4, <1>5, <1>6, <1>7, <1>8, <1>9 DEF ScheduleNext

\* A probe that is over has settled its node.
Settled(p) ==
    /\ p.kind = "egress" => ~EgressDue(p.node)'
    /\ p.kind = "latency" /\ p.domain = probeConfig.domain => ~LatencyDue(p.node)'

\* Only the end of a probe takes it away, and the attempt it stamped is not
\* overdue: the least interval exceeds the lookahead.
LEMMA StepSettles ==
    ASSUME ScheduleInv, ScheduleInv', ScheduleNext, NEW p \in probing \ probing'
    PROVE  Settled(p)
<1>1. ASSUME EndLatencyProbe(p), p.domain = probeConfig.domain
      PROVE  ~LatencyDue(p.node)'
  <2>1. PICK n \in ProbeNodes : n = p.node
    BY DEF ScheduleInv, ScheduleTypeOK, Probe
  <2>2. age'[n]["latency"] = 0 /\ age'[n]["authority"] = 0
    BY <1>1, <2>1, LatencyStamped DEF EndLatencyProbe, ScheduleInv
  <2>3. ~Overdue(n, "latency")' /\ ~Overdue(n, "authority")'
    <3>1. \A k \in {"latency", "authority"} :
            k \in Attempts /\ age'[n][k] = 0 /\ probeConfig'.interval[k] \in MinProbeInterval..MaxAge
      BY <2>2 DEF ScheduleInv, ScheduleTypeOK, ProbeConfig, Attempts
    <3> QED
      BY <3>1, ScheduleAssumption DEF Overdue, Never, Lookahead, MinProbeInterval
  <2> QED
    BY <2>1, <2>3 DEF LatencyDue
<1>2. ASSUME NEW outcome, EndEgressProbe(p, outcome)
      PROVE  ~EgressDue(p.node)'
  <2>1. PICK n \in ProbeNodes : n = p.node /\ age'[n]["egress"] = 0
    BY <1>2, EgressEnds
  <2>2. probeConfig'.interval["egress"] \in MinProbeInterval..MaxAge
    BY DEF ScheduleInv, ScheduleTypeOK, ProbeConfig, Attempts
  <2> QED
    BY <2>1, <2>2, ScheduleAssumption DEF EgressDue, Overdue, Never, Lookahead, MinProbeInterval
<1>3. ASSUME NEW q \in probing, EndLatencyProbe(q)
      PROVE  q = p /\ p.kind = "latency"
  BY <1>3 DEF EndLatencyProbe
<1>4. ASSUME NEW q \in probing, NEW outcome, EndEgressProbe(q, outcome)
      PROVE  q = p /\ p.kind = "egress"
  BY <1>4 DEF EndEgressProbe
<1>5. \/ \E q \in probing : EndLatencyProbe(q)
      \/ \E q \in probing, outcome \in {"fetchError", "parseError", "ok"} : EndEgressProbe(q, outcome)
  BY DEF ScheduleNext, ScanEgress, ScanLatency, TriggerImmediateProbe, StartProbe, ProbeSync,
         TrafficLatency, PatchRuntimeConfig, NodeChanges, TimePasses
<1>6. CASE \E q \in probing : EndLatencyProbe(q)
  BY <1>1, <1>3, <1>6 DEF Settled
<1>7. CASE \E q \in probing, outcome \in {"fetchError", "parseError", "ok"} : EndEgressProbe(q, outcome)
  BY <1>2, <1>4, <1>7 DEF Settled
<1> QED
  BY <1>5, <1>6, <1>7

\* The first configuration has been accepted too.
LEMMA ScheduleStarts == ScheduleInit => ScheduleInv
<1> SUFFICES ASSUME ScheduleInit PROVE ScheduleInv
  OBVIOUS
<1>1. probeConfig \in ProbeConfig /\ probeConfig.domain \in probeConfig.authorities
  BY AcceptedConfig DEF ScheduleInit, Accepted
<1>2. Never \in Ages
  BY ScheduleAssumption DEF Never, Ages
<1> QED
  BY <1>1, <1>2 DEF ScheduleInit, ScheduleInv, ScheduleTypeOK

\* A probe that ends, however it ends, leaves its node not due: for any nodes,
\* domains, intervals and accepted configurations, whatever triggers, scans and
\* patches run meanwhile (performEgressProbe, performLatencyProbe, RecordLatency,
\* validateRuntimeConfig).
THEOREM SettlesCorrect == ScheduleSpec => ProbeSettles
<1>1. ScheduleInv /\ [ScheduleNext]_scheduleVars => ScheduleInv'
  BY ScheduleStep
<1>2. ScheduleInv /\ ScheduleInv' /\ [ScheduleNext]_scheduleVars
        => [\A p \in probing \ probing' :
              /\ p.kind = "egress" => ~EgressDue(p.node)'
              /\ p.kind = "latency" /\ p.domain = probeConfig.domain
                   => ~LatencyDue(p.node)']_scheduleVars
  BY StepSettles DEF Settled
<1> QED
  BY <1>1, <1>2, ScheduleStarts, PTL DEF ScheduleSpec, ProbeSettles
=============================================================================
