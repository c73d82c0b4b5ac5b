------------------------------ MODULE ProbeQueue ------------------------------
(***************************************************************************)
(* The probe scheduler of internal/probe/manager.go: a lock-free state per *)
(* probe key (node and kind), two bounded queues, producers that trigger   *)
(* probes (scans, new nodes, re-enabled subscriptions) and the workers     *)
(* that run them.  A compare-and-swap loop is one step; looking a state    *)
(* object up, changing its flags, pushing a token and deleting the object  *)
(* are separate steps, and an object may be deleted from the table while   *)
(* somebody still holds it.                                                *)
(***************************************************************************)
EXTENDS Naturals, Sequences, FiniteSets, ConcurrentMap

CONSTANTS
    Keys,            \* probe task keys
    Producers,       \* goroutines that trigger probes
    Urgent,          \* producers whose triggers are high-priority
    ProbeWorkers,
    QueueCapacity,   \* per priority
    States,          \* identities of probeTaskState objects
    NoState

ASSUME QueueAssumption ==
    /\ QueueCapacity \in Nat \ {0}
    /\ Urgent \subseteq Producers
    /\ NoState \notin States
    /\ Producers \cap ProbeWorkers = {}

VARIABLES
    flags,       \* state object -> its flags
    table,       \* taskStates: key -> state object
    queue,       \* priority -> tokens, in order
    stopped,     \* StopDropPending was called
    triggers,    \* producers inside enqueueProbe
    runs         \* workers holding a token

queueVars == <<flags, table, queue, stopped, triggers, runs>>

Priorities == {"high", "normal"}
Flags == {"queued", "running", "dirty", "dirtyHigh", "queuedHigh"}

Trigger == [pc : {"cas", "push", "upgrade", "revert", "drop", "delete"}, key : Keys,
            state : States, high : BOOLEAN, upgrade : BOOLEAN]

Run == [pc : {"load", "mark", "exec", "finish", "push", "drop", "delete"}, key : Keys,
        state : States \cup {NoState}, high : BOOLEAN]

QueueTypeOK ==
    /\ flags \in [States -> SUBSET Flags]
    /\ IsMap(table, Keys, States)
    /\ queue \in [Priorities -> Seq(Keys)]
    /\ stopped \in BOOLEAN
    /\ IsMap(triggers, Producers, Trigger)
    /\ IsMap(runs, ProbeWorkers, Run)

QueueInit ==
    /\ flags = [st \in States |-> {}]
    /\ table = EmptyMap
    /\ queue = [pr \in Priorities |-> <<>>]
    /\ stopped = FALSE
    /\ triggers = EmptyMap
    /\ runs = EmptyMap

-----------------------------------------------------------------------------
Holders(st) == {p \in DOMAIN triggers : triggers[p].state = st}
                 \cup {w \in DOMAIN runs : runs[w].state = st}
InTable(st) == \E k \in DOMAIN table : table[k] = st

\* A new state object is one nobody refers to; the flags f of an object that x
\* was the last to hold are garbage.
FreshStates == {st \in States : ~InTable(st) /\ Holders(st) = {}}
Left(x, st, f) == IF InTable(st) \/ Holders(st) # {x} THEN f ELSE {}

Priority(high) == IF high THEN "high" ELSE "normal"
HighFlag(high, f) == IF high THEN {f} ELSE {}

QueueAccepts(high) == ~stopped /\ Len(queue[Priority(high)]) < QueueCapacity
Push(high, k) == queue' = [queue EXCEPT ![Priority(high)] = Append(@, k)]

TriggerAt(p, phase) == p \in DOMAIN triggers /\ triggers[p].pc = phase
TriggerGoto(p, phase) == triggers' = [triggers EXCEPT ![p].pc = phase]
TriggerLeaves(p, f) ==
    /\ triggers' = MapDelete(triggers, p)
    /\ flags' = [flags EXCEPT ![triggers[p].state] = Left(p, triggers[p].state, f)]

RunAt(w, phase) == w \in DOMAIN runs /\ runs[w].pc = phase
RunGoto(w, phase) == runs' = [runs EXCEPT ![w].pc = phase]
RunLeaves(w) ==
    /\ runs' = MapDelete(runs, w)
    /\ flags' = [flags EXCEPT ![runs[w].state] = Left(w, runs[w].state, @)]

\* clearDroppedState, and the deletion of an object without flags.
ClearDropped(st) == flags' = [flags EXCEPT ![st] = @ \cap {"running"}]
TryDelete(k, st) ==
    table' = IF k \in DOMAIN table /\ table[k] = st /\ flags[st] = {}
             THEN MapDelete(table, k) ELSE table

-----------------------------------------------------------------------------
\* enqueueProbe: LoadOrCompute.
EnqueueProbe(p, k) ==
    /\ p \notin DOMAIN triggers
    /\ ~stopped
    /\ \E st \in IF k \in DOMAIN table THEN {table[k]} ELSE FreshStates :
           /\ table' = MapPut(table, k, st)
           /\ triggers' = MapPut(triggers, p, [pc |-> "cas", key |-> k, state |-> st,
                                               high |-> p \in Urgent,
                                               upgrade |-> p \in Urgent])
    /\ UNCHANGED <<flags, queue, stopped, runs>>

\* Mutant: a running task is queued again at once.
TriggerIgnoresRunning(p) ==
    /\ TriggerAt(p, "cas")
    /\ LET t == triggers[p]
           f == flags[t.state]
       IN  CASE "queued" \in f ->
                  TriggerLeaves(p, f \cup {"dirty"})
             [] OTHER ->
                  /\ flags' = [flags EXCEPT ![t.state] = @ \cup {"queued"}]
                  /\ TriggerGoto(p, "push")
    /\ UNCHANGED <<table, queue, stopped, runs>>

\* The flags decide: a running task is marked dirty, a queued one marked dirty
\* or given a high-priority token, an idle one queued.
TriggerCas(p) ==
    /\ TriggerAt(p, "cas")
    /\ LET t == triggers[p]
           f == flags[t.state]
       IN  CASE "running" \notin f /\ "queued" \in f
                  /\ t.upgrade /\ "queuedHigh" \notin f ->
                  /\ flags' = [flags EXCEPT ![t.state] = @ \cup {"queuedHigh"}]
                  /\ TriggerGoto(p, "upgrade")
             [] f \cap {"running", "queued"} = {} ->
                  /\ flags' = [flags EXCEPT ![t.state] =
                                 (@ \ {"queuedHigh"}) \cup {"queued"}
                                    \cup HighFlag(t.high, "queuedHigh")]
                  /\ TriggerGoto(p, "push")
             [] OTHER ->
                  TriggerLeaves(p, f \cup {"dirty"} \cup HighFlag(t.high, "dirtyHigh"))
    /\ UNCHANGED <<table, queue, stopped, runs>>

TriggerPush(p) ==
    /\ TriggerAt(p, "push")
    /\ LET t == triggers[p]
       IN  IF QueueAccepts(t.high)
           THEN Push(t.high, t.key) /\ TriggerLeaves(p, flags[t.state])
           ELSE TriggerGoto(p, "drop") /\ UNCHANGED <<queue, flags>>
    /\ UNCHANGED <<table, stopped, runs>>

TriggerUpgrade(p) ==
    /\ TriggerAt(p, "upgrade")
    /\ IF QueueAccepts(TRUE)
       THEN Push(TRUE, triggers[p].key) /\ TriggerLeaves(p, flags[triggers[p].state])
       ELSE TriggerGoto(p, "revert") /\ UNCHANGED <<queue, flags>>
    /\ UNCHANGED <<table, stopped, runs>>

TriggerRevert(p) ==
    /\ TriggerAt(p, "revert")
    /\ flags' = [flags EXCEPT ![triggers[p].state] = @ \ {"queuedHigh"}]
    /\ triggers' = [triggers EXCEPT ![p].pc = "cas", ![p].upgrade = FALSE]
    /\ UNCHANGED <<table, queue, stopped, runs>>

TriggerDrop(p) ==
    /\ TriggerAt(p, "drop")
    /\ ClearDropped(triggers[p].state)
    /\ TriggerGoto(p, "delete")
    /\ UNCHANGED <<table, queue, stopped, runs>>

TriggerDelete(p) ==
    /\ TriggerAt(p, "delete")
    /\ TryDelete(triggers[p].key, triggers[p].state)
    /\ TriggerLeaves(p, flags[triggers[p].state])
    /\ UNCHANGED <<queue, stopped, runs>>

-----------------------------------------------------------------------------
\* Dequeue: either queue when both hold tokens.
Dequeue(w, pr) ==
    /\ w \notin DOMAIN runs
    /\ ~stopped
    /\ queue[pr] # <<>>
    /\ queue' = [queue EXCEPT ![pr] = Tail(@)]
    /\ runs' = MapPut(runs, w, [pc |-> "load", key |-> Head(queue[pr]),
                                state |-> NoState, high |-> FALSE])
    /\ UNCHANGED <<flags, table, stopped, triggers>>

\* markTaskRunning: the object is looked up, ...
LoadTask(w) ==
    /\ RunAt(w, "load")
    /\ LET k == runs[w].key
       IN  IF k \in DOMAIN table
           THEN runs' = [runs EXCEPT ![w].pc = "mark", ![w].state = table[k]]
           ELSE runs' = MapDelete(runs, w)
    /\ UNCHANGED <<flags, table, queue, stopped, triggers>>

\* ... and a token whose object is no longer queued is dropped.
MarkTaskRunning(w) ==
    /\ RunAt(w, "mark")
    /\ LET st == runs[w].state
       IN  IF "queued" \in flags[st]
           THEN /\ flags' = [flags EXCEPT ![st] =
                               (@ \ {"queued", "queuedHigh"}) \cup {"running"}]
                /\ RunGoto(w, "exec")
           ELSE /\ RunGoto(w, "delete")
                /\ UNCHANGED flags
    /\ UNCHANGED <<table, queue, stopped, triggers>>

ExecuteTask(w) ==
    /\ RunAt(w, "exec")
    /\ RunGoto(w, "finish")
    /\ UNCHANGED <<flags, table, queue, stopped, triggers>>

\* Mutant: a task triggered while it ran keeps the mark and gets no token.
FinishWithoutToken(w) ==
    /\ RunAt(w, "finish")
    /\ flags' = [flags EXCEPT ![runs[w].state] = IF "dirty" \in @ THEN {"queued"} ELSE {}]
    /\ RunGoto(w, "delete")
    /\ UNCHANGED <<table, queue, stopped, triggers>>

\* finishTask: a dirty task is queued again.
FinishTask(w) ==
    /\ RunAt(w, "finish")
    /\ LET st == runs[w].state
           f == flags[st]
           high == "dirtyHigh" \in f
       IN  IF "dirty" \in f
           THEN /\ flags' = [flags EXCEPT ![st] =
                               {"queued"} \cup HighFlag(high, "queuedHigh")]
                /\ runs' = [runs EXCEPT ![w].pc = "push", ![w].high = high]
           ELSE /\ flags' = [flags EXCEPT ![st] = @ \cap {"queued"}]
                /\ RunGoto(w, "delete")
    /\ UNCHANGED <<table, queue, stopped, triggers>>

RequeueTask(w) ==
    /\ RunAt(w, "push")
    /\ LET r == runs[w]
       IN  IF QueueAccepts(r.high)
           THEN Push(r.high, r.key) /\ RunGoto(w, "delete")
           ELSE RunGoto(w, "drop") /\ UNCHANGED queue
    /\ UNCHANGED <<flags, table, stopped, triggers>>

RequeueDropped(w) ==
    /\ RunAt(w, "drop")
    /\ ClearDropped(runs[w].state)
    /\ RunGoto(w, "delete")
    /\ UNCHANGED <<table, queue, stopped, triggers>>

TryDeleteTaskState(w) ==
    /\ RunAt(w, "delete")
    /\ TryDelete(runs[w].key, runs[w].state)
    /\ RunLeaves(w)
    /\ UNCHANGED <<queue, stopped, triggers>>

\* Stop: the event sources that trigger probes are stopped first.
StopDropPending ==
    /\ ~stopped
    /\ triggers = EmptyMap
    /\ stopped' = TRUE
    /\ queue' = [pr \in Priorities |-> <<>>]
    /\ UNCHANGED <<flags, table, triggers, runs>>

-----------------------------------------------------------------------------
TriggerStep(p) ==
    \/ TriggerCas(p)
    \/ TriggerPush(p)
    \/ TriggerUpgrade(p)
    \/ TriggerRevert(p)
    \/ TriggerDrop(p)
    \/ TriggerDelete(p)

WorkerStep(w) ==
    \/ \E pr \in Priorities : Dequeue(w, pr)
    \/ LoadTask(w)
    \/ MarkTaskRunning(w)
    \/ ExecuteTask(w)
    \/ FinishTask(w)
    \/ RequeueTask(w)
    \/ RequeueDropped(w)
    \/ TryDeleteTaskState(w)

QueueNext ==
    \/ \E p \in Producers :
         \/ \E k \in Keys : EnqueueProbe(p, k)
         \/ TriggerStep(p)
    \/ \E w \in ProbeWorkers : WorkerStep(w)
    \/ StopDropPending

QueueSpec == QueueInit /\ [][QueueNext]_queueVars

-----------------------------------------------------------------------------
Tokens(k) == {pr \in Priorities : \E i \in 1..Len(queue[pr]) : queue[pr][i] = k}

\* A state object admits one run at a time: no trigger, stale token or requeue
\* starts a second one beside it.
OneRunPerState ==
    LET Running(w) == w \in DOMAIN runs /\ runs[w].pc \in {"exec", "finish"}
    IN  \A v, w \in ProbeWorkers :
            Running(v) /\ Running(w) /\ runs[v].state = runs[w].state => v = w

\* No key is stuck: a state marked queued has a token in a queue, or somebody
\* about to push one or to clear the mark.  A key marked queued without a token
\* would never be probed again, since every later trigger only marks it dirty.
NoStuckKey ==
    \A k \in DOMAIN table :
        "queued" \in flags[table[k]] /\ ~stopped =>
            \/ Tokens(k) # {}
            \/ \E p \in DOMAIN triggers :
                 triggers[p].key = k /\ triggers[p].pc \in {"push", "drop"}
            \/ \E w \in DOMAIN runs :
                 runs[w].key = k /\ runs[w].pc \in {"load", "mark", "push", "drop"}
=============================================================================
