---------------------------- MODULE RoutableViews ----------------------------
(***************************************************************************)
(* The node pool and the routable view of a platform:                      *)
(* internal/topology/pool.go, internal/platform/platform.go, and the parts *)
(* of subscription_scheduler.go and outbound/manager.go that change what   *)
(* makes a node routable.                                                  *)
(*                                                                         *)
(* A goroutine changes one attribute of a node, then tells the registered  *)
(* platform object to re-evaluate the node, or to rebuild its whole view.  *)
(* The two halves are separate steps, and so is looking up the registered  *)
(* object: UpdatePlatform replaces it (ReplacePlatform).  The platform's   *)
(* tag and region filters are abstracted to the set of egress IPs each     *)
(* platform object accepts; one subscription stands for those that hold    *)
(* the nodes.  A goroutine at work is a record of work:                    *)
(*                                                                         *)
(*   probe     request or probe through the node under way, not reported   *)
(*   close     RecordResult(success) between its counter and its circuit   *)
(*   open      RecordResult(failure) at the threshold, likewise            *)
(*   compute   node in the managed set, pool entry still to be created     *)
(*   build     pool entry created, outbound still to be built              *)
(*   drop      node out of the managed set, pool reference still to go     *)
(*   notify    node changed, registered platform still to be looked up     *)
(*   dirty     NotifyDirty on obj still to run                             *)
(*   rebuild   subscription switched, platform still to be looked up       *)
(*   acquire   FullRebuild of obj waiting for its viewMu                   *)
(*   scan      FullRebuild of obj, nodes of todo not yet visited           *)
(*   publish   replacement obj built, still to be registered               *)
(*   ensure    outbounds of the re-enabled nodes of cands still to be built*)
(***************************************************************************)
EXTENDS Naturals, FiniteSets, ConcurrentMap

CONSTANTS
    Nodes, IPs,
    Objects,                  \* platform objects, one per configuration
    Accepts,                  \* object -> egress IPs its filters accept
    Writers,                  \* goroutines
    Restored,                 \* nodes loaded from cache.db at start-up
    MaxConsecutiveFailures,
    Unbuildable,              \* nodes whose outbound never builds
    Flaky,                    \* nodes whose outbound may fail to build once
    NoIP, NoNode, NoObject

ASSUME ViewsAssumption ==
    /\ Accepts \in [Objects -> SUBSET IPs]
    /\ MaxConsecutiveFailures \in Nat \ {0}
    /\ Objects # {}
    /\ Restored \subseteq Nodes
    /\ NoIP \notin IPs
    /\ NoNode \notin Nodes
    /\ NoObject \notin Objects

VARIABLES
    entries,      \* GlobalNodePool.nodes: node -> NodeEntry
    managed,      \* nodes the subscription manages and has not evicted
    enabled,      \* the subscription's enabled flag
    registered,   \* the registered platform object
    used,         \* platform objects created so far
    views,        \* object -> its routable view
    work          \* goroutines at work

vars == <<entries, managed, enabled, registered, used, views, work>>

Entry == [out : BOOLEAN, open : BOOLEAN, fails : 0..MaxConsecutiveFailures,
          ip : IPs \cup {NoIP}, latency : BOOLEAN]

Phases == {"probe", "close", "open", "compute", "build", "drop", "notify", "dirty",
           "rebuild", "acquire", "scan", "publish", "ensure"}

Job == [pc : Phases, node : Nodes \cup {NoNode}, obj : Objects \cup {NoObject},
        todo : SUBSET Nodes, cands : SUBSET Nodes,
        next : {"done", "publish", "ensure"}, locked : BOOLEAN]

TypeOK ==
    /\ IsMap(entries, Nodes, Entry)
    /\ managed \in SUBSET Nodes
    /\ enabled \in BOOLEAN
    /\ registered \in Objects
    /\ used \in SUBSET Objects
    /\ views \in [Objects -> SUBSET Nodes]
    /\ IsMap(work, Writers, Job)

\* AddNodeFromSub: a new node starts circuit-open, to be proven by probes.
NewNodeEntry == [out |-> FALSE, open |-> TRUE, fails |-> 0, ip |-> NoIP,
                 latency |-> FALSE]

-----------------------------------------------------------------------------
\* IsDisabledBySubscriptions, negated: an enabled subscription holds the node.
HeldByEnabled(n) == enabled /\ n \in managed

\* IsHealthy: outbound ready and circuit closed.
IsHealthy(n) == entries[n].out /\ ~entries[n].open

\* Platform.evaluateNode, for a node of the pool.
evaluateNode(o, n) ==
    /\ HeldByEnabled(n)
    /\ IsHealthy(n)
    /\ entries[n].ip \in Accepts[o]
    /\ entries[n].latency

Routable(o, n) == n \in DOMAIN entries /\ evaluateNode(o, n)

\* Whether an outbound builds; what a node not yet built may turn out to be.
BuildOutcomes(n) == IF n \in Flaky THEN BOOLEAN ELSE {n \notin Unbuildable}

\* bootstrapNodes: outbounds are built anew, the rest of a node's state is the
\* persisted one, and RebuildAllPlatforms follows.
Init ==
    /\ entries \in {e \in [Restored -> Entry] :
                       \A n \in Restored : e[n].out \in BuildOutcomes(n)}
    /\ managed = Restored
    /\ enabled \in BOOLEAN
    /\ registered \in Objects
    /\ used = {registered}
    /\ views = [o \in Objects |->
                  {n \in Nodes : o = registered /\ Routable(o, n)}]
    /\ work = EmptyMap

\* FullRebuild holds the view's viewMu; NotifyDirty needs it for one step.
ViewLocked(o) == \E w \in DOMAIN work : work[w].pc = "scan" /\ work[w].obj = o

\* The subscription's opLock, which a refresh holds to its end.
OpLocked == \E w \in DOMAIN work : work[w].locked

At(w, phase) == w \in DOMAIN work /\ work[w].pc = phase

Idle(w) == w \notin DOMAIN work

NewJob(phase, n) == [pc |-> phase, node |-> n, obj |-> NoObject, todo |-> {},
                     cands |-> {}, next |-> "done", locked |-> FALSE]

Start(w, job) == Idle(w) /\ work' = MapPut(work, w, job)
Goto(w, phase) == work' = [work EXCEPT ![w].pc = phase]
Done(w) == work' = MapDelete(work, w)

pool == <<entries, managed, enabled>>
platform == <<registered, used, views>>

-----------------------------------------------------------------------------
\* A probe or a proxied request takes a node that has an outbound; its result
\* is recorded later, by hash, on whatever entry the pool then holds.
BeginProbe(w, n) ==
    /\ n \in DOMAIN entries
    /\ entries[n].out
    /\ Start(w, NewJob("probe", n))
    /\ UNCHANGED <<pool, platform>>

ReportOnMissingNode(w) ==
    /\ At(w, "probe")
    /\ work[w].node \notin DOMAIN entries
    /\ Done(w)
    /\ UNCHANGED <<pool, platform>>

Reports(w) == At(w, "probe") /\ work[w].node \in DOMAIN entries

\* RecordResult, first half: the failure counter.  A failure below the
\* threshold changes nothing else; fails stops counting at the threshold.
RecordSuccess(w) ==
    /\ Reports(w)
    /\ entries' = [entries EXCEPT ![work[w].node].fails = 0]
    /\ Goto(w, "close")
    /\ UNCHANGED <<managed, enabled, platform>>

RecordFailure(w) ==
    /\ Reports(w)
    /\ LET n == work[w].node
           fails == IF entries[n].fails < MaxConsecutiveFailures
                    THEN entries[n].fails + 1 ELSE MaxConsecutiveFailures
       IN  /\ entries' = [entries EXCEPT ![n].fails = fails]
           /\ IF fails = MaxConsecutiveFailures THEN Goto(w, "open") ELSE Done(w)
    /\ UNCHANGED <<managed, enabled, platform>>

\* Mutant: the breaker opens without telling the platforms.
OpenSilently(w) ==
    /\ At(w, "close") \/ At(w, "open")
    /\ LET n == work[w].node
           target == work[w].pc = "open"
       IN  /\ entries' = [entries EXCEPT ![n].open = target]
           /\ IF target \/ ~entries[n].open THEN Done(w) ELSE Goto(w, "notify")
    /\ UNCHANGED <<managed, enabled, platform>>

\* Second half: Swap(0) or CompareAndSwap(0, now) on CircuitOpenSince, with a
\* notification only when the circuit changed.
SwitchCircuit(w) ==
    /\ At(w, "close") \/ At(w, "open")
    /\ LET n == work[w].node
           target == work[w].pc = "open"
       IN  /\ entries' = [entries EXCEPT ![n].open = target]
           /\ IF entries[n].open # target THEN Goto(w, "notify") ELSE Done(w)
    /\ UNCHANGED <<managed, enabled, platform>>

\* Mutant: the first latency record is not announced.
LatencySilently(w) ==
    /\ Reports(w)
    /\ entries' = [entries EXCEPT ![work[w].node].latency = TRUE]
    /\ Done(w)
    /\ UNCHANGED <<managed, enabled, platform>>

\* RecordLatency: the first record is news; the table never becomes empty.
RecordLatency(w) ==
    /\ Reports(w)
    /\ LET n == work[w].node
       IN  /\ entries' = [entries EXCEPT ![n].latency = TRUE]
           /\ IF entries[n].latency THEN Done(w) ELSE Goto(w, "notify")
    /\ UNCHANGED <<managed, enabled, platform>>

UpdateNodeEgressIP(w, ip) ==
    /\ Reports(w)
    /\ LET n == work[w].node
       IN  /\ entries' = [entries EXCEPT ![n].ip = ip]
           /\ IF entries[n].ip = ip THEN Done(w) ELSE Goto(w, "notify")
    /\ UNCHANGED <<managed, enabled, platform>>

-----------------------------------------------------------------------------
\* UpdateSubscription swaps the managed set first.  A node it brings in ...
RefreshAdds(w, n) ==
    /\ ~OpLocked
    /\ n \notin managed
    /\ managed' = managed \cup {n}
    /\ Start(w, [NewJob("compute", n) EXCEPT !.locked = TRUE])
    /\ UNCHANGED <<entries, enabled, platform>>

\* ... gets a pool entry (Compute) ...
AddNodeFromSub(w) ==
    /\ At(w, "compute")
    /\ LET n == work[w].node
       IN  /\ entries' = MapPut(entries, n, NewNodeEntry)
           /\ Goto(w, "build")
    /\ UNCHANGED <<managed, enabled, platform>>

\* EnsureNodeOutbound: nothing to do for a node that has its outbound.
EnsureNodeOutbound(n) ==
    \E built \in BuildOutcomes(n) :
        entries' = IF n \in DOMAIN entries
                   THEN [entries EXCEPT ![n].out = @ \/ built] ELSE entries

\* ... and, in onNodeAdded, its outbound.
OnNodeAdded(w) ==
    /\ At(w, "build")
    /\ EnsureNodeOutbound(work[w].node)
    /\ Goto(w, "notify")
    /\ UNCHANGED <<managed, enabled, platform>>

\* A node the refresh (or the ephemeral cleaner) drops ...
RefreshRemoves(w, n) ==
    /\ ~OpLocked
    /\ n \in managed
    /\ managed' = managed \ {n}
    /\ Start(w, [NewJob("drop", n) EXCEPT !.locked = TRUE])
    /\ UNCHANGED <<entries, enabled, platform>>

\* Jobs that hold the discarded entry of n change it to no effect; whether
\* they still notify makes no difference, so let them.
Orphaned(n) ==
    [w \in DOMAIN work |->
        IF work[w].node = n /\ work[w].pc \in {"close", "open"}
        THEN [work[w] EXCEPT !.pc = "notify"] ELSE work[w]]

\* ... leaves the pool with its last reference.
RemoveNodeFromSub(w) ==
    /\ At(w, "drop")
    /\ LET n == work[w].node
       IN  /\ entries' = MapDelete(entries, n)
           /\ work' = [Orphaned(n) EXCEPT ![w].pc = "notify"]
    /\ UNCHANGED <<managed, enabled, platform>>

-----------------------------------------------------------------------------
\* notifyAllPlatformsDirty: platformSnapshot ...
PlatformSnapshot(w) ==
    /\ At(w, "notify")
    /\ work' = [work EXCEPT ![w].pc = "dirty", ![w].obj = registered]
    /\ UNCHANGED <<pool, platform>>

\* Mutant: a node that left the pool is not removed from the view.
NotifyIgnoresDeleted(w) ==
    /\ At(w, "dirty")
    /\ ~ViewLocked(work[w].obj)
    /\ LET n == work[w].node
           o == work[w].obj
       IN  views' = [views EXCEPT ![o] =
                       IF n \notin DOMAIN entries THEN @
                       ELSE IF Routable(o, n) THEN @ \cup {n} ELSE @ \ {n}]
    /\ Done(w)
    /\ UNCHANGED <<pool, registered, used>>

\* ... then NotifyDirty, which evaluates the node as it is by now.
NotifyDirty(w) ==
    /\ At(w, "dirty")
    /\ ~ViewLocked(work[w].obj)
    /\ LET n == work[w].node
           o == work[w].obj
       IN  views' = [views EXCEPT ![o] =
                       IF Routable(o, n) THEN @ \cup {n} ELSE @ \ {n}]
    /\ Done(w)
    /\ UNCHANGED <<pool, registered, used>>

\* SetSubscriptionEnabled: the flag under the opLock ...
SetSubscriptionEnabled(w) ==
    /\ ~OpLocked
    /\ enabled' = ~enabled
    /\ Start(w, [NewJob("rebuild", NoNode) EXCEPT
                   !.next = IF enabled THEN "done" ELSE "ensure",
                   !.cands = IF enabled THEN {} ELSE managed])
    /\ UNCHANGED <<entries, managed, platform>>

\* Mutant: the views are not rebuilt when a subscription is switched.
SwitchWithoutRebuild(w) ==
    /\ At(w, "rebuild")
    /\ Done(w)
    /\ UNCHANGED <<pool, platform>>

\* ... then RebuildAllPlatforms without it.
RebuildAllPlatforms(w) ==
    /\ At(w, "rebuild")
    /\ work' = [work EXCEPT ![w].pc = "acquire", ![w].obj = registered]
    /\ UNCHANGED <<pool, platform>>

\* RebuildPlatformView, on an operator's request.
RebuildPlatformView(w) ==
    /\ Start(w, [NewJob("acquire", NoNode) EXCEPT !.obj = registered])
    /\ UNCHANGED <<pool, platform>>

\* UpdatePlatform: a new object is built first and registered afterwards.
ReplacePlatform(w, o) ==
    /\ o \notin used
    /\ used' = used \cup {o}
    /\ Start(w, [NewJob("acquire", NoNode) EXCEPT !.obj = o, !.next = "publish"])
    /\ UNCHANGED <<pool, registered, views>>

\* FullRebuild: take viewMu and clear, ...
RebuildClear(w) ==
    /\ At(w, "acquire")
    /\ ~ViewLocked(work[w].obj)
    /\ views' = [views EXCEPT ![work[w].obj] = {}]
    /\ work' = [work EXCEPT ![w].pc = "scan", ![w].todo = DOMAIN entries]
    /\ UNCHANGED <<pool, registered, used>>

\* Mutant: the scan stays on a node until it is routable.
RebuildWaits(w, n) ==
    /\ At(w, "scan")
    /\ n \in work[w].todo
    /\ IF Routable(work[w].obj, n)
       THEN /\ work' = [work EXCEPT ![w].todo = @ \ {n}]
            /\ views' = [views EXCEPT ![work[w].obj] = @ \cup {n}]
       ELSE UNCHANGED <<work, views>>
    /\ UNCHANGED <<pool, registered, used>>

\* ... visit the nodes the Range meets (one added meanwhile may be missed), ...
RebuildVisit(w, n) ==
    /\ At(w, "scan")
    /\ n \in work[w].todo
    /\ work' = [work EXCEPT ![w].todo = @ \ {n}]
    /\ views' = IF Routable(work[w].obj, n)
                THEN [views EXCEPT ![work[w].obj] = @ \cup {n}] ELSE views
    /\ UNCHANGED <<pool, registered, used>>

\* ... and release it.
RebuildEnd(w) ==
    /\ At(w, "scan")
    /\ work[w].todo = {}
    /\ CASE work[w].next = "publish" -> Goto(w, "publish")
         [] work[w].next = "ensure"  ->
              Goto(w, "ensure")
         [] OTHER -> Done(w)
    /\ UNCHANGED <<pool, platform>>

\* Mutant: the old object is unregistered and the new one never registered.
UnregisterOnly(w) ==
    /\ At(w, "publish")
    /\ registered' = NoObject
    /\ Done(w)
    /\ UNCHANGED <<pool, used, views>>

\* The map pointers are swapped under platMu.
PublishPlatform(w) ==
    /\ At(w, "publish")
    /\ registered' = work[w].obj
    /\ Done(w)
    /\ UNCHANGED <<pool, used, views>>

\* onSubReenabledNode, for each node that was disabled before and is not now.
OnSubReenabledNode(w, n) ==
    /\ At(w, "ensure")
    /\ n \in work[w].cands
    /\ work' = [work EXCEPT ![w].cands = @ \ {n}]
    /\ IF HeldByEnabled(n) THEN EnsureNodeOutbound(n) ELSE UNCHANGED entries
    /\ UNCHANGED <<managed, enabled, platform>>

ReenableEnd(w) ==
    /\ At(w, "ensure")
    /\ work[w].cands = {}
    /\ Done(w)
    /\ UNCHANGED <<pool, platform>>

-----------------------------------------------------------------------------
Continues(w) ==
    \/ ReportOnMissingNode(w)
    \/ RecordSuccess(w)
    \/ RecordFailure(w)
    \/ RecordLatency(w)
    \/ \E ip \in IPs : UpdateNodeEgressIP(w, ip)
    \/ SwitchCircuit(w)
    \/ AddNodeFromSub(w)
    \/ OnNodeAdded(w)
    \/ RemoveNodeFromSub(w)
    \/ PlatformSnapshot(w)
    \/ NotifyDirty(w)
    \/ RebuildAllPlatforms(w)
    \/ RebuildClear(w)
    \/ \E n \in Nodes : RebuildVisit(w, n) \/ OnSubReenabledNode(w, n)
    \/ RebuildEnd(w)
    \/ PublishPlatform(w)
    \/ ReenableEnd(w)

Begins(w) ==
    \/ \E n \in Nodes :
         \/ BeginProbe(w, n)
         \/ RefreshAdds(w, n)
         \/ RefreshRemoves(w, n)
    \/ SetSubscriptionEnabled(w)
    \/ RebuildPlatformView(w)
    \/ \E o \in Objects : ReplacePlatform(w, o)

Next == \E w \in Writers : Begins(w) \/ Continues(w)

Spec == Init /\ [][Next]_vars

\* A goroutine is scheduled; a sync.Mutex hands itself to a waiter in the end
\* (its starvation mode), however often others take it.
Fairness ==
    \A w \in Writers :
        /\ WF_vars(Continues(w))
        /\ SF_vars(NotifyDirty(w))
        /\ SF_vars(RebuildClear(w))

\* Once UpdatePlatform has run, goroutines run one at a time.  Two of them are
\* another matter: one that looked up the old object notifies that one.
Serial == (\A o, p \in used : o = p) \/ (\A v, w \in DOMAIN work : v = w)

SerialSpec == Init /\ [][Next /\ Serial']_vars /\ Fairness

-----------------------------------------------------------------------------
\* A goroutine will still re-evaluate n in the registered view.
Covers(w, n) ==
    \/ /\ work[w].node = n
       /\ \/ work[w].pc \in {"compute", "build", "drop", "notify"}
          \/ work[w].pc = "dirty" /\ work[w].obj = registered
    \/ work[w].pc = "rebuild"
    \/ work[w].obj = registered /\ work[w].pc = "acquire"
    \/ work[w].obj = registered /\ work[w].pc = "scan" /\ n \in work[w].todo

Covered(n) == \E w \in DOMAIN work : Covers(w, n)

\* A node that must not carry traffic (circuit open, subscription disabled,
\* gone from the pool, IP outside the filters) is in the platform's view only
\* while a notification or rebuild that will remove it is on its way.
NoStaleMember ==
    \A n \in views[registered] : Routable(registered, n) \/ Covered(n)

\* A node that satisfies every condition is in the view, or about to be: no
\* change that makes it routable goes without a notification.
NoMissingMember ==
    \A n \in Nodes :
        Routable(registered, n) => n \in views[registered] \/ Covered(n)

\* Every operation ends: nobody waits forever for viewMu or the opLock.
WorkEnds == \A w \in Writers : (w \in DOMAIN work) ~> (w \notin DOMAIN work)
=============================================================================
