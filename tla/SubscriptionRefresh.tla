------------------------- MODULE SubscriptionRefresh -------------------------
(***************************************************************************)
(* Subscriptions: internal/topology/subscription_scheduler.go,             *)
(* subscription_cleanup.go, ephemeral_cleaner.go, internal/subscription/   *)
(* subscription.go, the handlers of internal/service/                      *)
(* control_plane_subscription.go and the references of pool.go.            *)
(*                                                                         *)
(* A refresh attempt reads its inputs one at a time, downloads and parses  *)
(* outside the subscription's opLock, then installs the result under it.   *)
(* PATCH, rename, cleanup, the ephemeral cleaner and DELETE run beside it. *)
(* A fetch configuration (source type, URL, user agent, content, interval) *)
(* is one member of Inputs.  A goroutine at work is a record of jobs:      *)
(*                                                                         *)
(*   begin     UpdateSubscription called, attempt not yet numbered         *)
(*   inputs    numbered, inputs still to be read                           *)
(*   version   inputs read, configuration version still to be read         *)
(*   fetch     download and parse under way                                *)
(*   failed    handleUpdateFailure waiting for the opLock                  *)
(*   fetched   parsed result waiting for the opLock                        *)
(*   rename, delete, cleanup, sweep   handler waiting for the opLock       *)
(*   confirm   cleanup between its two scans, lock held                    *)
(*   apply     lock held, references of add and drop still to change       *)
(***************************************************************************)
EXTENDS Naturals, FiniteSets, ConcurrentMap

CONSTANTS
    Subs, Nodes, Workers,
    Inputs,
    Offers,        \* configuration -> node sets a download of it may yield
    Incremental,   \* subscriptions with incremental_alive_nodes
    Ephemeral,     \* subscriptions with the ephemeral flag
    MaxAttempts,   \* bound per subscription: refreshes started by the scheduler
    MaxPatches,    \* bound per subscription: configuration changes
    NoInput

ASSUME RefreshAssumption ==
    /\ Offers \in [Inputs -> SUBSET (SUBSET Nodes)]
    /\ Incremental \subseteq Subs
    /\ Ephemeral \subseteq Subs
    /\ MaxAttempts \in [Subs -> Nat]
    /\ MaxPatches \in [Subs -> Nat]
    /\ NoInput \notin Inputs

VARIABLES
    registered,   \* SubscriptionManager
    input,        \* subscription -> its fetch configuration
    version,      \* subscription -> configVersion, 0 before it is created
    attempts,     \* subscription -> attemptSeq
    applied,      \* subscription -> lastAppliedSeq
    lastError,    \* subscription -> attempt whose failure LastError shows, or 0
    managed,      \* subscription -> map of listed nodes to their evicted flag
    source,       \* subscription -> attempt whose result is in managed
    refs,         \* node -> subscriptions that refer to its pool entry
    unhealthy,    \* pool nodes with an open circuit or a failed outbound
    jobs          \* goroutines at work

config == <<registered, input, version>>
progress == <<attempts, applied, lastError>>
content == <<managed, source>>
pool == <<refs, unhealthy>>
vars == <<config, progress, content, pool, jobs>>

Phases == {"begin", "inputs", "version", "fetch", "failed", "fetched", "rename",
           "delete", "cleanup", "sweep", "confirm", "apply"}

Job == [pc : Phases, sub : Subs, seq : Nat, ver : Nat,
        input : Inputs \cup {NoInput}, got : SUBSET Nodes,
        add : SUBSET Nodes, drop : SUBSET Nodes,
        fin : {"release", "applied", "unregister"}]

TypeOK ==
    /\ registered \in SUBSET Subs
    /\ input \in [Subs -> Inputs]
    /\ version \in [Subs -> Nat]
    /\ attempts \in [Subs -> Nat]
    /\ applied \in [Subs -> Nat]
    /\ lastError \in [Subs -> Nat]
    /\ \A s \in Subs : IsMap(managed[s], Nodes, BOOLEAN)
    /\ DOMAIN managed = Subs
    /\ source \in [Subs -> Nat]
    /\ refs \in [Nodes -> SUBSET Subs]
    /\ unhealthy \in SUBSET Nodes
    /\ IsMap(jobs, Workers, Job)

-----------------------------------------------------------------------------
Listed(s) == DOMAIN managed[s]
Evicted(s) == {n \in Listed(s) : managed[s][n]}
Held(s) == {n \in Nodes : s \in refs[n]}

InPool(n) == refs[n] # {}

\* shouldRemoveUnhealthyNodeForIncrementalMode, shouldCleanupSubscriptionNode
\* and shouldEvictEntry: circuit open (for the cleaner: long enough), or an
\* outbound that failed to build.
ShouldRemove(n) == InPool(n) /\ n \in unhealthy

\* WithOpLock.
Locked(s) == \E w \in DOMAIN jobs :
                jobs[w].sub = s /\ jobs[w].pc \in {"confirm", "apply"}

At(w, phase) == w \in DOMAIN jobs /\ jobs[w].pc = phase
Takes(w, phase) == At(w, phase) /\ ~Locked(jobs[w].sub)

NewJob(phase, s) == [pc |-> phase, sub |-> s, seq |-> 0, ver |-> 0,
                     input |-> NoInput, got |-> {}, add |-> {}, drop |-> {},
                     fin |-> "release"]

Start(w, phase, s) ==
    /\ w \notin DOMAIN jobs
    /\ jobs' = MapPut(jobs, w, NewJob(phase, s))
Become(w, job) == jobs' = [jobs EXCEPT ![w] = job]
Done(w) == jobs' = MapDelete(jobs, w)

\* bootstrapTopology with an empty cache.db: the subscriptions of state.db are
\* registered and list no node yet.
Init ==
    /\ registered \in SUBSET Subs
    /\ input \in [Subs -> Inputs]
    /\ version = [s \in Subs |-> IF s \in registered THEN 1 ELSE 0]
    /\ attempts = [s \in Subs |-> 0]
    /\ applied = [s \in Subs |-> 0]
    /\ lastError = [s \in Subs |-> 0]
    /\ managed = [s \in Subs |-> EmptyMap]
    /\ source = [s \in Subs |-> 0]
    /\ refs = [n \in Nodes |-> {}]
    /\ unhealthy = {}
    /\ jobs = EmptyMap

-----------------------------------------------------------------------------
\* CreateSubscription, once persisted: a new object is registered.
CreateSubscription(s, i) ==
    /\ version[s] = 0
    /\ registered' = registered \cup {s}
    /\ input' = [input EXCEPT ![s] = i]
    /\ version' = [version EXCEPT ![s] = 1]
    /\ UNCHANGED <<progress, content, pool, jobs>>

\* tick and ForceRefreshAll look at enabled subscriptions, RefreshSubscription
\* at any; each then calls UpdateSubscription.
StartRefresh(w, s) ==
    /\ s \in registered
    /\ attempts[s] < MaxAttempts[s]
    /\ Start(w, "begin", s)
    /\ UNCHANGED <<config, progress, content, pool>>

NextAttemptSeq(w) ==
    /\ At(w, "begin")
    /\ LET s == jobs[w].sub
       IN  /\ attempts' = [attempts EXCEPT ![s] = @ + 1]
           /\ Become(w, [jobs[w] EXCEPT !.pc = "inputs", !.seq = attempts[s] + 1])
    /\ UNCHANGED <<config, applied, lastError, content, pool>>

ReadInputs(w) ==
    /\ At(w, "inputs")
    /\ Become(w, [jobs[w] EXCEPT !.pc = "version", !.input = input[jobs[w].sub]])
    /\ UNCHANGED <<config, progress, content, pool>>

ReadVersion(w) ==
    /\ At(w, "version")
    /\ Become(w, [jobs[w] EXCEPT !.pc = "fetch", !.ver = version[jobs[w].sub]])
    /\ UNCHANGED <<config, progress, content, pool>>

FetchParse(w, got) ==
    /\ At(w, "fetch")
    /\ got \in Offers[jobs[w].input]
    /\ Become(w, [jobs[w] EXCEPT !.pc = "fetched", !.got = got])
    /\ UNCHANGED <<config, progress, content, pool>>

FetchFails(w) ==
    /\ At(w, "fetch")
    /\ Become(w, [jobs[w] EXCEPT !.pc = "failed"])
    /\ UNCHANGED <<config, progress, content, pool>>

\* Mutant: an attempt is only checked against the configuration.
CurrentIgnoresOrder(job) == version[job.sub] = job.ver

\* The two guards of an attempt: the configuration is the one it read, and no
\* later attempt has been applied.
Current(job) == version[job.sub] = job.ver /\ applied[job.sub] <= job.seq

Discard(w) ==
    /\ Takes(w, "failed") \/ Takes(w, "fetched")
    /\ ~Current(jobs[w])
    /\ Done(w)
    /\ UNCHANGED <<config, progress, content, pool>>

HandleUpdateFailure(w) ==
    /\ Takes(w, "failed")
    /\ Current(jobs[w])
    /\ lastError' = [lastError EXCEPT ![jobs[w].sub] = jobs[w].seq]
    /\ Done(w)
    /\ UNCHANGED <<config, attempts, applied, content, pool>>

\* Mutant: a refresh starts every node afresh.
MergeRevives(s, got) ==
    LET kept == IF s \in Incremental
                THEN {n \in Listed(s) : InPool(n) /\ ~ShouldRemove(n)}
                ELSE {}
    IN  [n \in got \cup kept |-> FALSE]

\* The new managed set: in incremental mode evicted nodes and those alive stay
\* listed; an evicted node that is listed again stays evicted.
Merge(s, got) ==
    LET kept == IF s \in Incremental
                THEN {n \in Listed(s) : n \in Evicted(s)
                                          \/ (InPool(n) /\ ~ShouldRemove(n))}
                ELSE {}
    IN  [n \in got \cup kept |-> n \in Evicted(s)]

\* DiffHashes and SwapManagedNodes.  Nodes added and kept are (re-)added to the
\* pool unless evicted; removed ones lose the reference.
ApplyRefresh(w) ==
    /\ Takes(w, "fetched")
    /\ Current(jobs[w])
    /\ LET s == jobs[w].sub
           next == Merge(s, jobs[w].got)
       IN  /\ managed' = [managed EXCEPT ![s] = next]
           /\ source' = [source EXCEPT ![s] = jobs[w].seq]
           /\ Become(w, [jobs[w] EXCEPT !.pc = "apply", !.fin = "applied",
                            !.add = {n \in DOMAIN next : ~next[n]},
                            !.drop = Listed(s) \ DOMAIN next])
    /\ UNCHANGED <<config, progress, pool>>

-----------------------------------------------------------------------------
\* AddNodeFromSub: a new entry starts circuit-open.
AddNodeFromSub(w, n) ==
    /\ At(w, "apply")
    /\ n \in jobs[w].add
    /\ refs' = [refs EXCEPT ![n] = @ \cup {jobs[w].sub}]
    /\ unhealthy' = IF InPool(n) THEN unhealthy ELSE unhealthy \cup {n}
    /\ Become(w, [jobs[w] EXCEPT !.add = @ \ {n}])
    /\ UNCHANGED <<config, progress, content>>

\* Mutant: removal deletes the entry whoever else refers to it.
RemoveForAll(w, n) ==
    /\ At(w, "apply")
    /\ jobs[w].add = {}
    /\ n \in jobs[w].drop
    /\ refs' = [refs EXCEPT ![n] = {}]
    /\ unhealthy' = unhealthy \ {n}
    /\ Become(w, [jobs[w] EXCEPT !.drop = @ \ {n}])
    /\ UNCHANGED <<config, progress, content>>

\* RemoveNodeFromSub: the entry goes with its last reference.
RemoveNodeFromSub(w, n) ==
    /\ At(w, "apply")
    /\ jobs[w].add = {}
    /\ n \in jobs[w].drop
    /\ refs' = [refs EXCEPT ![n] = @ \ {jobs[w].sub}]
    /\ unhealthy' = IF refs[n] \subseteq {jobs[w].sub}
                    THEN unhealthy \ {n} ELSE unhealthy
    /\ Become(w, [jobs[w] EXCEPT !.drop = @ \ {n}])
    /\ UNCHANGED <<config, progress, content>>

\* The locked section ends: MarkAppliedAttempt and SetLastError(""), or
\* Unregister.
Release(w) ==
    /\ At(w, "apply")
    /\ jobs[w].add = {} /\ jobs[w].drop = {}
    /\ LET s == jobs[w].sub
           fin == jobs[w].fin
       IN  /\ applied' = IF fin = "applied"
                         THEN [applied EXCEPT ![s] = jobs[w].seq] ELSE applied
           /\ lastError' = IF fin = "applied"
                           THEN [lastError EXCEPT ![s] = 0] ELSE lastError
           /\ registered' = IF fin = "unregister"
                            THEN registered \ {s} ELSE registered
    /\ Done(w)
    /\ UNCHANGED <<input, version, attempts, content, pool>>

-----------------------------------------------------------------------------
\* PATCH of the fetch configuration: SetFetchConfig and SetContent bump the
\* version, and a refresh is started in a goroutine of its own.  The user agent
\* is no input: it bumps nothing, and a download may yield any of Offers with it.
PatchInput(w, s, i) ==
    /\ s \in registered
    /\ version[s] <= MaxPatches[s]
    /\ i # input[s]
    /\ input' = [input EXCEPT ![s] = i]
    /\ version' = [version EXCEPT ![s] = @ + 1]
    /\ Start(w, "begin", s)
    /\ UNCHANGED <<registered, progress, content, pool>>

\* The handlers that look the subscription up, then wait for its opLock.
StartHandler(w, s, phase) ==
    /\ s \in registered
    /\ phase \in {"rename", "delete", "cleanup"}
    /\ Start(w, phase, s)
    /\ UNCHANGED <<config, progress, content, pool>>

\* The ephemeral cleaner, for one of its subscriptions.
StartSweep(w, s) ==
    /\ s \in registered \cap Ephemeral
    /\ Start(w, "sweep", s)
    /\ UNCHANGED <<config, progress, content, pool>>

\* RenameSubscription re-adds what is listed and still in the pool.
RenameSubscription(w) ==
    /\ Takes(w, "rename")
    /\ LET s == jobs[w].sub
       IN  Become(w, [jobs[w] EXCEPT !.pc = "apply",
                        !.add = {n \in Listed(s) \ Evicted(s) : InPool(n)}])
    /\ UNCHANGED <<config, progress, content, pool>>

\* DELETE: looked up again under the lock.  When the row cannot be deleted
\* nothing changes.
DeleteSubscription(w) ==
    /\ Takes(w, "delete")
    /\ LET s == jobs[w].sub
       IN  IF s \in registered
           THEN \/ Become(w, [jobs[w] EXCEPT !.pc = "apply", !.fin = "unregister",
                                 !.drop = Listed(s)])
                \/ Done(w)
           ELSE Done(w)
    /\ UNCHANGED <<config, progress, content, pool>>

\* CleanupSubscriptionNodesWithConfirmNoLock, first scan; only the operator's
\* cleanup looks the subscription up again.
CleanupScan(w) ==
    /\ Takes(w, "cleanup") \/ Takes(w, "sweep")
    /\ LET s == jobs[w].sub
           candidates == {n \in Listed(s) \ Evicted(s) : ShouldRemove(n)}
       IN  IF candidates = {} \/ (jobs[w].pc = "cleanup" /\ s \notin registered)
           THEN Done(w)
           ELSE Become(w, [jobs[w] EXCEPT !.pc = "confirm", !.got = candidates])
    /\ UNCHANGED <<config, progress, content, pool>>

\* Second scan: what is still to be removed is marked evicted, then leaves the
\* pool.
CleanupConfirm(w) ==
    /\ At(w, "confirm")
    /\ LET s == jobs[w].sub
           confirmed == {n \in jobs[w].got : ShouldRemove(n)}
       IN  /\ managed' = [managed EXCEPT ![s] =
                            [n \in DOMAIN @ |-> @[n] \/ n \in confirmed]]
           /\ Become(w, [jobs[w] EXCEPT !.pc = "apply", !.drop = confirmed])
    /\ UNCHANGED <<config, progress, source, pool>>

\* Probes and requests open and close a node's circuit.
HealthChange(n) ==
    /\ InPool(n)
    /\ unhealthy' = IF n \in unhealthy THEN unhealthy \ {n} ELSE unhealthy \cup {n}
    /\ UNCHANGED <<config, progress, content, refs, jobs>>

-----------------------------------------------------------------------------
Continues(w) ==
    \/ NextAttemptSeq(w)
    \/ ReadInputs(w)
    \/ ReadVersion(w)
    \/ \E got \in SUBSET Nodes : FetchParse(w, got)
    \/ FetchFails(w)
    \/ Discard(w)
    \/ HandleUpdateFailure(w)
    \/ ApplyRefresh(w)
    \/ \E n \in Nodes : AddNodeFromSub(w, n) \/ RemoveNodeFromSub(w, n)
    \/ Release(w)
    \/ RenameSubscription(w)
    \/ DeleteSubscription(w)
    \/ CleanupScan(w)
    \/ CleanupConfirm(w)

Begins(w, s) ==
    \/ StartRefresh(w, s)
    \/ \E i \in Inputs : PatchInput(w, s, i)
    \/ \E phase \in Phases : StartHandler(w, s, phase)
    \/ StartSweep(w, s)

Next ==
    \/ \E w \in Workers : Continues(w) \/ \E s \in Subs : Begins(w, s)
    \/ \E s \in Subs, i \in Inputs : CreateSubscription(s, i)
    \/ \E n \in Nodes : HealthChange(n)

Spec == Init /\ [][Next]_vars

-----------------------------------------------------------------------------
\* Outside the locked sections the pool holds exactly the references the
\* managed set of a registered subscription calls for: no refresh, cleanup,
\* rename or deletion of it, or of a subscription that shares a node, loses or
\* leaks one.
RefsMatchManaged ==
    \A s \in registered : ~Locked(s) => Held(s) = Listed(s) \ Evicted(s)

\* The error shown is never that of an attempt older than what is installed.
NoStaleError == \A s \in Subs : lastError[s] # 0 => lastError[s] > applied[s]

\* A deleted subscription leaves no reference behind once its locked sections
\* have ended.
DeletedIsGone ==
    \A s \in Subs \ registered : version[s] > 0 /\ ~Locked(s) => Held(s) = {}

\* Refreshes, cleanups and sweeps in any interleaving keep what a subscription
\* promises: forward only, evictions final while listed.
Promise == INSTANCE SubscriptionContent WITH
    listed <- [s \in Subs |-> Listed(s)],
    evicted <- [s \in Subs |-> Evicted(s)]

ForwardOnly == Promise!Spec
=============================================================================
