# Resin in TLA+

TLA+ models of the concurrent core of Resin, the sticky proxy gateway in `src/`, with TLC
instances that check them and TLAPS proofs of their main results. Paths below are relative to
`src/`.

## 1. The system

Resin routes proxy requests through a pool of upstream nodes. A *platform* sees the nodes that
pass its filters (its *routable view*); an *account* of a platform is bound to one egress IP by
a *lease*. Subscriptions bring nodes in, probes decide which are healthy, and most state lives
in memory and reaches `cache.db` through dirty sets.

| component | state | operations | talks to |
|---|---|---|---|
| sticky router `internal/routing/router.go`, `lease.go` | account -> lease, IP -> load counter | `RouteRequest`, `UpsertLease`, `DeleteLease`, `RestoreLeases` | reads pool and view; emits lease events to the dirty sets |
| per-IP account window `ip_window.go` | IP -> account -> last seen | `ReserveIfEligible`, `RefreshOnHit`, `ReserveForcedFallback`, `Touch`, `Prune` | called by router and cleaner under its own mutex |
| lease cleaner `lease_cleaner.go` | one sweep | `sweep` | lease table, window, load counters |
| dirty sets and flush worker `internal/state` | table -> key -> upsert/delete | mark, `Drain`, `Merge`, `FlushDirtySets` | reads every in-memory table; writes `cache.db` |
| node pool `internal/topology/pool.go` | hash -> `NodeEntry` | `AddNodeFromSub`, `RemoveNodeFromSub`, `RecordResult`, `RecordLatency`, `UpdateNodeEgressIP` | notifies platforms; callbacks in `cmd/resin` |
| platform `internal/platform/platform.go` | routable view | `FullRebuild`, `NotifyDirty` | reads pool and subscriptions under `viewMu` |
| subscription scheduler, ephemeral cleaner | managed nodes, enabled flag, attempt counters | `UpdateSubscription`, `SetSubscriptionEnabled`, eviction | pool, under a per-subscription `opLock` |
| outbound manager `internal/outbound` | the outbound of an entry | `EnsureNodeOutbound`, removal | pool callbacks |
| probe manager `internal/probe` | task states, two queues, attempt stamps | scans, triggers, workers, egress and latency probes | reports to the pool |
| latency table `internal/node/latency.go` | domain -> latency, authorities and a bounded rest | `Update`, reads that touch, eviction | pool; rows of `cache.db` |
| consistency repair, bootstrap | rows of both databases | `RepairConsistency`, bootstrap | fills pool, subscriptions, leases at start |
| control plane `internal/service` | platforms, endpoints, rules, runtime configuration: a row and an object in memory each | create, patch, replace, delete, reset | `state.db`, then the pool, the matcher, the listeners |
| inbound server `cmd/resin/inbound_demux.go`, `inbound_mux.go`, `endpoint_runtime.go` | connections, one listener per endpoint | accept, sniff, dispatch, shutdown | HTTP and SOCKS5 handlers |
| proxy data path `internal/proxy` | one request: two connections, lifecycle, counters | forward, CONNECT, SOCKS5, reverse | router, pool health, metrics, request log |
| request log `internal/requestlog` | queue, batch, database files | emit, flush, rotate, query | requests, API |
| metrics `internal/metrics` | lock-free counters, current bucket, tasks | record, aggregate, cut, persist | requests, API, `metrics.db` |
| GeoIP `internal/geoip` | reader, database file | lookup, update, stop | views (regions), downloads |

What is hard here: a lease is decided in one `Compute` of its account while everything it
consults (window, counters, view, egress IPs) changes underneath; sweeps, flushes and rebuilds
work from reads that are stale when used; a mark or a notification is a separate step from the
change it announces; probes report late; the process may die between a change and its flush.

What makes each part correct: the router's counters are exact and its quota ceiling holds; a
sweep never harms a live lease, and every expired one goes; no change is lost between memory
and disk; a view settles on exactly the nodes that satisfy its conditions; a refresh never rolls
a subscription back; an outbound is closed exactly once; a probe state is run once at a time and never
silenced; a table or queue stays within its bound; a row and what it stands for in memory agree
when nothing is under way; every handler gives back what it holds and says the same to health and
to the log; a shutdown leaves nothing behind and returns.

`PROJECT.json` lists every component with its status, and every hazard with its line.

## 2. Modules

| module | models |
|---|---|
| `ConcurrentMap` | the part of `xsync.Map` that the code uses: partial functions with put, delete, keep |
| `IPAccountWindow` | the per-IP window as operators, one per critical section |
| `StickyRouter` | the router of one platform, the lease cleaner, the control plane's lease operations |
| `DirtyFlush` | dirty sets, flush worker, failed transactions, crashes |
| `RoutableViews` | pool entries, notifications and rebuilds, replacement of a platform |
| `SubscriptionContent` | abstract: what a subscription promises about the nodes it lists |
| `SubscriptionRefresh` | refreshes, patches, cleanup, rename, deletion; implements `SubscriptionContent` |
| `OutboundLifecycle` | the outbounds and the pooled transport of one node hash |
| `ProbeQueue`, `ProbeSchedule` | the lock-free probe queue; which probes are due, and what they leave |
| `LatencyTable` | a node's latency table and its rows |
| `ProxyRequest` | one request of each kind, from authentication to its reports |
| `CountingConn` | the traffic counters of one upstream connection |
| `InboundDemux` | a listener's server through its shutdown |
| `InboundIdentity` | from credentials and paths to the (platform, account) that is routed |
| `EndpointRuntime` | custom endpoints: row and listener |
| `PlatformAdmin` | platforms: row and pool index |
| `ControlSettings` | account rules with the matcher trie; the runtime configuration |
| `CacheRecovery` | repair of `cache.db` and the bootstrap, crash at any step |
| `RequestLog`, `MetricsBuckets` | the log's writer and readers; request counts on their way to rows |
| `GeoIP` | lookups, updates with their downloads, stop |
| `*Proofs` | lemmas and theorems |
| `MC*` and their `.cfg` files | instances for TLC |

Definitions whose comment begins with *Mutant* are altered copies of the definition that
follows; no specification uses them. They are there to show that each property can fail.

### StickyRouter

`leases`, `loads` and `window` are `LeaseTable.leases`, `IPLoadStats.counts` and
`IPAccountWindow.entries`. A request in flight is a record of `reqs`; its `pc` says how far
`routeSticky` got, and from `Decide` to its end it holds its account (`Locked`), as `Compute`
does. A step is what the code does without another goroutine being able to interfere: one
critical section of the window, one read of a node's egress IP, one change of a counter.

| action | code |
|---|---|
| `RouteRequest` | reads the clock, enters `routeSticky` |
| `Decide` | `decideStickyLease`: expired, on its node, or to be rotated |
| `TryLeaseHit`, `TryLeaseSameIPRotation` | admission by `RefreshOnHit`, then the lease is touched or moved |
| `PickRandomRoute` | one turn of the loop of `selectRouteForLease` |
| `FallbackChoose`, `FallbackReserve` | the two halves of `fallbackQuotaRoute` |
| `RetirePreviousLease`, `StoreLease` | `cleanupPreviousLease`, `createLease`, `Inc`, end of `Compute` |
| `AbortLeaseCreate` | the error path of `createOrAbortStickyLease` |
| `InheritRead`, `UpsertLease`, `UpsertTouch` | `InheritLeaseByPlatformName` |
| `DeleteLease` | `DeleteLease`, a turn of `DeleteAllLeases` |
| `SweepStart`, `SweepVisit`, `SweepCompute`, `SweepEnd` | `LeaseCleaner.sweep` |
| `RestoreLeases` | clean stop, repair of `cache.db`, start-up |
| `NodeRemoved`, `ViewAdd`, `ViewRemove`, `EgressChange` | what the topology may do meanwhile |

Which of several candidates has the best latency or score is not tracked: the choice is
nondeterministic, which includes what the code picks. Time is a counter; `RouteRequest` and
`SweepStart` keep the value they read. `EgressRace = FALSE` keeps egress IPs fixed *while some
lease decision is under way*, to separate what holds in general from what a probe in that
window breaks.

### DirtyFlush

Objects of one table, reduced to the number of their last write. The two orders of change and
mark found in the code are two kinds of writers: `MarkFirst` marks inside `Compute` before the
value is visible (router, cleaner), `MarkLast` publishes first and marks after the lock is
released (control plane, pool). `Drain`, `Classify` per key, and `FlushTx` or `FlushFails` are
the phases of `FlushDirtySets`; writers run between them. `WritesTo` says which keys a writer
writes, and with them which table a key stands for: a key with one publish-then-mark writer is a
node that one subscription holds (its writers hold the `opLock`), one with mark-first writers only
is a lease that no operator touches. `Crash` replaces memory by the rows.

### RoutableViews

One platform (its successive objects, since `UpdatePlatform` replaces the object), one
subscription, a few nodes. A goroutine at work is a record of `work` whose `pc` names the half
of an operation still to come. `evaluateNode` is translated condition by condition; the tag and
region filters are reduced to the egress IPs an object accepts (`Accepts`). Probes carry their
node across a wait (`BeginProbe` ... `Record*`), so that they can report on an entry that has
been replaced. `Restored` nodes are in the pool at start-up with any persisted state, as
`bootstrapNodes` leaves them; their outbounds were built anew, which may have failed for `Flaky`
nodes and always fails for `Unbuildable` ones. Under `SerialSpec`
goroutines run one at a time once `UpdatePlatform` has run; `Spec` lets them overlap.

### SubscriptionRefresh and SubscriptionContent

A goroutine at work is a record of `jobs`. A refresh takes its attempt number, reads its
inputs and then the configuration version in separate steps, downloads outside the lock
and then installs the result, or its error, under the `opLock` in one action; the action holds
the two staleness checks, the merge with what is listed, the references added and dropped, and
the row. PATCH, rename, cleanup with its second scan, the ephemeral sweep and DELETE run beside
it, and nodes shared by subscriptions count their references. What a download yields is any set
that `Offers` gives the configuration; the user agent, whose change bumps no version, is not an
input but part of that choice. URL, source type and content are read in one step, where the code
reads them one by one before the version. `Promise` maps a subscription to the attempt it shows,
its listed and its evicted nodes; `ForwardOnly` is the specification `SubscriptionContent` under
that mapping: an installation only ever moves forward and keeps evictions, an eviction is final
while the node is listed.

### The services of a node

*OutboundLifecycle*: `EnsureNode`, `EnsureCheck`, `BuildOutbound`, `VerifyLive`, `CasOutbound`,
`RecheckLive`, `UndoInstall`, `DiscardOutbound` are the steps of `EnsureNodeOutbound`, which runs
in any number of goroutines, against `EntryAdded` and `EntryRemoved` of the pool;
`RemoveNodeOutbound` and `EvictTransport` are what `onNodeRemoved` does; `ResolveRoutedOutbound`
and `GetTransport` are a request on its way to a pooled transport.

*ProbeQueue*: one compare-and-swap loop is one step, everything between two of them may be
interrupted; a state object may be deleted from the table while somebody holds it. *ProbeSchedule*
keeps the ages of the last attempts and decides which node is due; time is counted in units of
the scan's 15 s lookahead, so the least interval of 30 s is 2.

*LatencyTable*: the authorities and the bounded rest, each access a new tick of the clock; the
averaged value is left out. A sample is two steps (the table, then the mark of the row), and the
restore is what the bootstrap does with the rows.

*CountingConn* and *MetricsBuckets* are at the grain of single atomic operations: adds, swaps and
reads of the counters interleave freely with timers, Close, the bucket ticker and Stop.

### The request path

*InboundIdentity* has real strings, short ones: the credentials of the three inbounds are put
together by a client from token, platform and account, and split by the code. An endpoint's demand
for user and password counts only where no token is configured: with the right token an empty user
name is served, under no platform and no account. *InboundDemux*
follows a connection from accept over the sniffed byte to the SOCKS5 handler or, through the
in-memory listener, to the HTTP server, which is external. *ProxyRequest* is one handler with its
deferred calls; a tunnel has two copy goroutines, and remotes that finish or reset.

### The control plane

*EndpointRuntime*, *PlatformAdmin* and *ControlSettings* separate the statement that writes the
row from the step that changes memory, because only the endpoints and the runtime configuration
hold a lock across both. A restart rebuilds memory from the rows. A
patch of the configuration gives some of its fields and changes them in a copy of the one in use
(`WithFields`); it may be refused, fail to be saved, or be lost in a crash. `patched` is a history
variable: the saved patches, applied in the order of their saves. *CacheRecovery* starts from any
combination of rows and runs the five deletes of the repair, then each step of the bootstrap, with
a crash possible between any two. *GeoIP* has the three callers of `UpdateNow`, the lookups and
`Stop`. *RequestLog* has the writer's select loop as phases and a query as barrier, list of files
and one read per file.

## 3. Runs

| run | result | question |
|---|---|---|
| `sticky_quota` | holds | exact load counters, ceiling of max+1 accounts per IP, and active accounts hold a slot, with two requests and three accounts competing for two IPs, a topology change and restarts |
| `sticky_leases` | holds | harmless sweeps when requests, inheritance, deletion, cleaner, restarts and topology changes mix, egress changes included |
| `sticky_live` | holds | requests end; expired leases are released or replaced |
| `views` | holds | the view settles on exactly the routable nodes with two goroutines, two nodes and a replacement of the platform; nobody waits for ever for `viewMu` or the `opLock` |
| `background` | holds | what must get to an end: the flush, one request of each kind, the inbound server, the request log |
| `services` | holds | probe queue, probe schedule, outbounds, latency table, traffic counters, metrics |
| `control` | holds | subscriptions, endpoints, platforms, settings, recovery, GeoIP, identity |
| `sticky_race` | violated | the slot invariant when an egress IP changes inside a decision |
| `flush_hotpath` | violated | no forgotten change, mark inside `Compute` |
| `views_replace` | violated | the view after a platform is replaced while a node changes |
| `refresh_deleted` | violated | a deleted subscription holds no nodes |
| `transport_evicted` | violated | a pooled transport dials with an open outbound |

`MCBackground`, `MCNodeServices` and `MCControlPlane` are sums: they extend several modules that
share no variable, and a variable chosen at the start (`part`, `service`, `area`) says which of
them runs; the others stay in one initial state. Since the parts share nothing, the behaviours of
the sum are exactly those of its parts, one after the other, at the cost of their state spaces
added and not multiplied. Fairness is stated for the part that runs. Parts that do interact are
modelled in one module: `RoutableViews` is the composition of pool, platform, subscription, probe
and outbound; `StickyRouter` of router, window, cleaner and control plane.

What the invariants of the three sums say:

| property | says |
|---|---|
| `SerialNotForgotten`, `NoGhostRow`, `EventuallyPersisted` | a row differs from memory only while a mark or a flush will mend it; a removed lease keeps no row; the rows catch up through failures and a crash |
| `NothingHeldAtEnd`, `VerdictMatchesLog`, `TunnelEnds` | every return of a handler closes what it holds, emits its events once, leaves no handshake deadline; health and log agree; a tunnel ends when one side does |
| `NothingSurvivesShutdown`, `ShutdownEnds` | when `Shutdown` has returned no worker runs and nothing but an accepted connection that will be refused is open; and it returns |
| `QuerySeesAccepted`, `QueryReturns` | a query sees every entry accepted before its barrier and still in a retained file, and waits for nothing else |
| `OneRunPerState`, `NoStuckKey` | one state object of a probe is run once at a time (a key whose state was deleted and made anew may have two); a key marked queued has a token that will run it |
| `ProbeSettles` | after a probe its node is not due again at once, whatever the outcome and the accepted configuration |
| `ClosedOnce`, `NoLeakedOutbound` | an outbound is closed at most once, never while installed, and none is forgotten |
| `RegularBounded`, `RowsFollowTable` | the regular part stays within its bound through changes of the authorities; rows are what the table holds, up to marks |
| `TrafficNotLost` | a unit of traffic is reported once, or is pending where something will report it |
| `PlatformCountsOnce` | a request is counted once for its platform, through failed writes, cuts and Stop |
| `RefsMatchManaged`, `NoStaleError`, `ForwardOnly` | a node's references are the subscriptions that hold it; an older attempt neither shows its error nor its result over a newer one |
| `ListenerFollowsRow` | between operations a listener serves what its row says, or shows an error |
| `NameIndexSound`, `SerialOpsAgree` | a name leads to the platform registered under its id, which has that name; rows and pool agree when operations did not overlap |
| `MatchesLongestRule`, `ConfigFollowsRow` | the trie finds the longest rule that is a prefix of the request, else the fallback; the stored configuration is what the saved patches make of it one after the other, so none loses a field of another, the one in use is the stored one when nobody holds the lock, and the test URL's domain is always an authority |
| `RepairKeepsExactlyTheLiving`, `BootedMemorySound` | the repair deletes the orphans and nothing else; memory has no reference to what is missing |
| `ReadersSound` | neither a lookup nor the manager holds a closed reader, and after Stop none is left open |
| `RoutedAsMeant` | a served request presented the configured token, or without one names a user where the endpoint demands it, and is routed under the platform and account it was made from |

The violated runs state what a comment or the design document says; each is a finding of
`PROJECT.json` with the quotation and the code line.

1. **Two reads of one egress IP** (`router.go:353`, `:395`). The slot is reserved on the first,
   the lease records the second.
2. **Mark before publication** (`router.go:242`). A flush in between takes a new lease for a
   deleted one and its row is missing until the lease changes again; a crash loses it.
3. **View built before registration** (`pool.go:223`). A notification in between reaches only
   the object that is about to be dropped.
4. **Refresh after deletion** (`subscription_scheduler.go:248`). A refresh in flight looks only at
   configuration version and attempt number; the nodes of a deleted subscription come back.
5. **Transport after eviction** (`transport.go:70`). A request that resolved its outbound before
   the node's removal pools a transport that dials with the closed outbound.

Seven more disagreements have no run of their own. The models contain them, and the formulas
named here, which TLC refutes, are kept with the model they are about: the mark of an older deletion
overtakes that of a newer creation (`router.go:815`, `NothingForgotten` with two publish-then-mark
writers); a node that becomes complete by its outbound alone is never announced (`main.go:313`,
`NoMissingMember` with `Flaky` nodes); the global request count may be one too high
(`collector.go:93`, `GlobalCountsOnce`); overlapping operations leave rows and pool, or rules and
matcher, different until the next restart (`PoolFollowsRows`, `MatcherFollowsRows`); a client's
reset met by a write counts against the node (`tunnel.go:240`, `ClientResetForgiven`); the bytes
of an aborted reverse response are not logged (`reverse.go:413`, `TrafficLogged`); inheritance may
exceed the quota's ceiling, which the code states as policy (`router.go:675`).

### Bounds, and why they are enough

*StickyRouter.* The quota races need two accounts competing for a last slot while a third holds
the first, and two requests; with max 1 the ceiling is 2, and three accounts can exceed it. One
topology change is enough to take the node from under a decision. With a time to live and a
window of 1, `MaxTime = 1` ages entries out of the window (`sticky_quota`), and `MaxTime = 2` lets
a lease expire strictly (`expiry < now`) and be swept or replaced (`sticky_leases`, `sticky_live`). The number
of picks only repeats one step: 1 or 2 in place of 8 and 2. In `sticky_leases` the quota is off
and the sweep is on, to keep the state space in reach; the counters do not depend on the quota.
Accounts, nodes, IPs and requests are interchangeable, so safety runs use their permutations as
symmetry; liveness runs use none.

*RoutableViews.* Two goroutines are the smallest race; two nodes let a rebuild be interrupted
between nodes; one of them is restored and one never gets its outbound; a threshold of 1 makes
every failure open the circuit.

*background.* Two keys show that marks do not mix; four writes allow create, delete, create
around a flush and one more; two failures allow a merge onto a merge. A request is alone. Two
connections and a queue of one let the HTTP queue be full. Two entries that may be emitted again,
a queue and a batch of two, one row per file, three file names and one kept file make the log
rotate and prune while a query reads.

*services.* One key with two state objects, a low and a high priority producer, two workers and
queues of one: the full queue, the deleted state and the two tokens of one key all happen. Two
entries of one hash and three goroutines: a build that outlives its entry and one that loses the
race. Three domains for two slots, with an authority that comes and goes. Two transfers per
direction at a threshold of two: the deferred flush and the direct one. Two requests, one bucket
boundary.

*control.* One node shared by two subscriptions, of which the first is patched, renamed, cleaned
and deleted while two goroutines refresh it; two endpoints, two ports; three platforms, of which
one is the default, three operations by two handlers; three rule paths of lengths 0, 1 and 2 in
two spellings, two settings operations by two handlers; two boots over any rows of two
subscriptions, two nodes and one lease, except that the second subscription never lists the second
node; three GeoIP readers; accounts of up to two characters over a letter and both delimiters.

Deadlock is checked for the router and the views, where new work may always begin. The bounded
parts of the sums, and one request, do end, so their runs switch the check off.

### Fairness

Goroutines are scheduled by Go: weak fairness of the steps of a request, a writer, a worker, a
copy loop. Waiting for an account's `Compute` or for `viewMu` is waiting for a `sync.Mutex`, whose
starvation mode hands it to the waiter in the end: strong fairness of `Decide`, `NotifyDirty`
and `RebuildClear`. The log's loop selects among ready channels at random, so a barrier that is
offered again and again is taken: strong fairness of `TakeWaiter`. The cleaner and the flush
worker run on a ticker until shutdown: weak fairness. A deadline passes (`DeadlinePasses`).
`TunnelEnds` takes one thing from outside: a remote that was told of the end, by FIN or RST, ends
too (`PeerFollows`). Nothing is assumed of probes, of the topology, of operators or of new
requests. The clock stops at `MaxTime`, so `ExpiredLeaseReleased` says: once time has passed the
expiry, the lease goes, without help from further requests.

## 4. Proofs

Every invariant and every action property that a passing run checks is also proved, for all
values of the constants. What the runs check beyond that is liveness, and the findings.

| module | theorems |
|---|---|
| `StickyRouterProofs` | `TypeCorrect`, `LoadCorrect`, `SweepCorrect`, `SlotCorrect`, `CeilingCorrect` |
| `DirtyFlushProofs` | `FlushTypeCorrect`, `SerialCorrect`, `GhostCorrect` |
| `NodePoolProofs` | `OutboundsClosedOnce`, `OutboundsNotLeaked`, `StaleCorrect`, `MissingCorrect` |
| `SubscriptionRefreshProofs` | `RefsCorrect`, `ErrorsCorrect`, `ContentRefines` |
| `NodeServicesProofs` | `RunsCorrect`, `KeysCorrect`, `PartitionCorrect`, `LatencyRowsCorrect`, `FlushCorrect`, `TrafficCorrect`, `MetricsCorrect`, `SettlesCorrect` |
| `RequestProofs` | `HandlersCorrect`, `VerdictsCorrect`, `ShutdownCorrect`, `BarrierCorrect`, `RoutingCorrect` |
| `ControlPlaneProofs` | `ReadersCorrect`, `NamesCorrect`, `SerialCorrect`, `EndpointsCorrect`, `ConfigCorrect`, `MatcherCorrect`, `RepairCorrect`, `BootCorrect` |
| `ConcurrentMapProofs` | lemmas on put, delete and keep, cited by all of them |

Each proof has the same frame: an invariant that the initial states satisfy and that one lemma
per action shows to be kept, then the property from the invariant. What follows says which
invariant, and why the property alone is not inductive.

### The router

For all sets of accounts (finite), nodes, IPs and goroutines, all limits, with the quota on or off:

* `TypeCorrect`. `TypeOK` is not inductive: `StoreLease` puts the request's node and IP into the
  table, and they are a real node and a real IP only because of the phase the request is in.
  `ControlInv` adds `RouteChosen` (a request that has chosen carries its node and, from `forced`
  or `retired` on, its IP) and `OneDecision` (no two requests decide the same account).
* `LoadCorrect` (`LoadStatsExact`). A replacement is two changes of the counters with others in
  between, so the counted set excludes the lease being replaced (`Retired`). `OneDecision` is
  what makes the exclusion exact: two requests retiring the same lease would uncount it twice.
  Lemmas `UncountedExact`, `AddedExact`, `DroppedExact` do the counting on cardinalities.
* `SweepCorrect` (`SweepSparesLiveLeases`, an action property). The sweep's clock value never
  exceeds the clock (`SweepClock`), so a lease expired for the sweep has expired.
* `SlotCorrect` (`ActiveAccountHasSlot`), under `~EgressRace`. `SlotInv` follows the slot through a
  decision: `Knows` says of every phase which IP and which time the request has recorded, so that
  the lease stored at the end finds its entry, and `ClockInv` that no recorded time is in the
  future, so that pruning the window never takes a live entry. An inheritance stores its lease
  first and records it after (`WillTouch`).
* `CeilingCorrect` (`QuotaCeiling`), under `~EgressRace` and `Admins = {}`. `CeilingInv` is `SlotInv`
  and the ceiling: an admission looks at the pruned window in the critical section in which it
  records, and a restart seeds the window from leases that had their slot. The two hypotheses are
  the two ways in which the code exceeds the ceiling: the run `sticky_race` shows the first,
  inheritance is the second.

### The flush

For all keys, writers, assignments of keys to writers and bounds, all three theorems follow from
`Inv` (`FlushInvariant`). That a row differs only while something is pending says nothing about
*what* is pending: a commit would have to be known to write the right value. `Settled` says so for
a serial key nobody is writing: a delete mark, in the dirty set or drained, means that the object
is gone, and a value already read for the row is the object's value. For a lease, `Removing` follows
a removal from its mark inside `Compute` to its store: the newest mark says delete, in the dirty
set, among the drained marks or by its absence from the rows; no other mark can come in between
because the writer holds the key. `WriterShape` and `FlushShape` tie the phases to the kinds of
writers and to an empty worker.

### The node pool

*Outbounds*, for all entries, outbounds and goroutines. `ClosedOnce` says nothing of the outbound a
call has built and not yet installed, which may be the next to be closed. `OwnedInv` does: it is
open, in no slot, and no other call has it. `SlotInv` says the same of an installed one. With these,
closing takes an outbound from its only holder (`CloseOne`), and `NoLeakedOutbound` is inductive: the
step that takes the entry out of the pool is also the step that begins the call which will clear its
slot, and an installation leaves a call that looks again.

*Views*, for all nodes, IPs, filters, platform objects and goroutines, under `SerialSpec`.
`ViewsInv` says of every node that the registered view agrees with its conditions or that somebody
under way covers it, and of every goroutine (`JobInv`) which view it works on, that a rebuild has
cleared what it has still to visit, and that a replacement's view is right where its rebuild has been. `NodeChange` is the common case: a step that changes one entry
leaves its own goroutine as the one that covers it. `MissingCorrect` assumes `Flaky = {}`, since the
late build of an outbound is the one change nobody announces (`main.go:313`).

### Subscriptions

For any subscriptions, shared nodes, configurations and goroutines. `Inv` consists of `LockInv` (one
holder of an `opLock`), `JobInv`, `SeqInv` (attempts under way have numbers of their own), `InstallInv`
(what is listed comes from the attempt applied last or from the one being installed, which is not
older), `RefsInv` (the references are those of the live nodes up to what the holder of the lock has
still to add and drop) and `UnbornInv`. `ContentRefines` is the refinement
`Spec => ForwardOnly`: under the mapping `Promise` the initial states are initial states of
`SubscriptionContent`, and every step is one of its steps or leaves what it promises unchanged.

### The services of a node

* `RunsCorrect`, `KeysCorrect`: `QueueInv`. An object is the object of one key also for those who hold
  it after it left the table (`KeysAgree`), which is what makes a reused object harmless; a queued mark
  has somebody who cares for it (`QueuedCared`): a token, a push on its way, a mark about to be cleared.
* `PartitionCorrect`, `LatencyRowsCorrect`: `LatencyInv` adds only that both tables stay finite.
* `FlushCorrect`, `TrafficCorrect`: `ConnInv` (an armed flush has its timer) and `CountInv`. The sum
  over all actors of what they have swapped out and not yet reported is the cardinality of a set of
  numbered units, so that a change of one actor's share is a union or a difference (`UnitsChange`).
* `MetricsCorrect` (`PlatformCountsOnce`): `BucketsInv`. What an aggregation has read lies between
  the baseline and the counters (`ReadingsInOrder`), tasks are for different times (`TasksApart`) and
  until Stop older than the current bucket, whose start therefore has no row (`CurrentApart`); the first
  task, once written, has exactly its own counts in the rows (`FirstWritten`). Then a cut moves a
  bucket's requests and the end of a task moves them to the rows, and nothing else does.
* `SettlesCorrect` (`ProbeSettles`, an action property): the configuration in use is a valid one that lists the domain
  it tests.

### The request path

* `HandlersCorrect`, `VerdictsCorrect`: `RequestInv` says for every stage what is open, what was emitted,
  which deadline may be set and which verdicts were given.
* `ShutdownCorrect`: `DemuxInv` ties each place a connection can be in to the tables and queues that
  Shutdown goes through, and each step of Shutdown to the places it has emptied.
* `BarrierCorrect`: `LogInv` follows what a query is due (the entries accepted before it) through queue,
  batch and files: after the length of the queue was taken, what is due is within that length
  (`DueDrained`).
* `RoutingCorrect`: no invariant over time but lemmas on texts: splitting at the first or last delimiter
  gives back the two texts that were joined, wherever the account has delimiters of its own.

### The control plane

* `ReadersCorrect`: `GeoInv`, one updater at a time, an open reader is published or in its updater's
  hands, and a lookup uses the published one.
* `NamesCorrect`, `SerialCorrect`: `AdminInv`. `NameIndexSound` is kept by each pool operation by itself;
  `SerialInv` says what a single operation has still to do (`Behind`) as long as none have overlapped.
* `EndpointsCorrect`: `EndpointInv`, for each phase of an operation what the listener still follows: the
  row, or the row as it was before (`FollowsInv`).
* `ConfigCorrect`: `SettingsInv`: under the mutex row and memory are apart only between the save and the
  swap, so what a patch copies is what the patches before it made (`PatchInv`).
* `MatcherCorrect` (`MatchesLongestRule`): `RulesInv` says that the fallback row is always there, also in what a handler is
  about to swap in. What the walk down the trie computes is a recursive function of the path; its
  closed form (`Walked`: where the walk is after i segments and the longest rule it has passed) is shown
  to satisfy the function's equation, and two solutions are equal by a least position at which they differ.
* `RepairCorrect`, `BootCorrect`: `RecoveryInv`, the transaction's view after each statement in terms of the
  rows before it (`RepairInv`), and what of the rows the bootstrap has read (`MemoryInv`).

### Assumptions and limits

The proofs use the named assumptions of the modules, all evaluated by TLC in the runs. They say that
bounds are naturals (positive where the code has such a minimum), that placeholders are not members of
the sets they stand beside, that sets of constants fit together, and in few places more:
`RouterAssumption` and `ConnAssumption` want finite sets of accounts and of actors, because they are
counted; `QueueAssumption` that producers are not workers; `IdentityAssumption` that tokens and
platform names are what the code's validation admits; `RulesAssumption` that paths are sequences of
segments. The proofs rest on `FiniteSetTheorems` for cardinalities, `SequenceTheorems` for sequences and
`WellFoundedInduction` for the least element of a set of naturals, in place of an induction principle.

Only model-checked: the liveness properties (`RequestEnds`, `ExpiredLeaseReleased`, `WorkEnds`,
`EventuallyPersisted`, `TunnelEnds`, `ShutdownEnds`, `QueryReturns`), since fairness and ENABLED are
beyond the prover, and the absence of deadlock.

## 5. What is left out, and what comes next

Not modelled: the subscription parser and the node hash (pure parsing and hashing: a model would
be a transliteration; `SubscriptionRefresh` takes any set of nodes as the result), migrations and
the text of SQL statements (a write is one atomic step with the constraints that can refuse it),
secure DNS and the construction of outbounds (sing-box configuration), the network access of
probes and the format of their trace, helpers on host names, the HTTP API and the web UI (decoding
into the calls that are modelled), and the parsing of environment variables except the rules on
the proxy token. Within modelled components the notes of `PROJECT.json` say what is missing;
the largest are nodes that join the router's pool again, with no egress IP before their first
probe (`StickyRouter` only takes nodes away), the latency score of two candidates, the region and
tag expressions of a platform, the realtime ring and history queries of the metrics, the filters and pages of a log
query, and the order in which the services are stopped.

Worth proving next: lemmas that a liveness argument would rest on, such as what each phase of a
request leads to; type correctness of the modules whose proofs did without it; and `ActiveAccountHasSlot`
for a router that reads an egress IP once, which would need no hypothesis on `EgressRace`.
