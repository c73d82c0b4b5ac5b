---------------------------- MODULE StickyRouter ----------------------------
(***************************************************************************)
(* Sticky routing of one platform: internal/routing/router.go, lease.go,   *)
(* lease_cleaner.go, ip_window.go.                                         *)
(*                                                                         *)
(* Requests, control-plane operations and the lease cleaner run in         *)
(* goroutines of their own.  A request reads the clock once, then decides  *)
(* the account's lease inside leases.Compute(account, ...), which holds    *)
(* the account for the whole decision; the window, the load counters, the  *)
(* routable view and the nodes' egress IPs are shared and change between   *)
(* the steps of that decision.  A request in flight is a record of reqs:   *)
(*                                                                         *)
(*   compute   clock read, waiting for the account                         *)
(*   hit       lease found usable, admission still to come                 *)
(*   rotate    lease's node unusable, looking for the same egress IP       *)
(*   select    picking a node for a new lease                              *)
(*   fallback  every pick blocked by the per-IP quota                      *)
(*   forced    fallback IP chosen, forced reservation still to come        *)
(*   reserved  node chosen, lease still to be built                        *)
(*   retired   previous lease uncounted, new lease still to be stored      *)
(*                                                                         *)
(* The pool, the view and the egress IPs belong to internal/topology; the  *)
(* actions Node*, View* and Egress* stand for what it may do to them.      *)
(***************************************************************************)
EXTENDS IPAccountWindow

CONSTANTS
    Accounts, Nodes, IPs,
    Requests,            \* goroutines serving proxy requests
    Admins,              \* goroutines serving the control plane
    Cleaner,             \* is the lease cleaner running?
    StickyTTLNs,         \* platform.sticky_ttl
    quotaPickAttempts,   \* 8 in the code
    livePickAttempts,    \* 2 in the code
    EgressRace,          \* may an egress IP change during a lease decision?
    MaxTime,             \* bound of the clock
    MaxEnvChanges,       \* bound of the changes made by the topology
    NoNode, NoIP, NoAccount

ASSUME RouterAssumption ==
    /\ IsFiniteSet(Accounts)
    /\ StickyTTLNs \in Nat \ {0}
    /\ quotaPickAttempts \in Nat \ {0}
    /\ livePickAttempts \in Nat \ {0}
    /\ Cleaner \in BOOLEAN
    /\ EgressRace \in BOOLEAN
    /\ MaxTime \in Nat
    /\ MaxEnvChanges \in Nat
    /\ NoNode \notin Nodes
    /\ NoIP \notin IPs
    /\ NoAccount \notin Accounts

VARIABLES
    leases,     \* LeaseTable.leases: account -> Lease
    loads,      \* IPLoadStats.counts: IP -> number of leases
    window,     \* IPAccountWindow.entries: IP -> account -> last seen
    reqs,       \* requests in flight
    inherits,   \* lease inheritances in flight
    sweep,      \* the lease cleaner's current pass
    pool, view, egress, envChanges,
    clock

router == <<leases, loads, window>>
topology == <<pool, view, egress, envChanges>>
vars == <<leases, loads, window, reqs, inherits, sweep, topology, clock>>

-----------------------------------------------------------------------------
\* CreatedAtNs is read by metrics only and left out.
Lease == [node : Nodes, ip : IPs, expiry : Nat, last : Nat]

Phases == {"compute", "hit", "rotate", "select", "fallback", "forced",
           "reserved", "retired"}

Request == [pc : Phases, acct : Accounts, now : Nat, tries : Nat,
            node : Nodes \cup {NoNode}, ip : IPs \cup {NoIP}]

Inherit == [pc : {"read", "upserted"}, acct : Accounts, lease : Lease]

Sweep == [pc : {"idle", "scan"}, now : Nat, todo : SUBSET Accounts,
          suspect : Accounts \cup {NoAccount}]

IdleSweep == [pc |-> "idle", now |-> 0, todo |-> {}, suspect |-> NoAccount]

TypeOK ==
    /\ IsMap(leases, Accounts, Lease)
    /\ loads \in [IPs -> Int]
    /\ DOMAIN window = IPs
    /\ \A i \in IPs : IsMap(window[i], Accounts, Nat)
    /\ IsMap(reqs, Requests, Request)
    /\ IsMap(inherits, Admins, Inherit)
    /\ sweep \in Sweep
    /\ pool \in SUBSET Nodes
    /\ view \in SUBSET Nodes
    /\ egress \in [Nodes -> IPs]
    /\ envChanges \in Nat
    /\ clock \in Nat

\* A node is in the view only once it has an egress IP.
Init ==
    /\ leases = EmptyMap
    /\ loads = [i \in IPs |-> 0]
    /\ window = [i \in IPs |-> EmptyMap]
    /\ reqs = EmptyMap
    /\ inherits = EmptyMap
    /\ sweep = IdleSweep
    /\ pool = Nodes
    /\ view \in SUBSET Nodes
    /\ egress \in [Nodes -> IPs]
    /\ envChanges = 0
    /\ clock = 0

-----------------------------------------------------------------------------
IsExpired(lease, now) == lease.expiry < now

\* The request r is inside its account's Compute.
InCompute(r) == r \in DOMAIN reqs /\ reqs[r].pc # "compute"

Locked(a) == \E r \in DOMAIN reqs : InCompute(r) /\ reqs[r].acct = a

\* IPLoadStats.Inc and Dec.
Inc(l, ip) == [l EXCEPT ![ip] = @ + 1]
Dec(l, ip) == [l EXCEPT ![ip] = @ - 1]

\* The load once account a's lease, if it has one, is uncounted.
Uncounted(a) ==
    IF a \in DOMAIN leases THEN Dec(loads, leases[a].ip) ELSE loads

Goto(r, phase) == reqs' = [reqs EXCEPT ![r].pc = phase]

Finish(r) == reqs' = MapDelete(reqs, r)

\* window.entries[ip] := m
SetWindow(ip, m) == window' = [window EXCEPT ![ip] = m]

-----------------------------------------------------------------------------
\* RouteRequest reads the clock, then contends for the account.
RouteRequest(r, a) ==
    /\ r \notin DOMAIN reqs
    /\ reqs' = MapPut(reqs, r, [pc |-> "compute", acct |-> a, now |-> clock,
                                tries |-> 0, node |-> NoNode, ip |-> NoIP])
    /\ UNCHANGED <<router, inherits, sweep, topology, clock>>

\* decideStickyLease up to the first admission: which way the lease goes.
Decide(r) ==
    /\ r \in DOMAIN reqs
    /\ reqs[r].pc = "compute"
    /\ ~Locked(reqs[r].acct)
    /\ LET a == reqs[r].acct
           usable == a \in DOMAIN leases /\ ~IsExpired(leases[a], reqs[r].now)
           onNode == /\ leases[a].node \in pool \cap view
                     /\ egress[leases[a].node] = leases[a].ip
       IN  Goto(r, IF ~usable THEN "select"
                   ELSE IF onNode THEN "hit" ELSE "rotate")
    /\ UNCHANGED <<router, inherits, sweep, topology, clock>>

\* The rest of tryLeaseHit, which reads the entry's egress IP once more.
TryLeaseHit(r) ==
    /\ r \in DOMAIN reqs
    /\ reqs[r].pc = "hit"
    /\ LET a == reqs[r].acct
           now == reqs[r].now
           ip == egress[leases[a].node]
           m == window[ip]
       IN  IF RefreshOnHit(m, a, now)
           THEN /\ leases' = [leases EXCEPT ![a].last = now]
                /\ SetWindow(ip, IF IPQuotaEnabled THEN Reserved(m, a, now) ELSE m)
                /\ Finish(r)
           ELSE /\ SetWindow(ip, Pruned(m, now))
                /\ Goto(r, "rotate")
                /\ UNCHANGED leases
    /\ UNCHANGED <<loads, inherits, sweep, topology, clock>>

\* Nodes chooseSameIPRotationCandidate may return: which of them has the
\* lowest latency is not tracked.
RotationCandidates(ip) == {n \in view \cap pool : egress[n] = ip}

\* Mutant: rotation without the quota admission of a lease hit.
RotateWithoutAdmission(r) ==
    /\ r \in DOMAIN reqs
    /\ reqs[r].pc = "rotate"
    /\ LET a == reqs[r].acct
           candidates == RotationCandidates(leases[a].ip)
       IN  \/ /\ candidates = {}
              /\ Goto(r, "select")
              /\ UNCHANGED leases
           \/ \E n \in candidates :
              /\ leases' = [leases EXCEPT ![a].node = n, ![a].last = reqs[r].now]
              /\ Finish(r)
    /\ UNCHANGED <<loads, window, inherits, sweep, topology, clock>>

TryLeaseSameIPRotation(r) ==
    /\ r \in DOMAIN reqs
    /\ reqs[r].pc = "rotate"
    /\ LET a == reqs[r].acct
           now == reqs[r].now
           ip == leases[a].ip
           m == window[ip]
       IN  \/ /\ RotationCandidates(ip) = {}
              /\ Goto(r, "select")
              /\ UNCHANGED <<leases, window>>
           \/ /\ RotationCandidates(ip) # {}
              /\ ~RefreshOnHit(m, a, now)
              /\ SetWindow(ip, Pruned(m, now))
              /\ Goto(r, "select")
              /\ UNCHANGED leases
           \/ \E n \in RotationCandidates(ip) :
              /\ RefreshOnHit(m, a, now)
              /\ leases' = [leases EXCEPT ![a].node = n, ![a].last = now]
              /\ SetWindow(ip, IF IPQuotaEnabled THEN Reserved(m, a, now) ELSE m)
              /\ Finish(r)
    /\ UNCHANGED <<loads, inherits, sweep, topology, clock>>

-----------------------------------------------------------------------------
\* Mutant: the abandoned lease stays counted.
AbortKeepsCount(r) ==
    /\ leases' = MapDelete(leases, reqs[r].acct)
    /\ Finish(r)
    /\ UNCHANGED loads

\* createOrAbortStickyLease with an error: cleanupPreviousLease and
\* abortLeaseCreate.  The previous lease is gone, whatever it was.
AbortLeaseCreate(r) ==
    LET a == reqs[r].acct
    IN  /\ loads' = Uncounted(a)
        /\ leases' = MapDelete(leases, a)
        /\ Finish(r)

pickAttempts == IF IPQuotaEnabled THEN quotaPickAttempts ELSE livePickAttempts

\* Mutant: a pick of a vanished or blocked node is retried without a bound.
PickRetriedForever(r) == UNCHANGED <<reqs, leases, loads>>

\* One more pick was spent; after the last one the quota path falls back and
\* the plain path gives up.
PickFailed(r) ==
    LET spent == reqs[r].tries + 1
    IN  IF spent < pickAttempts
        THEN /\ reqs' = [reqs EXCEPT ![r].tries = spent]
             /\ UNCHANGED <<leases, loads>>
        ELSE IF IPQuotaEnabled
        THEN /\ reqs' = [reqs EXCEPT ![r].tries = 0, ![r].pc = "fallback"]
             /\ UNCHANGED <<leases, loads>>
        ELSE AbortLeaseCreate(r)

\* One turn of the loop of selectRouteForLease.  randomRoute draws two random
\* members and may draw the same one each time, so that it can return any
\* member of the view; a member may have left the pool meanwhile.
PickRandomRoute(r) ==
    /\ r \in DOMAIN reqs
    /\ reqs[r].pc = "select"
    /\ LET a == reqs[r].acct
           now == reqs[r].now
       IN  \/ /\ view = {}
              /\ AbortLeaseCreate(r)
              /\ UNCHANGED window
           \/ \E n \in view \ pool :
              /\ PickFailed(r)
              /\ UNCHANGED window
           \/ \E n \in view \cap pool :
              LET m == window[egress[n]]
              IN  IF IPQuotaEnabled /\ ~ReserveIfEligible(m, a, now)
                  THEN /\ SetWindow(egress[n], Pruned(m, now))
                       /\ PickFailed(r)
                  ELSE /\ SetWindow(egress[n], IF IPQuotaEnabled
                                               THEN Reserved(m, a, now) ELSE m)
                       /\ reqs' = [reqs EXCEPT ![r].pc = "reserved",
                                               ![r].node = n]
                       /\ UNCHANGED <<leases, loads>>
    /\ UNCHANGED <<inherits, sweep, topology, clock>>

\* fallbackQuotaRoute: fewest accounts in the window, then fewest leases.
\* CountsByIP prunes every IP first.
FallbackChoose(r) ==
    /\ r \in DOMAIN reqs
    /\ reqs[r].pc = "fallback"
    /\ LET now == reqs[r].now
           routable == {egress[n] : n \in view \cap pool}
           count(ip) == CountRecent(window[ip], now)
           better(i, j) == \/ count(i) < count(j)
                           \/ count(i) = count(j) /\ loads[i] < loads[j]
           best == {i \in routable : ~\E j \in routable : better(j, i)}
       IN  /\ window' = [i \in IPs |-> Pruned(window[i], now)]
           /\ \/ /\ routable = {}
                 /\ AbortLeaseCreate(r)
              \/ \E n \in view \cap pool :
                 /\ egress[n] \in best
                 /\ reqs' = [reqs EXCEPT ![r].pc = "forced", ![r].node = n,
                                         ![r].ip = egress[n]]
                 /\ UNCHANGED <<leases, loads>>
    /\ UNCHANGED <<inherits, sweep, topology, clock>>

\* Mutant: the forced reservation trusts the count FallbackChoose saw.
ReserveUnchecked(r) ==
    /\ r \in DOMAIN reqs
    /\ reqs[r].pc = "forced"
    /\ SetWindow(reqs[r].ip,
                 Reserved(window[reqs[r].ip], reqs[r].acct, reqs[r].now))
    /\ Goto(r, "reserved")
    /\ UNCHANGED <<leases, loads, inherits, sweep, topology, clock>>

\* Its forced reservation, a second critical section of the window.
FallbackReserve(r) ==
    /\ r \in DOMAIN reqs
    /\ reqs[r].pc = "forced"
    /\ LET a == reqs[r].acct
           now == reqs[r].now
           ip == reqs[r].ip
           m == window[ip]
       IN  IF ReserveForcedFallback(m, a, now)
           THEN /\ SetWindow(ip, Reserved(m, a, now))
                /\ Goto(r, "reserved")
                /\ UNCHANGED <<leases, loads>>
           ELSE /\ SetWindow(ip, Pruned(m, now))
                /\ AbortLeaseCreate(r)
    /\ UNCHANGED <<inherits, sweep, topology, clock>>

\* Mutant: the lease is built without an egress IP.
RetireWithoutIP(r) ==
    /\ r \in DOMAIN reqs
    /\ reqs[r].pc = "reserved"
    /\ reqs' = [reqs EXCEPT ![r].pc = "retired", ![r].ip = NoIP]
    /\ loads' = Uncounted(reqs[r].acct)
    /\ UNCHANGED <<leases, window, inherits, sweep, topology, clock>>

\* createLease reads the entry's egress IP once more; cleanupPreviousLease.
RetirePreviousLease(r) ==
    /\ r \in DOMAIN reqs
    /\ reqs[r].pc = "reserved"
    /\ reqs' = [reqs EXCEPT ![r].pc = "retired", ![r].ip = egress[reqs[r].node]]
    /\ loads' = Uncounted(reqs[r].acct)
    /\ UNCHANGED <<leases, window, inherits, sweep, topology, clock>>

\* IPLoadStats.Inc, and Compute stores the new lease.
StoreLease(r) ==
    /\ r \in DOMAIN reqs
    /\ reqs[r].pc = "retired"
    /\ LET q == reqs[r]
       IN  /\ loads' = Inc(loads, q.ip)
           /\ leases' = MapPut(leases, q.acct,
                               [node |-> q.node, ip |-> q.ip,
                                expiry |-> q.now + StickyTTLNs, last |-> q.now])
    /\ Finish(r)
    /\ UNCHANGED <<window, inherits, sweep, topology, clock>>

-----------------------------------------------------------------------------
\* InheritLeaseByPlatformName: read the parent's lease, which must be valid ...
InheritRead(w, parent, child) ==
    /\ w \notin DOMAIN inherits
    /\ parent # child
    /\ parent \in DOMAIN leases
    /\ ~IsExpired(leases[parent], clock)
    /\ inherits' = MapPut(inherits, w, [pc |-> "read", acct |-> child,
                                        lease |-> leases[parent]])
    /\ UNCHANGED <<router, reqs, sweep, topology, clock>>

\* ... then UpsertLease a copy of it for the new account, in one Compute, ...
UpsertLease(w) ==
    /\ w \in DOMAIN inherits
    /\ inherits[w].pc = "read"
    /\ LET a == inherits[w].acct
           lease == inherits[w].lease
       IN  /\ ~Locked(a)
           /\ loads' = Inc(Uncounted(a), lease.ip)
           /\ leases' = MapPut(leases, a, lease)
    /\ inherits' = [inherits EXCEPT ![w].pc = "upserted"]
    /\ UNCHANGED <<window, reqs, sweep, topology, clock>>

\* ... and record the account on the IP, without an admission check.
UpsertTouch(w) ==
    /\ w \in DOMAIN inherits
    /\ inherits[w].pc = "upserted"
    /\ LET ip == inherits[w].lease.ip
       IN  SetWindow(ip, IF IPQuotaEnabled
                         THEN Touch(window[ip], inherits[w].acct, clock)
                         ELSE window[ip])
    /\ inherits' = MapDelete(inherits, w)
    /\ UNCHANGED <<leases, loads, reqs, sweep, topology, clock>>

\* DeleteLease, and each turn of DeleteAllLeases.
DeleteLease(a) ==
    /\ Admins # {}
    /\ a \in DOMAIN leases
    /\ ~Locked(a)
    /\ loads' = Uncounted(a)
    /\ leases' = MapDelete(leases, a)
    /\ UNCHANGED <<window, reqs, inherits, sweep, topology, clock>>

-----------------------------------------------------------------------------
\* LeaseCleaner.sweep reads the clock once; Prune comes first.
SweepStart ==
    /\ Cleaner
    /\ sweep.pc = "idle"
    /\ sweep' = [pc |-> "scan", now |-> clock, todo |-> DOMAIN leases,
                 suspect |-> NoAccount]
    /\ window' = IF IPQuotaEnabled
                 THEN [i \in IPs |-> Pruned(window[i], clock)] ELSE window
    /\ UNCHANGED <<leases, loads, reqs, inherits, topology, clock>>

\* Range reads one lease, without its lock.
SweepVisit(a) ==
    /\ sweep.pc = "scan"
    /\ sweep.suspect = NoAccount
    /\ a \in sweep.todo
    /\ sweep' = [sweep EXCEPT
                   !.todo = @ \ {a},
                   !.suspect = IF a \in DOMAIN leases /\ IsExpired(leases[a], sweep.now)
                               THEN a ELSE NoAccount]
    /\ UNCHANGED <<router, reqs, inherits, topology, clock>>

\* Mutant: the sweep deletes what it read as expired without a second check.
SweepUnchecked(a) ==
    /\ sweep.pc = "scan"
    /\ sweep.suspect = a
    /\ ~Locked(a)
    /\ loads' = Uncounted(a)
    /\ leases' = MapDelete(leases, a)
    /\ sweep' = [sweep EXCEPT !.suspect = NoAccount]
    /\ UNCHANGED <<window, reqs, inherits, topology, clock>>

\* Mutant: the sweep skips a lease whose account is busy or gone.
SweepCancels(a) ==
    /\ sweep.pc = "scan"
    /\ sweep.suspect = a
    /\ sweep' = [sweep EXCEPT !.suspect = NoAccount]
    /\ UNCHANGED <<router, reqs, inherits, topology, clock>>

\* Compute checks the expiry again under the lock.
SweepCompute(a) ==
    /\ sweep.pc = "scan"
    /\ sweep.suspect = a
    /\ ~Locked(a)
    /\ IF a \in DOMAIN leases /\ IsExpired(leases[a], sweep.now)
       THEN /\ loads' = Uncounted(a)
            /\ leases' = MapDelete(leases, a)
       ELSE UNCHANGED <<leases, loads>>
    /\ sweep' = [sweep EXCEPT !.suspect = NoAccount]
    /\ UNCHANGED <<window, reqs, inherits, topology, clock>>

SweepEnd ==
    /\ sweep.pc = "scan"
    /\ sweep.suspect = NoAccount
    /\ sweep.todo = {}
    /\ sweep' = IdleSweep
    /\ UNCHANGED <<router, reqs, inherits, topology, clock>>

-----------------------------------------------------------------------------
\* A clean stop flushes every lease; startup drops those whose node is gone
\* (RepairConsistency) and RestoreLeases loads the rest, counting them anew
\* and seeding the window with the ones used recently.
RestoreLeases ==
    /\ reqs = EmptyMap
    /\ inherits = EmptyMap
    /\ sweep.pc = "idle"
    /\ leases' = MapKeep(leases, {a \in DOMAIN leases : leases[a].node \in pool})
    /\ loads' = [i \in IPs |-> Cardinality({a \in DOMAIN leases' : leases'[a].ip = i})]
    /\ LET recent(i) == {a \in DOMAIN leases' :
                           /\ leases'[a].ip = i
                           /\ clock - leases'[a].last < IPAccountWindowNs}
       IN  window' = [i \in IPs |->
                        IF IPQuotaEnabled
                        THEN [a \in recent(i) |-> leases'[a].last]
                        ELSE EmptyMap]
    /\ UNCHANGED <<reqs, inherits, sweep, topology, clock>>

-----------------------------------------------------------------------------
\* What internal/topology may do, at most MaxEnvChanges times.
EnvStep ==
    /\ envChanges < MaxEnvChanges
    /\ envChanges' = envChanges + 1
    /\ UNCHANGED <<router, reqs, inherits, sweep, clock>>

\* RemoveNodeFromSub takes the node from the pool first and tells the
\* platforms later.  It does not come back: an entry added again has no egress
\* IP before its probe, and here every node in the pool has one.
NodeRemoved(n) ==
    /\ n \in pool
    /\ pool' = pool \ {n}
    /\ EnvStep
    /\ UNCHANGED <<view, egress>>

\* NotifyDirty re-evaluates one node.
ViewAdd(n) ==
    /\ n \in pool \ view
    /\ view' = view \cup {n}
    /\ EnvStep
    /\ UNCHANGED <<pool, egress>>

ViewRemove(n) ==
    /\ n \in view
    /\ view' = view \ {n}
    /\ EnvStep
    /\ UNCHANGED <<pool, egress>>

\* UpdateNodeEgressIP, from a probe's result.
EgressChange(n, ip) ==
    /\ n \in pool
    /\ egress[n] # ip
    /\ EgressRace \/ ~\E r \in DOMAIN reqs : InCompute(r)
    /\ egress' = [egress EXCEPT ![n] = ip]
    /\ EnvStep
    /\ UNCHANGED <<pool, view>>

Tick ==
    /\ clock < MaxTime
    /\ clock' = clock + 1
    /\ UNCHANGED <<router, reqs, inherits, sweep, topology>>

-----------------------------------------------------------------------------
RequestStep(r) ==
    \/ Decide(r)
    \/ TryLeaseHit(r)
    \/ TryLeaseSameIPRotation(r)
    \/ PickRandomRoute(r)
    \/ FallbackChoose(r)
    \/ FallbackReserve(r)
    \/ RetirePreviousLease(r)
    \/ StoreLease(r)

SweepStep ==
    \/ SweepStart
    \/ \E a \in Accounts : SweepVisit(a) \/ SweepCompute(a)
    \/ SweepEnd

AdminStep ==
    \/ \E w \in Admins :
         \/ \E p, c \in Accounts : InheritRead(w, p, c)
         \/ UpsertLease(w)
         \/ UpsertTouch(w)
    \/ \E a \in Accounts : DeleteLease(a)

TopologyStep ==
    \/ \E n \in Nodes : NodeRemoved(n) \/ ViewAdd(n) \/ ViewRemove(n)
    \/ \E n \in Nodes, ip \in IPs : EgressChange(n, ip)

Next ==
    \/ \E r \in Requests, a \in Accounts : RouteRequest(r, a)
    \/ \E r \in Requests : RequestStep(r)
    \/ AdminStep
    \/ SweepStep
    \/ RestoreLeases
    \/ TopologyStep
    \/ Tick

Spec == Init /\ [][Next]_vars

\* Goroutines make progress, the cleaner runs until shutdown, and a request
\* waiting for its account gets it: the lock under Compute is a sync.Mutex,
\* which hands over to a starved waiter.
Fairness ==
    /\ \A r \in Requests : WF_vars(RequestStep(r)) /\ SF_vars(Decide(r))
    /\ WF_vars(SweepStep)

FairSpec == Spec /\ Fairness

-----------------------------------------------------------------------------
\* Accounts whose previous lease is already uncounted though Compute has not
\* replaced it yet.
Retired == {reqs[r].acct : r \in {x \in DOMAIN reqs : reqs[x].pc = "retired"}}

\* The leases IPLoadStats counts for ip.
CountedOn(ip) == {a \in DOMAIN leases : leases[a].ip = ip /\ a \notin Retired}

\* IPLoadStats is exact: for every IP the counter equals the number of leases
\* on it, except for the one lease a request is just replacing (Dec and Inc
\* are two steps).  Every path that drops a lease (expiry, failed rebuild,
\* sweep, delete, inherit) must uncount it exactly once.
LoadStatsExact == \A ip \in IPs : loads[ip] = Cardinality(CountedOn(ip))

\* At most one goroutine decides an account's lease: what Compute gives, and
\* part of the invariant the proofs use.
OneDecision ==
    \A r, s \in DOMAIN reqs :
        InCompute(r) /\ InCompute(s) /\ reqs[r].acct = reqs[s].acct => r = s

\* Without inheritance, no egress IP ever holds more than max+1 accounts in
\* its window, whatever the interleaving of reservations, forced fallbacks,
\* re-admissions of returning accounts and restarts (ip_window.go: "a hard
\* ceiling (max + 1 distinct accounts per IP per window)").
QuotaCeiling ==
    IPQuotaEnabled =>
        \A ip \in IPs : Cardinality(DOMAIN window[ip]) <= MaxAccountsPerIP + 1

\* Accounts some goroutine is about to rebind or to record.
InMotion(a) == Locked(a) \/ \E w \in DOMAIN inherits : inherits[w].acct = a

\* RefreshOnHit's promise: an account that used its lease within the window
\* occupies a slot of the window of the IP its lease is on, so that it is
\* counted against the other accounts there.
ActiveAccountHasSlot ==
    IPQuotaEnabled =>
        \A a \in DOMAIN leases :
            \/ InMotion(a)
            \/ leases[a].last <= clock - IPAccountWindowNs
            \/ a \in DOMAIN window[leases[a].ip]

\* The sweep works from leases it read without their locks, and with a clock
\* value from before: it still never deletes a lease that has not expired.
SweepSparesLiveLeases ==
    [][\A a \in Accounts :
         SweepCompute(a) /\ a \in DOMAIN leases /\ a \notin DOMAIN leases'
         => IsExpired(leases[a], clock)]_vars

\* An expired lease is eventually released or replaced, so that the load it
\* adds to its IP does not stay (DESIGN.md: expired leases must be cleaned in
\* time to keep IPLoadStats accurate), whatever the traffic on the account.
ExpiredLeaseReleased ==
    \A a \in Accounts :
        (a \in DOMAIN leases /\ IsExpired(leases[a], clock))
        ~> (a \notin DOMAIN leases \/ ~IsExpired(leases[a], clock))

\* Every request ends, served or refused: the retries over vanished nodes and
\* exhausted IPs are bounded, and no request waits forever for its account.
RequestEnds == \A r \in Requests : (r \in DOMAIN reqs) ~> (r \notin DOMAIN reqs)
=============================================================================
