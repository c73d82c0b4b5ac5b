--------------------------- MODULE CacheRecovery ---------------------------
(***************************************************************************)
(* What the process finds after a crash and makes of it: state.db holds    *)
(* the platforms and the subscriptions, cache.db the five weakly persisted *)
(* tables.  The two files are written by different transactions, and each  *)
(* table's dirty set is drained at its own moment, so a crash may leave    *)
(* any combination of rows.  RepairConsistency deletes the orphans in one  *)
(* transaction, and the bootstrap then rebuilds the pool, the managed      *)
(* nodes and the leases from what is left.                                 *)
(***************************************************************************)
EXTENDS Naturals, FiniteSets, Functions

CONSTANTS SubIds, Plats, CacheNodes, LeaseAccounts,
          MaxRecoveries   \* bound on the boots of one behaviour

ASSUME RecoveryAssumption == MaxRecoveries \in Nat \ {0}

\* The rows of cache.db.  A subscription_nodes row says whether its node was
\* evicted; a lease row names its node.
CacheDB == [bindings  : UNION {[K -> {"held", "evicted"}] : K \in SUBSET (SubIds \X CacheNodes)},
            statics   : SUBSET CacheNodes,
            dynamics  : SUBSET CacheNodes,
            latencies : SUBSET CacheNodes,
            leases    : UNION {[K -> CacheNodes] : K \in SUBSET (Plats \X LeaseAccounts)}]

EmptyPool == [subs |-> {}, platforms |-> {}, managed |-> <<>>, nodes |-> {},
              refs |-> {}, closed |-> {}, latencies |-> {}, leases |-> <<>>]

VARIABLES stateDB,   \* the ids of state.db's subscriptions and platforms
          cacheDB,   \* the committed rows of cache.db
          repairTx,  \* the rows as the open repair transaction sees them
          memory,    \* the topology the bootstrap has built so far
          bootStep,  \* the next step of the boot
          boots      \* boots so far

recoveryVars == <<stateDB, cacheDB, repairTx, memory, bootStep, boots>>

HeldBy(db, n) == {s \in SubIds : <<s, n>> \in DOMAIN db.bindings /\ db.bindings[<<s, n>>] = "held"}

RecoveryInit ==
    /\ stateDB \in [subs : SUBSET SubIds, platforms : SUBSET Plats]
    /\ cacheDB \in CacheDB
    /\ repairTx = cacheDB
    /\ memory = EmptyPool
    /\ bootStep = "begin"
    /\ boots = 1

(* Repair: five deletes in dependency order, in one transaction. *)

BeginRepair ==
    /\ bootStep = "begin"
    /\ repairTx' = cacheDB
    /\ bootStep' = "bindings"
    /\ UNCHANGED <<stateDB, cacheDB, memory, boots>>

\* The rows statement `step` keeps in the transaction's current view.
DeleteOrphans(step) ==
    CASE step = "bindings" ->
           [repairTx EXCEPT !.bindings = Restrict(@, {k \in DOMAIN @ :
               k[1] \in stateDB.subs /\ (@[k] = "held" => k[2] \in repairTx.statics)})]
      [] step = "statics" ->
           [repairTx EXCEPT !.statics = {n \in @ : HeldBy(repairTx, n) # {}}]
      [] step = "dynamics" ->
           [repairTx EXCEPT !.dynamics = @ \cap repairTx.statics]
      [] step = "latencies" ->
           [repairTx EXCEPT !.latencies = @ \cap repairTx.statics]
      [] step = "leases" ->
           [repairTx EXCEPT !.leases = Restrict(@, {k \in DOMAIN @ :
               k[1] \in stateDB.platforms /\ @[k] \in repairTx.statics})]

\* Mutant: the static rows are repaired after the rows that hang on them.
RepairStaticsLast == [bindings |-> "dynamics", dynamics |-> "latencies", latencies |-> "leases",
                      leases |-> "statics", statics |-> "commit"]

RepairOrder == [bindings |-> "statics", statics |-> "dynamics", dynamics |-> "latencies",
                latencies |-> "leases", leases |-> "commit"]

ExecRepair ==
    /\ bootStep \in DOMAIN RepairOrder
    /\ repairTx' = DeleteOrphans(bootStep)
    /\ bootStep' = RepairOrder[bootStep]
    /\ UNCHANGED <<stateDB, cacheDB, memory, boots>>

CommitRepair ==
    /\ bootStep = "commit"
    /\ cacheDB' = repairTx
    /\ bootStep' = "topology"
    /\ UNCHANGED <<stateDB, repairTx, memory, boots>>

(* Bootstrap: each step reads one table into the memory of the steps before. *)

BootstrapTopology ==
    /\ bootStep = "topology"
    /\ memory' = [memory EXCEPT !.subs = stateDB.subs, !.platforms = stateDB.platforms]
    /\ bootStep' = "nodes"
    /\ UNCHANGED <<stateDB, cacheDB, repairTx, boots>>

\* A node starts circuit-open until its dynamic row says otherwise.
LoadBootstrapNodeStatics ==
    /\ bootStep = "nodes"
    /\ memory' = [memory EXCEPT !.nodes = cacheDB.statics]
    /\ bootStep' = "managed"
    /\ UNCHANGED <<stateDB, cacheDB, repairTx, boots>>

\* Mutant: evicted rows hold their node again after a restart.
RestoreEvictedBindings ==
    /\ bootStep = "managed"
    /\ LET restored == Restrict(cacheDB.bindings, {k \in DOMAIN cacheDB.bindings : k[1] \in memory.subs})
       IN  memory' = [memory EXCEPT
             !.managed = restored, !.refs = {k \in DOMAIN restored : k[2] \in memory.nodes}]
    /\ bootStep' = "dynamic"
    /\ UNCHANGED <<stateDB, cacheDB, repairTx, boots>>

\* A binding row is read when its subscription exists; only a held one whose
\* node is in the pool becomes a reference.
RestoreBootstrapSubscriptionBindings ==
    /\ bootStep = "managed"
    /\ LET restored == Restrict(cacheDB.bindings, {k \in DOMAIN cacheDB.bindings : k[1] \in memory.subs})
       IN  memory' = [memory EXCEPT
             !.managed = restored,
             !.refs = {k \in DOMAIN restored : restored[k] = "held" /\ k[2] \in memory.nodes}]
    /\ bootStep' = "dynamic"
    /\ UNCHANGED <<stateDB, cacheDB, repairTx, boots>>

\* The dynamic row's circuit state replaces the default, and the latency rows
\* fill the node's table (LatencyTable models what they become).
RestoreBootstrapNodeDynamics ==
    /\ bootStep = "dynamic"
    /\ \E open \in SUBSET (cacheDB.dynamics \cap memory.nodes) :
         memory' = [memory EXCEPT !.closed = (cacheDB.dynamics \cap memory.nodes) \ open]
    /\ bootStep' = "latency"
    /\ UNCHANGED <<stateDB, cacheDB, repairTx, boots>>

RestoreBootstrapNodeLatencies ==
    /\ bootStep = "latency"
    /\ memory' = [memory EXCEPT !.latencies = cacheDB.latencies \cap memory.nodes]
    /\ bootStep' = "restore_leases"
    /\ UNCHANGED <<stateDB, cacheDB, repairTx, boots>>

\* Leases are restored without a look at the pool or the platforms.
RestoreLeases ==
    /\ bootStep = "restore_leases"
    /\ memory' = [memory EXCEPT !.leases = cacheDB.leases]
    /\ bootStep' = "serving"
    /\ UNCHANGED <<stateDB, cacheDB, repairTx, boots>>

\* While the process serves, a platform or a subscription may be deleted from
\* state.db; the marks that would delete its cache rows are lost in a crash.
DeleteStateRow ==
    /\ bootStep = "serving"
    /\ \/ \E s \in stateDB.subs : stateDB' = [stateDB EXCEPT !.subs = @ \ {s}]
       \/ \E p \in stateDB.platforms : stateDB' = [stateDB EXCEPT !.platforms = @ \ {p}]
    /\ bootStep' = "dying"
    /\ UNCHANGED <<cacheDB, repairTx, memory, boots>>

\* A crash, or a step that returns an error and ends the process: an open
\* transaction is rolled back and the memory is lost.
CrashAndReboot ==
    /\ boots < MaxRecoveries
    /\ boots' = boots + 1
    /\ bootStep' = "begin"
    /\ repairTx' = cacheDB
    /\ memory' = EmptyPool
    /\ UNCHANGED <<stateDB, cacheDB>>

RecoveryNext ==
    \/ BeginRepair
    \/ ExecRepair
    \/ CommitRepair
    \/ BootstrapTopology
    \/ LoadBootstrapNodeStatics
    \/ RestoreBootstrapSubscriptionBindings
    \/ RestoreBootstrapNodeDynamics
    \/ RestoreBootstrapNodeLatencies
    \/ RestoreLeases
    \/ DeleteStateRow
    \/ CrashAndReboot

RecoverySpec == RecoveryInit /\ [][RecoveryNext]_recoveryVars

RecoveryTypeOK ==
    /\ stateDB \in [subs : SUBSET SubIds, platforms : SUBSET Plats]
    /\ cacheDB \in CacheDB
    /\ repairTx \in CacheDB
    /\ boots \in 1..MaxRecoveries

----------------------------------------------------------------------------

\* The transaction RepairConsistency commits keeps exactly the rows whose
\* whole chain of references exists: a node lives while an existing
\* subscription holds it, and a dynamic row, a latency row or a lease lives
\* while its node does (and a lease's platform).  The five statements reach
\* that in the order they run, whatever the crash left.
RepairKeepsExactlyTheLiving ==
    bootStep = "commit" =>
      LET living == {n \in cacheDB.statics : HeldBy(cacheDB, n) \cap stateDB.subs # {}}
      IN  /\ repairTx.statics = living
          /\ repairTx.dynamics = cacheDB.dynamics \cap living
          /\ repairTx.latencies = cacheDB.latencies \cap living
          /\ repairTx.leases = Restrict(cacheDB.leases, {k \in DOMAIN cacheDB.leases :
                                  k[1] \in stateDB.platforms /\ cacheDB.leases[k] \in living})
          /\ repairTx.bindings = Restrict(cacheDB.bindings, {k \in DOMAIN cacheDB.bindings :
                                  /\ k[1] \in stateDB.subs
                                  /\ cacheDB.bindings[k] = "held" => k[2] \in living})

\* A process that has booted has no dangling reference: every node of the
\* pool is held, the references are those of the managed nodes that are not
\* evicted, and every lease the router restored unchecked has its platform
\* and its node.
BootedMemorySound ==
    bootStep = "serving" =>
      /\ \A n \in memory.nodes : \E s \in memory.subs : <<s, n>> \in memory.refs
      /\ memory.refs = {k \in DOMAIN memory.managed : memory.managed[k] = "held"}
      /\ \A k \in DOMAIN memory.leases : k[1] \in memory.platforms /\ memory.leases[k] \in memory.nodes
      /\ memory.closed \cup memory.latencies \subseteq memory.nodes
============================================================================
