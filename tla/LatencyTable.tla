----------------------------- MODULE LatencyTable -----------------------------
(***************************************************************************)
(* The latency table of one node: internal/node/latency.go, RecordLatency  *)
(* of pool.go, and how its rows of cache.db are flushed and loaded again   *)
(* by restoreBootstrapNodeLatencies.  Authority domains are resident,      *)
(* others share MaxEntries slots and the least recently accessed one gives *)
(* way.  The list of authorities is runtime configuration.  The averaged   *)
(* latency itself is not modelled, only when it was last updated.          *)
(***************************************************************************)
EXTENDS Naturals, FiniteSets, ConcurrentMap

CONSTANTS
    Domains,
    Recorders,        \* goroutines in RecordLatency
    AuthorityLists,   \* values of latency_authorities
    MaxEntries,       \* slots for domains that are not authorities
    MaxClock          \* bound: time

ASSUME LatencyAssumption ==
    /\ AuthorityLists \subseteq SUBSET Domains
    /\ MaxEntries \in Nat \ {0}
    /\ MaxClock \in Nat

VARIABLES
    authorities,   \* the configured authority domains
    latencies,     \* LatencyTable: domain -> its slot
    clock,
    latencyRows,   \* node_latency rows: domain -> last update
    latencyMarks,  \* dirty set of node_latency
    unmarked       \* goroutine -> domains it has still to mark

latencyVars == <<authorities, latencies, clock, latencyRows, latencyMarks, unmarked>>

Slot == [authority : BOOLEAN, access : 0..MaxClock, updated : 0..MaxClock]

LatencyTypeOK ==
    /\ authorities \in AuthorityLists
    /\ IsMap(latencies, Domains, Slot)
    /\ clock \in 0..MaxClock
    /\ IsMap(latencyRows, Domains, 0..MaxClock)
    /\ latencyMarks \in SUBSET Domains
    /\ IsMap(unmarked, Recorders, SUBSET Domains)

LatencyInit ==
    /\ authorities \in AuthorityLists
    /\ latencies = EmptyMap
    /\ clock = 0
    /\ latencyRows = EmptyMap
    /\ latencyMarks = {}
    /\ unmarked = EmptyMap

-----------------------------------------------------------------------------
Regular(t) == {d \in DOMAIN t : ~t[d].authority}

\* upsertRegularLocked: with no slot free, the one accessed longest ago goes;
\* of several the first, so any.
Oldest(t) == {d \in Regular(t) : \A e \in Regular(t) : t[d].access <= t[e].access}
\* Mutant: the slot of a domain that became regular counts as free.
EvictableByMember(t, d) ==
    IF Cardinality(Regular(t)) < MaxEntries \/ d \in DOMAIN t THEN {{}}
    ELSE {{e} : e \in Oldest(MapDelete(t, d))}

Evictable(t, d) ==
    IF Cardinality(Regular(t) \ {d}) < MaxEntries THEN {{}}
    ELSE {{e} : e \in Oldest(MapDelete(t, d))}

\* UpdateClassified: the domain is taken out, then put into the partition the
\* authority list gives it now.
RecordLatencySample(g, d) ==
    /\ g \notin DOMAIN unmarked
    /\ clock < MaxClock
    /\ clock' = clock + 1
    /\ LET authority == d \in authorities
           slot == [authority |-> authority, access |-> clock + 1, updated |-> clock + 1]
       IN  \E out \in IF authority THEN {{}} ELSE Evictable(latencies, d) :
             /\ latencies' = MapPut(MapKeep(latencies, DOMAIN latencies \ out), d, slot)
             /\ unmarked' = MapPut(unmarked, g, {d} \cup out)
    /\ UNCHANGED <<authorities, latencyRows, latencyMarks>>

\* onNodeLatencyChanged, for the domain and then for the evicted one.
MarkNodeLatency(g, d) ==
    /\ g \in DOMAIN unmarked
    /\ d \in unmarked[g]
    /\ latencyMarks' = latencyMarks \cup {d}
    /\ unmarked' = IF unmarked[g] = {d} THEN MapDelete(unmarked, g)
                   ELSE [unmarked EXCEPT ![g] = @ \ {d}]
    /\ UNCHANGED <<authorities, latencies, clock, latencyRows>>

\* GetDomainStats touches what it reads, not more often than every 100 ms.
GetDomainStats(d) ==
    /\ d \in DOMAIN latencies
    /\ clock < MaxClock
    /\ clock' = clock + 1
    /\ latencies' = [latencies EXCEPT ![d].access = clock + 1]
    /\ UNCHANGED <<authorities, latencyRows, latencyMarks, unmarked>>

\* A PATCH of the runtime configuration; the table follows with the next sample.
SetLatencyAuthorities(A) ==
    /\ A \in AuthorityLists \ {authorities}
    /\ authorities' = A
    /\ UNCHANGED <<latencies, clock, latencyRows, latencyMarks, unmarked>>

\* The flush writes what the table holds for each marked domain by then.
FlushLatencyRows ==
    /\ latencyMarks # {}
    /\ latencyRows' = [d \in (DOMAIN latencyRows \ latencyMarks)
                               \cup (latencyMarks \cap DOMAIN latencies) |->
                         IF d \in latencyMarks THEN latencies[d].updated ELSE latencyRows[d]]
    /\ latencyMarks' = {}
    /\ UNCHANGED <<authorities, latencies, clock, unmarked>>

\* Mutant: rows beyond the bound are left in cache.db.
RestoreKeepsRows ==
    /\ \E keep \in SUBSET (DOMAIN latencyRows \ authorities) :
         /\ Cardinality(keep) <= MaxEntries
         /\ latencies' = [d \in (DOMAIN latencyRows \cap authorities) \cup keep |->
                            [authority |-> d \in authorities, access |-> latencyRows[d],
                             updated |-> latencyRows[d]]]
    /\ latencyMarks' = {}
    /\ unmarked' = EmptyMap
    /\ UNCHANGED <<authorities, clock, latencyRows>>

\* A restart: of the regular rows the newest MaxEntries are loaded, the others
\* marked for deletion; the last update counts as the last access.
RestoreLatencies ==
    /\ LET regular == DOMAIN latencyRows \ authorities
           newest(keep) == \A d \in keep, e \in regular \ keep :
                              latencyRows[d] >= latencyRows[e]
       IN  \E keep \in SUBSET regular :
             /\ newest(keep)
             /\ Cardinality(keep) = IF Cardinality(regular) <= MaxEntries
                                    THEN Cardinality(regular) ELSE MaxEntries
             /\ latencies' = [d \in (DOMAIN latencyRows \cap authorities) \cup keep |->
                                [authority |-> d \in authorities,
                                 access |-> latencyRows[d], updated |-> latencyRows[d]]]
             /\ latencyMarks' = regular \ keep
    /\ unmarked' = EmptyMap
    /\ UNCHANGED <<authorities, clock, latencyRows>>

LatencyNext ==
    \/ \E g \in Recorders, d \in Domains : RecordLatencySample(g, d) \/ MarkNodeLatency(g, d)
    \/ \E d \in Domains : GetDomainStats(d)
    \/ \E A \in AuthorityLists : SetLatencyAuthorities(A)
    \/ FlushLatencyRows
    \/ RestoreLatencies

LatencySpec == LatencyInit /\ [][LatencyNext]_latencyVars

-----------------------------------------------------------------------------
\* However domains move between authority and regular, the regular partition
\* never outgrows its bound.
RegularBounded == Cardinality(Regular(latencies)) <= MaxEntries

Pending == latencyMarks \cup UNION {unmarked[g] : g \in DOMAIN unmarked}

\* A row differs from the table only for a domain whose change is still to be
\* marked or flushed: an eviction or a row trimmed at start-up leaves no ghost.
RowsFollowTable ==
    \A d \in Domains \ Pending :
        /\ d \in DOMAIN latencyRows <=> d \in DOMAIN latencies
        /\ d \in DOMAIN latencies => latencyRows[d] = latencies[d].updated

=============================================================================
