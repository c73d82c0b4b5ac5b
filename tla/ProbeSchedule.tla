---------------------------- MODULE ProbeSchedule ----------------------------
(* When a node is probed: the periodic scans of internal/probe/manager.go, *)
(* the attempt timestamps that internal/topology/pool.go keeps on the node,*)
(* and the runtime configuration that both of them read.                   *)
(*                                                                         *)
(* Time advances in units of the scan's lookahead (15 s).  A timestamp is  *)
(* kept as the age of the attempt, cut off at MaxAge.  The queue, whose    *)
(* states and tokens ProbeQueue models, is here the set of the keys that   *)
(* wait.                                                                   *)
EXTENDS Naturals, FiniteSets

CONSTANTS
    ProbeNodes,         \* nodes of the pool
    ProbeDomains,       \* eTLD+1 domains of test URLs and of traffic
    EgressTraceDomain,  \* the domain of egressTraceURL
    ConfigRequests,     \* configurations a PATCH may ask for
    MaxAge              \* cut-off of ages, at least every interval

Lookahead == 1
MinProbeInterval == 2
Never == MaxAge + 1     \* the zero timestamp: no attempt yet
Ages == 0..Never
Kinds == {"latency", "egress"}
Attempts == {"latency", "authority", "egress"}

ProbeConfig == [domain : ProbeDomains, authorities : SUBSET ProbeDomains,
                interval : [Attempts -> MinProbeInterval..MaxAge]]

ASSUME ScheduleAssumption ==
    /\ EgressTraceDomain \in ProbeDomains
    /\ MaxAge \in Nat /\ MaxAge >= MinProbeInterval
    /\ ConfigRequests \subseteq [domain : ProbeDomains, authorities : SUBSET ProbeDomains,
                                 interval : [Attempts -> 0..MaxAge]]

VARIABLES
    probeConfig,    \* RuntimeCfg: test URL, authorities, intervals
    nodeStatus,     \* "enabled", "disabled" by its subscriptions, "noOutbound"
    age,            \* age of the last attempt of each sort, per node
    waiting,        \* queued keys <<node, kind>>
    probing         \* probes whose fetch is running

scheduleVars == <<probeConfig, nodeStatus, age, waiting, probing>>

Probe == [node : ProbeNodes, kind : Kinds, domain : ProbeDomains, sync : BOOLEAN]

ScheduleTypeOK ==
    /\ probeConfig \in ProbeConfig
    /\ nodeStatus \in [ProbeNodes -> {"enabled", "disabled", "noOutbound"}]
    /\ age \in [ProbeNodes -> [Attempts -> Ages]]
    /\ waiting \subseteq ProbeNodes \X Kinds
    /\ probing \subseteq Probe

(* validateRuntimeConfig appends the test URL's domain to the authorities.  *)
ConfigAsSent(c) == c
Completed(c) == [c EXCEPT !.authorities = @ \cup {c.domain}]

Valid(c) == \A k \in Attempts : c.interval[k] >= MinProbeInterval

Accepted == {Completed(c) : c \in {d \in ConfigRequests : Valid(d)}}

ScheduleInit ==
    /\ probeConfig \in Accepted
    /\ nodeStatus \in [ProbeNodes -> {"enabled", "noOutbound"}]
    /\ age = [n \in ProbeNodes |-> [k \in Attempts |-> Never]]
    /\ waiting = {}
    /\ probing = {}

-----------------------------------------------------------------------------
(* Due checks *)

Overdue(n, k) == age[n][k] = Never \/ age[n][k] + Lookahead >= probeConfig.interval[k]

EgressDue(n) == Overdue(n, "egress")

LatencyDue(n) ==
    \/ Overdue(n, "latency")
    \/ probeConfig.authorities # {} /\ Overdue(n, "authority")

(* scanEgress, scanLatency: every enabled node with an outbound that is due *)
ScanEgress ==
    /\ waiting' = waiting \cup
           {<<n, "egress">> : n \in {m \in ProbeNodes : nodeStatus[m] = "enabled" /\ EgressDue(m)}}
    /\ UNCHANGED <<probeConfig, nodeStatus, age, probing>>

ScanLatency ==
    /\ waiting' = waiting \cup
           {<<n, "latency">> : n \in {m \in ProbeNodes : nodeStatus[m] = "enabled" /\ LatencyDue(m)}}
    /\ UNCHANGED <<probeConfig, nodeStatus, age, probing>>

(* TriggerImmediateEgressProbe, TriggerImmediateLatencyProbe: no due check *)
TriggerImmediateProbe(n, kind) ==
    /\ waiting' = waiting \cup {<<n, kind>>}
    /\ UNCHANGED <<probeConfig, nodeStatus, age, probing>>

-----------------------------------------------------------------------------
(* Probes *)

(* currentLatencyTestURL is read when the probe starts.                     *)
NewProbe(n, kind, sync) ==
    [node |-> n, kind |-> kind, sync |-> sync,
     domain |-> IF kind = "egress" THEN EgressTraceDomain ELSE probeConfig.domain]

(* executeTask drops the task of a disabled node or one without outbound.   *)
StartProbe(n, kind) ==
    /\ <<n, kind>> \in waiting
    /\ ~ \E p \in probing : p.node = n /\ p.kind = kind /\ ~p.sync
    /\ waiting' = waiting \ {<<n, kind>>}
    /\ probing' = IF nodeStatus[n] = "enabled"
                  THEN probing \cup {NewProbe(n, kind, FALSE)} ELSE probing
    /\ UNCHANGED <<probeConfig, nodeStatus, age>>

(* ProbeEgressSync, ProbeLatencySync probe disabled nodes too.              *)
ProbeSync(n, kind) ==
    /\ nodeStatus[n] # "noOutbound"
    /\ probing' = probing \cup {NewProbe(n, kind, TRUE)}
    /\ UNCHANGED <<probeConfig, nodeStatus, age, waiting>>

(* RecordLatency stamps the attempt whether or not it carries a latency,   *)
(* and the authority attempt when the domain is an authority now.          *)
RecordLatency(a, domain) ==
    [a EXCEPT !.latency = 0,
              !.authority = IF domain \in probeConfig.authorities THEN 0 ELSE @]

(* performLatencyProbe: an attempt is recorded on success and on failure.   *)
EndLatencyProbe(p) ==
    /\ p \in probing /\ p.kind = "latency"
    /\ probing' = probing \ {p}
    /\ age' = [age EXCEPT ![p.node] = RecordLatency(@, p.domain)]
    /\ UNCHANGED <<probeConfig, nodeStatus, waiting>>

UpdateNodeEgressIP(a) == [a EXCEPT !.egress = 0]

(* performEgressProbe: a fetch that succeeded also reports a latency; the  *)
(* attempt is recorded when the fetch or the parse of its body fails too.  *)
StampOnlySuccess(p, outcome) ==
    /\ p \in probing /\ p.kind = "egress"
    /\ probing' = probing \ {p}
    /\ age' = [age EXCEPT ![p.node] =
                  IF outcome = "ok" THEN UpdateNodeEgressIP(RecordLatency(@, p.domain)) ELSE @]
    /\ UNCHANGED <<probeConfig, nodeStatus, waiting>>
EndEgressProbe(p, outcome) ==
    /\ p \in probing /\ p.kind = "egress"
    /\ probing' = probing \ {p}
    /\ age' = [age EXCEPT ![p.node] =
                  UpdateNodeEgressIP(IF outcome = "fetchError" THEN @
                                     ELSE RecordLatency(@, p.domain))]
    /\ UNCHANGED <<probeConfig, nodeStatus, waiting>>

-----------------------------------------------------------------------------
(* The rest of the program *)

(* The data path reports every request's domain through RecordLatency.      *)
TrafficLatency(n, domain) ==
    /\ age' = [age EXCEPT ![n] = RecordLatency(@, domain)]
    /\ UNCHANGED <<probeConfig, nodeStatus, waiting, probing>>

PatchRuntimeConfig(c) ==
    /\ Valid(c)
    /\ probeConfig' = Completed(c)
    /\ UNCHANGED <<nodeStatus, age, waiting, probing>>

(* Subscriptions are enabled or disabled, outbounds get built.              *)
NodeChanges(n, status) ==
    /\ status \in IF nodeStatus[n] = "noOutbound" THEN {"enabled", "disabled"}
                  ELSE {"enabled", "disabled"} \ {nodeStatus[n]}
    /\ nodeStatus' = [nodeStatus EXCEPT ![n] = status]
    /\ UNCHANGED <<probeConfig, age, waiting, probing>>

TimePasses ==
    /\ age' = [n \in ProbeNodes |-> [k \in Attempts |->
                  IF age[n][k] < MaxAge THEN age[n][k] + 1 ELSE age[n][k]]]
    /\ UNCHANGED <<probeConfig, nodeStatus, waiting, probing>>

ScheduleNext ==
    \/ ScanEgress
    \/ ScanLatency
    \/ \E n \in ProbeNodes, kind \in Kinds :
          \/ TriggerImmediateProbe(n, kind)
          \/ StartProbe(n, kind)
          \/ ProbeSync(n, kind)
    \/ \E p \in probing :
          \/ EndLatencyProbe(p)
          \/ \E outcome \in {"fetchError", "parseError", "ok"} : EndEgressProbe(p, outcome)
    \/ \E n \in ProbeNodes, domain \in ProbeDomains : TrafficLatency(n, domain)
    \/ \E c \in ConfigRequests : PatchRuntimeConfig(c)
    \/ \E n \in ProbeNodes, status \in {"enabled", "disabled"} : NodeChanges(n, status)
    \/ TimePasses

ScheduleSpec == ScheduleInit /\ [][ScheduleNext]_scheduleVars

-----------------------------------------------------------------------------
(* No probe storm: a probe that ends, however it ends, leaves its node not *)
(* due, so the next scan does not pick the same node again.  A latency     *)
(* probe of a test URL that was replaced while it ran is the exception.    *)
(* This rests on validateRuntimeConfig adding the test domain to the       *)
(* authorities, on its 30 s minimum exceeding the 15 s lookahead, and on   *)
(* failed attempts being stamped like successful ones.                     *)
ProbeSettles ==
    [][\A p \in probing \ probing' :
          /\ p.kind = "egress" => ~EgressDue(p.node)'
          /\ p.kind = "latency" /\ p.domain = probeConfig.domain => ~LatencyDue(p.node)']_scheduleVars
=============================================================================
