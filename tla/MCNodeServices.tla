---------------------------- MODULE MCNodeServices ----------------------------
(* Model-checking instance of the services around a node and its traffic:  *)
(* the probe queue and its schedule, the outbounds, the latency table, the *)
(* traffic counters and the metrics.  They share no variable, so each      *)
(* behaviour runs one of them and leaves the others in an initial state.   *)
EXTENDS ProbeQueue, ProbeSchedule, OutboundLifecycle, LatencyTable, CountingConn, MetricsBuckets, TLC

CONSTANTS d1, d2

VARIABLE service

Lists == {{}, {d1}}

\* Intervals below, at and above the minimum; a change of the test URL, to a
\* domain that becomes an authority, comes with the middle one.
PatchRequests ==
    [domain : {d1}, authorities : {{}}, interval : {[k \in Attempts |-> i] : i \in 1..3}]
    \cup [domain : {d2}, authorities : {{d2}}, interval : {[k \in Attempts |-> 2]}]

TunnelCopiers == "down" :> "read" @@ "up" :> "write"

allVars == <<service, queueVars, scheduleVars, outboundVars, latencyVars, connVars, metricsVars>>

Init ==
    /\ service \in {"queue", "schedule", "outbounds", "latencies", "traffic", "metrics"}
    /\ QueueInit
    /\ ScheduleInit
    /\ service # "schedule" => probeConfig = CHOOSE c \in Accepted : TRUE
    /\ service # "schedule" => \A n \in ProbeNodes : nodeStatus[n] = "enabled"
    /\ OutboundInit
    /\ LatencyInit
    /\ ConnInit
    /\ MetricsInit

Queue == /\ service = "queue" /\ QueueNext
         /\ UNCHANGED <<service, scheduleVars, outboundVars, latencyVars, connVars, metricsVars>>
Schedule == /\ service = "schedule" /\ ScheduleNext
            /\ UNCHANGED <<service, queueVars, outboundVars, latencyVars, connVars, metricsVars>>
OutboundManager == /\ service = "outbounds" /\ OutboundNext
                   /\ UNCHANGED <<service, queueVars, scheduleVars, latencyVars, connVars, metricsVars>>
Latencies == /\ service = "latencies" /\ LatencyNext
             /\ UNCHANGED <<service, queueVars, scheduleVars, outboundVars, connVars, metricsVars>>
Traffic == /\ service = "traffic" /\ ConnNext
           /\ UNCHANGED <<service, queueVars, scheduleVars, outboundVars, latencyVars, metricsVars>>
Metrics == /\ service = "metrics" /\ MetricsNext
           /\ UNCHANGED <<service, queueVars, scheduleVars, outboundVars, latencyVars, connVars>>

Next == Queue \/ Schedule \/ OutboundManager \/ Latencies \/ Traffic \/ Metrics

Spec == Init /\ [][Next]_allVars

Symmetry == Permutations(States) \cup Permutations(ProbeWorkers)
=============================================================================
