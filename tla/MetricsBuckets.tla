--------------------------- MODULE MetricsBuckets ---------------------------
(***************************************************************************)
(* Request counts on their way to metrics.db.  Requests add to lock-free   *)
(* counters, global first and then the platform's; an aggregation, under   *)
(* stateMu, reads the counters one after another, adds what is new since   *)
(* the last time to the current bucket and cuts the bucket when its time is*)
(* over; the cut bucket becomes a task that is written, and retried, apart.*)
(*                                                                         *)
(* Aggregations are run by the bucket ticker, by dashboard queries at any  *)
(* time, and by Stop.  Probe counts and traffic take the same way with the *)
(* global scope only.  Time is counted in buckets.                         *)
(***************************************************************************)
EXTENDS Integers, FiniteSets, Sequences, SequencesExt, FiniteSetsExt, ConcurrentMap

CONSTANTS
    GlobalScope,
    MetricPlatforms,
    RequestGoroutines,
    MaxRequests,     \* bound: requests recorded
    MaxBuckets       \* bound: bucket boundaries passed

VARIABLES
    counters,        \* scope -> requests and success, Collector
    recording,       \* goroutine -> where it is in RecordRequest
    baseline,        \* scope -> counters at the last aggregation
    aggregation,     \* the holder of stateMu: what it has read so far
    currentBucket,   \* [start, counts]
    cutBuckets,      \* buckets cut and not yet in the list of tasks
    pendingTasks, taskWritten,
    bucketRows,      \* metric_request_bucket: start -> counts
    bucketTime, managerPhase

metricsVars == <<counters, recording, baseline, aggregation, currentBucket, cutBuckets,
                 pendingTasks, taskWritten, bucketRows, bucketTime, managerPhase>>
tasks == <<pendingTasks, taskWritten, bucketRows>>

Scopes == {GlobalScope} \cup MetricPlatforms
Counts == [requests : 0..2*MaxRequests, success : 0..2*MaxRequests]
Bucket == [start : 0..MaxBuckets, counts : [Scopes -> Counts]]
Zero == [s \in Scopes |-> [requests |-> 0, success |-> 0]]

MetricsTypeOK ==
    /\ counters \in [Scopes -> Counts]
    /\ IsMap(recording, RequestGoroutines,
             [at : {"globalOK", "platform", "platformOK"}, platform : MetricPlatforms, ok : BOOLEAN])
    /\ baseline \in [Scopes -> Counts]
    /\ aggregation \in [by : {"none", "ticker", "stop"}, unread : SUBSET Scopes,
                        reading : SUBSET Scopes, seen : [Scopes -> Counts]]
    /\ currentBucket \in Bucket
    /\ cutBuckets \subseteq Bucket
    /\ pendingTasks \in Seq(Bucket)
    /\ taskWritten \in BOOLEAN
    /\ IsMap(bucketRows, 0..MaxBuckets, [Scopes -> Counts])
    /\ bucketTime \in 0..MaxBuckets
    /\ managerPhase \in {"running", "stopping", "drain", "stopped"}

MetricsInit ==
    /\ counters = Zero
    /\ recording = EmptyMap
    /\ baseline = Zero
    /\ aggregation = [by |-> "none", unread |-> {}, reading |-> {}, seen |-> Zero]
    /\ currentBucket = [start |-> 0, counts |-> Zero]
    /\ cutBuckets = {}
    /\ pendingTasks = <<>>
    /\ taskWritten = FALSE
    /\ bucketRows = EmptyMap
    /\ bucketTime = 0
    /\ managerPhase = "running"

-----------------------------------------------------------------------------
(* Collector.RecordRequest: four atomic additions *)

Add(scope, field) == counters' = [counters EXCEPT ![scope][field] = @ + 1]
OnlyRecording == UNCHANGED <<baseline, aggregation, currentBucket, cutBuckets, tasks,
                             bucketTime, managerPhase>>
RecordingAt(g, phase) == g \in DOMAIN recording /\ recording[g].at = phase
RecordingGoto(g, phase) == recording' = [recording EXCEPT ![g].at = phase]

RecordRequest(g, p, ok) ==
    /\ g \notin DOMAIN recording
    /\ managerPhase = "running"
    /\ counters[GlobalScope].requests < MaxRequests
    /\ Add(GlobalScope, "requests")
    /\ recording' = MapPut(recording, g,
                      [at |-> IF ok THEN "globalOK" ELSE "platform", platform |-> p, ok |-> ok])
    /\ OnlyRecording

RecordGlobalOK(g) ==
    /\ RecordingAt(g, "globalOK")
    /\ Add(GlobalScope, "success")
    /\ RecordingGoto(g, "platform")
    /\ OnlyRecording

RecordPlatform(g) ==
    /\ RecordingAt(g, "platform")
    /\ Add(recording[g].platform, "requests")
    /\ IF recording[g].ok THEN RecordingGoto(g, "platformOK")
       ELSE recording' = MapDelete(recording, g)
    /\ OnlyRecording

RecordPlatformOK(g) ==
    /\ RecordingAt(g, "platformOK")
    /\ Add(recording[g].platform, "success")
    /\ recording' = MapDelete(recording, g)
    /\ OnlyRecording

-----------------------------------------------------------------------------
(* aggregateCollectorDeltasIntoBucketLocked, MaybeFlush *)

OnlyAggregation == UNCHANGED <<counters, recording, cutBuckets, tasks, bucketTime, managerPhase>>

BeginAggregation(by) ==
    /\ aggregation.by = "none"
    /\ \/ by = "ticker" /\ managerPhase = "running"
       \/ by = "stop" /\ managerPhase = "stopping"
    /\ aggregation' = [by |-> by, unread |-> Scopes, reading |-> {}, seen |-> Zero]
    /\ UNCHANGED <<baseline, currentBucket>> /\ OnlyAggregation

\* snapshot: the requests of a scope, then its successes; global comes first.
ReadRequests(scope) ==
    /\ aggregation.reading = {}
    /\ scope \in aggregation.unread
    /\ GlobalScope \in aggregation.unread => scope = GlobalScope
    /\ aggregation' = [aggregation EXCEPT !.unread = @ \ {scope}, !.reading = {scope},
                         !.seen[scope].requests = counters[scope].requests]
    /\ UNCHANGED <<baseline, currentBucket>> /\ OnlyAggregation

ReadSuccess(scope) ==
    /\ scope \in aggregation.reading
    /\ aggregation' = [aggregation EXCEPT !.reading = {},
                         !.seen[scope].success = counters[scope].success]
    /\ UNCHANGED <<baseline, currentBucket>> /\ OnlyAggregation

NonNegativeDelta(a, b) == IF a > b THEN a - b ELSE 0
Least(a, b) == IF a < b THEN a ELSE b

\* Mutant: the clamp of a scope's successes is missing.
DeltaUnclamped(seen, scope) ==
    [requests |-> NonNegativeDelta(seen[scope].requests, baseline[scope].requests),
     success |-> NonNegativeDelta(seen[scope].success, baseline[scope].success)]

\* New requests of a scope and how many of them succeeded, never more than all.
Delta(seen, scope) ==
    LET requests == NonNegativeDelta(seen[scope].requests, baseline[scope].requests)
    IN  [requests |-> requests,
         success |-> Least(requests,
                       NonNegativeDelta(seen[scope].success, baseline[scope].success))]

\* What the platforms add to the global scope too, and what is left of the
\* global count, requests of no platform.
Deltas(seen) ==
    LET of(p) == Delta(seen, p)
        all == Delta(seen, GlobalScope)
        requests == MapThenSumSet(LAMBDA p : of(p).requests, MetricPlatforms)
        success == MapThenSumSet(LAMBDA p : of(p).success, MetricPlatforms)
        only == NonNegativeDelta(all.requests, requests)
        onlyOK == Least(only, NonNegativeDelta(all.success, success))
    IN  [s \in Scopes |->
           IF s \in MetricPlatforms THEN of(s)
           ELSE [requests |-> requests + only, success |-> success + onlyOK]]

Plus(a, b) == [s \in Scopes |-> [requests |-> a[s].requests + b[s].requests,
                                 success |-> a[s].success + b[s].success]]

\* Mutant: a cut bucket is not emptied.
KeepCounts(counts) == counts

\* A cut bucket starts again with nothing.
ResetCounts(counts) == Zero

\* The end of the aggregation: the bucket takes the deltas. Past its end it is cut
\* and the bucket of this time begins (MaybeFlush); Stop cuts it when it holds
\* anything, and begins no other (ForceFlush).
CutBucket ==
    LET counts == Plus(currentBucket.counts, Deltas(aggregation.seen))
        stop == aggregation.by = "stop"
    IN  /\ aggregation.by # "none" /\ aggregation.unread = {} /\ aggregation.reading = {}
        /\ baseline' = aggregation.seen
        /\ aggregation' = [aggregation EXCEPT !.by = "none", !.seen = Zero]
        /\ IF IF stop THEN counts # Zero ELSE bucketTime > currentBucket.start
           THEN /\ cutBuckets' = cutBuckets \cup {[currentBucket EXCEPT !.counts = counts]}
                /\ currentBucket' = [start |-> IF stop THEN currentBucket.start ELSE bucketTime,
                                     counts |-> ResetCounts(counts)]
           ELSE /\ currentBucket' = [currentBucket EXCEPT !.counts = counts]
                /\ UNCHANGED cutBuckets
        /\ managerPhase' = IF stop THEN "drain" ELSE managerPhase
        /\ UNCHANGED <<counters, recording, tasks, bucketTime>>

BucketBoundary ==
    /\ bucketTime < MaxBuckets
    /\ managerPhase = "running"
    /\ bucketTime' = bucketTime + 1
    /\ UNCHANGED <<counters, recording, baseline, aggregation, currentBucket, cutBuckets,
                   tasks, managerPhase>>

-----------------------------------------------------------------------------
(* Tasks: enqueuePersistTask, flushPendingTasks, drainPendingTasks *)

OnlyTasks == UNCHANGED <<counters, recording, baseline, aggregation, currentBucket,
                         bucketTime>>

\* After stateMu is released, so two aggregations may get here in either order.
EnqueuePersistTask(b) ==
    /\ b \in cutBuckets
    /\ cutBuckets' = cutBuckets \ {b}
    /\ pendingTasks' = Append(pendingTasks, b)
    /\ OnlyTasks /\ UNCHANGED <<taskWritten, bucketRows, managerPhase>>

\* WriteBucket, one transaction that overwrites the bucket's rows.
WriteBucket ==
    /\ pendingTasks # <<>> /\ ~taskWritten
    /\ managerPhase # "stopped"
    /\ bucketRows' = MapPut(bucketRows, Head(pendingTasks).start, Head(pendingTasks).counts)
    /\ taskWritten' = TRUE
    /\ OnlyTasks /\ UNCHANGED <<pendingTasks, cutBuckets, managerPhase>>

\* Mutant: a task leaves the list before it is written.
PopFirst ==
    /\ taskWritten
    /\ taskWritten' = FALSE
    /\ pendingTasks' \in {Tail(pendingTasks),
                          IF Len(pendingTasks) > 1 THEN Tail(Tail(pendingTasks)) ELSE <<>>}
    /\ OnlyTasks /\ UNCHANGED <<bucketRows, cutBuckets, managerPhase>>

\* The task's other rows, the histograms, may fail: then all of it is retried.
WriteRest ==
    /\ taskWritten
    /\ taskWritten' = FALSE
    /\ pendingTasks' \in {pendingTasks, Tail(pendingTasks)}
    /\ OnlyTasks /\ UNCHANGED <<bucketRows, cutBuckets, managerPhase>>

StopManager ==
    /\ managerPhase = "running"
    /\ aggregation.by = "none"
    /\ recording = EmptyMap
    /\ managerPhase' = "stopping"
    /\ OnlyTasks /\ UNCHANGED <<tasks, cutBuckets>>

\* Nothing is left, or a task failed three times.
DrainEnds ==
    /\ managerPhase = "drain"
    /\ cutBuckets = {} /\ ~taskWritten
    /\ managerPhase' = "stopped"
    /\ OnlyTasks /\ UNCHANGED <<tasks, cutBuckets>>

-----------------------------------------------------------------------------
MetricsNext ==
    \/ \E g \in RequestGoroutines :
         \/ \E p \in MetricPlatforms, ok \in BOOLEAN : RecordRequest(g, p, ok)
         \/ RecordGlobalOK(g) \/ RecordPlatform(g) \/ RecordPlatformOK(g)
    \/ \E by \in {"ticker", "stop"} : BeginAggregation(by)
    \/ \E s \in Scopes : ReadRequests(s) \/ ReadSuccess(s)
    \/ CutBucket \/ BucketBoundary
    \/ \E b \in cutBuckets : EnqueuePersistTask(b)
    \/ WriteBucket \/ WriteRest \/ StopManager \/ DrainEnds

MetricsSpec == MetricsInit /\ [][MetricsNext]_metricsVars

-----------------------------------------------------------------------------
(* Properties *)

\* Buckets on their way to the database, the rows no such bucket will replace,
\* and the requests counted in them: each bucket's, numbered.
Tasks == cutBuckets \cup ToSet(pendingTasks)
Unwritten == {currentBucket} \cup Tasks
Starts(buckets) == {b.start : b \in buckets}
Stored == {[start |-> t, counts |-> bucketRows[t]] : t \in DOMAIN bucketRows \ Starts(Tasks)}
RequestsIn(buckets, scope) == UNION {{b} \X (1..b.counts[scope].requests) : b \in buckets}
Reported(scope) ==
    Cardinality(RequestsIn(Unwritten, scope)) + Cardinality(RequestsIn(Stored, scope))

\* Every request of a platform that an aggregation has seen is in exactly one
\* bucket, wherever that bucket is: cut by the ticker or by a query, waiting,
\* half written and retried; and until Stop cuts the last one no two buckets
\* are for one time, so that none overwrites the other's rows
\* (Manager.aggregateCollectorDeltasIntoBucketLocked, flushPendingTasks).
PlatformCountsOnce ==
    /\ managerPhase \in {"running", "stopping"} =>
         \A b, c \in Unwritten : b.start = c.start => b = c
    /\ \A p \in MetricPlatforms : Reported(p) = baseline[p].requests

\* The same for all platforms together, which does not hold: an aggregation
\* between the two increments of RecordRequest counts the request under no
\* platform, and the next one counts it again under its own.
GlobalCountsOnce ==
    Reported(GlobalScope) <= counters[GlobalScope].requests
=============================================================================
