----------------------------- MODULE RequestLog -----------------------------
(***************************************************************************)
(* The request log: requests emit entries into a bounded channel and never *)
(* wait; one goroutine collects batches and inserts them into the active   *)
(* SQLite file, rotates the file when it is full and prunes old ones; a    *)
(* query first makes the writer flush (the read barrier), then reads the   *)
(* retained files one by one, newest first.                                *)
(*                                                                         *)
(* The loop's select takes any ready case; a full insert is two steps, the *)
(* rotation check and the transaction, because queries read files between  *)
(* them.  A file is an identity and the set of entries in it.  An entry    *)
(* that left the log may be emitted again, which stands for endless traffic.*)
(***************************************************************************)
EXTENDS Naturals, FiniteSets, Sequences, SequencesExt

CONSTANTS
    LogEntries,
    LogFiles,        \* names of database files; at least RetainCount + 2
    Readers,         \* goroutines that serve a query
    LogQueueSize,    \* capacity of the channel
    FlushBatch,      \* entries of a batch
    MaxRows,         \* entries that make a file reach maxBytes
    RetainCount,     \* files kept
    MaxLogFaults,    \* bound: failed rotations
    NoFile           \* no active database

ASSUME LogAssumption ==
    /\ RetainCount \in Nat \ {0}
    /\ NoFile \notin LogFiles

VARIABLES
    logQueue, batch, flushLoop,
    dbFiles, dbRows, activeDB, logFaults,
    flushReq,        \* queries whose barrier the loop has not taken
    queries,         \* reader -> the query it serves
    logStopped,
    gone             \* entries lost with a failed insert or pruned with their file

logVars == <<logQueue, batch, flushLoop, dbFiles, dbRows, activeDB, logFaults,
             flushReq, queries, logStopped, gone>>
store == <<dbFiles, dbRows, activeDB, logFaults, gone>>

LoopPhases == {"select", "collect", "snapshot", "drain", "release", "final",
               "flush", "insert", "ended"}
QueryPhases == {"idle", "barrier", "waiting", "released", "read", "done"}
Query == [at : QueryPhases, due : SUBSET LogEntries, files : SUBSET LogFiles,
          seen : SUBSET LogEntries]
NoQuery == [at |-> "idle", due |-> {}, files |-> {}, seen |-> {}]

LogTypeOK ==
    /\ logQueue \in SeqOf(LogEntries, LogQueueSize)
    /\ batch \in SeqOf(LogEntries, FlushBatch)
    /\ flushLoop \in [at : LoopPhases, next : LoopPhases, pending : 0..LogQueueSize,
                      waiters : SUBSET Readers]
    /\ dbFiles \in SeqOf(LogFiles, Cardinality(LogFiles))
    /\ dbRows \in [LogFiles -> SUBSET LogEntries]
    /\ activeDB \in LogFiles \cup {NoFile}
    /\ logFaults \in 0..MaxLogFaults
    /\ flushReq \subseteq Readers
    /\ queries \in [Readers -> Query]
    /\ logStopped \in BOOLEAN
    /\ gone \subseteq LogEntries

\* Open with no file in the directory: rotateDB creates the first one.
LogInit ==
    /\ logQueue = <<>>
    /\ batch = <<>>
    /\ flushLoop = [at |-> "select", next |-> "select", pending |-> 0, waiters |-> {}]
    /\ \E f \in LogFiles : dbFiles = <<f>> /\ activeDB = f
    /\ dbRows = [f \in LogFiles |-> {}]
    /\ logFaults = 0
    /\ flushReq = {}
    /\ queries = [r \in Readers |-> NoQuery]
    /\ logStopped = FALSE
    /\ gone = {}

-----------------------------------------------------------------------------
(* The hot path *)

Stored == UNION {dbRows[f] : f \in ToSet(dbFiles)}
InLog == ToSet(logQueue) \cup ToSet(batch) \cup Stored

\* A full queue drops the entry, which changes nothing.
EmitRequestLog(e) ==
    /\ e \notin InLog
    /\ \A r \in Readers : e \notin queries[r].due
    /\ Len(logQueue) < LogQueueSize
    /\ logQueue' = Append(logQueue, e)
    /\ gone' = gone \ {e}
    /\ UNCHANGED <<batch, flushLoop, dbFiles, dbRows, activeDB, logFaults, flushReq,
                   queries, logStopped>>

-----------------------------------------------------------------------------
(* The flush loop *)

LoopAt(phase) == flushLoop.at = phase
LoopGoto(phase) == flushLoop' = [flushLoop EXCEPT !.at = phase]

\* After one more entry: flush a full batch, then go on where the loop was.
Collect(phase, left) ==
    /\ logQueue # <<>>
    /\ logQueue' = Tail(logQueue)
    /\ batch' = Append(batch, Head(logQueue))
    /\ flushLoop' = [flushLoop EXCEPT
                       !.pending = left,
                       !.next = phase,
                       !.at = IF Len(batch) + 1 >= FlushBatch THEN "flush" ELSE phase]
    /\ UNCHANGED <<store, flushReq, queries, logStopped>>

\* Flush what there is, then go to a phase.
FlushThen(phase) ==
    /\ flushLoop' = [flushLoop EXCEPT
                       !.next = phase,
                       !.at = IF batch = <<>> THEN phase ELSE "flush"]
    /\ UNCHANGED <<logQueue, batch, store, flushReq, queries, logStopped>>

TakeEntry == LoopAt("select") /\ Collect("select", 0)

FlushTick == LoopAt("select") /\ batch # <<>> /\ FlushThen("select")

\* A waiter from the channel: the first one starts the barrier, then all others
\* that are there.
TakeWaiter(r) ==
    /\ flushLoop.at \in {"select", "collect"}
    /\ r \in flushReq
    /\ flushReq' = flushReq \ {r}
    /\ flushLoop' = [flushLoop EXCEPT !.at = "collect", !.waiters = @ \cup {r}]
    /\ UNCHANGED <<logQueue, batch, store, queries, logStopped>>

WaitersCollected ==
    /\ LoopAt("collect")
    /\ flushReq = {}
    /\ LoopGoto("snapshot")
    /\ UNCHANGED <<logQueue, batch, store, flushReq, queries, logStopped>>

\* Mutant: the depth of the queue is not taken, only the batch is flushed.
SnapshotNothing ==
    /\ LoopAt("snapshot")
    /\ flushLoop' = [flushLoop EXCEPT !.at = "drain", !.pending = 0]
    /\ UNCHANGED <<logQueue, batch, store, flushReq, queries, logStopped>>

SnapshotPending ==
    /\ LoopAt("snapshot")
    /\ flushLoop' = [flushLoop EXCEPT !.at = "drain", !.pending = Len(logQueue)]
    /\ UNCHANGED <<logQueue, batch, store, flushReq, queries, logStopped>>

\* Mutant: the barrier drains until the queue is empty.
DrainAll ==
    /\ LoopAt("drain")
    /\ \/ Collect("drain", flushLoop.pending)
       \/ logQueue = <<>> /\ FlushThen("release")

DrainPending ==
    /\ LoopAt("drain")
    /\ \/ flushLoop.pending > 0 /\ Collect("drain", flushLoop.pending - 1)
       \/ flushLoop.pending = 0 /\ FlushThen("release")

ReleaseWaiters ==
    /\ LoopAt("release")
    /\ queries' = [r \in Readers |->
                     IF r \in flushLoop.waiters /\ queries[r].at = "waiting"
                     THEN [queries[r] EXCEPT !.at = "released"] ELSE queries[r]]
    /\ flushLoop' = [flushLoop EXCEPT !.at = "select", !.waiters = {}]
    /\ UNCHANGED <<logQueue, batch, store, flushReq, logStopped>>

StopLoop ==
    /\ LoopAt("select")
    /\ logStopped
    /\ LoopGoto("final")
    /\ UNCHANGED <<logQueue, batch, store, flushReq, queries, logStopped>>

DrainAndFlush ==
    /\ LoopAt("final")
    /\ \/ Collect("final", 0)
       \/ logQueue = <<>> /\ FlushThen("ended")

-----------------------------------------------------------------------------
(* InsertBatch *)

NewestFirst(files) == SubSeq(files, IF Len(files) > RetainCount
                                    THEN Len(files) - RetainCount + 1 ELSE 1, Len(files))
Fresh == LogFiles \ (ToSet(dbFiles) \cup UNION {queries[r].files : r \in Readers})
Full == activeDB # NoFile /\ Cardinality(dbRows[activeDB]) >= MaxRows

\* The batch is emptied whether or not the insert failed.
BatchDone ==
    /\ batch' = <<>>
    /\ LoopGoto(flushLoop.next)

\* recoverActiveDB, maybeRotate: no active database, or a full one.
RotateDB(f) ==
    /\ LoopAt("flush")
    /\ activeDB = NoFile \/ Full
    /\ f \in Fresh
    /\ LET kept == NewestFirst(Append(dbFiles, f))
           rows == [dbRows EXCEPT ![f] = {}]
       IN  /\ dbFiles' = kept
           /\ dbRows' = [g \in LogFiles |-> IF g \in ToSet(kept) THEN rows[g] ELSE {}]
           /\ gone' = gone \cup UNION {dbRows[g] : g \in ToSet(dbFiles) \ ToSet(kept)}
    /\ activeDB' = f
    /\ LoopGoto("insert")
    /\ UNCHANGED <<logQueue, batch, logFaults, flushReq, queries, logStopped>>

\* The old file is closed, the new one does not open; it may exist by then.
RotateFails ==
    /\ LoopAt("flush")
    /\ activeDB = NoFile \/ Full
    /\ logFaults < MaxLogFaults
    /\ logFaults' = logFaults + 1
    /\ activeDB' = NoFile
    /\ \E created \in {dbFiles} \cup {Append(dbFiles, f) : f \in Fresh} : dbFiles' = created
    /\ gone' = gone \cup ToSet(batch)
    /\ BatchDone
    /\ UNCHANGED <<logQueue, dbRows, flushReq, queries, logStopped>>

NoRotation ==
    /\ LoopAt("flush")
    /\ activeDB # NoFile /\ ~Full
    /\ LoopGoto("insert")
    /\ UNCHANGED <<logQueue, batch, store, flushReq, queries, logStopped>>

\* One transaction: all rows but those that fail one by one, or none.
InsertBatch ==
    /\ LoopAt("insert")
    /\ \E rows \in {ToSet(batch)} \cup {ToSet(batch) \ {e} : e \in ToSet(batch)} \cup {{}} :
         /\ dbRows' = [dbRows EXCEPT ![activeDB] = @ \cup rows]
         /\ gone' = gone \cup (ToSet(batch) \ rows)
    /\ BatchDone
    /\ UNCHANGED <<logQueue, dbFiles, activeDB, logFaults, flushReq, queries, logStopped>>

-----------------------------------------------------------------------------
(* Queries: List, GetByID, GetPayloads *)

QueryAt(r, phase) == queries[r].at = phase
QueryGoto(r, phase) == queries' = [queries EXCEPT ![r].at = phase]
OnlyQueries == UNCHANGED <<logQueue, batch, flushLoop, store, logStopped>>

\* runReadBarrier: Stop has taken the barrier away.
BeginQuery(r) ==
    /\ QueryAt(r, "idle")
    /\ queries' = [queries EXCEPT ![r] =
                     [NoQuery EXCEPT !.at = IF logStopped THEN "released" ELSE "barrier",
                                     !.due = InLog]]
    /\ OnlyQueries /\ UNCHANGED flushReq

\* FlushNow: the request for a flush, then the wait for it; Stop ends both.
SendFlushReq(r) ==
    /\ QueryAt(r, "barrier")
    /\ flushReq' = flushReq \cup {r}
    /\ QueryGoto(r, "waiting")
    /\ OnlyQueries

BarrierStopped(r) ==
    /\ queries[r].at \in {"barrier", "waiting"}
    /\ logStopped
    /\ QueryGoto(r, "released")
    /\ OnlyQueries /\ UNCHANGED flushReq

ListDBFiles(r) ==
    /\ QueryAt(r, "released")
    /\ queries' = [queries EXCEPT ![r].at = "read", ![r].files = ToSet(dbFiles)]
    /\ OnlyQueries /\ UNCHANGED flushReq

\* From the newest file listed to the oldest; a pruned one is skipped.
ReadFile(r) ==
    /\ QueryAt(r, "read")
    /\ LET q == queries[r]
           left == {i \in DOMAIN dbFiles : dbFiles[i] \in q.files}
           newest == dbFiles[Max(left)]
       IN  queries' = [queries EXCEPT ![r] =
             IF left = {} THEN [q EXCEPT !.at = "done", !.files = {}]
             ELSE [q EXCEPT !.files = q.files \ {newest}, !.seen = q.seen \cup dbRows[newest]]]
    /\ OnlyQueries /\ UNCHANGED flushReq

EndQuery(r) ==
    /\ QueryAt(r, "done")
    /\ queries' = [queries EXCEPT ![r] = NoQuery]
    /\ OnlyQueries /\ UNCHANGED flushReq

StopLog ==
    /\ ~logStopped
    /\ logStopped' = TRUE
    /\ UNCHANGED <<logQueue, batch, flushLoop, store, flushReq, queries>>

-----------------------------------------------------------------------------
LoopStep ==
    \/ TakeEntry \/ FlushTick
    \/ WaitersCollected \/ SnapshotPending \/ DrainPending \/ ReleaseWaiters
    \/ StopLoop \/ DrainAndFlush
    \/ NoRotation \/ InsertBatch
    \/ RotateFails
    \/ \E f \in LogFiles : RotateDB(f)

QueryContinues(r) ==
    SendFlushReq(r) \/ BarrierStopped(r) \/ ListDBFiles(r) \/ ReadFile(r) \/ EndQuery(r)

LogNext ==
    \/ LoopStep
    \/ \E e \in LogEntries : EmitRequestLog(e)
    \/ \E r \in Readers : TakeWaiter(r) \/ QueryContinues(r) \/ BeginQuery(r)
    \/ StopLog

\* The loop always goes on, and its select, which takes a ready case at random,
\* does not pass over a waiter for ever.
LogFairness ==
    /\ WF_logVars(LoopStep)
    /\ \A r \in Readers : SF_logVars(TakeWaiter(r)) /\ WF_logVars(QueryContinues(r))

LogSpec == LogInit /\ [][LogNext]_logVars /\ LogFairness

-----------------------------------------------------------------------------
(* Properties *)

\* A query sees every entry that was accepted before it began, unless the insert
\* of that entry failed or its file was pruned: the barrier reaches the queue,
\* the batch and the transaction (Repo.runReadBarrier, Service.FlushNow).
QuerySeesAccepted ==
    \A r \in Readers :
      QueryAt(r, "done") /\ ~logStopped => queries[r].due \subseteq queries[r].seen \cup gone

\* A query ends though entries never stop coming (the bound on the barrier's
\* work in Service.flushOnBarrier).
QueryReturns ==
    \A r \in Readers : ~QueryAt(r, "idle") ~> QueryAt(r, "idle")
=============================================================================
