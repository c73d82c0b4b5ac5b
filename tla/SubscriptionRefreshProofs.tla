--------------------- MODULE SubscriptionRefreshProofs ---------------------
(***************************************************************************)
(* Proofs about SubscriptionRefresh, for any subscriptions, nodes,         *)
(* goroutines and bounds: references match what is listed, no stale error  *)
(* is shown, and the detailed specification implements SubscriptionContent.*)
(***************************************************************************)
EXTENDS SubscriptionRefresh, ConcurrentMapProofs

\* The nodes of s that should be in the pool.
Live(s) == Listed(s) \ Evicted(s)

\* The goroutines in a locked section, those of them that change references,
\* and those of these that install the result of a refresh.
HoldsLock(w) == At(w, "confirm") \/ At(w, "apply")
Changing(w, s) == At(w, "apply") /\ jobs[w].sub = s
Installing(w, s) == Changing(w, s) /\ jobs[w].fin = "applied"

\* The goroutines that carry the number of a refresh attempt.
Numbered(w) ==
    /\ w \in DOMAIN jobs
    /\ \/ jobs[w].pc \in {"inputs", "version", "fetch", "failed", "fetched"}
       \/ Installing(w, jobs[w].sub)

\* One goroutine at a time holds the opLock of a subscription.
LockInv ==
    \A v, w \in Workers : HoldsLock(v) /\ HoldsLock(w) /\ jobs[v].sub = jobs[w].sub => v = w

\* A job is about a subscription that was created; it plans changes only in
\* its locked section, and the candidates of a cleanup are live nodes.
JobInv ==
    \A w \in DOMAIN jobs :
        /\ version[jobs[w].sub] > 0
        /\ jobs[w].pc # "apply" => jobs[w].add = {} /\ jobs[w].drop = {} /\ jobs[w].fin = "release"
        /\ jobs[w].pc = "confirm" => jobs[w].got \subseteq Live(jobs[w].sub)

\* Attempts under way have numbers of their own, handed out already, and not
\* that of the attempt applied last.
SeqInv ==
    \A w \in Workers :
        Numbered(w) =>
            /\ jobs[w].seq > 0
            /\ jobs[w].seq <= attempts[jobs[w].sub]
            /\ jobs[w].seq # applied[jobs[w].sub]
            /\ \A v \in Workers :
                 Numbered(v) /\ jobs[v].sub = jobs[w].sub /\ jobs[v].seq = jobs[w].seq => v = w

\* What is listed comes from the attempt applied last, or from the one that is
\* being installed, which is not older.
InstallInv ==
    \A s \in Subs :
        /\ applied[s] <= attempts[s]
        /\ (\A w \in Workers : ~Installing(w, s)) => source[s] = applied[s]
        /\ \A w \in Workers :
             Installing(w, s) => source[s] = jobs[w].seq /\ applied[s] <= jobs[w].seq

\* The references of a registered subscription are those of its live nodes,
\* up to the changes a locked section still has to make.
RefsInv ==
    \A s \in registered :
        /\ version[s] > 0
        /\ (\A w \in Workers : ~Changing(w, s)) => Held(s) = Live(s)
        /\ \A w \in Workers :
             Changing(w, s) /\ jobs[w].fin # "unregister"
                => (Held(s) \cup jobs[w].add) \ jobs[w].drop = Live(s)

\* A subscription that was never created has nothing.
UnbornInv == \A s \in Subs : version[s] = 0 => Listed(s) = {} /\ Held(s) = {}

Inv ==
    /\ TypeOK
    /\ LockInv
    /\ JobInv
    /\ SeqInv
    /\ InstallInv
    /\ RefsInv
    /\ UnbornInv
    /\ NoStaleError

-----------------------------------------------------------------------------
\* The initial states satisfy the invariant: nothing is listed or under way.
LEMMA InvInit == Init => Inv
<1> SUFFICES ASSUME Init PROVE Inv
  OBVIOUS
<1>1. /\ \A K, V : IsMap(EmptyMap, K, V)
      /\ DOMAIN EmptyMap = {}
  BY EmptyMapType
<1>2. TypeOK
  BY <1>1 DEF Init, TypeOK
<1>3. /\ \A w \in Workers : w \notin DOMAIN jobs
      /\ \A s \in Subs : Listed(s) = {} /\ Evicted(s) = {} /\ Held(s) = {}
  BY <1>1 DEF Init, Listed, Evicted, Held
<1>4. LockInv /\ JobInv /\ SeqInv
  BY <1>1, <1>3 DEF Init, LockInv, JobInv, SeqInv, HoldsLock, Numbered, At
<1>5. InstallInv /\ NoStaleError
  BY <1>3 DEF Init, InstallInv, NoStaleError, Installing, Changing, At
<1>6. RefsInv /\ UnbornInv
  BY <1>3 DEF Init, RefsInv, UnbornInv, Changing, At, Live
<1> QED
  BY <1>2, <1>4, <1>5, <1>6 DEF Inv

-----------------------------------------------------------------------------
\* The jobs of the goroutines other than w stay as they are.
OnlyJob(w) ==
    \A v \in Workers \ {w} :
        /\ v \in DOMAIN jobs' <=> v \in DOMAIN jobs
        /\ v \in DOMAIN jobs => jobs'[v] = jobs[v]

\* A goroutine that starts.
LEMMA JobStarts ==
    ASSUME IsMap(jobs, Workers, Job), NEW w \in Workers, NEW s \in Subs, NEW phase \in Phases,
           Start(w, phase, s)
    PROVE  /\ IsMap(jobs', Workers, Job) /\ OnlyJob(w)
           /\ w \notin DOMAIN jobs /\ w \in DOMAIN jobs'
           /\ jobs'[w] = NewJob(phase, s)
<1>1. NewJob(phase, s) \in Job
  BY DEF NewJob, Job
<1> QED
  BY <1>1 DEF Start, IsMap, MapPut, OnlyJob

\* A goroutine that ends.
LEMMA JobEnds ==
    ASSUME IsMap(jobs, Workers, Job), NEW w, Done(w)
    PROVE  IsMap(jobs', Workers, Job) /\ OnlyJob(w) /\ w \notin DOMAIN jobs'
BY DEF Done, MapDelete, IsMap, OnlyJob

\* A goroutine that goes on with a well-typed job.
LEMMA JobBecomes ==
    ASSUME IsMap(jobs, Workers, Job), NEW w \in DOMAIN jobs, NEW j \in Job, Become(w, j)
    PROVE  IsMap(jobs', Workers, Job) /\ OnlyJob(w) /\ w \in DOMAIN jobs' /\ jobs'[w] = j
BY DEF Become, IsMap, OnlyJob

\* A step of one goroutine outside "apply" that changes nothing but its job
\* keeps the invariant, when the new job is sound and takes no lock that is
\* held and no number it did not have.
LEMMA JobStep ==
    ASSUME Inv, NEW w \in Workers, OnlyJob(w), IsMap(jobs', Workers, Job),
           UNCHANGED <<config, progress, content, pool>>,
           ~At(w, "apply"),
           w \in DOMAIN jobs' =>
             /\ version[jobs'[w].sub] > 0
             /\ jobs'[w].pc # "apply"
                  => jobs'[w].add = {} /\ jobs'[w].drop = {} /\ jobs'[w].fin = "release"
             /\ jobs'[w].pc = "confirm" => jobs'[w].got \subseteq Live(jobs'[w].sub)
             /\ jobs'[w].pc = "apply" =>
                  /\ jobs'[w].fin # "applied"
                  /\ jobs'[w].fin # "unregister" /\ jobs'[w].sub \in registered
                       => (Live(jobs'[w].sub) \cup jobs'[w].add) \ jobs'[w].drop = Live(jobs'[w].sub)
             /\ HoldsLock(w)' => ~Locked(jobs'[w].sub)
             /\ Numbered(w)' => Numbered(w) /\ jobs'[w].sub = jobs[w].sub /\ jobs'[w].seq = jobs[w].seq
    PROVE  Inv'
<1> USE DEF config, progress, content, pool
<1>1. TypeOK'
  BY DEF Inv, TypeOK
<1>2. \A s \in Subs : Live(s)' = Live(s) /\ Held(s)' = Held(s) /\ Listed(s)' = Listed(s)
  BY DEF Live, Listed, Evicted, Held
<1>3. \A v \in Workers \ {w} :
        /\ HoldsLock(v)' <=> HoldsLock(v)
        /\ Numbered(v)' <=> Numbered(v)
        /\ \A s \in Subs : /\ Changing(v, s)' <=> Changing(v, s)
                           /\ Installing(v, s)' <=> Installing(v, s)
  BY DEF OnlyJob, HoldsLock, Numbered, Changing, Installing, At
<1>4. \A v \in DOMAIN jobs' : v \in Workers /\ jobs'[v] \in Job /\ jobs'[v].sub \in Subs
  BY DEF IsMap, Job
<1>5. \A s \in Subs : ~Changing(w, s) /\ ~Installing(w, s) /\ ~Installing(w, s)'
  BY DEF Changing, Installing, At
<1>6. JobInv'
  BY <1>2, <1>4 DEF Inv, JobInv, OnlyJob
<1>7. LockInv'
  <2>1. \A v \in Workers : HoldsLock(v)' /\ HoldsLock(w)' /\ jobs'[v].sub = jobs'[w].sub => v = w
    BY <1>3 DEF HoldsLock, At, Locked, OnlyJob
  <2> QED
    BY <1>3, <2>1 DEF Inv, LockInv, OnlyJob, HoldsLock, At
<1>8. SeqInv'
  BY <1>3 DEF Inv, SeqInv, OnlyJob, Numbered
<1>9. InstallInv'
  BY <1>3, <1>5 DEF Inv, InstallInv, Installing, Changing, At, OnlyJob
<1>10. RefsInv'
  <2> SUFFICES ASSUME NEW s \in registered
               PROVE  /\ version[s] > 0
                      /\ (\A v \in Workers : ~Changing(v, s)') => Held(s) = Live(s)
                      /\ \A v \in Workers :
                           Changing(v, s)' /\ jobs'[v].fin # "unregister"
                              => (Held(s) \cup jobs'[v].add) \ jobs'[v].drop = Live(s)
    BY <1>2 DEF RefsInv, Inv, TypeOK
  <2>1. s \in Subs
    BY DEF Inv, TypeOK
  <2>2. version[s] > 0 /\ ((\A v \in Workers : ~Changing(v, s)') => Held(s) = Live(s))
    BY <1>3, <1>5, <2>1 DEF Inv, RefsInv
  <2>3. ASSUME NEW v \in Workers, Changing(v, s)', jobs'[v].fin # "unregister"
        PROVE  (Held(s) \cup jobs'[v].add) \ jobs'[v].drop = Live(s)
    <3>1. CASE v # w
      BY <1>3, <2>1, <2>3, <3>1 DEF Inv, RefsInv, OnlyJob, Changing, At
    <3>2. CASE v = w
      <4>1. ~Locked(s)
        BY <2>3, <3>2 DEF Changing, HoldsLock, At
      <4>2. \A u \in Workers : ~Changing(u, s)
        BY <4>1 DEF Changing, At, Locked
      <4> QED
        BY <2>1, <2>3, <3>2, <4>2 DEF Inv, RefsInv, Changing, At
    <3> QED
      BY <3>1, <3>2
  <2> QED
    BY <2>2, <2>3
<1>11. UnbornInv' /\ NoStaleError'
  BY <1>2 DEF Inv, UnbornInv, NoStaleError
<1> QED
  BY <1>1, <1>6, <1>7, <1>8, <1>9, <1>10, <1>11 DEF Inv

-----------------------------------------------------------------------------
\* What the invariant says of the job of a goroutine at work.
LEMMA JobFacts ==
    ASSUME Inv, NEW w \in DOMAIN jobs
    PROVE  /\ w \in Workers /\ jobs[w] \in Job /\ jobs[w].sub \in Subs
           /\ version[jobs[w].sub] \in Nat /\ version[jobs[w].sub] > 0
           /\ jobs[w].pc # "apply" => jobs[w].add = {} /\ jobs[w].drop = {} /\ jobs[w].fin = "release"
<1>1. w \in Workers /\ jobs[w] \in Job
  BY MapValueType DEF Inv, TypeOK
<1> QED
  BY <1>1 DEF Inv, TypeOK, JobInv, Job

\* A goroutine that starts does nothing yet.
LEMMA StartInv ==
    ASSUME Inv, NEW w \in Workers, NEW s \in registered,
           NEW phase \in {"begin", "rename", "delete", "cleanup", "sweep"},
           Start(w, phase, s), UNCHANGED <<config, progress, content, pool>>
    PROVE  Inv'
<1>1. s \in Subs /\ version[s] > 0 /\ phase \in Phases
  BY DEF Inv, TypeOK, RefsInv, Phases
<1>2. /\ IsMap(jobs', Workers, Job) /\ OnlyJob(w)
      /\ w \notin DOMAIN jobs /\ w \in DOMAIN jobs'
      /\ jobs'[w] = NewJob(phase, s)
  BY <1>1, JobStarts DEF Inv, TypeOK
<1>3. ~HoldsLock(w)' /\ ~Numbered(w)' /\ ~At(w, "apply")
  BY <1>2 DEF HoldsLock, Numbered, Installing, Changing, At, NewJob
<1> QED
  BY <1>1, <1>2, <1>3, JobStep DEF NewJob

\* A refresh attempt reads its inputs and downloads.
LEMMA ReadInv ==
    ASSUME Inv, NEW w \in Workers, NEW j \in Job, w \in DOMAIN jobs, Become(w, j),
           jobs[w].pc \in {"inputs", "version", "fetch"},
           j.pc \in {"version", "fetch", "failed", "fetched"},
           j.sub = jobs[w].sub, j.seq = jobs[w].seq,
           j.add = jobs[w].add, j.drop = jobs[w].drop, j.fin = jobs[w].fin,
           UNCHANGED <<config, progress, content, pool>>
    PROVE  Inv'
<1>1. IsMap(jobs', Workers, Job) /\ OnlyJob(w) /\ w \in DOMAIN jobs' /\ jobs'[w] = j
  BY JobBecomes DEF Inv, TypeOK
<1>2. ~HoldsLock(w)' /\ Numbered(w) /\ ~At(w, "apply")
  BY <1>1 DEF HoldsLock, Numbered, At
<1> QED
  BY <1>1, <1>2, JobFacts, JobStep

\* A goroutine outside "apply" ends.
LEMMA EndInv ==
    ASSUME Inv, NEW w \in Workers, w \in DOMAIN jobs, jobs[w].pc # "apply", Done(w),
           UNCHANGED <<config, progress, content, pool>>
    PROVE  Inv'
<1>1. IsMap(jobs', Workers, Job) /\ OnlyJob(w) /\ w \notin DOMAIN jobs'
  BY JobEnds DEF Inv, TypeOK
<1> QED
  BY <1>1, JobStep DEF At

\* A refresh reads the configuration, then its version.
LEMMA ReadInputsInv ==
    ASSUME Inv, NEW w \in Workers, ReadInputs(w) \/ ReadVersion(w)
    PROVE  Inv'
<1>1. CASE ReadInputs(w)
  <2> DEFINE j == [jobs[w] EXCEPT !.pc = "version", !.input = input[jobs[w].sub]]
  <2>1. w \in DOMAIN jobs /\ jobs[w].pc = "inputs" /\ Become(w, j)
    BY <1>1 DEF ReadInputs, At
  <2>2. /\ j \in Job /\ j.pc = "version"
        /\ j.sub = jobs[w].sub /\ j.seq = jobs[w].seq
        /\ j.add = jobs[w].add /\ j.drop = jobs[w].drop /\ j.fin = jobs[w].fin
    <3>1. jobs[w] \in Job /\ input[jobs[w].sub] \in Inputs
      BY <2>1, JobFacts DEF Inv, TypeOK
    <3> QED
      BY <3>1 DEF Job, Phases
  <2> HIDE DEF j
  <2> QED
    BY <1>1, <2>1, <2>2, ReadInv DEF ReadInputs
<1>2. CASE ReadVersion(w)
  <2> DEFINE j == [jobs[w] EXCEPT !.pc = "fetch", !.ver = version[jobs[w].sub]]
  <2>1. w \in DOMAIN jobs /\ jobs[w].pc = "version" /\ Become(w, j)
    BY <1>2 DEF ReadVersion, At
  <2>2. /\ j \in Job /\ j.pc = "fetch"
        /\ j.sub = jobs[w].sub /\ j.seq = jobs[w].seq
        /\ j.add = jobs[w].add /\ j.drop = jobs[w].drop /\ j.fin = jobs[w].fin
    BY <2>1, JobFacts DEF Job, Phases
  <2> HIDE DEF j
  <2> QED
    BY <1>2, <2>1, <2>2, ReadInv DEF ReadVersion
<1> QED
  BY <1>1, <1>2

\* A download ends, outside the lock.
LEMMA FetchInv ==
    ASSUME Inv, NEW w \in Workers, NEW got \in SUBSET Nodes, FetchParse(w, got) \/ FetchFails(w)
    PROVE  Inv'
<1>1. w \in DOMAIN jobs /\ jobs[w].pc = "fetch"
  BY DEF FetchParse, FetchFails, At
<1>2. jobs[w] \in Job
  BY <1>1, JobFacts
<1>3. CASE FetchParse(w, got)
  <2> DEFINE j == [jobs[w] EXCEPT !.pc = "fetched", !.got = got]
  <2>1. /\ j \in Job /\ j.pc = "fetched"
        /\ j.sub = jobs[w].sub /\ j.seq = jobs[w].seq
        /\ j.add = jobs[w].add /\ j.drop = jobs[w].drop /\ j.fin = jobs[w].fin
    BY <1>2 DEF Job, Phases
  <2>2. Become(w, j)
    BY <1>3 DEF FetchParse
  <2> HIDE DEF j
  <2> QED
    BY <1>1, <1>3, <2>1, <2>2, ReadInv DEF FetchParse
<1>4. CASE FetchFails(w)
  <2> DEFINE j == [jobs[w] EXCEPT !.pc = "failed"]
  <2>1. /\ j \in Job /\ j.pc = "failed"
        /\ j.sub = jobs[w].sub /\ j.seq = jobs[w].seq
        /\ j.add = jobs[w].add /\ j.drop = jobs[w].drop /\ j.fin = jobs[w].fin
    BY <1>2 DEF Job, Phases
  <2>2. Become(w, j)
    BY <1>4 DEF FetchFails
  <2> HIDE DEF j
  <2> QED
    BY <1>1, <1>4, <2>1, <2>2, ReadInv DEF FetchFails
<1> QED
  BY <1>3, <1>4

\* A handler takes the free opLock.
LEMMA RenameInv ==
    ASSUME Inv, NEW w \in Workers, RenameSubscription(w)
    PROVE  Inv'
<1> DEFINE s == jobs[w].sub
           j == [jobs[w] EXCEPT !.pc = "apply", !.add = {n \in Listed(s) \ Evicted(s) : InPool(n)}]
<1>1. /\ w \in DOMAIN jobs /\ jobs[w].pc = "rename" /\ ~Locked(s)
      /\ Become(w, j) /\ UNCHANGED <<config, progress, content, pool>>
  BY DEF RenameSubscription, Takes, At
<1>2. jobs[w] \in Job /\ s \in Subs /\ version[s] > 0 /\ jobs[w].drop = {} /\ jobs[w].fin = "release"
  BY <1>1, JobFacts
<1>3. Listed(s) \subseteq Nodes
  BY <1>2 DEF Inv, TypeOK, IsMap, Listed
<1>4. /\ j \in Job /\ j.pc = "apply" /\ j.sub = s
      /\ j.add \subseteq Live(s) /\ j.drop = {} /\ j.fin = "release"
  BY <1>2, <1>3 DEF Job, Phases, Live
<1>5. IsMap(jobs', Workers, Job) /\ OnlyJob(w) /\ w \in DOMAIN jobs' /\ jobs'[w] = j
  BY <1>1, <1>4, JobBecomes DEF Inv, TypeOK
<1> HIDE DEF j
<1>6. ~Numbered(w)' /\ ~At(w, "apply")
  BY <1>1, <1>4, <1>5 DEF Numbered, Installing, At
<1> QED
  BY <1>1, <1>2, <1>4, <1>5, <1>6, JobStep

\* A subscription is deleted.
LEMMA DeleteInv ==
    ASSUME Inv, NEW w \in Workers, DeleteSubscription(w)
    PROVE  Inv'
<1> DEFINE s == jobs[w].sub
           j == [jobs[w] EXCEPT !.pc = "apply", !.fin = "unregister", !.drop = Listed(s)]
<1>1. /\ w \in DOMAIN jobs /\ jobs[w].pc = "delete" /\ ~Locked(s)
      /\ Become(w, j) \/ Done(w)
      /\ UNCHANGED <<config, progress, content, pool>>
  BY DEF DeleteSubscription, Takes, At
<1>2. CASE Done(w)
  BY <1>1, <1>2, EndInv
<1>3. CASE Become(w, j)
  <2>1. jobs[w] \in Job /\ s \in Subs /\ version[s] > 0
    BY <1>1, JobFacts
  <2>2. Listed(s) \subseteq Nodes
    BY <2>1 DEF Inv, TypeOK, IsMap, Listed
  <2>3. j \in Job /\ j.pc = "apply" /\ j.sub = s /\ j.fin = "unregister"
    BY <2>1, <2>2 DEF Job, Phases
  <2>4. IsMap(jobs', Workers, Job) /\ OnlyJob(w) /\ w \in DOMAIN jobs' /\ jobs'[w] = j
    BY <1>1, <1>3, <2>3, JobBecomes DEF Inv, TypeOK
  <2> HIDE DEF j
  <2>5. ~Numbered(w)' /\ ~At(w, "apply")
    BY <1>1, <2>3, <2>4 DEF Numbered, Installing, At
  <2> QED
    BY <1>1, <2>1, <2>3, <2>4, <2>5, JobStep
<1> QED
  BY <1>1, <1>2, <1>3

\* The first scan of a cleanup finds live nodes of its subscription.
LEMMA ScanInv ==
    ASSUME Inv, NEW w \in Workers, CleanupScan(w)
    PROVE  Inv'
<1> DEFINE s == jobs[w].sub
           candidates == {n \in Listed(s) \ Evicted(s) : ShouldRemove(n)}
           j == [jobs[w] EXCEPT !.pc = "confirm", !.got = candidates]
<1>1. /\ w \in DOMAIN jobs /\ jobs[w].pc \in {"cleanup", "sweep"} /\ ~Locked(s)
      /\ Become(w, j) \/ Done(w)
      /\ UNCHANGED <<config, progress, content, pool>>
  BY DEF CleanupScan, Takes, At
<1>2. CASE Done(w)
  BY <1>1, <1>2, EndInv
<1>3. CASE Become(w, j)
  <2>1. /\ jobs[w] \in Job /\ s \in Subs /\ version[s] > 0
        /\ jobs[w].add = {} /\ jobs[w].drop = {} /\ jobs[w].fin = "release"
    BY <1>1, JobFacts
  <2>2. Listed(s) \subseteq Nodes
    BY <2>1 DEF Inv, TypeOK, IsMap, Listed
  <2>3. candidates \subseteq Live(s) /\ candidates \subseteq Nodes
    BY <2>2 DEF Live
  <2>4. /\ j \in Job /\ j.pc = "confirm" /\ j.sub = s /\ j.got \subseteq Live(s)
        /\ j.add = {} /\ j.drop = {} /\ j.fin = "release"
    BY <2>1, <2>3 DEF Job, Phases
  <2>5. IsMap(jobs', Workers, Job) /\ OnlyJob(w) /\ w \in DOMAIN jobs' /\ jobs'[w] = j
    BY <1>1, <1>3, <2>4, JobBecomes DEF Inv, TypeOK
  <2> HIDE DEF j
  <2>6. ~Numbered(w)' /\ ~At(w, "apply")
    BY <1>1, <2>4, <2>5 DEF Numbered, Installing, Changing, At
  <2> QED
    BY <1>1, <2>1, <2>4, <2>5, <2>6, JobStep
<1> QED
  BY <1>1, <1>2, <1>3

-----------------------------------------------------------------------------
\* Derived sets depend on the contents and the references only.
LEMMA SameContent ==
    ASSUME UNCHANGED <<managed, refs>>
    PROVE  \A s \in Subs : /\ Live(s)' = Live(s) /\ Held(s)' = Held(s)
                           /\ Listed(s)' = Listed(s) /\ Evicted(s)' = Evicted(s)
BY DEF Live, Listed, Evicted, Held

\* The other goroutines keep their roles.
LEMMA SameRoles ==
    ASSUME NEW w \in Workers, OnlyJob(w)
    PROVE  \A v \in Workers \ {w} :
             /\ HoldsLock(v)' <=> HoldsLock(v)
             /\ Numbered(v)' <=> Numbered(v)
             /\ v \in DOMAIN jobs => jobs'[v] = jobs[v]
             /\ \A s \in Subs : /\ Changing(v, s)' <=> Changing(v, s)
                                /\ Installing(v, s)' <=> Installing(v, s)
BY DEF OnlyJob, HoldsLock, Numbered, Changing, Installing, At

\* A new attempt gets a number nobody has.
LEMMA NextAttemptSeqInv ==
    ASSUME Inv, NEW w \in Workers, NextAttemptSeq(w)
    PROVE  Inv'
<1> DEFINE s == jobs[w].sub
           j == [jobs[w] EXCEPT !.pc = "inputs", !.seq = attempts[s] + 1]
<1>1. /\ w \in DOMAIN jobs /\ jobs[w].pc = "begin" /\ Become(w, j)
      /\ attempts' = [attempts EXCEPT ![s] = @ + 1]
      /\ UNCHANGED <<registered, input, version, applied, lastError, managed, source, refs, unhealthy>>
  BY DEF NextAttemptSeq, At, config, content, pool
<1>2. /\ jobs[w] \in Job /\ s \in Subs /\ version[s] > 0 /\ attempts[s] \in Nat
      /\ jobs[w].add = {} /\ jobs[w].drop = {} /\ jobs[w].fin = "release"
  BY <1>1, JobFacts DEF Inv, TypeOK
<1>3. /\ j \in Job /\ j.pc = "inputs" /\ j.sub = s /\ j.seq = attempts[s] + 1
      /\ j.add = {} /\ j.drop = {} /\ j.fin = "release"
  <2>1. attempts[s] + 1 \in Nat
    BY <1>2
  <2> QED
    BY <1>2, <2>1 DEF Job, Phases
<1>4. IsMap(jobs', Workers, Job) /\ OnlyJob(w) /\ w \in DOMAIN jobs' /\ jobs'[w] = j
  BY <1>1, <1>3, JobBecomes DEF Inv, TypeOK
<1>5. \A v \in DOMAIN jobs' : v \in Workers /\ jobs'[v].sub \in Subs /\ jobs'[v].seq \in Nat
  BY <1>4 DEF IsMap, Job
<1> HIDE DEF j
<1>6. TypeOK'
  BY <1>1, <1>2, <1>4 DEF Inv, TypeOK
<1>7. \A t \in Subs : attempts'[t] = IF t = s THEN attempts[t] + 1 ELSE attempts[t]
  BY <1>1 DEF Inv, TypeOK
<1>8. ~HoldsLock(w) /\ ~HoldsLock(w)' /\ \A t \in Subs : ~Changing(w, t) /\ ~Changing(w, t)'
  BY <1>1, <1>3, <1>4 DEF HoldsLock, Changing, At
<1>9. LockInv' /\ JobInv'
  BY <1>1, <1>2, <1>3, <1>4, <1>5, <1>8, SameRoles, SameContent
  DEF Inv, LockInv, JobInv, HoldsLock, At, OnlyJob
<1>10. SeqInv'
  <2>1. ASSUME NEW v \in Workers \ {w}, Numbered(v)'
        PROVE  /\ Numbered(v) /\ jobs'[v] = jobs[v] /\ jobs[v].sub \in Subs
               /\ jobs[v].seq > 0 /\ jobs[v].seq <= attempts[jobs[v].sub]
               /\ jobs[v].seq # applied[jobs[v].sub]
    BY <1>4, <1>5, <2>1, SameRoles DEF Inv, SeqInv, Numbered, OnlyJob
  <2>2. ASSUME NEW v \in Workers \ {w}, Numbered(v)', jobs'[v].sub = s
        PROVE  jobs'[v].seq # jobs'[w].seq
    BY <1>2, <1>3, <1>4, <1>5, <2>1, <2>2 DEF Numbered
  <2>3. jobs'[w].seq > 0 /\ jobs'[w].seq <= attempts'[s] /\ jobs'[w].seq # applied[s]
    BY <1>2, <1>3, <1>4, <1>7 DEF Inv, InstallInv, TypeOK
  <2>4. ASSUME NEW v \in Workers, Numbered(v)'
        PROVE  /\ jobs'[v].seq > 0
               /\ jobs'[v].seq <= attempts'[jobs'[v].sub]
               /\ jobs'[v].seq # applied'[jobs'[v].sub]
               /\ \A u \in Workers :
                    Numbered(u)' /\ jobs'[u].sub = jobs'[v].sub /\ jobs'[u].seq = jobs'[v].seq => u = v
    <3>1. CASE v = w
      BY <1>1, <1>3, <1>4, <2>2, <2>3, <3>1
    <3>2. CASE v # w
      <4>1. jobs'[v].seq > 0 /\ jobs'[v].seq # applied'[jobs'[v].sub]
        BY <1>1, <2>1, <2>4, <3>2
      <4>2. jobs'[v].seq <= attempts'[jobs'[v].sub]
        BY <1>5, <1>7, <2>1, <2>4, <3>2 DEF Inv, TypeOK, Numbered
      <4>3. ASSUME NEW u \in Workers, Numbered(u)', jobs'[u].sub = jobs'[v].sub,
                   jobs'[u].seq = jobs'[v].seq
            PROVE  u = v
        <5>1. u # w
          BY <1>3, <1>4, <2>2, <2>4, <3>2, <4>3
        <5> QED
          BY <2>1, <2>4, <3>2, <4>3, <5>1 DEF Inv, SeqInv
      <4> QED
        BY <4>1, <4>2, <4>3
    <3> QED
      BY <3>1, <3>2
  <2> QED
    BY <2>4 DEF SeqInv
<1>11. InstallInv'
  BY <1>1, <1>4, <1>7, <1>8, SameRoles DEF Inv, TypeOK, InstallInv, Installing, Changing, At
<1>12. RefsInv'
  BY <1>1, <1>4, <1>8, SameRoles, SameContent DEF Inv, TypeOK, RefsInv, Changing, At
<1>13. UnbornInv' /\ NoStaleError'
  BY <1>1, SameContent DEF Inv, UnbornInv, NoStaleError
<1> QED
  BY <1>6, <1>9, <1>10, <1>11, <1>12, <1>13 DEF Inv

\* An error is shown for an attempt that is later than the one applied.
LEMMA FailureInv ==
    ASSUME Inv, NEW w \in Workers, HandleUpdateFailure(w)
    PROVE  Inv'
<1> DEFINE s == jobs[w].sub
<1>1. /\ w \in DOMAIN jobs /\ jobs[w].pc = "failed" /\ Done(w) /\ applied[s] <= jobs[w].seq
      /\ lastError' = [lastError EXCEPT ![s] = jobs[w].seq]
      /\ UNCHANGED <<registered, input, version, attempts, applied, managed, source, refs, unhealthy>>
  BY DEF HandleUpdateFailure, Takes, At, Current, config, content, pool
<1>2. s \in Subs /\ jobs[w].seq \in Nat /\ Numbered(w)
  BY <1>1, JobFacts DEF Job, Numbered
<1>3. jobs[w].seq > applied[s]
  BY <1>1, <1>2 DEF Inv, TypeOK, SeqInv
<1>4. IsMap(jobs', Workers, Job) /\ OnlyJob(w) /\ w \notin DOMAIN jobs'
  BY <1>1, JobEnds DEF Inv, TypeOK
<1>5. TypeOK'
  BY <1>1, <1>2, <1>4 DEF Inv, TypeOK
<1>6. NoStaleError'
  BY <1>1, <1>2, <1>3 DEF Inv, TypeOK, NoStaleError
<1>7. /\ ~HoldsLock(w)' /\ ~Numbered(w)'
      /\ \A t \in Subs : ~Changing(w, t) /\ ~Changing(w, t)'
  BY <1>1, <1>4 DEF HoldsLock, Numbered, Changing, At
<1>8. \A v \in DOMAIN jobs' : v \in Workers \ {w} /\ jobs'[v].sub \in Subs
  BY <1>4 DEF IsMap, Job
<1>9. LockInv' /\ JobInv'
  BY <1>1, <1>4, <1>7, <1>8, SameRoles, SameContent DEF Inv, LockInv, JobInv, HoldsLock, At, OnlyJob
<1>10. SeqInv'
  BY <1>1, <1>4, <1>7, SameRoles DEF Inv, SeqInv, OnlyJob, Numbered
<1>11. InstallInv'
  BY <1>1, <1>4, <1>7, SameRoles DEF Inv, TypeOK, InstallInv, Installing, Changing, At
<1>12. RefsInv'
  BY <1>1, <1>4, <1>7, SameRoles, SameContent DEF Inv, TypeOK, RefsInv, Changing, At
<1>13. UnbornInv'
  BY <1>1, SameContent DEF Inv, UnbornInv
<1> QED
  BY <1>5, <1>6, <1>9, <1>10, <1>11, <1>12, <1>13 DEF Inv

\* A change of the configuration starts a refresh.
LEMMA PatchInv ==
    ASSUME Inv, NEW w \in Workers, NEW s \in Subs, NEW i \in Inputs, PatchInput(w, s, i)
    PROVE  Inv'
<1>1. /\ s \in registered /\ version' = [version EXCEPT ![s] = @ + 1]
      /\ input' = [input EXCEPT ![s] = i]
      /\ Start(w, "begin", s)
      /\ UNCHANGED <<registered, attempts, applied, lastError, managed, source, refs, unhealthy>>
  BY DEF PatchInput, progress, content, pool
<1>2. /\ IsMap(jobs', Workers, Job) /\ OnlyJob(w)
      /\ w \notin DOMAIN jobs /\ w \in DOMAIN jobs'
      /\ jobs'[w] = NewJob("begin", s)
  BY <1>1, JobStarts DEF Inv, TypeOK, Phases
<1>3. TypeOK'
  BY <1>1, <1>2 DEF Inv, TypeOK
<1>4. \A t \in Subs : version[t] \in Nat /\ version'[t] \in Nat /\ version'[t] >= version[t]
  BY <1>1 DEF Inv, TypeOK
<1>5. version[s] > 0 /\ version'[s] > 0
  BY <1>1, <1>4 DEF Inv, RefsInv
<1>6. /\ ~HoldsLock(w)' /\ ~Numbered(w)' /\ ~Numbered(w) /\ ~HoldsLock(w)
      /\ \A t \in Subs : ~Changing(w, t) /\ ~Changing(w, t)'
  BY <1>2 DEF HoldsLock, Numbered, Installing, Changing, At, NewJob
<1>7. \A v \in DOMAIN jobs' : v \in Workers /\ jobs'[v].sub \in Subs
  BY <1>2 DEF IsMap, Job
<1>8. JobInv'
  <2> SUFFICES ASSUME NEW v \in DOMAIN jobs'
               PROVE  /\ version'[jobs'[v].sub] > 0
                      /\ jobs'[v].pc # "apply"
                           => jobs'[v].add = {} /\ jobs'[v].drop = {} /\ jobs'[v].fin = "release"
                      /\ jobs'[v].pc = "confirm" => jobs'[v].got \subseteq Live(jobs[v].sub)'
    BY DEF JobInv
  <2>1. CASE v = w
    BY <1>2, <1>5, <2>1 DEF NewJob
  <2>2. CASE v # w
    <3>1. v \in DOMAIN jobs /\ jobs'[v] = jobs[v] /\ jobs[v].sub \in Subs
      BY <1>2, <1>7, <2>2 DEF OnlyJob
    <3>2. Live(jobs[v].sub)' = Live(jobs[v].sub)
      BY <1>1, <3>1, SameContent
    <3> QED
      BY <1>4, <3>1, <3>2 DEF Inv, JobInv
  <2> QED
    BY <2>1, <2>2
<1>9. LockInv'
  BY <1>2, <1>6, SameRoles DEF Inv, LockInv, HoldsLock, At, OnlyJob
<1>10. SeqInv'
  BY <1>1, <1>2, <1>6, SameRoles DEF Inv, SeqInv, OnlyJob, Numbered
<1>11. InstallInv'
  BY <1>1, <1>2, <1>6, SameRoles DEF Inv, TypeOK, InstallInv, Installing, Changing, At
<1>12. RefsInv'
  BY <1>1, <1>2, <1>4, <1>6, SameRoles, SameContent DEF Inv, TypeOK, RefsInv, Changing, At
<1>13. UnbornInv' /\ NoStaleError'
  BY <1>1, <1>4, SameContent DEF Inv, UnbornInv, NoStaleError
<1> QED
  BY <1>3, <1>8, <1>9, <1>10, <1>11, <1>12, <1>13 DEF Inv

\* A new subscription has no node, no reference and no job.
LEMMA CreateInv ==
    ASSUME Inv, NEW s \in Subs, NEW i \in Inputs, CreateSubscription(s, i)
    PROVE  Inv'
<1>1. /\ version[s] = 0 /\ registered' = registered \cup {s}
      /\ input' = [input EXCEPT ![s] = i] /\ version' = [version EXCEPT ![s] = 1]
      /\ UNCHANGED <<attempts, applied, lastError, managed, source, refs, unhealthy, jobs>>
  BY DEF CreateSubscription, progress, content, pool
<1>2. TypeOK'
  BY <1>1 DEF Inv, TypeOK
<1>3. \A t \in Subs : version[t] \in Nat /\ version'[t] = IF t = s THEN 1 ELSE version[t]
  BY <1>1 DEF Inv, TypeOK
<1>4. /\ \A t \in Subs : Live(t)' = Live(t) /\ Held(t)' = Held(t) /\ Listed(t)' = Listed(t)
      /\ Live(s) = {} /\ Held(s) = {}
  BY <1>1, SameContent DEF Inv, UnbornInv, Live
<1>5. \A w \in DOMAIN jobs : w \in Workers /\ jobs[w].sub \in Subs /\ jobs[w].sub # s
  BY <1>1, JobFacts
<1>6. LockInv' /\ SeqInv' /\ InstallInv' /\ NoStaleError'
  BY <1>1 DEF Inv, LockInv, SeqInv, InstallInv, NoStaleError, HoldsLock, Numbered, Installing,
              Changing, At
<1>7. JobInv'
  BY <1>1, <1>3, <1>4, <1>5 DEF Inv, JobInv
<1>8. RefsInv'
  <2>1. \A w \in Workers : ~Changing(w, s)
    BY <1>5 DEF Changing, At
  <2>2. \A w \in Workers, t \in Subs : Changing(w, t)' <=> Changing(w, t)
    BY <1>1 DEF Changing, At
  <2>3. ASSUME NEW t \in registered'
        PROVE  /\ version'[t] > 0
               /\ (\A w \in Workers : ~Changing(w, t)) => Held(t) = Live(t)
               /\ \A w \in Workers :
                    Changing(w, t) /\ jobs[w].fin # "unregister"
                       => (Held(t) \cup jobs[w].add) \ jobs[w].drop = Live(t)
    <3>1. CASE t = s
      BY <1>3, <1>4, <2>1, <3>1
    <3>2. CASE t # s
      BY <1>1, <1>3, <3>2 DEF Inv, TypeOK, RefsInv
    <3> QED
      BY <3>1, <3>2
  <2> QED
    BY <1>1, <1>2, <1>4, <2>2, <2>3 DEF TypeOK, RefsInv
<1>9. UnbornInv'
  BY <1>3, <1>4 DEF Inv, UnbornInv
<1> QED
  BY <1>2, <1>6, <1>7, <1>8, <1>9 DEF Inv

\* A node's health changes.
LEMMA HealthInv ==
    ASSUME Inv, NEW n \in Nodes, HealthChange(n)
    PROVE  Inv'
<1>1. /\ UNCHANGED <<registered, input, version, attempts, applied, lastError, managed, source, refs, jobs>>
      /\ unhealthy' \subseteq Nodes
  BY DEF HealthChange, config, progress, content, Inv, TypeOK
<1>2. TypeOK'
  BY <1>1 DEF Inv, TypeOK
<1>3. \A s \in Subs : Live(s)' = Live(s) /\ Held(s)' = Held(s) /\ Listed(s)' = Listed(s)
  BY <1>1, SameContent
<1>4. \A w \in DOMAIN jobs : jobs[w].sub \in Subs
  BY JobFacts
<1> QED
  BY <1>1, <1>2, <1>3, <1>4
  DEF Inv, TypeOK, LockInv, JobInv, SeqInv, InstallInv, RefsInv, UnbornInv, NoStaleError, HoldsLock,
      Numbered, Installing, Changing, At

-----------------------------------------------------------------------------
\* The merged set is a managed set in which exactly the nodes evicted before
\* are evicted.
LEMMA MergeFacts ==
    ASSUME Inv, NEW s \in Subs, NEW got \in SUBSET Nodes
    PROVE  /\ IsMap(Merge(s, got), Nodes, BOOLEAN)
           /\ \A n \in DOMAIN Merge(s, got) : Merge(s, got)[n] <=> n \in Evicted(s)
<1>1. Listed(s) \subseteq Nodes
  BY DEF Inv, TypeOK, IsMap, Listed
<1> DEFINE kept == IF s \in Incremental
                   THEN {n \in Listed(s) : n \in Evicted(s) \/ (InPool(n) /\ ~ShouldRemove(n))}
                   ELSE {}
<1>2. kept \subseteq Nodes
  BY <1>1
<1>3. Merge(s, got) = [n \in got \cup kept |-> n \in Evicted(s)]
  BY DEF Merge
<1> HIDE DEF kept
<1> DEFINE m == [n \in got \cup kept |-> n \in Evicted(s)]
<1>4. DOMAIN m \subseteq Nodes
  BY <1>2
<1>5. m \in [DOMAIN m -> BOOLEAN]
  <2>1. DOMAIN m = got \cup kept
    OBVIOUS
  <2>2. \A n \in got \cup kept : (n \in Evicted(s)) \in BOOLEAN
    OBVIOUS
  <2>3. m \in [got \cup kept -> BOOLEAN]
    BY <2>2, Zenon
  <2> QED
    BY <2>1, <2>3, Zenon
<1>6. \A n \in DOMAIN m : m[n] <=> n \in Evicted(s)
  BY Zenon
<1> QED
  BY <1>3, <1>4, <1>5, <1>6, Zenon DEF IsMap

\* What a change of one subscription's managed set means for the sets derived
\* from it.
LEMMA ManagedChanges ==
    ASSUME TypeOK, NEW s \in Subs, NEW m, IsMap(m, Nodes, BOOLEAN),
           managed' = [managed EXCEPT ![s] = m], refs' = refs
    PROVE  /\ \A t \in Subs : IsMap(managed'[t], Nodes, BOOLEAN)
           /\ DOMAIN managed' = Subs
           /\ Listed(s)' = DOMAIN m
           /\ Evicted(s)' = {n \in DOMAIN m : m[n]}
           /\ \A t \in Subs \ {s} : Listed(t)' = Listed(t) /\ Evicted(t)' = Evicted(t) /\ Live(t)' = Live(t)
           /\ \A t \in Subs : Held(t)' = Held(t)
<1>1. managed'[s] = m /\ \A t \in Subs \ {s} : managed'[t] = managed[t]
  BY DEF TypeOK
<1> QED
  BY <1>1 DEF TypeOK, Listed, Evicted, Live, Held

\* The result of a refresh is installed: only a later attempt than the one
\* listed gets here, and what it plans leads from the old list to the new one.
LEMMA ApplyInv ==
    ASSUME Inv, NEW w \in Workers, ApplyRefresh(w)
    PROVE  Inv' /\ source'[jobs[w].sub] > source[jobs[w].sub]
<1>0. PICK s \in Subs : w \in DOMAIN jobs /\ s = jobs[w].sub
  BY JobFacts DEF ApplyRefresh, Takes, At
<1> DEFINE next == Merge(s, jobs[w].got)
           add == {n \in DOMAIN next : ~next[n]}
           drop == Listed(s) \ DOMAIN next
           j == [jobs[w] EXCEPT !.pc = "apply", !.fin = "applied", !.add = add, !.drop = drop]
<1>1. /\ w \in DOMAIN jobs /\ jobs[w].pc = "fetched" /\ ~Locked(s) /\ applied[s] <= jobs[w].seq
      /\ managed' = [managed EXCEPT ![s] = next]
      /\ source' = [source EXCEPT ![s] = jobs[w].seq]
      /\ Become(w, j)
      /\ UNCHANGED <<registered, input, version, attempts, applied, lastError, refs, unhealthy>>
  BY <1>0 DEF ApplyRefresh, Takes, At, Current, config, progress, pool
<1>2. /\ jobs[w] \in Job /\ jobs[w].sub = s /\ version[s] > 0 /\ jobs[w].got \in SUBSET Nodes
      /\ jobs[w].seq \in Nat /\ Numbered(w)
  BY <1>0, <1>1, JobFacts DEF Job, Numbered
<1>3. /\ IsMap(next, Nodes, BOOLEAN) /\ DOMAIN next \subseteq Nodes
      /\ \A n \in DOMAIN next : next[n] <=> n \in Evicted(s)
  BY <1>2, MergeFacts DEF IsMap
<1> HIDE DEF next
<1>4. /\ \A t \in Subs : IsMap(managed'[t], Nodes, BOOLEAN)
      /\ DOMAIN managed' = Subs
      /\ Listed(s)' = DOMAIN next
      /\ Evicted(s)' = {n \in DOMAIN next : next[n]}
      /\ \A t \in Subs \ {s} : Listed(t)' = Listed(t) /\ Live(t)' = Live(t)
      /\ \A t \in Subs : Held(t)' = Held(t)
  BY <1>1, <1>2, <1>3, ManagedChanges DEF Inv
<1>5. /\ j \in Job /\ j.pc = "apply" /\ j.sub = s /\ j.seq = jobs[w].seq /\ j.fin = "applied"
      /\ j.add = add /\ j.drop = drop
  <2>1. add \in SUBSET Nodes /\ drop \in SUBSET Nodes
    BY <1>2, <1>3 DEF Inv, TypeOK, IsMap, Listed
  <2> HIDE DEF add, drop
  <2> QED
    BY <1>2, <2>1 DEF Job, Phases
<1>6. IsMap(jobs', Workers, Job) /\ OnlyJob(w) /\ w \in DOMAIN jobs' /\ jobs'[w] = j
  BY <1>1, <1>5, JobBecomes DEF Inv, TypeOK
<1> HIDE DEF j
<1>7. TypeOK'
  BY <1>1, <1>2, <1>4, <1>6 DEF Inv, TypeOK
<1>8. \A v \in Workers : /\ ~Changing(v, s)
                         /\ HoldsLock(v) => jobs[v].sub # s
  BY <1>1 DEF Changing, HoldsLock, At, Locked
<1>9. source[s] = applied[s] /\ jobs[w].seq # applied[s] /\ jobs[w].seq <= attempts[s]
  BY <1>2, <1>8 DEF Inv, InstallInv, SeqInv, Installing
<1>10. source'[s] > source[s]
  BY <1>1, <1>2, <1>9 DEF Inv, TypeOK
<1>11. \A v \in DOMAIN jobs' : v \in Workers /\ jobs'[v].sub \in Subs
  BY <1>6 DEF IsMap, Job
<1>12. \A t \in Subs : source'[t] = IF t = s THEN jobs[w].seq ELSE source[t]
  BY <1>1 DEF Inv, TypeOK
<1>13. /\ ~HoldsLock(w)
       /\ \A t \in Subs : /\ ~Changing(w, t)
                          /\ Changing(w, t)' <=> t = s
                          /\ Installing(w, t)' <=> t = s
       /\ Numbered(w)'
  BY <1>1, <1>2, <1>5, <1>6 DEF HoldsLock, Changing, Installing, Numbered, At
<1>14. LockInv'
  BY <1>5, <1>6, <1>8, <1>13, SameRoles DEF Inv, LockInv, HoldsLock, At
<1>15. JobInv'
  <2> SUFFICES ASSUME NEW v \in DOMAIN jobs', v # w
               PROVE  /\ version'[jobs'[v].sub] > 0
                      /\ jobs'[v].pc # "apply"
                           => jobs'[v].add = {} /\ jobs'[v].drop = {} /\ jobs'[v].fin = "release"
                      /\ jobs'[v].pc = "confirm" => jobs'[v].got \subseteq Live(jobs[v].sub)'
    BY <1>1, <1>2, <1>5, <1>6 DEF JobInv
  <2>1. v \in DOMAIN jobs /\ v \in Workers /\ jobs'[v] = jobs[v] /\ jobs[v].sub \in Subs
    BY <1>6, <1>11 DEF OnlyJob
  <2>2. jobs[v].pc = "confirm" => jobs[v].sub # s
    BY <1>8, <2>1 DEF HoldsLock, At
  <2> QED
    BY <1>1, <1>4, <2>1, <2>2 DEF Inv, JobInv
<1>16. SeqInv'
  <2>1. \A v \in Workers : Numbered(v)' =>
          /\ Numbered(v) /\ jobs'[v].sub = jobs[v].sub /\ jobs'[v].seq = jobs[v].seq
    BY <1>2, <1>5, <1>6, <1>13, SameRoles DEF Numbered
  <2> QED
    BY <1>1, <2>1 DEF Inv, SeqInv
<1>17. InstallInv'
  BY <1>1, <1>2, <1>5, <1>6, <1>8, <1>9, <1>12, <1>13, SameRoles
  DEF Inv, TypeOK, InstallInv, Installing, Changing, At
<1>18. RefsInv'
  <2> SUFFICES ASSUME NEW t \in registered
               PROVE  /\ version[t] > 0
                      /\ (\A v \in Workers : ~Changing(v, t)') => Held(t)' = Live(t)'
                      /\ \A v \in Workers :
                           Changing(v, t)' /\ jobs'[v].fin # "unregister"
                              => (Held(t)' \cup jobs'[v].add) \ jobs'[v].drop = Live(t)'
    BY <1>1 DEF RefsInv
  <2>1. t \in Subs
    BY DEF Inv, TypeOK
  <2>2. CASE t # s
    <3>1. Held(t)' = Held(t) /\ Live(t)' = Live(t) /\ ~Changing(w, t) /\ ~Changing(w, t)'
      BY <1>4, <1>13, <2>1, <2>2
    <3>2. \A v \in Workers \ {w} : /\ Changing(v, t)' <=> Changing(v, t)
                                   /\ Changing(v, t) => jobs'[v] = jobs[v]
      BY <1>6, <2>1, SameRoles DEF Changing, At
    <3> QED
      BY <3>1, <3>2 DEF Inv, RefsInv
  <2>3. CASE t = s
    <3>1. Held(s) = Listed(s) \ Evicted(s)
      BY <1>8, <2>3 DEF Inv, RefsInv, Live
    <3>2. Live(s)' = DOMAIN next \ Evicted(s) /\ Held(s)' = Held(s)
      BY <1>2, <1>3, <1>4 DEF Live
    <3>3. add = DOMAIN next \ Evicted(s)
      BY <1>3
    <3>4. Changing(w, s)' /\ \A v \in Workers \ {w} : ~Changing(v, s)'
      BY <1>2, <1>6, <1>8, <1>13, SameRoles
    <3>5. (Held(s) \cup add) \ drop = DOMAIN next \ Evicted(s)
      BY <3>1, <3>3
    <3> QED
      BY <1>1, <1>5, <1>6, <2>3, <3>2, <3>4, <3>5 DEF Inv, RefsInv
  <2> QED
    BY <2>2, <2>3
<1>19. UnbornInv'
  BY <1>1, <1>2, <1>4 DEF Inv, UnbornInv
<1>20. NoStaleError'
  BY <1>1 DEF Inv, NoStaleError
<1> QED
  BY <1>0, <1>7, <1>10, <1>14, <1>15, <1>16, <1>17, <1>18, <1>19, <1>20 DEF Inv

\* The second scan marks live nodes evicted and plans to drop them.
LEMMA ConfirmInv ==
    ASSUME Inv, NEW w \in Workers, CleanupConfirm(w)
    PROVE  Inv'
<1>0. PICK s \in Subs : w \in DOMAIN jobs /\ s = jobs[w].sub
  BY JobFacts DEF CleanupConfirm, At
<1> DEFINE confirmed == {n \in jobs[w].got : ShouldRemove(n)}
           m == [n \in DOMAIN managed[s] |-> managed[s][n] \/ n \in confirmed]
           j == [jobs[w] EXCEPT !.pc = "apply", !.drop = confirmed]
<1>1. /\ w \in DOMAIN jobs /\ jobs[w].pc = "confirm"
      /\ Become(w, j)
      /\ UNCHANGED <<registered, input, version, attempts, applied, lastError, source, refs, unhealthy>>
  BY DEF CleanupConfirm, At, config, progress, pool
<1>2. /\ jobs[w] \in Job /\ jobs[w].sub = s /\ version[s] > 0
      /\ jobs[w].add = {} /\ jobs[w].fin = "release"
  BY <1>0, <1>1, JobFacts
<1>3. managed' = [managed EXCEPT ![s] = m]
  BY <1>0 DEF CleanupConfirm, Inv, TypeOK
<1>4. confirmed \subseteq Live(s) /\ Live(s) \subseteq Nodes
  BY <1>1, <1>2 DEF Inv, JobInv, TypeOK, IsMap, Live, Listed
<1> HIDE DEF confirmed
<1>5. IsMap(m, Nodes, BOOLEAN) /\ DOMAIN m = Listed(s)
  BY <1>2 DEF Inv, TypeOK, IsMap, Listed
<1>6. {n \in DOMAIN m : m[n]} = Evicted(s) \cup confirmed
  BY <1>4, <1>5 DEF Evicted, Live, Listed
<1> HIDE DEF m
<1>7. /\ \A t \in Subs : IsMap(managed'[t], Nodes, BOOLEAN)
      /\ DOMAIN managed' = Subs
      /\ Listed(s)' = Listed(s)
      /\ Evicted(s)' = Evicted(s) \cup confirmed
      /\ \A t \in Subs \ {s} : Listed(t)' = Listed(t) /\ Live(t)' = Live(t)
      /\ \A t \in Subs : Held(t)' = Held(t)
  BY <1>1, <1>2, <1>3, <1>5, <1>6, ManagedChanges DEF Inv
<1>8. /\ j \in Job /\ j.pc = "apply" /\ j.sub = s /\ j.add = {} /\ j.drop = confirmed
      /\ j.fin = "release"
  BY <1>2, <1>4 DEF Job, Phases
<1>9. IsMap(jobs', Workers, Job) /\ OnlyJob(w) /\ w \in DOMAIN jobs' /\ jobs'[w] = j
  BY <1>1, <1>8, JobBecomes DEF Inv, TypeOK
<1> HIDE DEF j
<1>10. TypeOK'
  BY <1>1, <1>7, <1>9 DEF Inv, TypeOK
<1>11. HoldsLock(w)
  BY <1>1 DEF HoldsLock, At
<1>12. \A v \in Workers \ {w} : HoldsLock(v) => jobs[v].sub # s
  BY <1>0, <1>11 DEF Inv, LockInv
<1>13. /\ ~Numbered(w)'
       /\ \A t \in Subs : ~Changing(w, t) /\ ~Installing(w, t)' /\ (Changing(w, t)' <=> t = s)
  BY <1>1, <1>8, <1>9 DEF Numbered, Installing, Changing, At
<1>14. \A v \in DOMAIN jobs' : v \in Workers /\ jobs'[v].sub \in Subs
  BY <1>9 DEF IsMap, Job
<1>15. LockInv'
  BY <1>8, <1>9, <1>12, SameRoles DEF Inv, LockInv, HoldsLock, At
<1>16. JobInv'
  <2> SUFFICES ASSUME NEW v \in DOMAIN jobs', v # w
               PROVE  /\ version'[jobs'[v].sub] > 0
                      /\ jobs'[v].pc # "apply"
                           => jobs'[v].add = {} /\ jobs'[v].drop = {} /\ jobs'[v].fin = "release"
                      /\ jobs'[v].pc = "confirm" => jobs'[v].got \subseteq Live(jobs[v].sub)'
    BY <1>1, <1>2, <1>8, <1>9 DEF JobInv
  <2>1. v \in DOMAIN jobs /\ v \in Workers /\ jobs'[v] = jobs[v] /\ jobs[v].sub \in Subs
    BY <1>9, <1>14 DEF OnlyJob
  <2>2. jobs[v].pc = "confirm" => jobs[v].sub # s
    BY <1>12, <2>1 DEF HoldsLock, At
  <2> QED
    BY <1>1, <1>7, <2>1, <2>2 DEF Inv, JobInv
<1>17. SeqInv'
  BY <1>1, <1>9, <1>13, SameRoles DEF Inv, SeqInv, Numbered
<1>18. InstallInv'
  BY <1>1, <1>9, <1>13, SameRoles DEF Inv, TypeOK, InstallInv, Installing, Changing, At
<1>19. RefsInv'
  <2> SUFFICES ASSUME NEW t \in registered
               PROVE  /\ version[t] > 0
                      /\ (\A v \in Workers : ~Changing(v, t)') => Held(t)' = Live(t)'
                      /\ \A v \in Workers :
                           Changing(v, t)' /\ jobs'[v].fin # "unregister"
                              => (Held(t)' \cup jobs'[v].add) \ jobs'[v].drop = Live(t)'
    BY <1>1 DEF RefsInv
  <2>1. t \in Subs
    BY DEF Inv, TypeOK
  <2>2. CASE t # s
    <3>1. Held(t)' = Held(t) /\ Live(t)' = Live(t) /\ ~Changing(w, t) /\ ~Changing(w, t)'
      BY <1>7, <1>13, <2>1, <2>2
    <3>2. \A v \in Workers \ {w} : /\ Changing(v, t)' <=> Changing(v, t)
                                   /\ Changing(v, t) => jobs'[v] = jobs[v]
      BY <1>9, <2>1, SameRoles DEF Changing, At
    <3> QED
      BY <3>1, <3>2 DEF Inv, RefsInv
  <2>3. CASE t = s
    <3>1. \A v \in Workers : ~Changing(v, s)
      BY <1>2, <1>12, <1>13 DEF Changing, HoldsLock
    <3>2. Held(s) = Live(s)
      BY <2>3, <3>1 DEF Inv, RefsInv
    <3>3. Live(s)' = Live(s) \ confirmed /\ Held(s)' = Held(s)
      BY <1>2, <1>7 DEF Live
    <3>4. Changing(w, s)' /\ \A v \in Workers \ {w} : ~Changing(v, s)'
      BY <1>2, <1>9, <1>13, <3>1, SameRoles
    <3> QED
      BY <1>8, <1>9, <2>3, <3>2, <3>3, <3>4 DEF Inv, RefsInv
  <2> QED
    BY <2>2, <2>3
<1>20. UnbornInv' /\ NoStaleError'
  BY <1>1, <1>2, <1>7 DEF Inv, UnbornInv, NoStaleError
<1> QED
  BY <1>10, <1>15, <1>16, <1>17, <1>18, <1>19, <1>20 DEF Inv

-----------------------------------------------------------------------------
\* One reference is added or dropped: the step of a goroutine in "apply" that
\* leaves every number, list and configuration alone.
LEMMA RefStep ==
    ASSUME Inv, NEW w \in Workers, NEW s \in Subs, NEW j \in Job,
           At(w, "apply"), jobs[w].sub = s, Become(w, j),
           j.pc = "apply", j.sub = s, j.seq = jobs[w].seq, j.fin = jobs[w].fin,
           refs' \in [Nodes -> SUBSET Subs], unhealthy' \in SUBSET Nodes,
           \A t \in Subs \ {s} : Held(t)' = Held(t),
           s \in registered /\ j.fin # "unregister"
             => (Held(s)' \cup j.add) \ j.drop = (Held(s) \cup jobs[w].add) \ jobs[w].drop,
           UNCHANGED <<config, progress, content>>
    PROVE  Inv'
<1> USE DEF config, progress, content
<1>1. w \in DOMAIN jobs /\ jobs[w].pc = "apply"
  BY DEF At
<1>2. IsMap(jobs', Workers, Job) /\ OnlyJob(w) /\ w \in DOMAIN jobs' /\ jobs'[w] = j
  BY <1>1, JobBecomes DEF Inv, TypeOK
<1>3. TypeOK'
  BY <1>2 DEF Inv, TypeOK
<1>4. \A t \in Subs : Live(t)' = Live(t) /\ Listed(t)' = Listed(t)
  BY DEF Live, Listed, Evicted
<1>5. /\ HoldsLock(w) /\ HoldsLock(w)'
      /\ Numbered(w)' <=> Numbered(w)
      /\ \A t \in Subs : /\ Changing(w, t) <=> t = s
                         /\ Changing(w, t)' <=> t = s
                         /\ Installing(w, t)' <=> Installing(w, t)
  BY <1>1, <1>2 DEF HoldsLock, Numbered, Installing, Changing, At
<1>6. \A v \in Workers : /\ HoldsLock(v)' <=> HoldsLock(v)
                         /\ Numbered(v)' <=> Numbered(v)
                         /\ v \in DOMAIN jobs <=> v \in DOMAIN jobs'
                         /\ v \in DOMAIN jobs => /\ jobs'[v].sub = jobs[v].sub
                                                 /\ jobs'[v].seq = jobs[v].seq
                                                 /\ jobs'[v].fin = jobs[v].fin
                         /\ \A t \in Subs : /\ Changing(v, t)' <=> Changing(v, t)
                                            /\ Installing(v, t)' <=> Installing(v, t)
  BY <1>1, <1>2, <1>5, SameRoles DEF OnlyJob
<1>7. LockInv'
  BY <1>6 DEF Inv, LockInv, HoldsLock, At
<1>8. SeqInv'
  BY <1>6 DEF Inv, SeqInv, Numbered
<1>9. InstallInv'
  BY <1>6 DEF Inv, InstallInv, Installing, Changing, At
<1>10. \A v \in DOMAIN jobs' : v \in Workers /\ jobs'[v].sub \in Subs
  BY <1>2 DEF IsMap, Job
<1>11. JobInv'
  <2>1. version[s] > 0
    BY <1>1 DEF Inv, JobInv
  <2> SUFFICES ASSUME NEW v \in DOMAIN jobs', v # w
               PROVE  /\ version'[jobs'[v].sub] > 0
                      /\ jobs'[v].pc # "apply"
                           => jobs'[v].add = {} /\ jobs'[v].drop = {} /\ jobs'[v].fin = "release"
                      /\ jobs'[v].pc = "confirm" => jobs'[v].got \subseteq Live(jobs[v].sub)'
    BY <1>2, <2>1 DEF JobInv
  <2>2. v \in DOMAIN jobs /\ jobs'[v] = jobs[v] /\ jobs[v].sub \in Subs
    BY <1>2, <1>10 DEF OnlyJob
  <2>3. Live(jobs[v].sub)' = Live(jobs[v].sub)
    BY <1>4, <2>2
  <2> QED
    BY <2>2, <2>3 DEF Inv, JobInv
<1>12. RefsInv'
  <2> SUFFICES ASSUME NEW t \in registered
               PROVE  /\ version[t] > 0
                      /\ (\A v \in Workers : ~Changing(v, t)) => Held(t)' = Live(t)
                      /\ \A v \in Workers :
                           Changing(v, t) /\ jobs'[v].fin # "unregister"
                              => (Held(t)' \cup jobs'[v].add) \ jobs'[v].drop = Live(t)
    BY <1>4, <1>6 DEF RefsInv, Inv, TypeOK
  <2>1. t \in Subs
    BY DEF Inv, TypeOK
  <2>2. CASE t # s
    <3>1. \A v \in Workers : Changing(v, t) => v # w /\ jobs'[v] = jobs[v]
      BY <1>2, <1>5, <2>1, <2>2 DEF OnlyJob, Changing, At
    <3> QED
      BY <2>1, <2>2, <3>1 DEF Inv, RefsInv
  <2>3. CASE t = s
    <3>1. Changing(w, s)
      BY <1>5
    <3>2. \A v \in Workers : Changing(v, s) => v = w
      BY <1>5 DEF Inv, LockInv, HoldsLock, Changing
    <3> QED
      BY <1>2, <2>3, <3>1, <3>2 DEF Inv, RefsInv
  <2> QED
    BY <2>2, <2>3
<1>13. UnbornInv'
  <2>1. version[s] > 0
    BY <1>1 DEF Inv, JobInv
  <2> QED
    BY <1>4, <2>1 DEF Inv, UnbornInv
<1>14. NoStaleError'
  BY DEF Inv, NoStaleError
<1> QED
  BY <1>3, <1>7, <1>8, <1>9, <1>11, <1>12, <1>13, <1>14 DEF Inv

\* A reference is added under the lock.
LEMMA AddInv ==
    ASSUME Inv, NEW w \in Workers, NEW n \in Nodes, AddNodeFromSub(w, n)
    PROVE  Inv'
<1>0. PICK s \in Subs : w \in DOMAIN jobs /\ s = jobs[w].sub
  BY JobFacts DEF AddNodeFromSub, At
<1> DEFINE j == [jobs[w] EXCEPT !.add = jobs[w].add \ {n}]
<1>1. /\ At(w, "apply") /\ n \in jobs[w].add /\ Become(w, j)
      /\ refs' = [refs EXCEPT ![n] = @ \cup {s}]
      /\ unhealthy' \in SUBSET Nodes
      /\ UNCHANGED <<config, progress, content>>
  <2>1. Become(w, j)
    BY <1>0, JobFacts DEF AddNodeFromSub, Job
  <2> QED
    BY <1>0, <2>1 DEF AddNodeFromSub, Inv, TypeOK
<1>2. jobs[w] \in Job /\ jobs[w].pc = "apply"
  BY <1>0, <1>1, JobFacts DEF At
<1>3. /\ j \in Job /\ j.pc = "apply" /\ j.sub = s /\ j.seq = jobs[w].seq /\ j.fin = jobs[w].fin
      /\ j.add = jobs[w].add \ {n} /\ j.drop = jobs[w].drop
  BY <1>0, <1>2 DEF Job
<1>4. /\ refs' \in [Nodes -> SUBSET Subs]
      /\ \A t \in Subs \ {s} : Held(t)' = Held(t)
      /\ Held(s)' = Held(s) \cup {n}
  BY <1>1 DEF Inv, TypeOK, Held
<1> HIDE DEF j
<1>5. (Held(s)' \cup j.add) \ j.drop = (Held(s) \cup jobs[w].add) \ jobs[w].drop
  BY <1>1, <1>3, <1>4
<1> QED
  BY <1>0, <1>1, <1>3, <1>4, <1>5, RefStep

\* A reference is dropped under the lock.
LEMMA RemoveInv ==
    ASSUME Inv, NEW w \in Workers, NEW n \in Nodes, RemoveNodeFromSub(w, n)
    PROVE  Inv'
<1>0. PICK s \in Subs : w \in DOMAIN jobs /\ s = jobs[w].sub
  BY JobFacts DEF RemoveNodeFromSub, At
<1> DEFINE j == [jobs[w] EXCEPT !.drop = jobs[w].drop \ {n}]
<1>1. /\ At(w, "apply") /\ jobs[w].add = {} /\ n \in jobs[w].drop /\ Become(w, j)
      /\ refs' = [refs EXCEPT ![n] = @ \ {s}]
      /\ unhealthy' \in SUBSET Nodes
      /\ UNCHANGED <<config, progress, content>>
  <2>1. Become(w, j)
    BY <1>0, JobFacts DEF RemoveNodeFromSub, Job
  <2> QED
    BY <1>0, <2>1 DEF RemoveNodeFromSub, Inv, TypeOK
<1>2. jobs[w] \in Job /\ jobs[w].pc = "apply"
  BY <1>0, <1>1, JobFacts DEF At
<1>3. /\ j \in Job /\ j.pc = "apply" /\ j.sub = s /\ j.seq = jobs[w].seq /\ j.fin = jobs[w].fin
      /\ j.add = {} /\ j.drop = jobs[w].drop \ {n}
  BY <1>0, <1>1, <1>2 DEF Job
<1>4. /\ refs' \in [Nodes -> SUBSET Subs]
      /\ \A t \in Subs \ {s} : Held(t)' = Held(t)
      /\ Held(s)' = Held(s) \ {n}
  BY <1>1 DEF Inv, TypeOK, Held
<1> HIDE DEF j
<1>5. (Held(s)' \cup j.add) \ j.drop = (Held(s) \cup jobs[w].add) \ jobs[w].drop
  BY <1>1, <1>3, <1>4
<1> QED
  BY <1>0, <1>1, <1>3, <1>4, <1>5, RefStep

\* The locked section ends with its changes made.
LEMMA ReleaseInv ==
    ASSUME Inv, NEW w \in Workers, Release(w)
    PROVE  Inv'
<1>0. PICK s \in Subs : w \in DOMAIN jobs /\ s = jobs[w].sub
  BY JobFacts DEF Release, At
<1>1. /\ jobs[w].pc = "apply" /\ jobs[w].add = {} /\ jobs[w].drop = {} /\ Done(w)
      /\ applied' = IF jobs[w].fin = "applied" THEN [applied EXCEPT ![s] = jobs[w].seq] ELSE applied
      /\ lastError' = IF jobs[w].fin = "applied" THEN [lastError EXCEPT ![s] = 0] ELSE lastError
      /\ registered' = IF jobs[w].fin = "unregister" THEN registered \ {s} ELSE registered
      /\ UNCHANGED <<input, version, attempts, managed, source, refs, unhealthy>>
  BY <1>0 DEF Release, At, content, pool
<1>2. jobs[w].seq \in Nat /\ version[s] > 0
  BY <1>0, JobFacts DEF Job
<1>3. IsMap(jobs', Workers, Job) /\ OnlyJob(w) /\ w \notin DOMAIN jobs'
  BY <1>1, JobEnds DEF Inv, TypeOK
<1>4. TypeOK'
  BY <1>1, <1>2, <1>3 DEF Inv, TypeOK
<1>5. /\ ~HoldsLock(w)' /\ ~Numbered(w)' /\ \A t \in Subs : ~Changing(w, t)' /\ ~Installing(w, t)'
      /\ HoldsLock(w) /\ Changing(w, s) /\ \A t \in Subs : Changing(w, t) <=> t = s
      /\ Installing(w, s) <=> jobs[w].fin = "applied"
      /\ Numbered(w) <=> jobs[w].fin = "applied"
  BY <1>0, <1>1, <1>3 DEF HoldsLock, Numbered, Installing, Changing, At
<1>6. \A v \in Workers \ {w} : ~Changing(v, s) /\ ~Installing(v, s)
  BY <1>0, <1>5 DEF Inv, LockInv, HoldsLock, Changing, Installing
<1>7. \A v \in Workers : ~Changing(v, s)' /\ ~Installing(v, s)'
  BY <1>3, <1>5, <1>6, SameRoles
<1>8. \A v \in DOMAIN jobs' : v \in Workers \ {w} /\ v \in DOMAIN jobs /\ jobs'[v] = jobs[v] /\ jobs[v].sub \in Subs
  <2>1. \A v \in DOMAIN jobs' : v \in Workers \ {w} /\ v \in DOMAIN jobs /\ jobs'[v] = jobs[v]
    BY <1>3 DEF IsMap, OnlyJob
  <2> QED
    BY <2>1, JobFacts
<1>9. /\ \A t \in Subs \ {s} : applied'[t] = applied[t] /\ lastError'[t] = lastError[t]
      /\ jobs[w].fin = "applied" => applied'[s] = jobs[w].seq /\ lastError'[s] = 0
      /\ jobs[w].fin # "applied" => applied' = applied /\ lastError' = lastError
  BY <1>1 DEF Inv, TypeOK
<1>10. /\ jobs[w].fin = "applied" => source[s] = jobs[w].seq
       /\ jobs[w].fin # "applied" => source[s] = applied[s]
  BY <1>5, <1>6 DEF Inv, InstallInv
<1>11. LockInv' /\ JobInv'
  BY <1>1, <1>5, <1>8, SameContent DEF Inv, LockInv, JobInv, HoldsLock, At
<1>12. SeqInv'
  <2>1. \A v \in Workers : Numbered(v)' =>
          v # w /\ Numbered(v) /\ jobs'[v] = jobs[v] /\ jobs[v].sub \in Subs
    BY <1>3, <1>5, <1>8, SameRoles DEF Numbered
  <2>2. ASSUME NEW v \in Workers, Numbered(v)', jobs[v].sub = s, jobs[w].fin = "applied"
        PROVE  jobs[v].seq # jobs[w].seq
    BY <1>0, <1>5, <2>1, <2>2 DEF Inv, SeqInv
  <2>3. ASSUME NEW v \in Workers, Numbered(v)' PROVE jobs[v].seq # applied'[jobs[v].sub]
    BY <1>9, <2>1, <2>2, <2>3 DEF Inv, SeqInv
  <2> QED
    BY <1>1, <2>1, <2>3 DEF Inv, SeqInv
<1>13. InstallInv'
  <2> SUFFICES ASSUME NEW t \in Subs
               PROVE  /\ applied'[t] <= attempts[t]
                      /\ (\A v \in Workers : ~Installing(v, t)') => source[t] = applied'[t]
                      /\ \A v \in Workers :
                           Installing(v, t)' => source[t] = jobs'[v].seq /\ applied'[t] <= jobs'[v].seq
    BY <1>1 DEF InstallInv
  <2>1. CASE t = s
    BY <1>0, <1>2, <1>5, <1>7, <1>9, <1>10, <2>1 DEF Inv, InstallInv, SeqInv
  <2>2. CASE t # s
    <3>1. ~Installing(w, t) /\ ~Installing(w, t)'
      BY <1>5, <2>2 DEF Installing
    <3>2. \A v \in Workers \ {w} : /\ Installing(v, t)' <=> Installing(v, t)
                                   /\ Installing(v, t) => jobs'[v] = jobs[v]
      BY <1>3, SameRoles DEF Installing, Changing, At
    <3> QED
      BY <1>9, <2>2, <3>1, <3>2 DEF Inv, InstallInv
  <2> QED
    BY <2>1, <2>2
<1>14. RefsInv'
  <2> SUFFICES ASSUME NEW t \in registered'
               PROVE  /\ version[t] > 0
                      /\ (\A v \in Workers : ~Changing(v, t)') => Held(t) = Live(t)
                      /\ \A v \in Workers :
                           Changing(v, t)' /\ jobs'[v].fin # "unregister"
                              => (Held(t) \cup jobs'[v].add) \ jobs'[v].drop = Live(t)
    BY <1>1, <1>4, SameContent DEF RefsInv, TypeOK
  <2>1. t \in registered /\ t \in Subs /\ (t = s => jobs[w].fin # "unregister")
    BY <1>1 DEF Inv, TypeOK
  <2>2. CASE t = s
    BY <1>1, <1>5, <1>7, <2>1, <2>2 DEF Inv, RefsInv
  <2>3. CASE t # s
    <3>1. ~Changing(w, t) /\ ~Changing(w, t)'
      BY <1>5, <2>1, <2>3
    <3>2. \A v \in Workers \ {w} : /\ Changing(v, t)' <=> Changing(v, t)
                                   /\ Changing(v, t) => jobs'[v] = jobs[v]
      BY <1>3, <2>1, SameRoles DEF Changing, At
    <3> QED
      BY <2>1, <3>1, <3>2 DEF Inv, RefsInv
  <2> QED
    BY <2>2, <2>3
<1>15. UnbornInv'
  BY <1>1, SameContent DEF Inv, UnbornInv
<1>16. NoStaleError'
  BY <1>9 DEF Inv, NoStaleError
<1> QED
  BY <1>4, <1>11, <1>12, <1>13, <1>14, <1>15, <1>16 DEF Inv

-----------------------------------------------------------------------------
\* Every step keeps the invariant.
LEMMA InvNext == Inv /\ [Next]_vars => Inv'
<1> SUFFICES ASSUME Inv, [Next]_vars PROVE Inv'
  OBVIOUS
<1>1. ASSUME NEW w \in Workers, Continues(w) PROVE Inv'
  <2>1. CASE NextAttemptSeq(w)
    BY <2>1, NextAttemptSeqInv
  <2>2. CASE ReadInputs(w) \/ ReadVersion(w)
    BY <2>2, ReadInputsInv
  <2>3. CASE (\E got \in SUBSET Nodes : FetchParse(w, got)) \/ FetchFails(w)
    BY <2>3, FetchInv
  <2>4. CASE Discard(w)
    BY <2>4, EndInv DEF Discard, Takes, At
  <2>5. CASE HandleUpdateFailure(w)
    BY <2>5, FailureInv
  <2>6. CASE ApplyRefresh(w)
    BY <2>6, ApplyInv
  <2>7. CASE \E n \in Nodes : AddNodeFromSub(w, n) \/ RemoveNodeFromSub(w, n)
    BY <2>7, AddInv, RemoveInv
  <2>8. CASE Release(w)
    BY <2>8, ReleaseInv
  <2>9. CASE RenameSubscription(w)
    BY <2>9, RenameInv
  <2>10. CASE DeleteSubscription(w)
    BY <2>10, DeleteInv
  <2>11. CASE CleanupScan(w)
    BY <2>11, ScanInv
  <2>12. CASE CleanupConfirm(w)
    BY <2>12, ConfirmInv
  <2> QED
    BY <1>1, <2>1, <2>2, <2>3, <2>4, <2>5, <2>6, <2>7, <2>8, <2>9, <2>10, <2>11, <2>12 DEF Continues
<1>2. ASSUME NEW w \in Workers, NEW s \in Subs, Begins(w, s) PROVE Inv'
  <2>1. CASE StartRefresh(w, s)
    BY <2>1, StartInv DEF StartRefresh
  <2>2. CASE \E i \in Inputs : PatchInput(w, s, i)
    BY <2>2, PatchInv
  <2>3. CASE \E phase \in Phases : StartHandler(w, s, phase)
    BY <2>3, StartInv DEF StartHandler
  <2>4. CASE StartSweep(w, s)
    BY <2>4, StartInv DEF StartSweep
  <2> QED
    BY <1>2, <2>1, <2>2, <2>3, <2>4 DEF Begins
<1>3. CASE UNCHANGED vars
  <2>1. UNCHANGED <<registered, input, version, attempts, applied, lastError, managed, source, refs,
                    unhealthy, jobs>>
    BY <1>3 DEF vars, config, progress, content, pool
  <2> QED
    BY <2>1
    DEF Inv, TypeOK, LockInv, JobInv, SeqInv, InstallInv, RefsInv, UnbornInv, NoStaleError, HoldsLock,
        Numbered, Installing, Changing, At, Live, Listed, Evicted, Held
<1> QED
  BY <1>1, <1>2, <1>3, CreateInv, HealthInv DEF Next

\* The invariant, at all times.
LEMMA InvAlways == Spec => []Inv
BY InvInit, InvNext, PTL DEF Spec

\* Whatever refreshes, cleanups, renames and deletions run beside each other,
\* the pool holds outside the locked sections exactly the references that a
\* registered subscription's managed set calls for (UpdateSubscription,
\* CleanupSubscriptionNodesWithConfirmNoLock, RenameSubscription).
THEOREM RefsCorrect == Spec => []RefsMatchManaged
<1>1. Inv => RefsMatchManaged
  <2> SUFFICES ASSUME Inv, NEW s \in registered, ~Locked(s) PROVE Held(s) = Live(s)
    BY DEF RefsMatchManaged, Live
  <2>1. \A w \in Workers : ~Changing(w, s)
    BY DEF Locked, Changing, At
  <2> QED
    BY <2>1 DEF Inv, RefsInv
<1> QED
  BY <1>1, InvAlways, PTL

\* An attempt's failure is shown only when no later attempt was installed
\* (the checks of handleUpdateFailure and of the locked section).
THEOREM ErrorsCorrect == Spec => []NoStaleError
<1>1. Inv => NoStaleError
  BY DEF Inv
<1> QED
  BY <1>1, InvAlways, PTL

-----------------------------------------------------------------------------
\* The contents of a subscription change in two steps only.
LEMMA ContentSteps ==
    ASSUME Inv, [Next]_vars,
           ~(\E w \in Workers : ApplyRefresh(w)), ~(\E w \in Workers : CleanupConfirm(w))
    PROVE  UNCHANGED <<managed, source>>
<1>1. ASSUME NEW w \in Workers, Continues(w) PROVE UNCHANGED <<managed, source>>
  BY <1>1 DEF Continues, NextAttemptSeq, ReadInputs, ReadVersion, FetchParse, FetchFails, Discard,
      HandleUpdateFailure, AddNodeFromSub, RemoveNodeFromSub, Release, RenameSubscription,
      DeleteSubscription, CleanupScan, content
<1>2. ASSUME NEW w \in Workers, NEW s \in Subs, Begins(w, s) PROVE UNCHANGED <<managed, source>>
  BY <1>2 DEF Begins, StartRefresh, PatchInput, StartHandler, StartSweep, content
<1> QED
  BY <1>1, <1>2 DEF Next, CreateSubscription, HealthChange, vars, content

\* Installing a result is the Install step of the abstract specification.
LEMMA ApplyInstalls ==
    ASSUME Inv, NEW w \in Workers, ApplyRefresh(w)
    PROVE  \E s \in Subs : Promise!Install(s)
<1>0. PICK s \in Subs : w \in DOMAIN jobs /\ s = jobs[w].sub
  BY JobFacts DEF ApplyRefresh, Takes, At
<1> DEFINE next == Merge(s, jobs[w].got)
<1>1. managed' = [managed EXCEPT ![s] = next] /\ source' = [source EXCEPT ![s] = jobs[w].seq] /\ refs' = refs
  BY <1>0 DEF ApplyRefresh, pool
<1>2. jobs[w].got \in SUBSET Nodes
  BY <1>0, JobFacts DEF Job
<1>3. /\ IsMap(next, Nodes, BOOLEAN) /\ DOMAIN next \subseteq Nodes
      /\ \A n \in DOMAIN next : next[n] <=> n \in Evicted(s)
  BY <1>2, MergeFacts DEF IsMap
<1> HIDE DEF next
<1>4. /\ Listed(s)' = DOMAIN next
      /\ Evicted(s)' = {n \in DOMAIN next : next[n]}
      /\ \A t \in Subs \ {s} : Listed(t)' = Listed(t) /\ Evicted(t)' = Evicted(t)
  BY <1>1, <1>3, ManagedChanges DEF Inv
<1>5. source'[s] > source[s] /\ \A t \in Subs \ {s} : source'[t] = source[t]
  BY <1>0, <1>1, ApplyInv DEF Inv, TypeOK
<1>6. Evicted(s)' = Evicted(s) \cap Listed(s)' /\ Listed(s)' \subseteq Nodes
  BY <1>3, <1>4
<1>7. Promise!Install(s)
  BY <1>4, <1>5, <1>6 DEF Promise!Install, Promise!OnlyChanges
<1> QED
  BY <1>7

\* The second scan of a cleanup is its Evict step.
LEMMA ConfirmEvicts ==
    ASSUME Inv, NEW w \in Workers, CleanupConfirm(w)
    PROVE  \E s \in Subs : Promise!Evict(s)
<1>0. PICK s \in Subs : w \in DOMAIN jobs /\ s = jobs[w].sub
  BY JobFacts DEF CleanupConfirm, At
<1> DEFINE confirmed == {n \in jobs[w].got : ShouldRemove(n)}
           m == [n \in DOMAIN managed[s] |-> managed[s][n] \/ n \in confirmed]
<1>1. managed' = [managed EXCEPT ![s] = m] /\ source' = source /\ refs' = refs
  BY <1>0 DEF CleanupConfirm, pool, Inv, TypeOK
<1>2. IsMap(m, Nodes, BOOLEAN) /\ DOMAIN m = Listed(s)
  BY DEF Inv, TypeOK, IsMap, Listed
<1>3. Evicted(s) \subseteq {n \in DOMAIN m : m[n]}
  BY DEF Evicted, Listed
<1> HIDE DEF m
<1>4. /\ Listed(s)' = DOMAIN m
      /\ Evicted(s)' = {n \in DOMAIN m : m[n]}
      /\ \A t \in Subs \ {s} : Listed(t)' = Listed(t) /\ Evicted(t)' = Evicted(t)
  BY <1>1, <1>2, ManagedChanges DEF Inv
<1>5. Promise!Evict(s)
  BY <1>1, <1>2, <1>3, <1>4 DEF Promise!Evict, Promise!OnlyChanges
<1> QED
  BY <1>5

\* Refreshes that finish in any order, cleanups and sweeps implement the
\* abstract specification of a subscription's contents: what is listed comes
\* from ever later attempts, and an eviction lasts as long as the node is
\* listed (the two staleness checks of UpdateSubscription, SwapManagedNodes).
THEOREM ContentRefines == Spec => ForwardOnly
<1>1. Init => Promise!Init
  <2> SUFFICES ASSUME Init PROVE Promise!Init
    OBVIOUS
  <2>1. \A s \in Subs : Listed(s) = {} /\ Evicted(s) = {}
    BY EmptyMapType DEF Init, Listed, Evicted
  <2>2. source = [s \in Subs |-> 0]
    BY DEF Init
  <2> QED
    BY <2>1, <2>2 DEF Promise!Init
<1>2. Inv /\ [Next]_vars => [Promise!Next]_(Promise!contents)
  <2> SUFFICES ASSUME Inv, [Next]_vars PROVE [Promise!Next]_(Promise!contents)
    OBVIOUS
  <2>1. CASE \E w \in Workers : ApplyRefresh(w)
    BY <2>1, ApplyInstalls DEF Promise!Next
  <2>2. CASE \E w \in Workers : CleanupConfirm(w)
    BY <2>2, ConfirmEvicts DEF Promise!Next
  <2>3. CASE ~(\E w \in Workers : ApplyRefresh(w)) /\ ~(\E w \in Workers : CleanupConfirm(w))
    <3>1. UNCHANGED <<managed, source>>
      BY <2>3, ContentSteps
    <3> QED
      BY <3>1 DEF Promise!contents, Listed, Evicted
  <2> QED
    BY <2>1, <2>2, <2>3
<1> QED
  BY <1>1, <1>2, InvAlways, PTL DEF Spec, ForwardOnly, Promise!Spec
=============================================================================
