------------------------- MODULE StickyRouterProofs -------------------------
(***************************************************************************)
(* Proofs about StickyRouter, for any accounts, nodes, IPs, goroutines and *)
(* configuration: the type invariant, IPLoadStats being exact, the sweep's *)
(* restraint, and the two promises of the per-IP quota.                    *)
(*                                                                         *)
(* The count of an IP is right only because no two goroutines decide the   *)
(* same account's lease (OneDecision, from Compute) and because a request  *)
(* that is about to store a lease has a route (RouteChosen).  The quota    *)
(* rests on SlotInv: a request knows, at each phase of its decision, on    *)
(* which IP its account is recorded, and every time it goes by was read    *)
(* before (ClockInv), so that pruning never drops an account that counts.  *)
(***************************************************************************)
EXTENDS StickyRouter, ConcurrentMapProofs, FiniteSetTheorems

\* The windows' part of TypeOK.
WindowType ==
    /\ DOMAIN window = IPs
    /\ \A i \in IPs : IsMap(window[i], Accounts, Nat)

\* A request past its selection has chosen a node, and one past a forced
\* choice or about to store a lease has an egress IP too.
RouteChosen ==
    \A r \in DOMAIN reqs :
        /\ reqs[r].pc \in {"forced", "reserved", "retired"} => reqs[r].node \in Nodes
        /\ reqs[r].pc \in {"forced", "retired"} => reqs[r].ip \in IPs

\* No request but r changes.
OnlyRequest(r) ==
    /\ DOMAIN reqs' \ {r} = DOMAIN reqs \ {r}
    /\ \A s \in DOMAIN reqs \ {r} : reqs'[s] = reqs[s]

-----------------------------------------------------------------------------
\* Pruning, recording and touching keep the type of an IP's window.
LEMMA WindowOpsType ==
    ASSUME NEW m, IsMap(m, Accounts, Nat), NEW a \in Accounts, NEW now \in Nat
    PROVE  /\ IsMap(Pruned(m, now), Accounts, Nat)
           /\ IsMap(Touch(m, a, now), Accounts, Nat)
           /\ IsMap(Reserved(m, a, now), Accounts, Nat)
<1>1. IsMap(Pruned(m, now), Accounts, Nat)
  BY MapKeepType DEF Pruned
<1>2. IsMap(Touch(m, a, now), Accounts, Nat)
  BY MapPutType DEF Touch
<1>3. IsMap(Reserved(m, a, now), Accounts, Nat)
  BY <1>1, MapPutType DEF Reserved, Touch
<1>4. QED
  BY <1>1, <1>2, <1>3

\* Writing the window of one IP keeps the type of all.
LEMMA SetWindowType ==
    ASSUME WindowType, NEW ip, NEW m, ip \in IPs => IsMap(m, Accounts, Nat),
           SetWindow(ip, m)
    PROVE  WindowType'
BY DEF WindowType, SetWindow

\* A step of one request that gives it a well-typed state keeps the type of
\* all requests.
LEMMA RequestExceptType ==
    ASSUME IsMap(reqs, Requests, Request), NEW r \in DOMAIN reqs,
           NEW q \in Request, reqs' = [reqs EXCEPT ![r] = q]
    PROVE  /\ IsMap(reqs', Requests, Request)
           /\ OnlyRequest(r)
           /\ r \in DOMAIN reqs'
           /\ reqs'[r] = q
BY DEF IsMap, OnlyRequest

\* A request that ends leaves the others alone.
LEMMA FinishType ==
    ASSUME IsMap(reqs, Requests, Request), NEW r, Finish(r)
    PROVE  /\ IsMap(reqs', Requests, Request)
           /\ OnlyRequest(r)
           /\ r \notin DOMAIN reqs'
BY DEF Finish, MapDelete, IsMap, OnlyRequest

\* A request that only changes phase keeps everything else.
LEMMA GotoType ==
    ASSUME IsMap(reqs, Requests, Request), NEW r \in DOMAIN reqs,
           NEW phase \in Phases, Goto(r, phase)
    PROVE  /\ IsMap(reqs', Requests, Request)
           /\ OnlyRequest(r)
           /\ r \in DOMAIN reqs'
           /\ reqs'[r] = [reqs[r] EXCEPT !.pc = phase]
<1>1. reqs[r] \in Request
  BY MapValueType
<1>2. [reqs[r] EXCEPT !.pc = phase] \in Request
  BY <1>1 DEF Request
<1>3. reqs' = [reqs EXCEPT ![r] = [reqs[r] EXCEPT !.pc = phase]]
  BY DEF Goto
<1>4. QED
  BY <1>2, <1>3, RequestExceptType

\* Dec and Inc keep the type of the load counters.
LEMMA IncDecType ==
    ASSUME NEW l \in [IPs -> Int], NEW ip
    PROVE  Dec(l, ip) \in [IPs -> Int] /\ Inc(l, ip) \in [IPs -> Int]
<1>1. CASE ip \in IPs
  <2>1. l[ip] \in Int
    BY <1>1
  <2>2. l[ip] - 1 \in Int /\ l[ip] + 1 \in Int
    BY <2>1
  <2>3. QED
    BY <2>2 DEF Dec, Inc
<1>2. CASE ip \notin IPs
  <2>1. Dec(l, ip) = l
    BY <1>2, Zenon DEF Dec
  <2>2. Inc(l, ip) = l
    BY <1>2 DEF Inc
  <2>3. QED
    BY <2>1, <2>2
<1>3. QED
  BY <1>1, <1>2

\* So does uncounting a lease.
LEMMA UncountedType ==
    ASSUME loads \in [IPs -> Int], NEW a
    PROVE  Uncounted(a) \in [IPs -> Int]
BY IncDecType DEF Uncounted

\* A failed creation keeps every type and ends the request.
LEMMA AbortType ==
    ASSUME TypeOK, NEW r, AbortLeaseCreate(r)
    PROVE  /\ IsMap(leases', Accounts, Lease)
           /\ loads' \in [IPs -> Int]
           /\ IsMap(reqs', Requests, Request)
           /\ OnlyRequest(r)
           /\ r \notin DOMAIN reqs'
<1>1. leases' = MapDelete(leases, reqs[r].acct) /\ Finish(r)
  BY DEF AbortLeaseCreate
<1>2. IsMap(leases', Accounts, Lease)
  BY <1>1, MapDeleteType DEF TypeOK
<1>3. loads' \in [IPs -> Int]
  BY UncountedType DEF TypeOK, AbortLeaseCreate
<1>4. QED
  BY <1>1, <1>2, <1>3, FinishType DEF TypeOK

-----------------------------------------------------------------------------
\* What a step of the decision of request r may do to the requests: only r
\* changes, it keeps its account, stays in Compute, and has its route.
DecisionStep(r) ==
    /\ OnlyRequest(r)
    /\ r \in DOMAIN reqs' =>
         /\ reqs'[r].acct = reqs[r].acct
         /\ reqs'[r].pc # "compute"
         /\ reqs'[r].pc \in {"forced", "reserved", "retired"} => reqs'[r].node \in Nodes
         /\ reqs'[r].pc \in {"forced", "retired"} => reqs'[r].ip \in IPs

\* The fields of a request in flight.
LEMMA RequestFields ==
    ASSUME TypeOK, NEW r \in DOMAIN reqs
    PROVE  /\ r \in Requests
           /\ reqs[r] \in Request
           /\ reqs[r].acct \in Accounts
           /\ reqs[r].now \in Nat
           /\ reqs[r].tries \in Nat
<1>1. r \in Requests /\ reqs[r] \in Request
  BY MapValueType DEF TypeOK
<1>2. QED
  BY <1>1 DEF Request

\* What a request may write into the window of an IP is well-typed.
LEMMA WindowAt ==
    ASSUME WindowType, NEW ip \in IPs, NEW a \in Accounts, NEW now \in Nat
    PROVE  /\ IsMap(window[ip], Accounts, Nat)
           /\ IsMap(Pruned(window[ip], now), Accounts, Nat)
           /\ IsMap(Reserved(window[ip], a, now), Accounts, Nat)
<1>1. IsMap(window[ip], Accounts, Nat)
  BY DEF WindowType
<1>2. QED
  BY <1>1, WindowOpsType

\* TypeOK from its parts, for a step of a request.
LEMMA RequestStepType ==
    ASSUME TypeOK, IsMap(leases', Accounts, Lease), loads' \in [IPs -> Int],
           WindowType', IsMap(reqs', Requests, Request),
           UNCHANGED <<inherits, sweep, topology, clock>>
    PROVE  TypeOK'
BY DEF TypeOK, WindowType, topology

\* Decide keeps the types, and is a decision step.
LEMMA DecideStep ==
    ASSUME TypeOK, NEW r, Decide(r)
    PROVE  TypeOK' /\ DecisionStep(r)
<1>1. PICK phase \in {"select", "hit", "rotate"} : Goto(r, phase)
  BY DEF Decide
<1>2. r \in DOMAIN reqs /\ IsMap(reqs, Requests, Request) /\ phase \in Phases
  BY DEF Decide, TypeOK, Phases
<1>3. /\ IsMap(reqs', Requests, Request)
      /\ OnlyRequest(r)
      /\ reqs'[r] = [reqs[r] EXCEPT !.pc = phase]
  BY <1>1, <1>2, GotoType
<1>4. reqs[r] \in Request
  BY <1>2, MapValueType
<1>5. DecisionStep(r)
  BY <1>3, <1>4 DEF DecisionStep, Request
<1>6. TypeOK'
  BY <1>3 DEF Decide, TypeOK, router, topology
<1>7. QED
  BY <1>5, <1>6

\* A new last access keeps the leases' type.
LEMMA TouchLeaseType ==
    ASSUME IsMap(leases, Accounts, Lease), NEW a, NEW now \in Nat,
           leases' = [leases EXCEPT ![a].last = now]
    PROVE  IsMap(leases', Accounts, Lease)
BY DEF IsMap, Lease

\* TryLeaseHit keeps the types, and is a decision step.
LEMMA TryLeaseHitStep ==
    ASSUME TypeOK, NEW r, TryLeaseHit(r)
    PROVE  TypeOK' /\ DecisionStep(r)
<1> DEFINE a == reqs[r].acct
           now == reqs[r].now
           ip == egress[leases[a].node]
           m == window[ip]
<1>1. r \in DOMAIN reqs /\ IsMap(reqs, Requests, Request) /\ WindowType
  BY DEF TryLeaseHit, TypeOK, WindowType
<1>2. a \in Accounts /\ now \in Nat /\ reqs[r] \in Request
  BY <1>1, RequestFields
<1>3. ip \in IPs => /\ IsMap(m, Accounts, Nat)
                    /\ IsMap(Pruned(m, now), Accounts, Nat)
                    /\ IsMap(Reserved(m, a, now), Accounts, Nat)
  BY <1>1, <1>2, WindowAt
<1>4. CASE RefreshOnHit(m, a, now)
  <2>1. /\ leases' = [leases EXCEPT ![a].last = now]
        /\ SetWindow(ip, IF IPQuotaEnabled THEN Reserved(m, a, now) ELSE m)
        /\ Finish(r)
    BY <1>4 DEF TryLeaseHit
  <2>2. IsMap(leases', Accounts, Lease)
    BY <2>1, <1>2, TouchLeaseType DEF TypeOK
  <2>3. WindowType'
    BY <2>1, <1>1, <1>3, SetWindowType
  <2>4. IsMap(reqs', Requests, Request) /\ OnlyRequest(r) /\ r \notin DOMAIN reqs'
    BY <2>1, <1>1, FinishType
  <2>5. QED
    BY <2>2, <2>3, <2>4 DEF TryLeaseHit, TypeOK, WindowType, DecisionStep, topology
<1>5. CASE ~RefreshOnHit(m, a, now)
  <2>1. SetWindow(ip, Pruned(m, now)) /\ Goto(r, "rotate") /\ UNCHANGED leases
    BY <1>5 DEF TryLeaseHit
  <2>2. WindowType'
    BY <2>1, <1>1, <1>3, SetWindowType
  <2>3. /\ IsMap(reqs', Requests, Request)
        /\ OnlyRequest(r)
        /\ reqs'[r] = [reqs[r] EXCEPT !.pc = "rotate"]
    BY <2>1, <1>1, GotoType DEF Phases
  <2>4. DecisionStep(r)
    BY <2>3, <1>2 DEF DecisionStep, Request
  <2>5. QED
    BY <2>1, <2>2, <2>3, <2>4 DEF TryLeaseHit, TypeOK, WindowType, topology
<1>6. QED
  BY <1>4, <1>5

\* TryLeaseSameIPRotation keeps the types, and is a decision step.
LEMMA RotationStep ==
    ASSUME TypeOK, NEW r, TryLeaseSameIPRotation(r)
    PROVE  TypeOK' /\ DecisionStep(r)
<1> DEFINE a == reqs[r].acct
           now == reqs[r].now
           ip == leases[a].ip
           m == window[ip]
<1>1. r \in DOMAIN reqs /\ IsMap(reqs, Requests, Request) /\ WindowType
  BY DEF TryLeaseSameIPRotation, TypeOK, WindowType
<1>2. a \in Accounts /\ now \in Nat /\ reqs[r] \in Request
  BY <1>1, RequestFields
<1>3. ip \in IPs => /\ IsMap(m, Accounts, Nat)
                    /\ IsMap(Pruned(m, now), Accounts, Nat)
                    /\ IsMap(Reserved(m, a, now), Accounts, Nat)
  BY <1>1, <1>2, WindowAt
<1>4. UNCHANGED <<loads, inherits, sweep, topology, clock>>
  BY DEF TryLeaseSameIPRotation
<1>5. ASSUME Goto(r, "select"), UNCHANGED leases, WindowType'
      PROVE  TypeOK' /\ DecisionStep(r)
  <2>1. /\ IsMap(reqs', Requests, Request)
        /\ OnlyRequest(r)
        /\ reqs'[r] = [reqs[r] EXCEPT !.pc = "select"]
    BY <1>1, <1>5, GotoType DEF Phases
  <2>2. DecisionStep(r)
    BY <2>1, <1>2 DEF DecisionStep, Request
  <2>3. QED
    BY <2>1, <2>2, <1>4, <1>5, RequestStepType DEF TypeOK
<1>6. CASE RotationCandidates(ip) = {} /\ Goto(r, "select") /\ UNCHANGED <<leases, window>>
  BY <1>1, <1>5, <1>6 DEF WindowType
<1>7. CASE SetWindow(ip, Pruned(m, now)) /\ Goto(r, "select") /\ UNCHANGED leases
  BY <1>1, <1>3, <1>5, <1>7, SetWindowType
<1>8. ASSUME NEW n \in RotationCandidates(ip),
             leases' = [leases EXCEPT ![a].node = n, ![a].last = now],
             SetWindow(ip, IF IPQuotaEnabled THEN Reserved(m, a, now) ELSE m),
             Finish(r)
      PROVE  TypeOK' /\ DecisionStep(r)
  <2>1. n \in Nodes
    BY <1>8 DEF RotationCandidates, TypeOK
  <2>2. IsMap(leases', Accounts, Lease)
    BY <1>2, <1>8, <2>1 DEF TypeOK, IsMap, Lease
  <2>3. WindowType'
    BY <1>1, <1>3, <1>8, SetWindowType
  <2>4. IsMap(reqs', Requests, Request) /\ OnlyRequest(r) /\ r \notin DOMAIN reqs'
    BY <1>1, <1>8, FinishType
  <2>5. QED
    BY <2>2, <2>3, <2>4, <1>4, RequestStepType DEF TypeOK, DecisionStep
<1>9. QED
  BY <1>6, <1>7, <1>8 DEF TryLeaseSameIPRotation

\* A failed pick keeps the types, and is a decision step.
LEMMA PickFailedStep ==
    ASSUME TypeOK, NEW r \in DOMAIN reqs, reqs[r].pc = "select", PickFailed(r)
    PROVE  /\ IsMap(leases', Accounts, Lease)
           /\ loads' \in [IPs -> Int]
           /\ IsMap(reqs', Requests, Request)
           /\ DecisionStep(r)
<1> DEFINE spent == reqs[r].tries + 1
           again == [reqs[r] EXCEPT !.tries = spent]
           fall == [reqs[r] EXCEPT !.tries = 0, !.pc = "fallback"]
<1>1. reqs[r] \in Request /\ spent \in Nat
  BY RequestFields
<1>2. again \in Request /\ fall \in Request
  BY <1>1 DEF Request, Phases
<1>3. CASE spent < pickAttempts
  <2>1. reqs' = [reqs EXCEPT ![r] = again] /\ UNCHANGED <<leases, loads>>
    BY <1>3 DEF PickFailed
  <2>2. IsMap(reqs', Requests, Request) /\ OnlyRequest(r) /\ reqs'[r] = again
    BY <1>2, <2>1, RequestExceptType DEF TypeOK
  <2>3. QED
    BY <2>1, <2>2, <1>1 DEF TypeOK, DecisionStep, Request
<1>4. CASE ~(spent < pickAttempts) /\ IPQuotaEnabled
  <2>1. reqs' = [reqs EXCEPT ![r] = fall] /\ UNCHANGED <<leases, loads>>
    BY <1>4 DEF PickFailed
  <2>2. IsMap(reqs', Requests, Request) /\ OnlyRequest(r) /\ reqs'[r] = fall
    BY <1>2, <2>1, RequestExceptType DEF TypeOK
  <2>3. QED
    BY <2>1, <2>2, <1>1 DEF TypeOK, DecisionStep, Request
<1>5. CASE ~(spent < pickAttempts) /\ ~IPQuotaEnabled
  <2>1. AbortLeaseCreate(r)
    BY <1>5 DEF PickFailed
  <2>2. QED
    BY <2>1, AbortType DEF DecisionStep
<1>6. QED
  BY <1>3, <1>4, <1>5

\* PickRandomRoute keeps the types, and is a decision step.
LEMMA PickRandomRouteStep ==
    ASSUME TypeOK, NEW r, PickRandomRoute(r)
    PROVE  TypeOK' /\ DecisionStep(r)
<1> DEFINE a == reqs[r].acct
           now == reqs[r].now
<1>1. /\ r \in DOMAIN reqs
      /\ reqs[r].pc = "select"
      /\ WindowType
      /\ IsMap(reqs, Requests, Request)
      /\ UNCHANGED <<inherits, sweep, topology, clock>>
  BY DEF PickRandomRoute, TypeOK, WindowType
<1>2. a \in Accounts /\ now \in Nat /\ reqs[r] \in Request
  BY <1>1, RequestFields
<1>3. CASE AbortLeaseCreate(r) /\ UNCHANGED window
  BY <1>1, <1>3, AbortType, RequestStepType DEF WindowType, DecisionStep
<1>4. CASE PickFailed(r) /\ UNCHANGED window
  BY <1>1, <1>4, PickFailedStep, RequestStepType DEF WindowType
<1>5. ASSUME NEW n \in view \cap pool,
             SetWindow(egress[n], Pruned(window[egress[n]], now)), PickFailed(r)
      PROVE  TypeOK' /\ DecisionStep(r)
  <2>1. egress[n] \in IPs
    BY <1>5 DEF TypeOK
  <2>2. WindowType'
    BY <1>1, <1>2, <1>5, <2>1, WindowAt, SetWindowType
  <2>3. QED
    BY <1>1, <1>5, <2>2, PickFailedStep, RequestStepType
<1>6. ASSUME NEW n \in view \cap pool,
             SetWindow(egress[n], IF IPQuotaEnabled
                                  THEN Reserved(window[egress[n]], a, now)
                                  ELSE window[egress[n]]),
             reqs' = [reqs EXCEPT ![r].pc = "reserved", ![r].node = n],
             UNCHANGED <<leases, loads>>
      PROVE  TypeOK' /\ DecisionStep(r)
  <2> DEFINE q == [reqs[r] EXCEPT !.pc = "reserved", !.node = n]
  <2>1. n \in Nodes /\ egress[n] \in IPs
    BY <1>6 DEF TypeOK
  <2>2. WindowType'
    BY <1>1, <1>2, <1>6, <2>1, WindowAt, SetWindowType
  <2>3. q \in Request
    BY <1>2, <2>1 DEF Request, Phases
  <2>4. IsMap(reqs', Requests, Request) /\ OnlyRequest(r) /\ reqs'[r] = q
    BY <1>1, <1>6, <2>3, RequestExceptType
  <2>5. DecisionStep(r)
    BY <1>2, <2>1, <2>4 DEF DecisionStep, Request
  <2>6. QED
    BY <1>1, <1>6, <2>2, <2>4, <2>5, RequestStepType DEF TypeOK
<1>7. QED
  BY <1>3, <1>4, <1>5, <1>6 DEF PickRandomRoute

\* FallbackChoose keeps the types, and is a decision step.
LEMMA FallbackChooseStep ==
    ASSUME TypeOK, NEW r, FallbackChoose(r)
    PROVE  TypeOK' /\ DecisionStep(r)
<1> DEFINE now == reqs[r].now
<1>1. /\ r \in DOMAIN reqs
      /\ IsMap(reqs, Requests, Request)
      /\ UNCHANGED <<inherits, sweep, topology, clock>>
      /\ window' = [i \in IPs |-> Pruned(window[i], now)]
  BY DEF FallbackChoose, TypeOK
<1>2. reqs[r] \in Request /\ now \in Nat /\ reqs[r].acct \in Accounts
  BY <1>1, RequestFields
<1>3. \A i \in IPs : IsMap(Pruned(window[i], now), Accounts, Nat)
  BY <1>2, WindowAt DEF TypeOK, WindowType
<1>4. WindowType'
  BY <1>1, <1>3 DEF WindowType
<1>5. CASE AbortLeaseCreate(r)
  BY <1>1, <1>4, <1>5, AbortType, RequestStepType DEF DecisionStep
<1>6. ASSUME NEW n \in view \cap pool,
             reqs' = [reqs EXCEPT ![r].pc = "forced", ![r].node = n,
                                  ![r].ip = egress[n]],
             UNCHANGED <<leases, loads>>
      PROVE  TypeOK' /\ DecisionStep(r)
  <2> DEFINE q == [reqs[r] EXCEPT !.pc = "forced", !.node = n, !.ip = egress[n]]
  <2>1. n \in Nodes /\ egress[n] \in IPs
    BY <1>6 DEF TypeOK
  <2>2. q \in Request
    BY <1>2, <2>1 DEF Request, Phases
  <2>3. IsMap(reqs', Requests, Request) /\ OnlyRequest(r) /\ reqs'[r] = q
    BY <1>1, <1>6, <2>2, RequestExceptType
  <2>4. DecisionStep(r)
    BY <1>2, <2>1, <2>3 DEF DecisionStep, Request
  <2>5. QED
    BY <1>1, <1>4, <1>6, <2>3, <2>4, RequestStepType DEF TypeOK
<1>7. QED
  BY <1>5, <1>6 DEF FallbackChoose

\* FallbackReserve keeps the types, and is a decision step.
LEMMA FallbackReserveStep ==
    ASSUME TypeOK, RouteChosen, NEW r, FallbackReserve(r)
    PROVE  TypeOK' /\ DecisionStep(r)
<1> DEFINE a == reqs[r].acct
           now == reqs[r].now
           ip == reqs[r].ip
           m == window[ip]
<1>1. /\ r \in DOMAIN reqs
      /\ reqs[r].pc = "forced"
      /\ WindowType
      /\ IsMap(reqs, Requests, Request)
      /\ UNCHANGED <<inherits, sweep, topology, clock>>
  BY DEF FallbackReserve, TypeOK, WindowType
<1>2. a \in Accounts /\ now \in Nat /\ reqs[r] \in Request
  BY <1>1, RequestFields
<1>3. ip \in IPs /\ reqs[r].node \in Nodes
  BY <1>1 DEF RouteChosen
<1>4. /\ IsMap(Pruned(m, now), Accounts, Nat)
      /\ IsMap(Reserved(m, a, now), Accounts, Nat)
  BY <1>1, <1>2, <1>3, WindowAt
<1>5. CASE ReserveForcedFallback(m, a, now)
  <2>1. /\ SetWindow(ip, Reserved(m, a, now))
        /\ Goto(r, "reserved")
        /\ UNCHANGED <<leases, loads>>
    BY <1>5 DEF FallbackReserve
  <2>2. WindowType'
    BY <1>1, <1>4, <2>1, SetWindowType
  <2>3. /\ IsMap(reqs', Requests, Request)
        /\ OnlyRequest(r)
        /\ reqs'[r] = [reqs[r] EXCEPT !.pc = "reserved"]
    BY <1>1, <2>1, GotoType DEF Phases
  <2>4. DecisionStep(r)
    BY <1>2, <1>3, <2>3 DEF DecisionStep, Request
  <2>5. QED
    BY <1>1, <2>1, <2>2, <2>3, <2>4, RequestStepType DEF TypeOK
<1>6. CASE ~ReserveForcedFallback(m, a, now)
  <2>1. SetWindow(ip, Pruned(m, now)) /\ AbortLeaseCreate(r)
    BY <1>6 DEF FallbackReserve
  <2>2. WindowType'
    BY <1>1, <1>4, <2>1, SetWindowType
  <2>3. QED
    BY <1>1, <2>1, <2>2, AbortType, RequestStepType DEF DecisionStep
<1>7. QED
  BY <1>5, <1>6

\* RetirePreviousLease keeps the types, and is a decision step.
LEMMA RetireStep ==
    ASSUME TypeOK, RouteChosen, NEW r, RetirePreviousLease(r)
    PROVE  TypeOK' /\ DecisionStep(r) /\ reqs'[r] = [reqs[r] EXCEPT
             !.pc = "retired", !.ip = egress[reqs[r].node]] /\ r \in DOMAIN reqs'
<1> DEFINE q == [reqs[r] EXCEPT !.pc = "retired", !.ip = egress[reqs[r].node]]
<1>1. /\ r \in DOMAIN reqs
      /\ reqs[r].pc = "reserved"
      /\ reqs' = [reqs EXCEPT ![r] = q]
      /\ loads' = Uncounted(reqs[r].acct)
      /\ UNCHANGED <<leases, window, inherits, sweep, topology, clock>>
  BY DEF RetirePreviousLease
<1>2. reqs[r] \in Request /\ IsMap(reqs, Requests, Request)
  BY <1>1, RequestFields DEF TypeOK
<1>3. reqs[r].node \in Nodes /\ egress[reqs[r].node] \in IPs
  BY <1>1 DEF RouteChosen, TypeOK
<1>4. q \in Request
  BY <1>2, <1>3 DEF Request, Phases
<1>5. /\ IsMap(reqs', Requests, Request)
      /\ OnlyRequest(r)
      /\ r \in DOMAIN reqs'
      /\ reqs'[r] = q
  BY <1>1, <1>2, <1>4, RequestExceptType
<1>6. DecisionStep(r)
  BY <1>2, <1>3, <1>5 DEF DecisionStep, Request
<1>7. loads' \in [IPs -> Int]
  BY <1>1, UncountedType DEF TypeOK
<1>8. TypeOK'
  BY <1>1, <1>5, <1>7, RequestStepType DEF TypeOK, WindowType
<1>9. QED
  BY <1>5, <1>6, <1>8

\* StoreLease keeps the types, and is a decision step.
LEMMA StoreStep ==
    ASSUME TypeOK, RouteChosen, NEW r, StoreLease(r)
    PROVE  TypeOK' /\ DecisionStep(r)
<1> DEFINE q == reqs[r]
           lease == [node |-> q.node, ip |-> q.ip,
                     expiry |-> q.now + StickyTTLNs, last |-> q.now]
<1>1. /\ r \in DOMAIN reqs
      /\ q.pc = "retired"
      /\ loads' = Inc(loads, q.ip)
      /\ leases' = MapPut(leases, q.acct, lease)
      /\ Finish(r)
      /\ UNCHANGED <<window, inherits, sweep, topology, clock>>
  BY DEF StoreLease
<1>2. q \in Request /\ q.acct \in Accounts /\ q.now \in Nat
  BY <1>1, RequestFields
<1>3. q.node \in Nodes /\ q.ip \in IPs
  BY <1>1 DEF RouteChosen
<1>4. q.now + StickyTTLNs \in Nat
  BY <1>2, RouterAssumption
<1>5. lease \in Lease
  BY <1>2, <1>3, <1>4 DEF Lease
<1>6. IsMap(leases', Accounts, Lease)
  <2> HIDE DEF lease
  <2>1. QED
    BY <1>1, <1>2, <1>5, MapPutType DEF TypeOK
<1>7. loads' \in [IPs -> Int]
  BY <1>1, IncDecType DEF TypeOK
<1>8. IsMap(reqs', Requests, Request) /\ OnlyRequest(r) /\ r \notin DOMAIN reqs'
  BY <1>1, FinishType DEF TypeOK
<1>9. TypeOK'
  BY <1>1, <1>6, <1>7, <1>8, RequestStepType DEF TypeOK, WindowType
<1>10. QED
  BY <1>8, <1>9 DEF DecisionStep

-----------------------------------------------------------------------------
\* RouteRequest adds a request that waits for its account.
LEMMA RouteRequestStep ==
    ASSUME TypeOK, NEW r \in Requests, NEW a \in Accounts, RouteRequest(r, a)
    PROVE  /\ TypeOK'
           /\ OnlyRequest(r)
           /\ r \notin DOMAIN reqs
           /\ reqs'[r].pc = "compute"
<1> DEFINE q == [pc |-> "compute", acct |-> a, now |-> clock, tries |-> 0,
                 node |-> NoNode, ip |-> NoIP]
<1>1. /\ r \notin DOMAIN reqs
      /\ reqs' = MapPut(reqs, r, q)
      /\ UNCHANGED <<router, inherits, sweep, topology, clock>>
  BY DEF RouteRequest
<1>2. q \in Request /\ q.pc = "compute"
  BY DEF Request, Phases, TypeOK
<1>3. /\ IsMap(reqs', Requests, Request)
      /\ DOMAIN reqs' = DOMAIN reqs \cup {r}
      /\ reqs'[r] = q
      /\ \A x \in DOMAIN reqs \ {r} : reqs'[x] = reqs[x]
  <2>1. IsMap(reqs, Requests, Request)
    BY DEF TypeOK
  <2> HIDE DEF q
  <2>2. QED
    BY <1>1, <1>2, <2>1 DEF MapPut, IsMap
<1>4. TypeOK'
  BY <1>1, <1>3 DEF TypeOK, router, topology
<1>5. QED
  BY <1>1, <1>2, <1>3, <1>4 DEF OnlyRequest

\* An inheritance copies a well-typed lease.
LEMMA InheritStep ==
    ASSUME TypeOK, NEW w \in Admins, NEW p \in Accounts, NEW c \in Accounts,
           InheritRead(w, p, c)
    PROVE  TypeOK'
<1> DEFINE h == [pc |-> "read", acct |-> c, lease |-> leases[p]]
<1>1. inherits' = MapPut(inherits, w, h) /\ p \in DOMAIN leases
  BY DEF InheritRead
<1>2. leases[p] \in Lease
  BY <1>1, MapValueType DEF TypeOK
<1>3. h \in Inherit
  BY <1>2 DEF Inherit
<1>4. IsMap(inherits', Admins, Inherit)
  <2> HIDE DEF h
  <2>1. QED
    BY <1>1, <1>3, MapPutType DEF TypeOK
<1>5. QED
  BY <1>4 DEF InheritRead, TypeOK, router, topology

\* The fields of an inheritance in flight.
LEMMA InheritFields ==
    ASSUME TypeOK, NEW w \in DOMAIN inherits
    PROVE  /\ inherits[w] \in Inherit
           /\ inherits[w].acct \in Accounts
           /\ inherits[w].lease \in Lease
           /\ inherits[w].lease.ip \in IPs
<1>1. inherits[w] \in Inherit
  BY MapValueType DEF TypeOK
<1>2. inherits[w].acct \in Accounts /\ inherits[w].lease \in Lease
  BY <1>1 DEF Inherit
<1>3. inherits[w].lease.ip \in IPs
  BY <1>2 DEF Lease
<1>4. QED
  BY <1>1, <1>2, <1>3

\* UpsertLease keeps the types.
LEMMA UpsertStep ==
    ASSUME TypeOK, NEW w, UpsertLease(w)
    PROVE  TypeOK'
<1> DEFINE a == inherits[w].acct
           lease == inherits[w].lease
           h == [inherits[w] EXCEPT !.pc = "upserted"]
<1>1. /\ w \in DOMAIN inherits
      /\ loads' = Inc(Uncounted(a), lease.ip)
      /\ leases' = MapPut(leases, a, lease)
      /\ inherits' = [inherits EXCEPT ![w] = h]
  BY DEF UpsertLease
<1>2. inherits[w] \in Inherit /\ a \in Accounts /\ lease \in Lease
  BY <1>1, InheritFields
<1>3. h \in Inherit
  BY <1>2 DEF Inherit
<1>4. IsMap(inherits', Admins, Inherit)
  BY <1>1, <1>3 DEF TypeOK, IsMap
<1>5. IsMap(leases', Accounts, Lease)
  BY <1>1, <1>2, MapPutType DEF TypeOK
<1>6. loads' \in [IPs -> Int]
  BY <1>1, UncountedType, IncDecType DEF TypeOK
<1>7. QED
  BY <1>4, <1>5, <1>6 DEF UpsertLease, TypeOK, topology

\* So does the record it leaves in the window.
LEMMA UpsertTouchStep ==
    ASSUME TypeOK, NEW w, UpsertTouch(w)
    PROVE  TypeOK'
<1> DEFINE ip == inherits[w].lease.ip
           m == IF IPQuotaEnabled THEN Touch(window[ip], inherits[w].acct, clock)
                ELSE window[ip]
<1>1. w \in DOMAIN inherits /\ SetWindow(ip, m) /\ inherits' = MapDelete(inherits, w)
  BY DEF UpsertTouch
<1>2. ip \in IPs /\ inherits[w].acct \in Accounts /\ clock \in Nat
  BY <1>1, InheritFields DEF TypeOK
<1>3. IsMap(m, Accounts, Nat)
  BY <1>2, WindowOpsType DEF TypeOK
<1>4. WindowType'
  <2>1. WindowType
    BY DEF TypeOK, WindowType
  <2> HIDE DEF m
  <2>2. QED
    BY <1>1, <1>3, <2>1, SetWindowType
<1>5. IsMap(inherits', Admins, Inherit)
  BY <1>1, MapDeleteType DEF TypeOK
<1>6. QED
  BY <1>4, <1>5 DEF UpsertTouch, TypeOK, WindowType, topology

\* Deletion, by the control plane or by the sweep.
LEMMA RemoveLeaseType ==
    ASSUME TypeOK, NEW a, loads' = Uncounted(a), leases' = MapDelete(leases, a)
    PROVE  IsMap(leases', Accounts, Lease) /\ loads' \in [IPs -> Int]
<1>1. IsMap(leases', Accounts, Lease)
  BY MapDeleteType DEF TypeOK
<1>2. loads' \in [IPs -> Int]
  BY UncountedType DEF TypeOK
<1>3. QED
  BY <1>1, <1>2

\* DeleteLease keeps the types.
LEMMA DeleteStep ==
    ASSUME TypeOK, NEW a \in Accounts, DeleteLease(a)
    PROVE  TypeOK'
<1>1. IsMap(leases', Accounts, Lease) /\ loads' \in [IPs -> Int]
  BY RemoveLeaseType DEF DeleteLease
<1>2. QED
  BY <1>1 DEF DeleteLease, TypeOK, topology

\* Every step of the cleaner keeps the types.
LEMMA SweepTypeStep ==
    ASSUME TypeOK, SweepStep
    PROVE  TypeOK'
<1>1. CASE SweepStart
  <2>1. sweep' \in Sweep
    BY <1>1 DEF SweepStart, TypeOK, Sweep, IsMap
  <2>2. \A i \in IPs : IsMap(Pruned(window[i], clock), Accounts, Nat)
    BY MapKeepType DEF TypeOK, Pruned
  <2>3. WindowType'
    BY <1>1, <2>2 DEF SweepStart, TypeOK, WindowType
  <2>4. QED
    BY <1>1, <2>1, <2>3 DEF SweepStart, TypeOK, WindowType, topology
<1>2. ASSUME NEW a \in Accounts, SweepVisit(a)
      PROVE  TypeOK'
  <2>1. sweep' \in Sweep
    BY <1>2 DEF SweepVisit, TypeOK, Sweep
  <2>2. QED
    BY <1>2, <2>1 DEF SweepVisit, TypeOK, router, topology
<1>3. ASSUME NEW a \in Accounts, SweepCompute(a)
      PROVE  TypeOK'
  <2>1. sweep' \in Sweep
    BY <1>3 DEF SweepCompute, TypeOK, Sweep
  <2>2. IsMap(leases', Accounts, Lease) /\ loads' \in [IPs -> Int]
    <3>1. CASE UNCHANGED <<leases, loads>>
      BY <3>1 DEF TypeOK
    <3>2. CASE loads' = Uncounted(a) /\ leases' = MapDelete(leases, a)
      BY <3>2, RemoveLeaseType
    <3>3. QED
      BY <1>3, <3>1, <3>2 DEF SweepCompute
  <2>3. QED
    BY <1>3, <2>1, <2>2 DEF SweepCompute, TypeOK, topology
<1>4. CASE SweepEnd
  <2>1. sweep' \in Sweep
    BY <1>4 DEF SweepEnd, IdleSweep, TypeOK, Sweep
  <2>2. QED
    BY <1>4, <2>1 DEF SweepEnd, TypeOK, router, topology
<1>5. QED
  BY <1>1, <1>2, <1>3, <1>4 DEF SweepStep

\* The topology keeps the types and touches no lease, counter or request.
LEMMA TopologyTypeStep ==
    ASSUME TypeOK, TopologyStep
    PROVE  TypeOK' /\ UNCHANGED <<leases, loads, reqs>>
BY DEF TopologyStep, NodeRemoved, ViewAdd, ViewRemove, EgressChange, EnvStep,
       TypeOK, router

-----------------------------------------------------------------------------
\* Any set of accounts with a lease is finite.
LEMMA LeasesFinite ==
    ASSUME TypeOK, NEW S \in SUBSET DOMAIN leases
    PROVE  IsFiniteSet(S) /\ Cardinality(S) \in Nat
<1>1. S \subseteq Accounts
  BY DEF TypeOK, IsMap
<1>2. IsFiniteSet(S)
  BY <1>1, RouterAssumption, FS_Subset
<1>3. QED
  BY <1>2, FS_CardinalityType

\* RestoreLeases keeps the types: the counters it computes are numbers.
LEMMA RestoreStep ==
    ASSUME TypeOK, RestoreLeases
    PROVE  TypeOK'
<1> DEFINE kept == {a \in DOMAIN leases : leases[a].node \in pool}
           on(i) == {a \in DOMAIN leases' : leases'[a].ip = i}
           recent(i) == {a \in DOMAIN leases' :
                           /\ leases'[a].ip = i
                           /\ clock - leases'[a].last < IPAccountWindowNs}
<1>1. /\ leases' = MapKeep(leases, kept)
      /\ loads' = [i \in IPs |-> Cardinality(on(i))]
      /\ window' = [i \in IPs |->
                      IF IPQuotaEnabled
                      THEN [a \in recent(i) |-> leases'[a].last] ELSE EmptyMap]
      /\ UNCHANGED <<reqs, inherits, sweep, topology, clock>>
  BY DEF RestoreLeases
<1>2. IsMap(leases', Accounts, Lease) /\ DOMAIN leases' = DOMAIN leases \cap kept
  <2>1. IsMap(leases, Accounts, Lease)
    BY DEF TypeOK
  <2>2. leases' = MapKeep(leases, kept)
    BY <1>1
  <2> HIDE DEF kept
  <2>3. /\ IsMap(MapKeep(leases, kept), Accounts, Lease)
        /\ DOMAIN MapKeep(leases, kept) = DOMAIN leases \cap kept
    BY <2>1 DEF IsMap, MapKeep
  <2>4. QED
    BY <2>2, <2>3
<1>3. \A i \in IPs : Cardinality(on(i)) \in Nat
  <2>1. \A i \in IPs : on(i) \in SUBSET DOMAIN leases
    BY <1>2
  <2> HIDE DEF on
  <2>2. QED
    BY <2>1, LeasesFinite
<1>4. loads' \in [IPs -> Int]
  <2> HIDE DEF on
  <2>1. QED
    BY <1>1, <1>3
<1>5. \A i \in IPs : IsMap([a \in recent(i) |-> leases'[a].last], Accounts, Nat)
  BY <1>2 DEF IsMap, Lease
<1>6. WindowType'
  <2> HIDE DEF recent
  <2>1. QED
    BY <1>1, <1>5, EmptyMapType DEF WindowType
<1>7. QED
  BY <1>1, <1>2, <1>4, <1>6 DEF TypeOK, WindowType, topology

-----------------------------------------------------------------------------
\* A decision step of a request that holds its account, or takes it while it
\* is free, keeps at most one decision per account.
LEMMA DecisionKept ==
    ASSUME OneDecision, RouteChosen, NEW r \in DOMAIN reqs,
           InCompute(r) \/ ~Locked(reqs[r].acct), DecisionStep(r)
    PROVE  OneDecision' /\ RouteChosen'
<1>1. \A s \in DOMAIN reqs' \ {r} : s \in DOMAIN reqs /\ reqs'[s] = reqs[s]
  BY DEF DecisionStep, OnlyRequest
<1>2. RouteChosen'
  BY <1>1 DEF RouteChosen, DecisionStep
<1>3. ASSUME NEW s \in DOMAIN reqs', NEW t \in DOMAIN reqs',
             InCompute(s)', InCompute(t)', reqs'[s].acct = reqs'[t].acct
      PROVE  s = t
  <2>1. CASE s # r /\ t # r
    BY <1>1, <1>3, <2>1 DEF OneDecision, InCompute
  <2>2. ASSUME NEW x \in DOMAIN reqs' \ {r}, r \in DOMAIN reqs', InCompute(x)',
               reqs'[x].acct = reqs'[r].acct
        PROVE  FALSE
    <3>1. x \in DOMAIN reqs /\ InCompute(x) /\ reqs[x].acct = reqs[r].acct
      BY <1>1, <2>2 DEF InCompute, DecisionStep
    <3>2. Locked(reqs[r].acct)
      BY <3>1 DEF Locked
    <3>3. QED
      BY <3>1, <3>2, <2>2 DEF OneDecision
  <2>3. QED
    BY <1>3, <2>1, <2>2
<1>4. OneDecision'
  BY <1>3 DEF OneDecision
<1>5. QED
  BY <1>2, <1>4

\* Every step of a request keeps the types and the decisions apart.
LEMMA RequestStepInv ==
    ASSUME TypeOK, OneDecision, RouteChosen, NEW r, RequestStep(r)
    PROVE  TypeOK' /\ OneDecision' /\ RouteChosen' /\ DecisionStep(r)
<1>1. r \in DOMAIN reqs /\ (InCompute(r) \/ ~Locked(reqs[r].acct))
  BY DEF RequestStep, InCompute, Decide, TryLeaseHit, TryLeaseSameIPRotation,
         PickRandomRoute, FallbackChoose, FallbackReserve, RetirePreviousLease,
         StoreLease
<1>2. TypeOK' /\ DecisionStep(r)
  BY DecideStep, TryLeaseHitStep, RotationStep, PickRandomRouteStep,
     FallbackChooseStep, FallbackReserveStep, RetireStep, StoreStep
     DEF RequestStep
<1>3. QED
  BY <1>1, <1>2, DecisionKept

\* The part of the invariant that the counters do not enter.
ControlInv == TypeOK /\ OneDecision /\ RouteChosen

\* ControlInv holds initially.
LEMMA ControlInit ==
    ASSUME Init
    PROVE  ControlInv
<1>1. leases = EmptyMap /\ reqs = EmptyMap /\ inherits = EmptyMap
  BY DEF Init
<1>2. /\ IsMap(leases, Accounts, Lease)
      /\ IsMap(reqs, Requests, Request)
      /\ IsMap(inherits, Admins, Inherit)
      /\ DOMAIN reqs = {}
  BY <1>1, EmptyMapType
<1>3. DOMAIN window = IPs /\ \A i \in IPs : IsMap(window[i], Accounts, Nat)
  BY EmptyMapType DEF Init
<1>4. sweep \in Sweep
  BY DEF Init, IdleSweep, Sweep
<1>5. TypeOK
  BY <1>2, <1>3, <1>4 DEF Init, TypeOK
<1>6. QED
  BY <1>2, <1>5 DEF ControlInv, OneDecision, RouteChosen

\* Every step keeps ControlInv.
LEMMA ControlStep ==
    ASSUME ControlInv, [Next]_vars
    PROVE  ControlInv'
<1>1. TypeOK /\ OneDecision /\ RouteChosen
  BY DEF ControlInv
<1>2. ASSUME TypeOK', UNCHANGED reqs
      PROVE  ControlInv'
  BY <1>1, <1>2 DEF ControlInv, OneDecision, RouteChosen, InCompute
<1>3. ASSUME NEW r \in Requests, NEW a \in Accounts, RouteRequest(r, a)
      PROVE  ControlInv'
  <2>1. /\ TypeOK'
        /\ OnlyRequest(r)
        /\ r \notin DOMAIN reqs
        /\ reqs'[r].pc = "compute"
    BY <1>1, <1>3, RouteRequestStep
  <2>2. \A s \in DOMAIN reqs' \ {r} : s \in DOMAIN reqs /\ reqs'[s] = reqs[s]
    BY <2>1 DEF OnlyRequest
  <2>3. OneDecision'
    BY <1>1, <2>1, <2>2 DEF OneDecision, InCompute
  <2>4. RouteChosen'
    BY <1>1, <2>1, <2>2 DEF RouteChosen
  <2>5. QED
    BY <2>1, <2>3, <2>4 DEF ControlInv
<1>4. ASSUME NEW r \in Requests, RequestStep(r)
      PROVE  ControlInv'
  BY <1>1, <1>4, RequestStepInv DEF ControlInv
<1>5. CASE AdminStep
  <2>1. UNCHANGED reqs
    BY <1>5 DEF AdminStep, InheritRead, UpsertLease, UpsertTouch, DeleteLease
  <2>2. TypeOK'
    BY <1>1, <1>5, InheritStep, UpsertStep, UpsertTouchStep, DeleteStep DEF AdminStep
  <2>3. QED
    BY <1>2, <2>1, <2>2
<1>6. CASE SweepStep
  <2>1. UNCHANGED reqs
    BY <1>6 DEF SweepStep, SweepStart, SweepVisit, SweepCompute, SweepEnd
  <2>2. QED
    BY <1>1, <1>2, <1>6, <2>1, SweepTypeStep
<1>7. CASE RestoreLeases
  <2>1. UNCHANGED reqs
    BY <1>7 DEF RestoreLeases
  <2>2. QED
    BY <1>1, <1>2, <1>7, <2>1, RestoreStep
<1>8. CASE TopologyStep
  BY <1>1, <1>2, <1>8, TopologyTypeStep
<1>9. CASE Tick
  <2>1. TypeOK' /\ UNCHANGED reqs
    BY <1>1, <1>9 DEF Tick, TypeOK, router, topology
  <2>2. QED
    BY <1>2, <2>1
<1>10. CASE UNCHANGED vars
  <2>1. TypeOK' /\ UNCHANGED reqs
    BY <1>1, <1>10 DEF vars, TypeOK, topology
  <2>2. QED
    BY <1>2, <2>1
<1>11. QED
  BY <1>3, <1>4, <1>5, <1>6, <1>7, <1>8, <1>9, <1>10 DEF Next

\* The state of the router is well-typed at all times: every lease has a node
\* and an egress IP, whatever interleaving produced it.
THEOREM TypeCorrect == Spec => []TypeOK
<1>1. Init => ControlInv
  BY ControlInit
<1>2. ControlInv /\ [Next]_vars => ControlInv'
  BY ControlStep
<1>3. ControlInv => TypeOK
  BY DEF ControlInv
<1>4. QED
  BY <1>1, <1>2, <1>3, PTL DEF Spec

-----------------------------------------------------------------------------
\* No lease comes, goes or changes its egress IP, and no counter moves.
KeepsLeases ==
    /\ loads' = loads
    /\ DOMAIN leases' = DOMAIN leases
    /\ \A a \in DOMAIN leases : leases'[a].ip = leases[a].ip

\* An account is retired exactly while a request is between the two halves of
\* its replacement.
LEMMA RetiredMember ==
    ASSUME NEW a
    PROVE  a \in Retired <=>
             \E r \in DOMAIN reqs : reqs[r].pc = "retired" /\ reqs[r].acct = a
BY DEF Retired

\* A step of a request that neither starts nor ends a replacement retires
\* nothing.
LEMMA RetiredSame ==
    ASSUME NEW r, OnlyRequest(r),
           r \in DOMAIN reqs => reqs[r].pc # "retired",
           r \in DOMAIN reqs' => reqs'[r].pc # "retired"
    PROVE  Retired' = Retired
BY DEF Retired, OnlyRequest

\* The account of a request still deciding, and an account no one holds, are
\* not retired.
LEMMA NotRetired ==
    ASSUME OneDecision, NEW a,
           \/ ~Locked(a)
           \/ \E r \in DOMAIN reqs : /\ InCompute(r)
                                     /\ reqs[r].pc # "retired"
                                     /\ reqs[r].acct = a
    PROVE  a \notin Retired
<1>1. SUFFICES ASSUME NEW s \in DOMAIN reqs, reqs[s].pc = "retired", reqs[s].acct = a
               PROVE  FALSE
  BY RetiredMember
<1>2. InCompute(s) /\ Locked(a)
  BY <1>1 DEF InCompute, Locked
<1>3. QED
  BY <1>1, <1>2 DEF OneDecision

\* Steps that keep the leases keep the counts.
LEMMA KeptExact ==
    ASSUME LoadStatsExact, KeepsLeases, Retired' = Retired
    PROVE  LoadStatsExact'
<1>1. \A i \in IPs : CountedOn(i)' = CountedOn(i)
  BY DEF CountedOn, KeepsLeases
<1>2. QED
  BY <1>1 DEF LoadStatsExact, KeepsLeases

\* Uncounted(a) counts every lease but a's, provided a's was still counted.
LEMMA UncountedExact ==
    ASSUME TypeOK, LoadStatsExact, NEW a \in Accounts, a \notin Retired,
           NEW i \in IPs
    PROVE  Uncounted(a)[i] = Cardinality(CountedOn(i) \ {a})
<1>1. CountedOn(i) \in SUBSET DOMAIN leases /\ loads[i] = Cardinality(CountedOn(i))
  BY DEF CountedOn, LoadStatsExact
<1>2. IsFiniteSet(CountedOn(i)) /\ loads \in [IPs -> Int]
  BY <1>1, LeasesFinite DEF TypeOK
<1>3. CASE a \in DOMAIN leases /\ leases[a].ip = i
  <2>1. a \in CountedOn(i)
    BY <1>3 DEF CountedOn
  <2>2. Cardinality(CountedOn(i) \ {a}) = Cardinality(CountedOn(i)) - 1
    BY <1>2, <2>1, FS_RemoveElement
  <2>3. Uncounted(a)[i] = loads[i] - 1
    BY <1>2, <1>3 DEF Uncounted, Dec
  <2>4. QED
    BY <1>1, <2>2, <2>3
<1>4. CASE ~(a \in DOMAIN leases /\ leases[a].ip = i)
  <2>1. CountedOn(i) \ {a} = CountedOn(i)
    BY <1>4 DEF CountedOn
  <2>2. Uncounted(a)[i] = loads[i]
    BY <1>2, <1>4 DEF Uncounted, Dec
  <2>3. QED
    BY <1>1, <2>1, <2>2
<1>5. QED
  BY <1>3, <1>4

\* Dropping a lease that was counted, with its count, keeps the counts.
LEMMA DroppedExact ==
    ASSUME TypeOK, LoadStatsExact, NEW a \in Accounts, a \notin Retired,
           loads' = Uncounted(a), leases' = MapDelete(leases, a),
           Retired' = Retired
    PROVE  LoadStatsExact'
<1>1. \A i \in IPs : CountedOn(i)' = CountedOn(i) \ {a}
  BY DEF CountedOn, MapDelete
<1>2. \A i \in IPs : loads'[i] = Cardinality(CountedOn(i) \ {a})
  BY UncountedExact
<1>3. QED
  BY <1>1, <1>2 DEF LoadStatsExact

\* Adding a lease for an account that is not counted, with its count, keeps
\* the counts.
LEMMA AddedExact ==
    ASSUME TypeOK, NEW a \in Accounts, NEW ip \in IPs, NEW l \in [IPs -> Int],
           \A i \in IPs : l[i] = Cardinality(CountedOn(i) \ {a}),
           loads' = Inc(l, ip),
           \A i \in IPs : CountedOn(i)' = IF i = ip THEN (CountedOn(i) \ {a}) \cup {a}
                                          ELSE CountedOn(i) \ {a}
    PROVE  LoadStatsExact'
<1>1. SUFFICES ASSUME NEW i \in IPs
               PROVE  loads'[i] = Cardinality(CountedOn(i)')
  BY DEF LoadStatsExact
<1>2. IsFiniteSet(CountedOn(i) \ {a})
  <2>1. CountedOn(i) \ {a} \in SUBSET DOMAIN leases
    BY DEF CountedOn
  <2>2. QED
    BY <2>1, LeasesFinite
<1>3. CASE i = ip
  <2>1. Cardinality((CountedOn(i) \ {a}) \cup {a}) = Cardinality(CountedOn(i) \ {a}) + 1
    BY <1>2, FS_AddElement
  <2>2. loads'[i] = l[i] + 1
    BY <1>3 DEF Inc
  <2>3. QED
    BY <1>3, <2>1, <2>2
<1>4. CASE i # ip
  <2>1. loads'[i] = l[i]
    BY <1>4 DEF Inc
  <2>2. QED
    BY <1>4, <2>1
<1>5. QED
  BY <1>3, <1>4

-----------------------------------------------------------------------------
\* Up to the retirement of the previous lease, a step of a request keeps every
\* lease or abandons its own.
LEMMA DecidingStep ==
    ASSUME TypeOK, NEW r,
           \/ Decide(r) \/ TryLeaseHit(r) \/ TryLeaseSameIPRotation(r)
           \/ PickRandomRoute(r) \/ FallbackChoose(r) \/ FallbackReserve(r)
    PROVE  /\ KeepsLeases \/ (AbortLeaseCreate(r) /\ InCompute(r))
           /\ r \in DOMAIN reqs
           /\ reqs[r].pc # "retired"
           /\ r \in DOMAIN reqs' => reqs'[r].pc # "retired"
<1>1. r \in DOMAIN reqs /\ reqs[r].pc # "retired"
  BY DEF Decide, TryLeaseHit, TryLeaseSameIPRotation, PickRandomRoute,
         FallbackChoose, FallbackReserve
<1>2. IsMap(leases, Accounts, Lease) /\ IsMap(reqs, Requests, Request)
  BY DEF TypeOK
<1>3. reqs[r] \in Request
  BY <1>1, RequestFields
<1>4. ASSUME NEW phase \in Phases \ {"retired"}, Goto(r, phase)
      PROVE  reqs'[r].pc # "retired"
  <2>1. reqs'[r] = [reqs[r] EXCEPT !.pc = phase]
    BY <1>1, <1>2, <1>4, GotoType
  <2>2. QED
    BY <1>3, <1>4, <2>1 DEF Request
<1>5. ASSUME Finish(r)
      PROVE  r \notin DOMAIN reqs'
  BY <1>2, <1>5, FinishType
<1>6. ASSUME AbortLeaseCreate(r)
      PROVE  r \notin DOMAIN reqs'
  BY <1>6, AbortType
<1>7. ASSUME PickFailed(r), reqs[r].pc = "select"
      PROVE  /\ KeepsLeases \/ (AbortLeaseCreate(r) /\ InCompute(r))
             /\ r \in DOMAIN reqs' => reqs'[r].pc # "retired"
  <2>1. CASE AbortLeaseCreate(r)
    BY <1>1, <1>6, <1>7, <2>1 DEF InCompute
  <2>2. CASE /\ reqs' = [reqs EXCEPT ![r].tries = reqs[r].tries + 1]
             /\ UNCHANGED <<leases, loads>>
    BY <1>1, <1>2, <1>3, <1>7, <2>2 DEF KeepsLeases, IsMap, Request
  <2>3. CASE /\ reqs' = [reqs EXCEPT ![r].tries = 0, ![r].pc = "fallback"]
             /\ UNCHANGED <<leases, loads>>
    BY <1>1, <1>2, <1>3, <2>3 DEF KeepsLeases, IsMap, Request
  <2>4. QED
    BY <1>7, <2>1, <2>2, <2>3 DEF PickFailed
<1>8. CASE Decide(r)
  <2>1. PICK phase \in {"select", "hit", "rotate"} : Goto(r, phase)
    BY <1>8 DEF Decide
  <2>2. reqs'[r].pc # "retired"
    BY <1>4, <2>1 DEF Phases
  <2>3. KeepsLeases
    BY <1>8 DEF Decide, KeepsLeases, router
  <2>4. QED
    BY <1>1, <2>2, <2>3
<1>9. CASE TryLeaseHit(r)
  <2>1. Finish(r) \/ Goto(r, "rotate")
    BY <1>9 DEF TryLeaseHit
  <2>2. r \in DOMAIN reqs' => reqs'[r].pc # "retired"
    BY <1>4, <1>5, <2>1 DEF Phases
  <2>3. KeepsLeases
    BY <1>2, <1>9 DEF TryLeaseHit, KeepsLeases, IsMap, Lease
  <2>4. QED
    BY <1>1, <2>2, <2>3
<1>10. CASE TryLeaseSameIPRotation(r)
  <2>1. Finish(r) \/ Goto(r, "select")
    BY <1>10 DEF TryLeaseSameIPRotation
  <2>2. r \in DOMAIN reqs' => reqs'[r].pc # "retired"
    BY <1>4, <1>5, <2>1 DEF Phases
  <2>3. KeepsLeases
    <3>1. /\ loads' = loads
          /\ \/ leases' = leases
             \/ \E n \in Nodes, a \in Accounts, now \in Nat :
                  leases' = [leases EXCEPT ![a].node = n, ![a].last = now]
      BY <1>1, <1>10, RequestFields
         DEF TryLeaseSameIPRotation, RotationCandidates, TypeOK
    <3>2. ASSUME NEW n \in Nodes, NEW a \in Accounts, NEW now \in Nat,
                 leases' = [leases EXCEPT ![a].node = n, ![a].last = now]
          PROVE  /\ DOMAIN leases' = DOMAIN leases
                 /\ \A b \in DOMAIN leases : leases'[b].ip = leases[b].ip
      BY <1>2, <3>2 DEF IsMap, Lease
    <3>3. QED
      BY <3>1, <3>2 DEF KeepsLeases
  <2>4. QED
    BY <1>1, <2>2, <2>3
<1>11. CASE PickRandomRoute(r)
  <2>1. reqs[r].pc = "select"
    BY <1>11 DEF PickRandomRoute
  <2>2. CASE AbortLeaseCreate(r)
    BY <1>1, <1>6, <2>1, <2>2 DEF InCompute
  <2>3. CASE PickFailed(r)
    BY <1>1, <1>7, <2>1, <2>3
  <2>4. ASSUME NEW n, reqs' = [reqs EXCEPT ![r].pc = "reserved", ![r].node = n],
               UNCHANGED <<leases, loads>>
        PROVE  KeepsLeases /\ reqs'[r].pc # "retired"
    BY <1>1, <1>2, <1>3, <2>4 DEF KeepsLeases, IsMap, Request
  <2>5. QED
    BY <1>1, <1>11, <2>2, <2>3, <2>4 DEF PickRandomRoute
<1>12. CASE FallbackChoose(r)
  <2>1. reqs[r].pc = "fallback"
    BY <1>12 DEF FallbackChoose
  <2>2. CASE AbortLeaseCreate(r)
    BY <1>1, <1>6, <2>1, <2>2 DEF InCompute
  <2>3. ASSUME NEW n, reqs' = [reqs EXCEPT ![r].pc = "forced", ![r].node = n,
                                            ![r].ip = egress[n]],
               UNCHANGED <<leases, loads>>
        PROVE  KeepsLeases /\ reqs'[r].pc # "retired"
    BY <1>1, <1>2, <1>3, <2>3 DEF KeepsLeases, IsMap, Request
  <2>4. \/ AbortLeaseCreate(r)
        \/ \E n \in view \cap pool :
             /\ reqs' = [reqs EXCEPT ![r].pc = "forced", ![r].node = n,
                                     ![r].ip = egress[n]]
             /\ UNCHANGED <<leases, loads>>
    BY <1>12 DEF FallbackChoose
  <2>5. QED
    BY <1>1, <2>2, <2>3, <2>4
<1>13. CASE FallbackReserve(r)
  <2>1. reqs[r].pc = "forced"
    BY <1>13 DEF FallbackReserve
  <2>2. CASE AbortLeaseCreate(r)
    BY <1>1, <1>6, <2>1, <2>2 DEF InCompute
  <2>3. CASE Goto(r, "reserved") /\ UNCHANGED <<leases, loads>>
    BY <1>1, <1>4, <2>3 DEF KeepsLeases, Phases
  <2>4. QED
    BY <1>1, <1>13, <2>2, <2>3 DEF FallbackReserve
<1>14. QED
  BY <1>8, <1>9, <1>10, <1>11, <1>12, <1>13

\* Retiring the previous lease uncounts it.
LEMMA RetireExact ==
    ASSUME ControlInv, LoadStatsExact, NEW r, RetirePreviousLease(r)
    PROVE  LoadStatsExact'
<1> DEFINE a == reqs[r].acct
<1>1. /\ r \in DOMAIN reqs
      /\ reqs[r].pc = "reserved"
      /\ loads' = Uncounted(a)
      /\ leases' = leases
  BY DEF RetirePreviousLease
<1>2. TypeOK /\ OneDecision /\ RouteChosen
  BY DEF ControlInv
<1>3. a \in Accounts /\ reqs[r] \in Request
  BY <1>1, <1>2, RequestFields
<1>4. a \notin Retired
  BY <1>1, <1>2, NotRetired DEF InCompute
<1>5. /\ OnlyRequest(r)
      /\ r \in DOMAIN reqs'
      /\ reqs'[r].acct = a
      /\ reqs'[r].pc = "retired"
  <2>1. /\ OnlyRequest(r)
        /\ r \in DOMAIN reqs'
        /\ reqs'[r] = [reqs[r] EXCEPT !.pc = "retired", !.ip = egress[reqs[r].node]]
    BY <1>2, RetireStep DEF DecisionStep
  <2>2. QED
    BY <1>3, <2>1 DEF Request
<1>6. Retired' = Retired \cup {a}
  BY <1>1, <1>5 DEF Retired, OnlyRequest
<1>7. \A i \in IPs : CountedOn(i)' = CountedOn(i) \ {a}
  BY <1>1, <1>6 DEF CountedOn
<1>8. \A i \in IPs : loads'[i] = Cardinality(CountedOn(i) \ {a})
  BY <1>1, <1>2, <1>3, <1>4, UncountedExact
<1>9. QED
  BY <1>7, <1>8 DEF LoadStatsExact

\* Storing the new lease counts it, once: its account was retired.
LEMMA StoreExact ==
    ASSUME ControlInv, LoadStatsExact, NEW r, StoreLease(r)
    PROVE  LoadStatsExact'
<1> DEFINE a == reqs[r].acct
           ip == reqs[r].ip
           lease == [node |-> reqs[r].node, ip |-> ip,
                     expiry |-> reqs[r].now + StickyTTLNs, last |-> reqs[r].now]
<1>1. /\ r \in DOMAIN reqs
      /\ reqs[r].pc = "retired"
      /\ loads' = Inc(loads, ip)
      /\ leases' = MapPut(leases, a, lease)
      /\ lease.ip = ip
      /\ Finish(r)
  BY DEF StoreLease
<1>2. TypeOK /\ OneDecision /\ RouteChosen
  BY DEF ControlInv
<1>3. a \in Accounts /\ ip \in IPs /\ loads \in [IPs -> Int]
  BY <1>1, <1>2, RequestFields DEF RouteChosen, TypeOK
<1>4. OnlyRequest(r) /\ r \notin DOMAIN reqs'
  BY <1>1, <1>2, FinishType DEF TypeOK
<1>5. a \in Retired
  BY <1>1, RetiredMember
<1>6. Retired' = Retired \ {a}
  <2>1. \A s \in DOMAIN reqs \ {r} : reqs[s].pc = "retired" => reqs[s].acct # a
    BY <1>1, <1>2 DEF OneDecision, InCompute
  <2>2. QED
    BY <1>1, <1>4, <2>1 DEF Retired, OnlyRequest
<1>7. \A i \in IPs : CountedOn(i) = CountedOn(i) \ {a}
  BY <1>5 DEF CountedOn
<1>8. \A i \in IPs : loads[i] = Cardinality(CountedOn(i) \ {a})
  BY <1>7 DEF LoadStatsExact
<1>9. \A i \in IPs : CountedOn(i)' = IF i = ip THEN (CountedOn(i) \ {a}) \cup {a}
                                     ELSE CountedOn(i) \ {a}
  <2> HIDE DEF lease
  <2>1. QED
    BY <1>1, <1>6 DEF CountedOn, MapPut
<1>10. QED
  BY <1>1, <1>2, <1>3, <1>8, <1>9, AddedExact

\* Every step of a request keeps the counts.
LEMMA RequestExact ==
    ASSUME ControlInv, LoadStatsExact, NEW r, RequestStep(r)
    PROVE  LoadStatsExact'
<1>1. TypeOK /\ OneDecision /\ RouteChosen
  BY DEF ControlInv
<1>2. CASE RetirePreviousLease(r)
  BY <1>2, RetireExact
<1>3. CASE StoreLease(r)
  BY <1>3, StoreExact
<1>4. CASE \/ Decide(r) \/ TryLeaseHit(r) \/ TryLeaseSameIPRotation(r)
           \/ PickRandomRoute(r) \/ FallbackChoose(r) \/ FallbackReserve(r)
  <2>1. /\ KeepsLeases \/ (AbortLeaseCreate(r) /\ InCompute(r))
        /\ r \in DOMAIN reqs
        /\ reqs[r].pc # "retired"
        /\ r \in DOMAIN reqs' => reqs'[r].pc # "retired"
    BY <1>1, <1>4, DecidingStep
  <2>2. OnlyRequest(r)
    BY <1>1, RequestStepInv DEF DecisionStep
  <2>3. Retired' = Retired
    BY <2>1, <2>2, RetiredSame
  <2>4. CASE KeepsLeases
    BY <2>3, <2>4, KeptExact
  <2>5. CASE AbortLeaseCreate(r) /\ InCompute(r)
    <3>1. /\ loads' = Uncounted(reqs[r].acct)
          /\ leases' = MapDelete(leases, reqs[r].acct)
      BY <2>5 DEF AbortLeaseCreate
    <3>2. reqs[r].acct \in Accounts
      BY <1>1, <2>1, RequestFields
    <3>3. reqs[r].acct \notin Retired
      BY <1>1, <2>1, <2>5, NotRetired
    <3>4. QED
      BY <1>1, <2>3, <3>1, <3>2, <3>3, DroppedExact
  <2>6. QED
    BY <2>1, <2>4, <2>5
<1>5. QED
  BY <1>2, <1>3, <1>4 DEF RequestStep

\* An inherited lease replaces the account's own, count and all.
LEMMA UpsertExact ==
    ASSUME ControlInv, LoadStatsExact, NEW w, UpsertLease(w)
    PROVE  LoadStatsExact'
<1> DEFINE a == inherits[w].acct
           lease == inherits[w].lease
<1>1. /\ w \in DOMAIN inherits
      /\ ~Locked(a)
      /\ loads' = Inc(Uncounted(a), lease.ip)
      /\ leases' = MapPut(leases, a, lease)
      /\ UNCHANGED reqs
  BY DEF UpsertLease
<1>2. TypeOK /\ OneDecision
  BY DEF ControlInv
<1>3. a \in Accounts /\ lease.ip \in IPs
  BY <1>1, <1>2, InheritFields
<1>4. a \notin Retired
  BY <1>1, <1>2, NotRetired
<1>5. Retired' = Retired
  BY <1>1 DEF Retired
<1>6. Uncounted(a) \in [IPs -> Int]
  BY <1>2, UncountedType DEF TypeOK
<1>7. \A i \in IPs : Uncounted(a)[i] = Cardinality(CountedOn(i) \ {a})
  BY <1>2, <1>3, <1>4, UncountedExact
<1>8. \A i \in IPs : CountedOn(i)' = IF i = lease.ip
                                     THEN (CountedOn(i) \ {a}) \cup {a}
                                     ELSE CountedOn(i) \ {a}
  BY <1>1, <1>4, <1>5 DEF CountedOn, MapPut
<1>9. QED
  BY <1>1, <1>2, <1>3, <1>6, <1>7, <1>8, AddedExact

\* Deletion by the control plane or by the sweep drops the count with the
\* lease.
LEMMA RemoveExact ==
    ASSUME ControlInv, LoadStatsExact, NEW a \in Accounts, ~Locked(a),
           loads' = Uncounted(a), leases' = MapDelete(leases, a), UNCHANGED reqs
    PROVE  LoadStatsExact'
<1>1. TypeOK /\ OneDecision
  BY DEF ControlInv
<1>2. a \notin Retired
  BY <1>1, NotRetired
<1>3. Retired' = Retired
  BY DEF Retired
<1>4. QED
  BY <1>1, <1>2, <1>3, DroppedExact

\* A restart counts the leases it restores.
LEMMA RestoreExact ==
    ASSUME RestoreLeases
    PROVE  LoadStatsExact'
<1>1. /\ reqs = EmptyMap
      /\ UNCHANGED reqs
      /\ loads' = [i \in IPs |-> Cardinality({a \in DOMAIN leases' : leases'[a].ip = i})]
  BY DEF RestoreLeases
<1>2. Retired' = {}
  BY <1>1 DEF Retired, EmptyMap
<1>3. \A i \in IPs : CountedOn(i)' = {a \in DOMAIN leases' : leases'[a].ip = i}
  BY <1>2 DEF CountedOn
<1>4. QED
  BY <1>1, <1>3 DEF LoadStatsExact

-----------------------------------------------------------------------------
\* The inductive invariant.
LoadInv == ControlInv /\ LoadStatsExact

\* Initially nothing is leased and nothing counted.
LEMMA LoadInit ==
    ASSUME Init
    PROVE  LoadStatsExact
<1>1. DOMAIN leases = {}
  BY DEF Init, EmptyMap
<1>2. \A i \in IPs : CountedOn(i) = {}
  BY <1>1 DEF CountedOn
<1>3. QED
  BY <1>2, FS_EmptySet DEF Init, LoadStatsExact

\* Every step keeps the counts.
LEMMA LoadStep ==
    ASSUME LoadInv, [Next]_vars
    PROVE  LoadStatsExact'
<1>1. ControlInv /\ LoadStatsExact /\ TypeOK
  BY DEF LoadInv, ControlInv
<1>2. ASSUME UNCHANGED <<leases, loads, reqs>>
      PROVE  LoadStatsExact'
  BY <1>1, <1>2 DEF LoadStatsExact, CountedOn, Retired
<1>3. ASSUME NEW r \in Requests, NEW a \in Accounts, RouteRequest(r, a)
      PROVE  LoadStatsExact'
  <2>1. OnlyRequest(r) /\ r \notin DOMAIN reqs /\ reqs'[r].pc = "compute"
    BY <1>1, <1>3, RouteRequestStep
  <2>2. Retired' = Retired
    BY <2>1, RetiredSame
  <2>3. KeepsLeases
    BY <1>3 DEF RouteRequest, KeepsLeases, router
  <2>4. QED
    BY <1>1, <2>2, <2>3, KeptExact
<1>4. ASSUME NEW r \in Requests, RequestStep(r)
      PROVE  LoadStatsExact'
  BY <1>1, <1>4, RequestExact
<1>5. CASE AdminStep
  <2>1. ASSUME NEW w \in Admins, NEW p \in Accounts, NEW c \in Accounts,
               InheritRead(w, p, c)
        PROVE  LoadStatsExact'
    BY <1>2, <2>1 DEF InheritRead, router
  <2>2. ASSUME NEW w \in Admins, UpsertLease(w)
        PROVE  LoadStatsExact'
    BY <1>1, <2>2, UpsertExact
  <2>3. ASSUME NEW w \in Admins, UpsertTouch(w)
        PROVE  LoadStatsExact'
    BY <1>2, <2>3 DEF UpsertTouch
  <2>4. ASSUME NEW a \in Accounts, DeleteLease(a)
        PROVE  LoadStatsExact'
    BY <1>1, <2>4, RemoveExact DEF DeleteLease
  <2>5. QED
    BY <1>5, <2>1, <2>2, <2>3, <2>4 DEF AdminStep
<1>6. CASE SweepStep
  <2>1. CASE SweepStart \/ SweepEnd \/ \E a \in Accounts : SweepVisit(a)
    BY <1>2, <2>1 DEF SweepStart, SweepEnd, SweepVisit, router
  <2>2. ASSUME NEW a \in Accounts, SweepCompute(a)
        PROVE  LoadStatsExact'
    <3>1. ~Locked(a) /\ UNCHANGED reqs
      BY <2>2 DEF SweepCompute
    <3>2. CASE UNCHANGED <<leases, loads>>
      BY <1>2, <3>1, <3>2
    <3>3. CASE loads' = Uncounted(a) /\ leases' = MapDelete(leases, a)
      BY <1>1, <3>1, <3>3, RemoveExact
    <3>4. QED
      BY <2>2, <3>2, <3>3 DEF SweepCompute
  <2>3. QED
    BY <1>6, <2>1, <2>2 DEF SweepStep
<1>7. CASE RestoreLeases
  BY <1>7, RestoreExact
<1>8. CASE TopologyStep
  BY <1>1, <1>2, <1>8, TopologyTypeStep
<1>9. CASE Tick
  BY <1>2, <1>9 DEF Tick, router
<1>10. CASE UNCHANGED vars
  BY <1>2, <1>10 DEF vars
<1>11. QED
  BY <1>3, <1>4, <1>5, <1>6, <1>7, <1>8, <1>9, <1>10 DEF Next

\* IPLoadStats counts exactly the leases of each IP, whatever the accounts,
\* the configuration and the interleaving: no path that replaces, abandons,
\* inherits, deletes, sweeps or restores a lease counts it twice or forgets
\* to uncount it.
THEOREM LoadCorrect == Spec => []LoadStatsExact
<1>1. Init => LoadInv
  BY ControlInit, LoadInit DEF LoadInv
<1>2. LoadInv /\ [Next]_vars => LoadInv'
  BY ControlStep, LoadStep DEF LoadInv
<1>3. LoadInv => LoadStatsExact
  BY DEF LoadInv
<1>4. QED
  BY <1>1, <1>2, <1>3, PTL DEF Spec

-----------------------------------------------------------------------------
\* The cleaner's clock value is one that was current when its pass began.
SweepClock == sweep.now <= clock

SweepInv == ControlInv /\ SweepClock

\* Every step keeps the cleaner's clock value in the past.
LEMMA SweepClockStep ==
    ASSUME SweepInv, [Next]_vars
    PROVE  SweepClock'
<1>1. sweep \in Sweep /\ clock \in Nat /\ sweep.now <= clock
  BY DEF SweepInv, ControlInv, TypeOK, SweepClock
<1>2. ASSUME UNCHANGED <<sweep, clock>>
      PROVE  SweepClock'
  BY <1>1, <1>2 DEF SweepClock
<1>3. CASE SweepStart
  BY <1>1, <1>3 DEF SweepStart, SweepClock
<1>4. CASE SweepEnd
  BY <1>1, <1>4 DEF SweepEnd, IdleSweep, SweepClock
<1>5. ASSUME NEW a \in Accounts, SweepVisit(a) \/ SweepCompute(a)
      PROVE  SweepClock'
  <2>1. sweep'.now = sweep.now /\ clock' = clock
    BY <1>1, <1>5 DEF SweepVisit, SweepCompute, Sweep
  <2>2. QED
    BY <1>1, <2>1 DEF SweepClock
<1>6. CASE Tick
  <2>1. sweep' = sweep /\ clock' = clock + 1 /\ sweep.now \in Nat
    BY <1>1, <1>6 DEF Tick, Sweep
  <2>2. QED
    BY <1>1, <2>1 DEF SweepClock
<1>7. ASSUME NEW r \in Requests, RequestStep(r)
      PROVE  SweepClock'
  BY <1>2, <1>7 DEF RequestStep, Decide, TryLeaseHit, TryLeaseSameIPRotation,
     PickRandomRoute, FallbackChoose, FallbackReserve, RetirePreviousLease, StoreLease
<1>8. ASSUME NEW r \in Requests, NEW a \in Accounts, RouteRequest(r, a)
      PROVE  SweepClock'
  BY <1>2, <1>8 DEF RouteRequest
<1>9. CASE AdminStep
  BY <1>2, <1>9 DEF AdminStep, InheritRead, UpsertLease, UpsertTouch, DeleteLease
<1>10. CASE RestoreLeases
  BY <1>2, <1>10 DEF RestoreLeases
<1>11. CASE TopologyStep
  BY <1>2, <1>11 DEF TopologyStep, NodeRemoved, ViewAdd, ViewRemove, EgressChange, EnvStep
<1>12. CASE UNCHANGED vars
  BY <1>2, <1>12 DEF vars
<1>13. QED
  BY <1>3, <1>4, <1>5, <1>6, <1>7, <1>8, <1>9, <1>10, <1>11, <1>12 DEF Next, SweepStep

\* The cleaner, which works from leases it read without their locks and from
\* a clock value read before them, deletes only leases that have expired.
THEOREM SweepCorrect == Spec => SweepSparesLiveLeases
<1> DEFINE Spares == \A a \in Accounts :
                       SweepCompute(a) /\ a \in DOMAIN leases /\ a \notin DOMAIN leases'
                       => IsExpired(leases[a], clock)
<1>1. Init => SweepInv
  <2>1. Init => SweepClock
    BY DEF Init, IdleSweep, SweepClock
  <2>2. QED
    BY <2>1, ControlInit DEF SweepInv
<1>2. SweepInv /\ [Next]_vars => SweepInv'
  BY ControlStep, SweepClockStep DEF SweepInv
<1>3. SweepInv => Spares
  <2>1. SUFFICES ASSUME SweepInv, NEW a \in Accounts, SweepCompute(a),
                        a \in DOMAIN leases, a \notin DOMAIN leases'
                 PROVE  leases[a].expiry < clock
    BY DEF IsExpired
  <2>2. leases[a].expiry < sweep.now
    BY <2>1 DEF SweepCompute, IsExpired
  <2>3. /\ sweep.now <= clock
        /\ sweep.now \in Nat
        /\ clock \in Nat
        /\ leases[a].expiry \in Nat
    BY <2>1 DEF SweepInv, ControlInv, TypeOK, SweepClock, Sweep, IsMap, Lease
  <2>4. QED
    BY <2>2, <2>3
<1>4. SweepInv => [Spares]_vars
  BY <1>3
<1>5. QED
  BY <1>1, <1>2, <1>4, PTL DEF Spec, SweepSparesLiveLeases

-----------------------------------------------------------------------------
\* A use at time t still counts, and account a occupies a slot of ip for it.
Recent(t) == t > clock - IPAccountWindowNs
Slot(ip, a, t) == Recent(t) => a \in DOMAIN window[ip] /\ window[ip][a] >= t

\* No time that was read lies in the future.
ClockInv ==
    /\ \A r \in DOMAIN reqs : reqs[r].now <= clock
    /\ \A a \in DOMAIN leases : leases[a].last <= clock
    /\ \A w \in DOMAIN inherits : inherits[w].lease.last <= clock

\* What a request inside Compute knows of its lease, its route and its slot,
\* as long as no egress IP changes meanwhile.
Knows(r) ==
    /\ reqs[r].pc \in {"hit", "rotate"} => reqs[r].acct \in DOMAIN leases
    /\ reqs[r].pc = "hit" => egress[leases[reqs[r].acct].node] = leases[reqs[r].acct].ip
    /\ reqs[r].pc = "forced" => reqs[r].ip = egress[reqs[r].node]
    /\ reqs[r].pc = "reserved" => Slot(egress[reqs[r].node], reqs[r].acct, reqs[r].now)
    /\ reqs[r].pc = "retired" => /\ reqs[r].ip = egress[reqs[r].node]
                                 /\ Slot(reqs[r].ip, reqs[r].acct, reqs[r].now)

\* An inheritance that still has to record a on ip.
WillTouch(a, ip) ==
    \E w \in DOMAIN inherits :
        inherits[w].pc = "upserted" /\ inherits[w].acct = a /\ inherits[w].lease.ip = ip

\* A lease used within the window has its slot, unless its account is being
\* decided or an inheritance is about to record it.
LeaseHasSlot(a) ==
    Locked(a) \/ Slot(leases[a].ip, a, leases[a].last) \/ WillTouch(a, leases[a].ip)

SlotInv ==
    /\ ControlInv
    /\ ClockInv
    /\ \A r \in DOMAIN reqs : Knows(r)
    /\ \A a \in DOMAIN leases : LeaseHasSlot(a)

\* The window of an IP after a step that admits account a at time now: the
\* same, pruned, or with a recorded below the ceiling.
AdmittedStep(a, now) ==
    \A ip \in IPs :
        \/ window'[ip] = window[ip]
        \/ window'[ip] = Pruned(window[ip], now)
        \/ /\ window'[ip] = Reserved(window[ip], a, now)
           /\ Admits(window[ip], a, now, MaxAccountsPerIP + 1)

-----------------------------------------------------------------------------
\* Pruning with a time that is not in the future keeps what still counts.
LEMMA PrunedKeeps ==
    ASSUME NEW m, IsMap(m, Accounts, Nat), clock \in Nat, NEW now \in Nat, now <= clock,
           NEW b \in DOMAIN m, NEW t \in Nat, Recent(t), m[b] >= t
    PROVE  b \in DOMAIN Pruned(m, now) /\ Pruned(m, now)[b] = m[b]
<1>1. m[b] \in Nat
  BY DEF IsMap
<1>2. m[b] > now - IPAccountWindowNs
  BY <1>1, QuotaAssumption DEF Recent
<1> QED
  BY <1>2 DEF Pruned, MapKeep

\* A step that admits one account takes no slot from another.
LEMMA AdmittedKeeps ==
    ASSUME TypeOK, NEW a \in Accounts, NEW now \in Nat, now <= clock, AdmittedStep(a, now),
           clock' = clock,
           NEW ip \in IPs, NEW b \in Accounts, b # a, NEW t \in Nat, Slot(ip, b, t)
    PROVE  Slot(ip, b, t)'
<1> SUFFICES ASSUME Recent(t)
             PROVE  b \in DOMAIN window'[ip] /\ window'[ip][b] >= t
  BY DEF Slot, Recent
<1>1. b \in DOMAIN window[ip] /\ window[ip][b] >= t
  BY DEF Slot
<1>2. IsMap(window[ip], Accounts, Nat) /\ clock \in Nat
  BY DEF TypeOK
<1>3. b \in DOMAIN Pruned(window[ip], now) /\ Pruned(window[ip], now)[b] = window[ip][b]
  BY <1>1, <1>2, PrunedKeeps
<1>4. /\ b \in DOMAIN Reserved(window[ip], a, now)
      /\ Reserved(window[ip], a, now)[b] = Pruned(window[ip], now)[b]
  BY <1>3 DEF Reserved, Touch, MapPut
<1> QED
  BY <1>1, <1>3, <1>4 DEF AdmittedStep

\* An account that is recorded has its slot.
LEMMA ReservedSlot ==
    ASSUME NEW ip \in IPs, NEW a, NEW now \in Nat, window'[ip] = Reserved(window[ip], a, now)
    PROVE  Slot(ip, a, now)'
BY DEF Slot, Reserved, Touch, MapPut

\* Writing one window by an admission is an admitted step.
LEMMA SetAdmitted ==
    ASSUME WindowType, NEW ip \in IPs, NEW a, NEW now, NEW m, SetWindow(ip, m),
           \/ m = window[ip]
           \/ m = Pruned(window[ip], now)
           \/ m = Reserved(window[ip], a, now) /\ Admits(window[ip], a, now, MaxAccountsPerIP + 1)
    PROVE  AdmittedStep(a, now) /\ window'[ip] = m
BY DEF SetWindow, WindowType, AdmittedStep

\* What is admitted below the limit is admitted below the ceiling.
LEMMA EligibleAdmitted ==
    ASSUME NEW m, IsMap(m, Accounts, Nat), NEW a, NEW now \in Nat, ReserveIfEligible(m, a, now)
    PROVE  Admits(m, a, now, MaxAccountsPerIP + 1)
<1>1. DOMAIN Pruned(m, now) \subseteq Accounts
  BY DEF Pruned, MapKeep, IsMap
<1>2. CountRecent(m, now) \in Nat
  BY <1>1, RouterAssumption, FS_Subset, FS_CardinalityType DEF CountRecent
<1> QED
  BY <1>2, QuotaAssumption DEF ReserveIfEligible, Admits

-----------------------------------------------------------------------------
\* Steps of a request keep SlotInv when they only touch its own account, take
\* no slot from another, and leave it with a slot when it is done.
LEMMA DecisionSlots ==
    ASSUME SlotInv, ControlInv', NEW r \in DOMAIN reqs, InCompute(r) \/ ~Locked(reqs[r].acct),
           DecisionStep(r), UNCHANGED <<inherits, egress, clock>>,
           NEW a \in Accounts, a = reqs[r].acct,
           AdmittedStep(a, reqs[r].now),
           DOMAIN leases' \ {a} = DOMAIN leases \ {a},
           \A b \in DOMAIN leases \ {a} : leases'[b] = leases[b],
           a \in DOMAIN leases' => leases'[a].last <= clock,
           r \in DOMAIN reqs' => reqs'[r].now = reqs[r].now /\ Knows(r)',
           r \notin DOMAIN reqs' /\ a \in DOMAIN leases'
             => LET ip == leases'[a].ip
                    t == leases'[a].last
                IN  Recent(t) => a \in DOMAIN window'[ip] /\ window'[ip][a] >= t
    PROVE  SlotInv'
<1>1. TypeOK /\ TypeOK' /\ OneDecision /\ RouteChosen
  BY DEF SlotInv, ControlInv
<1>2. reqs[r].now \in Nat /\ reqs[r].now <= clock /\ clock \in Nat
  BY <1>1, RequestFields DEF SlotInv, ClockInv, TypeOK
<1>3. \A s \in DOMAIN reqs' \ {r} : s \in DOMAIN reqs /\ reqs'[s] = reqs[s]
  BY DEF DecisionStep, OnlyRequest
<1>4. ASSUME NEW ip \in IPs, NEW b \in Accounts \ {a}, NEW t \in Nat, Slot(ip, b, t)
      PROVE  Slot(ip, b, t)'
  BY <1>1, <1>2, <1>4, AdmittedKeeps
<1>5. ClockInv'
  BY <1>3 DEF SlotInv, ClockInv
<1>6. ASSUME NEW s \in DOMAIN reqs' PROVE Knows(s)'
  <2>1. CASE s = r
    BY <2>1
  <2>2. CASE s # r /\ reqs[s].pc = "compute"
    BY <1>3, <2>2 DEF Knows
  <2>3. CASE s # r /\ reqs[s].pc # "compute"
    <3>1. s \in DOMAIN reqs /\ reqs'[s] = reqs[s] /\ Knows(s) /\ InCompute(s)
      BY <1>3, <2>3 DEF SlotInv, InCompute
    <3>2. reqs[s].acct \in Accounts /\ reqs[s].now \in Nat
      BY <1>1, <3>1, RequestFields
    <3>3. reqs[s].acct # a
      BY <2>3, <3>1, <1>1 DEF OneDecision, Locked
    <3>4. reqs[s].pc \in {"reserved", "retired"} => egress[reqs[s].node] \in IPs
      BY <1>1, <3>1 DEF RouteChosen, TypeOK
    <3>5. PICK b, t, n, i : /\ b \in Accounts /\ t \in Nat
                            /\ b = reqs[s].acct /\ t = reqs[s].now
                            /\ n = reqs[s].node /\ i = reqs[s].ip
      BY <3>2
    <3>6. reqs[s].pc \in {"reserved", "retired"} /\ Slot(egress[n], b, t) => Slot(egress[n], b, t)'
      <4>1. PICK ip : ip = egress[n]
        OBVIOUS
      <4>2. reqs[s].pc \in {"reserved", "retired"} /\ Slot(ip, b, t) => Slot(ip, b, t)'
        BY <1>4, <3>3, <3>4, <3>5, <4>1
      <4> QED
        BY <4>1, <4>2 DEF Slot
    <3>7. reqs[s].acct \in DOMAIN leases
            => reqs[s].acct \in DOMAIN leases' /\ leases'[reqs[s].acct] = leases[reqs[s].acct]
      BY <3>3
    <3>8. reqs[s].pc = "retired" /\ Slot(i, b, t) => Slot(i, b, t)'
      BY <3>1, <3>5, <3>6 DEF Knows, Slot
    <3> QED
      BY <3>1, <3>5, <3>6, <3>7, <3>8 DEF Knows, Slot, Recent
  <2> QED
    BY <2>1, <2>2, <2>3
<1>7. ASSUME NEW b \in DOMAIN leases' PROVE LeaseHasSlot(b)'
  <2>1. CASE b # a
    <3>1. b \in DOMAIN leases /\ leases'[b] = leases[b] /\ LeaseHasSlot(b)
      BY <2>1 DEF SlotInv
    <3>2. b \in Accounts /\ leases[b].ip \in IPs /\ leases[b].last \in Nat
      BY <1>1, <3>1 DEF TypeOK, IsMap, Lease
    <3>3. Locked(b) => Locked(b)'
      BY <2>1 DEF Locked, InCompute, DecisionStep, OnlyRequest
    <3>4. PICK ip \in IPs, t \in Nat : ip = leases[b].ip /\ t = leases[b].last
      BY <3>2
    <3>5. Slot(ip, b, t) => Slot(ip, b, t)'
      BY <1>4, <2>1, <3>2
    <3>6. WillTouch(b, ip)' <=> WillTouch(b, ip)
      BY DEF WillTouch
    <3>7. Locked(b)' \/ Slot(ip, b, t)' \/ WillTouch(b, ip)'
      BY <3>1, <3>3, <3>4, <3>5, <3>6 DEF LeaseHasSlot
    <3> QED
      BY <3>1, <3>4, <3>7 DEF LeaseHasSlot, Slot, Recent, WillTouch
  <2>2. CASE b = a /\ r \in DOMAIN reqs'
    BY <2>2 DEF LeaseHasSlot, Locked, InCompute, DecisionStep
  <2>3. CASE b = a /\ r \notin DOMAIN reqs'
    BY <2>3 DEF LeaseHasSlot, Slot, Recent
  <2> QED
    BY <2>1, <2>2, <2>3
<1> QED
  BY <1>5, <1>6, <1>7 DEF SlotInv

-----------------------------------------------------------------------------
\* What a step of request r does, as DecisionSlots asks for it.
SlotStep(r) ==
    LET a == reqs[r].acct
    IN  /\ AdmittedStep(a, reqs[r].now)
        /\ DOMAIN leases' \ {a} = DOMAIN leases \ {a}
        /\ \A b \in DOMAIN leases \ {a} : leases'[b] = leases[b]
        /\ a \in DOMAIN leases' => leases'[a].last <= clock
        /\ r \in DOMAIN reqs' => reqs'[r].now = reqs[r].now /\ Knows(r)'
        /\ r \notin DOMAIN reqs' /\ a \in DOMAIN leases'
             => (leases'[a].last > clock - IPAccountWindowNs
                 => /\ a \in DOMAIN window'[leases'[a].ip]
                    /\ window'[leases'[a].ip][a] >= leases'[a].last)

\* The step's facts about its request, as every lemma below starts.
LEMMA SlotFacts ==
    ASSUME SlotInv, NEW r \in DOMAIN reqs
    PROVE  /\ TypeOK /\ OneDecision /\ RouteChosen /\ WindowType
           /\ reqs[r] \in Request
           /\ reqs[r].acct \in Accounts
           /\ reqs[r].now \in Nat
           /\ reqs[r].now <= clock
           /\ clock \in Nat
           /\ Knows(r)
BY RequestFields DEF SlotInv, ControlInv, ClockInv, TypeOK, WindowType

\* An unchanged window is an admitted step.
LEMMA SameAdmitted ==
    ASSUME UNCHANGED window, NEW a, NEW now
    PROVE  AdmittedStep(a, now)
BY DEF AdmittedStep

\* A request that goes on and leaves the leases alone.
LEMMA GoesOn ==
    ASSUME SlotInv, NEW r \in DOMAIN reqs, UNCHANGED leases,
           AdmittedStep(reqs[r].acct, reqs[r].now),
           r \in DOMAIN reqs', reqs'[r].now = reqs[r].now, Knows(r)'
    PROVE  SlotStep(r)
BY DEF SlotStep, SlotInv, ClockInv

\* A request that gives up drops its lease.
LEMMA GivesUp ==
    ASSUME SlotInv, NEW r \in DOMAIN reqs, AbortLeaseCreate(r),
           AdmittedStep(reqs[r].acct, reqs[r].now)
    PROVE  SlotStep(r)
<1>1. /\ leases' = MapDelete(leases, reqs[r].acct)
      /\ Finish(r)
  BY DEF AbortLeaseCreate
<1>2. /\ DOMAIN leases' = DOMAIN leases \ {reqs[r].acct}
      /\ \A b \in DOMAIN leases \ {reqs[r].acct} : leases'[b] = leases[b]
  BY <1>1 DEF MapDelete
<1>3. r \notin DOMAIN reqs'
  BY <1>1 DEF Finish, MapDelete
<1> QED
  BY <1>2, <1>3 DEF SlotStep

\* Decide: a hit found its lease on its node's egress IP.
LEMMA DecideSlots ==
    ASSUME SlotInv, NEW r, Decide(r)
    PROVE  SlotStep(r)
<1>1. /\ r \in DOMAIN reqs
      /\ UNCHANGED <<leases, window, egress>>
  BY DEF Decide, router, topology
<1>2. PICK phase \in {"select", "hit", "rotate"} :
         /\ Goto(r, phase)
         /\ phase # "select" => reqs[r].acct \in DOMAIN leases
         /\ phase = "hit" => egress[leases[reqs[r].acct].node] = leases[reqs[r].acct].ip
  BY DEF Decide
<1>3. TypeOK /\ IsMap(reqs, Requests, Request) /\ phase \in Phases
  BY <1>1, SlotFacts DEF TypeOK, Phases
<1>4. r \in DOMAIN reqs' /\ reqs'[r] = [reqs[r] EXCEPT !.pc = phase]
  BY <1>1, <1>2, <1>3, GotoType
<1>5. reqs'[r].pc = phase /\ reqs'[r].now = reqs[r].now /\ reqs'[r].acct = reqs[r].acct
  BY <1>1, <1>4, SlotFacts DEF Request
<1>6. Knows(r)'
  BY <1>1, <1>2, <1>5 DEF Knows
<1> QED
  BY <1>1, <1>4, <1>5, <1>6, GoesOn, SameAdmitted

\* TryLeaseHit: the account is recorded on the very IP its lease is on.
LEMMA HitSlots ==
    ASSUME SlotInv, IPQuotaEnabled, NEW r, TryLeaseHit(r)
    PROVE  SlotStep(r)
<1>1. /\ r \in DOMAIN reqs
      /\ reqs[r].pc = "hit"
      /\ UNCHANGED <<egress, clock>>
  BY DEF TryLeaseHit, topology
<1>2. PICK a \in Accounts, now \in Nat : a = reqs[r].acct /\ now = reqs[r].now
  BY <1>1, SlotFacts
<1>3. a \in DOMAIN leases /\ egress[leases[a].node] = leases[a].ip
  BY <1>1, <1>2, SlotFacts DEF Knows
<1>4. PICK ip \in IPs : ip = leases[a].ip
  BY <1>1, <1>3, SlotFacts DEF TypeOK, IsMap, Lease
<1>5. CASE RefreshOnHit(window[ip], a, now)
  <2>1. /\ leases' = [leases EXCEPT ![a].last = now]
        /\ SetWindow(ip, Reserved(window[ip], a, now))
        /\ Finish(r)
    BY <1>2, <1>3, <1>4, <1>5 DEF TryLeaseHit
  <2>2. /\ AdmittedStep(a, now)
        /\ window'[ip] = Reserved(window[ip], a, now)
    BY <1>1, <1>5, <2>1, SlotFacts, SetAdmitted DEF RefreshOnHit
  <2>3. r \notin DOMAIN reqs'
    BY <2>1 DEF Finish, MapDelete
  <2>4. /\ DOMAIN leases' = DOMAIN leases
        /\ \A b \in DOMAIN leases \ {a} : leases'[b] = leases[b]
        /\ leases'[a].last = now
        /\ leases'[a].ip = ip
    BY <1>1, <1>3, <1>4, <2>1, SlotFacts DEF TypeOK, IsMap, Lease
  <2>5. a \in DOMAIN window'[ip] /\ window'[ip][a] = now
    BY <2>2 DEF Reserved, Touch, MapPut
  <2>6. now <= clock
    BY <1>1, <1>2, SlotFacts
  <2> QED
    BY <1>2, <2>2, <2>3, <2>4, <2>5, <2>6 DEF SlotStep
<1>6. CASE ~RefreshOnHit(window[ip], a, now)
  <2>1. SetWindow(ip, Pruned(window[ip], now)) /\ Goto(r, "rotate") /\ UNCHANGED leases
    BY <1>2, <1>3, <1>4, <1>6 DEF TryLeaseHit
  <2>2. AdmittedStep(a, now)
    BY <1>1, <2>1, SlotFacts, SetAdmitted
  <2>3. r \in DOMAIN reqs' /\ reqs'[r] = [reqs[r] EXCEPT !.pc = "rotate"]
    BY <1>1, <2>1, SlotFacts, GotoType DEF TypeOK, Phases
  <2>4. reqs'[r].pc = "rotate" /\ reqs'[r].now = now /\ reqs'[r].acct = a
    BY <1>1, <1>2, <2>3, SlotFacts DEF Request
  <2>5. Knows(r)'
    BY <1>3, <2>1, <2>4 DEF Knows
  <2> QED
    BY <1>1, <1>2, <2>1, <2>2, <2>3, <2>4, <2>5, GoesOn
<1> QED
  BY <1>5, <1>6

\* TryLeaseSameIPRotation: the same, with another node of the same IP.
LEMMA RotationSlots ==
    ASSUME SlotInv, IPQuotaEnabled, NEW r, TryLeaseSameIPRotation(r)
    PROVE  SlotStep(r)
<1>1. /\ r \in DOMAIN reqs
      /\ reqs[r].pc = "rotate"
      /\ UNCHANGED <<egress, clock>>
  BY DEF TryLeaseSameIPRotation, topology
<1>2. PICK a \in Accounts, now \in Nat : a = reqs[r].acct /\ now = reqs[r].now
  BY <1>1, SlotFacts
<1>3. a \in DOMAIN leases
  BY <1>1, <1>2, SlotFacts DEF Knows
<1>4. PICK ip \in IPs : ip = leases[a].ip
  BY <1>1, <1>3, SlotFacts DEF TypeOK, IsMap, Lease
<1>5. ASSUME Goto(r, "select"), UNCHANGED leases, AdmittedStep(a, now)
      PROVE  SlotStep(r)
  <2>1. r \in DOMAIN reqs' /\ reqs'[r] = [reqs[r] EXCEPT !.pc = "select"]
    BY <1>1, <1>5, SlotFacts, GotoType DEF TypeOK, Phases
  <2>2. reqs'[r].pc = "select" /\ reqs'[r].now = now
    BY <1>1, <1>2, <2>1, SlotFacts DEF Request
  <2>3. Knows(r)'
    BY <2>2 DEF Knows
  <2> QED
    BY <1>1, <1>2, <1>5, <2>1, <2>2, <2>3, GoesOn
<1>6. CASE Goto(r, "select") /\ UNCHANGED <<leases, window>>
  BY <1>5, <1>6, SameAdmitted
<1>7. CASE SetWindow(ip, Pruned(window[ip], now)) /\ Goto(r, "select") /\ UNCHANGED leases
  BY <1>1, <1>5, <1>7, SlotFacts, SetAdmitted
<1>8. ASSUME NEW n \in RotationCandidates(ip),
             RefreshOnHit(window[ip], a, now),
             leases' = [leases EXCEPT ![a].node = n, ![a].last = now],
             SetWindow(ip, Reserved(window[ip], a, now)),
             Finish(r)
      PROVE  SlotStep(r)
  <2>2. /\ AdmittedStep(a, now)
        /\ window'[ip] = Reserved(window[ip], a, now)
    BY <1>1, <1>8, SlotFacts, SetAdmitted DEF RefreshOnHit
  <2>3. r \notin DOMAIN reqs'
    BY <1>8 DEF Finish, MapDelete
  <2>4. /\ DOMAIN leases' = DOMAIN leases
        /\ \A b \in DOMAIN leases \ {a} : leases'[b] = leases[b]
        /\ leases'[a].last = now
        /\ leases'[a].ip = ip
    BY <1>1, <1>3, <1>4, <1>8, SlotFacts DEF TypeOK, IsMap, Lease
  <2>5. a \in DOMAIN window'[ip] /\ window'[ip][a] = now
    BY <2>2 DEF Reserved, Touch, MapPut
  <2>6. now <= clock
    BY <1>1, <1>2, SlotFacts
  <2> QED
    BY <1>2, <2>2, <2>3, <2>4, <2>5, <2>6 DEF SlotStep
<1> QED
  BY <1>2, <1>4, <1>6, <1>7, <1>8 DEF TryLeaseSameIPRotation

\* A failed pick, given the windows it leaves.
LEMMA PickFailedSlots ==
    ASSUME SlotInv, IPQuotaEnabled, NEW r \in DOMAIN reqs, reqs[r].pc = "select",
           PickFailed(r), AdmittedStep(reqs[r].acct, reqs[r].now)
    PROVE  SlotStep(r)
<1> DEFINE spent == reqs[r].tries + 1
           again == [reqs[r] EXCEPT !.tries = spent]
           fall == [reqs[r] EXCEPT !.tries = 0, !.pc = "fallback"]
<1>1. reqs[r] \in Request /\ spent \in Nat
  BY SlotFacts, RequestFields
<1>2. PICK q \in {again, fall} : reqs' = [reqs EXCEPT ![r] = q] /\ UNCHANGED leases
  BY DEF PickFailed
<1>3. q.pc \in {"select", "fallback"} /\ q.now = reqs[r].now
  <2>1. again.pc = "select" /\ again.now = reqs[r].now
    BY <1>1 DEF Request
  <2>2. fall.pc = "fallback" /\ fall.now = reqs[r].now
    BY <1>1 DEF Request
  <2> HIDE DEF again, fall
  <2> QED
    BY <1>2, <2>1, <2>2
<1>4. r \in DOMAIN reqs' /\ reqs'[r] = q
  BY <1>2
<1>5. Knows(r)'
  BY <1>3, <1>4 DEF Knows
<1> QED
  BY <1>2, <1>3, <1>4, <1>5, GoesOn

\* PickRandomRoute: the account is recorded on the picked node's IP.
LEMMA PickSlots ==
    ASSUME SlotInv, IPQuotaEnabled, NEW r, PickRandomRoute(r)
    PROVE  SlotStep(r)
<1>1. /\ r \in DOMAIN reqs
      /\ reqs[r].pc = "select"
      /\ UNCHANGED <<egress, clock>>
  BY DEF PickRandomRoute, topology
<1>2. PICK a \in Accounts, now \in Nat : a = reqs[r].acct /\ now = reqs[r].now
  BY <1>1, SlotFacts
<1>3. CASE AbortLeaseCreate(r) /\ UNCHANGED window
  BY <1>1, <1>3, GivesUp, SameAdmitted
<1>4. CASE PickFailed(r) /\ UNCHANGED window
  BY <1>1, <1>4, PickFailedSlots, SameAdmitted
<1>5. ASSUME NEW n \in view \cap pool,
             SetWindow(egress[n], Pruned(window[egress[n]], now)), PickFailed(r)
      PROVE  SlotStep(r)
  <2>1. egress[n] \in IPs
    BY <1>1, <1>5, SlotFacts DEF TypeOK
  <2>2. AdmittedStep(a, now)
    BY <1>1, <1>5, <2>1, SlotFacts, SetAdmitted
  <2> QED
    BY <1>1, <1>2, <1>5, <2>2, PickFailedSlots
<1>6. ASSUME NEW n \in view \cap pool,
             ReserveIfEligible(window[egress[n]], a, now),
             SetWindow(egress[n], Reserved(window[egress[n]], a, now)),
             reqs' = [reqs EXCEPT ![r].pc = "reserved", ![r].node = n],
             UNCHANGED leases
      PROVE  SlotStep(r)
  <2>1. PICK ip \in IPs : ip = egress[n]
    BY <1>1, <1>6, SlotFacts DEF TypeOK
  <2>2. Admits(window[ip], a, now, MaxAccountsPerIP + 1)
    BY <1>1, <1>6, <2>1, SlotFacts, EligibleAdmitted DEF WindowType
  <2>3. AdmittedStep(a, now) /\ window'[ip] = Reserved(window[ip], a, now)
    BY <1>1, <1>6, <2>1, <2>2, SlotFacts, SetAdmitted
  <2>4. /\ r \in DOMAIN reqs'
        /\ reqs'[r].pc = "reserved"
        /\ reqs'[r].node = n
        /\ reqs'[r].now = now
        /\ reqs'[r].acct = a
    BY <1>1, <1>2, <1>6, SlotFacts DEF Request
  <2>5. Slot(ip, a, now)'
    BY <2>3, ReservedSlot
  <2>6. Knows(r)'
    BY <1>1, <2>1, <2>4, <2>5 DEF Knows, Slot, Recent
  <2> QED
    BY <1>1, <1>2, <1>6, <2>3, <2>4, <2>6, GoesOn
<1> QED
  BY <1>2, <1>3, <1>4, <1>5, <1>6 DEF PickRandomRoute

\* FallbackChoose prunes every window.
LEMMA ChooseSlots ==
    ASSUME SlotInv, NEW r, FallbackChoose(r)
    PROVE  SlotStep(r)
<1>1. /\ r \in DOMAIN reqs
      /\ UNCHANGED <<egress, clock>>
      /\ window' = [i \in IPs |-> Pruned(window[i], reqs[r].now)]
  BY DEF FallbackChoose, topology
<1>2. AdmittedStep(reqs[r].acct, reqs[r].now)
  BY <1>1 DEF AdmittedStep
<1>3. CASE AbortLeaseCreate(r)
  BY <1>1, <1>2, <1>3, GivesUp
<1>4. ASSUME NEW n \in view \cap pool,
             reqs' = [reqs EXCEPT ![r].pc = "forced", ![r].node = n,
                                  ![r].ip = egress[n]],
             UNCHANGED leases
      PROVE  SlotStep(r)
  <2>1. /\ r \in DOMAIN reqs'
        /\ reqs'[r].pc = "forced"
        /\ reqs'[r].node = n
        /\ reqs'[r].ip = egress[n]
        /\ reqs'[r].now = reqs[r].now
    BY <1>1, <1>4, SlotFacts DEF Request
  <2>2. Knows(r)'
    BY <1>1, <2>1 DEF Knows
  <2> QED
    BY <1>1, <1>2, <1>4, <2>1, <2>2, GoesOn
<1> QED
  BY <1>3, <1>4 DEF FallbackChoose

\* FallbackReserve: the account is recorded on the IP chosen, still its node's.
LEMMA ForcedSlots ==
    ASSUME SlotInv, NEW r, FallbackReserve(r)
    PROVE  SlotStep(r)
<1>1. /\ r \in DOMAIN reqs
      /\ reqs[r].pc = "forced"
      /\ UNCHANGED <<egress, clock>>
  BY DEF FallbackReserve, topology
<1>2. PICK a \in Accounts, now \in Nat : a = reqs[r].acct /\ now = reqs[r].now
  BY <1>1, SlotFacts
<1>3. PICK ip \in IPs : ip = reqs[r].ip
  BY <1>1, SlotFacts DEF RouteChosen
<1>4. ip = egress[reqs[r].node]
  BY <1>1, <1>3, SlotFacts DEF Knows
<1>5. CASE ReserveForcedFallback(window[ip], a, now)
  <2>1. /\ SetWindow(ip, Reserved(window[ip], a, now))
        /\ Goto(r, "reserved")
        /\ UNCHANGED leases
    BY <1>2, <1>3, <1>5 DEF FallbackReserve
  <2>2. AdmittedStep(a, now) /\ window'[ip] = Reserved(window[ip], a, now)
    BY <1>1, <1>5, <2>1, SlotFacts, SetAdmitted DEF ReserveForcedFallback
  <2>3. r \in DOMAIN reqs' /\ reqs'[r] = [reqs[r] EXCEPT !.pc = "reserved"]
    BY <1>1, <2>1, SlotFacts, GotoType DEF TypeOK, Phases
  <2>4. /\ reqs'[r].pc = "reserved"
        /\ reqs'[r].node = reqs[r].node
        /\ reqs'[r].now = now
        /\ reqs'[r].acct = a
    BY <1>1, <1>2, <2>3, SlotFacts DEF Request
  <2>5. Slot(ip, a, now)'
    BY <2>2, ReservedSlot
  <2>6. Knows(r)'
    BY <1>1, <1>4, <2>4, <2>5 DEF Knows, Slot, Recent
  <2> QED
    BY <1>1, <1>2, <2>1, <2>2, <2>3, <2>4, <2>6, GoesOn
<1>6. CASE ~ReserveForcedFallback(window[ip], a, now)
  <2>1. SetWindow(ip, Pruned(window[ip], now)) /\ AbortLeaseCreate(r)
    BY <1>2, <1>3, <1>6 DEF FallbackReserve
  <2>2. AdmittedStep(a, now)
    BY <1>1, <2>1, SlotFacts, SetAdmitted
  <2> QED
    BY <1>1, <1>2, <2>1, <2>2, GivesUp
<1> QED
  BY <1>5, <1>6

\* RetirePreviousLease reads again the egress IP the account is recorded on.
LEMMA RetireSlots ==
    ASSUME SlotInv, NEW r, RetirePreviousLease(r)
    PROVE  SlotStep(r)
<1>1. /\ r \in DOMAIN reqs
      /\ reqs[r].pc = "reserved"
      /\ UNCHANGED <<leases, window, egress, clock>>
  BY DEF RetirePreviousLease, topology
<1>2. /\ r \in DOMAIN reqs'
      /\ reqs'[r] = [reqs[r] EXCEPT !.pc = "retired", !.ip = egress[reqs[r].node]]
  BY <1>1, SlotFacts, RetireStep
<1>3. /\ reqs'[r].pc = "retired"
      /\ reqs'[r].ip = egress[reqs[r].node]
      /\ reqs'[r].node = reqs[r].node
      /\ reqs'[r].now = reqs[r].now
      /\ reqs'[r].acct = reqs[r].acct
  BY <1>1, <1>2, SlotFacts DEF Request
<1>4. Slot(egress[reqs[r].node], reqs[r].acct, reqs[r].now)
  BY <1>1, SlotFacts DEF Knows
<1>5. Knows(r)'
  BY <1>1, <1>3, <1>4 DEF Knows, Slot, Recent
<1> QED
  BY <1>1, <1>2, <1>3, <1>5, GoesOn, SameAdmitted

\* StoreLease stores a lease on the IP the account is recorded on.
LEMMA StoreSlots ==
    ASSUME SlotInv, NEW r, StoreLease(r)
    PROVE  SlotStep(r)
<1>1. /\ r \in DOMAIN reqs
      /\ reqs[r].pc = "retired"
      /\ Finish(r)
      /\ leases' = MapPut(leases, reqs[r].acct,
                          [node |-> reqs[r].node, ip |-> reqs[r].ip,
                           expiry |-> reqs[r].now + StickyTTLNs, last |-> reqs[r].now])
      /\ UNCHANGED <<window, clock>>
  BY DEF StoreLease
<1>2. PICK a, now, ip : a = reqs[r].acct /\ now = reqs[r].now /\ ip = reqs[r].ip
  OBVIOUS
<1>3. Slot(ip, a, now)
  BY <1>1, <1>2, SlotFacts DEF Knows
<1>4. r \notin DOMAIN reqs'
  BY <1>1 DEF Finish, MapDelete
<1>5. /\ DOMAIN leases' = DOMAIN leases \cup {a}
      /\ \A b \in DOMAIN leases \ {a} : leases'[b] = leases[b]
      /\ leases'[a].last = now
      /\ leases'[a].ip = ip
  BY <1>1, <1>2 DEF MapPut
<1>6. now <= clock
  BY <1>1, <1>2, SlotFacts
<1>7. AdmittedStep(a, now)
  BY <1>1, SameAdmitted
<1> QED
  BY <1>1, <1>2, <1>3, <1>4, <1>5, <1>6, <1>7 DEF SlotStep, Slot, Recent

\* Every step of a request keeps SlotInv, and changes windows only by pruning
\* and by admission below the ceiling.
LEMMA RequestSlots ==
    ASSUME SlotInv, IPQuotaEnabled, NEW r, RequestStep(r)
    PROVE  SlotInv' /\ AdmittedStep(reqs[r].acct, reqs[r].now) /\ r \in DOMAIN reqs
<1>1. /\ r \in DOMAIN reqs
      /\ InCompute(r) \/ ~Locked(reqs[r].acct)
      /\ UNCHANGED <<inherits, egress, clock>>
  BY DEF RequestStep, InCompute, Decide, TryLeaseHit, TryLeaseSameIPRotation,
         PickRandomRoute, FallbackChoose, FallbackReserve, RetirePreviousLease,
         StoreLease, topology
<1>2. SlotStep(r)
  BY DecideSlots, HitSlots, RotationSlots, PickSlots, ChooseSlots, ForcedSlots,
     RetireSlots, StoreSlots DEF RequestStep
<1>3. DecisionStep(r) /\ ControlInv'
  BY RequestStepInv DEF SlotInv, ControlInv
<1>4. PICK a \in Accounts : a = reqs[r].acct
  BY <1>1, SlotFacts
<1>5. SlotInv'
  BY <1>1, <1>2, <1>3, <1>4, DecisionSlots DEF SlotStep, Recent
<1> QED
  BY <1>1, <1>2, <1>5 DEF SlotStep

-----------------------------------------------------------------------------
\* No slot that counts is lost.
KeepsSlots ==
    \A ip \in IPs, b \in Accounts, t \in Nat :
        t <= clock /\ Slot(ip, b, t) => Slot(ip, b, t)'

\* A step of anyone else keeps SlotInv when it loses no slot, leaves the
\* leases under decision alone, changes no egress IP under a decision, and
\* gives the leases it writes their slot.
LEMMA OtherSlots ==
    ASSUME SlotInv, ControlInv', ClockInv', KeepsSlots, UNCHANGED reqs,
           UNCHANGED egress \/ ~\E r \in DOMAIN reqs : InCompute(r),
           \A a \in DOMAIN leases : Locked(a) => a \in DOMAIN leases' /\ leases'[a] = leases[a],
           \A a \in DOMAIN leases' : ~Locked(a) => LeaseHasSlot(a)'
    PROVE  SlotInv'
<1>1. TypeOK /\ OneDecision /\ RouteChosen
  BY DEF SlotInv, ControlInv
<1>2. ASSUME NEW r \in DOMAIN reqs' PROVE Knows(r)'
  <2>1. CASE reqs[r].pc = "compute"
    BY <2>1 DEF Knows
  <2>2. CASE reqs[r].pc # "compute"
    <3>1. r \in DOMAIN reqs /\ InCompute(r) /\ Knows(r) /\ UNCHANGED egress
      BY <2>2 DEF SlotInv, InCompute
    <3>2. PICK a, t, n, i : /\ a \in Accounts /\ t \in Nat
                            /\ a = reqs[r].acct /\ t = reqs[r].now
                            /\ n = reqs[r].node /\ i = reqs[r].ip
      BY <1>1, <3>1, RequestFields
    <3>3. t <= clock
      BY <3>1, <3>2 DEF SlotInv, ClockInv
    <3>4. Locked(a)
      BY <3>1, <3>2 DEF Locked
    <3>5. a \in DOMAIN leases => a \in DOMAIN leases' /\ leases'[a] = leases[a]
      BY <3>4
    <3>6. PICK ip : ip = egress[n]
      OBVIOUS
    <3>7. reqs[r].pc \in {"reserved", "retired"} => ip \in IPs
      BY <1>1, <3>1, <3>2, <3>6 DEF RouteChosen, TypeOK
    <3>8. reqs[r].pc \in {"reserved", "retired"} /\ Slot(ip, a, t) => Slot(ip, a, t)'
      BY <3>2, <3>3, <3>7 DEF KeepsSlots
    <3> QED
      BY <3>1, <3>2, <3>5, <3>6, <3>8 DEF Knows, Slot, Recent
  <2> QED
    BY <2>1, <2>2
<1>3. ASSUME NEW a \in DOMAIN leases', Locked(a) PROVE LeaseHasSlot(a)'
  BY <1>3 DEF LeaseHasSlot, Locked, InCompute
<1> QED
  BY <1>2, <1>3 DEF SlotInv

\* A lease that stays as it is keeps its slot.
LEMMA KeptLeaseSlot ==
    ASSUME SlotInv, KeepsSlots, NEW a \in DOMAIN leases, ~Locked(a),
           a \in DOMAIN leases', leases'[a] = leases[a],
           NEW ip, NEW t, ip = leases[a].ip, t = leases[a].last,
           WillTouch(a, ip) => WillTouch(a, ip)' \/ Slot(ip, a, t)'
    PROVE  LeaseHasSlot(a)'
<1>1. a \in Accounts /\ ip \in IPs /\ t \in Nat /\ t <= clock
  BY DEF SlotInv, ControlInv, TypeOK, IsMap, Lease, ClockInv
<1>2. Slot(ip, a, t) \/ WillTouch(a, ip)
  BY DEF SlotInv, LeaseHasSlot
<1>3. Slot(ip, a, t) => Slot(ip, a, t)'
  BY <1>1 DEF KeepsSlots
<1>4. Slot(ip, a, t)' \/ WillTouch(a, ip)'
  BY <1>2, <1>3
<1> QED
  BY <1>4 DEF LeaseHasSlot, Slot, Recent, WillTouch

\* Windows and clock that stay keep every slot.
LEMMA SameSlots ==
    ASSUME UNCHANGED <<window, clock>>
    PROVE  KeepsSlots
BY DEF KeepsSlots, Slot, Recent

\* So does the passing of time.
LEMMA TickSlots ==
    ASSUME TypeOK, UNCHANGED window, clock' = clock + 1
    PROVE  KeepsSlots
<1>1. clock \in Nat
  BY DEF TypeOK
<1> QED
  BY <1>1, QuotaAssumption DEF KeepsSlots, Slot, Recent

\* A step that removes leases of accounts nobody decides keeps SlotInv.
LEMMA RemovalSlots ==
    ASSUME SlotInv, ControlInv', KeepsSlots, UNCHANGED <<reqs, inherits>>, clock' \in {clock, clock + 1},
           UNCHANGED egress \/ ~\E r \in DOMAIN reqs : InCompute(r),
           DOMAIN leases' \subseteq DOMAIN leases,
           \A a \in DOMAIN leases' : leases'[a] = leases[a],
           \A a \in DOMAIN leases : Locked(a) => a \in DOMAIN leases'
    PROVE  SlotInv'
<1>1. TypeOK
  BY DEF SlotInv, ControlInv
<1>2. ClockInv'
  <2>1. clock \in Nat
    BY <1>1 DEF TypeOK
  <2>2. \A r \in DOMAIN reqs : reqs[r].now \in Nat
    BY <1>1, RequestFields
  <2>3. \A a \in DOMAIN leases : leases[a].last \in Nat
    BY <1>1 DEF TypeOK, IsMap, Lease
  <2>4. \A w \in DOMAIN inherits : inherits[w].lease.last \in Nat
    BY <1>1, InheritFields DEF Lease
  <2> QED
    BY <2>1, <2>2, <2>3, <2>4 DEF ClockInv, SlotInv
<1>3. ASSUME NEW a \in DOMAIN leases', ~Locked(a) PROVE LeaseHasSlot(a)'
  <2>1. PICK ip, t : ip = leases[a].ip /\ t = leases[a].last
    OBVIOUS
  <2>2. WillTouch(a, ip) => WillTouch(a, ip)'
    BY DEF WillTouch
  <2> QED
    BY <1>3, <2>1, <2>2, KeptLeaseSlot
<1> QED
  BY <1>2, <1>3, OtherSlots

\* A new request waits for its account.
LEMMA RouteRequestSlots ==
    ASSUME SlotInv, ControlInv', NEW r \in Requests, NEW a \in Accounts, RouteRequest(r, a)
    PROVE  SlotInv'
<1>1. /\ r \notin DOMAIN reqs
      /\ reqs' = MapPut(reqs, r, [pc |-> "compute", acct |-> a, now |-> clock,
                                  tries |-> 0, node |-> NoNode, ip |-> NoIP])
      /\ UNCHANGED <<leases, window, inherits, egress, clock>>
  BY DEF RouteRequest, router, topology
<1>2. /\ DOMAIN reqs' = DOMAIN reqs \cup {r}
      /\ reqs'[r].pc = "compute" /\ reqs'[r].now = clock
      /\ \A s \in DOMAIN reqs : reqs'[s] = reqs[s]
  BY <1>1 DEF MapPut
<1>3. clock \in Nat
  BY DEF SlotInv, ControlInv, TypeOK
<1>4. ClockInv'
  BY <1>1, <1>2, <1>3 DEF SlotInv, ClockInv
<1>5. ASSUME NEW s \in DOMAIN reqs' PROVE Knows(s)'
  <2>1. CASE s = r
    BY <1>2, <2>1 DEF Knows
  <2>2. CASE s # r
    <3>1. s \in DOMAIN reqs /\ reqs'[s] = reqs[s] /\ Knows(s)
      BY <1>2, <2>2 DEF SlotInv
    <3> QED
      BY <1>1, <3>1 DEF Knows, Slot, Recent
  <2> QED
    BY <2>1, <2>2
<1>6. ASSUME NEW b \in DOMAIN leases' PROVE LeaseHasSlot(b)'
  <2>1. b \in DOMAIN leases /\ LeaseHasSlot(b)
    BY <1>1 DEF SlotInv
  <2>2. Locked(b) => Locked(b)'
    BY <1>2 DEF Locked, InCompute
  <2> QED
    BY <1>1, <2>1, <2>2 DEF LeaseHasSlot, Slot, Recent, WillTouch
<1> QED
  BY <1>4, <1>5, <1>6 DEF SlotInv

\* Reading a parent's lease.
LEMMA InheritSlots ==
    ASSUME SlotInv, ControlInv', NEW w \in Admins, NEW p \in Accounts, NEW c \in Accounts,
           InheritRead(w, p, c)
    PROVE  SlotInv'
<1>1. /\ w \notin DOMAIN inherits
      /\ p \in DOMAIN leases
      /\ inherits' = MapPut(inherits, w, [pc |-> "read", acct |-> c, lease |-> leases[p]])
      /\ UNCHANGED <<leases, window, reqs, egress, clock>>
  BY DEF InheritRead, router, topology
<1>2. /\ DOMAIN inherits' = DOMAIN inherits \cup {w}
      /\ inherits'[w].lease = leases[p]
      /\ \A x \in DOMAIN inherits : inherits'[x] = inherits[x]
  BY <1>1 DEF MapPut
<1>3. ClockInv'
  BY <1>1, <1>2 DEF SlotInv, ClockInv
<1>4. KeepsSlots
  BY <1>1, SameSlots
<1>5. ASSUME NEW a \in DOMAIN leases', ~Locked(a) PROVE LeaseHasSlot(a)'
  <2>1. PICK ip, t : ip = leases[a].ip /\ t = leases[a].last
    OBVIOUS
  <2>2. WillTouch(a, ip) => WillTouch(a, ip)'
    BY <1>2 DEF WillTouch
  <2> QED
    BY <1>1, <1>4, <1>5, <2>1, <2>2, KeptLeaseSlot
<1> QED
  BY <1>1, <1>3, <1>4, <1>5, OtherSlots

\* Storing the copy: the account will be recorded next.
LEMMA UpsertSlots ==
    ASSUME SlotInv, ControlInv', NEW w, UpsertLease(w)
    PROVE  SlotInv'
<1>1. /\ w \in DOMAIN inherits
      /\ inherits[w].pc = "read"
      /\ ~Locked(inherits[w].acct)
      /\ leases' = MapPut(leases, inherits[w].acct, inherits[w].lease)
      /\ inherits' = [inherits EXCEPT ![w].pc = "upserted"]
      /\ UNCHANGED <<window, reqs, egress, clock>>
  BY DEF UpsertLease, topology
<1>2. PICK c \in Accounts, l \in Lease : c = inherits[w].acct /\ l = inherits[w].lease
  BY <1>1, InheritFields DEF SlotInv, ControlInv
<1>3. inherits[w] \in Inherit
  BY <1>1, InheritFields DEF SlotInv, ControlInv
<1>4. /\ DOMAIN inherits' = DOMAIN inherits
      /\ inherits'[w].lease = l /\ inherits'[w].acct = c /\ inherits'[w].pc = "upserted"
      /\ \A x \in DOMAIN inherits \ {w} : inherits'[x] = inherits[x]
  BY <1>1, <1>2, <1>3 DEF SlotInv, ControlInv, TypeOK, IsMap, Inherit
<1>5. /\ DOMAIN leases' = DOMAIN leases \cup {c}
      /\ leases'[c] = l
      /\ \A a \in DOMAIN leases \ {c} : leases'[a] = leases[a]
  BY <1>1, <1>2 DEF MapPut
<1>6. ClockInv'
  BY <1>1, <1>2, <1>4, <1>5 DEF SlotInv, ClockInv
<1>7. KeepsSlots
  BY <1>1, SameSlots
<1>8. ASSUME NEW a \in DOMAIN leases', ~Locked(a) PROVE LeaseHasSlot(a)'
  <2>1. CASE a = c
    BY <1>1, <1>4, <1>5, <2>1 DEF LeaseHasSlot, WillTouch
  <2>2. CASE a # c
    <3>1. PICK ip, t : ip = leases[a].ip /\ t = leases[a].last
      OBVIOUS
    <3>2. WillTouch(a, ip) => WillTouch(a, ip)'
      BY <1>1, <1>4 DEF WillTouch
    <3> QED
      BY <1>5, <1>7, <1>8, <2>2, <3>1, <3>2, KeptLeaseSlot
  <2> QED
    BY <2>1, <2>2
<1> QED
  BY <1>1, <1>2, <1>5, <1>6, <1>7, <1>8, OtherSlots

\* Recording the account on the IP keeps every slot and gives it one.
LEMMA TouchSlots ==
    ASSUME SlotInv, ControlInv', IPQuotaEnabled, NEW w, UpsertTouch(w)
    PROVE  SlotInv'
<1>1. w \in DOMAIN inherits
  BY DEF UpsertTouch
<1>2. PICK c \in Accounts, i \in IPs : c = inherits[w].acct /\ i = inherits[w].lease.ip
  BY <1>1, InheritFields DEF SlotInv, ControlInv
<1>3. /\ window' = [window EXCEPT ![i] = Touch(window[i], c, clock)]
      /\ inherits' = MapDelete(inherits, w)
      /\ UNCHANGED <<leases, reqs, egress, clock>>
  BY <1>2 DEF UpsertTouch, SetWindow, topology
<1>4. /\ DOMAIN window = IPs
      /\ clock \in Nat
  BY DEF SlotInv, ControlInv, TypeOK
<1>5. /\ DOMAIN window'[i] = DOMAIN window[i] \cup {c}
      /\ window'[i][c] = clock
      /\ \A b \in DOMAIN window[i] \ {c} : window'[i][b] = window[i][b]
      /\ \A ip \in IPs \ {i} : window'[ip] = window[ip]
  BY <1>3, <1>4 DEF Touch, MapPut
<1>6. KeepsSlots
  BY <1>3, <1>4, <1>5 DEF KeepsSlots, Slot, Recent
<1>7. /\ DOMAIN inherits' = DOMAIN inherits \ {w}
      /\ \A x \in DOMAIN inherits' : inherits'[x] = inherits[x]
  BY <1>3 DEF MapDelete
<1>8. ClockInv'
  BY <1>3, <1>7 DEF SlotInv, ClockInv
<1>9. ASSUME NEW a \in DOMAIN leases', ~Locked(a) PROVE LeaseHasSlot(a)'
  <2>1. PICK ip, t : ip = leases[a].ip /\ t = leases[a].last
    OBVIOUS
  <2>2. t <= clock
    BY <1>3, <2>1 DEF SlotInv, ClockInv
  <2>3. WillTouch(a, ip) => WillTouch(a, ip)' \/ Slot(ip, a, t)'
    <3>1. SUFFICES ASSUME NEW x \in DOMAIN inherits, inherits[x].pc = "upserted",
                          inherits[x].acct = a, inherits[x].lease.ip = ip
                   PROVE  WillTouch(a, ip)' \/ Slot(ip, a, t)'
      BY DEF WillTouch
    <3>2. CASE x = w
      BY <1>2, <1>5, <2>2, <3>1, <3>2 DEF Slot
    <3>3. CASE x # w
      BY <1>7, <3>1, <3>3 DEF WillTouch
    <3> QED
      BY <3>2, <3>3
  <2> QED
    BY <1>3, <1>6, <1>9, <2>1, <2>3, KeptLeaseSlot
<1> QED
  BY <1>3, <1>6, <1>8, <1>9, OtherSlots

\* Deletion by the control plane.
LEMMA DeleteSlots ==
    ASSUME SlotInv, ControlInv', NEW a \in Accounts, DeleteLease(a)
    PROVE  SlotInv'
<1>1. /\ ~Locked(a)
      /\ leases' = MapDelete(leases, a)
      /\ UNCHANGED <<window, reqs, inherits, egress, clock>>
  BY DEF DeleteLease, topology
<1>2. DOMAIN leases' = DOMAIN leases \ {a} /\ \A b \in DOMAIN leases' : leases'[b] = leases[b]
  BY <1>1 DEF MapDelete
<1>3. KeepsSlots
  BY <1>1, SameSlots
<1> QED
  BY <1>1, <1>2, <1>3, RemovalSlots

\* The lease cleaner prunes with the clock's own time.
LEMMA SweepSlots ==
    ASSUME SlotInv, ControlInv', IPQuotaEnabled, SweepStep
    PROVE  SlotInv'
<1>1. TypeOK
  BY DEF SlotInv, ControlInv
<1>2. CASE SweepStart
  <2>1. /\ window' = [i \in IPs |-> Pruned(window[i], clock)]
        /\ UNCHANGED <<leases, reqs, inherits, egress, clock>>
    BY <1>2 DEF SweepStart, topology
  <2>2. ASSUME NEW ip \in IPs, NEW b \in Accounts, NEW t \in Nat, Slot(ip, b, t), Recent(t)
        PROVE  b \in DOMAIN window'[ip] /\ window'[ip][b] >= t
    <3>1. b \in DOMAIN window[ip] /\ window[ip][b] >= t
      BY <2>2 DEF Slot
    <3>2. IsMap(window[ip], Accounts, Nat) /\ clock \in Nat /\ clock <= clock
      BY <1>1 DEF TypeOK
    <3>3. b \in DOMAIN Pruned(window[ip], clock) /\ Pruned(window[ip], clock)[b] = window[ip][b]
      BY <2>2, <3>1, <3>2, PrunedKeeps
    <3> QED
      BY <2>1, <3>1, <3>3
  <2>3. KeepsSlots
    BY <2>1, <2>2 DEF KeepsSlots, Slot, Recent
  <2> QED
    BY <2>1, <2>3, RemovalSlots
<1>3. ASSUME NEW a \in Accounts, SweepVisit(a) \/ SweepEnd PROVE SlotInv'
  <2>1. UNCHANGED <<leases, window, reqs, inherits, egress, clock>>
    BY <1>3 DEF SweepVisit, SweepEnd, router, topology
  <2>2. KeepsSlots
    BY <2>1, SameSlots
  <2> QED
    BY <2>1, <2>2, RemovalSlots
<1>4. ASSUME NEW a \in Accounts, SweepCompute(a) PROVE SlotInv'
  <2>1. /\ ~Locked(a)
        /\ leases' \in {leases, MapDelete(leases, a)}
        /\ UNCHANGED <<window, reqs, inherits, egress, clock>>
    BY <1>4 DEF SweepCompute, topology
  <2>2. /\ DOMAIN leases' \in {DOMAIN leases, DOMAIN leases \ {a}}
        /\ \A b \in DOMAIN leases' : leases'[b] = leases[b]
    BY <2>1 DEF MapDelete
  <2>3. KeepsSlots
    BY <2>1, SameSlots
  <2> QED
    BY <2>1, <2>2, <2>3, RemovalSlots
<1>5. CASE SweepEnd
  <2>1. UNCHANGED <<leases, window, reqs, inherits, egress, clock>>
    BY <1>5 DEF SweepEnd, router, topology
  <2>2. KeepsSlots
    BY <2>1, SameSlots
  <2> QED
    BY <2>1, <2>2, RemovalSlots
<1> QED
  BY <1>2, <1>3, <1>4, <1>5 DEF SweepStep

\* A restart seeds the windows from the leases it keeps.
LEMMA RestoreSlots ==
    ASSUME SlotInv, ControlInv', IPQuotaEnabled, RestoreLeases
    PROVE  SlotInv'
<1> DEFINE kept == {a \in DOMAIN leases : leases[a].node \in pool}
           recent(i) == {a \in DOMAIN leases' :
                           /\ leases'[a].ip = i
                           /\ clock - leases'[a].last < IPAccountWindowNs}
<1>1. /\ reqs = EmptyMap /\ inherits = EmptyMap
      /\ leases' = MapKeep(leases, kept)
      /\ window' = [i \in IPs |-> [a \in recent(i) |-> leases'[a].last]]
      /\ UNCHANGED <<reqs, inherits, egress, clock>>
  BY DEF RestoreLeases, topology
<1>2. DOMAIN reqs' = {} /\ DOMAIN inherits' = {}
  BY <1>1 DEF EmptyMap
<1>3. /\ DOMAIN leases' \subseteq DOMAIN leases
      /\ \A a \in DOMAIN leases' : leases'[a] = leases[a]
  <2>1. leases' = MapKeep(leases, kept)
    BY <1>1
  <2> HIDE DEF kept
  <2> QED
    BY <2>1 DEF MapKeep
<1>4. ClockInv'
  BY <1>1, <1>2, <1>3 DEF SlotInv, ClockInv
<1>5. ASSUME NEW a \in DOMAIN leases' PROVE LeaseHasSlot(a)'
  <2>1. PICK ip, t : ip = leases'[a].ip /\ t = leases'[a].last
    OBVIOUS
  <2>2. ip \in IPs /\ t \in Nat /\ clock \in Nat
    BY <2>1 DEF ControlInv, SlotInv, TypeOK, IsMap, Lease
  <2>3. ASSUME t > clock - IPAccountWindowNs
        PROVE  a \in DOMAIN window'[ip] /\ window'[ip][a] >= t
    <3>1. clock - t < IPAccountWindowNs
      BY <2>2, <2>3, QuotaAssumption
    <3>2. a \in recent(ip)
      BY <2>1, <3>1
    <3>3. window'[ip] = [b \in recent(ip) |-> leases'[b].last]
      BY <1>1, <2>2
    <3>4. t >= t
      BY <2>2
    <3> QED
      BY <2>1, <3>2, <3>3, <3>4
  <2> QED
    BY <1>1, <2>1, <2>3 DEF LeaseHasSlot, Slot, Recent
<1> QED
  BY <1>2, <1>4, <1>5 DEF SlotInv

\* What the topology does outside the decisions, and the clock.
LEMMA TopologySlots ==
    ASSUME SlotInv, ControlInv', ~EgressRace, TopologyStep \/ Tick
    PROVE  SlotInv'
<1>1. CASE TopologyStep
  <2>1. /\ UNCHANGED <<leases, window, reqs, inherits, clock>>
        /\ UNCHANGED egress \/ ~\E r \in DOMAIN reqs : InCompute(r)
    BY <1>1 DEF TopologyStep, NodeRemoved, ViewAdd, ViewRemove, EgressChange,
                EnvStep, router
  <2>2. KeepsSlots
    BY <2>1, SameSlots
  <2> QED
    BY <2>1, <2>2, RemovalSlots
<1>2. CASE Tick
  <2>1. UNCHANGED <<leases, window, reqs, inherits, egress>> /\ clock' = clock + 1
    BY <1>2 DEF Tick, router, topology
  <2>2. KeepsSlots
    BY <2>1, TickSlots DEF SlotInv, ControlInv
  <2> QED
    BY <2>1, <2>2, RemovalSlots
<1> QED
  BY <1>1, <1>2

\* SlotInv holds initially.
LEMMA SlotInit ==
    ASSUME Init
    PROVE  SlotInv
<1>1. DOMAIN leases = {} /\ DOMAIN reqs = {} /\ DOMAIN inherits = {}
  BY DEF Init, EmptyMap
<1> QED
  BY <1>1, ControlInit DEF SlotInv, ClockInv

\* Every step keeps SlotInv.
LEMMA SlotsStep ==
    ASSUME SlotInv, IPQuotaEnabled, ~EgressRace, [Next]_vars
    PROVE  SlotInv'
<1>1. ControlInv'
  BY ControlStep DEF SlotInv
<1>2. CASE AdminStep
  BY <1>1, <1>2, InheritSlots, UpsertSlots, TouchSlots, DeleteSlots DEF AdminStep
<1>3. CASE UNCHANGED vars
  <2>1. UNCHANGED <<leases, window, reqs, inherits, egress, clock>>
    BY <1>3 DEF vars, topology
  <2>2. KeepsSlots
    BY <2>1, SameSlots
  <2> QED
    BY <1>1, <2>1, <2>2, RemovalSlots
<1> QED
  BY <1>1, <1>2, <1>3, RouteRequestSlots, RequestSlots, SweepSlots, RestoreSlots,
     TopologySlots DEF Next

\* An account that used its lease within the window occupies a slot of the
\* window of the IP its lease is on, unless a goroutine is just rebinding or
\* recording it: for every configuration and any interleaving of requests,
\* control-plane operations, sweeps and restarts in which no egress IP changes
\* in the middle of a lease decision.
THEOREM SlotCorrect ==
    ASSUME ~EgressRace
    PROVE  Spec => []ActiveAccountHasSlot
<1> DEFINE SInv == IPQuotaEnabled => SlotInv
<1>1. Init => SInv
  BY SlotInit
<1>2. SInv /\ [Next]_vars => SInv'
  <2>1. IPQuotaEnabled' <=> IPQuotaEnabled
    BY DEF IPQuotaEnabled
  <2> QED
    BY <2>1, SlotsStep
<1>3. SInv => ActiveAccountHasSlot
  <2>1. SUFFICES ASSUME SlotInv, NEW a \in DOMAIN leases, ~InMotion(a),
                        ~(leases[a].last <= clock - IPAccountWindowNs)
                 PROVE  a \in DOMAIN window[leases[a].ip]
    BY DEF ActiveAccountHasSlot
  <2>2. Slot(leases[a].ip, a, leases[a].last)
    BY <2>1 DEF SlotInv, LeaseHasSlot, InMotion, WillTouch
  <2>3. leases[a].last \in Nat /\ clock \in Nat
    BY <2>1 DEF SlotInv, ControlInv, TypeOK, IsMap, Lease
  <2>4. Recent(leases[a].last)
    BY <2>1, <2>3, QuotaAssumption DEF Recent
  <2> QED
    BY <2>2, <2>4 DEF Slot
<1> QED
  BY <1>1, <1>2, <1>3, PTL DEF Spec

-----------------------------------------------------------------------------
\* No window holds more accounts than the ceiling.
Ceiling == \A ip \in IPs : Cardinality(DOMAIN window[ip]) <= MaxAccountsPerIP + 1

\* The ceiling is kept because every account is recorded below it, and because
\* a restart seeds no window with an account it did not hold (SlotInv).
CeilingInv == SlotInv /\ Ceiling

\* A set of accounts is finite, and no larger than a set that includes it.
LEMMA AccountsFinite ==
    ASSUME NEW S \in SUBSET Accounts, NEW T \in SUBSET S
    PROVE  /\ IsFiniteSet(S) /\ Cardinality(S) \in Nat
           /\ Cardinality(T) \in Nat
           /\ Cardinality(T) <= Cardinality(S)
<1>1. IsFiniteSet(S)
  BY RouterAssumption, FS_Subset
<1>2. IsFiniteSet(T) /\ Cardinality(T) <= Cardinality(S)
  BY <1>1, FS_Subset
<1> QED
  BY <1>1, <1>2, FS_CardinalityType

\* Windows that shrink stay below the ceiling.
LEMMA ShrinkCeiling ==
    ASSUME TypeOK, Ceiling,
           \A ip \in IPs : DOMAIN window'[ip] \subseteq DOMAIN window[ip]
    PROVE  Ceiling'
<1> SUFFICES ASSUME NEW ip \in IPs
             PROVE  Cardinality(DOMAIN window'[ip]) <= MaxAccountsPerIP + 1
  BY DEF Ceiling
<1>1. DOMAIN window[ip] \in SUBSET Accounts
  BY DEF TypeOK, IsMap
<1>2. DOMAIN window'[ip] \in SUBSET DOMAIN window[ip]
  OBVIOUS
<1>3. /\ Cardinality(DOMAIN window[ip]) \in Nat
      /\ Cardinality(DOMAIN window'[ip]) \in Nat
      /\ Cardinality(DOMAIN window'[ip]) <= Cardinality(DOMAIN window[ip])
  BY <1>1, <1>2, AccountsFinite
<1>4. Cardinality(DOMAIN window[ip]) <= MaxAccountsPerIP + 1
  BY DEF Ceiling
<1> QED
  BY <1>3, <1>4, QuotaAssumption

\* Admission below the ceiling stays below it.
LEMMA AdmittedCeiling ==
    ASSUME TypeOK, Ceiling, NEW a \in Accounts, NEW now \in Nat, AdmittedStep(a, now)
    PROVE  Ceiling'
<1> SUFFICES ASSUME NEW ip \in IPs
             PROVE  Cardinality(DOMAIN window'[ip]) <= MaxAccountsPerIP + 1
  BY DEF Ceiling
<1> DEFINE D == DOMAIN window[ip]
           P == DOMAIN Pruned(window[ip], now)
<1>1. D \in SUBSET Accounts /\ P \in SUBSET D
  BY DEF TypeOK, IsMap, Pruned, MapKeep
<1>2. /\ IsFiniteSet(P)
      /\ Cardinality(P) \in Nat /\ Cardinality(D) \in Nat
      /\ Cardinality(P) <= Cardinality(D)
  <2> HIDE DEF D, P
  <2>1. P \in SUBSET Accounts
    BY <1>1
  <2> QED
    BY <1>1, <2>1, AccountsFinite
<1>3. Cardinality(D) <= MaxAccountsPerIP + 1
  BY DEF Ceiling
<1>4. Cardinality(P) <= MaxAccountsPerIP + 1
  BY <1>2, <1>3, QuotaAssumption
<1>5. CASE window'[ip] = window[ip]
  BY <1>3, <1>5
<1>6. CASE window'[ip] = Pruned(window[ip], now)
  BY <1>4, <1>6
<1>7. CASE /\ window'[ip] = Reserved(window[ip], a, now)
           /\ Admits(window[ip], a, now, MaxAccountsPerIP + 1)
  <2>1. DOMAIN window'[ip] = P \cup {a}
    BY <1>7 DEF Reserved, Touch, MapPut
  <2>2. CASE a \in P
    <3>1. DOMAIN window'[ip] = P
      BY <2>1, <2>2
    <3> QED
      BY <1>4, <3>1
  <2>3. CASE a \notin P
    <3>1. Cardinality(P) < MaxAccountsPerIP + 1
      BY <1>7, <2>3 DEF Admits, CountRecent
    <3> HIDE DEF P
    <3>2. Cardinality(P \cup {a}) = Cardinality(P) + 1
      BY <1>2, <2>3, FS_AddElement
    <3> QED
      BY <1>2, <2>1, <3>1, <3>2, QuotaAssumption
  <2> QED
    BY <2>2, <2>3
<1> QED
  BY <1>5, <1>6, <1>7 DEF AdmittedStep

\* A restart seeds each window with accounts it held.
LEMMA RestoreCeiling ==
    ASSUME CeilingInv, IPQuotaEnabled, RestoreLeases
    PROVE  Ceiling'
<1> DEFINE kept == {a \in DOMAIN leases : leases[a].node \in pool}
           recent(i) == {a \in DOMAIN leases' :
                           /\ leases'[a].ip = i
                           /\ clock - leases'[a].last < IPAccountWindowNs}
<1>1. /\ reqs = EmptyMap /\ inherits = EmptyMap
      /\ leases' = MapKeep(leases, kept)
      /\ window' = [i \in IPs |-> [a \in recent(i) |-> leases'[a].last]]
  BY DEF RestoreLeases
<1>2. DOMAIN reqs = {} /\ DOMAIN inherits = {}
  BY <1>1 DEF EmptyMap
<1>3. /\ DOMAIN leases' \subseteq DOMAIN leases
      /\ \A a \in DOMAIN leases' : leases'[a] = leases[a]
  <2>1. leases' = MapKeep(leases, kept)
    BY <1>1
  <2> HIDE DEF kept
  <2> QED
    BY <2>1 DEF MapKeep
<1>4. ASSUME NEW ip \in IPs, NEW a \in recent(ip)
      PROVE  a \in DOMAIN window[ip]
  <2>1. /\ a \in DOMAIN leases
        /\ leases[a].ip = ip
        /\ clock - leases[a].last < IPAccountWindowNs
    BY <1>3, <1>4
  <2>2. leases[a].last \in Nat /\ clock \in Nat
    BY <2>1 DEF CeilingInv, SlotInv, ControlInv, TypeOK, IsMap, Lease
  <2>3. Recent(leases[a].last)
    BY <2>1, <2>2, QuotaAssumption DEF Recent
  <2>4. Slot(ip, a, leases[a].last)
    BY <1>2, <2>1 DEF CeilingInv, SlotInv, LeaseHasSlot, Locked, WillTouch
  <2> QED
    BY <2>3, <2>4 DEF Slot
<1>5. \A ip \in IPs : DOMAIN window'[ip] = recent(ip)
  BY <1>1
<1>6. \A ip \in IPs : DOMAIN window'[ip] \subseteq DOMAIN window[ip]
  <2> HIDE DEF recent
  <2> QED
    BY <1>4, <1>5
<1> QED
  BY <1>6, ShrinkCeiling DEF CeilingInv, SlotInv, ControlInv

\* Every step keeps the ceiling, but for an inheritance's.
LEMMA CeilingStep ==
    ASSUME CeilingInv, IPQuotaEnabled, ~EgressRace, Admins = {}, [Next]_vars
    PROVE  CeilingInv'
<1>1. SlotInv' /\ TypeOK
  BY SlotsStep DEF CeilingInv, SlotInv, ControlInv
<1> SUFFICES Ceiling'
  BY <1>1 DEF CeilingInv
<1>2. ASSUME UNCHANGED window PROVE Ceiling'
  BY <1>2 DEF CeilingInv, Ceiling
<1>3. ASSUME NEW r \in Requests, RequestStep(r) PROVE Ceiling'
  <2>1. r \in DOMAIN reqs /\ AdmittedStep(reqs[r].acct, reqs[r].now)
    BY <1>3, RequestSlots DEF CeilingInv
  <2>2. reqs[r].acct \in Accounts /\ reqs[r].now \in Nat
    BY <2>1, SlotFacts DEF CeilingInv
  <2> QED
    BY <1>1, <2>1, <2>2, AdmittedCeiling DEF CeilingInv
<1>4. CASE AdminStep
  <2>1. UNCHANGED window
    BY <1>4 DEF AdminStep, DeleteLease
  <2> QED
    BY <1>2, <2>1
<1>5. CASE SweepStep
  <2>1. CASE SweepStart
    <3>1. window' = [i \in IPs |-> Pruned(window[i], clock)]
      BY <2>1 DEF SweepStart
    <3>2. \A ip \in IPs : DOMAIN window'[ip] \subseteq DOMAIN window[ip]
      BY <3>1 DEF Pruned, MapKeep
    <3> QED
      BY <1>1, <3>2, ShrinkCeiling DEF CeilingInv
  <2>2. CASE ~SweepStart
    <3>1. UNCHANGED window
      BY <1>5, <2>2 DEF SweepStep, SweepVisit, SweepCompute, SweepEnd, router
    <3> QED
      BY <1>2, <3>1
  <2> QED
    BY <2>1, <2>2
<1>6. CASE \/ \E r \in Requests, a \in Accounts : RouteRequest(r, a)
           \/ TopologyStep \/ Tick \/ UNCHANGED vars
  <2>1. UNCHANGED window
    BY <1>6 DEF RouteRequest, TopologyStep, NodeRemoved, ViewAdd, ViewRemove,
                EgressChange, EnvStep, Tick, router, vars
  <2> QED
    BY <1>2, <2>1
<1> QED
  BY <1>3, <1>4, <1>5, <1>6, RestoreCeiling DEF Next

\* No egress IP ever holds more than max+1 accounts in its window: for every
\* configuration with the quota on, any number of requests and sweeps, and any
\* restarts, as long as no inheritance records an account without admission
\* and no egress IP changes in the middle of a lease decision.
THEOREM CeilingCorrect ==
    ASSUME ~EgressRace, Admins = {}
    PROVE  Spec => []QuotaCeiling
<1> DEFINE CInv == IPQuotaEnabled => CeilingInv
<1>1. Init => CInv
  <2>1. SUFFICES ASSUME Init PROVE Ceiling
    BY SlotInit DEF CeilingInv
  <2>2. \A ip \in IPs : DOMAIN window[ip] = {}
    BY <2>1 DEF Init, EmptyMap
  <2>3. Cardinality({}) = 0
    BY FS_EmptySet
  <2> QED
    BY <2>2, <2>3, QuotaAssumption DEF Ceiling
<1>2. CInv /\ [Next]_vars => CInv'
  <2>1. IPQuotaEnabled' <=> IPQuotaEnabled
    BY DEF IPQuotaEnabled
  <2> QED
    BY <2>1, CeilingStep
<1>3. CInv => QuotaCeiling
  BY DEF CeilingInv, Ceiling, QuotaCeiling
<1> QED
  BY <1>1, <1>2, <1>3, PTL DEF Spec
=============================================================================
