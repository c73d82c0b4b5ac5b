---------------------------- MODULE RequestProofs ----------------------------
(***************************************************************************)
(* Proofs about the request path: the handler of one request, the inbound  *)
(* server's shutdown for any set of connections, the read barrier of the   *)
(* request log for any entries, files, readers and sizes, and the identity *)
(* of inbound requests for all texts.  They share no state; each has its   *)
(* own invariant.                                                          *)
(***************************************************************************)
EXTENDS ProxyRequest, InboundDemux, InboundIdentity, RequestLog,
        SequenceTheorems, FiniteSetTheorems, WellFoundedInduction, TLAPS

-----------------------------------------------------------------------------
(* One request *)

Exchanging == {"roundTrip", "response", "upgrade"}

\* What the handler holds: the client of a SOCKS5 request or of a tunnel, the
\* upstream of an answered request. A request that ends by an exchange is none
\* whose client it owns.
HeldInv ==
    /\ kind \in Kinds
    /\ DOMAIN open = Conns
    /\ open["client"] => kind = "socks5" \/ stage = "relay"
    /\ open["upstream"] => stage \in {"response", "upgrade", "answer", "relay"}
    /\ stage \in Exchanging => kind \in {"http", "reverse"}
    /\ stage = "over" => ~open["client"] /\ ~open["upstream"]

\* The events are emitted once, when the handler returns.
EmittedInv ==
    /\ stage # "over" => emitted = 0
    /\ stage = "over" => emitted = IF begun THEN 2 ELSE 0

\* A deadline belongs to a handshake, and so does the goroutine about to set it.
DeadlineInv ==
    /\ stage = "accepted" => deadlineAt = "off"
    /\ stage \in {"accepted", "greeted", "identified"} => ~begun
    /\ deadlineSet => deadlineAt = "done"
    /\ begun => ~deadlineSet /\ deadlineAt # "expired"

\* No verdict is given before the upstream has answered, and before the end no
\* failure at all.
VerdictInv ==
    /\ stage \notin {"response", "upgrade", "over"} => verdicts = {} /\ ~netOK
    /\ stage \in {"response", "upgrade"} =>
         netOK /\ FALSE \notin verdicts /\ (kind = "http" => verdicts = {})
    /\ stage = "upgrade" => upgraded
    /\ VerdictMatchesLog

RequestInv == HeldInv /\ EmittedInv /\ DeadlineInv /\ VerdictInv

\* A connection just accepted.
LEMMA RequestInvInit == RequestInit => RequestInv
<1> SUFFICES ASSUME RequestInit PROVE RequestInv
  OBVIOUS
<1>1. HeldInv
  <2>1. DOMAIN open = Conns
    BY DEF RequestInit
  <2>2. /\ open["client"] = ("client" = "client" /\ kind = "socks5")
        /\ open["upstream"] = ("upstream" = "client" /\ kind = "socks5")
    BY DEF RequestInit, Conns
  <2> QED
    BY <2>1, <2>2 DEF RequestInit, HeldInv, Exchanging
<1> QED
  BY <1>1 DEF RequestInit, RequestInv, EmittedInv, DeadlineInv, VerdictInv, VerdictMatchesLog

\* Authentication and handshake: the handler is refused, or begins.
LEMMA BeginKeeps ==
    ASSUME RequestInv, Begin, stage \in {"accepted", "identified"},
           \/ UNCHANGED handshakeVars /\ stage = "accepted"
           \/ deadlineSet' = FALSE /\ deadlineAt' = "done"
    PROVE  RequestInv'
<1>1. /\ stage' = "begun" /\ begun' = TRUE
      /\ UNCHANGED <<kind, open, netOK, verdicts, emitted, upgraded>>
  BY DEF Begin, inputVars, tunnelVars, reportVars
<1>2. HeldInv'
  BY <1>1 DEF RequestInv, HeldInv, Exchanging
<1>3. DeadlineInv'
  BY <1>1 DEF RequestInv, DeadlineInv, handshakeVars
<1> QED
  BY <1>1, <1>2, <1>3 DEF RequestInv, EmittedInv, VerdictInv, VerdictMatchesLog

\* An early refusal closes what there is and logs nothing more.
LEMMA RefuseKeeps ==
    ASSUME RequestInv, Refuse, stage \in {"accepted", "greeted", "identified"},
           UNCHANGED handshakeVars \/ (deadlineSet' = FALSE /\ deadlineAt' = "done")
    PROVE  RequestInv'
<1>1. /\ stage' = "over" /\ emitted' = (IF begun THEN emitted + 2 ELSE emitted)
      /\ open' = [open EXCEPT !["client"] = FALSE]
      /\ UNCHANGED <<kind, begun, netOK, verdicts, upgraded>>
  BY DEF Refuse, HandlerReturns, CloseOwn, inputVars
<1>2. HeldInv'
  BY <1>1 DEF RequestInv, HeldInv, Exchanging, Conns
<1>3. EmittedInv' /\ DeadlineInv'
  BY <1>1 DEF RequestInv, EmittedInv, DeadlineInv, handshakeVars
<1>4. VerdictInv'
  BY <1>1 DEF RequestInv, VerdictInv, VerdictMatchesLog
<1> QED
  BY <1>2, <1>3, <1>4 DEF RequestInv

\* The HTTP inbounds identify the client, or refuse.
LEMMA AuthenticationKeeps ==
    ASSUME RequestInv, ForwardAuthenticates \/ ReverseParsesPath
    PROVE  RequestInv'
<1>1. stage = "accepted" /\ UNCHANGED handshakeVars /\ (Begin \/ Refuse)
  BY DEF ForwardAuthenticates, ReverseParsesPath
<1>2. CASE Begin
  BY <1>1, <1>2, BeginKeeps
<1>3. CASE Refuse
  BY <1>1, <1>3, RefuseKeeps
<1> QED
  BY <1>1, <1>2, <1>3

\* The SOCKS5 handshake, under its deadline.
LEMMA HandshakeKeeps ==
    ASSUME RequestInv, Handshake
    PROVE  RequestInv'
<1>1. CASE Socks5Requested \/ Socks5RequestedLate
  BY <1>1, BeginKeeps DEF Socks5Requested, Socks5RequestedLate, RequestInv, DeadlineInv
<1>2. CASE Socks5HandshakeFails
  BY <1>2, RefuseKeeps DEF Socks5HandshakeFails
<1>3. CASE Socks5Negotiates \/ Socks5Authenticates
  <2>1. /\ stage \in {"accepted", "greeted"} /\ stage' \in {"greeted", "identified"}
        /\ UNCHANGED <<kind, deadlineSet, begun, open, netOK, verdicts, emitted, upgraded>>
        /\ deadlineAt' = deadlineAt \/ (deadlineAt' = "waiting" /\ stage = "accepted")
    BY <1>3 DEF Socks5Negotiates, Socks5Authenticates, inputVars, handshakeVars, tunnelVars,
                reportVars
  <2>2. HeldInv' /\ EmittedInv'
    BY <2>1 DEF RequestInv, HeldInv, EmittedInv, Exchanging
  <2>3. DeadlineInv'
    BY <2>1 DEF RequestInv, DeadlineInv
  <2>4. VerdictInv'
    BY <2>1 DEF RequestInv, VerdictInv, VerdictMatchesLog
  <2> QED
    BY <2>2, <2>3, <2>4 DEF RequestInv
<1>4. CASE HandshakeExpires \/ HandshakeSetsDeadline
  <2>1. UNCHANGED <<kind, stage, begun, open, netOK, verdicts, emitted, upgraded>>
    BY <1>4 DEF HandshakeExpires, HandshakeSetsDeadline, inputVars, tunnelVars, reportVars
  <2>2. DeadlineInv'
    BY <1>4, <2>1 DEF HandshakeExpires, HandshakeSetsDeadline, RequestInv, DeadlineInv
  <2>3. HeldInv' /\ EmittedInv'
    BY <2>1 DEF RequestInv, HeldInv, EmittedInv
  <2>4. VerdictInv'
    BY <2>1 DEF RequestInv, VerdictInv, VerdictMatchesLog
  <2> QED
    BY <2>2, <2>3, <2>4 DEF RequestInv
<1> QED
  BY <1>1, <1>2, <1>3, <1>4 DEF Handshake

\* Every return of the handler after its begin: what it closed and what it told
\* health and the log decide.
LEMMA ReturnKeeps ==
    ASSUME RequestInv, HandlerReturns, stage # "over",
           UNCHANGED <<kind, handshakeVars, begun, upgraded>>,
           DOMAIN open' = Conns, ~open'["client"], ~open'["upstream"],
           FALSE \in verdicts' => ~netOK',
           TRUE \in verdicts' => netOK' \/ upgraded
    PROVE  RequestInv'
<1>1. /\ stage' = "over" /\ emitted' = (IF begun THEN emitted + 2 ELSE emitted)
      /\ UNCHANGED <<kind, begun, upgraded, deadlineAt, deadlineSet>>
  BY DEF HandlerReturns, handshakeVars
<1>2. HeldInv' /\ EmittedInv'
  BY <1>1 DEF RequestInv, HeldInv, EmittedInv, Exchanging
<1>3. DeadlineInv'
  BY <1>1 DEF RequestInv, DeadlineInv
<1>4. VerdictMatchesLog'
  <2>1. upgraded' <=> upgraded
    BY <1>1
  <2> QED
    BY <2>1, Zenon DEF VerdictMatchesLog
<1>5. VerdictInv'
  BY <1>1, <1>4 DEF VerdictInv
<1> QED
  BY <1>2, <1>3, <1>5 DEF RequestInv

\* A request that gets no route.
LEMMA EndsEarlyKeeps ==
    ASSUME RequestInv, ReverseRejects \/ RouteFails
    PROVE  RequestInv'
<1>1. /\ stage = "begun" /\ HandlerReturns /\ open' = [open EXCEPT !["client"] = FALSE]
      /\ UNCHANGED <<kind, handshakeVars, begun, upgraded, netOK, verdicts>>
  BY DEF ReverseRejects, RouteFails, EndsEarly, CloseOwn, inputVars
<1>2. DOMAIN open' = Conns /\ ~open'["client"] /\ ~open'["upstream"]
  BY <1>1 DEF RequestInv, HeldInv, Conns
<1> QED
  BY <1>1, <1>2, ReturnKeeps DEF RequestInv, VerdictInv

\* A route is found.
LEMMA RouteKeeps ==
    ASSUME RequestInv, NEW bypass \in BOOLEAN, ResolveRoutedOutbound(bypass)
    PROVE  RequestInv'
<1>1. /\ stage = "begun" /\ stage' = (IF kind \in Tunnels THEN "dial" ELSE "roundTrip")
      /\ UNCHANGED <<kind, deadlineAt, deadlineSet, begun, open, netOK, verdicts, emitted, upgraded>>
  BY DEF ResolveRoutedOutbound, inputVars, handshakeVars, tunnelVars, reportVars
<1>2. HeldInv' /\ EmittedInv'
  BY <1>1 DEF RequestInv, HeldInv, EmittedInv, Exchanging, Kinds, Tunnels
<1>3. DeadlineInv'
  BY <1>1 DEF RequestInv, DeadlineInv
<1>4. VerdictInv'
  BY <1>1 DEF RequestInv, VerdictInv, VerdictMatchesLog
<1> QED
  BY <1>2, <1>3, <1>4 DEF RequestInv


\* A failure told to health, or nothing because the client had canceled.
LEMMA CanceledOrBlamed ==
    ASSUME NEW canceled \in BOOLEAN, verdicts = {}, netOK' = canceled,
           IF canceled THEN UNCHANGED verdicts ELSE Blame(FALSE)
    PROVE  /\ FALSE \in verdicts' => ~netOK'
           /\ TRUE \in verdicts' => netOK' \/ upgraded
<1>1. CASE canceled = TRUE
  BY <1>1
<1>2. CASE canceled = FALSE
  <2>1. verdicts' \subseteq {FALSE} /\ netOK' = FALSE
    BY <1>2 DEF Blame
  <2>2. TRUE \notin verdicts'
    BY <2>1
  <2> QED
    BY <2>1, <2>2
<1> QED
  BY <1>1, <1>2

\* The upstream gives no response.
LEMMA RoundTripFailsKeeps ==
    ASSUME RequestInv, NEW canceled \in BOOLEAN, RoundTripFails(canceled)
    PROVE  RequestInv'
<1>1. /\ stage = "roundTrip" /\ HandlerReturns /\ netOK' = canceled
      /\ IF canceled THEN UNCHANGED verdicts ELSE Blame(FALSE)
      /\ UNCHANGED <<kind, handshakeVars, begun, upgraded, open>>
  BY DEF RoundTripFails, inputVars
<1>2. DOMAIN open' = Conns /\ ~open'["client"] /\ ~open'["upstream"]
  BY <1>1 DEF RequestInv, HeldInv, Exchanging
<1>3. verdicts = {}
  BY <1>1 DEF RequestInv, VerdictInv
<1> QED
  BY <1>1, <1>2, <1>3, CanceledOrBlamed, ReturnKeeps

\* The upstream cannot be dialled.
LEMMA DialFailsKeeps ==
    ASSUME RequestInv, NEW canceled \in BOOLEAN, DialFails(canceled)
    PROVE  RequestInv'
<1>1. /\ stage = "dial" /\ HandlerReturns /\ netOK' = canceled
      /\ open' = [open EXCEPT !["client"] = FALSE]
      /\ IF canceled THEN UNCHANGED verdicts ELSE Blame(FALSE)
      /\ UNCHANGED <<kind, handshakeVars, begun, upgraded>>
  BY DEF DialFails, CloseOwn, inputVars
<1>2. DOMAIN open' = Conns /\ ~open'["client"] /\ ~open'["upstream"]
  BY <1>1 DEF RequestInv, HeldInv, Conns
<1>3. verdicts = {}
  BY <1>1 DEF RequestInv, VerdictInv
<1> QED
  BY <1>1, <1>2, <1>3, CanceledOrBlamed, ReturnKeeps

\* The end of an exchange closes the upstream; the client was never its own.
LEMMA ResponseOverCloses ==
    ASSUME RequestInv, ResponseOver, stage \in {"response", "upgrade"}
    PROVE  /\ HandlerReturns /\ stage # "over"
           /\ UNCHANGED <<kind, handshakeVars, begun, upgraded>>
           /\ DOMAIN open' = Conns /\ ~open'["client"] /\ ~open'["upstream"]
<1>1. /\ HandlerReturns /\ stage # "over" /\ open' = [open EXCEPT !["upstream"] = FALSE]
      /\ UNCHANGED <<kind, handshakeVars, begun, upgraded>>
  BY DEF ResponseOver, inputVars
<1>2. DOMAIN open' = Conns /\ ~open'["client"] /\ ~open'["upstream"]
  BY <1>1 DEF RequestInv, HeldInv, Conns, Exchanging
<1> QED
  BY <1>1, <1>2

\* A response breaks off while it is copied.
LEMMA ForwardCopyFailsKeeps ==
    ASSUME RequestInv, NEW canceled \in BOOLEAN, ForwardCopyFails(canceled)
    PROVE  RequestInv'
<1>1. /\ stage = "response" /\ kind = "http" /\ netOK' = canceled /\ ResponseOver
      /\ IF canceled THEN UNCHANGED verdicts ELSE Blame(FALSE)
  BY DEF ForwardCopyFails
<1>2. verdicts = {}
  BY <1>1 DEF RequestInv, VerdictInv
<1> QED
  BY <1>1, <1>2, CanceledOrBlamed, ResponseOverCloses, ReturnKeeps

\* A response is copied, or the reverse proxy gives up on it.
LEMMA BodyKeeps ==
    ASSUME RequestInv, BodyCopied \/ ReverseCopyAborts
    PROVE  RequestInv'
<1>1. /\ stage = "response" /\ netOK' = netOK /\ ResponseOver
      /\ verdicts' \subseteq verdicts \cup {TRUE}
  BY DEF BodyCopied, ReverseCopyAborts, Blame
<1>2. netOK /\ FALSE \notin verdicts
  BY <1>1 DEF RequestInv, VerdictInv
<1>3. FALSE \notin verdicts' /\ netOK'
  BY <1>1, <1>2
<1> QED
  BY <1>1, <1>3, ResponseOverCloses, ReturnKeeps

\* An upgraded connection ends.
LEMMA UpgradeKeeps ==
    ASSUME RequestInv, NEW failed \in BOOLEAN, UpgradeEnds(failed)
    PROVE  RequestInv'
<1>1. /\ stage = "upgrade" /\ netOK' = ~failed /\ ResponseOver
      /\ IF failed THEN Blame(FALSE) ELSE UNCHANGED verdicts
  BY DEF UpgradeEnds
<1>2. upgraded /\ FALSE \notin verdicts
  BY <1>1 DEF RequestInv, VerdictInv
<1>3. FALSE \in verdicts' => ~netOK'
  BY <1>1, <1>2
<1> QED
  BY <1>1, <1>2, <1>3, ResponseOverCloses, ReturnKeeps

\* A response arrives, or a switch of protocols.
LEMMA ResponseKeeps ==
    ASSUME RequestInv, NEW switching \in BOOLEAN, ResponseArrives(switching)
    PROVE  RequestInv'
<1>1. /\ stage = "roundTrip" /\ (switching => kind = "reverse")
      /\ stage' = (IF switching THEN "upgrade" ELSE "response")
      /\ upgraded' = switching /\ netOK' = TRUE
      /\ open' = [open EXCEPT !["upstream"] = TRUE]
      /\ IF kind = "reverse" THEN Blame(TRUE) ELSE UNCHANGED verdicts
      /\ UNCHANGED <<kind, deadlineAt, deadlineSet, begun, emitted>>
  BY DEF ResponseArrives, inputVars, handshakeVars
<1>2. HeldInv'
  BY <1>1 DEF RequestInv, HeldInv, Exchanging, Conns
<1>3. EmittedInv' /\ DeadlineInv'
  BY <1>1 DEF RequestInv, EmittedInv, DeadlineInv
<1>4. VerdictInv'
  <2>1. verdicts = {}
    BY <1>1 DEF RequestInv, VerdictInv
  <2>2. verdicts' \subseteq {TRUE} /\ (kind = "http" => verdicts' = {})
    BY <1>1, <2>1 DEF Blame
  <2>3. FALSE \notin verdicts'
    BY <2>2
  <2>4. (stage' = "upgrade" => upgraded') /\ stage' \in {"response", "upgrade"} /\ stage' # "over"
    BY <1>1
  <2>5. netOK'
    BY <1>1
  <2> QED
    BY <1>1, <2>2, <2>3, <2>4, <2>5 DEF VerdictInv, VerdictMatchesLog
<1> QED
  BY <1>2, <1>3, <1>4 DEF RequestInv

\* Before the tunnel stands: every failure closes both connections.
LEMMA AnswerFailsKeeps ==
    ASSUME RequestInv, HijackFails \/ AnswerFails \/ PrefetchFails
    PROVE  RequestInv'
<1>1. /\ stage = "answer" /\ HandlerReturns /\ netOK' = netOK
      /\ open' = [c \in Conns |-> FALSE] /\ verdicts' \subseteq verdicts \cup {FALSE}
      /\ UNCHANGED <<kind, handshakeVars, begun, upgraded>>
  BY DEF HijackFails, AnswerFails, PrefetchFails, CloseAll, Blame, inputVars
<1>2. DOMAIN open' = Conns /\ ~open'["client"] /\ ~open'["upstream"]
  BY <1>1 DEF Conns
<1>3. verdicts = {} /\ ~netOK
  BY <1>1 DEF RequestInv, VerdictInv
<1>4. TRUE \notin verdicts' /\ ~netOK'
  BY <1>1, <1>3
<1> QED
  BY <1>1, <1>2, <1>4, ReturnKeeps

\* A tunnel is dialled and the client told.
LEMMA TunnelOpensKeeps ==
    ASSUME RequestInv, DialSucceeds \/ AnswerClient
    PROVE  RequestInv'
<1>1. /\ UNCHANGED <<kind, deadlineAt, deadlineSet, begun, netOK, verdicts, emitted, upgraded>>
      /\ \/ /\ stage = "dial" /\ stage' = "answer"
            /\ open' = [open EXCEPT !["upstream"] = TRUE]
         \/ /\ stage = "answer" /\ stage' = "relay"
            /\ open' = [open EXCEPT !["client"] = TRUE]
  BY DEF DialSucceeds, AnswerClient, inputVars, handshakeVars, reportVars
<1>2. HeldInv'
  BY <1>1 DEF RequestInv, HeldInv, Exchanging, Conns
<1>3. EmittedInv' /\ DeadlineInv'
  BY <1>1 DEF RequestInv, EmittedInv, DeadlineInv
<1>4. VerdictInv'
  BY <1>1 DEF RequestInv, VerdictInv, VerdictMatchesLog
<1> QED
  BY <1>2, <1>3, <1>4 DEF RequestInv

\* Traffic and ends of traffic in a tunnel.
LEMMA ExchangeKeeps ==
    ASSUME RequestInv, Exchange
    PROVE  RequestInv'
BY RoundTripFailsKeeps, ForwardCopyFailsKeeps, DialFailsKeeps, ResponseKeeps, UpgradeKeeps,
   BodyKeeps, AnswerFailsKeeps, TunnelOpensKeeps
   DEF Exchange

\* The two copies and the remotes change nothing but the tunnel.
LEMMA TunnelKeeps ==
    ASSUME RequestInv,
           \/ \E d \in Directions2 : CopyMoves(d) \/ CopyReturns(d) \/ CopyWriteFails(d)
           \/ \E c \in Conns : PeerFinishes(c) \/ PeerResets(c)
    PROVE  RequestInv'
<1>1. /\ stage = "relay" /\ (open' = open \/ open' = [c \in Conns |-> FALSE])
      /\ UNCHANGED <<kind, deadlineAt, deadlineSet, stage, begun, netOK, verdicts, emitted, upgraded>>
  BY DEF CopyMoves, CopyReturns, CopyWriteFails, CopyStep, CopyEndsWith, PeerFinishes, PeerResets,
         inputVars, handshakeVars, reportVars
<1>2. HeldInv'
  BY <1>1 DEF RequestInv, HeldInv, Exchanging, Conns
<1>3. EmittedInv' /\ DeadlineInv'
  BY <1>1 DEF RequestInv, EmittedInv, DeadlineInv
<1>4. VerdictInv'
  BY <1>1 DEF RequestInv, VerdictInv, VerdictMatchesLog
<1> QED
  BY <1>2, <1>3, <1>4 DEF RequestInv

\* Both copy loops have ended, and the handler reports.
LEMMA RelayEndsKeeps ==
    ASSUME RequestInv, RelayEnds
    PROVE  RequestInv'
<1>1. /\ stage = "relay" /\ HandlerReturns /\ netOK' = RelayOK
      /\ open' = [c \in Conns |-> FALSE] /\ Blame(RelayOK)
      /\ UNCHANGED <<kind, handshakeVars, begun, upgraded>>
  BY DEF RelayEnds, CloseAll, inputVars
<1>2. DOMAIN open' = Conns /\ ~open'["client"] /\ ~open'["upstream"]
  BY <1>1 DEF Conns
<1>3. verdicts = {}
  BY <1>1 DEF RequestInv, VerdictInv
<1>4. verdicts' \subseteq {netOK'}
  BY <1>1, <1>3 DEF Blame
<1>5. FALSE \in verdicts' => netOK' = FALSE
  BY <1>4
<1>6. TRUE \in verdicts' => netOK' = TRUE
  BY <1>4
<1> QED
  BY <1>1, <1>2, <1>5, <1>6, ReturnKeeps

\* The invariant of a request, at all times.
LEMMA RequestInvHolds == RequestSpec => []RequestInv
<1>1. ASSUME RequestInv, UNCHANGED requestVars PROVE RequestInv'
  BY <1>1 DEF requestVars, RequestInv, HeldInv, EmittedInv, DeadlineInv, VerdictInv, VerdictMatchesLog
<1>2. RequestInv /\ [RequestNext]_requestVars => RequestInv'
  BY <1>1, AuthenticationKeeps, HandshakeKeeps, EndsEarlyKeeps, RouteKeeps, ExchangeKeeps,
     TunnelKeeps, RelayEndsKeeps
     DEF RequestNext, Relay
<1> QED
  BY RequestInvInit, <1>2, PTL DEF RequestSpec

\* A handler that has returned holds no connection and has emitted its events
\* once, on every path of the four protocols; and no handshake deadline outlives
\* the handshake (ServeConnContext, requestLifecycle.finish, Stop).
THEOREM HandlersCorrect == RequestSpec => []NothingHeldAtEnd
<1>1. RequestInv => NothingHeldAtEnd
  BY DEF RequestInv, HeldInv, EmittedInv, DeadlineInv, NothingHeldAtEnd, Conns
<1> QED
  BY RequestInvHolds, <1>1, PTL

\* Passive health and the request log agree on every path: RecordPassiveResult
\* is given what net_ok says, but for an upgrade that fails after its 101.
THEOREM VerdictsCorrect == RequestSpec => []VerdictMatchesLog
<1>1. RequestInv => VerdictMatchesLog
  BY DEF RequestInv, VerdictInv
<1> QED
  BY RequestInvHolds, <1>1, PTL

-----------------------------------------------------------------------------
(* Shutdown of the inbound server *)

\* Connections the server can still reach by its tables.
TrackedPlaces == Places \ {"new", "accepted", "started", "over"}
\* The places of connections that only a live server serves.
ServedPlaces == {"queued", "http", "hijacked", "handshake", "tunnel"}

ShutdownPast(steps) == shutdownAt \notin steps

DemuxInv ==
    /\ connAt \in [Clients -> Places]
    /\ connOpen \subseteq Clients
    /\ \A c \in connOpen : connAt[c] \notin {"new", "over"}
    /\ \A c \in connOpen : connAt[c] \in TrackedPlaces => c \in activeConns
    /\ ShutdownPast({"no"}) => shuttingDown
    /\ ShutdownPast({"no", "cancel"}) => baseCanceled
    /\ ShutdownPast({"no", "cancel", "outer", "sniff", "http"}) => ~httpListenerOpen
    /\ ShutdownPast({"no", "cancel", "outer", "sniff", "http", "active"}) =>
         \A c \in connOpen : connAt[c] \notin ServedPlaces
    /\ ~httpListenerOpen => In("queued") = {}
    /\ shutdownAt = "done" => Workers = {}


\* A listener without connections.
LEMMA DemuxInvInit == DemuxInit => DemuxInv
BY DEF DemuxInit, DemuxInv, ShutdownPast, Places, In, Workers, WorkerPlaces

\* A connection ends, whatever it was doing.
LEMMA EndsKeeps ==
    ASSUME DemuxInv, NEW c \in Clients, Ends(c)
    PROVE  DemuxInv'
<1>1. /\ connAt' = [connAt EXCEPT ![c] = "over"] /\ connOpen' = connOpen \ {c}
      /\ activeConns' = activeConns \ {c}
      /\ UNCHANGED <<httpListenerOpen, baseCanceled, shuttingDown, shutdownAt>>
  BY DEF Ends, server
<1>2. connAt' \in [Clients -> Places]
  BY <1>1 DEF DemuxInv, Places
<1>3. connAt'[c] = "over" /\ \A x \in Clients \ {c} : connAt'[x] = connAt[x]
  BY <1>1 DEF DemuxInv
<1>4. (In("queued") = {} => In("queued")' = {}) /\ (Workers = {} => Workers' = {})
  BY <1>3 DEF In, Workers, WorkerPlaces
<1> QED
  BY <1>1, <1>2, <1>3, <1>4 DEF DemuxInv, ShutdownPast

\* A connection moves on and stays open or closed as it was: from where to where
\* it may depends on how far the shutdown is.
LEMMA MovesKeeps ==
    ASSUME DemuxInv, NEW c \in Clients, NEW from \in Places, NEW to \in Places \ {"new", "over"},
           Moves(c, from, to),
           UNCHANGED <<httpListenerOpen, baseCanceled, shuttingDown, shutdownAt>>,
           connOpen' = connOpen \/ (connOpen' = connOpen \cup {c} /\ from = "new"),
           activeConns \subseteq activeConns',
           to \in TrackedPlaces => from \in TrackedPlaces \/ c \in activeConns',
           to \in ServedPlaces => \/ from \in ServedPlaces /\ (from = to \/ c \in connOpen)
                                  \/ ~baseCanceled
                                  \/ httpListenerOpen,
           to = "queued" => httpListenerOpen,
           to \in WorkerPlaces => from \in WorkerPlaces \/ ~shuttingDown
    PROVE  DemuxInv'
<1>1. connAt[c] = from /\ connAt' = [connAt EXCEPT ![c] = to]
  BY DEF Moves
<1>2. /\ connAt' \in [Clients -> Places] /\ connAt'[c] = to
      /\ \A x \in Clients \ {c} : connAt'[x] = connAt[x]
  BY <1>1 DEF DemuxInv
<1>3. connOpen' \subseteq Clients /\ \A x \in connOpen' : connAt'[x] \notin {"new", "over"}
  BY <1>2 DEF DemuxInv
<1>4. \A x \in connOpen' : connAt'[x] \in TrackedPlaces => x \in activeConns'
  BY <1>1, <1>2 DEF DemuxInv, TrackedPlaces
<1>5. /\ ShutdownPast({"no"}) => shuttingDown
      /\ ShutdownPast({"no", "cancel"}) => baseCanceled
      /\ ShutdownPast({"no", "cancel", "outer", "sniff", "http"}) => ~httpListenerOpen
  BY DEF DemuxInv
<1>6. ASSUME ShutdownPast({"no", "cancel", "outer", "sniff", "http", "active"}),
             NEW x \in connOpen'
      PROVE  connAt'[x] \notin ServedPlaces
  <2>1. ~httpListenerOpen /\ baseCanceled
    BY <1>5, <1>6 DEF ShutdownPast
  <2>2. \A y \in connOpen : connAt[y] \notin ServedPlaces
    BY <1>6 DEF DemuxInv
  <2>3. CASE x = c
    BY <1>1, <1>2, <2>1, <2>2, <2>3, <1>6 DEF ServedPlaces
  <2>4. CASE x # c
    BY <1>2, <1>3, <1>6, <2>2, <2>4
  <2> QED
    BY <2>3, <2>4
<1>7. ~httpListenerOpen => In("queued")' = {}
  BY <1>2 DEF DemuxInv, In
<1>8. shutdownAt = "done" => Workers' = {}
  BY <1>1, <1>2, <1>5 DEF DemuxInv, Workers, ShutdownPast
<1> QED
  BY <1>2, <1>3, <1>4, <1>5, <1>6, <1>7, <1>8 DEF DemuxInv, ShutdownPast

\* A connection moves on through sniffing, dispatch and its handler.
LEMMA ConnectionKeeps ==
    ASSUME DemuxInv, NEW c \in Clients,
           \/ Accept(c) \/ WorkerStep(c)
           \/ \E first \in {"socksFirst", "httpFirst"} : SniffByte(c, first)
           \/ SocksTunnel(c) \/ SocksEnds(c)
           \/ HttpAccept(c) \/ Hijack(c) \/ HttpEnds(c)
    PROVE  DemuxInv'
<1> USE DEF TrackedPlaces, ServedPlaces, Places, WorkerPlaces, server, tables
<1>1. CASE Ends(c)
  BY <1>1, EndsKeeps
<1>2. CASE Accept(c)
  BY <1>2, MovesKeeps DEF Accept
<1>3. CASE ~shuttingDown /\ Moves(c, "accepted", "started") /\ UNCHANGED <<connOpen, tables, server>>
  BY <1>3, MovesKeeps
<1>4. CASE TrackActiveConn(c)
  BY <1>4, MovesKeeps DEF TrackActiveConn
<1>5. CASE TrackSniffConn(c)
  BY <1>5, MovesKeeps DEF TrackSniffConn
<1>6. ASSUME NEW first \in {"socksFirst", "httpFirst"}, SniffByte(c, first) PROVE DemuxInv'
  BY <1>6, MovesKeeps DEF SniffByte
<1>7. CASE ServeSocks(c)
  <2>1. CASE baseCanceled
    BY <1>7, <2>1, MovesKeeps DEF ServeSocks
  <2>2. CASE ~baseCanceled
    BY <1>7, <2>2, MovesKeeps DEF ServeSocks
  <2> QED
    BY <2>1, <2>2
<1>8. CASE SocksTunnel(c)
  BY <1>8, MovesKeeps DEF SocksTunnel
<1>9. CASE /\ httpListenerOpen /\ Moves(c, "httpFirst", "queued")
           /\ UNCHANGED <<connOpen, tables, server>>
  BY <1>9, MovesKeeps
<1>10. CASE HttpAccept(c)
  BY <1>10, MovesKeeps DEF HttpAccept
<1>11. CASE Hijack(c)
  BY <1>11, MovesKeeps DEF Hijack
<1> QED
  BY <1>1, <1>2, <1>3, <1>4, <1>5, <1>6, <1>7, <1>8, <1>9, <1>10, <1>11
     DEF WorkerStep, TryStartConnWorker, SniffFails, Enqueue, SocksEnds, HttpEnds

\* Connections are closed where they are, and nothing reopens.
LEMMA ClosingKeeps ==
    ASSUME DemuxInv, connAt' = connAt, connOpen' \subseteq connOpen,
           connOpen' \cap activeConns \subseteq activeConns',
           UNCHANGED <<httpListenerOpen, shutdownAt>>,
           shuttingDown => shuttingDown', baseCanceled => baseCanceled'
    PROVE  DemuxInv'
<1>1. In("queued")' = In("queued") /\ Workers' = Workers
  BY DEF In, Workers
<1> QED
  BY <1>1 DEF DemuxInv, ShutdownPast

\* The same with a step of Shutdown, which owes what the next phase relies on.
LEMMA ShutdownGoesKeeps ==
    ASSUME DemuxInv, NEW from, NEW to, ShutdownGoes(from, to),
           connAt' = connAt, connOpen' \subseteq connOpen,
           connOpen' \cap activeConns \subseteq activeConns',
           httpListenerOpen' = httpListenerOpen,
           shuttingDown', to \notin {"no", "cancel"} => baseCanceled',
           to \notin {"no", "cancel", "outer", "sniff", "http"} => ~httpListenerOpen,
           to \notin {"no", "cancel", "outer", "sniff", "http", "active"} =>
               \A c \in connOpen' : connAt[c] \notin ServedPlaces,
           to = "done" => Workers = {}
    PROVE  DemuxInv'
<1>1. In("queued")' = In("queued") /\ Workers' = Workers
  BY DEF In, Workers
<1>2. shutdownAt' = to
  BY DEF ShutdownGoes
<1> QED
  BY <1>1, <1>2 DEF DemuxInv, ShutdownPast

\* The in-memory listener is closed, and what it queued with it.
LEMMA CloseListenerKeeps ==
    ASSUME DemuxInv, CloseHttpListener, UNCHANGED <<baseCanceled, shuttingDown, shutdownAt>>
    PROVE  DemuxInv'
<1>1. /\ httpListenerOpen' = FALSE
      /\ connAt' = [c \in Clients |-> IF connAt[c] = "queued" THEN "over" ELSE connAt[c]]
      /\ connOpen' = connOpen \ In("queued") /\ activeConns' = activeConns \ In("queued")
  BY DEF CloseHttpListener, CloseConns
<1>2. connAt' \in [Clients -> Places]
  BY <1>1 DEF DemuxInv, Places
<1>3. \A c \in connOpen' : c \in connOpen /\ connAt'[c] = connAt[c] /\ c \notin In("queued")
  BY <1>1 DEF DemuxInv, In
<1>4. In("queued")' = {}
  BY <1>1 DEF In
<1>5. Workers' = Workers
  BY <1>1 DEF Workers, WorkerPlaces
<1> QED
  BY <1>1, <1>2, <1>3, <1>4, <1>5 DEF DemuxInv, ShutdownPast

\* After closeActiveConns no open connection is left where one is served: each of
\* them is in the table by then.
LEMMA TrackedClosed ==
    ASSUME DemuxInv, connOpen' = connOpen \ activeConns
    PROVE  \A c \in connOpen' : connAt[c] \notin ServedPlaces
BY DEF DemuxInv, ServedPlaces, TrackedPlaces, Places

\* The steps of Shutdown and of Serve's return.
LEMMA ShutdownStepKeeps ==
    ASSUME DemuxInv, BeginShutdown \/ ShutdownStep \/ DeadlinePasses \/ ServeReturns
    PROVE  DemuxInv'
<1> USE DEF tables
<1>1. CASE BeginShutdown
  BY <1>1, ShutdownGoesKeeps DEF BeginShutdown
<1>2. shutdownAt # "no" => shuttingDown
  BY DEF DemuxInv, ShutdownPast
<1>3. CASE CancelBase
  <2>1. ShutdownGoes("cancel", "outer") /\ shuttingDown'
    BY <1>2, <1>3 DEF CancelBase, ShutdownGoes
  <2> QED
    BY <1>3, <2>1, ShutdownGoesKeeps DEF CancelBase
<1>4. shutdownAt \notin {"no", "cancel"} => baseCanceled
  BY DEF DemuxInv, ShutdownPast
<1>5. CASE CloseOuter
  <2>1. ShutdownGoes("outer", "sniff") /\ shuttingDown' /\ baseCanceled'
    BY <1>2, <1>4, <1>5 DEF CloseOuter, ShutdownGoes
  <2> QED
    BY <1>5, <2>1, ShutdownGoesKeeps DEF CloseOuter
<1>6. CASE CloseSniffConns
  <2>1. ShutdownGoes("sniff", "http") /\ shuttingDown' /\ baseCanceled'
    BY <1>2, <1>4, <1>6 DEF CloseSniffConns, ShutdownGoes
  <2> QED
    BY <1>6, <2>1, ShutdownGoesKeeps DEF CloseSniffConns, CloseConns
<1>7. CASE HttpShutdownCloses \/ ServeReturns
  BY <1>7, CloseListenerKeeps DEF HttpShutdownCloses, ServeReturns
<1>8. CASE HttpShutdownReturns
  <2>1. ShutdownGoes("http", "active") /\ shuttingDown' /\ baseCanceled' /\ ~httpListenerOpen
    BY <1>2, <1>4, <1>8 DEF HttpShutdownReturns, ShutdownGoes
  <2> QED
    BY <1>8, <2>1, ShutdownGoesKeeps DEF HttpShutdownReturns, CloseConns
<1>9. CASE CloseActiveConns \/ CloseLate
  <2>1. /\ connOpen' = connOpen \ activeConns /\ activeConns' = {}
        /\ UNCHANGED <<connAt, httpListenerOpen, shuttingDown, baseCanceled>>
        /\ shutdownAt \in {"active", "wait"} /\ shutdownAt' \in {"wait", "lateWait"}
    BY <1>9 DEF CloseActiveConns, CloseLate, CloseTracked, CloseConns, ShutdownGoes
  <2>2. shuttingDown' /\ baseCanceled' /\ ~httpListenerOpen
    BY <1>2, <1>4, <2>1 DEF DemuxInv, ShutdownPast
  <2>3. \A c \in connOpen' : connAt[c] \notin ServedPlaces
    BY <2>1, TrackedClosed
  <2>4. connOpen' \subseteq connOpen /\ connOpen' \cap activeConns \subseteq activeConns'
    BY <2>1
  <2>5. PICK to \in {"wait", "lateWait"} : ShutdownGoes(shutdownAt, to)
    BY <2>1 DEF ShutdownGoes
  <2>6. PICK from : from = shutdownAt /\ ShutdownGoes(from, to)
    BY <2>5
  <2> QED
    BY <2>1, <2>2, <2>3, <2>4, <2>6, ShutdownGoesKeeps
<1>10. CASE ShutdownReturns
  <2>1. PICK from : from = shutdownAt /\ ShutdownGoes(from, "done")
    BY <1>10 DEF ShutdownReturns, ShutdownGoes
  <2>2. /\ Workers = {} /\ shutdownAt \in {"wait", "lateWait"}
        /\ UNCHANGED <<connAt, connOpen, activeConns, httpListenerOpen, shuttingDown, baseCanceled>>
    BY <1>10 DEF ShutdownReturns
  <2>3. /\ shuttingDown' /\ baseCanceled' /\ ~httpListenerOpen
        /\ \A c \in connOpen' : connAt[c] \notin ServedPlaces
    BY <1>2, <1>4, <2>2 DEF DemuxInv, ShutdownPast
  <2> QED
    BY <2>1, <2>2, <2>3, ShutdownGoesKeeps
<1>11. CASE DeadlinePasses
  BY <1>11, ClosingKeeps DEF DeadlinePasses
<1> QED
  BY <1>1, <1>3, <1>5, <1>6, <1>7, <1>8, <1>9, <1>10, <1>11 DEF ShutdownStep

\* The invariant of the server, at all times.
LEMMA DemuxInvHolds == DemuxSpec => []DemuxInv
<1>1. ASSUME DemuxInv, UNCHANGED demuxVars PROVE DemuxInv'
  BY <1>1, ClosingKeeps DEF demuxVars
<1>2. DemuxInv /\ [DemuxNext]_demuxVars => DemuxInv'
  BY <1>1, ConnectionKeeps, ShutdownStepKeeps DEF DemuxNext
<1> QED
  BY DemuxInvInit, <1>2, PTL DEF DemuxSpec

\* When Shutdown has returned, every connection it had given a worker is closed,
\* wherever that was when the shutdown began and whichever deadline struck.
THEOREM ShutdownCorrect == DemuxSpec => []NothingSurvivesShutdown
<1>1. ASSUME DemuxInv PROVE NothingSurvivesShutdown
  <2>1. SUFFICES ASSUME shutdownAt = "done", NEW c \in connOpen
                 PROVE  Workers = {} /\ c \in In("accepted")
    BY <1>1 DEF NothingSurvivesShutdown, DemuxInv
  <2>2. Workers = {} /\ c \in Clients /\ connAt[c] \in Places
    BY <1>1, <2>1 DEF DemuxInv
  <2>3. connAt[c] \notin {"new", "over"} /\ connAt[c] \notin ServedPlaces
    BY <1>1, <2>1 DEF DemuxInv, ShutdownPast
  <2> QED
    BY <2>2, <2>3 DEF Places, ServedPlaces, Workers, In
<1> QED
  BY DemuxInvHolds, <1>1, PTL

-----------------------------------------------------------------------------
(* Facts about sequences and about the greatest element of a set *)

Below == {p \in Nat \X Nat : p[1] < p[2]}

\* Every set of naturals has a least element.
LEMMA BelowIsWellFounded == IsWellFoundedOn(Below, Nat)
  BY NatLessThanWellFounded, Zenon DEF OpToRel, Below

\* Max picks a member: the positions ReadFile picks from are bounded.
LEMMA MaxIsMember ==
    ASSUME NEW n \in Nat, NEW S \in SUBSET (1..n), S # {}
    PROVE  Max(S) \in S
<1>1. PICK T : T = {n - i : i \in S}
  OBVIOUS
<1>2. PICK i \in S : TRUE
  OBVIOUS
<1>3. T \subseteq Nat
  BY <1>1
<1>4. n - i \in T
  BY <1>1
<1>5. PICK t \in T : \A u \in T : ~(<<u, t>> \in Below)
  BY <1>3, <1>4, BelowIsWellFounded, WFMin
<1>6. \A u \in T : ~(u < t)
  BY <1>3, <1>5 DEF Below
<1>7. PICK m \in S : t = n - m
  BY <1>1
<1>8. \A y \in S : m >= y
  <2> TAKE y \in S
  <2>1. n - y \in T
    BY <1>1
  <2> QED BY <1>6, <1>7, <2>1
<1> QED BY <1>8 DEF Max

\* What is at a position of a list is in the list.
LEMMA PositionIsMember ==
    ASSUME NEW S, NEW s \in Seq(S), NEW j \in 1..Len(s)
    PROVE  s[j] \in ToSet(s)
BY DEF ToSet

\* What an append adds to the members of a sequence.
LEMMA AppendMembers ==
    ASSUME NEW S, NEW s \in Seq(S), NEW e \in S
    PROVE  /\ Append(s, e) \in Seq(S)
           /\ ToSet(Append(s, e)) = ToSet(s) \cup {e}
           /\ Len(Append(s, e)) = Len(s) + 1
           /\ \A j \in 1..Len(s) : Append(s, e)[j] = s[j]
           /\ Append(s, e)[Len(s) + 1] = e
<1>1. /\ Append(s, e) \in Seq(S)
      /\ Len(Append(s, e)) = Len(s) + 1
      /\ \A j \in 1..Len(s) : Append(s, e)[j] = s[j]
      /\ Append(s, e)[Len(s) + 1] = e
  OBVIOUS
<1>2. \A x : x \in ToSet(Append(s, e)) <=> x \in ToSet(s) \cup {e}
  <2> TAKE x
  <2>1. ASSUME x \in ToSet(s) PROVE x \in ToSet(Append(s, e))
    BY <1>1, <2>1 DEF ToSet
  <2>2. e \in ToSet(Append(s, e))
    BY <1>1 DEF ToSet
  <2>3. ASSUME x \in ToSet(Append(s, e)) PROVE x \in ToSet(s) \cup {e}
    BY <1>1, <2>3 DEF ToSet
  <2> QED BY <2>1, <2>2, <2>3
<1> QED BY <1>1, <1>2

\* What taking the head leaves.
LEMMA TailMembers ==
    ASSUME NEW S, NEW s \in Seq(S), s # <<>>
    PROVE  /\ Tail(s) \in Seq(S) /\ Head(s) \in S
           /\ ToSet(s) = {Head(s)} \cup ToSet(Tail(s))
           /\ Len(Tail(s)) = Len(s) - 1 /\ Len(s) \in Nat \ {0}
           /\ \A j \in 1..Len(Tail(s)) : Tail(s)[j] = s[j + 1]
<1>1. /\ Tail(s) \in Seq(S) /\ Head(s) \in S /\ Head(s) = s[1]
      /\ Len(Tail(s)) = Len(s) - 1 /\ Len(s) \in Nat \ {0}
      /\ \A j \in 1..Len(Tail(s)) : Tail(s)[j] = s[j + 1]
  OBVIOUS
<1>2. \A x : x \in ToSet(s) <=> x \in {Head(s)} \cup ToSet(Tail(s))
  <2> TAKE x
  <2>1. ASSUME x \in ToSet(Tail(s)) PROVE x \in ToSet(s)
    BY <1>1, <2>1 DEF ToSet
  <2>2. Head(s) \in ToSet(s)
    BY <1>1 DEF ToSet
  <2>3. ASSUME x \in ToSet(s) PROVE x \in {Head(s)} \cup ToSet(Tail(s))
    <3>1. PICK i \in 1..Len(s) : x = s[i]
      BY <2>3 DEF ToSet
    <3>2. CASE i = 1
      BY <1>1, <3>1, <3>2
    <3>3. CASE i # 1
      <4>1. PICK j \in 1..Len(Tail(s)) : j + 1 = i
        BY <1>1, <3>1, <3>3
      <4>2. x = Tail(s)[j]
        BY <1>1, <3>1, <4>1
      <4>3. Tail(s)[j] \in ToSet(Tail(s))
        BY <1>1, <4>1, PositionIsMember
      <4> QED BY <4>2, <4>3
    <3> QED BY <3>2, <3>3
  <2> QED BY <2>1, <2>2, <2>3
<1> QED BY <1>1, <1>2

\* Pruning keeps files that were there, and always the one just opened.
LEMMA PruneKeepsNewest ==
    ASSUME NEW s \in Seq(LogFiles), NEW f \in LogFiles
    PROVE  /\ NewestFirst(Append(s, f)) \in Seq(LogFiles)
           /\ ToSet(NewestFirst(Append(s, f))) \subseteq ToSet(s) \cup {f}
           /\ f \in ToSet(NewestFirst(Append(s, f)))
<1>1. PICK t \in Seq(LogFiles) : t = Append(s, f)
  BY AppendMembers
<1>2. /\ Len(t) \in Nat \ {0} /\ t[Len(t)] = f
      /\ ToSet(t) = ToSet(s) \cup {f}
  BY <1>1, AppendMembers
<1>3. PICK m \in 1..Len(t) : NewestFirst(t) = SubSeq(t, m, Len(t))
  <2>1. CASE Len(t) > RetainCount
    <3>1. Len(t) - RetainCount + 1 \in 1..Len(t)
      BY <1>2, <2>1, LogAssumption
    <3> QED BY <2>1, <3>1 DEF NewestFirst
  <2>2. CASE ~(Len(t) > RetainCount)
    BY <1>2, <2>2 DEF NewestFirst
  <2> QED BY <2>1, <2>2
<1>4. /\ SubSeq(t, m, Len(t)) \in Seq(LogFiles)
      /\ Len(SubSeq(t, m, Len(t))) = Len(t) - m + 1
      /\ \A i \in 1..(Len(t) - m + 1) : SubSeq(t, m, Len(t))[i] = t[m + i - 1]
  BY <1>2
<1>5. ToSet(SubSeq(t, m, Len(t))) \subseteq ToSet(t)
  BY <1>2, <1>4 DEF ToSet
<1>6. f \in ToSet(SubSeq(t, m, Len(t)))
  <2>1. Len(t) - m + 1 \in 1..Len(SubSeq(t, m, Len(t)))
    BY <1>2, <1>4
  <2>2. SubSeq(t, m, Len(t))[Len(t) - m + 1] = f
    <3>1. m + (Len(t) - m + 1) - 1 = Len(t) /\ Len(t) - m + 1 \in 1..(Len(t) - m + 1)
      BY <1>2
    <3> QED BY <1>2, <1>4, <3>1
  <2>3. SubSeq(t, m, Len(t))[Len(t) - m + 1] \in ToSet(SubSeq(t, m, Len(t)))
    BY <1>4, <2>1, PositionIsMember
  <2> QED BY <2>2, <2>3
<1> QED BY <1>1, <1>2, <1>3, <1>4, <1>5, <1>6

-----------------------------------------------------------------------------
(* The read barrier of the request log *)

LoopType == [at : LoopPhases, next : LoopPhases \ {"flush", "insert"}, pending : Nat,
             waiters : SUBSET Readers]

LogShape ==
    /\ logQueue \in Seq(LogEntries) /\ batch \in Seq(LogEntries) /\ dbFiles \in Seq(LogFiles)
    /\ flushLoop \in LoopType
    /\ dbRows \in [LogFiles -> SUBSET LogEntries]
    /\ flushReq \subseteq Readers
    /\ queries \in [Readers -> Query]
    /\ activeDB = NoFile \/ activeDB \in ToSet(dbFiles)
    /\ LoopAt("insert") => activeDB # NoFile

\* The loop drains the queue for its waiters, or has done so; a flush on the way
\* does not count as a phase of its own.
Flushing == flushLoop.at \in {"flush", "insert"}
LoopIn(phase) == LoopAt(phase) \/ (Flushing /\ flushLoop.next = phase)

\* Until Stop, those who wait at the barrier are those who asked for it, once.
WaitersWait ==
    /\ \A r \in flushLoop.waiters \cup flushReq : QueryAt(r, "waiting")
    /\ flushLoop.waiters \cap flushReq = {}
    /\ flushLoop.waiters # {} =>
         \/ LoopAt("collect") \/ LoopAt("snapshot") \/ LoopIn("drain") \/ LoopIn("release")
    /\ LoopAt("release") => batch = <<>>

ReadableRows(r) == UNION {dbRows[f] : f \in ToSet(dbFiles) \cap queries[r].files}

\* Where the entries due to a query may be, phase by phase.
DueThere(r) ==
    LET q == queries[r] IN
    /\ q.at \in {"barrier", "waiting"} => q.due \subseteq InLog \cup gone
    /\ q.at = "released" => q.due \subseteq Stored \cup gone
    /\ q.at = "read" => q.due \subseteq q.seen \cup gone \cup ReadableRows(r)
    /\ q.at = "done" => q.due \subseteq q.seen \cup gone

\* The loop's count of pending entries covers what is due to its waiters.
DueDrained(r) ==
    r \in flushLoop.waiters =>
      /\ LoopIn("drain") =>
           \A j \in 1..Len(logQueue) : logQueue[j] \in queries[r].due => j <= flushLoop.pending
      /\ LoopIn("release") => queries[r].due \cap ToSet(logQueue) = {}

BarrierInv == WaitersWait /\ \A r \in Readers : DueThere(r) /\ DueDrained(r)

LogInv == LogShape /\ (~logStopped => BarrierInv)

\* An empty log.
LEMMA LogInvInit == LogInit => LogInv
<1> SUFFICES ASSUME LogInit PROVE LogInv
  OBVIOUS
<1>1. PICK f \in LogFiles : dbFiles = <<f>> /\ activeDB = f
  BY DEF LogInit
<1>2. LogShape
  <2>1. dbFiles \in Seq(LogFiles) /\ activeDB \in ToSet(dbFiles)
    BY <1>1 DEF ToSet
  <2>2. queries \in [Readers -> Query]
    BY DEF LogInit, NoQuery, Query, QueryPhases
  <2>3. flushLoop \in LoopType /\ ~LoopAt("insert")
    BY DEF LogInit, LoopType, LoopPhases, LoopAt
  <2> QED BY <2>1, <2>2, <2>3 DEF LogInit, LogShape
<1>3. WaitersWait
  BY DEF LogInit, WaitersWait, LoopAt
<1>4. \A r \in Readers : DueThere(r) /\ DueDrained(r)
  BY DEF LogInit, NoQuery, DueThere, DueDrained
<1> QED BY <1>2, <1>3, <1>4 DEF LogInv, BarrierInv

\* A step that keeps the query and loses nothing that is due to it.
LEMMA DueStays ==
    ASSUME NEW r \in Readers, DueThere(r), queries'[r] = queries[r],
           \A x \in queries[r].due :
             /\ x \in gone => x \in gone'
             /\ x \in InLog => x \in InLog' \cup gone'
             /\ x \in Stored => x \in Stored' \cup gone'
             /\ x \in ReadableRows(r) => x \in ReadableRows(r)' \cup gone'
    PROVE  DueThere(r)'
BY DEF DueThere

\* The same when the store does not change and the queries' files do not.
LEMMA StoreStays ==
    ASSUME UNCHANGED <<dbFiles, dbRows>>
    PROVE  /\ Stored' = Stored
           /\ \A r \in Readers : queries'[r] = queries[r] => ReadableRows(r)' = ReadableRows(r)
BY DEF Stored, ReadableRows

\* A step of the loop alone, which leaves queue, batch and store as they are.
LEMMA LoopOnly ==
    ASSUME LogInv, UNCHANGED <<logQueue, batch, store, queries, logStopped>>,
           flushLoop' \in LoopType, flushReq' \subseteq Readers,
           LoopAt("insert")' => activeDB # NoFile,
           ~logStopped => WaitersWait' /\ \A r \in Readers : DueDrained(r)'
    PROVE  LogInv'
<1>1. LogShape'
  BY DEF LogInv, LogShape, store
<1>2. ASSUME ~logStopped, NEW r \in Readers PROVE DueThere(r)'
  <2>1. DueThere(r)
    BY <1>2 DEF LogInv, BarrierInv
  <2>2. InLog' = InLog /\ Stored' = Stored /\ ReadableRows(r)' = ReadableRows(r) /\ gone' = gone
    BY StoreStays DEF store, InLog
  <2> QED BY <2>1, <2>2 DEF DueThere
<1> QED BY <1>1, <1>2 DEF LogInv, BarrierInv

\* Sections of the loop exclude one another.
LEMMA LoopPlaces ==
    ASSUME LogInv
    PROVE  /\ flushLoop \in LoopType
           /\ \A a \in {"select", "collect", "snapshot", "final"} :
                LoopAt(a) => ~LoopIn("drain") /\ ~LoopIn("release") /\ ~Flushing
           /\ ~(LoopIn("drain") /\ LoopIn("release"))
BY DEF LogInv, LogShape, LoopIn, LoopAt, Flushing, LoopType

\* An entry is queued, or dropped at once.
LEMMA EmitRequestLogKeeps ==
    ASSUME LogInv, NEW e \in LogEntries, EmitRequestLog(e)
    PROVE  LogInv'
<1>1. /\ logQueue' \in Seq(LogEntries)
      /\ ToSet(logQueue') = ToSet(logQueue) \cup {e}
      /\ Len(logQueue') = Len(logQueue) + 1 /\ Len(logQueue) \in Nat
      /\ \A j \in 1..Len(logQueue) : logQueue'[j] = logQueue[j]
      /\ logQueue'[Len(logQueue) + 1] = e
  BY AppendMembers DEF LogInv, LogShape, EmitRequestLog
<1>2. LogShape'
  BY <1>1 DEF LogInv, LogShape, EmitRequestLog, LoopAt
<1>3. CASE logStopped
  BY <1>2, <1>3 DEF LogInv, EmitRequestLog
<1>4. CASE ~logStopped
  <2>1. WaitersWait'
    BY <1>4 DEF LogInv, BarrierInv, WaitersWait, EmitRequestLog, LoopAt, LoopIn, Flushing, QueryAt
  <2>2. ASSUME NEW r \in Readers PROVE DueThere(r)'
    <3>1. Stored' = Stored /\ ReadableRows(r)' = ReadableRows(r) /\ gone' = gone \ {e}
      BY StoreStays DEF EmitRequestLog
    <3>2. InLog' = InLog \cup {e}
      BY <1>1, <3>1 DEF InLog, EmitRequestLog
    <3>3. e \notin queries[r].due /\ queries' = queries /\ DueThere(r)
      BY <1>4 DEF EmitRequestLog, LogInv, BarrierInv
    <3> QED BY <3>1, <3>2, <3>3, DueStays
  <2>3. ASSUME NEW r \in Readers PROVE DueDrained(r)'
    <3>1. /\ DueDrained(r) /\ e \notin queries[r].due
          /\ queries' = queries /\ flushLoop' = flushLoop
      BY <1>4 DEF EmitRequestLog, LogInv, BarrierInv
    <3>2. LoopIn("drain")' = LoopIn("drain") /\ LoopIn("release")' = LoopIn("release")
      BY <3>1 DEF LoopIn, LoopAt, Flushing
    <3>3. \A j \in 1..Len(logQueue') : logQueue'[j] \in queries[r].due =>
            j \in 1..Len(logQueue) /\ logQueue[j] \in queries[r].due
      BY <1>1, <3>1
    <3> QED BY <1>1, <3>1, <3>2, <3>3 DEF DueDrained
  <2> QED BY <1>2, <2>1, <2>2, <2>3 DEF LogInv, BarrierInv
<1> QED BY <1>3, <1>4

\* Collecting an entry moves it from the queue to the batch.
LEMMA CollectKeeps ==
    ASSUME LogInv, NEW phase \in {"select", "drain", "final"}, NEW left \in Nat,
           LoopAt(phase), Collect(phase, left),
           phase = "drain" => left + 1 = flushLoop.pending
    PROVE  LogInv'
<1>1. PICK h \in LogEntries :
        /\ h = Head(logQueue) /\ logQueue # <<>>
        /\ logQueue' \in Seq(LogEntries)
        /\ ToSet(logQueue) = ToSet(logQueue') \cup {h}
        /\ Len(logQueue') = Len(logQueue) - 1 /\ Len(logQueue) \in Nat \ {0}
        /\ \A j \in 1..Len(logQueue') : logQueue'[j] = logQueue[j + 1]
  BY TailMembers DEF LogInv, LogShape, Collect
<1>2. batch' \in Seq(LogEntries) /\ ToSet(batch') = ToSet(batch) \cup {h}
  BY <1>1, AppendMembers DEF LogInv, LogShape, Collect
<1>3. /\ flushLoop' \in LoopType /\ flushLoop'.waiters = flushLoop.waiters
      /\ flushLoop'.pending = left /\ flushLoop'.next = phase
      /\ flushLoop'.at \in {"flush", phase}
  BY LoopPlaces DEF LoopType, LoopPhases, Collect
<1>4. LogShape'
  BY <1>1, <1>2, <1>3 DEF LogInv, LogShape, Collect, LoopAt, store
<1>5. CASE logStopped
  BY <1>4, <1>5 DEF LogInv, Collect
<1>6. CASE ~logStopped
  <2>1. phase # "drain" => flushLoop.waiters = {}
    BY <1>6, LoopPlaces DEF LogInv, BarrierInv, WaitersWait, LoopAt
  <2>2. LoopIn(phase)' /\ (\A a \in {"drain", "release"} : LoopIn(a)' => a = phase)
    BY <1>3 DEF LoopIn, LoopAt, Flushing
  <2>3. WaitersWait'
    BY <1>3, <1>6, <2>1, <2>2 DEF LogInv, BarrierInv, WaitersWait, Collect, LoopAt, QueryAt
  <2>4. ASSUME NEW r \in Readers PROVE DueThere(r)'
    <3>1. Stored' = Stored /\ ReadableRows(r)' = ReadableRows(r) /\ gone' = gone
      BY StoreStays DEF Collect, store
    <3>2. InLog' = InLog
      BY <1>1, <1>2, <3>1 DEF InLog
    <3> QED BY <1>6, <3>1, <3>2 DEF DueThere, LogInv, BarrierInv, Collect
  <2>5. ASSUME NEW r \in Readers, r \in flushLoop.waiters PROVE DueDrained(r)'
    <3>1. phase = "drain" /\ LoopIn("drain") /\ DueDrained(r) /\ queries' = queries
      BY <1>6, <2>1, <2>5 DEF LoopIn, Collect, LogInv, BarrierInv
    <3>2. \A j \in 1..Len(logQueue) : logQueue[j] \in queries[r].due => j <= left + 1
      BY <2>5, <3>1 DEF DueDrained
    <3>3. \A j \in 1..Len(logQueue') : logQueue'[j] \in queries[r].due => j <= left
      BY <1>1, <3>2
    <3> QED BY <1>3, <2>2, <3>1, <3>3 DEF DueDrained
  <2>6. ASSUME NEW r \in Readers PROVE DueDrained(r)'
    BY <1>3, <2>5 DEF DueDrained
  <2> QED BY <1>4, <2>3, <2>4, <2>6 DEF LogInv, BarrierInv
<1> QED BY <1>5, <1>6

\* Where a flush may be due; before a release nothing due is left in the queue.
LEMMA FlushThenKeeps ==
    ASSUME LogInv, NEW phase \in {"select", "release", "ended"}, FlushThen(phase),
           \/ phase # "release" /\ (LoopAt("select") \/ LoopAt("final"))
           \/ phase = "release" /\ LoopAt("drain") /\ flushLoop.pending = 0
    PROVE  LogInv'
<1>1. /\ flushLoop' \in LoopType /\ flushLoop'.waiters = flushLoop.waiters
      /\ flushLoop'.next = phase
      /\ flushLoop'.at \in {"flush", phase}
      /\ flushLoop'.at = "release" => batch = <<>>
  BY LoopPlaces DEF LoopType, LoopPhases, FlushThen
<1>2. LoopIn(phase)' /\ (\A a \in {"drain", "release"} : LoopIn(a)' => a = phase)
  BY <1>1 DEF LoopIn, LoopAt, Flushing
<1>3. ASSUME ~logStopped PROVE WaitersWait' /\ \A r \in Readers : DueDrained(r)'
  <2>1. phase # "release" => flushLoop.waiters = {}
    BY <1>3, LoopPlaces DEF LogInv, BarrierInv, WaitersWait, LoopAt
  <2>2. WaitersWait'
    BY <1>1, <1>2, <1>3, <2>1 DEF LogInv, BarrierInv, WaitersWait, FlushThen, LoopAt, QueryAt
  <2>3. ASSUME NEW r \in Readers, r \in flushLoop.waiters PROVE DueDrained(r)'
    <3>1. phase = "release" /\ LoopIn("drain") /\ DueDrained(r) /\ flushLoop.pending = 0
      BY <1>3, <2>1, <2>3 DEF LoopIn, LogInv, BarrierInv
    <3>2. \A j \in 1..Len(logQueue) : logQueue[j] \notin queries[r].due
      <4> TAKE j \in 1..Len(logQueue)
      <4>1. j \in Nat /\ j > 0
        BY DEF LogInv, LogShape
      <4> QED BY <2>3, <3>1, <4>1 DEF DueDrained
    <3>3. queries[r].due \cap ToSet(logQueue) = {}
      BY <3>2 DEF ToSet, LogInv, LogShape
    <3> QED BY <1>2, <3>1, <3>3 DEF DueDrained, FlushThen
  <2> QED BY <1>1, <2>2, <2>3 DEF DueDrained
<1>4. LoopAt("insert")' => activeDB # NoFile
  BY <1>1 DEF LoopAt
<1> QED BY <1>1, <1>3, <1>4, LoopOnly DEF FlushThen, LogInv, LogShape

\* The loop takes a barrier that was offered.
LEMMA TakeWaiterKeeps ==
    ASSUME LogInv, NEW r \in Readers, TakeWaiter(r)
    PROVE  LogInv'
<1>1. /\ flushLoop' \in LoopType /\ flushLoop'.at = "collect"
      /\ flushLoop'.waiters = flushLoop.waiters \cup {r}
      /\ flushReq' = flushReq \ {r} /\ r \in flushReq
  BY LoopPlaces DEF LoopType, LoopPhases, TakeWaiter
<1>2. ~LoopIn("drain")' /\ ~LoopIn("release")' /\ ~LoopAt("release")' /\ ~LoopAt("insert")'
      /\ LoopAt("collect")'
  BY <1>1 DEF LoopIn, LoopAt, Flushing
<1>3. ASSUME ~logStopped PROVE WaitersWait' /\ \A q \in Readers : DueDrained(q)'
  <2>1. WaitersWait
    BY <1>3 DEF LogInv, BarrierInv
  <2>2. WaitersWait'
    BY <1>1, <1>2, <2>1 DEF WaitersWait, TakeWaiter, QueryAt
  <2> QED BY <1>2, <2>2 DEF DueDrained
<1> QED BY <1>1, <1>2, <1>3, LoopOnly DEF TakeWaiter, LogInv, LogShape

\* No more barriers are taken before the flush.
LEMMA WaitersCollectedKeeps ==
    ASSUME LogInv, WaitersCollected
    PROVE  LogInv'
<1>1. /\ flushLoop' \in LoopType /\ flushLoop'.at = "snapshot"
      /\ flushLoop'.waiters = flushLoop.waiters /\ flushReq' = flushReq
  BY LoopPlaces DEF LoopType, LoopPhases, WaitersCollected, LoopGoto
<1>2. ~LoopIn("drain")' /\ ~LoopIn("release")' /\ ~LoopAt("release")' /\ ~LoopAt("insert")'
      /\ LoopAt("snapshot")'
  BY <1>1 DEF LoopIn, LoopAt, Flushing
<1>3. ASSUME ~logStopped PROVE WaitersWait' /\ \A q \in Readers : DueDrained(q)'
  <2>1. WaitersWait
    BY <1>3 DEF LogInv, BarrierInv
  <2>2. WaitersWait'
    BY <1>1, <1>2, <2>1 DEF WaitersWait, WaitersCollected, QueryAt
  <2> QED BY <1>2, <2>2 DEF DueDrained
<1> QED BY <1>1, <1>2, <1>3, LoopOnly DEF WaitersCollected, LogInv, LogShape

\* The flush takes the queue's length as what it will drain.
LEMMA SnapshotKeeps ==
    ASSUME LogInv, SnapshotPending
    PROVE  LogInv'
<1>1. Len(logQueue) \in Nat
  BY DEF LogInv, LogShape
<1>2. /\ flushLoop' \in LoopType /\ flushLoop'.at = "drain"
      /\ flushLoop'.waiters = flushLoop.waiters /\ flushReq' = flushReq
      /\ flushLoop'.pending = Len(logQueue)
  BY <1>1, LoopPlaces DEF LoopType, LoopPhases, SnapshotPending
<1>3. LoopIn("drain")' /\ ~LoopIn("release")' /\ ~LoopAt("release")' /\ ~LoopAt("insert")'
  BY <1>2 DEF LoopIn, LoopAt, Flushing
<1>4. ASSUME ~logStopped PROVE WaitersWait' /\ \A q \in Readers : DueDrained(q)'
  <2>1. WaitersWait
    BY <1>4 DEF LogInv, BarrierInv
  <2>2. WaitersWait'
    BY <1>2, <1>3, <2>1 DEF WaitersWait, SnapshotPending, QueryAt
  <2>3. \A j \in 1..Len(logQueue') : j <= flushLoop'.pending
    BY <1>1, <1>2 DEF SnapshotPending
  <2> QED BY <1>3, <2>2, <2>3 DEF DueDrained
<1> QED BY <1>2, <1>3, <1>4, LoopOnly DEF SnapshotPending, LogInv, LogShape

\* The released queries have what is due to them in the files.
LEMMA ReleaseKeeps ==
    ASSUME LogInv, ReleaseWaiters
    PROVE  LogInv'
<1>1. /\ flushLoop' \in LoopType /\ flushLoop'.at = "select" /\ flushLoop'.waiters = {}
  BY LoopPlaces DEF LoopType, LoopPhases, ReleaseWaiters
<1>2. ASSUME NEW r \in Readers
      PROVE  /\ queries[r] \in Query /\ queries'[r] \in Query
             /\ queries'[r].due = queries[r].due /\ queries'[r].seen = queries[r].seen
             /\ queries'[r].files = queries[r].files
             /\ IF r \in flushLoop.waiters /\ queries[r].at = "waiting"
                THEN queries'[r].at = "released" ELSE queries'[r] = queries[r]
  BY DEF ReleaseWaiters, LogInv, LogShape, Query, QueryPhases
<1>3. queries' \in [Readers -> Query]
  BY <1>2 DEF ReleaseWaiters
<1>4. LogShape'
  BY <1>1, <1>3 DEF LogInv, LogShape, ReleaseWaiters, LoopAt, store
<1>5. CASE logStopped
  BY <1>4, <1>5 DEF LogInv, ReleaseWaiters
<1>6. CASE ~logStopped
  <2>1. WaitersWait'
    BY <1>1, <1>2, <1>6 DEF LogInv, LogShape, BarrierInv, WaitersWait, ReleaseWaiters, LoopAt, QueryAt
  <2>2. \A r \in Readers : DueDrained(r)'
    BY <1>1 DEF DueDrained
  <2>3. ASSUME NEW r \in Readers PROVE DueThere(r)'
    <3>1. Stored' = Stored /\ gone' = gone /\ InLog' = InLog
      BY DEF Stored, InLog, ReleaseWaiters, store
    <3>2. ReadableRows(r)' = ReadableRows(r)
      BY <1>2 DEF ReadableRows, ReleaseWaiters, store
    <3>3. DueThere(r)
      BY <1>6 DEF LogInv, BarrierInv
    <3>4. CASE r \in flushLoop.waiters /\ queries[r].at = "waiting"
      <4>1. batch = <<>> /\ queries[r].due \cap ToSet(logQueue) = {}
        BY <1>6, <3>4 DEF LogInv, BarrierInv, WaitersWait, DueDrained, LoopIn, ReleaseWaiters
      <4>2. ToSet(batch) = {}
        BY <4>1 DEF ToSet
      <4>3. queries[r].due \subseteq Stored \cup gone
        BY <3>3, <3>4, <4>1, <4>2 DEF DueThere, InLog
      <4> QED BY <1>2, <3>1, <3>4, <4>3 DEF DueThere
    <3>5. CASE ~(r \in flushLoop.waiters /\ queries[r].at = "waiting")
      BY <1>2, <3>1, <3>2, <3>3, <3>5 DEF DueThere
    <3> QED BY <3>4, <3>5
  <2> QED BY <1>4, <2>1, <2>2, <2>3 DEF LogInv, BarrierInv
<1> QED BY <1>5, <1>6

\* Without a rotation nothing moves.
LEMMA NoRotationKeeps ==
    ASSUME LogInv, NoRotation
    PROVE  LogInv'
<1>1. /\ flushLoop' \in LoopType /\ flushLoop'.at = "insert" /\ flushLoop.at = "flush"
      /\ flushLoop'.waiters = flushLoop.waiters /\ flushLoop'.next = flushLoop.next
      /\ flushLoop'.pending = flushLoop.pending
      /\ activeDB # NoFile
  BY LoopPlaces DEF LoopType, LoopPhases, NoRotation, LoopGoto, LoopAt
<1>2. /\ LoopIn("drain")' = LoopIn("drain") /\ LoopIn("release")' = LoopIn("release")
  BY <1>1 DEF LoopIn, LoopAt, Flushing
<1>3. ASSUME ~logStopped PROVE WaitersWait' /\ \A q \in Readers : DueDrained(q)'
  BY <1>1, <1>2, <1>3 DEF LogInv, BarrierInv, WaitersWait, DueDrained, NoRotation, QueryAt, LoopAt
<1> QED BY <1>1, <1>3, LoopOnly DEF NoRotation, LogInv, LogShape

\* After Stop only the shape is left to keep.
LEMMA StopLoopKeeps ==
    ASSUME LogInv, StopLoop
    PROVE  LogInv'
<1>1. flushLoop' \in LoopType /\ ~LoopAt("insert")'
  BY LoopPlaces DEF LoopType, LoopPhases, StopLoop, LoopGoto, LoopAt
<1> QED BY <1>1, LoopOnly DEF StopLoop, LogInv, LogShape

\* The end of an insert, failed or not: the loop goes on where it was and the
\* batch is empty; what is due is in the files or gone.
LEMMA BatchDoneKeeps ==
    ASSUME LogInv, Flushing, BatchDone, LogShape',
           UNCHANGED <<logQueue, flushReq, queries, logStopped>>,
           gone \cup ToSet(batch) \subseteq gone' \cup Stored', gone \subseteq gone',
           \A g \in ToSet(dbFiles) : g \in ToSet(dbFiles') /\ dbRows[g] \subseteq dbRows'[g]
    PROVE  LogInv'
<1>1. /\ flushLoop'.at = flushLoop.next /\ flushLoop'.next = flushLoop.next
      /\ flushLoop'.waiters = flushLoop.waiters /\ flushLoop'.pending = flushLoop.pending
      /\ flushLoop.next \notin {"flush", "insert"} /\ batch' = <<>>
  BY LoopPlaces DEF LoopType, LoopPhases, BatchDone, LoopGoto
<1>2. /\ LoopIn("drain")' = LoopIn("drain") /\ LoopIn("release")' = LoopIn("release")
  BY <1>1 DEF LoopIn, LoopAt, Flushing
<1>3. Stored \subseteq Stored'
  BY DEF Stored
<1>4. \A r \in Readers : ReadableRows(r) \subseteq ReadableRows(r)'
  BY DEF ReadableRows
<1>5. CASE logStopped
  BY <1>5 DEF LogInv
<1>6. CASE ~logStopped
  <2>1. WaitersWait'
    BY <1>1, <1>2, <1>6 DEF LogInv, BarrierInv, WaitersWait, QueryAt, LoopAt, Flushing
  <2>2. ASSUME NEW r \in Readers PROVE DueDrained(r)'
    BY <1>1, <1>2, <1>6 DEF LogInv, BarrierInv, DueDrained
  <2>3. ASSUME NEW r \in Readers PROVE DueThere(r)'
    <3>1. InLog \subseteq InLog' \cup gone'
      BY <1>3 DEF InLog
    <3>2. DueThere(r) /\ queries'[r] = queries[r]
      BY <1>6 DEF LogInv, BarrierInv
    <3> QED BY <1>3, <1>4, <3>1, <3>2, DueStays
  <2> QED BY <2>1, <2>2, <2>3 DEF LogInv, BarrierInv
<1> QED BY <1>5, <1>6

\* A batch goes into the current file.
LEMMA InsertBatchKeeps ==
    ASSUME LogInv, InsertBatch
    PROVE  LogInv'
<1>1. PICK rows \in SUBSET ToSet(batch) :
        /\ dbRows' = [dbRows EXCEPT ![activeDB] = @ \cup rows]
        /\ gone' = gone \cup (ToSet(batch) \ rows)
  BY DEF InsertBatch
<1>2. activeDB \in ToSet(dbFiles) /\ activeDB \in LogFiles
  BY DEF LogInv, LogShape, InsertBatch, ToSet
<1>3. ToSet(batch) \subseteq LogEntries
  BY DEF LogInv, LogShape, ToSet
<1>4. /\ dbRows' \in [LogFiles -> SUBSET LogEntries]
      /\ dbRows'[activeDB] = dbRows[activeDB] \cup rows
      /\ \A g \in LogFiles : dbRows[g] \subseteq dbRows'[g]
  BY <1>1, <1>2, <1>3 DEF LogInv, LogShape
<1>5. ToSet(dbFiles) \subseteq LogFiles
  BY DEF LogInv, LogShape, ToSet
<1>6. flushLoop' \in LoopType /\ ~LoopAt("insert")' /\ batch' = <<>>
  BY LoopPlaces DEF LoopType, LoopPhases, InsertBatch, BatchDone, LoopGoto, LoopAt
<1>7. LogShape'
  BY <1>4, <1>6 DEF LogInv, LogShape, InsertBatch
<1>8. gone \cup ToSet(batch) \subseteq gone' \cup Stored'
  BY <1>1, <1>2, <1>4 DEF Stored, InsertBatch
<1>9. Flushing
  BY DEF InsertBatch, LoopAt, Flushing
<1> QED BY <1>1, <1>4, <1>5, <1>7, <1>8, <1>9, BatchDoneKeeps DEF InsertBatch

\* A failed rotation leaves the files as they are.
LEMMA RotateFailsKeeps ==
    ASSUME LogInv, RotateFails
    PROVE  LogInv'
<1>1. ToSet(dbFiles) \subseteq ToSet(dbFiles') /\ dbFiles' \in Seq(LogFiles)
  <2>1. CASE dbFiles' = dbFiles
    BY <2>1 DEF LogInv, LogShape
  <2>2. CASE \E f \in Fresh : dbFiles' = Append(dbFiles, f)
    <3>1. PICK f \in LogFiles : dbFiles' = Append(dbFiles, f)
      BY <2>2 DEF Fresh
    <3> QED BY <3>1, AppendMembers DEF LogInv, LogShape
  <2> QED BY <2>1, <2>2 DEF RotateFails
<1>2. flushLoop' \in LoopType /\ ~LoopAt("insert")' /\ batch' = <<>>
  BY LoopPlaces DEF LoopType, LoopPhases, RotateFails, BatchDone, LoopGoto, LoopAt
<1>3. LogShape'
  BY <1>1, <1>2 DEF LogInv, LogShape, RotateFails
<1>4. Flushing
  BY DEF RotateFails, LoopAt, Flushing
<1> QED BY <1>1, <1>3, <1>4, BatchDoneKeeps DEF RotateFails

\* A rotation opens a file no reader knows; what it prunes is gone.
LEMMA RotateDBKeeps ==
    ASSUME LogInv, NEW f \in LogFiles, RotateDB(f)
    PROVE  LogInv'
<1>1. PICK kept \in Seq(LogFiles) : kept = NewestFirst(Append(dbFiles, f))
  BY PruneKeepsNewest DEF LogInv, LogShape
<1>2. ToSet(kept) \subseteq ToSet(dbFiles) \cup {f} /\ f \in ToSet(kept)
  BY <1>1, PruneKeepsNewest DEF LogInv, LogShape
<1>3. /\ f \notin ToSet(dbFiles) /\ \A r \in Readers : f \notin queries[r].files
  BY DEF RotateDB, Fresh
<1>4. /\ dbFiles' = kept /\ dbRows' \in [LogFiles -> SUBSET LogEntries]
      /\ \A g \in ToSet(kept) \ {f} : g \in LogFiles => dbRows'[g] = dbRows[g]
      /\ gone' = gone \cup UNION {dbRows[g] : g \in ToSet(dbFiles) \ ToSet(kept)}
  BY <1>1 DEF RotateDB, LogInv, LogShape
<1>5. ToSet(dbFiles) \subseteq LogFiles
  BY DEF LogInv, LogShape, ToSet
<1>6. \A g \in ToSet(dbFiles) : \/ dbRows[g] \subseteq gone'
                                \/ g \in ToSet(dbFiles') /\ dbRows'[g] = dbRows[g]
  BY <1>3, <1>4, <1>5
<1>7. Stored \subseteq Stored' \cup gone'
  BY <1>6 DEF Stored
<1>8. /\ flushLoop' \in LoopType /\ flushLoop'.at = "insert" /\ flushLoop.at = "flush"
      /\ flushLoop'.waiters = flushLoop.waiters /\ flushLoop'.next = flushLoop.next
      /\ flushLoop'.pending = flushLoop.pending
  BY LoopPlaces DEF LoopType, LoopPhases, RotateDB, LoopGoto, LoopAt
<1>9. /\ LoopIn("drain")' = LoopIn("drain") /\ LoopIn("release")' = LoopIn("release")
  BY <1>8 DEF LoopIn, LoopAt, Flushing
<1>10. LogShape'
  BY <1>2, <1>4, <1>8, LogAssumption DEF LogInv, LogShape, RotateDB
<1>11. CASE logStopped
  BY <1>10, <1>11 DEF LogInv, RotateDB
<1>12. CASE ~logStopped
  <2>1. WaitersWait' /\ \A q \in Readers : DueDrained(q)'
    BY <1>8, <1>9, <1>12 DEF LogInv, BarrierInv, WaitersWait, DueDrained, RotateDB, QueryAt, LoopAt
  <2>2. ASSUME NEW r \in Readers PROVE DueThere(r)'
    <3>1. DueThere(r) /\ queries'[r] = queries[r]
      BY <1>12 DEF LogInv, BarrierInv, RotateDB
    <3>2. InLog \subseteq InLog' \cup gone'
      BY <1>7 DEF InLog, RotateDB
    <3>3. ReadableRows(r) \subseteq ReadableRows(r)' \cup gone'
      BY <1>6, <3>1 DEF ReadableRows
    <3>4. gone \subseteq gone'
      BY <1>4
    <3> QED BY <1>7, <3>1, <3>2, <3>3, <3>4, DueStays
  <2> QED BY <1>10, <2>1, <2>2 DEF LogInv, BarrierInv
<1> QED BY <1>11, <1>12

\* A step of one reader that is not in the loop's hands: only its own entries
\* matter.
LEMMA ReaderStep ==
    ASSUME LogInv, NEW r \in Readers, NEW q \in Query,
           queries' = [queries EXCEPT ![r] = q], OnlyQueries,
           flushReq' \in {flushReq, flushReq \cup {r}},
           ~logStopped => /\ queries[r].at # "waiting"
                          /\ r \in flushReq' => q.at = "waiting"
                          /\ DueThere(r)'
    PROVE  LogInv'
<1>1. queries' \in [Readers -> Query] /\ queries'[r] = q
      /\ \A s \in Readers \ {r} : queries'[s] = queries[s]
  BY DEF LogInv, LogShape
<1>2. LogShape'
  BY <1>1 DEF LogInv, LogShape, OnlyQueries, store, LoopAt
<1>3. CASE logStopped
  BY <1>2, <1>3 DEF LogInv, OnlyQueries
<1>4. CASE ~logStopped
  <2>1. WaitersWait /\ r \notin flushLoop.waiters /\ r \notin flushReq
    BY <1>4 DEF LogInv, BarrierInv, WaitersWait, QueryAt
  <2>2. /\ flushLoop' = flushLoop /\ logQueue' = logQueue /\ batch' = batch /\ gone' = gone
        /\ dbFiles' = dbFiles /\ dbRows' = dbRows
    BY DEF OnlyQueries, store
  <2>3. /\ LoopIn("drain")' = LoopIn("drain") /\ LoopIn("release")' = LoopIn("release")
    BY <2>2 DEF LoopIn, LoopAt, Flushing
  <2>4. \A s \in flushLoop'.waiters \cup flushReq' : QueryAt(s, "waiting")'
    <3> TAKE s \in flushLoop'.waiters \cup flushReq'
    <3>1. CASE s = r
      BY <1>1, <1>4, <2>1, <2>2, <3>1 DEF QueryAt
    <3>2. CASE s # r
      <4>1. s \in flushLoop.waiters \cup flushReq /\ s \in Readers
        BY <2>2, <3>2, LoopPlaces DEF LogInv, LogShape, LoopType
      <4> QED BY <1>1, <2>1, <3>2, <4>1 DEF WaitersWait, QueryAt
    <3> QED BY <3>1, <3>2
  <2>5. WaitersWait'
    BY <2>1, <2>2, <2>3, <2>4 DEF WaitersWait, LoopAt
  <2>6. ASSUME NEW s \in Readers, s # r PROVE DueThere(s)' /\ DueDrained(s)'
    <3>1. DueThere(s) /\ DueDrained(s) /\ queries'[s] = queries[s]
      BY <1>1, <1>4, <2>6 DEF LogInv, BarrierInv
    <3>2. Stored' = Stored /\ InLog' = InLog /\ ReadableRows(s)' = ReadableRows(s)
      BY <2>2, <3>1 DEF Stored, InLog, ReadableRows
    <3> QED BY <2>2, <2>3, <3>1, <3>2 DEF DueThere, DueDrained
  <2>7. DueDrained(r)'
    BY <2>1, <2>2 DEF DueDrained
  <2>8. DueThere(r)'
    BY <1>4
  <2> QED BY <1>2, <2>5, <2>6, <2>7, <2>8 DEF LogInv, BarrierInv
<1> QED BY <1>3, <1>4

\* What a query is.
LEMMA QueryShape ==
    ASSUME LogInv, NEW r \in Readers
    PROVE  /\ queries[r] \in Query
           /\ InLog \subseteq LogEntries /\ ToSet(dbFiles) \subseteq LogFiles
           /\ ~logStopped => DueThere(r)
BY DEF LogInv, LogShape, BarrierInv, InLog, Stored, ToSet

\* A query begins with what has been accepted so far.
LEMMA BeginQueryKeeps ==
    ASSUME LogInv, NEW r \in Readers, BeginQuery(r)
    PROVE  LogInv'
<1>1. PICK q \in Query :
        /\ queries' = [queries EXCEPT ![r] = q] /\ q.due = InLog
        /\ q.at = IF logStopped THEN "released" ELSE "barrier"
  <2>1. [NoQuery EXCEPT !.at = IF logStopped THEN "released" ELSE "barrier", !.due = InLog]
          \in Query
    BY QueryShape DEF NoQuery, Query, QueryPhases
  <2> QED BY <2>1 DEF BeginQuery, NoQuery
<1>2. queries'[r] = q
  BY <1>1 DEF LogInv, LogShape
<1>3. InLog' = InLog
  BY DEF InLog, Stored, BeginQuery, OnlyQueries, store
<1>4. ASSUME ~logStopped PROVE r \notin flushReq /\ DueThere(r)'
  <2>1. r \notin flushReq
    BY <1>4 DEF LogInv, BarrierInv, WaitersWait, QueryAt, BeginQuery
  <2>2. DueThere(r)'
    BY <1>1, <1>2, <1>3, <1>4 DEF DueThere
  <2> QED BY <2>1, <2>2
<1> QED BY <1>1, <1>4, ReaderStep DEF BeginQuery, QueryAt

\* A query offers its barrier.
LEMMA SendFlushReqKeeps ==
    ASSUME LogInv, NEW r \in Readers, SendFlushReq(r)
    PROVE  LogInv'
<1>1. PICK q \in Query : q = [queries[r] EXCEPT !.at = "waiting"]
  BY QueryShape DEF Query, QueryPhases
<1>2. queries' = [queries EXCEPT ![r] = q] /\ queries'[r] = q
  BY <1>1 DEF SendFlushReq, QueryGoto, LogInv, LogShape
<1>3. q.at = "waiting" /\ q.due = queries[r].due
  BY <1>1, QueryShape DEF Query
<1>4. InLog' = InLog /\ gone' = gone
  BY DEF InLog, Stored, SendFlushReq, OnlyQueries, store
<1>5. ~logStopped => DueThere(r)'
  BY <1>2, <1>3, <1>4, QueryShape DEF DueThere, SendFlushReq, QueryAt
<1> QED BY <1>2, <1>3, <1>5, ReaderStep DEF SendFlushReq, QueryAt

\* A query whose barrier nobody takes any more.
LEMMA BarrierStoppedKeeps ==
    ASSUME LogInv, NEW r \in Readers, BarrierStopped(r)
    PROVE  LogInv'
<1>1. PICK q \in Query : q = [queries[r] EXCEPT !.at = "released"]
  BY QueryShape DEF Query, QueryPhases
<1>2. queries' = [queries EXCEPT ![r] = q]
  BY <1>1 DEF BarrierStopped, QueryGoto, LogInv, LogShape
<1> QED BY <1>2, ReaderStep DEF BarrierStopped

\* The listed files hold all that is stored.
LEMMA ListDBFilesKeeps ==
    ASSUME LogInv, NEW r \in Readers, ListDBFiles(r)
    PROVE  LogInv'
<1>1. PICK q \in Query : q = [queries[r] EXCEPT !.at = "read", !.files = ToSet(dbFiles)]
  BY QueryShape DEF Query, QueryPhases
<1>2. queries' = [queries EXCEPT ![r] = q] /\ queries'[r] = q
  BY <1>1 DEF ListDBFiles, LogInv, LogShape
<1>3. q.at = "read" /\ q.due = queries[r].due /\ q.files = ToSet(dbFiles)
  BY <1>1, QueryShape DEF Query
<1>4. gone' = gone /\ dbFiles' = dbFiles /\ dbRows' = dbRows
  BY DEF ListDBFiles, OnlyQueries, store
<1>5. ReadableRows(r)' = Stored
  BY <1>2, <1>3, <1>4 DEF Stored, ReadableRows
<1>6. ~logStopped => DueThere(r)'
  BY <1>2, <1>3, <1>4, <1>5, QueryShape DEF DueThere, ListDBFiles, QueryAt
<1>7. ~logStopped => r \notin flushReq
  BY DEF LogInv, BarrierInv, WaitersWait, QueryAt, ListDBFiles
<1> QED BY <1>2, <1>3, <1>6, <1>7, ReaderStep DEF ListDBFiles, QueryAt

\* A file leaves the list with its rows read; when none is left, none of what is
\* due was left in one.
LEMMA ReadFileKeeps ==
    ASSUME LogInv, NEW r \in Readers, ReadFile(r)
    PROVE  LogInv'
<1>1. PICK left : left = {i \in DOMAIN dbFiles : dbFiles[i] \in queries[r].files}
  OBVIOUS
<1>2. gone' = gone /\ dbFiles' = dbFiles /\ dbRows' = dbRows
  BY DEF ReadFile, OnlyQueries, store
<1>3. ~logStopped => /\ r \notin flushReq
                     /\ queries[r].due \subseteq queries[r].seen \cup gone \cup ReadableRows(r)
  <2>1. ~logStopped => r \notin flushReq
    BY DEF LogInv, BarrierInv, WaitersWait, QueryAt, ReadFile
  <2> QED BY <2>1, QueryShape DEF DueThere, ReadFile, QueryAt
<1>4. CASE left = {}
  <2>1. PICK q \in Query : q = [queries[r] EXCEPT !.at = "done", !.files = {}]
    BY QueryShape DEF Query, QueryPhases
  <2>2. queries' = [queries EXCEPT ![r] = q] /\ queries'[r] = q
    BY <1>1, <1>4, <2>1 DEF ReadFile, LogInv, LogShape
  <2>3. q.at = "done" /\ q.due = queries[r].due /\ q.seen = queries[r].seen
    BY <2>1, QueryShape DEF Query
  <2>4. ReadableRows(r) = {}
    BY <1>1, <1>4 DEF ReadableRows, ToSet
  <2>5. ~logStopped => DueThere(r)'
    BY <1>2, <1>3, <2>2, <2>3, <2>4 DEF DueThere
  <2> QED BY <1>3, <2>2, <2>3, <2>5, ReaderStep DEF ReadFile, QueryAt
<1>5. CASE left # {}
  <2>1. PICK i \in left : i = Max(left)
    <3>1. left \subseteq 1..Len(dbFiles) /\ Len(dbFiles) \in Nat
      BY <1>1 DEF LogInv, LogShape
    <3> QED BY <1>5, <3>1, MaxIsMember
  <2>2. PICK f \in LogFiles : f = dbFiles[i] /\ f \in ToSet(dbFiles)
    <3>1. i \in 1..Len(dbFiles) /\ dbFiles \in Seq(LogFiles)
      BY <1>1, <2>1 DEF LogInv, LogShape
    <3>2. dbFiles[i] \in LogFiles /\ dbFiles[i] \in ToSet(dbFiles)
      BY <3>1, PositionIsMember
    <3> QED BY <3>2
  <2>3. PICK q \in Query :
          q = [queries[r] EXCEPT !.files = queries[r].files \ {f},
                                 !.seen = queries[r].seen \cup dbRows[f]]
    BY <2>2, QueryShape DEF Query, QueryPhases, LogInv, LogShape
  <2>4. queries' = [queries EXCEPT ![r] = q] /\ queries'[r] = q
    BY <1>1, <1>5, <2>1, <2>2, <2>3 DEF ReadFile, LogInv, LogShape
  <2>5. /\ q.at = queries[r].at /\ q.due = queries[r].due
        /\ q.seen = queries[r].seen \cup dbRows[f] /\ q.files = queries[r].files \ {f}
    BY <2>3, QueryShape DEF Query
  <2>6. ReadableRows(r) \subseteq ReadableRows(r)' \cup dbRows[f]
    BY <1>2, <2>4, <2>5 DEF ReadableRows
  <2>7. ~logStopped => DueThere(r)'
    BY <1>2, <1>3, <2>4, <2>5, <2>6 DEF DueThere, ReadFile, QueryAt
  <2> QED BY <1>3, <2>4, <2>5, <2>7, ReaderStep DEF ReadFile, QueryAt
<1> QED BY <1>4, <1>5

\* A query ends.
LEMMA EndQueryKeeps ==
    ASSUME LogInv, NEW r \in Readers, EndQuery(r)
    PROVE  LogInv'
<1>1. NoQuery \in Query /\ NoQuery.at = "idle"
  BY DEF NoQuery, Query, QueryPhases
<1>2. queries'[r] = NoQuery
  BY DEF EndQuery, LogInv, LogShape
<1>3. DueThere(r)'
  BY <1>1, <1>2 DEF DueThere
<1>4. ~logStopped => r \notin flushReq
  BY DEF LogInv, BarrierInv, WaitersWait, QueryAt, EndQuery
<1> QED BY <1>1, <1>3, <1>4, ReaderStep DEF EndQuery, QueryAt

\* Every step of the writer's loop.
LEMMA LoopStepKeeps ==
    ASSUME LogInv, LoopStep
    PROVE  LogInv'
<1>1. CASE TakeEntry
  BY <1>1, CollectKeeps DEF TakeEntry
<1>2. CASE FlushTick
  BY <1>2, FlushThenKeeps DEF FlushTick
<1>3. CASE DrainPending
  <2>1. flushLoop.pending \in Nat
    BY LoopPlaces DEF LoopType
  <2>2. CASE flushLoop.pending > 0 /\ Collect("drain", flushLoop.pending - 1)
    <3>1. PICK left \in Nat : left = flushLoop.pending - 1
      BY <2>1, <2>2
    <3> QED BY <1>3, <2>1, <2>2, <3>1, CollectKeeps DEF DrainPending
  <2>3. CASE flushLoop.pending = 0 /\ FlushThen("release")
    BY <1>3, <2>3, FlushThenKeeps DEF DrainPending
  <2> QED BY <1>3, <2>2, <2>3 DEF DrainPending
<1>4. CASE DrainAndFlush
  BY <1>4, CollectKeeps, FlushThenKeeps DEF DrainAndFlush
<1>5. CASE WaitersCollected \/ SnapshotPending \/ ReleaseWaiters \/ StopLoop \/ NoRotation
  BY <1>5, WaitersCollectedKeeps, SnapshotKeeps, ReleaseKeeps, StopLoopKeeps, NoRotationKeeps
<1>6. CASE InsertBatch \/ RotateFails \/ \E f \in LogFiles : RotateDB(f)
  BY <1>6, InsertBatchKeeps, RotateFailsKeeps, RotateDBKeeps
<1> QED BY <1>1, <1>2, <1>3, <1>4, <1>5, <1>6 DEF LoopStep

\* The invariant of the log, at all times.
LEMMA LogInvHolds == LogSpec => []LogInv
<1>1. LogInv /\ [LogNext]_logVars => LogInv'
  <2> SUFFICES ASSUME LogInv, [LogNext]_logVars PROVE LogInv'
    OBVIOUS
  <2>1. CASE LoopStep
    BY <2>1, LoopStepKeeps
  <2>2. CASE \E e \in LogEntries : EmitRequestLog(e)
    BY <2>2, EmitRequestLogKeeps
  <2>3. CASE \E r \in Readers : TakeWaiter(r) \/ BeginQuery(r)
    BY <2>3, TakeWaiterKeeps, BeginQueryKeeps
  <2>4. CASE \E r \in Readers : QueryContinues(r)
    BY <2>4, SendFlushReqKeeps, BarrierStoppedKeeps, ListDBFilesKeeps, ReadFileKeeps,
       EndQueryKeeps DEF QueryContinues
  <2>5. CASE StopLog
    BY <2>5 DEF StopLog, LogInv, LogShape, LoopAt, store
  <2>6. CASE UNCHANGED logVars
    BY <2>6 DEF logVars, LogInv, LogShape, BarrierInv, WaitersWait, DueThere, DueDrained,
       LoopAt, LoopIn, Flushing, QueryAt, InLog, Stored, ReadableRows
  <2> QED BY <2>1, <2>2, <2>3, <2>4, <2>5, <2>6 DEF LogNext
<1> QED BY <1>1, LogInvInit, PTL DEF LogSpec

\* A query sees every entry accepted before it began, unless its insert failed or
\* its file was pruned: the barrier of FlushNow reaches the queue, the batch and
\* the transaction, however many readers wait and however the loop is interrupted
\* by full batches and rotations on the way.
THEOREM BarrierCorrect == LogSpec => []QuerySeesAccepted
<1>1. LogInv => QuerySeesAccepted
  BY DEF LogInv, BarrierInv, DueThere, QuerySeesAccepted, QueryAt
<1> QED BY <1>1, LogInvHolds, PTL

-----------------------------------------------------------------------------
(* Inbound identity *)

\* A text made of two parts and a character between them.
LEMMA AppendedText ==
    ASSUME NEW p \in Seq(Characters), NEW d \in Characters, NEW t, t = p \o <<d>>
    PROVE  /\ t \in Seq(Characters)
           /\ Len(t) = Len(p) + 1
           /\ \A i \in 1..Len(p) : t[i] = p[i]
           /\ t[Len(p) + 1] = d
<1>1. <<d>> \in Seq(Characters) /\ Len(<<d>>) = 1 /\ <<d>>[1] = d
  OBVIOUS
<1> QED BY <1>1, ConcatProperties

\* A text with one delimiter put between two others.
LEMMA JoinedText ==
    ASSUME NEW p \in Seq(Characters), NEW a \in Seq(Characters), NEW d \in Characters, NEW t, t = p \o <<d>> \o a
    PROVE  /\ t \in Seq(Characters)
           /\ Len(t) = Len(p) + 1 + Len(a)
           /\ \A i \in 1..Len(p) : t[i] = p[i]
           /\ t[Len(p) + 1] = d
           /\ \A i \in 1..Len(a) : t[Len(p) + 1 + i] = a[i]
<1>1. PICK u : u = p \o <<d>> /\ t = u \o a
  OBVIOUS
<1>2. /\ u \in Seq(Characters) /\ Len(u) = Len(p) + 1 /\ u[Len(p) + 1] = d
      /\ \A i \in 1..Len(p) : u[i] = p[i]
  BY <1>1, AppendedText
<1>3. t \in Seq(Characters) /\ Len(t) = Len(u) + Len(a)
  BY <1>1, <1>2, ConcatProperties
<1>4. \A i \in 1..(Len(u) + Len(a)) : t[i] = IF i <= Len(u) THEN u[i] ELSE a[i - Len(u)]
  BY <1>1, <1>2, ConcatProperties
<1> QED BY <1>2, <1>3, <1>4

\* The least and the greatest position are the ones that bound the others.
LEMMA MinIs ==
    ASSUME NEW S \in SUBSET Nat, NEW m \in S, \A x \in S : m <= x
    PROVE  Min(S) = m
<1>1. PICK n : n = Min(S)
  OBVIOUS
<1>2. n \in S
  BY <1>1 DEF Min
<1>3. \A y \in S : n <= y
  BY <1>1 DEF Min
<1> QED BY <1>1, <1>2, <1>3

\* The maximum, when it is known.
LEMMA MaxIs ==
    ASSUME NEW S \in SUBSET Nat, NEW m \in S, \A x \in S : m >= x
    PROVE  Max(S) = m
<1>1. PICK n : n = Max(S)
  OBVIOUS
<1>2. n \in S
  BY <1>1 DEF Max
<1>3. \A y \in S : n >= y
  BY <1>1 DEF Max
<1> QED BY <1>1, <1>2, <1>3

\* A platform name without delimiters is cut off at the first one, whatever
\* the account holds; without an account it is the whole identity.
LEMMA IdentityParsed ==
    ASSUME NEW p \in Seq(Characters), NEW a \in Seq(Characters), NEW d \in Characters, d \in Delimiters,
           \A i \in 1..Len(p) : p[i] \notin Delimiters, NEW t, t = p \o <<d>> \o a
    PROVE  ParseIdentity(t) = Identity(p, a)
<1>1. PICK cuts : cuts = Positions(t, Delimiters)
  OBVIOUS
<1>2. PICK k : k = Len(p) + 1
  OBVIOUS
<1>3. /\ t \in Seq(Characters) /\ Len(t) = k + Len(a) /\ t[k] = d
      /\ \A i \in 1..Len(p) : t[i] = p[i]
      /\ \A i \in 1..Len(a) : t[k + i] = a[i]
  BY <1>2, JoinedText
<1>4. k \in Nat /\ k \in DOMAIN t /\ Len(a) \in Nat /\ DOMAIN t = 1..Len(t)
  BY <1>2, <1>3
<1>5. cuts \in SUBSET Nat /\ k \in cuts
  BY <1>1, <1>3, <1>4 DEF Positions
<1>6. \A x \in cuts : k <= x
  <2>1. SUFFICES ASSUME NEW x \in cuts, ~(k <= x) PROVE FALSE
    OBVIOUS
  <2>2. x \in 1..Len(p) /\ t[x] \in Delimiters
    BY <1>1, <1>2, <1>3, <1>4, <2>1 DEF Positions
  <2> QED BY <1>3, <2>2
<1>7. Min(cuts) = k
  BY <1>5, <1>6, MinIs
<1>8. Before(t, k) = p /\ After(t, k) = a
  BY <1>2, <1>3 DEF Before, After
<1> QED BY <1>1, <1>5, <1>7, <1>8 DEF ParseIdentity

\* A text without a delimiter is a platform without an account.
LEMMA BareParsed ==
    ASSUME NEW p \in Seq(Characters), \A i \in 1..Len(p) : p[i] \notin Delimiters
    PROVE  ParseIdentity(p) = Identity(p, Empty)
<1>1. Positions(p, Delimiters) = {}
  BY DEF Positions
<1> QED BY <1>1 DEF ParseIdentity

\* The password is cut off at the last colon, whatever the identity holds.
LEMMA CredentialParsed ==
    ASSUME NEW x \in Seq(Characters), NEW w \in Seq(Characters), ":" \in Characters,
           \A i \in 1..Len(w) : w[i] # ":", NEW t, t = x \o <<":">> \o w
    PROVE  /\ ParseForwardCredential(t) = [token |-> w, id |-> ParseIdentity(x)]
           /\ Positions(t, {":"}) \in SUBSET Nat
           /\ Len(x) + 1 \in Positions(t, {":"})
           /\ Max(Positions(t, {":"})) = Len(x) + 1
           /\ Before(t, Len(x) + 1) = x
           /\ t \in Seq(Characters) /\ Len(t) = Len(x) + 1 + Len(w)
           /\ \A i \in 1..Len(x) : t[i] = x[i]
<1>1. PICK colons : colons = Positions(t, {":"})
  OBVIOUS
<1>2. PICK k : k = Len(x) + 1
  OBVIOUS
<1>3. /\ t \in Seq(Characters) /\ Len(t) = k + Len(w) /\ t[k] = ":"
      /\ \A i \in 1..Len(x) : t[i] = x[i]
      /\ \A i \in 1..Len(w) : t[k + i] = w[i]
  BY <1>2, JoinedText
<1>4. k \in Nat /\ k \in DOMAIN t /\ Len(w) \in Nat /\ DOMAIN t = 1..Len(t)
  BY <1>2, <1>3
<1>5. colons \in SUBSET Nat /\ k \in colons
  BY <1>1, <1>3, <1>4 DEF Positions
<1>6. \A y \in colons : k >= y
  <2>1. SUFFICES ASSUME NEW y \in colons, ~(k >= y) PROVE FALSE
    OBVIOUS
  <2>2. y - k \in 1..Len(w) /\ t[y] = ":" /\ k + (y - k) = y
    BY <1>1, <1>3, <1>4, <2>1 DEF Positions
  <2> QED BY <1>3, <2>2
<1>7. Max(colons) = k
  BY <1>5, <1>6, MaxIs
<1>8. Before(t, k) = x /\ After(t, k) = w
  BY <1>2, <1>3 DEF Before, After
<1>9. ParseForwardCredential(t) = [token |-> w, id |-> ParseIdentity(x)]
  BY <1>1, <1>5, <1>7, <1>8 DEF ParseForwardCredential
<1> QED BY <1>1, <1>2, <1>3, <1>5, <1>7, <1>8, <1>9

\* The identity a client means.
Meant(c) == Identity(c.platform, IF c.bare THEN Empty ELSE c.account)

\* What a client sends are texts.
LEMMA SentTexts ==
    ASSUME NEW c \in Sent
    PROVE  /\ c.platform \in Seq(Characters) /\ c.account \in Seq(Characters) /\ c.password \in Seq(Characters)
           /\ c.delimiter \in Delimiters /\ c.delimiter \in Characters /\ ":" \in Characters
           /\ \A i \in 1..Len(c.platform) : c.platform[i] \notin Delimiters
           /\ \A i \in 1..Len(c.password) : c.password[i] # ":"
<1>1. /\ c.platform \in PlatformTexts /\ c.account \in AccountTexts /\ c.password \in Passwords
      /\ c.delimiter \in Delimiters
  BY DEF Sent
<1>2. c.platform \in Seq(Characters) /\ c.account \in Seq(Characters) /\ c.password \in Seq(Characters)
  BY <1>1, IdentityAssumption
<1>3. PICK p \in Seq(Characters) : p = c.platform /\ Range(p) \cap Delimiters = {}
  BY <1>1, <1>2, IdentityAssumption DEF ValidName
<1>4. PICK w \in Seq(Characters) : w = c.password /\ ":" \notin Range(w)
  BY <1>1, <1>2, IdentityAssumption
<1>5. \A i \in 1..Len(p) : p[i] \notin Delimiters
  BY <1>3 DEF Range
<1>6. \A i \in 1..Len(w) : w[i] # ":"
  BY <1>4 DEF Range
<1>7. c.delimiter \in Characters /\ ":" \in Characters
  BY <1>1, IdentityAssumption DEF Delimiters
<1> QED BY <1>1, <1>2, <1>3, <1>4, <1>5, <1>6, <1>7

\* An identity is read as it was meant.
LEMMA IdentityMeant ==
    ASSUME NEW c \in Sent
    PROVE  IdentityText(c) \in Seq(Characters) /\ ParseIdentity(IdentityText(c)) = Meant(c)
<1>1. PICK p, a, d : p = c.platform /\ a = c.account /\ d = c.delimiter
  OBVIOUS
<1>2. /\ p \in Seq(Characters) /\ a \in Seq(Characters) /\ d \in Characters /\ d \in Delimiters
      /\ \A i \in 1..Len(p) : p[i] \notin Delimiters
  BY <1>1, SentTexts
<1>3. CASE c.bare
  <2>1. IdentityText(c) = p /\ Meant(c) = Identity(p, Empty)
    BY <1>1, <1>3 DEF IdentityText, Meant
  <2>2. ParseIdentity(p) = Identity(p, Empty)
    BY <1>2, BareParsed
  <2> QED BY <1>1, <1>2, <2>1, <2>2
<1>4. CASE ~c.bare
  <2>1. PICK t : t = p \o <<d>> \o a
    OBVIOUS
  <2>2. IdentityText(c) = t /\ Meant(c) = Identity(p, a)
    BY <1>1, <1>4, <2>1 DEF IdentityText, Meant
  <2>3. t \in Seq(Characters)
    BY <1>2, <2>1, JoinedText
  <2>4. ParseIdentity(t) = Identity(p, a)
    BY <1>2, <2>1, IdentityParsed
  <2> QED BY <1>1, <2>2, <2>3, <2>4
<1> QED BY <1>3, <1>4

\* So is a credential that ends in a password, and without a configured token
\* too, unless it is a platform and a password only.
LEMMA CredentialMeant ==
    ASSUME NEW c \in Sent
    PROVE  \E t : /\ t = IdentityText(c) \o <<":">> \o c.password
                  /\ ParseForwardCredential(t) = [token |-> c.password, id |-> Meant(c)]
                  /\ ~c.bare => ParseWhenAuthDisabled(t) = Meant(c)
                  /\ IdentityText(c) = Empty => Max(Positions(t, {":"})) = 1
<1>1. PICK x, w, t : /\ x = IdentityText(c) /\ w = c.password
                     /\ t = IdentityText(c) \o <<":">> \o c.password
  OBVIOUS
<1>2. /\ x \in Seq(Characters) /\ w \in Seq(Characters) /\ ":" \in Characters /\ \A i \in 1..Len(w) : w[i] # ":"
      /\ t = x \o <<":">> \o w
  BY <1>1, SentTexts, IdentityMeant
<1>3. /\ t \in Seq(Characters) /\ Len(t) = Len(x) + 1 + Len(w)
      /\ \A i \in 1..Len(x) : t[i] = x[i]
  BY <1>2, JoinedText
<1>4. PICK k, colons : k = Len(x) + 1 /\ colons = Positions(t, {":"})
  OBVIOUS
<1>5. /\ ParseForwardCredential(t) = [token |-> w, id |-> ParseIdentity(x)]
      /\ colons \in SUBSET Nat /\ k \in colons /\ Max(colons) = k /\ Before(t, k) = x
  BY <1>2, <1>4, CredentialParsed
<1>6. ParseForwardCredential(t) = [token |-> c.password, id |-> Meant(c)]
  BY <1>1, <1>5, IdentityMeant
<1>7. ASSUME ~c.bare PROVE ParseWhenAuthDisabled(t) = Meant(c)
  <2>1. PICK p, a, d : p = c.platform /\ a = c.account /\ d = c.delimiter /\ x = p \o <<d>> \o a
    BY <1>1, <1>7 DEF IdentityText
  <2>2. p \in Seq(Characters) /\ a \in Seq(Characters) /\ d \in Characters /\ d \in Delimiters
    BY <1>1, <2>1, SentTexts
  <2>3. x[Len(p) + 1] = d /\ Len(x) = Len(p) + 1 + Len(a)
    BY <2>1, <2>2, JoinedText
  <2>4. Len(p) + 1 \in 1..Len(x) /\ DOMAIN x = 1..Len(x) /\ Len(p) + 1 < k
    BY <1>2, <1>4, <2>2, <2>3
  <2>5. CASE d = "."
    <3>1. Positions(Before(t, Max(colons)), {"."}) # {}
      BY <1>5, <2>3, <2>4, <2>5 DEF Positions
    <3> QED BY <1>4, <1>5, <1>6, <3>1 DEF ParseWhenAuthDisabled
  <2>6. CASE d = ":"
    <3>1. Len(p) + 1 \in 1..Len(t) /\ DOMAIN t = 1..Len(t) /\ Len(t) \in Nat
      <4>1. Len(t) \in Nat /\ DOMAIN t = 1..Len(t)
        BY <1>3
      <4>2. Len(x) \in Nat /\ Len(w) \in Nat
        BY <1>2
      <4> QED BY <1>3, <2>4, <4>1, <4>2
    <3>a. t[Len(p) + 1] = ":"
      BY <1>3, <2>3, <2>4, <2>6
    <3>2. Len(p) + 1 \in colons
      BY <1>4, <3>1, <3>a DEF Positions
    <3>3. \A y : colons # {y}
      BY <1>5, <2>4, <3>2
    <3>4. Cardinality(colons) # 1
      <4>1. IsFiniteSet(colons)
        <5>1. colons \subseteq 1..Len(t) /\ Len(t) \in Nat
          BY <1>4, <3>1 DEF Positions
        <5>2. PICK n \in Nat : n = Len(t)
          BY <3>1
        <5>3. IsFiniteSet(1..n)
          BY FS_Interval
        <5> QED BY <5>1, <5>2, <5>3, FS_Subset
      <4> QED BY <3>3, <4>1, FS_Singleton
    <3> QED BY <1>4, <1>6, <3>4 DEF ParseWhenAuthDisabled
  <2> QED BY <2>2, <2>5, <2>6 DEF Delimiters
<1>8. x = Empty => Max(colons) = 1
  <2>1. Len(Empty) = 0
    BY DEF Empty
  <2> QED BY <1>4, <1>5, <2>1
<1> QED BY <1>1, <1>4, <1>6, <1>7, <1>8

\* The accounts a served request may be routed under.
AccountsFor(c, header, values) ==
    CASE header # Empty -> {header}
      [] header = Empty /\ Meant(c).account # Empty -> {Meant(c).account}
      [] OTHER -> {Empty, ExtractAccount(values)}

\* What an answer to a request of this kind has to be when it is served.
Right(caps, c, type, ans, header, values) ==
    ans.verdict = "served" =>
        /\ proxyToken # Empty => ~c.none /\ c.password = proxyToken
        /\ "authInfo" \in caps /\ type # "reverse" =>
             ~c.none /\ (proxyToken = Empty => IdentityText(c) # Empty)
        /\ c.none => ans.id = NoIdentity
        /\ ~c.none /\ ~(proxyToken = Empty /\ type = "forward" /\ c.bare) =>
             ans.id.platform = c.platform /\ ans.id.account \in AccountsFor(c, header, values)

\* An answer that is right for what was sent is routed as meant.
LEMMA AnswerRouted ==
    ASSUME NEW caps, NEW c \in Sent, NEW type, NEW ans, NEW header, NEW values,
           Right(caps, c, type, ans, header, values),
           served' = [caps |-> caps, sent |-> c, kind |-> type, answer |-> ans,
                      header |-> header, values |-> values],
           proxyToken' = proxyToken
    PROVE  RoutedAsMeant'
<1>1. /\ served'.caps = caps /\ served'.sent = c /\ served'.kind = type /\ served'.answer = ans
      /\ served'.header = header /\ served'.values = values
  OBVIOUS
<1>2. Meant(c).account = IF c.bare THEN Empty ELSE c.account
  BY DEF Meant, Identity
<1>3. IdentityText(c)' = IdentityText(c)
  BY DEF IdentityText
<1> QED BY <1>1, <1>2, <1>3 DEF RoutedAsMeant, Right, AccountsFor, Ambiguous

\* An account that was sent is one of them, when no header replaces it.
LEMMA SentAccountAllowed ==
    ASSUME NEW c, NEW values
    PROVE  Meant(c).account \in AccountsFor(c, Empty, values)
  BY DEF AccountsFor

\* The platform a client means is the one it wrote.
LEMMA MeantPlatform == ASSUME NEW c PROVE Meant(c).platform = c.platform
  BY DEF Meant, Identity

\* HTTP forward proxy.
LEMMA ForwardRight ==
    ASSUME NEW caps, NEW c \in Sent
    PROVE  Right(caps, c, "forward", Mux(caps, ForwardRequest(c)), Empty, << >>)
<1>1. PICK t : /\ t = IdentityText(c) \o <<":">> \o c.password
               /\ ParseForwardCredential(t) = [token |-> c.password, id |-> Meant(c)]
               /\ ~c.bare => ParseWhenAuthDisabled(t) = Meant(c)
               /\ IdentityText(c) = Empty => Max(Positions(t, {":"})) = 1
  BY CredentialMeant
<1>0. PICK r : r = ForwardRequest(c)
  OBVIOUS
<1>2. /\ r = ForwardRequest(c) /\ r.kind = "forward" /\ r.none = c.none
      /\ r.credential = t
  BY <1>0, <1>1 DEF ForwardRequest
<1>3. PICK ans : ans = Mux(caps, r)
  OBVIOUS
<1>4. ASSUME ans.verdict = "served" PROVE ans = Forward(caps, r)
  BY <1>2, <1>3, <1>4 DEF Mux, Refusal
<1>5. c.none \in BOOLEAN /\ c.bare \in BOOLEAN
  BY DEF Sent
<1>6. SUFFICES ASSUME ans.verdict = "served"
               PROVE  /\ proxyToken # Empty => ~c.none /\ c.password = proxyToken
                      /\ "authInfo" \in caps =>
                           ~c.none /\ (proxyToken = Empty => IdentityText(c) # Empty)
                      /\ c.none => ans.id = NoIdentity
                      /\ ~c.none /\ ~(proxyToken = Empty /\ c.bare) => ans.id = Meant(c)
  BY <1>2, <1>3, SentAccountAllowed, MeantPlatform DEF Right
<1>7. CASE proxyToken = Empty
  <2>1. /\ "authInfo" \in caps => ~c.none /\ Max(Positions(t, {":"})) # 1
        /\ c.none => ans = Serve(NoIdentity)
        /\ ~c.none => ans = Serve(ParseWhenAuthDisabled(t))
    BY <1>2, <1>4, <1>5, <1>6, <1>7 DEF Forward, Refusal
  <2> QED BY <1>1, <1>7, <2>1 DEF Serve
<1>8. CASE proxyToken # Empty
  <2>1. /\ ~c.none /\ ParseForwardCredential(t).token = proxyToken
        /\ ans = Serve(ParseForwardCredential(t).id)
    BY <1>2, <1>4, <1>5, <1>6, <1>8 DEF Forward, Refusal
  <2> QED BY <1>1, <1>8, <2>1 DEF Serve
<1> QED BY <1>7, <1>8

\* SOCKS5.
LEMMA Socks5Right ==
    ASSUME NEW caps, NEW c \in Sent
    PROVE  Right(caps, c, "socks5", Mux(caps, Socks5Request(c)), Empty, << >>)
<1>0. PICK r : r = Socks5Request(c)
  OBVIOUS
<1>1. /\ r = Socks5Request(c) /\ r.kind = "socks5" /\ r.none = c.none
      /\ r.user = IdentityText(c) /\ r.password = c.password
  BY <1>0 DEF Socks5Request
<1>2. PICK ans : ans = Mux(caps, r)
  OBVIOUS
<1>3. ASSUME ans.verdict = "served" PROVE ans = Socks5(caps, r)
  BY <1>1, <1>2, <1>3 DEF Mux, Refusal
<1>4. c.none \in BOOLEAN /\ c.bare \in BOOLEAN
  BY DEF Sent
<1>5. ParseIdentity(r.user) = Meant(c)
  BY <1>1, IdentityMeant
<1>6. SUFFICES ASSUME ans.verdict = "served"
               PROVE  /\ proxyToken # Empty => ~c.none /\ c.password = proxyToken
                      /\ "authInfo" \in caps =>
                           ~c.none /\ (proxyToken = Empty => IdentityText(c) # Empty)
                      /\ c.none => ans.id = NoIdentity
                      /\ ~c.none => ans.id = Meant(c)
  BY <1>1, <1>2, SentAccountAllowed, MeantPlatform DEF Right
<1>7. /\ proxyToken # Empty => ~c.none /\ r.password = proxyToken
      /\ "authInfo" \in caps => ~c.none /\ (proxyToken = Empty => r.user # Empty)
      /\ c.none => ans = Serve(NoIdentity)
      /\ ~c.none => ans = Serve(ParseIdentity(r.user))
  BY <1>1, <1>3, <1>4, <1>6 DEF Socks5, Refusal
<1> QED BY <1>1, <1>5, <1>7 DEF Serve

\* Reverse proxy.
LEMMA ReverseRight ==
    ASSUME NEW caps, NEW c \in Sent, ~c.none, NEW ok \in BOOLEAN, NEW behavior,
           NEW reject \in BOOLEAN, NEW header, NEW values
    PROVE  Right(caps, c, "reverse", Mux(caps, PathRequest(c, ok, behavior, reject, header, values)),
                 header, values)
<1>0. PICK r : r = PathRequest(c, ok, behavior, reject, header, values)
  OBVIOUS
<1>1. /\ r = PathRequest(c, ok, behavior, reject, header, values)
      /\ r.kind = "reverse" /\ r.wellFormed = ok /\ r.token = c.password
      /\ r.identity = IdentityText(c) /\ r.behavior = behavior /\ r.reject = reject
      /\ r.resinAccount = header /\ r.values = values
  BY <1>0 DEF PathRequest
<1>2. PICK ans : ans = Mux(caps, r)
  OBVIOUS
<1>3. ASSUME ans.verdict = "served" PROVE ans = ReversePath(r)
  BY <1>1, <1>2, <1>3 DEF Mux, Refusal
<1>4. ParseIdentity(r.identity) = Meant(c)
  BY <1>1, IdentityMeant
<1>5. PICK found : found = ReverseAccount(r, Meant(c).account)
  OBVIOUS
<1>6. found.account \in AccountsFor(c, header, values)
  BY <1>1, <1>5 DEF ReverseAccount, AccountsFor
<1>7. ASSUME ans.verdict = "served"
      PROVE  /\ proxyToken # Empty => c.password = proxyToken
             /\ ans.id = Identity(c.platform, found.account)
  <2>1. /\ proxyToken # Empty => r.token = proxyToken
        /\ ans = Serve(Identity(Meant(c).platform, found.account))
    BY <1>3, <1>4, <1>5, <1>7 DEF ReversePath, Refusal
  <2> QED BY <1>1, <2>1, MeantPlatform DEF Serve
<1> QED BY <1>1, <1>2, <1>6, <1>7 DEF Right, Identity

\* Requests of the control plane are not routed.
LEMMA ControlRight ==
    ASSUME NEW caps, NEW c \in Sent, NEW type \in {"health", "control", "tokenAPI"}, NEW r,
           r = [kind |-> type, token |-> c.password]
    PROVE  Right(caps, c, type, Mux(caps, r), Empty, << >>)
<1>1. r.kind = type
  OBVIOUS
<1>2. Mux(caps, r).verdict # "served"
  BY <1>1 DEF Mux, Refusal
<1> QED BY <1>2 DEF Right

\* For all tokens, platforms, accounts and passwords, of any length and with
\* delimiters wherever the code lets them be, a request that is served presented
\* the token, names a user where the endpoint demands one instead, and is routed
\* under the platform and account its client meant (parseV1PlatformAccountIdentity,
\* parseForwardCredentialV1 and its variant without authentication,
\* authenticateUserPass, resolveReverseProxyAccount).
THEOREM RoutingCorrect == IdentitySpec => []RoutedAsMeant
<1>1. Nothing.answer.verdict # "served"
  BY DEF Nothing, Refusal
<1>2. IdentityInit => RoutedAsMeant
  BY <1>1 DEF IdentityInit, RoutedAsMeant
<1>3. RoutedAsMeant /\ [IdentityNext]_identityVars => RoutedAsMeant'
  <2> SUFFICES ASSUME RoutedAsMeant, [IdentityNext]_identityVars PROVE RoutedAsMeant'
    OBVIOUS
  <2>1. CASE NextRequest
    BY <1>1, <2>1 DEF NextRequest, RoutedAsMeant
  <2>2. CASE UNCHANGED identityVars
    BY <2>2 DEF identityVars, RoutedAsMeant, Ambiguous
  <2>3. ASSUME NEW caps, NEW c \in Sent, ServeForward(caps, c) PROVE RoutedAsMeant'
    <3>0. PICK r : r = ForwardRequest(c)
      OBVIOUS
    <3>1. /\ r = ForwardRequest(c) /\ r.kind = "forward"
      BY <3>0 DEF ForwardRequest
    <3>2. /\ proxyToken' = proxyToken
          /\ served' = [caps |-> caps, sent |-> c, kind |-> "forward", answer |-> Mux(caps, r),
                        header |-> Empty, values |-> << >>]
      BY <2>3, <3>1 DEF ServeForward, Answer
    <3> QED BY <3>1, <3>2, ForwardRight, AnswerRouted
  <2>4. ASSUME NEW caps, NEW c \in Sent, ServeSocks5(caps, c) PROVE RoutedAsMeant'
    <3>0. PICK r : r = Socks5Request(c)
      OBVIOUS
    <3>1. /\ r = Socks5Request(c) /\ r.kind = "socks5"
      BY <3>0 DEF Socks5Request
    <3>2. /\ proxyToken' = proxyToken
          /\ served' = [caps |-> caps, sent |-> c, kind |-> "socks5", answer |-> Mux(caps, r),
                        header |-> Empty, values |-> << >>]
      BY <2>4, <3>1 DEF ServeSocks5, Answer
    <3> QED BY <3>1, <3>2, Socks5Right, AnswerRouted
  <2>5. ASSUME NEW caps, NEW c \in Sent, ServeReverse(caps, c) PROVE RoutedAsMeant'
    <3>1. PICK behavior \in AccountBehaviors, ok \in BOOLEAN, reject \in BOOLEAN,
               header \in HeaderAccounts, values \in HeaderValues :
            ~c.none /\ Answer(caps, c, PathRequest(c, ok, behavior, reject, header, values))
      BY <2>5 DEF ServeReverse
    <3>0. PICK r : r = PathRequest(c, ok, behavior, reject, header, values)
      OBVIOUS
    <3>2. /\ r = PathRequest(c, ok, behavior, reject, header, values)
          /\ r.kind = "reverse" /\ r.resinAccount = header /\ r.values = values
      BY <3>0 DEF PathRequest
    <3>3. /\ proxyToken' = proxyToken
          /\ served' = [caps |-> caps, sent |-> c, kind |-> "reverse", answer |-> Mux(caps, r),
                        header |-> header, values |-> values]
      BY <3>1, <3>2 DEF Answer
    <3>4. Right(caps, c, "reverse", Mux(caps, r), header, values)
      BY <3>1, <3>2, ReverseRight
    <3> QED BY <3>3, <3>4, AnswerRouted
  <2>6. ASSUME NEW caps, NEW c \in Sent, NEW type \in {"health", "control", "tokenAPI"},
               ServeControl(caps, c, type)
        PROVE  RoutedAsMeant'
    <3>0. PICK r : r = [kind |-> type, token |-> c.password]
      OBVIOUS
    <3>1. /\ r = [kind |-> type, token |-> c.password] /\ r.kind = type
      BY <3>0
    <3>2. /\ proxyToken' = proxyToken
          /\ served' = [caps |-> caps, sent |-> c, kind |-> type, answer |-> Mux(caps, r),
                        header |-> Empty, values |-> << >>]
      BY <2>6, <3>1 DEF ServeControl, Answer
    <3> QED BY <3>1, <3>2, ControlRight, AnswerRouted
  <2> QED BY <2>1, <2>2, <2>3, <2>4, <2>5, <2>6 DEF IdentityNext
<1> QED BY <1>2, <1>3, PTL DEF IdentitySpec
=============================================================================
