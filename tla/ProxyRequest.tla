---------------------------- MODULE ProxyRequest ----------------------------
(***************************************************************************)
(* One request of the data path, from its acceptance to its end: forward   *)
(* HTTP, CONNECT, SOCKS5 or reverse proxy.  The handler authenticates,     *)
(* routes, talks to the upstream and reports: to the node's health, and    *)
(* once to metrics and the request log.  A CONNECT or SOCKS5 request ends  *)
(* as a tunnel, which two goroutines copy, one per direction, and which    *)
(* either of them may close.                                               *)
(*                                                                         *)
(* Router, pool and health are other modules: here a route exists or not,  *)
(* and health is the bag of verdicts it was given.  The bytes of a         *)
(* direction are none or some.  Requests share nothing, so one is enough.  *)
(***************************************************************************)
EXTENDS Naturals

Kinds == {"http", "connect", "socks5", "reverse"}
Tunnels == {"connect", "socks5"}
Credentials == {"none", "wrong", "nameless", "right"}
Conns == {"client", "upstream"}
Directions2 == {"egress", "ingress"}
Source(d) == IF d = "egress" THEN "client" ELSE "upstream"
Sink(d) == IF d = "egress" THEN "upstream" ELSE "client"

VARIABLES
    kind, credential,
    tokenSet,          \* a proxy token is configured
    authInfoRequired,  \* InboundPolicy.RequireProxyAuthInfo
    stage,             \* where the handler is
    deadlineAt,        \* SOCKS5 handshake phase: its goroutine
    deadlineSet,       \* ... and the connection's deadline
    begun,             \* a requestLifecycle exists
    hasRoute,
    open,              \* connection -> held open by the handler
    shutdown,          \* connection -> CloseWrite was called
    peer,              \* connection -> what its remote end did last
    copied,            \* direction -> bytes were delivered
    copyEnd,           \* direction -> how its io.Copy ended
    upgraded,          \* reverse: a 101 response was accepted
    netOK, logged,     \* lifecycle: net_ok, and the directions whose bytes it has
    verdicts,          \* values given to RecordPassiveResult
    emitted            \* events emitted by finish

requestVars == <<kind, credential, tokenSet, authInfoRequired, stage, deadlineAt, deadlineSet, begun,
                 hasRoute, open, shutdown, peer, copied, copyEnd, upgraded, netOK, logged, verdicts, emitted>>
inputVars == <<kind, credential, tokenSet, authInfoRequired>>
handshakeVars == <<deadlineAt, deadlineSet>>
tunnelVars == <<open, shutdown, peer, copied, copyEnd>>
reportVars == <<netOK, logged, verdicts, emitted, upgraded>>

Stages == {"accepted", "greeted", "identified", "begun", "ready", "roundTrip", "response", "upgrade",
           "dial", "answer", "relay", "over"}
CopyEnds == {"idle", "running", "nil", "closed", "reset", "pipe"}

RequestTypeOK ==
    /\ kind \in Kinds /\ credential \in Credentials
    /\ {tokenSet, authInfoRequired, deadlineSet, begun, hasRoute, upgraded, netOK} \subseteq BOOLEAN
    /\ stage \in Stages
    /\ deadlineAt \in {"off", "waiting", "expired", "done"}
    /\ open \in [Conns -> BOOLEAN] /\ shutdown \in [Conns -> BOOLEAN]
    /\ peer \in [Conns -> {"talking", "finished", "reset"}]
    /\ copied \in [Directions2 -> BOOLEAN] /\ copyEnd \in [Directions2 -> CopyEnds]
    /\ logged \subseteq Directions2
    /\ verdicts \subseteq BOOLEAN
    /\ emitted \in 0..2

\* A SOCKS5 connection belongs to its handler from the start; the connection of
\* an HTTP request belongs to the server until it is hijacked.
RequestInit ==
    /\ kind \in Kinds /\ credential \in Credentials
    /\ tokenSet \in BOOLEAN /\ authInfoRequired \in BOOLEAN
    /\ stage = "accepted"
    /\ deadlineAt = "off" /\ deadlineSet = FALSE
    /\ begun = FALSE /\ hasRoute = FALSE /\ upgraded = FALSE
    /\ open = [c \in Conns |-> c = "client" /\ kind = "socks5"]
    /\ shutdown = [c \in Conns |-> FALSE]
    /\ peer = [c \in Conns |-> "talking"]
    /\ copied = [d \in Directions2 |-> FALSE]
    /\ copyEnd = [d \in Directions2 |-> "idle"]
    /\ netOK = FALSE /\ logged = {} /\ verdicts = {} /\ emitted = 0

-----------------------------------------------------------------------------
\* The deferred calls of a handler: finish emits both events if a lifecycle was
\* begun; ServeConnContext closes the client.
HandlerReturns ==
    /\ stage' = "over"
    /\ emitted' = IF begun THEN emitted + 2 ELSE emitted

Blame(verdict) == verdicts' = IF hasRoute THEN verdicts \cup {verdict} ELSE verdicts
CloseAll == open' = [c \in Conns |-> FALSE]
CloseOwn == open' = [open EXCEPT !["client"] = FALSE]

\* authenticateV1: without a token any credential is taken unless the listener
\* requires one that names somebody.
AuthenticateV1 ==
    CASE tokenSet -> IF credential = "none" THEN "AUTH_REQUIRED"
                     ELSE IF credential = "wrong" THEN "AUTH_FAILED" ELSE "ok"
      [] ~tokenSet /\ authInfoRequired /\ credential \in {"none", "nameless"} -> "AUTH_REQUIRED"
      [] OTHER -> "ok"

Begin ==
    /\ stage' = "begun" /\ begun' = TRUE
    /\ UNCHANGED <<inputVars, hasRoute, tunnelVars, reportVars>>

Refuse ==
    /\ HandlerReturns
    /\ CloseOwn
    /\ UNCHANGED <<inputVars, begun, hasRoute, shutdown, peer, copied, copyEnd, netOK, logged, verdicts, upgraded>>

ForwardAuthenticates ==
    /\ stage = "accepted" /\ kind \in {"http", "connect"}
    /\ IF AuthenticateV1 = "ok" THEN Begin ELSE Refuse
    /\ UNCHANGED handshakeVars

\* parsePathV1: the token is checked before the rest of the path, which may be
\* malformed in its own ways. The identity segment may be empty.
ReverseParsesPath ==
    /\ stage = "accepted" /\ kind = "reverse"
    /\ \/ (tokenSet => credential \in {"right", "nameless"}) /\ Begin
       \/ Refuse
    /\ UNCHANGED handshakeVars

\* negotiateMethod: the handshake's timer goroutine runs from here on.
Socks5Negotiates ==
    /\ stage = "accepted" /\ kind = "socks5"
    /\ deadlineAt' = "waiting"
    /\ stage' = "greeted"
    /\ UNCHANGED <<inputVars, deadlineSet, begun, hasRoute, tunnelVars, reportVars>>

\* authenticateUserPass, or no authentication where neither a token nor the
\* listener asks for it. The token is the password: a nameless user has one only
\* with a token.
Socks5Authenticated ==
    /\ tokenSet => credential \in {"right", "nameless"}
    /\ ~tokenSet /\ authInfoRequired => credential \in {"right", "wrong"}

Socks5Authenticates ==
    /\ stage = "greeted" /\ ~deadlineSet
    /\ Socks5Authenticated
    /\ stage' = "identified"
    /\ UNCHANGED <<inputVars, handshakeVars, begun, hasRoute, tunnelVars, reportVars>>

\* A refused method, a wrong password, an unsupported command, a broken read, or
\* the deadline: a reply at most, no lifecycle.
Socks5HandshakeFails ==
    /\ stage \in {"greeted", "identified"}
    /\ Refuse
    /\ deadlineAt' = "done" /\ deadlineSet' = FALSE

\* run: the handshake's context ends and the goroutine sets both deadlines.
HandshakeExpires ==
    /\ deadlineAt = "waiting" /\ stage \in {"greeted", "identified"}
    /\ deadlineAt' = "expired"
    /\ UNCHANGED <<inputVars, stage, deadlineSet, begun, hasRoute, tunnelVars, reportVars>>

HandshakeSetsDeadline ==
    /\ deadlineAt = "expired"
    /\ deadlineAt' = "done" /\ deadlineSet' = TRUE
    /\ UNCHANGED <<inputVars, stage, begun, hasRoute, tunnelVars, reportVars>>

\* Mutant: Stop does not wait for the goroutine.
StopWithoutWaiting ==
    /\ stage = "identified" /\ ~deadlineSet
    /\ deadlineAt' = IF deadlineAt = "waiting" THEN "done" ELSE deadlineAt
    /\ deadlineSet' = FALSE
    /\ Begin

\* readSocks5ConnectRequest returned; Stop ends the goroutine, waits for it and
\* clears the deadlines.
Socks5Requested ==
    /\ stage = "identified" /\ ~deadlineSet
    /\ deadlineAt # "expired"
    /\ deadlineAt' = "done" /\ deadlineSet' = FALSE
    /\ Begin

\* The request had been read when the deadline struck: Stop clears it again.
Socks5RequestedLate ==
    /\ stage = "identified" /\ deadlineSet
    /\ deadlineSet' = FALSE
    /\ Begin
    /\ UNCHANGED deadlineAt

-----------------------------------------------------------------------------
\* A request that ends before it has an upstream: an account the platform
\* rejects, a bad target, no platform or no node. net_ok stays false.
EndsEarly ==
    /\ HandlerReturns
    /\ CloseOwn
    /\ UNCHANGED <<inputVars, handshakeVars, begun, hasRoute, shutdown, peer, copied, copyEnd,
                   netOK, logged, verdicts, upgraded>>

\* resolveReverseProxyAccount and buildReverseTargetURL refuse the request.
ReverseRejects ==
    /\ stage = "begun" /\ kind = "reverse"
    /\ EndsEarly

\* RouteRequest fails, or the node left the pool or lost its outbound since.
RouteFails ==
    /\ stage = "begun"
    /\ EndsEarly

\* ShouldBypass, or a route with its outbound.
ResolveRoutedOutbound(bypass) ==
    /\ stage = "begun"
    /\ hasRoute' = ~bypass
    /\ stage' = IF kind \in Tunnels THEN "dial" ELSE "roundTrip"
    /\ UNCHANGED <<inputVars, handshakeVars, begun, tunnelVars, reportVars>>

-----------------------------------------------------------------------------
\* RoundTrip fails: silently if the client canceled, else a failure of the node.
RoundTripFails(canceled) ==
    /\ stage = "roundTrip"
    /\ HandlerReturns
    /\ netOK' = canceled
    /\ IF canceled THEN UNCHANGED verdicts ELSE Blame(FALSE)
    /\ \E sent \in {{}, {"egress"}} :
         /\ copied' = [d \in Directions2 |-> d \in sent]
         /\ logged' = sent
    /\ UNCHANGED <<inputVars, handshakeVars, begun, hasRoute, open, shutdown, peer, copyEnd, upgraded>>

\* The upstream answered. handleHTTP sets net_ok and logs the headers and what was
\* sent; ModifyResponse also reports the node's success, and accepts a 101. The
\* counters of the reverse proxy's bodies are added after its ServeHTTP.
ResponseArrives(switching) ==
    /\ stage = "roundTrip"
    /\ switching => kind = "reverse"
    /\ stage' = IF switching THEN "upgrade" ELSE "response"
    /\ upgraded' = switching
    /\ open' = [open EXCEPT !["upstream"] = TRUE]
    /\ netOK' = TRUE
    /\ copied' = [d \in Directions2 |-> TRUE]
    /\ logged' = IF kind = "http" THEN Directions2 ELSE {"ingress"}
    /\ IF kind = "reverse" THEN Blame(TRUE) ELSE UNCHANGED verdicts
    /\ UNCHANGED <<inputVars, handshakeVars, begun, hasRoute, shutdown, peer, copyEnd, emitted>>

ResponseOver ==
    /\ HandlerReturns
    /\ open' = [open EXCEPT !["upstream"] = FALSE]
    /\ UNCHANGED <<inputVars, handshakeVars, begun, hasRoute, shutdown, peer, copied, copyEnd, upgraded>>

\* The body was copied: handleHTTP reports a success now.
BodyCopied ==
    /\ stage = "response"
    /\ logged' = Directions2
    /\ IF kind = "http" THEN Blame(TRUE) ELSE UNCHANGED verdicts
    /\ UNCHANGED netOK
    /\ ResponseOver

\* io.Copy failed in handleHTTP: shouldRecordForwardCopyFailure spares a request
\* whose context is canceled, which it is once the server saw the client go.
ForwardCopyFails(canceled) ==
    /\ stage = "response" /\ kind = "http"
    /\ netOK' = canceled
    /\ IF canceled THEN UNCHANGED verdicts ELSE Blame(FALSE)
    /\ UNCHANGED logged
    /\ ResponseOver

\* httputil.ReverseProxy panics with ErrAbortHandler when the body's copy fails:
\* what follows proxy.ServeHTTP is skipped, the deferred finish is not.
ReverseCopyAborts ==
    /\ stage = "response" /\ kind = "reverse"
    /\ UNCHANGED <<netOK, verdicts, logged>>
    /\ ResponseOver

\* handleUpgradeResponse copies both ways, or calls the ErrorHandler.
UpgradeEnds(failed) ==
    /\ stage = "upgrade"
    /\ netOK' = ~failed
    /\ IF failed THEN Blame(FALSE) ELSE UNCHANGED verdicts
    /\ logged' = Directions2
    /\ ResponseOver

-----------------------------------------------------------------------------
\* DialContext fails: canceled is net_ok, anything else is the node's failure.
DialFails(canceled) ==
    /\ stage = "dial"
    /\ HandlerReturns
    /\ CloseOwn
    /\ netOK' = canceled
    /\ IF canceled THEN UNCHANGED verdicts ELSE Blame(FALSE)
    /\ UNCHANGED <<inputVars, handshakeVars, begun, hasRoute, shutdown, peer, copied, copyEnd, logged, upgraded>>

DialSucceeds ==
    /\ stage = "dial"
    /\ stage' = "answer"
    /\ open' = [open EXCEPT !["upstream"] = TRUE]
    /\ UNCHANGED <<inputVars, handshakeVars, begun, hasRoute, shutdown, peer, copied, copyEnd, reportVars>>

\* Hijack fails: the upstream is closed, and the node is given a failure.
HijackFails ==
    /\ stage = "answer" /\ kind = "connect"
    /\ HandlerReturns
    /\ CloseAll
    /\ Blame(FALSE)
    /\ UNCHANGED <<inputVars, handshakeVars, begun, hasRoute, shutdown, peer, copied, copyEnd, netOK, logged, upgraded>>

\* Mutant: the failed answer closes the client only.
AnswerFailsLeaking ==
    /\ stage = "answer"
    /\ HandlerReturns
    /\ CloseOwn
    /\ UNCHANGED <<inputVars, handshakeVars, begun, hasRoute, shutdown, peer, copied, copyEnd,
                   netOK, logged, verdicts, upgraded>>

\* The success reply cannot be written: both connections are closed, no verdict.
AnswerFails ==
    /\ stage = "answer"
    /\ HandlerReturns
    /\ CloseAll
    /\ UNCHANGED <<inputVars, handshakeVars, begun, hasRoute, shutdown, peer, copied, copyEnd,
                   netOK, logged, verdicts, upgraded>>

\* The reply is written and the two copy goroutines start.
AnswerClient ==
    /\ stage = "answer"
    /\ stage' = "relay"
    /\ open' = [open EXCEPT !["client"] = TRUE]
    /\ copyEnd' = [d \in Directions2 |-> "running"]
    /\ UNCHANGED <<inputVars, handshakeVars, begun, hasRoute, shutdown, peer, copied, reportVars>>

\* The remote ends, while the tunnel stands: FIN or RST.
PeerFinishes(c) ==
    /\ stage = "relay" /\ peer[c] = "talking"
    /\ peer' = [peer EXCEPT ![c] = "finished"]
    /\ UNCHANGED <<inputVars, handshakeVars, stage, begun, hasRoute, open, shutdown, copied, copyEnd, reportVars>>

PeerResets(c) ==
    /\ stage = "relay" /\ peer[c] # "reset"
    /\ peer' = [peer EXCEPT ![c] = "reset"]
    /\ UNCHANGED <<inputVars, handshakeVars, stage, begun, hasRoute, open, shutdown, copied, copyEnd, reportVars>>

\* A remote that was told of the end, by FIN or by RST, ends too.
PeerFollows(c) == (shutdown[c] \/ ~open[c]) /\ PeerFinishes(c)

isBenignTunnelCopyError(err) == err \in {"nil", "closed"}
isClientReadResetError(err) == err = "reset"

\* Mutant: a finished copy leaves the other side alone.
CopyEndsQuietly(d, err) ==
    /\ copyEnd' = [copyEnd EXCEPT ![d] = err]
    /\ IF isBenignTunnelCopyError(err) THEN UNCHANGED <<open, shutdown>>
       ELSE open' = [c \in Conns |-> FALSE] /\ UNCHANGED shutdown

\* io.Copy returned: pass the end on by CloseWrite, or close both connections
\* after an error or where CloseWrite fails or is not offered.
CopyEndsWith(d, err) ==
    /\ copyEnd' = [copyEnd EXCEPT ![d] = err]
    /\ \/ /\ isBenignTunnelCopyError(err)
          /\ open[Sink(d)] /\ peer[Sink(d)] # "reset"
          /\ shutdown' = [shutdown EXCEPT ![Sink(d)] = TRUE]
          /\ UNCHANGED open
       \/ open' = [c \in Conns |-> FALSE] /\ UNCHANGED shutdown

CopyStep(d) ==
    /\ stage = "relay" /\ copyEnd[d] = "running"
    /\ UNCHANGED <<inputVars, handshakeVars, stage, begun, hasRoute, peer, reportVars>>

CopyMoves(d) ==
    /\ CopyStep(d)
    /\ open[Source(d)] /\ open[Sink(d)] /\ peer[Source(d)] = "talking" /\ peer[Sink(d)] # "reset"
    /\ copied' = [copied EXCEPT ![d] = TRUE]
    /\ UNCHANGED <<open, shutdown, copyEnd>>

CopyReturns(d) ==
    /\ CopyStep(d)
    /\ UNCHANGED copied
    /\ \/ ~(open[Source(d)] /\ open[Sink(d)]) /\ CopyEndsWith(d, "closed")
       \/ open[Source(d)] /\ peer[Source(d)] = "finished" /\ CopyEndsWith(d, "nil")
       \/ open[Source(d)] /\ peer[Source(d)] = "reset" /\ CopyEndsWith(d, "reset")

\* A write meets a sink whose remote has reset the connection: ECONNRESET or EPIPE.
CopyWriteFails(d) ==
    /\ CopyStep(d)
    /\ open[Source(d)] /\ open[Sink(d)] /\ peer[Source(d)] = "talking" /\ peer[Sink(d)] = "reset"
    /\ UNCHANGED copied
    /\ CopyEndsWith(d, "reset") \/ CopyEndsWith(d, "pipe")

\* pumpPreparedTunnelReader's judgement. A reset of the egress copy is forgiven
\* once the upstream has answered; CONNECT also wants traffic both ways.
RelayOK ==
    /\ isBenignTunnelCopyError(copyEnd["ingress"])
    /\ \/ isBenignTunnelCopyError(copyEnd["egress"])
       \/ isClientReadResetError(copyEnd["egress"]) /\ copied["ingress"]
    /\ kind = "connect" => copied["egress"] /\ copied["ingress"]

\* Mutant: the judgement is not written to the log.
RelayEndsUnlogged ==
    /\ stage = "relay"
    /\ \A d \in Directions2 : copyEnd[d] # "running"
    /\ HandlerReturns
    /\ CloseAll
    /\ logged' = {d \in Directions2 : copied[d]}
    /\ Blame(RelayOK)
    /\ UNCHANGED <<inputVars, handshakeVars, begun, hasRoute, shutdown, peer, copied, copyEnd, netOK, upgraded>>

\* Both copies have returned: close both, log and judge.
RelayEnds ==
    /\ stage = "relay"
    /\ \A d \in Directions2 : copyEnd[d] # "running"
    /\ HandlerReturns
    /\ CloseAll
    /\ netOK' = RelayOK
    /\ logged' = {d \in Directions2 : copied[d]}
    /\ Blame(RelayOK)
    /\ UNCHANGED <<inputVars, handshakeVars, begun, hasRoute, shutdown, peer, copied, copyEnd, upgraded>>

\* makeTunnelClientReader cannot drain what the protocol reader had buffered.
PrefetchFails ==
    /\ stage = "answer"
    /\ HandlerReturns
    /\ CloseAll
    /\ Blame(FALSE)
    /\ UNCHANGED <<inputVars, handshakeVars, begun, hasRoute, shutdown, peer, copied, copyEnd, netOK, logged, upgraded>>

-----------------------------------------------------------------------------
Handshake ==
    \/ Socks5Negotiates \/ Socks5Authenticates \/ Socks5HandshakeFails
    \/ HandshakeExpires \/ HandshakeSetsDeadline \/ Socks5Requested \/ Socks5RequestedLate

Exchange ==
    \/ \E canceled \in BOOLEAN : RoundTripFails(canceled) \/ ForwardCopyFails(canceled) \/ DialFails(canceled)
    \/ \E switching \in BOOLEAN : ResponseArrives(switching)
    \/ \E failed \in BOOLEAN : UpgradeEnds(failed)
    \/ BodyCopied \/ ReverseCopyAborts
    \/ DialSucceeds \/ HijackFails \/ AnswerFails \/ PrefetchFails \/ AnswerClient

Relay == RelayEnds \/ \E d \in Directions2 : CopyMoves(d) \/ CopyReturns(d) \/ CopyWriteFails(d)

RequestNext ==
    \/ ForwardAuthenticates \/ ReverseParsesPath \/ Handshake
    \/ ReverseRejects \/ RouteFails
    \/ \E bypass \in BOOLEAN : ResolveRoutedOutbound(bypass)
    \/ Exchange \/ Relay
    \/ \E c \in Conns : PeerFinishes(c) \/ PeerResets(c)

\* The copy goroutines run. A remote that was told of the end is taken to end.
RelayFairness ==
    /\ WF_requestVars(RelayEnds)
    /\ \A d \in Directions2 : WF_requestVars(CopyReturns(d))
    /\ \A c \in Conns : WF_requestVars(PeerFollows(c))

RequestSpec == RequestInit /\ [][RequestNext]_requestVars /\ RelayFairness

-----------------------------------------------------------------------------
\* When the handler has returned it holds no connection, on any of its paths, and
\* has emitted both events if it had begun a lifecycle; and no deadline of a
\* SOCKS5 handshake reaches into the request that follows it.
NothingHeldAtEnd ==
    /\ stage = "over" =>
        /\ \A c \in Conns : ~open[c]
        /\ emitted = IF begun THEN 2 ELSE 0
    /\ begun => ~deadlineSet

\* What health is told of a node is what the log says of the request: a failure
\* only where net_ok is false, a success only where it is true. An upgrade that
\* fails after its 101 is the exception: health was told of both.
VerdictMatchesLog ==
    stage = "over" =>
        /\ FALSE \in verdicts => ~netOK
        /\ TRUE \in verdicts => netOK \/ upgraded

\* A tunnel ends soon after either of its remotes has ended: the end is passed on,
\* or both connections are closed.
TunnelEnds == (stage = "relay" /\ \E c \in Conns : peer[c] # "talking") ~> stage = "over"

\* The comment in pumpPreparedTunnelReader: "A client-side TCP reset after the
\* upstream response has already started is a shutdown artifact, not an upstream
\* failure." The node of such a tunnel is not given a failure, which does not
\* hold when the other direction meets the reset in a write and closes both.
ClientResetForgiven ==
    stage = "over" /\ peer["client"] = "reset" /\ peer["upstream"] = "talking"
      /\ copied["egress"] /\ copied["ingress"] /\ (\A d \in Directions2 : copyEnd[d] # "idle")
    => FALSE \notin verdicts

\* What a request moved is in its log entry, which does not hold when the copy of
\* a reverse response is aborted: what was sent is added after ServeHTTP.
TrafficLogged == stage = "over" => {d \in Directions2 : copied[d]} \subseteq logged
=============================================================================
