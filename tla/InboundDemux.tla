---------------------------- MODULE InboundDemux ----------------------------
(***************************************************************************)
(* A listener's server: it accepts connections, looks at the first byte in *)
(* a worker goroutine per connection, and hands them to the SOCKS5 handler *)
(* or, through an in-memory listener, to the HTTP server.  Shutdown stops  *)
(* all of it while connections are anywhere in between.                    *)
(*                                                                         *)
(* The HTTP server is external: it takes connections from the in-memory    *)
(* listener, serves them, and may give one up to its handler (Hijack).  Its*)
(* Shutdown closes that listener and waits for the connections it serves,  *)
(* its Close closes them.  Serve has passed its locked prologue here.      *)
(***************************************************************************)
EXTENDS Naturals, FiniteSets

CONSTANTS
    Clients,           \* connections
    HttpQueueSize      \* connChannelListenerCapacity

VARIABLES
    connAt,            \* where a connection is
    connOpen,          \* connections the server has not closed
    activeConns, sniffConns,
    outerOpen,         \* the TCP listener
    httpListenerOpen,  \* the in-memory listener
    baseCanceled, shuttingDown,
    shutdownAt,        \* steps of Shutdown
    deadlinePassed     \* its context is done

demuxVars == <<connAt, connOpen, activeConns, sniffConns, outerOpen, httpListenerOpen,
               baseCanceled, shuttingDown, shutdownAt, deadlinePassed>>
tables == <<activeConns, sniffConns>>
server == <<outerOpen, httpListenerOpen, baseCanceled, shuttingDown, shutdownAt, deadlinePassed>>

\* A worker goroutine, counted by workerWG, is responsible in these places.
WorkerPlaces == {"started", "tracked", "sniffing", "socksFirst", "httpFirst",
                 "handshake", "canceledHandshake", "tunnel"}
Places == {"new", "accepted", "queued", "http", "hijacked", "over"} \cup WorkerPlaces
Workers == {c \in Clients : connAt[c] \in WorkerPlaces}
In(place) == {c \in Clients : connAt[c] = place}

DemuxTypeOK ==
    /\ connAt \in [Clients -> Places]
    /\ connOpen \subseteq Clients /\ activeConns \subseteq Clients /\ sniffConns \subseteq Clients
    /\ {outerOpen, httpListenerOpen, baseCanceled, shuttingDown, deadlinePassed} \subseteq BOOLEAN
    /\ shutdownAt \in {"no", "cancel", "outer", "sniff", "http", "active", "wait", "late", "lateWait", "done"}

DemuxInit ==
    /\ connAt = [c \in Clients |-> "new"]
    /\ connOpen = {} /\ activeConns = {} /\ sniffConns = {}
    /\ outerOpen = TRUE /\ httpListenerOpen = TRUE
    /\ baseCanceled = FALSE /\ shuttingDown = FALSE
    /\ shutdownAt = "no" /\ deadlinePassed = FALSE

-----------------------------------------------------------------------------
(* Serve, handleAcceptedConn *)

Moves(c, from, to) == connAt[c] = from /\ connAt' = [connAt EXCEPT ![c] = to]

\* The connection ends: closed and in no table.
Ends(c) ==
    /\ connAt' = [connAt EXCEPT ![c] = "over"]
    /\ connOpen' = connOpen \ {c}
    /\ activeConns' = activeConns \ {c} /\ sniffConns' = sniffConns \ {c}
    /\ UNCHANGED server

Accept(c) ==
    /\ outerOpen
    /\ Moves(c, "new", "accepted")
    /\ connOpen' = connOpen \cup {c}
    /\ UNCHANGED <<tables, server>>

\* Mutant: the worker starts whether or not a shutdown is under way.
StartUnchecked(c) ==
    /\ Moves(c, "accepted", "started")
    /\ UNCHANGED <<connOpen, tables, server>>

\* tryStartConnWorker, under the lock that Shutdown's first step takes.
TryStartConnWorker(c) ==
    \/ ~shuttingDown /\ Moves(c, "accepted", "started") /\ UNCHANGED <<connOpen, tables, server>>
    \/ shuttingDown /\ connAt[c] = "accepted" /\ Ends(c)

TrackActiveConn(c) ==
    /\ Moves(c, "started", "tracked")
    /\ activeConns' = activeConns \cup {c}
    /\ UNCHANGED <<connOpen, sniffConns, server>>

TrackSniffConn(c) ==
    /\ Moves(c, "tracked", "sniffing")
    /\ sniffConns' = sniffConns \cup {c}
    /\ UNCHANGED <<connOpen, activeConns, server>>

\* The first byte, or none: the peer left, the sniff deadline, or a closed connection.
SniffByte(c, first) ==
    /\ c \in connOpen
    /\ Moves(c, "sniffing", first)
    /\ sniffConns' = sniffConns \ {c}
    /\ UNCHANGED <<connOpen, activeConns, server>>

SniffFails(c) == connAt[c] = "sniffing" /\ Ends(c)

\* ServeConnContext with the server's base context, canceled or not.
ServeSocks(c) ==
    /\ Moves(c, "socksFirst", IF baseCanceled THEN "canceledHandshake" ELSE "handshake")
    /\ UNCHANGED <<connOpen, tables, server>>

\* The tunnel stands: with a context that was live when the handler began.
SocksTunnel(c) ==
    /\ c \in connOpen
    /\ Moves(c, "handshake", "tunnel")
    /\ UNCHANGED <<connOpen, tables, server>>

\* A handshake ends by itself, by its deadline or by cancellation; a tunnel when
\* either side leaves or the server closes the connection.
SocksEnds(c) == connAt[c] \in {"handshake", "canceledHandshake", "tunnel"} /\ Ends(c)

\* Enqueue: wait for room; a closed listener refuses.
Enqueue(c) ==
    \/ /\ httpListenerOpen /\ Cardinality(In("queued")) < HttpQueueSize
       /\ Moves(c, "httpFirst", "queued")
       /\ UNCHANGED <<connOpen, tables, server>>
    \/ ~httpListenerOpen /\ connAt[c] = "httpFirst" /\ Ends(c)

-----------------------------------------------------------------------------
(* The HTTP server *)

HttpAccept(c) ==
    /\ httpListenerOpen
    /\ Moves(c, "queued", "http")
    /\ UNCHANGED <<connOpen, tables, server>>

Hijack(c) ==
    /\ c \in connOpen
    /\ Moves(c, "http", "hijacked")
    /\ UNCHANGED <<connOpen, tables, server>>

HttpEnds(c) == connAt[c] \in {"http", "hijacked"} /\ Ends(c)

\* Connections are closed where they are; their owners notice.
CloseConns(conns) == connOpen' = connOpen \ conns

\* connChannelListener.Close: what is queued is closed, its hook untracks it.
CloseHttpListener ==
    /\ httpListenerOpen' = FALSE
    /\ connAt' = [c \in Clients |-> IF connAt[c] = "queued" THEN "over" ELSE connAt[c]]
    /\ CloseConns(In("queued"))
    /\ activeConns' = activeConns \ In("queued")

\* Accept fails once the TCP listener is closed: Serve returns.
ServeReturns ==
    /\ ~outerOpen /\ httpListenerOpen
    /\ CloseHttpListener
    /\ UNCHANGED <<sniffConns, outerOpen, baseCanceled, shuttingDown, shutdownAt, deadlinePassed>>

-----------------------------------------------------------------------------
(* Shutdown *)

ShutdownGoes(from, to) == shutdownAt = from /\ shutdownAt' = to

BeginShutdown ==
    /\ ShutdownGoes("no", "cancel")
    /\ shuttingDown' = TRUE
    /\ UNCHANGED <<connAt, connOpen, tables, outerOpen, httpListenerOpen, baseCanceled, deadlinePassed>>

CancelBase ==
    /\ ShutdownGoes("cancel", "outer")
    /\ baseCanceled' = TRUE
    /\ UNCHANGED <<connAt, connOpen, tables, outerOpen, httpListenerOpen, shuttingDown, deadlinePassed>>

CloseOuter ==
    /\ ShutdownGoes("outer", "sniff")
    /\ outerOpen' = FALSE
    /\ UNCHANGED <<connAt, connOpen, tables, httpListenerOpen, baseCanceled, shuttingDown, deadlinePassed>>

CloseSniffConns ==
    /\ ShutdownGoes("sniff", "http")
    /\ CloseConns(sniffConns)
    /\ sniffConns' = {}
    /\ UNCHANGED <<connAt, activeConns, outerOpen, httpListenerOpen, baseCanceled, shuttingDown, deadlinePassed>>

\* http.Server.Shutdown closes its listener first, then waits for what it serves.
HttpShutdownCloses ==
    /\ shutdownAt = "http" /\ httpListenerOpen
    /\ CloseHttpListener
    /\ UNCHANGED <<sniffConns, outerOpen, baseCanceled, shuttingDown, shutdownAt, deadlinePassed>>

HttpShutdownReturns ==
    /\ ~httpListenerOpen
    /\ ShutdownGoes("http", "active")
    /\ \/ In("http") = {} /\ UNCHANGED connOpen
       \/ deadlinePassed /\ CloseConns(In("http"))
    /\ UNCHANGED <<connAt, tables, outerOpen, httpListenerOpen, baseCanceled, shuttingDown, deadlinePassed>>

\* Mutant: only the connections that are being sniffed.
CloseOnlySniffing == CloseConns(sniffConns) /\ activeConns' = {}

CloseTracked == CloseConns(activeConns) /\ activeConns' = {}

CloseActiveConns ==
    /\ ShutdownGoes("active", "wait")
    /\ CloseTracked
    /\ UNCHANGED <<connAt, sniffConns, outerOpen, httpListenerOpen, baseCanceled, shuttingDown, deadlinePassed>>

\* The deadline comes before the last worker: close again, and wait on.
CloseLate ==
    /\ deadlinePassed
    /\ ShutdownGoes("wait", "lateWait")
    /\ CloseTracked
    /\ UNCHANGED <<connAt, sniffConns, outerOpen, httpListenerOpen, baseCanceled, shuttingDown, deadlinePassed>>

ShutdownReturns ==
    /\ Workers = {}
    /\ shutdownAt \in {"wait", "lateWait"} /\ shutdownAt' = "done"
    /\ UNCHANGED <<connAt, connOpen, tables, outerOpen, httpListenerOpen, baseCanceled, shuttingDown, deadlinePassed>>

DeadlinePasses ==
    /\ shutdownAt # "no" /\ ~deadlinePassed
    /\ deadlinePassed' = TRUE
    /\ UNCHANGED <<connAt, connOpen, tables, outerOpen, httpListenerOpen, baseCanceled, shuttingDown, shutdownAt>>

-----------------------------------------------------------------------------
WorkerStep(c) ==
    \/ TryStartConnWorker(c) \/ TrackActiveConn(c) \/ TrackSniffConn(c)
    \/ SniffFails(c) \/ ServeSocks(c) \/ Enqueue(c)

ShutdownStep ==
    \/ CancelBase \/ CloseOuter \/ CloseSniffConns \/ HttpShutdownCloses \/ HttpShutdownReturns
    \/ CloseActiveConns \/ CloseLate \/ ShutdownReturns

DemuxNext ==
    \/ \E c \in Clients :
         \/ Accept(c) \/ WorkerStep(c)
         \/ \E first \in {"socksFirst", "httpFirst"} : SniffByte(c, first)
         \/ SocksTunnel(c) \/ SocksEnds(c)
         \/ HttpAccept(c) \/ Hijack(c) \/ HttpEnds(c)
    \/ BeginShutdown \/ ShutdownStep \/ DeadlinePasses
    \/ ServeReturns

\* Goroutines run; a sniff has its deadline and a handshake too; a tunnel or an
\* exchange need not end unless its connection is closed; deadlines pass.
ForcedEnd(c) ==
    /\ \/ connAt[c] \in {"handshake", "canceledHandshake"}
       \/ c \notin connOpen
    /\ SocksEnds(c) \/ HttpEnds(c)

DemuxFairness ==
    /\ \A c \in Clients : WF_demuxVars(WorkerStep(c)) /\ WF_demuxVars(ForcedEnd(c))
    /\ WF_demuxVars(ShutdownStep) /\ WF_demuxVars(DeadlinePasses)

DemuxSpec == DemuxInit /\ [][DemuxNext]_demuxVars /\ DemuxFairness

-----------------------------------------------------------------------------
(* Properties *)

\* When Shutdown has returned nothing it accepted is left: no worker, no tunnel,
\* no hijacked connection, wherever they were when it began. An accepted
\* connection that has no worker yet will be refused (Shutdown: "disabling an
\* endpoint also terminates its established tunnels").
NothingSurvivesShutdown ==
    shutdownAt = "done" => Workers = {} /\ connOpen \subseteq In("accepted")

\* Shutdown returns, though tunnels never end by themselves.
ShutdownEnds == shutdownAt = "cancel" ~> shutdownAt = "done"
=============================================================================
