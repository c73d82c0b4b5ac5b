---------------------------- MODULE MCBackground ----------------------------
(* Model-checking instance of the parts that run beside the router and must*)
(* get to an end: the flush of cache.db, the handler of one proxied request,*)
(* the inbound server and its shutdown, the request log.  They share no    *)
(* variable: each behaviour runs one of them, and its fairness is the one  *)
(* its module states, for the part that runs.                              *)
EXTENDS DirtyFlush, ProxyRequest, InboundDemux, RequestLog, TLC

CONSTANTS k1, k2, w1, w2, w3

VARIABLE part

\* k1 is a lease that two requests write, k2 a node that one refresh writes.
LeaseAndNode == (w1 :> {k1}) @@ (w2 :> {k1}) @@ (w3 :> {k2})

allVars == <<part, vars, requestVars, demuxVars, logVars>>

PartsInit ==
    /\ part \in {"flush", "request", "inbound", "log"}
    /\ Init
    /\ RequestInit
    /\ part # "request" => kind = "reverse" /\ credential = "none" /\ ~tokenSet /\ ~authInfoRequired
    /\ DemuxInit
    /\ LogInit
    /\ activeDB = CHOOSE f \in LogFiles : TRUE

FlushRuns == part = "flush" /\ Next /\ UNCHANGED <<part, requestVars, demuxVars, logVars>>
RequestRuns == part = "request" /\ RequestNext /\ UNCHANGED <<part, vars, demuxVars, logVars>>
InboundRuns == part = "inbound" /\ DemuxNext /\ UNCHANGED <<part, vars, requestVars, logVars>>
LogRuns == part = "log" /\ LogNext /\ UNCHANGED <<part, vars, requestVars, demuxVars>>

PartsNext == FlushRuns \/ RequestRuns \/ InboundRuns \/ LogRuns

PartsFairness ==
    /\ \A w \in MarkFirst \cup MarkLast : WF_vars(part = "flush" /\ WriterStep(w))
    /\ WF_vars(part = "flush" /\ FlushStep)
    /\ WF_requestVars(part = "request" /\ RelayEnds)
    /\ \A d \in Directions2 : WF_requestVars(part = "request" /\ CopyReturns(d))
    /\ \A c \in Conns : WF_requestVars(part = "request" /\ PeerFollows(c))
    /\ \A c \in Clients : /\ WF_demuxVars(part = "inbound" /\ WorkerStep(c))
                          /\ WF_demuxVars(part = "inbound" /\ ForcedEnd(c))
    /\ WF_demuxVars(part = "inbound" /\ ShutdownStep)
    /\ WF_demuxVars(part = "inbound" /\ DeadlinePasses)
    /\ WF_logVars(part = "log" /\ LoopStep)
    /\ \A r \in Readers : /\ SF_logVars(part = "log" /\ TakeWaiter(r))
                          /\ WF_logVars(part = "log" /\ QueryContinues(r))

PartsSpec == PartsInit /\ [][PartsNext]_allVars /\ PartsFairness
=============================================================================
