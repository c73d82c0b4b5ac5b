-------------------------- MODULE OutboundLifecycle --------------------------
(***************************************************************************)
(* The outbounds of one node hash: EnsureNodeOutbound and                  *)
(* RemoveNodeOutbound of internal/outbound/manager.go against the pool     *)
(* entries of that hash, which come and go while an outbound is built.     *)
(* An outbound is a live proxy client: closing it twice, closing one that  *)
(* is installed, or dropping one unclosed are the errors to exclude.       *)
(***************************************************************************)
EXTENDS Naturals, ConcurrentMap

CONSTANTS
    Entries,      \* NodeEntry objects the hash gets, one after the other
    Outbounds,    \* outbounds built
    Callers,      \* goroutines in the outbound manager
    NoEntry, NoOutbound

ASSUME OutboundAssumption == NoEntry \notin Entries /\ NoOutbound \notin Outbounds

VARIABLES
    live,         \* the pool's entry of the hash
    gone,         \* entries that were in the pool and are not
    slot,         \* entry -> its Outbound pointer
    closes,       \* outbound -> how often it was closed; built ones only
    calls,        \* goroutine -> its call
    transport     \* OutboundTransportPool: the outbound the pooled transport dials with

outboundVars == <<live, gone, slot, closes, calls, transport>>

Call == [pc : {"check", "build", "verify", "cas", "recheck", "undo", "discard", "remove", "evict", "get"},
         entry : Entries, ob : Outbounds \cup {NoOutbound}]

OutboundTypeOK ==
    /\ live \in Entries \cup {NoEntry}
    /\ gone \in SUBSET Entries
    /\ slot \in [Entries -> Outbounds \cup {NoOutbound}]
    /\ IsMap(closes, Outbounds, Nat)
    /\ IsMap(calls, Callers, Call)
    /\ transport \in Outbounds \cup {NoOutbound}

OutboundInit ==
    /\ live = NoEntry
    /\ gone = {}
    /\ slot = [e \in Entries |-> NoOutbound]
    /\ closes = EmptyMap
    /\ calls = EmptyMap
    /\ transport = NoOutbound

CallAt(g, phase) == g \in DOMAIN calls /\ calls[g].pc = phase
CallGoto(g, phase) == calls' = [calls EXCEPT ![g].pc = phase]
Return(g) == calls' = MapDelete(calls, g)
NewCall(g, phase) ==
    /\ g \notin DOMAIN calls
    /\ calls' = MapPut(calls, g, [pc |-> phase, entry |-> live, ob |-> NoOutbound])

Closed(ob) == IF ob = NoOutbound THEN closes ELSE [closes EXCEPT ![ob] = @ + 1]

-----------------------------------------------------------------------------
\* AddNodeFromSub and RemoveNodeFromSub: the hash gets an entry and loses it;
\* onNodeRemoved follows, with the entry that was removed.
EntryAdded(e) ==
    /\ live = NoEntry
    /\ e \notin gone
    /\ live' = e
    /\ UNCHANGED <<gone, slot, closes, calls, transport>>

EntryRemoved(g) ==
    /\ live # NoEntry
    /\ NewCall(g, "remove")
    /\ gone' = gone \cup {live}
    /\ live' = NoEntry
    /\ UNCHANGED <<slot, closes, transport>>

\* closeOutbound of what is in the slot of the call's entry.
ClearSlot(g) ==
    LET e == calls[g].entry
    IN  /\ slot' = [slot EXCEPT ![e] = NoOutbound]
        /\ closes' = Closed(slot[e])
        /\ UNCHANGED <<live, gone, transport>>

\* onNodeRemoved closes the outbound, then evicts the pooled transport.
RemoveNodeOutbound(g) == CallAt(g, "remove") /\ ClearSlot(g) /\ CallGoto(g, "evict")

EvictTransport(g) ==
    /\ CallAt(g, "evict")
    /\ transport' = NoOutbound
    /\ Return(g)
    /\ UNCHANGED <<live, gone, slot, closes>>

\* EnsureNodeOutbound: look the entry up, ...
EnsureNode(g) ==
    /\ live # NoEntry
    /\ NewCall(g, "check")
    /\ UNCHANGED <<live, gone, slot, closes, transport>>

\* ... return if it has an outbound, ...
EnsureCheck(g) ==
    /\ CallAt(g, "check")
    /\ IF slot[calls[g].entry] # NoOutbound THEN Return(g) ELSE CallGoto(g, "build")
    /\ UNCHANGED <<live, gone, slot, closes, transport>>

\* ... build one (a failure or a panic ends the call), ...
BuildOutbound(g, ob) ==
    /\ CallAt(g, "build")
    /\ ob \notin DOMAIN closes
    /\ closes' = MapPut(closes, ob, 0)
    /\ calls' = [calls EXCEPT ![g].pc = "verify", ![g].ob = ob]
    /\ UNCHANGED <<live, gone, slot, transport>>

BuildFails(g) ==
    /\ CallAt(g, "build")
    /\ Return(g)
    /\ UNCHANGED <<live, gone, slot, closes, transport>>

\* ... see that the entry is still live, ...
VerifyLive(g) ==
    /\ CallAt(g, "verify")
    /\ CallGoto(g, IF live = calls[g].entry THEN "cas" ELSE "discard")
    /\ UNCHANGED <<live, gone, slot, closes, transport>>

\* Mutant: the loser of the race closes the winner's outbound.
CasClosesWinner(g) ==
    /\ CallAt(g, "cas")
    /\ LET e == calls[g].entry
       IN  IF slot[e] = NoOutbound
           THEN /\ slot' = [slot EXCEPT ![e] = calls[g].ob]
                /\ CallGoto(g, "recheck")
                /\ UNCHANGED closes
           ELSE /\ closes' = Closed(slot[e])
                /\ Return(g)
                /\ UNCHANGED slot
    /\ UNCHANGED <<live, gone, transport>>

\* ... install it if nobody else has, ...
CasOutbound(g) ==
    /\ CallAt(g, "cas")
    /\ LET e == calls[g].entry
       IN  IF slot[e] = NoOutbound
           THEN /\ slot' = [slot EXCEPT ![e] = calls[g].ob]
                /\ CallGoto(g, "recheck")
           ELSE /\ CallGoto(g, "discard")
                /\ UNCHANGED slot
    /\ UNCHANGED <<live, gone, closes, transport>>

\* Mutant: no second look after the installation.
NoRecheck(g) ==
    /\ CallAt(g, "recheck")
    /\ Return(g)
    /\ UNCHANGED <<live, gone, slot, closes, transport>>

\* ... and take it back if the entry went away meanwhile.
RecheckLive(g) ==
    /\ CallAt(g, "recheck")
    /\ IF live = calls[g].entry THEN Return(g) ELSE CallGoto(g, "undo")
    /\ UNCHANGED <<live, gone, slot, closes, transport>>

UndoInstall(g) == CallAt(g, "undo") /\ ClearSlot(g) /\ Return(g)

DiscardOutbound(g) ==
    /\ CallAt(g, "discard")
    /\ closes' = Closed(calls[g].ob)
    /\ Return(g)
    /\ UNCHANGED <<live, gone, slot, transport>>

-----------------------------------------------------------------------------
\* A proxied HTTP request: resolveRoutedOutbound takes the outbound of the
\* live entry, ...
ResolveRoutedOutbound(g) ==
    /\ g \notin DOMAIN calls
    /\ live # NoEntry /\ slot[live] # NoOutbound
    /\ calls' = MapPut(calls, g, [pc |-> "get", entry |-> live, ob |-> slot[live]])
    /\ UNCHANGED <<live, gone, slot, closes, transport>>

\* ... and the transport is the pooled one of the hash, or a new one that
\* dials with that outbound and stays in the pool.
GetTransport(g) ==
    /\ CallAt(g, "get")
    /\ transport' = IF transport = NoOutbound THEN calls[g].ob ELSE transport
    /\ Return(g)
    /\ UNCHANGED <<live, gone, slot, closes>>

OutboundNext ==
    \/ \E e \in Entries : EntryAdded(e)
    \/ \E g \in Callers :
         \/ EntryRemoved(g)
         \/ RemoveNodeOutbound(g)
         \/ EvictTransport(g)
         \/ EnsureNode(g)
         \/ EnsureCheck(g)
         \/ \E ob \in Outbounds : BuildOutbound(g, ob)
         \/ BuildFails(g)
         \/ VerifyLive(g)
         \/ CasOutbound(g)
         \/ RecheckLive(g)
         \/ UndoInstall(g)
         \/ DiscardOutbound(g)
         \/ ResolveRoutedOutbound(g)
         \/ GetTransport(g)

OutboundSpec == OutboundInit /\ [][OutboundNext]_outboundVars

-----------------------------------------------------------------------------
\* Every outbound is closed at most once, and not while an entry has it.
ClosedOnce ==
    \A ob \in DOMAIN closes :
        /\ closes[ob] <= 1
        /\ \A e \in Entries : slot[e] = ob => closes[ob] = 0

\* The call of g will look at the slot of entry e again and clear it if e is
\* not in the pool.
WillClear(g, e) ==
    g \in DOMAIN calls /\ calls[g].entry = e /\ calls[g].pc \in {"recheck", "undo", "remove"}

\* No outbound is leaked: one that is not closed belongs to a call under way,
\* or to an entry that is in the pool or whose slot will still be cleared.
NoLeakedOutbound ==
    \A ob \in DOMAIN closes :
        closes[ob] = 0 =>
            \/ \E g \in DOMAIN calls :
                 calls[g].ob = ob /\ calls[g].pc \in {"verify", "cas", "discard"}
            \/ \E e \in Entries :
                 slot[e] = ob /\ (e = live \/ \E g \in Callers : WillClear(g, e))

\* The pool's transport is evicted on node removal: when no removal is under
\* way, a pooled transport dials with an outbound that is not closed.
TransportDialsOpenOutbound ==
    (~ \E g \in Callers : CallAt(g, "remove") \/ CallAt(g, "evict") \/ CallAt(g, "undo"))
        => transport = NoOutbound \/ closes[transport] = 0
=============================================================================
