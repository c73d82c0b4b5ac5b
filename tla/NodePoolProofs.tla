--------------------------- MODULE NodePoolProofs ---------------------------
(***************************************************************************)
(* Proofs about the nodes of the pool.  OutboundLifecycle: every outbound  *)
(* is closed at most once and never while it is installed, and none is     *)
(* leaked.  RoutableViews: the registered platform's view says of every    *)
(* node what the node's state says, or a goroutine is about to see to it.  *)
(* Both for any number of nodes, objects and goroutines; they share no     *)
(* state.                                                                  *)
(***************************************************************************)
EXTENDS OutboundLifecycle, RoutableViews, ConcurrentMapProofs, TLAPS

-----------------------------------------------------------------------------
(* Outbounds *)

\* A call owns the outbound it built until it has installed or closed it.
Owns(g) == g \in DOMAIN calls /\ calls[g].pc \in {"verify", "cas", "discard"}

\* What a call owns is open, in no slot, and nobody else's.
OwnedInv ==
    \A g \in Callers :
        Owns(g) =>
            /\ calls[g].ob \in DOMAIN closes
            /\ closes[calls[g].ob] = 0
            /\ \A e \in Entries : slot[e] # calls[g].ob
            /\ \A h \in Callers : Owns(h) /\ calls[h].ob = calls[g].ob => h = g

\* What a slot holds is open and in no other slot.
SlotInv ==
    \A e \in Entries :
        slot[e] # NoOutbound =>
            /\ slot[e] \in DOMAIN closes
            /\ closes[slot[e]] = 0
            /\ \A f \in Entries : slot[f] = slot[e] => f = e

AtMostOnce == \A ob \in DOMAIN closes : closes[ob] <= 1

Inv == OutboundTypeOK /\ OwnedInv /\ SlotInv /\ AtMostOnce /\ NoLeakedOutbound

-----------------------------------------------------------------------------
\* The initial states satisfy the invariant: nothing is built.
LEMMA InvInit == OutboundInit => Inv
<1> SUFFICES ASSUME OutboundInit PROVE Inv
  OBVIOUS
<1>1. /\ \A K, V : IsMap(EmptyMap, K, V)
      /\ DOMAIN EmptyMap = {}
  BY EmptyMapType
<1>2. OutboundTypeOK
  BY <1>1 DEF OutboundInit, OutboundTypeOK
<1>3. OwnedInv /\ SlotInv /\ AtMostOnce /\ NoLeakedOutbound
  BY <1>1 DEF OutboundInit, OwnedInv, Owns, SlotInv, AtMostOnce, NoLeakedOutbound
<1> QED
  BY <1>2, <1>3 DEF Inv

\* The calls of the goroutines other than g stay as they are.
OnlyCall(g) ==
    \A h \in Callers \ {g} :
        /\ h \in DOMAIN calls' <=> h \in DOMAIN calls
        /\ h \in DOMAIN calls => calls'[h] = calls[h]

\* A call that begins.
LEMMA CallBegins ==
    ASSUME IsMap(calls, Callers, Call), NEW g \in Callers, NEW c \in Call,
           calls' = MapPut(calls, g, c)
    PROVE  IsMap(calls', Callers, Call) /\ OnlyCall(g) /\ g \in DOMAIN calls' /\ calls'[g] = c
BY DEF IsMap, MapPut, OnlyCall

\* A call that returns.
LEMMA CallReturns ==
    ASSUME IsMap(calls, Callers, Call), NEW g, Return(g)
    PROVE  IsMap(calls', Callers, Call) /\ OnlyCall(g) /\ g \notin DOMAIN calls'
BY DEF Return, MapDelete, IsMap, OnlyCall

\* A call that goes on in a well-typed state.
LEMMA CallExcept ==
    ASSUME IsMap(calls, Callers, Call), NEW g \in DOMAIN calls, NEW c \in Call,
           calls' = [calls EXCEPT ![g] = c]
    PROVE  IsMap(calls', Callers, Call) /\ OnlyCall(g) /\ g \in DOMAIN calls' /\ calls'[g] = c
BY DEF IsMap, OnlyCall

\* A call that only changes phase keeps its entry and its outbound.
LEMMA CallGoes ==
    ASSUME IsMap(calls, Callers, Call), NEW g \in DOMAIN calls,
           NEW phase \in {"check", "build", "verify", "cas", "recheck", "undo", "discard", "remove",
                          "evict", "get"},
           CallGoto(g, phase)
    PROVE  /\ IsMap(calls', Callers, Call)
           /\ OnlyCall(g)
           /\ g \in DOMAIN calls'
           /\ calls'[g].pc = phase /\ calls'[g].entry = calls[g].entry /\ calls'[g].ob = calls[g].ob
<1> DEFINE c == [calls[g] EXCEPT !.pc = phase]
<1>1. calls[g] \in Call
  BY MapValueType
<1>2. c \in Call /\ c.pc = phase /\ c.entry = calls[g].entry /\ c.ob = calls[g].ob
  BY <1>1 DEF Call
<1>3. calls' = [calls EXCEPT ![g] = c]
  BY DEF CallGoto
<1> QED
  BY <1>2, <1>3, CallExcept

\* Closing one open outbound counts it once and no other.
LEMMA CloseCounts ==
    ASSUME OutboundTypeOK, NEW ob \in Outbounds, ob \in DOMAIN closes, closes[ob] = 0
    PROVE  /\ IsMap(Closed(ob), Outbounds, Nat)
           /\ DOMAIN Closed(ob) = DOMAIN closes
           /\ Closed(ob)[ob] = 1
           /\ \A x \in DOMAIN closes \ {ob} : Closed(ob)[x] = closes[x]
<1>1. ob # NoOutbound
  BY OutboundAssumption
<1> QED
  BY <1>1 DEF OutboundTypeOK, IsMap, Closed

-----------------------------------------------------------------------------
\* A step that leaves slots and counters alone keeps the invariant when no
\* call becomes or ceases to be an owner, and an entry that loses its place in
\* the pool, or a call that would clear its slot, leaves another such call.
LEMMA Frame ==
    ASSUME Inv, OutboundTypeOK', slot' = slot, closes' = closes,
           \A h \in Callers : Owns(h)' <=> Owns(h),
           \A h \in Callers : Owns(h) => calls'[h].ob = calls[h].ob,
           \A e \in Entries : (e = live \/ \E h \in Callers : WillClear(h, e))
                                => e = live' \/ \E h \in Callers : WillClear(h, e)'
    PROVE  Inv'
<1>1. (OwnedInv /\ SlotInv /\ AtMostOnce)'
  BY DEF Inv, OwnedInv, SlotInv, AtMostOnce
<1>2. NoLeakedOutbound'
  <2> SUFFICES ASSUME NEW ob \in DOMAIN closes', closes'[ob] = 0
               PROVE  \/ \E g \in DOMAIN calls' :
                           calls'[g].ob = ob /\ calls'[g].pc \in {"verify", "cas", "discard"}
                      \/ \E e \in Entries :
                           slot'[e] = ob /\ (e = live' \/ \E g \in Callers : WillClear(g, e)')
    BY DEF NoLeakedOutbound
  <2>1. CASE \E g \in DOMAIN calls : calls[g].ob = ob /\ calls[g].pc \in {"verify", "cas", "discard"}
    <3>1. PICK g \in DOMAIN calls : calls[g].ob = ob /\ calls[g].pc \in {"verify", "cas", "discard"}
      BY <2>1
    <3>2. g \in Callers /\ Owns(g)
      BY <3>1 DEF Owns, Inv, OutboundTypeOK, IsMap
    <3>3. Owns(g)' /\ calls'[g].ob = ob
      BY <3>1, <3>2
    <3> QED
      BY <3>3 DEF Owns
  <2>2. CASE \E e \in Entries : slot[e] = ob /\ (e = live \/ \E g \in Callers : WillClear(g, e))
    BY <2>2
  <2> QED
    BY <2>1, <2>2 DEF Inv, NoLeakedOutbound
<1> QED
  BY <1>1, <1>2 DEF Inv

\* One outbound is closed, by the call that owns it or that empties its slot,
\* and is neither owned nor installed any more.
LEMMA CloseOne ==
    ASSUME Inv, OutboundTypeOK', NEW ob \in Outbounds, ob \in DOMAIN closes, closes[ob] = 0,
           closes' = Closed(ob), live' = live,
           \A f \in Entries : slot'[f] = IF slot[f] = ob THEN NoOutbound ELSE slot[f],
           \A h \in Callers : Owns(h)' <=> Owns(h) /\ calls[h].ob # ob,
           \A h \in Callers : Owns(h)' => calls'[h].ob = calls[h].ob,
           \A h \in Callers, e \in Entries : WillClear(h, e) /\ slot[e] # ob => WillClear(h, e)'
    PROVE  Inv'
<1>1. /\ DOMAIN closes' = DOMAIN closes
      /\ closes'[ob] = 1
      /\ \A x \in DOMAIN closes \ {ob} : closes'[x] = closes[x]
  BY CloseCounts DEF Inv
<1>2. AtMostOnce'
  BY <1>1 DEF Inv, AtMostOnce
<1>3. SlotInv'
  BY <1>1 DEF Inv, SlotInv
<1>4. OwnedInv'
  <2> SUFFICES ASSUME NEW g \in Callers, Owns(g)'
               PROVE  /\ calls'[g].ob \in DOMAIN closes'
                      /\ closes'[calls'[g].ob] = 0
                      /\ \A e \in Entries : slot'[e] # calls'[g].ob
                      /\ \A h \in Callers : Owns(h)' /\ calls'[h].ob = calls'[g].ob => h = g
    BY DEF OwnedInv
  <2>1. Owns(g) /\ calls[g].ob # ob /\ calls'[g].ob = calls[g].ob
    OBVIOUS
  <2>2. calls[g].ob \in DOMAIN closes /\ closes[calls[g].ob] = 0
    BY <2>1 DEF Inv, OwnedInv
  <2>3. calls[g].ob # NoOutbound
    BY <2>2, OutboundAssumption DEF Inv, OutboundTypeOK, IsMap
  <2> QED
    BY <1>1, <2>1, <2>2, <2>3 DEF Inv, OwnedInv
<1>5. NoLeakedOutbound'
  <2> SUFFICES ASSUME NEW x \in DOMAIN closes', closes'[x] = 0
               PROVE  \/ \E g \in DOMAIN calls' :
                           calls'[g].ob = x /\ calls'[g].pc \in {"verify", "cas", "discard"}
                      \/ \E e \in Entries :
                           slot'[e] = x /\ (e = live' \/ \E g \in Callers : WillClear(g, e)')
    BY DEF NoLeakedOutbound
  <2>1. x \in DOMAIN closes /\ x # ob /\ closes[x] = 0
    BY <1>1
  <2>2. CASE \E g \in DOMAIN calls : calls[g].ob = x /\ calls[g].pc \in {"verify", "cas", "discard"}
    <3>1. PICK g \in DOMAIN calls : calls[g].ob = x /\ calls[g].pc \in {"verify", "cas", "discard"}
      BY <2>2
    <3>2. g \in Callers /\ Owns(g)
      BY <3>1 DEF Owns, Inv, OutboundTypeOK, IsMap
    <3>3. Owns(g)' /\ calls'[g].ob = x
      BY <2>1, <3>1, <3>2
    <3> QED
      BY <3>3 DEF Owns
  <2>3. CASE \E e \in Entries : slot[e] = x /\ (e = live \/ \E g \in Callers : WillClear(g, e))
    BY <2>1, <2>3
  <2> QED
    BY <2>1, <2>2, <2>3 DEF Inv, NoLeakedOutbound
<1> QED
  BY <1>2, <1>3, <1>4, <1>5 DEF Inv

\* Clearing the slot of a call's entry, in RemoveNodeOutbound and UndoInstall.
LEMMA ClearKeeps ==
    ASSUME Inv, NEW g \in Callers, g \in DOMAIN calls, ClearSlot(g), ~Owns(g), ~Owns(g)',
           IsMap(calls', Callers, Call), OnlyCall(g)
    PROVE  Inv'
<1> DEFINE e == calls[g].entry
           ob == slot[e]
<1>1. e \in Entries
  BY DEF Inv, OutboundTypeOK, IsMap, Call
<1>2. slot' = [slot EXCEPT ![e] = NoOutbound] /\ closes' = Closed(ob) /\ UNCHANGED <<live, gone, transport>>
  BY DEF ClearSlot
<1>3. \A h \in Callers : Owns(h)' <=> Owns(h)
  BY DEF Owns, OnlyCall
<1>4. \A h \in Callers : Owns(h) => calls'[h].ob = calls[h].ob
  BY DEF Owns, OnlyCall
<1>5. \A h \in Callers, f \in Entries : WillClear(h, f) /\ f # e => WillClear(h, f)'
  BY DEF WillClear, OnlyCall
<1>6. CASE ob = NoOutbound
  <2>1. slot' = slot /\ closes' = closes
    BY <1>1, <1>2, <1>6 DEF Closed, Inv, OutboundTypeOK
  <2>2. OutboundTypeOK'
    BY <2>1, <1>2 DEF Inv, OutboundTypeOK
  <2>3. (OwnedInv /\ SlotInv /\ AtMostOnce)'
    BY <2>1, <1>3, <1>4 DEF Inv, OwnedInv, SlotInv, AtMostOnce
  <2>4. NoLeakedOutbound'
    <3> SUFFICES ASSUME NEW x \in DOMAIN closes', closes'[x] = 0
                 PROVE  \/ \E k \in DOMAIN calls' :
                             calls'[k].ob = x /\ calls'[k].pc \in {"verify", "cas", "discard"}
                        \/ \E f \in Entries :
                             slot'[f] = x /\ (f = live' \/ \E k \in Callers : WillClear(k, f)')
      BY DEF NoLeakedOutbound
    <3>1. x # NoOutbound
      BY <2>1, OutboundAssumption DEF Inv, OutboundTypeOK, IsMap
    <3>2. CASE \E k \in DOMAIN calls : calls[k].ob = x /\ calls[k].pc \in {"verify", "cas", "discard"}
      <4>1. PICK k \in DOMAIN calls : calls[k].ob = x /\ calls[k].pc \in {"verify", "cas", "discard"}
        BY <3>2
      <4>2. k \in Callers /\ Owns(k)
        BY <4>1 DEF Owns, Inv, OutboundTypeOK, IsMap
      <4>3. Owns(k)' /\ calls'[k].ob = x
        BY <1>3, <1>4, <4>1, <4>2
      <4> QED
        BY <4>3 DEF Owns
    <3>3. CASE \E f \in Entries : slot[f] = x /\ (f = live \/ \E k \in Callers : WillClear(k, f))
      BY <1>2, <1>5, <1>6, <2>1, <3>1, <3>3
    <3> QED
      BY <2>1, <3>2, <3>3 DEF Inv, NoLeakedOutbound
  <2> QED
    BY <2>2, <2>3, <2>4 DEF Inv
<1>7. CASE ob # NoOutbound
  <2>1. ob \in Outbounds /\ ob \in DOMAIN closes /\ closes[ob] = 0
    BY <1>1, <1>7 DEF Inv, OutboundTypeOK, SlotInv
  <2>2. IsMap(closes', Outbounds, Nat)
    BY <1>2, <2>1, CloseCounts DEF Inv
  <2>3. slot' \in [Entries -> Outbounds \cup {NoOutbound}]
    BY <1>1, <1>2 DEF Inv, OutboundTypeOK
  <2>4. OutboundTypeOK'
    BY <1>2, <2>2, <2>3 DEF Inv, OutboundTypeOK
  <2>5. \A f \in Entries : slot[f] = ob <=> f = e
    BY <1>1, <1>7 DEF Inv, SlotInv
  <2>6. \A f \in Entries : slot'[f] = IF slot[f] = ob THEN NoOutbound ELSE slot[f]
    BY <1>1, <1>2, <2>5 DEF Inv, OutboundTypeOK
  <2>7. \A h \in Callers : Owns(h) => calls[h].ob # ob
    BY <1>1 DEF Inv, OwnedInv
  <2>8. \A h \in Callers, f \in Entries : WillClear(h, f) /\ slot[f] # ob => WillClear(h, f)'
    BY <1>5
  <2> QED
    BY <1>2, <1>3, <1>4, <2>1, <2>4, <2>6, <2>7, <2>8, CloseOne
<1> QED
  BY <1>6, <1>7
\* A step of one call that leaves slots and counters alone.
LEMMA CallFrame ==
    ASSUME Inv, NEW g \in Callers, IsMap(calls', Callers, Call), OnlyCall(g),
           slot' = slot, closes' = closes,
           live' \in Entries \cup {NoEntry}, gone' \in SUBSET Entries,
           transport' \in Outbounds \cup {NoOutbound},
           Owns(g)' <=> Owns(g),
           Owns(g) => calls'[g].ob = calls[g].ob,
           \A e \in Entries : e = live \/ WillClear(g, e) => e = live' \/ WillClear(g, e)'
    PROVE  Inv'
<1>1. OutboundTypeOK'
  BY DEF Inv, OutboundTypeOK
<1>2. \A h \in Callers : Owns(h)' <=> Owns(h)
  BY DEF Owns, OnlyCall
<1>3. \A h \in Callers : Owns(h) => calls'[h].ob = calls[h].ob
  BY DEF Owns, OnlyCall
<1>4. \A h \in Callers \ {g}, e \in Entries : WillClear(h, e) => WillClear(h, e)'
  BY DEF WillClear, OnlyCall
<1>5. \A e \in Entries : (e = live \/ \E h \in Callers : WillClear(h, e))
                            => e = live' \/ \E h \in Callers : WillClear(h, e)'
  BY <1>4
<1> QED
  BY <1>1, <1>2, <1>3, <1>5, Frame

\* A call that owns nothing and would clear nothing may return.
LEMMA ReturnKeeps ==
    ASSUME Inv, NEW g \in Callers, Return(g), UNCHANGED <<live, gone, slot, closes>>,
           transport' \in Outbounds \cup {NoOutbound}, ~Owns(g),
           \A e \in Entries : WillClear(g, e) => e = live
    PROVE  Inv'
<1>1. IsMap(calls', Callers, Call) /\ OnlyCall(g) /\ g \notin DOMAIN calls'
  BY CallReturns DEF Inv, OutboundTypeOK
<1>2. ~Owns(g)'
  BY <1>1 DEF Owns
<1> QED
  BY <1>1, <1>2, CallFrame DEF Inv, OutboundTypeOK

\* A call that begins owns nothing.
LEMMA BeginKeeps ==
    ASSUME Inv, NEW g \in Callers, g \notin DOMAIN calls, NEW c \in Call,
           c.pc \in {"check", "remove", "get"}, calls' = MapPut(calls, g, c),
           UNCHANGED <<slot, closes, transport>>,
           live' \in Entries \cup {NoEntry}, gone' \in SUBSET Entries,
           live' = live \/ (c.pc = "remove" /\ c.entry = live)
    PROVE  Inv'
<1>1. IsMap(calls', Callers, Call) /\ OnlyCall(g) /\ g \in DOMAIN calls' /\ calls'[g] = c
  BY CallBegins DEF Inv, OutboundTypeOK
<1>2. ~Owns(g) /\ ~Owns(g)'
  BY <1>1 DEF Owns
<1>3. \A e \in Entries : e = live \/ WillClear(g, e) => e = live' \/ WillClear(g, e)'
  BY <1>1 DEF WillClear
<1> QED
  BY <1>1, <1>2, <1>3, CallFrame DEF Inv, OutboundTypeOK

-----------------------------------------------------------------------------
\* Building: the new outbound belongs to the call.
LEMMA BuildKeeps ==
    ASSUME Inv, NEW g \in Callers, NEW ob \in Outbounds, BuildOutbound(g, ob)
    PROVE  Inv'
<1> DEFINE c == [calls[g] EXCEPT !.pc = "verify", !.ob = ob]
<1>1. g \in DOMAIN calls /\ calls[g].pc = "build" /\ calls[g] \in Call /\ ob \notin DOMAIN closes
  BY DEF BuildOutbound, CallAt, Inv, OutboundTypeOK, IsMap
<1>2. c \in Call /\ c.pc = "verify" /\ c.ob = ob /\ c.entry = calls[g].entry
  BY <1>1 DEF Call
<1>3. calls' = [calls EXCEPT ![g] = c]
  BY DEF BuildOutbound
<1>4. IsMap(calls', Callers, Call) /\ OnlyCall(g) /\ g \in DOMAIN calls' /\ calls'[g] = c
  BY <1>1, <1>2, <1>3, CallExcept DEF Inv, OutboundTypeOK
<1>5. /\ IsMap(closes', Outbounds, Nat)
      /\ DOMAIN closes' = DOMAIN closes \cup {ob}
      /\ closes'[ob] = 0
      /\ \A x \in DOMAIN closes : closes'[x] = closes[x]
  BY <1>1 DEF BuildOutbound, MapPut, Inv, OutboundTypeOK, IsMap
<1>6. live' = live /\ gone' = gone /\ slot' = slot /\ transport' = transport
  BY DEF BuildOutbound
<1>7. OutboundTypeOK'
  BY <1>4, <1>5, <1>6 DEF Inv, OutboundTypeOK
<1>8. \A h \in Callers \ {g} : (Owns(h)' <=> Owns(h)) /\ (Owns(h) => calls'[h].ob = calls[h].ob)
  BY <1>4 DEF Owns, OnlyCall
<1>9. ~Owns(g) /\ Owns(g)' /\ calls'[g].ob = ob
  BY <1>1, <1>2, <1>4 DEF Owns
<1>10. \A e \in Entries : slot[e] # ob
  BY <1>1, OutboundAssumption DEF Inv, SlotInv
<1>11. \A h \in Callers \ {g} : Owns(h) => calls[h].ob # ob
  BY <1>1 DEF Inv, OwnedInv
<1>12. OwnedInv'
  <2> SUFFICES ASSUME NEW h \in Callers, Owns(h)'
               PROVE  /\ calls'[h].ob \in DOMAIN closes'
                      /\ closes'[calls'[h].ob] = 0
                      /\ \A e \in Entries : slot'[e] # calls'[h].ob
                      /\ \A k \in Callers : Owns(k)' /\ calls'[k].ob = calls'[h].ob => k = h
    BY DEF OwnedInv
  <2>1. CASE h = g
    BY <1>5, <1>6, <1>8, <1>9, <1>10, <1>11, <2>1
  <2>2. CASE h # g
    <3>1. Owns(h) /\ calls'[h].ob = calls[h].ob /\ calls[h].ob # ob
      BY <1>8, <1>11, <2>2
    <3> QED
      BY <1>5, <1>6, <1>8, <1>9, <3>1 DEF Inv, OwnedInv
  <2> QED
    BY <2>1, <2>2
<1>13. SlotInv' /\ AtMostOnce'
  BY <1>5, <1>6 DEF Inv, SlotInv, AtMostOnce
<1>14. NoLeakedOutbound'
  <2> SUFFICES ASSUME NEW x \in DOMAIN closes', closes'[x] = 0
               PROVE  \/ \E k \in DOMAIN calls' :
                           calls'[k].ob = x /\ calls'[k].pc \in {"verify", "cas", "discard"}
                      \/ \E e \in Entries :
                           slot'[e] = x /\ (e = live' \/ \E k \in Callers : WillClear(k, e)')
    BY DEF NoLeakedOutbound
  <2>1. CASE x = ob
    BY <1>2, <1>4, <2>1
  <2>2. CASE x # ob /\ \E k \in DOMAIN calls : calls[k].ob = x /\ calls[k].pc \in {"verify", "cas", "discard"}
    <3>1. PICK k \in DOMAIN calls : calls[k].ob = x /\ calls[k].pc \in {"verify", "cas", "discard"}
      BY <2>2
    <3>2. k \in Callers /\ k # g
      BY <1>1, <3>1 DEF Inv, OutboundTypeOK, IsMap
    <3> QED
      BY <1>4, <3>1, <3>2 DEF OnlyCall
  <2>3. CASE x # ob /\ \E e \in Entries : slot[e] = x /\ (e = live \/ \E k \in Callers : WillClear(k, e))
    <3>1. \A k \in Callers, e \in Entries : WillClear(k, e) => WillClear(k, e)'
      BY <1>1, <1>4 DEF WillClear, OnlyCall
    <3> QED
      BY <1>6, <2>3, <3>1
  <2> QED
    BY <1>5, <2>1, <2>2, <2>3 DEF Inv, NoLeakedOutbound
<1> QED
  BY <1>7, <1>12, <1>13, <1>14 DEF Inv

\* Installing: what the call owned is now in the slot, and the call will look
\* at the entry again.
LEMMA InstallKeeps ==
    ASSUME Inv, NEW g \in Callers, CallAt(g, "cas"), slot[calls[g].entry] = NoOutbound,
           slot' = [slot EXCEPT ![calls[g].entry] = calls[g].ob], CallGoto(g, "recheck"),
           UNCHANGED <<live, gone, closes, transport>>
    PROVE  Inv'
<1> DEFINE e == calls[g].entry
           ob == calls[g].ob
<1>1. g \in DOMAIN calls /\ calls[g].pc = "cas" /\ calls[g] \in Call
  BY DEF CallAt, Inv, OutboundTypeOK, IsMap
<1>2. e \in Entries /\ Owns(g)
  BY <1>1 DEF Call, Owns
<1>3. /\ IsMap(calls', Callers, Call) /\ OnlyCall(g) /\ g \in DOMAIN calls'
      /\ calls'[g].pc = "recheck" /\ calls'[g].entry = e /\ calls'[g].ob = ob
  BY <1>1, CallGoes DEF Inv, OutboundTypeOK
<1>4. ob \in DOMAIN closes /\ closes[ob] = 0 /\ \A f \in Entries : slot[f] # ob
  BY <1>2 DEF Inv, OwnedInv
<1>5. ob \in Outbounds /\ ob # NoOutbound
  BY <1>4, OutboundAssumption DEF Inv, OutboundTypeOK, IsMap
<1>6. \A f \in Entries : slot'[f] = IF f = e THEN ob ELSE slot[f]
  BY <1>2 DEF Inv, OutboundTypeOK
<1>7. OutboundTypeOK'
  <2>1. slot' \in [Entries -> Outbounds \cup {NoOutbound}]
    BY <1>2, <1>5 DEF Inv, OutboundTypeOK
  <2> QED
    BY <1>3, <2>1 DEF Inv, OutboundTypeOK
<1>8. \A h \in Callers \ {g} : (Owns(h)' <=> Owns(h)) /\ (Owns(h) => calls'[h].ob = calls[h].ob)
  BY <1>3 DEF Owns, OnlyCall
<1>9. ~Owns(g)'
  BY <1>3 DEF Owns
<1>10. OwnedInv'
  <2> SUFFICES ASSUME NEW h \in Callers, Owns(h)'
               PROVE  /\ calls'[h].ob \in DOMAIN closes'
                      /\ closes'[calls'[h].ob] = 0
                      /\ \A f \in Entries : slot'[f] # calls'[h].ob
                      /\ \A k \in Callers : Owns(k)' /\ calls'[k].ob = calls'[h].ob => k = h
    BY DEF OwnedInv
  <2>1. h # g /\ Owns(h) /\ calls'[h].ob = calls[h].ob
    BY <1>8, <1>9
  <2>2. calls[h].ob # ob
    BY <1>2, <2>1 DEF Inv, OwnedInv
  <2> QED
    BY <1>6, <1>8, <1>9, <2>1, <2>2 DEF Inv, OwnedInv
<1>11. SlotInv' /\ AtMostOnce'
  BY <1>4, <1>6 DEF Inv, SlotInv, AtMostOnce
<1>12. NoLeakedOutbound'
  <2> SUFFICES ASSUME NEW x \in DOMAIN closes', closes'[x] = 0
               PROVE  \/ \E k \in DOMAIN calls' :
                           calls'[k].ob = x /\ calls'[k].pc \in {"verify", "cas", "discard"}
                      \/ \E f \in Entries :
                           slot'[f] = x /\ (f = live' \/ \E k \in Callers : WillClear(k, f)')
    BY DEF NoLeakedOutbound
  <2>1. x # NoOutbound
    BY OutboundAssumption DEF Inv, OutboundTypeOK, IsMap
  <2>2. CASE x = ob
    <3>1. \A f \in Entries : f = e => WillClear(g, f)'
      BY <1>3 DEF WillClear
    <3> QED
      BY <1>2, <1>6, <2>2, <3>1
  <2>3. CASE x # ob /\ \E k \in DOMAIN calls : calls[k].ob = x /\ calls[k].pc \in {"verify", "cas", "discard"}
    <3>1. PICK k \in DOMAIN calls : calls[k].ob = x /\ calls[k].pc \in {"verify", "cas", "discard"}
      BY <2>3
    <3>2. k \in Callers /\ k # g
      BY <2>3, <3>1 DEF Inv, OutboundTypeOK, IsMap
    <3> QED
      BY <1>3, <3>1, <3>2 DEF OnlyCall
  <2>4. CASE \E f \in Entries : slot[f] = x /\ (f = live \/ \E k \in Callers : WillClear(k, f))
    <3>1. \A k \in Callers, f \in Entries : WillClear(k, f) => WillClear(k, f)'
      BY <1>1, <1>3 DEF WillClear, OnlyCall
    <3>2. PICK f \in Entries : slot[f] = x /\ (f = live \/ \E k \in Callers : WillClear(k, f))
      BY <2>4
    <3>3. slot'[f] = x
      BY <1>6, <2>1, <3>2
    <3> QED
      BY <3>1, <3>2, <3>3
  <2> QED
    BY <2>2, <2>3, <2>4 DEF Inv, NoLeakedOutbound
<1> QED
  BY <1>7, <1>10, <1>11, <1>12 DEF Inv

\* Discarding: the call closes what it owns.
LEMMA DiscardKeeps ==
    ASSUME Inv, NEW g \in Callers, DiscardOutbound(g)
    PROVE  Inv'
<1> DEFINE ob == calls[g].ob
<1>1. g \in DOMAIN calls /\ calls[g].pc = "discard" /\ Owns(g)
  BY DEF DiscardOutbound, CallAt, Owns
<1>2. ob \in DOMAIN closes /\ closes[ob] = 0 /\ \A f \in Entries : slot[f] # ob
  BY <1>1 DEF Inv, OwnedInv
<1>3. ob \in Outbounds
  BY <1>2 DEF Inv, OutboundTypeOK, IsMap
<1>4. Return(g) /\ closes' = Closed(ob) /\ UNCHANGED <<live, gone, slot, transport>>
  BY DEF DiscardOutbound
<1>5. IsMap(calls', Callers, Call) /\ OnlyCall(g) /\ g \notin DOMAIN calls'
  BY <1>4, CallReturns DEF Inv, OutboundTypeOK
<1>6. IsMap(closes', Outbounds, Nat)
  BY <1>2, <1>3, <1>4, CloseCounts DEF Inv
<1>7. OutboundTypeOK'
  BY <1>4, <1>5, <1>6 DEF Inv, OutboundTypeOK
<1>8. \A h \in Callers : Owns(h) /\ h # g => calls[h].ob # ob
  BY <1>1 DEF Inv, OwnedInv
<1>9. \A h \in Callers : Owns(h)' <=> Owns(h) /\ calls[h].ob # ob
  BY <1>5, <1>8 DEF Owns, OnlyCall
<1>10. \A h \in Callers : Owns(h)' => calls'[h].ob = calls[h].ob
  BY <1>5 DEF Owns, OnlyCall
<1>11. \A h \in Callers, e \in Entries : WillClear(h, e) => WillClear(h, e)'
  BY <1>1, <1>5 DEF WillClear, OnlyCall
<1>12. \A f \in Entries : slot'[f] = IF slot[f] = ob THEN NoOutbound ELSE slot[f]
  BY <1>2, <1>4
<1> QED
  BY <1>2, <1>3, <1>4, <1>7, <1>9, <1>10, <1>11, <1>12, CloseOne

-----------------------------------------------------------------------------
\* Every step keeps the invariant.
LEMMA InvNext == Inv /\ [OutboundNext]_outboundVars => Inv'
<1> SUFFICES ASSUME Inv, [OutboundNext]_outboundVars PROVE Inv'
  OBVIOUS
<1>1. IsMap(calls, Callers, Call) /\ \A g \in DOMAIN calls : g \in Callers /\ calls[g] \in Call
  BY DEF Inv, OutboundTypeOK, IsMap
<1>2. \A g \in DOMAIN calls : calls[g].entry \in Entries
  BY <1>1 DEF Call
<1>3. /\ live \in Entries \cup {NoEntry} /\ gone \in SUBSET Entries
      /\ transport \in Outbounds \cup {NoOutbound}
  BY DEF Inv, OutboundTypeOK
<1>4. ASSUME NEW e \in Entries, EntryAdded(e) PROVE Inv'
  <2>1. /\ slot' = slot /\ closes' = closes /\ calls' = calls /\ live' = e /\ live = NoEntry
        /\ gone' = gone /\ transport' = transport
    BY <1>4 DEF EntryAdded
  <2>2. OutboundTypeOK'
    BY <2>1 DEF Inv, OutboundTypeOK
  <2>3. \A h \in Callers : Owns(h)' <=> Owns(h)
    BY <2>1 DEF Owns
  <2>4. \A h \in Callers, f \in Entries : WillClear(h, f) => WillClear(h, f)'
    BY <2>1 DEF WillClear
  <2>5. \A f \in Entries : f # live
    BY <2>1, OutboundAssumption
  <2> QED
    BY <2>1, <2>2, <2>3, <2>4, <2>5, Frame
<1>5. ASSUME NEW g \in Callers, EntryRemoved(g) PROVE Inv'
  <2> DEFINE c == [pc |-> "remove", entry |-> live, ob |-> NoOutbound]
  <2>1. live \in Entries
    BY <1>3, <1>5 DEF EntryRemoved
  <2>2. c \in Call /\ c.pc = "remove" /\ c.entry = live
    BY <2>1 DEF Call
  <2>3. g \notin DOMAIN calls /\ calls' = MapPut(calls, g, c)
    BY <1>5 DEF EntryRemoved, NewCall
  <2>4. UNCHANGED <<slot, closes, transport>> /\ live' = NoEntry /\ gone' \in SUBSET Entries
    BY <1>3, <1>5, <2>1 DEF EntryRemoved
  <2> QED
    BY <2>2, <2>3, <2>4, BeginKeeps
<1>6. ASSUME NEW g \in Callers, RemoveNodeOutbound(g) PROVE Inv'
  <2>1. g \in DOMAIN calls /\ calls[g].pc = "remove" /\ ClearSlot(g) /\ CallGoto(g, "evict")
    BY <1>6 DEF RemoveNodeOutbound, CallAt
  <2>2. IsMap(calls', Callers, Call) /\ OnlyCall(g) /\ calls'[g].pc = "evict"
    BY <1>1, <2>1, CallGoes
  <2>3. ~Owns(g) /\ ~Owns(g)'
    BY <2>1, <2>2 DEF Owns
  <2> QED
    BY <2>1, <2>2, <2>3, ClearKeeps
<1>7. ASSUME NEW g \in Callers, EvictTransport(g) PROVE Inv'
  <2>1. /\ CallAt(g, "evict") /\ Return(g) /\ UNCHANGED <<live, gone, slot, closes>>
        /\ transport' = NoOutbound
    BY <1>7 DEF EvictTransport
  <2>2. ~Owns(g) /\ \A e \in Entries : ~WillClear(g, e)
    BY <2>1 DEF Owns, WillClear, CallAt
  <2> QED
    BY <2>1, <2>2, ReturnKeeps
<1>8. ASSUME NEW g \in Callers, EnsureNode(g) PROVE Inv'
  <2> DEFINE c == [pc |-> "check", entry |-> live, ob |-> NoOutbound]
  <2>1. live \in Entries
    BY <1>3, <1>8 DEF EnsureNode
  <2>2. c \in Call /\ c.pc = "check"
    BY <2>1 DEF Call
  <2>3. /\ g \notin DOMAIN calls /\ calls' = MapPut(calls, g, c)
        /\ UNCHANGED <<live, gone, slot, closes, transport>>
    BY <1>8 DEF EnsureNode, NewCall
  <2> QED
    BY <1>3, <2>2, <2>3, BeginKeeps
<1>9. ASSUME NEW g \in Callers, EnsureCheck(g) PROVE Inv'
  <2>1. /\ g \in DOMAIN calls /\ calls[g].pc = "check"
        /\ UNCHANGED <<live, gone, slot, closes, transport>>
        /\ Return(g) \/ CallGoto(g, "build")
    BY <1>9 DEF EnsureCheck, CallAt
  <2>2. ~Owns(g) /\ \A e \in Entries : ~WillClear(g, e)
    BY <2>1 DEF Owns, WillClear
  <2>3. CASE Return(g)
    BY <1>3, <2>1, <2>2, <2>3, ReturnKeeps
  <2>4. CASE CallGoto(g, "build")
    <3>1. IsMap(calls', Callers, Call) /\ OnlyCall(g) /\ calls'[g].pc = "build"
      BY <1>1, <2>1, <2>4, CallGoes
    <3>2. ~Owns(g)'
      BY <3>1 DEF Owns
    <3> QED
      BY <1>3, <2>1, <2>2, <3>1, <3>2, CallFrame
  <2> QED
    BY <2>1, <2>3, <2>4
<1>10. ASSUME NEW g \in Callers, BuildFails(g) PROVE Inv'
  <2>1. CallAt(g, "build") /\ Return(g) /\ UNCHANGED <<live, gone, slot, closes, transport>>
    BY <1>10 DEF BuildFails
  <2>2. ~Owns(g) /\ \A e \in Entries : ~WillClear(g, e)
    BY <2>1 DEF Owns, WillClear, CallAt
  <2> QED
    BY <1>3, <2>1, <2>2, ReturnKeeps
<1>11. ASSUME NEW g \in Callers, VerifyLive(g) PROVE Inv'
  <2> DEFINE phase == IF live = calls[g].entry THEN "cas" ELSE "discard"
  <2>1. /\ g \in DOMAIN calls /\ calls[g].pc = "verify"
        /\ UNCHANGED <<live, gone, slot, closes, transport>> /\ CallGoto(g, phase)
    BY <1>11 DEF VerifyLive, CallAt
  <2>2. phase \in {"cas", "discard"}
    OBVIOUS
  <2> HIDE DEF phase
  <2>3. /\ IsMap(calls', Callers, Call) /\ OnlyCall(g) /\ g \in DOMAIN calls'
        /\ calls'[g].pc = phase /\ calls'[g].ob = calls[g].ob
    BY <1>1, <2>1, <2>2, CallGoes
  <2>4. Owns(g) /\ Owns(g)' /\ \A e \in Entries : ~WillClear(g, e)
    BY <2>1, <2>2, <2>3 DEF Owns, WillClear
  <2> QED
    BY <1>3, <2>1, <2>3, <2>4, CallFrame
<1>12. ASSUME NEW g \in Callers, CasOutbound(g) PROVE Inv'
  <2>1. /\ g \in DOMAIN calls /\ calls[g].pc = "cas"
        /\ UNCHANGED <<live, gone, closes, transport>>
    BY <1>12 DEF CasOutbound, CallAt
  <2>2. CASE slot[calls[g].entry] = NoOutbound
    BY <1>12, <2>2, InstallKeeps DEF CasOutbound
  <2>3. CASE slot[calls[g].entry] # NoOutbound
    <3>1. slot' = slot /\ CallGoto(g, "discard")
      BY <1>12, <2>3 DEF CasOutbound
    <3>2. /\ IsMap(calls', Callers, Call) /\ OnlyCall(g) /\ g \in DOMAIN calls'
          /\ calls'[g].pc = "discard" /\ calls'[g].ob = calls[g].ob
      BY <1>1, <2>1, <3>1, CallGoes
    <3>3. Owns(g) /\ Owns(g)' /\ \A e \in Entries : ~WillClear(g, e)
      BY <2>1, <3>2 DEF Owns, WillClear
    <3> QED
      BY <1>3, <2>1, <3>1, <3>2, <3>3, CallFrame
  <2> QED
    BY <2>2, <2>3
<1>13. ASSUME NEW g \in Callers, RecheckLive(g) PROVE Inv'
  <2>1. /\ g \in DOMAIN calls /\ calls[g].pc = "recheck"
        /\ UNCHANGED <<live, gone, slot, closes, transport>>
    BY <1>13 DEF RecheckLive, CallAt
  <2>2. ~Owns(g)
    BY <2>1 DEF Owns
  <2>3. CASE live = calls[g].entry
    <3>1. Return(g) /\ \A e \in Entries : WillClear(g, e) => e = live
      BY <1>13, <2>3 DEF RecheckLive, WillClear
    <3> QED
      BY <1>3, <2>1, <2>2, <3>1, ReturnKeeps
  <2>4. CASE live # calls[g].entry
    <3>1. CallGoto(g, "undo")
      BY <1>13, <2>4 DEF RecheckLive
    <3>2. /\ IsMap(calls', Callers, Call) /\ OnlyCall(g) /\ g \in DOMAIN calls'
          /\ calls'[g].pc = "undo" /\ calls'[g].entry = calls[g].entry
      BY <1>1, <2>1, <3>1, CallGoes
    <3>3. ~Owns(g)' /\ \A e \in Entries : WillClear(g, e) => WillClear(g, e)'
      BY <3>2 DEF Owns, WillClear
    <3> QED
      BY <1>3, <2>1, <2>2, <3>2, <3>3, CallFrame
  <2> QED
    BY <2>3, <2>4
<1>14. ASSUME NEW g \in Callers, UndoInstall(g) PROVE Inv'
  <2>1. g \in DOMAIN calls /\ calls[g].pc = "undo" /\ ClearSlot(g) /\ Return(g)
    BY <1>14 DEF UndoInstall, CallAt
  <2>2. IsMap(calls', Callers, Call) /\ OnlyCall(g) /\ g \notin DOMAIN calls'
    BY <1>1, <2>1, CallReturns
  <2>3. ~Owns(g) /\ ~Owns(g)'
    BY <2>1, <2>2 DEF Owns
  <2> QED
    BY <2>1, <2>2, <2>3, ClearKeeps
<1>15. ASSUME NEW g \in Callers, ResolveRoutedOutbound(g) PROVE Inv'
  <2> DEFINE c == [pc |-> "get", entry |-> live, ob |-> slot[live]]
  <2>1. live \in Entries
    BY <1>3, <1>15 DEF ResolveRoutedOutbound
  <2>2. c \in Call /\ c.pc = "get"
    BY <2>1 DEF Call, Inv, OutboundTypeOK
  <2>3. /\ g \notin DOMAIN calls /\ calls' = MapPut(calls, g, c)
        /\ UNCHANGED <<live, gone, slot, closes, transport>>
    BY <1>15 DEF ResolveRoutedOutbound
  <2> QED
    BY <1>3, <2>2, <2>3, BeginKeeps
<1>16. ASSUME NEW g \in Callers, GetTransport(g) PROVE Inv'
  <2>1. g \in DOMAIN calls /\ calls[g].pc = "get" /\ Return(g) /\ UNCHANGED <<live, gone, slot, closes>>
    BY <1>16 DEF GetTransport, CallAt
  <2>2. transport' \in Outbounds \cup {NoOutbound}
    BY <1>1, <1>3, <1>16, <2>1 DEF GetTransport, Call
  <2>3. ~Owns(g) /\ \A e \in Entries : ~WillClear(g, e)
    BY <2>1 DEF Owns, WillClear
  <2> QED
    BY <2>1, <2>2, <2>3, ReturnKeeps
<1>17. CASE UNCHANGED outboundVars
  <2>1. OutboundTypeOK'
    BY <1>17 DEF outboundVars, Inv, OutboundTypeOK
  <2>2. \A h \in Callers : Owns(h)' <=> Owns(h)
    BY <1>17 DEF outboundVars, Owns
  <2>3. \A h \in Callers, f \in Entries : WillClear(h, f) => WillClear(h, f)'
    BY <1>17 DEF outboundVars, WillClear
  <2> QED
    BY <1>17, <2>1, <2>2, <2>3, Frame DEF outboundVars
<1> QED
  BY <1>4, <1>5, <1>6, <1>7, <1>8, <1>9, <1>10, <1>11, <1>12, <1>13, <1>14, <1>15, <1>16, <1>17,
     BuildKeeps, DiscardKeeps DEF OutboundNext

\* In every reachable state the invariant holds.
LEMMA InvAlways == OutboundSpec => []Inv
BY InvInit, InvNext, PTL DEF OutboundSpec

\* EnsureNodeOutbound and RemoveNodeOutbound close every outbound at most once,
\* and none while an entry has it, whatever entries come and go meanwhile.
THEOREM OutboundsClosedOnce == OutboundSpec => []ClosedOnce
<1>1. Inv => ClosedOnce
  <2> SUFFICES ASSUME Inv, NEW ob \in DOMAIN closes
               PROVE  closes[ob] <= 1 /\ \A e \in Entries : slot[e] = ob => closes[ob] = 0
    BY DEF ClosedOnce
  <2>1. closes[ob] <= 1
    BY DEF Inv, AtMostOnce
  <2>2. ob # NoOutbound
    BY OutboundAssumption DEF Inv, OutboundTypeOK, IsMap
  <2>3. \A e \in Entries : slot[e] = ob => closes[ob] = 0
    BY <2>2 DEF Inv, SlotInv
  <2> QED
    BY <2>1, <2>3
<1> QED
  BY <1>1, InvAlways, PTL

\* EnsureNodeOutbound leaks no outbound: one that is not closed belongs to a
\* call under way, or is installed in an entry that is in the pool or that a
\* call will still clear.
THEOREM OutboundsNotLeaked == OutboundSpec => []NoLeakedOutbound
<1>1. Inv => NoLeakedOutbound
  BY DEF Inv
<1> QED
  BY <1>1, InvAlways, PTL

-----------------------------------------------------------------------------
(* The views *)

\* What a goroutine works on: a node, the registered object, or a replacement
\* nobody knows yet; a result it applies belongs to an entry of the pool.
JobShape(w) ==
    /\ work[w].pc \in {"probe", "close", "open", "compute", "build", "drop", "notify", "dirty"}
         => work[w].node \in Nodes
    /\ work[w].pc \in {"close", "open"} => work[w].node \in DOMAIN entries
    /\ work[w].next = "publish" => /\ work[w].pc \in {"acquire", "scan", "publish"}
                                   /\ work[w].obj \in used \ {registered}
    /\ work[w].pc = "publish" => work[w].next = "publish"
    /\ work[w].pc \in {"dirty", "acquire", "scan"} /\ work[w].next # "publish"
         => work[w].obj = registered

\* A rebuild has cleared what it has not visited.
ScanClear(w) == work[w].pc = "scan" => work[w].todo \cap views[work[w].obj] = {}

\* A replacement's view is right wherever its rebuild has been.
BuildExact(w) ==
    work[w].next = "publish" /\ work[w].pc \in {"scan", "publish"} =>
      \A n \in Nodes : \/ work[w].pc = "scan" /\ n \in work[w].todo
                       \/ n \in views[work[w].obj] <=> Routable(work[w].obj, n)

\* viewMu: one rebuild of an object at a time.
ScansAlone(w) ==
    \A v \in DOMAIN work \ {w} :
      ~(work[v].pc = "scan" /\ work[w].pc = "scan" /\ work[v].obj = work[w].obj)

JobInv(w) == JobShape(w) /\ ScanClear(w) /\ BuildExact(w) /\ ScansAlone(w)

\* An entry has its outbound, unless the outbound never builds, or is building.
HasOutbound(n) == n \in DOMAIN entries => entries[n].out \/ n \in Unbuildable
Builds(w, n) == work[w].pc = "build" /\ work[w].node = n

\* The registered view says of a node what its state says.  Nobody announces an
\* outbound that builds at the second attempt.
Agrees(n) ==
    /\ n \in views[registered] => Routable(registered, n)
    /\ Flaky = {} /\ Routable(registered, n) => n \in views[registered]

ViewsInv ==
    /\ TypeOK /\ Serial /\ registered \in used
    /\ \A w \in DOMAIN work : JobInv(w)
    /\ Flaky = {} =>
         \A n \in Nodes : HasOutbound(n) \/ \E w \in DOMAIN work : Builds(w, n)
    /\ \A n \in Nodes : Agrees(n) \/ Covered(n)

\* A step of w leaves the work of the others alone.
OnlyJob(w) ==
    \A v \in Writers \ {w} :
        /\ v \in DOMAIN work' <=> v \in DOMAIN work
        /\ v \in DOMAIN work => work'[v] = work[v]

\* A goroutine at work has a well-typed job.
LEMMA JobType ==
    ASSUME TypeOK, NEW w \in DOMAIN work
    PROVE  w \in Writers /\ work[w] \in Job
BY DEF TypeOK, IsMap

\* A goroutine begins; the others go on as they were.
LEMMA JobStarts ==
    ASSUME TypeOK, NEW w \in Writers, NEW j \in Job, Start(w, j)
    PROVE  /\ IsMap(work', Writers, Job) /\ OnlyJob(w)
           /\ w \notin DOMAIN work /\ w \in DOMAIN work' /\ work'[w] = j
BY DEF TypeOK, IsMap, MapPut, OnlyJob, Start, Idle

\* A goroutine ends; the others go on as they were.
LEMMA JobEnds ==
    ASSUME TypeOK, NEW w \in DOMAIN work, Done(w)
    PROVE  IsMap(work', Writers, Job) /\ OnlyJob(w) /\ w \notin DOMAIN work'
BY DEF TypeOK, IsMap, MapDelete, OnlyJob, Done

\* A goroutine's job changes; the others go on as they were.
LEMMA JobChanges ==
    ASSUME TypeOK, NEW w \in DOMAIN work, NEW j \in Job, work' = [work EXCEPT ![w] = j]
    PROVE  /\ IsMap(work', Writers, Job) /\ OnlyJob(w) /\ w \in DOMAIN work' /\ work'[w] = j
BY DEF TypeOK, IsMap, OnlyJob

\* A goroutine moves to its next phase.
LEMMA JobGoes ==
    ASSUME TypeOK, NEW w \in DOMAIN work, NEW p \in Phases, Goto(w, p)
    PROVE  /\ IsMap(work', Writers, Job) /\ OnlyJob(w) /\ w \in DOMAIN work'
           /\ work'[w].pc = p /\ work'[w].node = work[w].node /\ work'[w].obj = work[w].obj
           /\ work'[w].todo = work[w].todo /\ work'[w].next = work[w].next
<1>1. work[w] \in Job
  BY JobType
<1>2. PICK j \in Job : j = [work[w] EXCEPT !.pc = p]
  BY <1>1 DEF Job
<1>3. work' = [work EXCEPT ![w] = j]
  BY <1>2 DEF Goto
<1>4. j.pc = p /\ j.node = work[w].node /\ j.obj = work[w].obj /\ j.todo = work[w].todo
      /\ j.next = work[w].next
  BY <1>1, <1>2 DEF Job
<1> QED BY <1>3, <1>4, JobChanges

\* While a replacement is built, nobody else is at work.
LEMMA BuilderAlone ==
    ASSUME ViewsInv, Serial', NEW w \in Writers, OnlyJob(w), used \subseteq used',
           w \in DOMAIN work \cup DOMAIN work', NEW v \in DOMAIN work, v # w
    PROVE  work[v].next # "publish"
<1> SUFFICES ASSUME work[v].next = "publish" PROVE FALSE
  OBVIOUS
<1>1. work[v].obj \in used /\ registered \in used /\ work[v].obj # registered
  BY DEF ViewsInv, JobInv, JobShape
<1>2. v \in Writers /\ v \in DOMAIN work'
  BY JobType DEF ViewsInv, OnlyJob
<1>3. \A x, y \in DOMAIN work : x = y
  BY <1>1 DEF ViewsInv, Serial
<1>4. \A x, y \in DOMAIN work' : x = y
  BY <1>1 DEF Serial
<1> QED BY <1>2, <1>3, <1>4

\* A step of one goroutine, which looks at what it changes.
LEMMA LocalStep ==
    ASSUME ViewsInv, Serial', TypeOK', NEW w \in Writers, OnlyJob(w),
           w \in DOMAIN work \cup DOMAIN work', registered' = registered, used \subseteq used',
           DOMAIN entries \subseteq DOMAIN entries',
           \A v \in DOMAIN work \ {w} :
             work[v].pc = "scan" => views'[work[v].obj] = views[work[v].obj],
           w \in DOMAIN work' => JobInv(w)',
           Flaky = {} =>
             \A n \in Nodes : HasOutbound(n) \/ (w \in DOMAIN work /\ Builds(w, n))
                              => HasOutbound(n)' \/ (w \in DOMAIN work' /\ Builds(w, n)'),
           \A n \in Nodes : /\ Agrees(n) \/ (w \in DOMAIN work /\ Covers(w, n))
                            /\ \A v \in DOMAIN work \ {w} : ~Covers(v, n)
                            => Agrees(n)' \/ (w \in DOMAIN work' /\ Covers(w, n)')
    PROVE  ViewsInv'
<1>1. ASSUME NEW v \in DOMAIN work', v # w
      PROVE  v \in DOMAIN work /\ v \in Writers /\ work'[v] = work[v] /\ JobInv(v)
             /\ work[v].next # "publish"
  <2>1. v \in Writers
    BY DEF TypeOK, IsMap
  <2>2. v \in DOMAIN work /\ work'[v] = work[v]
    BY <1>1, <2>1 DEF OnlyJob
  <2>3. JobInv(v)
    BY <2>2 DEF ViewsInv
  <2> QED BY <1>1, <2>1, <2>2, <2>3, BuilderAlone
<1>2. ASSUME NEW v \in DOMAIN work', v # w PROVE JobInv(v)'
  <2>1. JobShape(v)'
    BY <1>1, <1>2 DEF JobInv, JobShape
  <2>2. ScanClear(v)'
    BY <1>1, <1>2 DEF JobInv, ScanClear
  <2>3. BuildExact(v)'
    BY <1>1, <1>2 DEF BuildExact
  <2>4. ScansAlone(v)'
    <3> SUFFICES ASSUME NEW u \in DOMAIN work' \ {v}
                 PROVE  ~(work'[u].pc = "scan" /\ work'[v].pc = "scan" /\ work'[u].obj = work'[v].obj)
      BY DEF ScansAlone
    <3>1. CASE u = w
      BY <1>2, <3>1 DEF JobInv, ScansAlone
    <3>2. CASE u # w
      BY <1>1, <1>2, <3>2 DEF JobInv, ScansAlone
    <3> QED BY <3>1, <3>2
  <2> QED BY <2>1, <2>2, <2>3, <2>4 DEF JobInv
<1>3. \A v \in DOMAIN work \ {w} : v \in DOMAIN work' /\ work'[v] = work[v]
  BY JobType DEF ViewsInv, OnlyJob
<1>4. ASSUME Flaky = {}, NEW n \in Nodes
      PROVE  HasOutbound(n)' \/ \E v \in DOMAIN work' : Builds(v, n)'
  <2>1. CASE \E v \in DOMAIN work \ {w} : Builds(v, n)
    BY <1>3, <2>1 DEF Builds
  <2>2. CASE HasOutbound(n) \/ (w \in DOMAIN work /\ Builds(w, n))
    BY <1>4, <2>2
  <2> QED BY <1>4, <2>1, <2>2 DEF ViewsInv
<1>5. ASSUME NEW n \in Nodes PROVE Agrees(n)' \/ Covered(n)'
  <2>1. CASE \E v \in DOMAIN work \ {w} : Covers(v, n)
    <3>1. PICK v \in DOMAIN work \ {w} : Covers(v, n)
      BY <2>1
    <3>2. Covers(v, n)' /\ v \in DOMAIN work'
      BY <1>3, <3>1 DEF Covers
    <3> QED BY <3>2 DEF Covered
  <2>2. CASE \A v \in DOMAIN work \ {w} : ~Covers(v, n)
    <3>1. Agrees(n) \/ (w \in DOMAIN work /\ Covers(w, n))
      BY <2>2 DEF ViewsInv, Covered
    <3> QED BY <2>2, <3>1 DEF Covered
  <2> QED BY <2>1, <2>2
<1>6. (registered \in used)'
  BY DEF ViewsInv
<1>7. \A v \in DOMAIN work' : JobInv(v)'
  BY <1>2
<1> QED BY <1>4, <1>5, <1>6, <1>7 DEF ViewsInv

\* The bootstrap's full rebuild leaves the view right.
LEMMA ViewsInvInit == Init => ViewsInv
<1> SUFFICES ASSUME Init PROVE ViewsInv
  OBVIOUS
<1>1. work = EmptyMap /\ DOMAIN work = {} /\ IsMap(work, Writers, Job)
  BY EmptyMapType DEF Init
<1>2. TypeOK
  BY <1>1, ViewsAssumption DEF Init, TypeOK, IsMap
<1>3. Serial /\ registered \in used
  BY DEF Init, Serial
<1>4. ASSUME Flaky = {}, NEW n \in Nodes PROVE HasOutbound(n)
  BY <1>4 DEF Init, HasOutbound, BuildOutcomes
<1>5. ASSUME NEW n \in Nodes PROVE Agrees(n)
  BY DEF Init, Agrees
<1> QED BY <1>1, <1>2, <1>3, <1>4, <1>5 DEF ViewsInv

\* What routability depends on.
LEMMA RoutableStays ==
    ASSUME NEW o, NEW n,
           n \in DOMAIN entries' <=> n \in DOMAIN entries,
           n \in DOMAIN entries => /\ entries'[n].out <=> entries[n].out
                                   /\ entries'[n].open <=> entries[n].open
                                   /\ entries'[n].ip = entries[n].ip
                                   /\ entries'[n].latency <=> entries[n].latency,
           n \in managed' <=> n \in managed, enabled' <=> enabled
    PROVE  Routable(o, n)' <=> Routable(o, n)
BY DEF Routable, evaluateNode, IsHealthy, HeldByEnabled

\* A step that changes what one node is, or nothing, and works on that node
\* before and after.
NodePhases == {"probe", "close", "open", "compute", "build", "drop", "notify"}

\* A step that changes one entry and leaves its goroutine about to notify keeps the view accounted for.
LEMMA NodeChange ==
    ASSUME ViewsInv, Serial', TypeOK', NEW w \in Writers, NEW n \in Nodes, OnlyJob(w),
           w \in DOMAIN work \cup DOMAIN work', UNCHANGED platform,
           DOMAIN entries \subseteq DOMAIN entries', enabled' = enabled,
           \A m \in Nodes \ {n} : /\ m \in DOMAIN entries' <=> m \in DOMAIN entries
                                  /\ m \in DOMAIN entries => entries'[m] = entries[m]
                                  /\ m \in managed' <=> m \in managed,
           w \in DOMAIN work => /\ work[w].node = n
                                /\ work[w].pc \in NodePhases \ {"notify"},
           w \in DOMAIN work' => /\ work'[w].node = n /\ work'[w].next # "publish"
                                 /\ work'[w].pc \in NodePhases
                                 /\ work'[w].pc \in {"close", "open"} => n \in DOMAIN entries',
           \/ w \in DOMAIN work' /\ work'[w].pc \in {"compute", "build", "drop", "notify"}
           \/ /\ Routable(registered, n)' <=> Routable(registered, n)
              /\ w \in DOMAIN work => work[w].pc \in {"probe", "close", "open"},
           Flaky = {} =>
             (HasOutbound(n) \/ (w \in DOMAIN work /\ Builds(w, n))
                => HasOutbound(n)' \/ (w \in DOMAIN work' /\ Builds(w, n)'))
    PROVE  ViewsInv'
<1>1. registered' = registered /\ used' = used /\ views' = views
  BY DEF platform
<1>2. \A m \in Nodes \ {n} : Routable(registered, m)' <=> Routable(registered, m)
  BY <1>1, RoutableStays
<1>3. \A m \in Nodes \ {n} : Agrees(m)' <=> Agrees(m)
  BY <1>1, <1>2 DEF Agrees
<1>4. \A m \in Nodes \ {n} : HasOutbound(m)' <=> HasOutbound(m)
  BY DEF HasOutbound
<1>5. \A m \in Nodes \ {n} : w \in DOMAIN work => ~Covers(w, m) /\ ~Builds(w, m)
  BY DEF Covers, Builds, NodePhases
<1>6. ASSUME w \in DOMAIN work' PROVE JobInv(w)'
  <2>1. JobShape(w)'
    BY <1>6 DEF JobShape, NodePhases
  <2>2. ScanClear(w)' /\ BuildExact(w)' /\ ScansAlone(w)'
    BY <1>6 DEF ScanClear, BuildExact, ScansAlone, NodePhases
  <2> QED BY <2>1, <2>2 DEF JobInv
<1>7. Agrees(n) \/ (w \in DOMAIN work /\ Covers(w, n))
        => Agrees(n)' \/ (w \in DOMAIN work' /\ Covers(w, n)')
  <2>1. CASE w \in DOMAIN work' /\ work'[w].pc \in {"compute", "build", "drop", "notify"}
    BY <2>1 DEF Covers
  <2>2. CASE /\ Routable(registered, n)' <=> Routable(registered, n)
             /\ w \in DOMAIN work => work[w].pc \in {"probe", "close", "open"}
    <3>1. w \in DOMAIN work => ~Covers(w, n)
      BY <2>2 DEF Covers
    <3>2. Agrees(n)' <=> Agrees(n)
      BY <1>1, <2>2 DEF Agrees
    <3> QED BY <3>1, <3>2
  <2> QED BY <2>1, <2>2
<1>8. \A m \in Nodes : Agrees(m) \/ (w \in DOMAIN work /\ Covers(w, m))
                       => Agrees(m)' \/ (w \in DOMAIN work' /\ Covers(w, m)')
  BY <1>3, <1>5, <1>7
<1>9. Flaky = {} =>
        \A m \in Nodes : HasOutbound(m) \/ (w \in DOMAIN work /\ Builds(w, m))
                         => HasOutbound(m)' \/ (w \in DOMAIN work' /\ Builds(w, m)')
  BY <1>4, <1>5
<1> QED BY <1>1, <1>6, <1>8, <1>9, LocalStep

\* A new value for the entry of a node.
LEMMA EntryChanges ==
    ASSUME TypeOK, NEW n \in DOMAIN entries, NEW e \in Entry, entries' = [entries EXCEPT ![n] = e]
    PROVE  /\ IsMap(entries', Nodes, Entry) /\ DOMAIN entries' = DOMAIN entries
           /\ entries'[n] = e /\ n \in Nodes
           /\ \A m \in DOMAIN entries \ {n} : entries'[m] = entries[m]
BY DEF TypeOK, IsMap

\* What a pool entry is.
LEMMA EntryType ==
    ASSUME TypeOK, NEW n \in DOMAIN entries
    PROVE  n \in Nodes /\ entries[n] \in Entry
BY DEF TypeOK, IsMap

\* What a job on a node says of the rest of it.
LEMMA NodeJob ==
    ASSUME ViewsInv, NEW w \in DOMAIN work, work[w].pc \in NodePhases
    PROVE  /\ TypeOK /\ w \in Writers /\ work[w] \in Job
           /\ work[w].node \in Nodes /\ work[w].next # "publish"
<1>1. TypeOK /\ JobShape(w)
  BY DEF ViewsInv, JobInv
<1> QED BY <1>1, JobType DEF JobShape, NodePhases

\* The job of a goroutine that has just begun on a node.
LEMMA NewNodeJob ==
    ASSUME NEW n \in Nodes, NEW p \in Phases, NEW j,
           j \in {NewJob(p, n), [NewJob(p, n) EXCEPT !.locked = TRUE]}
    PROVE  j \in Job /\ j.pc = p /\ j.node = n /\ j.next = "done"
<1>1. PICK l \in BOOLEAN :
        j = [pc |-> p, node |-> n, obj |-> NoObject, todo |-> {}, cands |-> {},
             next |-> "done", locked |-> l]
  <2>1. CASE j = NewJob(p, n)
    BY <2>1 DEF NewJob
  <2>2. CASE j = [NewJob(p, n) EXCEPT !.locked = TRUE]
    BY <2>2 DEF NewJob
  <2> QED BY <2>1, <2>2
<1> QED BY <1>1 DEF Job

\* The probe that begins changes nothing, the one that finds no entry neither.
LEMMA ProbeKeeps ==
    ASSUME ViewsInv, Serial', NEW w \in Writers,
           (\E n \in Nodes : BeginProbe(w, n)) \/ ReportOnMissingNode(w)
    PROVE  ViewsInv'
<1>1. CASE \E n \in Nodes : BeginProbe(w, n)
  <2>1. PICK n \in Nodes : BeginProbe(w, n)
    BY <1>1
  <2>2. PICK j \in Job : j = NewJob("probe", n) /\ j.pc = "probe" /\ j.node = n /\ j.next = "done"
    BY NewNodeJob DEF Phases
  <2>3. /\ IsMap(work', Writers, Job) /\ OnlyJob(w)
        /\ w \notin DOMAIN work /\ w \in DOMAIN work' /\ work'[w] = j
    BY <2>1, <2>2, JobStarts DEF BeginProbe, ViewsInv
  <2>4. UNCHANGED <<entries, managed, enabled, registered, used, views>>
    BY <2>1 DEF BeginProbe, pool, platform
  <2>5. TypeOK'
    BY <2>3, <2>4 DEF ViewsInv, TypeOK
  <2>6. (Routable(registered, n)' <=> Routable(registered, n)) /\ (HasOutbound(n)' <=> HasOutbound(n))
    BY <2>4, RoutableStays DEF HasOutbound
  <2> QED BY <2>2, <2>3, <2>4, <2>5, <2>6, NodeChange DEF NodePhases, platform
<1>2. CASE ReportOnMissingNode(w)
  <2>1. w \in DOMAIN work /\ work[w].pc = "probe"
    BY <1>2 DEF ReportOnMissingNode, At
  <2>2. PICK n \in Nodes : n = work[w].node
    BY <2>1, NodeJob DEF NodePhases
  <2>3. IsMap(work', Writers, Job) /\ OnlyJob(w) /\ w \notin DOMAIN work'
    BY <1>2, <2>1, JobEnds DEF ReportOnMissingNode, ViewsInv
  <2>4. UNCHANGED <<entries, managed, enabled, registered, used, views>>
    BY <1>2 DEF ReportOnMissingNode, pool, platform
  <2>5. TypeOK'
    BY <2>3, <2>4 DEF ViewsInv, TypeOK
  <2>6. (Routable(registered, n)' <=> Routable(registered, n)) /\ (HasOutbound(n)' <=> HasOutbound(n))
    BY <2>4, RoutableStays DEF HasOutbound
  <2>7. ~Builds(w, n)
    BY <2>1 DEF Builds
  <2> QED BY <2>1, <2>2, <2>3, <2>4, <2>5, <2>6, <2>7, NodeChange DEF NodePhases, platform
<1> QED BY <1>1, <1>2

\* A goroutine that reports on the entry of its node and then goes on or ends;
\* the outbound stays as it is.
LEMMA ReportKeeps ==
    ASSUME ViewsInv, Serial', NEW w \in DOMAIN work, work[w].pc \in {"probe", "close", "open"},
           work[w].node \in DOMAIN entries, NEW e \in Entry,
           entries' = [entries EXCEPT ![work[w].node] = e],
           e.out <=> entries[work[w].node].out,
           UNCHANGED <<managed, enabled, platform>>,
           \/ Goto(w, "notify")
           \/ /\ \/ Done(w)
                 \/ work[w].pc = "probe" /\ Goto(w, "close")
                 \/ work[w].pc = "probe" /\ Goto(w, "open")
              /\ e.open <=> entries[work[w].node].open
              /\ e.ip = entries[work[w].node].ip
              /\ e.latency <=> entries[work[w].node].latency
    PROVE  ViewsInv'
<1>1. PICK n \in Nodes : n = work[w].node
  BY NodeJob DEF NodePhases
<1>2. TypeOK /\ w \in Writers /\ work[w].next # "publish"
  BY NodeJob DEF NodePhases
<1>3. /\ IsMap(entries', Nodes, Entry) /\ DOMAIN entries' = DOMAIN entries
      /\ entries'[n] = e
      /\ \A m \in DOMAIN entries \ {n} : entries'[m] = entries[m]
  BY <1>1, <1>2, EntryChanges
<1>4. HasOutbound(n)' <=> HasOutbound(n)
  BY <1>1, <1>3 DEF HasOutbound
<1>5. ~Builds(w, n)
  BY DEF Builds
<1>6. UNCHANGED <<managed, enabled, registered, used, views>>
  BY DEF platform
<1>7. CASE Goto(w, "notify")
  <2>1. /\ IsMap(work', Writers, Job) /\ OnlyJob(w) /\ w \in DOMAIN work'
        /\ work'[w].pc = "notify" /\ work'[w].node = n /\ work'[w].next # "publish"
    BY <1>1, <1>2, <1>7, JobGoes DEF Phases
  <2>2. TypeOK'
    BY <1>2, <1>3, <1>6, <2>1 DEF TypeOK
  <2> QED BY <1>1, <1>2, <1>3, <1>4, <1>5, <1>6, <2>1, <2>2, NodeChange DEF NodePhases
<1>8. CASE /\ \/ Done(w)
              \/ work[w].pc = "probe" /\ Goto(w, "close")
              \/ work[w].pc = "probe" /\ Goto(w, "open")
           /\ e.open <=> entries[work[w].node].open
           /\ e.ip = entries[work[w].node].ip
           /\ e.latency <=> entries[work[w].node].latency
  <2>1. /\ IsMap(work', Writers, Job) /\ OnlyJob(w)
        /\ w \in DOMAIN work' => /\ work'[w].pc \in {"close", "open"} /\ work'[w].node = n
                                 /\ work'[w].next # "publish"
    BY <1>1, <1>2, <1>8, JobGoes, JobEnds DEF Phases
  <2>2. TypeOK'
    BY <1>2, <1>3, <1>6, <2>1 DEF TypeOK
  <2>3. Routable(registered, n)' <=> Routable(registered, n)
    BY <1>1, <1>3, <1>6, <1>8, RoutableStays
  <2> QED BY <1>1, <1>2, <1>3, <1>4, <1>5, <1>6, <2>1, <2>2, <2>3, NodeChange DEF NodePhases
<1> QED BY <1>7, <1>8

\* A probe's report changes one entry, and its notification follows.
LEMMA RecordKeeps ==
    ASSUME ViewsInv, Serial', NEW w \in Writers,
           \/ RecordSuccess(w) \/ RecordFailure(w) \/ RecordLatency(w) \/ SwitchCircuit(w)
           \/ \E ip \in IPs : UpdateNodeEgressIP(w, ip)
    PROVE  ViewsInv'
<1>1. w \in DOMAIN work /\ work[w].pc \in {"probe", "close", "open"}
  BY DEF RecordSuccess, RecordFailure, RecordLatency, SwitchCircuit, UpdateNodeEgressIP, Reports, At
<1>2. PICK n \in Nodes : n = work[w].node
  BY <1>1, NodeJob DEF NodePhases
<1>3. n \in DOMAIN entries
  <2>1. work[w].pc \in {"close", "open"} => n \in DOMAIN entries
    BY <1>1, <1>2 DEF ViewsInv, JobInv, JobShape
  <2> QED BY <1>2, <2>1
          DEF RecordSuccess, RecordFailure, RecordLatency, SwitchCircuit, UpdateNodeEgressIP, Reports, At
<1>4. entries[n] \in Entry /\ MaxConsecutiveFailures \in Nat \ {0}
  BY <1>3, EntryType, ViewsAssumption DEF ViewsInv
<1>5. CASE RecordSuccess(w)
  <2>0. 0 \in 0..MaxConsecutiveFailures
    BY <1>4
  <2>1. PICK e \in Entry : e = [entries[n] EXCEPT !.fails = 0]
    BY <1>4, <2>0 DEF Entry
  <2>2. /\ e.out <=> entries[n].out
        /\ e.open <=> entries[n].open
        /\ e.ip = entries[n].ip
        /\ e.latency <=> entries[n].latency
    BY <1>4, <2>1 DEF Entry
  <2>3. /\ entries' = [entries EXCEPT ![n] = e] /\ work[w].pc = "probe" /\ Goto(w, "close")
        /\ UNCHANGED <<managed, enabled, platform>>
    BY <1>2, <1>5, <2>1 DEF RecordSuccess, Reports, At
  <2> QED BY <1>1, <1>2, <1>3, <2>2, <2>3, ReportKeeps
<1>6. CASE RecordFailure(w)
  <2>1. PICK f \in 0..MaxConsecutiveFailures :
          /\ entries' = [entries EXCEPT ![n].fails = f]
          /\ Goto(w, "open") \/ Done(w)
    <3>1. entries[n].fails \in 0..MaxConsecutiveFailures
      BY <1>4 DEF Entry
    <3>2. PICK f : /\ f = IF entries[n].fails < MaxConsecutiveFailures
                          THEN entries[n].fails + 1 ELSE MaxConsecutiveFailures
                   /\ entries' = [entries EXCEPT ![n].fails = f]
                   /\ Goto(w, "open") \/ Done(w)
      BY <1>2, <1>6 DEF RecordFailure
    <3>3. f \in 0..MaxConsecutiveFailures
      BY <1>4, <3>1, <3>2
    <3> QED BY <3>2, <3>3
  <2>2. PICK e \in Entry : e = [entries[n] EXCEPT !.fails = f]
    BY <1>4, <2>1 DEF Entry
  <2>3. /\ e.out <=> entries[n].out
        /\ e.open <=> entries[n].open
        /\ e.ip = entries[n].ip
        /\ e.latency <=> entries[n].latency
    BY <1>4, <2>2 DEF Entry
  <2>4. /\ entries' = [entries EXCEPT ![n] = e] /\ work[w].pc = "probe"
        /\ UNCHANGED <<managed, enabled, platform>>
    <3>1. work[w].pc = "probe" /\ UNCHANGED <<managed, enabled, platform>>
      BY <1>6 DEF RecordFailure, Reports, At
    <3>2. entries' = [entries EXCEPT ![n] = e]
      BY <2>1, <2>2
    <3> QED BY <3>1, <3>2
  <2>5. CASE Goto(w, "open")
    BY <1>1, <1>2, <1>3, <2>3, <2>4, <2>5, ReportKeeps
  <2>6. CASE Done(w)
    BY <1>1, <1>2, <1>3, <2>3, <2>4, <2>6, ReportKeeps
  <2> QED BY <2>1, <2>5, <2>6
<1>7. CASE RecordLatency(w)
  <2>1. PICK e \in Entry : e = [entries[n] EXCEPT !.latency = TRUE]
    BY <1>4 DEF Entry
  <2>2. /\ e.out <=> entries[n].out
        /\ e.open <=> entries[n].open
        /\ e.ip = entries[n].ip
        /\ e.latency
    BY <1>4, <2>1 DEF Entry
  <2>3. /\ entries' = [entries EXCEPT ![n] = e]
        /\ \/ entries[n].latency /\ Done(w)
           \/ Goto(w, "notify")
        /\ UNCHANGED <<managed, enabled, platform>>
    BY <1>2, <1>7, <2>1 DEF RecordLatency
  <2> QED BY <1>1, <1>2, <1>3, <2>2, <2>3, ReportKeeps
<1>8. CASE SwitchCircuit(w)
  <2>1. PICK b \in BOOLEAN : b <=> work[w].pc = "open"
    OBVIOUS
  <2>2. PICK e \in Entry : e = [entries[n] EXCEPT !.open = b]
    BY <1>4, <2>1 DEF Entry
  <2>3. /\ e.out <=> entries[n].out
        /\ e.open <=> b
        /\ e.ip = entries[n].ip
        /\ e.latency <=> entries[n].latency
    BY <1>4, <2>2 DEF Entry
  <2>4. /\ entries' = [entries EXCEPT ![n] = e]
        /\ \/ (entries[n].open <=> b) /\ Done(w)
           \/ Goto(w, "notify")
        /\ UNCHANGED <<managed, enabled, platform>>
    BY <1>2, <1>4, <1>8, <2>1, <2>2 DEF SwitchCircuit, Entry
  <2> QED BY <1>1, <1>2, <1>3, <2>3, <2>4, ReportKeeps
<1>9. CASE \E ip \in IPs : UpdateNodeEgressIP(w, ip)
  <2>1. PICK ip \in IPs : UpdateNodeEgressIP(w, ip)
    BY <1>9
  <2>2. PICK e \in Entry : e = [entries[n] EXCEPT !.ip = ip]
    BY <1>4 DEF Entry
  <2>3. /\ e.out <=> entries[n].out
        /\ e.open <=> entries[n].open
        /\ e.ip = ip
        /\ e.latency <=> entries[n].latency
    BY <1>4, <2>2 DEF Entry
  <2>4. /\ entries' = [entries EXCEPT ![n] = e]
        /\ \/ entries[n].ip = ip /\ Done(w)
           \/ Goto(w, "notify")
        /\ UNCHANGED <<managed, enabled, platform>>
    BY <1>2, <2>1, <2>2 DEF UpdateNodeEgressIP
  <2> QED BY <1>1, <1>2, <1>3, <2>3, <2>4, ReportKeeps
<1> QED BY <1>5, <1>6, <1>7, <1>8, <1>9

\* A refresh brings a node in or takes one out of the managed set.
LEMMA RefreshKeeps ==
    ASSUME ViewsInv, Serial', NEW w \in Writers, NEW n \in Nodes,
           RefreshAdds(w, n) \/ RefreshRemoves(w, n)
    PROVE  ViewsInv'
<1>1. PICK p \in {"compute", "drop"} : Start(w, [NewJob(p, n) EXCEPT !.locked = TRUE])
  BY DEF RefreshAdds, RefreshRemoves
<1>2. PICK j \in Job : /\ j = [NewJob(p, n) EXCEPT !.locked = TRUE]
                       /\ j.pc = p /\ j.node = n /\ j.next = "done"
  BY <1>1, NewNodeJob DEF Phases
<1>3. /\ IsMap(work', Writers, Job) /\ OnlyJob(w)
      /\ w \notin DOMAIN work /\ w \in DOMAIN work' /\ work'[w] = j
  BY <1>1, <1>2, JobStarts DEF ViewsInv
<1>4. /\ UNCHANGED <<entries, enabled, registered, used, views>>
      /\ managed' \in SUBSET Nodes
      /\ \A m \in Nodes \ {n} : m \in managed' <=> m \in managed
  BY DEF RefreshAdds, RefreshRemoves, platform, ViewsInv, TypeOK
<1>5. TypeOK'
  BY <1>3, <1>4 DEF ViewsInv, TypeOK
<1>6. HasOutbound(n)' <=> HasOutbound(n)
  BY <1>4 DEF HasOutbound
<1> QED BY <1>1, <1>2, <1>3, <1>4, <1>5, <1>6, NodeChange DEF NodePhases, platform

\* A node enters the pool, or gains a reference.
LEMMA AddNodeKeeps ==
    ASSUME ViewsInv, Serial', NEW w \in Writers, AddNodeFromSub(w)
    PROVE  ViewsInv'
<1>1. w \in DOMAIN work /\ work[w].pc = "compute"
  BY DEF AddNodeFromSub, At
<1>2. PICK n \in Nodes : n = work[w].node
  BY <1>1, NodeJob DEF NodePhases
<1>3. TypeOK /\ work[w].next # "publish"
  BY <1>1, NodeJob DEF NodePhases
<1>4. NewNodeEntry \in Entry
  BY ViewsAssumption DEF NewNodeEntry, Entry
<1>5. /\ IsMap(entries', Nodes, Entry) /\ DOMAIN entries' = DOMAIN entries \cup {n}
      /\ \A m \in DOMAIN entries \ {n} : entries'[m] = entries[m]
  <2>1. entries' = MapPut(entries, n, NewNodeEntry) /\ IsMap(entries, Nodes, Entry)
    BY <1>2, <1>3 DEF AddNodeFromSub, TypeOK
  <2>2. PICK e \in Entry : e = NewNodeEntry
    BY <1>4
  <2>3. entries' = MapPut(entries, n, e)
    BY <2>1, <2>2
  <2> QED BY <2>1, <2>3 DEF MapPut, IsMap
<1>6. /\ IsMap(work', Writers, Job) /\ OnlyJob(w) /\ w \in DOMAIN work'
      /\ work'[w].pc = "build" /\ work'[w].node = n /\ work'[w].next # "publish"
  BY <1>1, <1>2, <1>3, JobGoes DEF Phases, AddNodeFromSub
<1>7. UNCHANGED <<managed, enabled, registered, used, views>>
  BY DEF AddNodeFromSub, platform
<1>8. TypeOK'
  BY <1>3, <1>5, <1>6, <1>7 DEF TypeOK
<1>9. Builds(w, n)'
  BY <1>6 DEF Builds
<1> QED BY <1>1, <1>2, <1>3, <1>5, <1>6, <1>7, <1>8, <1>9, NodeChange DEF NodePhases, platform

\* Building an outbound: no other attribute and no other node changes, and an
\* outbound that is there stays.
LEMMA EnsureBuilds ==
    ASSUME TypeOK, NEW n \in Nodes, EnsureNodeOutbound(n)
    PROVE  /\ IsMap(entries', Nodes, Entry) /\ DOMAIN entries' = DOMAIN entries
           /\ \A m \in DOMAIN entries :
                /\ m # n => entries'[m] = entries[m]
                /\ entries[m].out => entries'[m].out
                /\ entries'[m].open <=> entries[m].open
                /\ entries'[m].ip = entries[m].ip
                /\ entries'[m].latency <=> entries[m].latency
           /\ Flaky = {} => HasOutbound(n)'
           /\ Flaky = {} /\ HasOutbound(n) /\ n \in DOMAIN entries
                => (entries'[n].out <=> entries[n].out)
<1>1. CASE n \notin DOMAIN entries
  BY <1>1 DEF EnsureNodeOutbound, TypeOK, HasOutbound
<1>2. CASE n \in DOMAIN entries
  <2>1. PICK built \in BuildOutcomes(n) : entries' = [entries EXCEPT ![n].out = @ \/ built]
    BY <1>2 DEF EnsureNodeOutbound
  <2>2. built \in BOOLEAN /\ (Flaky = {} => (built <=> n \notin Unbuildable))
    BY <2>1 DEF BuildOutcomes
  <2>3. entries[n] \in Entry
    BY <1>2, EntryType
  <2>4. PICK b \in BOOLEAN : b <=> entries[n].out \/ built
    OBVIOUS
  <2>5. PICK e \in Entry : e = [entries[n] EXCEPT !.out = b]
    BY <2>3, <2>4 DEF Entry
  <2>6. /\ e.out <=> entries[n].out \/ built
        /\ e.open <=> entries[n].open
        /\ e.ip = entries[n].ip
        /\ e.latency <=> entries[n].latency
    BY <2>3, <2>4, <2>5 DEF Entry
  <2>7. entries' = [entries EXCEPT ![n] = e]
    BY <2>1, <2>2, <2>3, <2>4, <2>5 DEF Entry
  <2>8. /\ IsMap(entries', Nodes, Entry) /\ DOMAIN entries' = DOMAIN entries
        /\ entries'[n] = e
        /\ \A m \in DOMAIN entries \ {n} : entries'[m] = entries[m]
    BY <1>2, <2>7, EntryChanges
  <2>9. (Flaky = {} => HasOutbound(n)')
        /\ (Flaky = {} /\ HasOutbound(n) => (entries'[n].out <=> entries[n].out))
    BY <1>2, <2>2, <2>6, <2>8 DEF HasOutbound
  <2> QED BY <2>6, <2>8, <2>9
<1> QED BY <1>1, <1>2

\* The callback after an addition builds the outbound and will notify.
LEMMA OnNodeAddedKeeps ==
    ASSUME ViewsInv, Serial', NEW w \in Writers, OnNodeAdded(w)
    PROVE  ViewsInv'
<1>1. w \in DOMAIN work /\ work[w].pc = "build"
  BY DEF OnNodeAdded, At
<1>2. PICK n \in Nodes : n = work[w].node
  BY <1>1, NodeJob DEF NodePhases
<1>3. TypeOK /\ work[w].next # "publish"
  BY <1>1, NodeJob DEF NodePhases
<1>4. /\ IsMap(entries', Nodes, Entry) /\ DOMAIN entries' = DOMAIN entries
      /\ \A m \in DOMAIN entries \ {n} : entries'[m] = entries[m]
      /\ Flaky = {} => HasOutbound(n)'
  BY <1>2, <1>3, EnsureBuilds DEF OnNodeAdded
<1>5. /\ IsMap(work', Writers, Job) /\ OnlyJob(w) /\ w \in DOMAIN work'
      /\ work'[w].pc = "notify" /\ work'[w].node = n /\ work'[w].next # "publish"
  BY <1>1, <1>2, <1>3, JobGoes DEF Phases, OnNodeAdded
<1>6. UNCHANGED <<managed, enabled, registered, used, views>>
  BY DEF OnNodeAdded, platform
<1>7. TypeOK'
  BY <1>3, <1>4, <1>5, <1>6 DEF TypeOK
<1> QED BY <1>1, <1>2, <1>3, <1>4, <1>5, <1>6, <1>7, NodeChange DEF NodePhases, platform

\* The platform object of a job.
LEMMA JobObject ==
    ASSUME ViewsInv, NEW w \in DOMAIN work, work[w].pc \in {"dirty", "acquire", "scan", "publish"}
    PROVE  /\ TypeOK /\ w \in Writers /\ work[w] \in Job /\ JobInv(w)
           /\ work[w].obj \in Objects
           /\ work[w].next = "publish" <=> work[w].obj # registered
<1>1. TypeOK /\ JobInv(w) /\ used \subseteq Objects /\ registered \in Objects
  BY DEF ViewsInv, TypeOK
<1>2. w \in Writers /\ work[w] \in Job
  BY <1>1, JobType
<1>3. work[w].next = "publish" <=> work[w].obj # registered
  BY <1>1 DEF JobInv, JobShape
<1>4. work[w].obj \in Objects
  BY <1>1, <1>3 DEF JobInv, JobShape
<1> QED BY <1>1, <1>2, <1>3, <1>4

\* Routability and outbounds when the pool stays as it is.
LEMMA PoolStays ==
    ASSUME UNCHANGED pool
    PROVE  /\ \A o, n : Routable(o, n)' <=> Routable(o, n)
           /\ \A n : HasOutbound(n)' <=> HasOutbound(n)
BY DEF pool, Routable, evaluateNode, IsHealthy, HeldByEnabled, HasOutbound

\* notifyAllPlatformsDirty looks the object up ...
LEMMA SnapshotKeeps ==
    ASSUME ViewsInv, Serial', NEW w \in Writers, PlatformSnapshot(w)
    PROVE  ViewsInv'
<1>1. w \in DOMAIN work /\ work[w].pc = "notify"
  BY DEF PlatformSnapshot, At
<1>2. TypeOK /\ work[w] \in Job /\ work[w].node \in Nodes /\ work[w].next # "publish"
  BY <1>1, NodeJob DEF NodePhases
<1>3. registered \in Objects
  BY <1>2 DEF TypeOK
<1>4. PICK j \in Job : j = [work[w] EXCEPT !.pc = "dirty", !.obj = registered]
  BY <1>2, <1>3 DEF Job, Phases
<1>5. j.pc = "dirty" /\ j.obj = registered /\ j.node = work[w].node /\ j.next = work[w].next
  BY <1>2, <1>4 DEF Job
<1>6. work' = [work EXCEPT ![w] = j]
  BY <1>4 DEF PlatformSnapshot
<1>7. /\ IsMap(work', Writers, Job) /\ OnlyJob(w) /\ w \in DOMAIN work' /\ work'[w] = j
  BY <1>1, <1>2, <1>6, JobChanges
<1>8. UNCHANGED <<entries, managed, enabled, registered, used, views>> /\ UNCHANGED pool
  BY DEF PlatformSnapshot, pool, platform
<1>9. TypeOK'
  BY <1>2, <1>7, <1>8 DEF TypeOK
<1>10. JobInv(w)'
  BY <1>2, <1>5, <1>7, <1>8 DEF JobInv, JobShape, ScanClear, BuildExact, ScansAlone
<1>11. \A n \in Nodes : Covers(w, n) => Covers(w, n)'
  BY <1>1, <1>5, <1>7, <1>8 DEF Covers
<1>12. \A n \in Nodes : (Agrees(n) => Agrees(n)') /\ ~Builds(w, n)
  BY <1>1, <1>8, PoolStays DEF Agrees, Builds
<1>13. \A n \in Nodes : HasOutbound(n)' <=> HasOutbound(n)
  BY <1>8, PoolStays
<1> QED BY <1>7, <1>8, <1>9, <1>10, <1>11, <1>12, <1>13, LocalStep

\* ... and NotifyDirty makes its view right for the node.
LEMMA NotifyDirtyKeeps ==
    ASSUME ViewsInv, Serial', NEW w \in Writers, NotifyDirty(w)
    PROVE  ViewsInv'
<1>1. w \in DOMAIN work /\ work[w].pc = "dirty"
  BY DEF NotifyDirty, At
<1>2. PICK n \in Nodes : n = work[w].node
  BY <1>1 DEF ViewsInv, JobInv, JobShape
<1>3. TypeOK /\ work[w].obj = registered /\ registered \in Objects
  BY <1>1 DEF ViewsInv, JobInv, JobShape, TypeOK
<1>4. /\ IsMap(work', Writers, Job) /\ OnlyJob(w) /\ w \notin DOMAIN work'
  BY <1>1, <1>3, JobEnds DEF NotifyDirty
<1>5. /\ UNCHANGED <<entries, managed, enabled, registered, used>> /\ UNCHANGED pool
      /\ views' = [views EXCEPT ![registered] =
                     IF Routable(registered, n) THEN @ \cup {n} ELSE @ \ {n}]
      /\ ~ViewLocked(registered)
  BY <1>2, <1>3 DEF NotifyDirty, pool
<1>6. /\ views' \in [Objects -> SUBSET Nodes]
      /\ \A m \in Nodes \ {n} : m \in views'[registered] <=> m \in views[registered]
      /\ n \in views'[registered] <=> Routable(registered, n)
      /\ \A o \in Objects \ {registered} : views'[o] = views[o]
  BY <1>3, <1>5 DEF TypeOK
<1>7. TypeOK'
  BY <1>3, <1>4, <1>5, <1>6 DEF TypeOK
<1>8. ASSUME NEW v \in DOMAIN work \ {w}, work[v].pc = "scan"
      PROVE  views'[work[v].obj] = views[work[v].obj]
  <2>1. work[v].obj \in Objects /\ work[v].obj # registered
    BY <1>5, <1>8, JobObject DEF ViewLocked
  <2> QED BY <1>6, <2>1
<1>9. ASSUME NEW m \in Nodes, Agrees(m) \/ Covers(w, m) PROVE Agrees(m)'
  <2>1. CASE m = n
    BY <1>5, <1>6, <2>1, PoolStays DEF Agrees
  <2>2. CASE m # n
    <3>1. ~Covers(w, m)
      BY <1>1, <1>2, <2>2 DEF Covers
    <3> QED BY <1>5, <1>6, <1>9, <2>2, <3>1, PoolStays DEF Agrees
  <2> QED BY <2>1, <2>2
<1>10. \A m \in Nodes : (HasOutbound(m)' <=> HasOutbound(m)) /\ ~Builds(w, m)
  BY <1>1, <1>5, PoolStays DEF Builds
<1> QED BY <1>1, <1>4, <1>5, <1>7, <1>8, <1>9, <1>10, LocalStep

\* A switch of the subscription: a rebuild of every view is due.
LEMMA SwitchKeeps ==
    ASSUME ViewsInv, Serial', NEW w \in Writers, SetSubscriptionEnabled(w)
    PROVE  ViewsInv'
<1>1. TypeOK
  BY DEF ViewsInv
<1>2. PICK j \in Job : /\ j.pc = "rebuild" /\ j.next # "publish" /\ Start(w, j)
  <2>1. PICK c \in SUBSET Nodes, x \in {"done", "ensure"} :
          Start(w, [NewJob("rebuild", NoNode) EXCEPT !.next = x, !.cands = c])
    BY <1>1 DEF SetSubscriptionEnabled, TypeOK
  <2>2. PICK j : j = [NewJob("rebuild", NoNode) EXCEPT !.next = x, !.cands = c]
    OBVIOUS
  <2>3. j = [pc |-> "rebuild", node |-> NoNode, obj |-> NoObject, todo |-> {}, cands |-> c,
             next |-> x, locked |-> FALSE]
    BY <2>2 DEF NewJob
  <2>4. j \in Job /\ j.pc = "rebuild" /\ j.next # "publish"
    BY <2>1, <2>3 DEF Job, Phases
  <2> QED BY <2>1, <2>2, <2>4
<1>3. /\ IsMap(work', Writers, Job) /\ OnlyJob(w)
      /\ w \notin DOMAIN work /\ w \in DOMAIN work' /\ work'[w] = j
  BY <1>1, <1>2, JobStarts
<1>4. UNCHANGED <<entries, managed, registered, used, views>> /\ enabled' \in BOOLEAN
  BY <1>1 DEF SetSubscriptionEnabled, platform, TypeOK
<1>5. TypeOK'
  BY <1>1, <1>3, <1>4 DEF TypeOK
<1>6. JobInv(w)'
  BY <1>2, <1>3 DEF JobInv, JobShape, ScanClear, BuildExact, ScansAlone
<1>7. \A n \in Nodes : Covers(w, n)' /\ (HasOutbound(n)' <=> HasOutbound(n))
  BY <1>2, <1>3, <1>4 DEF Covers, HasOutbound
<1> QED BY <1>3, <1>4, <1>5, <1>6, <1>7, LocalStep

\* A rebuild that is to be made of the registered object.
LEMMA RebuildAllKeeps ==
    ASSUME ViewsInv, Serial', NEW w \in Writers, RebuildAllPlatforms(w)
    PROVE  ViewsInv'
<1>1. w \in DOMAIN work /\ work[w].pc = "rebuild" /\ TypeOK
  BY DEF RebuildAllPlatforms, At, ViewsInv
<1>2. work[w] \in Job /\ work[w].next # "publish" /\ registered \in Objects
  BY <1>1, JobType DEF ViewsInv, JobInv, JobShape, TypeOK
<1>3. PICK j \in Job : j = [work[w] EXCEPT !.pc = "acquire", !.obj = registered]
  BY <1>2 DEF Job, Phases
<1>4. j.pc = "acquire" /\ j.obj = registered /\ j.next # "publish"
  BY <1>2, <1>3 DEF Job
<1>5. work' = [work EXCEPT ![w] = j]
  BY <1>3 DEF RebuildAllPlatforms
<1>6. /\ IsMap(work', Writers, Job) /\ OnlyJob(w) /\ w \in DOMAIN work' /\ work'[w] = j
  BY <1>1, <1>5, JobChanges
<1>7. UNCHANGED <<entries, managed, enabled, registered, used, views>> /\ UNCHANGED pool
  BY DEF RebuildAllPlatforms, pool, platform
<1>8. TypeOK'
  BY <1>1, <1>6, <1>7 DEF TypeOK
<1>9. JobInv(w)'
  BY <1>4, <1>6, <1>7 DEF JobInv, JobShape, ScanClear, BuildExact, ScansAlone
<1>10. \A n \in Nodes : Covers(w, n)' /\ (HasOutbound(n)' <=> HasOutbound(n)) /\ ~Builds(w, n)
  BY <1>1, <1>4, <1>6, <1>7, PoolStays DEF Covers, Builds
<1> QED BY <1>6, <1>7, <1>8, <1>9, <1>10, LocalStep

\* A rebuild begins with every node still to be looked at.
LEMMA RebuildStartsKeeps ==
    ASSUME ViewsInv, Serial', NEW w \in Writers,
           RebuildPlatformView(w) \/ \E o \in Objects : ReplacePlatform(w, o)
    PROVE  ViewsInv'
<1>1. TypeOK /\ registered \in used /\ registered \in Objects
  BY DEF ViewsInv, TypeOK
<1>2. PICK o \in Objects, x \in {"done", "publish"} :
        /\ Start(w, [NewJob("acquire", NoNode) EXCEPT !.obj = o, !.next = x])
        /\ used' = used \cup {o}
        /\ x = "publish" => o \notin used
        /\ x = "done" => o = registered
        /\ UNCHANGED <<pool, registered, views>>
  <2>1. CASE RebuildPlatformView(w)
    <3>1. [NewJob("acquire", NoNode) EXCEPT !.obj = registered]
            = [NewJob("acquire", NoNode) EXCEPT !.obj = registered, !.next = "done"]
      <4>1. PICK a : a = [NewJob("acquire", NoNode) EXCEPT !.obj = registered]
        OBVIOUS
      <4>2. PICK b : b = [NewJob("acquire", NoNode) EXCEPT !.obj = registered, !.next = "done"]
        OBVIOUS
      <4>3. a = [pc |-> "acquire", node |-> NoNode, obj |-> registered, todo |-> {}, cands |-> {},
                 next |-> "done", locked |-> FALSE]
        BY <4>1 DEF NewJob
      <4>4. b = [pc |-> "acquire", node |-> NoNode, obj |-> registered, todo |-> {}, cands |-> {},
                 next |-> "done", locked |-> FALSE]
        BY <4>2 DEF NewJob
      <4> QED BY <4>1, <4>2, <4>3, <4>4
    <3>2. used' = used \cup {registered}
      BY <1>1, <2>1 DEF RebuildPlatformView, platform
    <3> QED BY <1>1, <2>1, <3>1, <3>2 DEF RebuildPlatformView, platform
  <2>2. CASE \E o \in Objects : ReplacePlatform(w, o)
    BY <2>2 DEF ReplacePlatform
  <2> QED BY <2>1, <2>2
<1>3. PICK j : j = [NewJob("acquire", NoNode) EXCEPT !.obj = o, !.next = x]
  OBVIOUS
<1>4. j = [pc |-> "acquire", node |-> NoNode, obj |-> o, todo |-> {}, cands |-> {},
           next |-> x, locked |-> FALSE]
  BY <1>3 DEF NewJob
<1>5. j \in Job /\ j.pc = "acquire" /\ j.obj = o /\ j.next = x
  BY <1>2, <1>4 DEF Job, Phases
<1>6. /\ IsMap(work', Writers, Job) /\ OnlyJob(w)
      /\ w \notin DOMAIN work /\ w \in DOMAIN work' /\ work'[w] = j
  BY <1>1, <1>2, <1>3, <1>5, JobStarts
<1>7. UNCHANGED <<entries, managed, enabled, registered, views>> /\ used' \in SUBSET Objects
  BY <1>1, <1>2 DEF pool, TypeOK
<1>8. TypeOK'
  BY <1>1, <1>6, <1>7 DEF TypeOK
<1>9. JobInv(w)'
  <2>1. JobShape(w)'
    BY <1>1, <1>2, <1>5, <1>6, <1>7 DEF JobShape
  <2>2. ScanClear(w)' /\ BuildExact(w)' /\ ScansAlone(w)'
    BY <1>5, <1>6 DEF ScanClear, BuildExact, ScansAlone
  <2> QED BY <2>1, <2>2 DEF JobInv
<1>10. \A n \in Nodes : (Agrees(n)' <=> Agrees(n)) /\ (HasOutbound(n)' <=> HasOutbound(n))
  BY <1>2, <1>7, PoolStays DEF Agrees
<1>11. used \subseteq used'
  BY <1>2
<1> QED BY <1>6, <1>7, <1>8, <1>9, <1>10, <1>11, LocalStep

\* FullRebuild clears the view and puts every node on its list.
LEMMA RebuildClearKeeps ==
    ASSUME ViewsInv, Serial', NEW w \in Writers, RebuildClear(w)
    PROVE  ViewsInv'
<1>1. w \in DOMAIN work /\ work[w].pc = "acquire"
  BY DEF RebuildClear, At
<1>2. PICK o \in Objects : o = work[w].obj
  BY <1>1, JobObject
<1>3. /\ TypeOK /\ work[w] \in Job /\ JobInv(w)
      /\ work[w].next = "publish" <=> o # registered
  BY <1>1, <1>2, JobObject
<1>4. DOMAIN entries \subseteq Nodes /\ registered \in Objects
  BY <1>3 DEF TypeOK, IsMap
<1>5. PICK j \in Job : j = [work[w] EXCEPT !.pc = "scan", !.todo = DOMAIN entries]
  BY <1>3, <1>4 DEF Job, Phases
<1>6. j.pc = "scan" /\ j.obj = o /\ j.todo = DOMAIN entries /\ j.next = work[w].next
  BY <1>2, <1>3, <1>5 DEF Job
<1>7. work' = [work EXCEPT ![w] = j]
  BY <1>5 DEF RebuildClear
<1>8. /\ IsMap(work', Writers, Job) /\ OnlyJob(w) /\ w \in DOMAIN work' /\ work'[w] = j
  BY <1>1, <1>3, <1>7, JobChanges
<1>9. /\ UNCHANGED <<entries, managed, enabled, registered, used>> /\ UNCHANGED pool
      /\ views' = [views EXCEPT ![o] = {}] /\ ~ViewLocked(o)
  BY <1>2 DEF RebuildClear, pool
<1>10. /\ views' \in [Objects -> SUBSET Nodes] /\ views'[o] = {}
       /\ \A p \in Objects \ {o} : views'[p] = views[p]
  BY <1>3, <1>9 DEF TypeOK
<1>11. TypeOK'
  BY <1>3, <1>8, <1>9, <1>10 DEF TypeOK
<1>12. ASSUME NEW v \in DOMAIN work \ {w}, work[v].pc = "scan"
       PROVE  work[v].obj # o /\ views'[work[v].obj] = views[work[v].obj]
  <2>1. work[v].obj \in Objects /\ work[v].obj # o
    BY <1>9, <1>12, JobObject DEF ViewLocked
  <2> QED BY <1>10, <2>1
<1>13. \A n : n \notin DOMAIN entries => ~Routable(o, n)'
  BY <1>9 DEF Routable
<1>14. JobInv(w)'
  <2>1. JobShape(w)'
    BY <1>1, <1>2, <1>3, <1>6, <1>8, <1>9 DEF JobInv, JobShape
  <2>2. ScanClear(w)'
    BY <1>6, <1>8, <1>10 DEF ScanClear
  <2>3. BuildExact(w)'
    BY <1>6, <1>8, <1>10, <1>13 DEF BuildExact
  <2>4. ScansAlone(w)'
    <3> SUFFICES ASSUME NEW v \in DOMAIN work' \ {w}
                 PROVE  ~(work'[v].pc = "scan" /\ work'[w].pc = "scan" /\ work'[v].obj = work'[w].obj)
      BY DEF ScansAlone
    <3>1. v \in DOMAIN work \ {w} /\ work'[v] = work[v]
      BY <1>8 DEF OnlyJob, IsMap
    <3> QED BY <1>6, <1>8, <1>12, <3>1
  <2> QED BY <2>1, <2>2, <2>3, <2>4 DEF JobInv
<1>15. ASSUME NEW n \in Nodes, Agrees(n) \/ Covers(w, n) PROVE Agrees(n)' \/ Covers(w, n)'
  <2>1. CASE o = registered
    <3>1. CASE n \in DOMAIN entries
      BY <1>6, <1>8, <1>9, <2>1, <3>1 DEF Covers
    <3>2. CASE n \notin DOMAIN entries
      BY <1>9, <1>10, <1>13, <2>1, <3>2 DEF Agrees
    <3> QED BY <3>1, <3>2
  <2>2. CASE o # registered
    <3>1. ~Covers(w, n)
      BY <1>1, <1>2, <2>2 DEF Covers
    <3> QED BY <1>4, <1>9, <1>10, <1>15, <2>2, <3>1, PoolStays DEF Agrees
  <2> QED BY <2>1, <2>2
<1>16. \A n \in Nodes : (HasOutbound(n)' <=> HasOutbound(n)) /\ ~Builds(w, n)
  BY <1>1, <1>9, PoolStays DEF Builds
<1> QED BY <1>1, <1>8, <1>9, <1>11, <1>12, <1>14, <1>15, <1>16, LocalStep

\* A node the rebuild visits is judged by its state of now; it was not in the
\* view before.
LEMMA RebuildVisitKeeps ==
    ASSUME ViewsInv, Serial', NEW w \in Writers, NEW n \in Nodes, RebuildVisit(w, n)
    PROVE  ViewsInv'
<1>1. w \in DOMAIN work /\ work[w].pc = "scan" /\ n \in work[w].todo
  BY DEF RebuildVisit, At
<1>2. PICK o \in Objects : o = work[w].obj
  BY <1>1, JobObject
<1>3. /\ TypeOK /\ work[w] \in Job /\ JobInv(w)
      /\ work[w].next = "publish" <=> o # registered
  BY <1>1, <1>2, JobObject
<1>4. PICK j \in Job : j = [work[w] EXCEPT !.todo = work[w].todo \ {n}]
  BY <1>3 DEF Job
<1>5. j.pc = "scan" /\ j.obj = o /\ j.todo = work[w].todo \ {n} /\ j.next = work[w].next
      /\ j.node = work[w].node
  BY <1>1, <1>2, <1>3, <1>4 DEF Job
<1>6. work' = [work EXCEPT ![w] = j]
  BY <1>4 DEF RebuildVisit
<1>7. /\ IsMap(work', Writers, Job) /\ OnlyJob(w) /\ w \in DOMAIN work' /\ work'[w] = j
  BY <1>1, <1>3, <1>6, JobChanges
<1>8. /\ UNCHANGED <<entries, managed, enabled, registered, used>> /\ UNCHANGED pool
      /\ views' = IF Routable(o, n) THEN [views EXCEPT ![o] = @ \cup {n}] ELSE views
  BY <1>2 DEF RebuildVisit, pool
<1>9. n \notin views[o] /\ work[w].todo \cap views[o] = {}
  BY <1>1, <1>2, <1>3 DEF JobInv, ScanClear
<1>10. /\ views' \in [Objects -> SUBSET Nodes]
       /\ n \in views'[o] <=> Routable(o, n)
       /\ \A m \in Nodes \ {n} : m \in views'[o] <=> m \in views[o]
       /\ \A p \in Objects \ {o} : views'[p] = views[p]
  <2>1. CASE Routable(o, n)
    BY <1>3, <1>8, <2>1 DEF TypeOK
  <2>2. CASE ~Routable(o, n)
    BY <1>3, <1>8, <1>9, <2>2 DEF TypeOK
  <2> QED BY <2>1, <2>2
<1>11. TypeOK'
  BY <1>3, <1>7, <1>8, <1>10 DEF TypeOK
<1>12. ASSUME NEW v \in DOMAIN work \ {w}, work[v].pc = "scan"
       PROVE  work[v].obj # o /\ views'[work[v].obj] = views[work[v].obj]
  <2>1. work[v].obj \in Objects /\ work[v].obj # o
    BY <1>1, <1>2, <1>3, <1>12, JobObject DEF JobInv, ScansAlone
  <2> QED BY <1>10, <2>1
<1>13. work[w].todo \subseteq Nodes
  BY <1>3 DEF Job
<1>14. JobInv(w)'
  <2>1. JobShape(w)'
    BY <1>1, <1>2, <1>3, <1>5, <1>7, <1>8 DEF JobInv, JobShape
  <2>2. ScanClear(w)'
    BY <1>5, <1>7, <1>9, <1>10, <1>13 DEF ScanClear
  <2>3. BuildExact(w)'
    <3> SUFFICES ASSUME work[w].next = "publish", NEW m \in Nodes
                 PROVE  m \in j.todo \/ (m \in views'[o] <=> Routable(o, m)')
      BY <1>5, <1>7 DEF BuildExact
    <3>1. Routable(o, m)' <=> Routable(o, m)
      BY <1>8, PoolStays
    <3>2. m \in work[w].todo \/ (m \in views[o] <=> Routable(o, m))
      BY <1>1, <1>2, <1>3 DEF JobInv, BuildExact
    <3> QED BY <1>5, <1>10, <3>1, <3>2
  <2>4. ScansAlone(w)'
    <3> SUFFICES ASSUME NEW v \in DOMAIN work' \ {w}
                 PROVE  ~(work'[v].pc = "scan" /\ work'[w].pc = "scan" /\ work'[v].obj = work'[w].obj)
      BY DEF ScansAlone
    <3>1. v \in DOMAIN work \ {w} /\ work'[v] = work[v]
      BY <1>7 DEF OnlyJob, IsMap
    <3> QED BY <1>5, <1>7, <1>12, <3>1
  <2> QED BY <2>1, <2>2, <2>3, <2>4 DEF JobInv
<1>15. ASSUME NEW m \in Nodes, Agrees(m) \/ Covers(w, m) PROVE Agrees(m)' \/ Covers(w, m)'
  <2>0. Routable(registered, m)' <=> Routable(registered, m)
    BY <1>8, PoolStays
  <2>1. CASE o # registered
    <3>1. ~Covers(w, m)
      BY <1>1, <1>2, <2>1 DEF Covers
    <3>2. views'[registered] = views[registered]
      BY <1>3, <1>10, <2>1 DEF TypeOK
    <3> QED BY <1>8, <1>15, <2>0, <3>1, <3>2 DEF Agrees
  <2>2. CASE o = registered /\ m = n
    BY <1>8, <1>10, <2>0, <2>2 DEF Agrees
  <2>3. CASE o = registered /\ m # n
    <3>1. Covers(w, m) => Covers(w, m)'
      BY <1>1, <1>2, <1>5, <1>7, <1>8, <2>3 DEF Covers
    <3>2. Agrees(m) => Agrees(m)'
      BY <1>8, <1>10, <2>0, <2>3 DEF Agrees
    <3> QED BY <1>15, <3>1, <3>2
  <2> QED BY <2>1, <2>2, <2>3
<1>16. \A m \in Nodes : (HasOutbound(m)' <=> HasOutbound(m)) /\ ~Builds(w, m)
  BY <1>1, <1>8, PoolStays DEF Builds
<1> QED BY <1>1, <1>7, <1>8, <1>11, <1>12, <1>14, <1>15, <1>16, LocalStep

\* The end of a rebuild, and of a switch.
LEMMA RebuildEndKeeps ==
    ASSUME ViewsInv, Serial', NEW w \in Writers, RebuildEnd(w) \/ ReenableEnd(w)
    PROVE  ViewsInv'
<1>1. w \in DOMAIN work /\ TypeOK /\ JobInv(w) /\ work[w] \in Job
      /\ work[w].pc \in {"scan", "ensure"} /\ (work[w].pc = "scan" => work[w].todo = {})
  BY JobType DEF RebuildEnd, ReenableEnd, At, ViewsInv
<1>2. UNCHANGED <<entries, managed, enabled, registered, used, views>> /\ UNCHANGED pool
  BY DEF RebuildEnd, ReenableEnd, pool, platform
<1>3. \/ work[w].pc = "scan" /\ work[w].next = "publish" /\ Goto(w, "publish")
      \/ work[w].next = "ensure" /\ Goto(w, "ensure")
      \/ Done(w)
  BY DEF RebuildEnd, ReenableEnd, At
<1>4. /\ IsMap(work', Writers, Job) /\ OnlyJob(w)
      /\ w \in DOMAIN work' =>
           /\ work'[w].obj = work[w].obj /\ work'[w].next = work[w].next
           /\ \/ work[w].pc = "scan" /\ work[w].next = "publish" /\ work'[w].pc = "publish"
              \/ work[w].next = "ensure" /\ work'[w].pc = "ensure"
  BY <1>1, <1>3, JobGoes, JobEnds DEF Phases
<1>5. TypeOK'
  BY <1>1, <1>2, <1>4 DEF TypeOK
<1>6. ASSUME w \in DOMAIN work' PROVE JobInv(w)'
  <2>1. JobShape(w)'
    BY <1>1, <1>2, <1>4, <1>6 DEF JobInv, JobShape
  <2>2. ScanClear(w)' /\ ScansAlone(w)'
    BY <1>4, <1>6 DEF ScanClear, ScansAlone
  <2>3. BuildExact(w)'
    BY <1>1, <1>2, <1>4, <1>6, PoolStays DEF JobInv, BuildExact
  <2> QED BY <2>1, <2>2, <2>3 DEF JobInv
<1>7. \A n \in Nodes : ~Covers(w, n) /\ ~Builds(w, n)
  BY <1>1 DEF Covers, Builds
<1>8. \A n \in Nodes : (Agrees(n)' <=> Agrees(n)) /\ (HasOutbound(n)' <=> HasOutbound(n))
  BY <1>2, PoolStays DEF Agrees
<1>9. w \in Writers /\ w \in DOMAIN work \cup DOMAIN work'
  BY <1>1
<1> QED BY <1>2, <1>4, <1>5, <1>6, <1>7, <1>8, <1>9, LocalStep

\* An outbound built for a re-enabled node: without flaky nodes only one whose
\* node is still on its way into the pool, and then somebody will say so.
LEMMA ReenabledKeeps ==
    ASSUME ViewsInv, Serial', NEW w \in Writers, NEW n \in Nodes, OnSubReenabledNode(w, n)
    PROVE  ViewsInv'
<1>1. w \in DOMAIN work /\ work[w].pc = "ensure" /\ TypeOK /\ JobInv(w) /\ work[w] \in Job
  BY JobType DEF OnSubReenabledNode, At, ViewsInv
<1>2. PICK j \in Job : j = [work[w] EXCEPT !.cands = work[w].cands \ {n}]
  BY <1>1 DEF Job
<1>3. j.pc = "ensure" /\ j.next = work[w].next /\ j.obj = work[w].obj
  BY <1>1, <1>2 DEF Job
<1>4. work' = [work EXCEPT ![w] = j]
  BY <1>2 DEF OnSubReenabledNode
<1>5. /\ IsMap(work', Writers, Job) /\ OnlyJob(w) /\ w \in DOMAIN work' /\ work'[w] = j
  BY <1>1, <1>4, JobChanges
<1>6. UNCHANGED <<managed, enabled, registered, used, views>>
  BY DEF OnSubReenabledNode, platform
<1>7. /\ IsMap(entries', Nodes, Entry) /\ DOMAIN entries' = DOMAIN entries
      /\ \A m \in DOMAIN entries :
           /\ m # n => entries'[m] = entries[m]
           /\ entries[m].out => entries'[m].out
           /\ entries'[m].open <=> entries[m].open
           /\ entries'[m].ip = entries[m].ip
           /\ entries'[m].latency <=> entries[m].latency
      /\ Flaky = {} => (HasOutbound(n) => HasOutbound(n)')
      /\ Flaky = {} /\ HasOutbound(n) /\ n \in DOMAIN entries
           => (entries'[n].out <=> entries[n].out)
  <2>1. CASE EnsureNodeOutbound(n)
    BY <1>1, <2>1, EnsureBuilds
  <2>2. CASE UNCHANGED entries
    BY <1>1, <2>2 DEF TypeOK, HasOutbound
  <2> QED BY <2>1, <2>2 DEF OnSubReenabledNode
<1>8. TypeOK'
  BY <1>1, <1>5, <1>6, <1>7 DEF TypeOK
<1>9. JobInv(w)'
  BY <1>1, <1>3, <1>5, <1>6 DEF JobInv, JobShape, ScanClear, BuildExact, ScansAlone
<1>10. \A m \in Nodes : ~Covers(w, m) /\ ~Builds(w, m)
  BY <1>1 DEF Covers, Builds
<1>11. \A m \in Nodes \ {n} : (HasOutbound(m)' <=> HasOutbound(m)) /\ (Agrees(m)' <=> Agrees(m))
  <2> TAKE m \in Nodes \ {n}
  <2>1. Routable(registered, m)' <=> Routable(registered, m)
    BY <1>6, <1>7, RoutableStays
  <2> QED BY <1>6, <1>7, <2>1 DEF HasOutbound, Agrees
<1>12. ASSUME Agrees(n), \A v \in DOMAIN work \ {w} : ~Covers(v, n) PROVE Agrees(n)'
  <2>1. Routable(registered, n) => Routable(registered, n)'
    BY <1>6, <1>7 DEF Routable, evaluateNode, IsHealthy, HeldByEnabled
  <2>2. Flaky = {} => (Routable(registered, n)' <=> Routable(registered, n))
    <3> SUFFICES ASSUME Flaky = {} PROVE Routable(registered, n)' <=> Routable(registered, n)
      OBVIOUS
    <3>1. \A v \in DOMAIN work : ~Builds(v, n)
      BY <1>10, <1>12 DEF Covers, Builds
    <3>2. HasOutbound(n)
      BY <3>1 DEF ViewsInv
    <3> QED BY <1>6, <1>7, <3>2, RoutableStays
  <2> QED BY <1>6, <1>12, <2>1, <2>2 DEF Agrees
<1>13. Flaky = {} => \A m \in Nodes : HasOutbound(m) => HasOutbound(m)'
  BY <1>7, <1>11
<1> QED BY <1>1, <1>5, <1>6, <1>7, <1>8, <1>9, <1>10, <1>11, <1>12, <1>13, LocalStep

\* The replacement is registered with the right view, while nobody else works.
LEMMA PublishKeeps ==
    ASSUME ViewsInv, Serial', NEW w \in Writers, PublishPlatform(w)
    PROVE  ViewsInv'
<1>1. w \in DOMAIN work /\ work[w].pc = "publish"
  BY DEF PublishPlatform, At
<1>2. PICK o \in Objects : o = work[w].obj
  BY <1>1, JobObject
<1>3. /\ TypeOK /\ JobInv(w) /\ work[w].next = "publish" /\ o # registered /\ o \in used
  BY <1>1, <1>2, JobObject DEF JobInv, JobShape
<1>4. \A v \in DOMAIN work : v = w
  BY <1>1, <1>3 DEF ViewsInv, Serial
<1>5. IsMap(work', Writers, Job) /\ DOMAIN work' = {}
  BY <1>1, <1>3, <1>4 DEF PublishPlatform, Done, MapDelete, TypeOK, IsMap
<1>6. registered' = o /\ UNCHANGED <<entries, managed, enabled, used, views>> /\ UNCHANGED pool
  BY <1>2 DEF PublishPlatform, pool
<1>7. TypeOK'
  BY <1>3, <1>5, <1>6 DEF TypeOK
<1>8. \A n \in Nodes : n \in views[o] <=> Routable(o, n)
  BY <1>1, <1>2, <1>3 DEF JobInv, BuildExact
<1>9. \A n \in Nodes : Agrees(n)'
  BY <1>6, <1>8, PoolStays DEF Agrees
<1>10. Flaky = {} => \A n \in Nodes : HasOutbound(n)'
  <2>1. \A n \in Nodes : ~\E v \in DOMAIN work : Builds(v, n)
    BY <1>1, <1>4 DEF Builds
  <2> QED BY <1>6, <2>1, PoolStays DEF ViewsInv
<1> QED BY <1>3, <1>5, <1>6, <1>7, <1>9, <1>10 DEF ViewsInv

\* The last reference goes, and the entry with it; goroutines that still hold
\* the entry will have nothing to say but that it is gone.
LEMMA RemoveNodeKeeps ==
    ASSUME ViewsInv, Serial', NEW w \in Writers, RemoveNodeFromSub(w)
    PROVE  ViewsInv'
<1>1. w \in DOMAIN work /\ work[w].pc = "drop" /\ TypeOK
  BY DEF RemoveNodeFromSub, At, ViewsInv
<1>2. PICK n \in Nodes : n = work[w].node
  BY <1>1, NodeJob DEF NodePhases
<1>3. /\ IsMap(entries', Nodes, Entry) /\ DOMAIN entries' = DOMAIN entries \ {n}
      /\ \A m \in DOMAIN entries \ {n} : entries'[m] = entries[m]
  <2>1. entries' = MapDelete(entries, n) /\ IsMap(entries, Nodes, Entry)
    BY <1>1, <1>2 DEF RemoveNodeFromSub, TypeOK
  <2> QED BY <2>1 DEF MapDelete, IsMap
<1>4. UNCHANGED <<managed, enabled, registered, used, views>>
  BY DEF RemoveNodeFromSub, platform
<1>5. DOMAIN work' = DOMAIN work
  BY <1>1 DEF RemoveNodeFromSub, Orphaned
<1>6. ASSUME NEW v \in DOMAIN work
      PROVE  /\ work[v] \in Job /\ work'[v] \in Job
             /\ \/ work'[v] = work[v] /\ ~(work[v].pc \in {"close", "open"} /\ work[v].node = n)
                   /\ v # w
                \/ /\ work'[v] = [work[v] EXCEPT !.pc = "notify"] /\ work[v].node = n
                   /\ work[v].pc \in {"close", "open", "drop"}
  <2>1. work[v] \in Job
    BY <1>1, JobType
  <2>2. [work[v] EXCEPT !.pc = "notify"] \in Job
    BY <2>1 DEF Job, Phases
  <2>3. CASE v = w
    <3>1. Orphaned(n)[w] = work[w]
      BY <1>1 DEF Orphaned
    <3>2. w \in DOMAIN Orphaned(n)
      BY <1>1 DEF Orphaned
    <3>3. work'[w] = [work[w] EXCEPT !.pc = "notify"]
      BY <1>2, <3>1, <3>2 DEF RemoveNodeFromSub
    <3> QED BY <1>1, <1>2, <2>1, <2>2, <2>3, <3>3
  <2>4. CASE v # w
    <3>1. work'[v] = Orphaned(n)[v]
      <4>1. v \in DOMAIN Orphaned(n)
        BY DEF Orphaned
      <4> QED BY <1>2, <2>4, <4>1 DEF RemoveNodeFromSub
    <3>2. Orphaned(n)[v] = IF work[v].node = n /\ work[v].pc \in {"close", "open"}
                           THEN [work[v] EXCEPT !.pc = "notify"] ELSE work[v]
      BY DEF Orphaned
    <3> QED BY <2>1, <2>2, <2>4, <3>1, <3>2
  <2> QED BY <2>3, <2>4
<1>7. ASSUME NEW v \in DOMAIN work
      PROVE  /\ work'[v].node = work[v].node /\ work'[v].obj = work[v].obj
             /\ work'[v].todo = work[v].todo /\ work'[v].next = work[v].next
             /\ \/ work'[v].pc = work[v].pc /\ (work[v].pc \in {"close", "open"} => work[v].node # n)
                \/ work'[v].pc = "notify" /\ work[v].pc \in {"close", "open", "drop"}
                   /\ work[v].node = n
  BY <1>6 DEF Job
<1>8. IsMap(work', Writers, Job)
  <2>1. work' = [v \in DOMAIN work |-> work'[v]]
    BY DEF RemoveNodeFromSub, Orphaned
  <2> QED BY <1>1, <1>5, <1>6, <2>1 DEF IsMap, TypeOK
<1>9. TypeOK'
  BY <1>1, <1>3, <1>4, <1>8 DEF TypeOK
<1>10. w \in DOMAIN work' /\ work'[w].pc = "notify" /\ work'[w].node = n
  <2>1. work'[w] = [work[w] EXCEPT !.pc = "notify"] /\ work[w] \in Job
    BY <1>1, <1>6
  <2> QED BY <1>1, <1>2, <1>5, <2>1 DEF Job
<1>11. ASSUME NEW v \in DOMAIN work' PROVE JobInv(v)'
  <2>0. v \in DOMAIN work /\ JobInv(v)
    BY <1>5 DEF ViewsInv
  <2>1. JobShape(v)'
    BY <1>2, <1>3, <1>4, <1>7, <2>0 DEF JobInv, JobShape
  <2>2. ScanClear(v)'
    BY <1>4, <1>7, <2>0 DEF JobInv, ScanClear
  <2>3. BuildExact(v)'
    <3>1. work[v].next # "publish"
      <4> SUFFICES ASSUME work[v].next = "publish" PROVE FALSE
        OBVIOUS
      <4>1. work[v].obj \in used /\ registered \in used /\ work[v].obj # registered
            /\ work[v].pc # "drop"
        BY <2>0 DEF ViewsInv, JobInv, JobShape
      <4>2. v = w
        BY <1>1, <2>0, <4>1 DEF ViewsInv, Serial
      <4> QED BY <1>1, <4>1, <4>2
    <3> QED BY <1>7, <2>0, <3>1 DEF BuildExact
  <2>4. ScansAlone(v)'
    <3> SUFFICES ASSUME NEW u \in DOMAIN work' \ {v}
                 PROVE  ~(work'[u].pc = "scan" /\ work'[v].pc = "scan" /\ work'[u].obj = work'[v].obj)
      BY DEF ScansAlone
    <3>1. u \in DOMAIN work \ {v}
      BY <1>5
    <3> QED BY <1>7, <2>0, <3>1 DEF JobInv, ScansAlone
  <2> QED BY <2>1, <2>2, <2>3, <2>4 DEF JobInv
<1>12. ASSUME NEW m \in Nodes PROVE Agrees(m)' \/ Covered(m)'
  <2>1. CASE m = n
    BY <1>10, <2>1 DEF Covered, Covers
  <2>2. CASE m # n
    <3>1. Routable(registered, m)' <=> Routable(registered, m)
      BY <1>3, <1>4, <2>2, RoutableStays
    <3>2. Agrees(m) => Agrees(m)'
      BY <1>4, <3>1 DEF Agrees
    <3>3. ASSUME NEW v \in DOMAIN work, Covers(v, m) PROVE Covers(v, m)' /\ v \in DOMAIN work'
      BY <1>4, <1>5, <1>7, <2>2, <3>3 DEF Covers
    <3> QED BY <3>2, <3>3 DEF ViewsInv, Covered
  <2> QED BY <2>1, <2>2
<1>13. ASSUME Flaky = {}, NEW m \in Nodes
       PROVE  HasOutbound(m)' \/ \E v \in DOMAIN work' : Builds(v, m)'
  <2>1. CASE HasOutbound(m)
    BY <1>3, <2>1 DEF HasOutbound
  <2>2. CASE \E v \in DOMAIN work : Builds(v, m)
    <3>1. PICK v \in DOMAIN work : Builds(v, m)
      BY <2>2
    <3>2. Builds(v, m)' /\ v \in DOMAIN work'
      BY <1>5, <1>7, <3>1 DEF Builds
    <3> QED BY <3>2
  <2> QED BY <1>13, <2>1, <2>2 DEF ViewsInv
<1>14. (registered \in used)'
  BY <1>4 DEF ViewsInv
<1> QED BY <1>9, <1>11, <1>12, <1>13, <1>14 DEF ViewsInv

\* The invariant of the views, at all times.
LEMMA ViewsInvHolds == SerialSpec => []ViewsInv
<1>1. ViewsInv /\ [Next /\ Serial']_vars => ViewsInv'
  <2> SUFFICES ASSUME ViewsInv, [Next /\ Serial']_vars PROVE ViewsInv'
    OBVIOUS
  <2>1. ASSUME NEW w \in Writers, Begins(w), Serial' PROVE ViewsInv'
    BY <2>1, ProbeKeeps, RefreshKeeps, SwitchKeeps, RebuildStartsKeeps DEF Begins
  <2>2. ASSUME NEW w \in Writers, Continues(w), Serial' PROVE ViewsInv'
    <3>1. CASE ReportOnMissingNode(w)
      BY <2>2, <3>1, ProbeKeeps
    <3>2. CASE \/ RecordSuccess(w) \/ RecordFailure(w) \/ RecordLatency(w) \/ SwitchCircuit(w)
               \/ \E ip \in IPs : UpdateNodeEgressIP(w, ip)
      BY <2>2, <3>2, RecordKeeps
    <3>3. CASE AddNodeFromSub(w) \/ OnNodeAdded(w) \/ RemoveNodeFromSub(w)
      BY <2>2, <3>3, AddNodeKeeps, OnNodeAddedKeeps, RemoveNodeKeeps
    <3>4. CASE PlatformSnapshot(w) \/ NotifyDirty(w) \/ RebuildAllPlatforms(w) \/ RebuildClear(w)
      BY <2>2, <3>4, SnapshotKeeps, NotifyDirtyKeeps, RebuildAllKeeps, RebuildClearKeeps
    <3>5. CASE \E n \in Nodes : RebuildVisit(w, n) \/ OnSubReenabledNode(w, n)
      BY <2>2, <3>5, RebuildVisitKeeps, ReenabledKeeps
    <3>6. CASE RebuildEnd(w) \/ PublishPlatform(w) \/ ReenableEnd(w)
      BY <2>2, <3>6, RebuildEndKeeps, PublishKeeps
    <3> QED BY <2>2, <3>1, <3>2, <3>3, <3>4, <3>5, <3>6 DEF Continues
  <2>3. CASE UNCHANGED vars
    BY <2>3 DEF vars, ViewsInv, TypeOK, Serial, JobInv, JobShape, ScanClear, BuildExact,
       ScansAlone, HasOutbound, Builds, Agrees, Covered, Covers, Routable, evaluateNode,
       IsHealthy, HeldByEnabled
  <2> QED BY <2>1, <2>2, <2>3 DEF Next
<1> QED BY <1>1, ViewsInvInit, PTL DEF SerialSpec

\* A node that must not carry traffic is in the registered view only while the
\* notification or rebuild that removes it is on its way, however notifications,
\* rebuilds, refreshes and probe reports interleave (notifyAllPlatformsDirty,
\* NotifyDirty, FullRebuild).
THEOREM StaleCorrect == SerialSpec => []NoStaleMember
<1>1. ViewsInv => NoStaleMember
  <2> SUFFICES ASSUME ViewsInv, NEW n \in views[registered]
               PROVE  Routable(registered, n) \/ Covered(n)
    BY DEF NoStaleMember
  <2>1. n \in Nodes
    BY DEF ViewsInv, TypeOK
  <2> QED BY <2>1 DEF ViewsInv, Agrees
<1> QED BY <1>1, ViewsInvHolds, PTL

\* A node that satisfies every condition is in the view or about to be, provided
\* that no outbound builds only at a later attempt: that build, on re-enabling a
\* subscription, is the one change nobody announces (OnSubReenabledNode).
THEOREM MissingCorrect ==
    ASSUME Flaky = {}
    PROVE  SerialSpec => []NoMissingMember
<1>1. ViewsInv => NoMissingMember
  BY DEF ViewsInv, Agrees, NoMissingMember
<1> QED BY <1>1, ViewsInvHolds, PTL
=============================================================================
