------------------------- MODULE ControlPlaneProofs -------------------------
(***************************************************************************)
(* Proofs about the control plane, for any number of goroutines, rows,     *)
(* restarts and crashes: the GeoIP database, the platforms, the custom     *)
(* endpoints, the account rules with their matcher, the runtime            *)
(* configuration and the recovery of cache.db.                             *)
(* Each part has its own state, its own invariant and its own theorems.    *)
(***************************************************************************)
EXTENDS EndpointRuntime, PlatformAdmin, ControlSettings, CacheRecovery, GeoIP,
        ConcurrentMapProofs, SequenceTheorems, WellFoundedInduction

-----------------------------------------------------------------------------
(* GeoIP *)

\* The updater is between Lock and Unlock of updateMu.
UpdateHolds(u) == update[u].at \notin {"idle", "lock"}

\* Who holds updateMu: an update in progress, or Stop, or nobody.
UpdateMutex ==
    /\ \A u \in GeoUpdaters : UpdateHolds(u) => updateMu = u
    /\ geoLife = "locked" => updateMu = "stop"
    /\ geoLife \in {"new", "stopped"} => updateMu = "free"
    /\ geoLife = "new" => \A u \in GeoUpdaters : update[u].at = "idle"

\* Readers are numbered as they are opened; the open ones are the published
\* one, the one an update is about to publish, and the one it is about to
\* close, and these are three.
ReadersOwned ==
    /\ opened \in 0..MaxReaders
    /\ \A x \in openReaders : x \in 1..opened
    /\ \A x \in openReaders : \/ x = reader
                              \/ \E u \in GeoUpdaters : update[u].at = "swap" /\ update[u].fresh = x
                              \/ \E u \in GeoUpdaters : update[u].at = "close" /\ update[u].old = x
    /\ \A u \in GeoUpdaters :
         /\ update[u].at = "swap" => update[u].fresh \in openReaders /\ update[u].fresh # reader
         /\ update[u].at = "close" => update[u].old # reader
    /\ reader # NoReader => reader \in openReaders
    /\ geoLife \in {"new", "stopped"} => reader = NoReader

\* The write lock waits for the lookups, so that they use the published reader.
LookupsCurrent == \A l \in Lookups : using[l] # NoReader => using[l] = reader

GeoInv == GeoTypeOK /\ UpdateMutex /\ ReadersOwned /\ LookupsCurrent

\* A move of an update that neither opens, publishes nor closes a reader.
LEMMA UpdateMoves ==
    ASSUME GeoInv, NEW u \in GeoUpdaters, NEW upd \in Update,
           update' = [update EXCEPT ![u] = upd],
           update[u].at \notin {"swap", "close"}, upd.at \notin {"swap", "close"},
           UNCHANGED <<reader, openReaders, opened, using, geoLife>>,
           dbFile' \in {"none", "intact", "damaged"}, geoLife # "new",
           \/ UNCHANGED updateMu /\ (upd.at \in {"idle", "lock"} \/ updateMu = u)
           \/ updateMu' = u /\ updateMu = "free" /\ ~Cancelled
           \/ updateMu' = "free" /\ updateMu = u /\ upd.at = "idle"
    PROVE  GeoInv'
<1>1. \A v \in GeoUpdaters : v \notin {"free", "stop"}
  BY GeoAssumption
<1>2. update \in [GeoUpdaters -> Update] /\ update' \in [GeoUpdaters -> Update]
  BY DEF GeoInv, GeoTypeOK
<1>3. update'[u] = upd /\ \A v \in GeoUpdaters \ {u} : update'[v] = update[v]
  BY <1>2
<1>4. GeoTypeOK'
  BY <1>2 DEF GeoInv, GeoTypeOK
<1>5. UpdateMutex'
  BY <1>1, <1>3 DEF GeoInv, UpdateMutex, UpdateHolds, Cancelled
<1>6. ReadersOwned'
  BY <1>3 DEF GeoInv, ReadersOwned
<1>7. LookupsCurrent'
  BY DEF GeoInv, LookupsCurrent
<1> QED
  BY <1>4, <1>5, <1>6, <1>7 DEF GeoInv

\* UpdateNow goes on, or returns, with its readers as they are.
LEMMA UpdateGoesOn ==
    ASSUME GeoInv, NEW u \in GeoUpdaters, update[u].at \notin {"idle", "lock", "swap", "close"},
           UNCHANGED <<reader, openReaders, opened, using, geoLife>>,
           dbFile' \in {"none", "intact", "damaged"},
           \/ \E upd \in Update : upd.at \notin {"idle", "lock", "swap", "close"} /\ UpdateGoes(u, upd)
           \/ UpdateReturns(u)
    PROVE  GeoInv'
<1>1. updateMu = u /\ geoLife # "new"
  BY DEF GeoInv, UpdateMutex, UpdateHolds
<1>2. IdleUpdate \in Update /\ IdleUpdate.at = "idle"
  BY GeoAssumption DEF IdleUpdate, Update, UpdateSteps, NoReader
<1>3. ASSUME NEW upd \in Update, upd.at \notin {"idle", "lock", "swap", "close"}, UpdateGoes(u, upd)
      PROVE  GeoInv'
  BY <1>1, <1>3, UpdateMoves DEF UpdateGoes
<1>4. CASE UpdateReturns(u)
  <2> HIDE DEF IdleUpdate
  <2> QED
    BY <1>1, <1>2, <1>4, UpdateMoves DEF UpdateReturns
<1> QED
  BY <1>3, <1>4

\* The fields an update may write.
LEMMA UpdateWrites ==
    ASSUME NEW upd \in Update
    PROVE  /\ \A at \in UpdateSteps : [upd EXCEPT !.at = at] \in Update
           /\ \A at \in UpdateSteps, of \in {"release", "asset"} :
                [upd EXCEPT !.at = at, !.of = of] \in Update
           /\ \A at \in UpdateSteps, tries \in 0..2 : [upd EXCEPT !.at = at, !.tries = tries] \in Update
           /\ \A tries \in 0..2 : [upd EXCEPT !.tries = tries] \in Update
           /\ \A at \in UpdateSteps, data \in {"intact", "damaged"} :
                [upd EXCEPT !.at = at, !.data = data] \in Update
           /\ \A at \in UpdateSteps, x \in 0..MaxReaders :
                /\ [upd EXCEPT !.at = at, !.fresh = x] \in Update
                /\ [upd EXCEPT !.at = at, !.old = x] \in Update
BY DEF Update

\* The steps of an update from its lock to its rename.
LEMMA UpdateSteps1 ==
    ASSUME GeoInv, NEW u \in GeoUpdaters,
           \/ CallUpdate(u) \/ LockUpdate(u) \/ DirectDownload(u) \/ ProxiedDownload(u)
           \/ UseDownload(u) \/ WriteTemp(u) \/ VerifySHA256(u) \/ RenameTemp(u)
    PROVE  GeoInv'
<1>1. /\ update[u] \in Update
      /\ dbFile \in {"none", "intact", "damaged"}
      /\ update[u].at \in UpdateSteps
      /\ update[u].tries \in 0..2
  BY DEF GeoInv, GeoTypeOK, Update
<1>2. /\ [IdleUpdate EXCEPT !.at = "lock"] \in Update
      /\ [IdleUpdate EXCEPT !.at = "lock"].at = "lock"
      /\ IdleUpdate \in Update
      /\ IdleUpdate.at = "idle"
  BY GeoAssumption DEF IdleUpdate, Update, UpdateSteps, NoReader
<1>3. CASE CallUpdate(u)
  <2>1. /\ update' = [update EXCEPT ![u] = [IdleUpdate EXCEPT !.at = "lock"]]
        /\ update[u].at = "idle"
        /\ UNCHANGED <<reader, openReaders, opened, using, updateMu, dbFile, geoLife>>
        /\ geoLife # "new"
    BY <1>3 DEF CallUpdate
  <2>2. PICK upd \in Update : upd = [IdleUpdate EXCEPT !.at = "lock"] /\ upd.at = "lock"
    BY <1>2
  <2> QED
    BY <1>1, <2>1, <2>2, UpdateMoves
<1>4. CASE LockUpdate(u)
  <2>1. /\ update[u].at = "lock" /\ updateMu = "free"
        /\ UNCHANGED <<reader, openReaders, opened, using, dbFile, geoLife>>
    BY <1>4 DEF LockUpdate
  <2>2. geoLife # "new"
    BY <2>1 DEF GeoInv, UpdateMutex
  <2>3. CASE Cancelled
    <3>1. update' = [update EXCEPT ![u] = IdleUpdate] /\ UNCHANGED updateMu
      BY <1>4, <2>3 DEF LockUpdate
    <3> HIDE DEF IdleUpdate
    <3> QED
      BY <1>1, <1>2, <2>1, <2>2, <3>1, UpdateMoves
  <2>4. CASE ~Cancelled
    <3>1. update' = [update EXCEPT ![u] = [update[u] EXCEPT !.at = "direct"]] /\ updateMu' = u
      BY <1>4, <2>4 DEF LockUpdate
    <3>2. PICK upd \in Update : upd = [update[u] EXCEPT !.at = "direct"] /\ upd.at = "direct"
      <4>1. [update[u] EXCEPT !.at = "direct"] \in Update
        BY <1>1, UpdateWrites DEF UpdateSteps
      <4>2. [update[u] EXCEPT !.at = "direct"].at = "direct"
        BY <1>1 DEF Update
      <4> QED
        BY <4>1, <4>2
    <3> QED
      BY <1>1, <2>1, <2>2, <2>4, <3>1, <3>2, UpdateMoves
  <2> QED
    BY <2>3, <2>4
<1> DEFINE Going(upd) == upd \in Update /\ upd.at \notin {"idle", "lock", "swap", "close"}
           Ahead == {"direct", "proxied", "downloaded", "temp", "verify", "rename", "open"}
<1>5. /\ \A at \in Ahead :
           /\ Going([update[u] EXCEPT !.at = at])
           /\ \A of \in {"release", "asset"} : Going([update[u] EXCEPT !.at = at, !.of = of])
           /\ \A tries \in 0..2 : Going([update[u] EXCEPT !.at = at, !.tries = tries])
           /\ \A data \in {"intact", "damaged"} : Going([update[u] EXCEPT !.at = at, !.data = data])
      /\ \A tries \in 0..2 : update[u].at = "proxied" => Going([update[u] EXCEPT !.tries = tries])
  <2>1. Ahead \subseteq UpdateSteps \ {"idle", "lock", "swap", "close"}
    BY DEF UpdateSteps
  <2>2. \A at \in Ahead :
          /\ [update[u] EXCEPT !.at = at] \in Update
          /\ \A of \in {"release", "asset"} : [update[u] EXCEPT !.at = at, !.of = of] \in Update
          /\ \A tries \in 0..2 : [update[u] EXCEPT !.at = at, !.tries = tries] \in Update
          /\ \A data \in {"intact", "damaged"} : [update[u] EXCEPT !.at = at, !.data = data] \in Update
    <3> HIDE DEF Ahead
    <3> QED
      BY <1>1, <2>1, UpdateWrites
  <2>3. \A at \in Ahead :
          /\ [update[u] EXCEPT !.at = at].at = at
          /\ \A of \in {"release", "asset"} : [update[u] EXCEPT !.at = at, !.of = of].at = at
          /\ \A tries \in 0..2 : [update[u] EXCEPT !.at = at, !.tries = tries].at = at
          /\ \A data \in {"intact", "damaged"} : [update[u] EXCEPT !.at = at, !.data = data].at = at
    BY <1>1 DEF Update
  <2>4. \A tries \in 0..2 : /\ [update[u] EXCEPT !.tries = tries] \in Update
                            /\ [update[u] EXCEPT !.tries = tries].at = update[u].at
    BY <1>1 DEF Update
  <2> QED
    BY <2>1, <2>2, <2>3, <2>4
<1> HIDE DEF Going
<1>6. ASSUME UNCHANGED <<reader, openReaders, opened, using, geoLife>>,
             dbFile' \in {"none", "intact", "damaged"},
             update[u].at \notin {"idle", "lock", "swap", "close"},
             (\E upd : Going(upd) /\ UpdateGoes(u, upd)) \/ UpdateReturns(u)
      PROVE  GeoInv'
  BY <1>6, UpdateGoesOn DEF Going
<1>7. CASE DirectDownload(u)
  BY <1>1, <1>5, <1>6, <1>7 DEF DirectDownload
<1>8. CASE ProxiedDownload(u)
  <2>1. update[u].tries # 2 => update[u].tries + 1 \in 0..2
    BY <1>1
  <2> QED
    BY <1>1, <1>5, <1>6, <1>8, <2>1 DEF ProxiedDownload
<1>9. CASE UseDownload(u)
  BY <1>1, <1>5, <1>6, <1>9 DEF UseDownload
<1>10. CASE WriteTemp(u) \/ VerifySHA256(u)
  BY <1>1, <1>5, <1>6, <1>10 DEF WriteTemp, VerifySHA256
<1>11. CASE RenameTemp(u)
  <2>1. update[u].data \in {"none", "intact", "damaged"}
    BY <1>1 DEF Update
  <2> QED
    BY <1>1, <1>5, <1>6, <1>11, <2>1 DEF RenameTemp
<1> QED
  BY <1>3, <1>4, <1>7, <1>8, <1>9, <1>10, <1>11

\* The update of u becomes upd, and only u has updateMu.
LEMMA UpdateWritten ==
    ASSUME GeoInv, NEW u \in GeoUpdaters, UpdateHolds(u), NEW upd \in Update,
           update' = [update EXCEPT ![u] = upd]
    PROVE  /\ update' \in [GeoUpdaters -> Update]
           /\ update'[u] = upd
           /\ updateMu = u
           /\ geoLife \notin {"new", "locked", "stopped"}
           /\ \A v \in GeoUpdaters \ {u} : update'[v] = update[v] /\ ~UpdateHolds(v)
<1>1. \A v \in GeoUpdaters : v \notin {"free", "stop"}
  BY GeoAssumption
<1>2. update \in [GeoUpdaters -> Update]
  BY DEF GeoInv, GeoTypeOK
<1> QED
  BY <1>1, <1>2 DEF GeoInv, UpdateMutex

\* reloadReader opens a reader of its own.
LEMMA OpenKeeps ==
    ASSUME GeoInv, NEW u \in GeoUpdaters, ReloadOpen(u)
    PROVE  GeoInv'
<1>1. update[u].at = "open" /\ UNCHANGED <<reader, using, dbFile, geoLife>>
  BY DEF ReloadOpen
<1>2. CASE UpdateReturns(u) /\ UNCHANGED <<openReaders, opened>>
  BY <1>1, <1>2, UpdateGoesOn DEF GeoInv, GeoTypeOK
<1>3. CASE /\ CanOpen /\ OpenReader
           /\ UpdateGoes(u, [update[u] EXCEPT !.at = "swap", !.fresh = opened + 1])
  <2>1. opened + 1 \in 1..MaxReaders /\ opened \in Nat
    BY <1>3, GeoAssumption DEF CanOpen, GeoInv, ReadersOwned
  <2>2. PICK x : x = opened + 1
    OBVIOUS
  <2>3. update[u] \in Update /\ x \in 0..MaxReaders
    BY <2>1, <2>2, GeoAssumption DEF GeoInv, GeoTypeOK
  <2>4. PICK upd : upd = [update[u] EXCEPT !.at = "swap", !.fresh = x]
    OBVIOUS
  <2>5. upd \in Update
    BY <2>3, <2>4, UpdateWrites DEF UpdateSteps
  <2>6. upd.at = "swap" /\ upd.fresh = x
    BY <2>3, <2>4 DEF Update
  <2>7. update' = [update EXCEPT ![u] = upd] /\ UNCHANGED updateMu
    BY <1>3, <2>2, <2>4 DEF UpdateGoes
  <2>8. UpdateHolds(u)
    BY <1>1 DEF UpdateHolds
  <2>9. /\ update' \in [GeoUpdaters -> Update]
        /\ update'[u] = upd
        /\ updateMu = u
        /\ geoLife \notin {"new", "locked", "stopped"}
        /\ \A v \in GeoUpdaters \ {u} : update'[v] = update[v] /\ ~UpdateHolds(v)
    BY <2>5, <2>7, <2>8, UpdateWritten
  <2>10. openReaders' = openReaders \cup {x} /\ opened' = x
    BY <1>3, <2>2 DEF OpenReader
  <2>11. x # reader /\ x \notin openReaders
    BY <2>1, <2>2 DEF GeoInv, ReadersOwned, NoReader
  <2>12. GeoTypeOK'
    BY <1>1, <2>1, <2>2, <2>7, <2>9, <2>10 DEF GeoInv, GeoTypeOK, ReaderIds
  <2>13. UpdateMutex'
    BY <1>1, <2>7, <2>9 DEF GeoInv, UpdateMutex, UpdateHolds
  <2>14. ReadersOwned'
    <3>1. opened' \in 0..MaxReaders
      BY <2>3, <2>10
    <3>2. \A y \in openReaders' : y \in 1..opened'
      BY <2>1, <2>2, <2>10 DEF GeoInv, ReadersOwned
    <3>3. \A y \in openReaders' : y = x \/ y = reader
      BY <1>1, <2>9, <2>10 DEF GeoInv, ReadersOwned, UpdateHolds
    <3> QED
      BY <1>1, <2>6, <2>9, <2>10, <2>11, <3>1, <3>2, <3>3 DEF GeoInv, ReadersOwned, UpdateHolds
  <2>15. LookupsCurrent'
    BY <1>1 DEF GeoInv, LookupsCurrent
  <2> QED
    BY <2>12, <2>13, <2>14, <2>15 DEF GeoInv
<1> QED
  BY <1>2, <1>3 DEF ReloadOpen

\* It publishes it when no lookup is inside.
LEMMA SwapKeeps ==
    ASSUME GeoInv, NEW u \in GeoUpdaters, ReloadSwap(u)
    PROVE  GeoInv'
<1>1. /\ update[u].at = "swap"
      /\ \A l \in Lookups : using[l] = NoReader
      /\ reader' = update[u].fresh
      /\ UNCHANGED <<openReaders, opened, using, dbFile, geoLife, updateMu>>
  BY DEF ReloadSwap, NoLookupInside, UpdateGoes
<1>2. PICK upd : upd = [update[u] EXCEPT !.at = "close", !.old = reader]
  OBVIOUS
<1>3. update[u] \in Update /\ reader \in 0..MaxReaders
  BY DEF GeoInv, GeoTypeOK
<1>4. upd \in Update
  BY <1>2, <1>3, UpdateWrites DEF UpdateSteps
<1>5. upd.at = "close" /\ upd.old = reader
  BY <1>2, <1>3 DEF Update
<1>6. update' = [update EXCEPT ![u] = upd]
  BY <1>2 DEF ReloadSwap, UpdateGoes
<1>7. UpdateHolds(u)
  BY <1>1 DEF UpdateHolds
<1>8. /\ update' \in [GeoUpdaters -> Update]
      /\ update'[u] = upd
      /\ updateMu = u
      /\ geoLife \notin {"new", "locked", "stopped"}
      /\ \A v \in GeoUpdaters \ {u} : update'[v] = update[v] /\ ~UpdateHolds(v)
  BY <1>4, <1>6, <1>7, UpdateWritten
<1>9. reader' \in openReaders /\ reader' # reader
  BY <1>1 DEF GeoInv, ReadersOwned
<1>10. \A y \in openReaders : y = reader \/ y = reader'
  BY <1>1, <1>8 DEF GeoInv, ReadersOwned, UpdateHolds
<1>11. GeoTypeOK'
  BY <1>1, <1>8, <1>9 DEF GeoInv, GeoTypeOK, ReaderIds
<1>12. UpdateMutex'
  BY <1>1, <1>8 DEF GeoInv, UpdateMutex, UpdateHolds
<1>13. ReadersOwned'
  BY <1>1, <1>5, <1>8, <1>9, <1>10 DEF GeoInv, ReadersOwned, UpdateHolds
<1>14. LookupsCurrent'
  BY <1>1 DEF GeoInv, LookupsCurrent
<1> QED
  BY <1>11, <1>12, <1>13, <1>14 DEF GeoInv

\* And it closes the one that was published before.
LEMMA CloseKeeps ==
    ASSUME GeoInv, NEW u \in GeoUpdaters, ReloadClose(u)
    PROVE  GeoInv'
<1>1. /\ update[u].at = "close"
      /\ openReaders' = openReaders \ {update[u].old}
      /\ update' = [update EXCEPT ![u] = IdleUpdate]
      /\ updateMu' = "free"
      /\ UNCHANGED <<reader, opened, using, dbFile, geoLife>>
  BY DEF ReloadClose, UpdateReturns
<1>2. IdleUpdate \in Update /\ IdleUpdate.at = "idle"
  BY GeoAssumption DEF IdleUpdate, Update, UpdateSteps, NoReader
<1> HIDE DEF IdleUpdate
<1>3. UpdateHolds(u)
  BY <1>1 DEF UpdateHolds
<1>4. /\ update' \in [GeoUpdaters -> Update]
      /\ update'[u] = IdleUpdate
      /\ updateMu = u
      /\ geoLife \notin {"new", "locked", "stopped"}
      /\ \A v \in GeoUpdaters \ {u} : update'[v] = update[v] /\ ~UpdateHolds(v)
  BY <1>1, <1>2, <1>3, UpdateWritten
<1>5. update[u].old # reader
  BY <1>1 DEF GeoInv, ReadersOwned
<1>6. \A y \in openReaders' : y = reader
  BY <1>1, <1>4 DEF GeoInv, ReadersOwned, UpdateHolds
<1>7. GeoTypeOK'
  BY <1>1, <1>4 DEF GeoInv, GeoTypeOK
<1>8. UpdateMutex'
  BY <1>1, <1>2, <1>4 DEF GeoInv, UpdateMutex, UpdateHolds
<1>9. ReadersOwned'
  BY <1>1, <1>2, <1>4, <1>5, <1>6 DEF GeoInv, ReadersOwned, UpdateHolds
<1>10. LookupsCurrent'
  BY <1>1 DEF GeoInv, LookupsCurrent
<1> QED
  BY <1>7, <1>8, <1>9, <1>10 DEF GeoInv

\* Lookups, Start, Stop and crashes.
LEMMA ServiceKeeps ==
    ASSUME GeoInv,
           \/ GeoStart \/ StopCancel \/ StopCron \/ StopLock \/ StopSwap \/ GeoCrash
           \/ \E l \in Lookups : BeginLookup(l) \/ EndLookup(l)
    PROVE  GeoInv'
<1>1. CASE GeoStart
  <2>1. /\ geoLife = "new" /\ geoLife' = "running"
        /\ UNCHANGED <<using, updateMu, dbFile>>
    BY <1>1 DEF GeoStart
  <2>2. reader = NoReader /\ openReaders = {} /\ updateMu = "free"
    <3>1. reader = NoReader /\ updateMu = "free" /\ \A u \in GeoUpdaters : update[u].at = "idle"
      BY <2>1 DEF GeoInv, UpdateMutex, ReadersOwned
    <3> QED
      BY <3>1 DEF GeoInv, ReadersOwned, NoReader
  <2>3. /\ update' \in [GeoUpdaters -> Update]
        /\ \A u \in GeoUpdaters : update'[u].at \in {"idle", "lock"}
    <3>1. /\ [IdleUpdate EXCEPT !.at = "lock"] \in Update
          /\ [IdleUpdate EXCEPT !.at = "lock"].at = "lock"
      BY GeoAssumption DEF IdleUpdate, Update, UpdateSteps, NoReader
    <3>2. PICK upd \in Update : upd = [IdleUpdate EXCEPT !.at = "lock"] /\ upd.at = "lock"
      BY <3>1
    <3>3. update \in [GeoUpdaters -> Update] /\ \A u \in GeoUpdaters : update[u].at = "idle"
      BY <2>1 DEF GeoInv, GeoTypeOK, UpdateMutex
    <3>4. \E stale \in {dbFile = "none", TRUE} :
            update' = [u \in GeoUpdaters |-> IF u = "startup" /\ stale THEN upd ELSE update[u]]
      BY <1>1, <3>2 DEF GeoStart
    <3> QED
      BY <3>2, <3>3, <3>4
  <2>4. \/ CanOpen /\ OpenReader /\ reader' = opened + 1
        \/ UNCHANGED <<reader, openReaders, opened>>
    BY <1>1 DEF GeoStart
  <2>5. opened \in 0..MaxReaders /\ MaxReaders \in Nat
    BY GeoAssumption DEF GeoInv, ReadersOwned
  <2>6. GeoTypeOK'
    BY <2>1, <2>2, <2>3, <2>4, <2>5 DEF GeoInv, GeoTypeOK, CanOpen, OpenReader, ReaderIds
  <2>7. UpdateMutex'
    BY <2>1, <2>3 DEF UpdateMutex, UpdateHolds
  <2>8. ReadersOwned'
    BY <2>1, <2>2, <2>3, <2>4, <2>5 DEF GeoInv, ReadersOwned, CanOpen, OpenReader, NoReader
  <2>9. LookupsCurrent'
    BY <2>1, <2>2 DEF GeoInv, LookupsCurrent
  <2> QED
    BY <2>6, <2>7, <2>8, <2>9 DEF GeoInv
<1>2. CASE StopCancel \/ StopCron \/ StopLock
  <2>1. /\ UNCHANGED <<reader, openReaders, opened, using, update, dbFile>>
        /\ \/ geoLife' \in {"cancelled", "waited"} /\ UNCHANGED updateMu
           \/ geoLife' = "locked" /\ updateMu = "free" /\ updateMu' = "stop"
    BY <1>2 DEF StopCancel, StopCron, StopLock
  <2>2. \A v \in GeoUpdaters : v \notin {"free", "stop"}
    BY GeoAssumption
  <2>3. GeoTypeOK' /\ LookupsCurrent'
    BY <2>1 DEF GeoInv, GeoTypeOK, LookupsCurrent
  <2>4. UpdateMutex' /\ ReadersOwned'
    BY <2>1, <2>2 DEF GeoInv, UpdateMutex, UpdateHolds, ReadersOwned
  <2> QED
    BY <2>3, <2>4 DEF GeoInv
<1>3. CASE StopSwap
  <2>1. /\ geoLife = "locked" /\ geoLife' = "stopped"
        /\ \A l \in Lookups : using[l] = NoReader
        /\ reader' = NoReader /\ openReaders' = openReaders \ {reader} /\ updateMu' = "free"
        /\ UNCHANGED <<opened, using, update, dbFile>>
    BY <1>3 DEF StopSwap, NoLookupInside
  <2>2. \A v \in GeoUpdaters : v \notin {"free", "stop"}
    BY GeoAssumption
  <2>3. \A v \in GeoUpdaters : ~UpdateHolds(v)
    BY <2>1, <2>2 DEF GeoInv, UpdateMutex
  <2>4. openReaders' = {}
    BY <2>1, <2>3 DEF GeoInv, ReadersOwned, UpdateHolds
  <2>5. GeoTypeOK'
    BY <2>1, <2>4, GeoAssumption DEF GeoInv, GeoTypeOK, NoReader
  <2>6. UpdateMutex' /\ ReadersOwned' /\ LookupsCurrent'
    BY <2>1, <2>3, <2>4 DEF GeoInv, UpdateMutex, UpdateHolds, ReadersOwned, LookupsCurrent
  <2> QED
    BY <2>5, <2>6 DEF GeoInv
<1>4. CASE GeoCrash
  <2>1. /\ reader' = NoReader /\ openReaders' = {}
        /\ using' = [l \in Lookups |-> NoReader]
        /\ update' = [u \in GeoUpdaters |-> IdleUpdate]
        /\ updateMu' = "free" /\ geoLife' = "new"
        /\ UNCHANGED <<opened, dbFile>>
    BY <1>4 DEF GeoCrash
  <2>2. IdleUpdate \in Update /\ IdleUpdate.at = "idle"
    BY GeoAssumption DEF IdleUpdate, Update, UpdateSteps, NoReader
  <2> HIDE DEF IdleUpdate
  <2>3. GeoTypeOK'
    BY <2>1, <2>2, GeoAssumption DEF GeoInv, GeoTypeOK, NoReader
  <2>4. UpdateMutex' /\ ReadersOwned' /\ LookupsCurrent'
    BY <2>1, <2>2 DEF GeoInv, UpdateMutex, UpdateHolds, ReadersOwned, LookupsCurrent
  <2> QED
    BY <2>3, <2>4 DEF GeoInv
<1>5. ASSUME NEW l \in Lookups, BeginLookup(l) \/ EndLookup(l)
      PROVE  GeoInv'
  <2>1. /\ using' \in {[using EXCEPT ![l] = reader], [using EXCEPT ![l] = NoReader]}
        /\ UNCHANGED <<reader, openReaders, opened, update, updateMu, dbFile, geoLife>>
    BY <1>5 DEF BeginLookup, EndLookup
  <2>2. GeoTypeOK' /\ LookupsCurrent'
    BY <2>1, GeoAssumption DEF GeoInv, GeoTypeOK, LookupsCurrent, NoReader
  <2>3. UpdateMutex' /\ ReadersOwned'
    BY <2>1 DEF GeoInv, UpdateMutex, UpdateHolds, ReadersOwned
  <2> QED
    BY <2>2, <2>3 DEF GeoInv
<1> QED
  BY <1>1, <1>2, <1>3, <1>4, <1>5

\* No lookup runs on a closed reader, the published reader is open, and none
\* is left open after Stop: whatever updates, lookups, stops and crashes
\* interleave, for any number of them.
THEOREM ReadersCorrect == GeoSpec => []ReadersSound
<1>1. GeoInit => GeoInv
  <2>1. SUFFICES ASSUME GeoInit PROVE GeoInv
    OBVIOUS
  <2>2. IdleUpdate \in Update /\ IdleUpdate.at = "idle"
    BY GeoAssumption DEF IdleUpdate, Update, UpdateSteps, NoReader
  <2> HIDE DEF IdleUpdate
  <2> QED
    BY <2>1, <2>2, GeoAssumption
       DEF GeoInit, GeoInv, GeoTypeOK, UpdateMutex, UpdateHolds, ReadersOwned, LookupsCurrent, NoReader
<1>2. GeoInv /\ [GeoNext]_geoVars => GeoInv'
  <2>1. SUFFICES ASSUME GeoInv, [GeoNext]_geoVars PROVE GeoInv'
    OBVIOUS
  <2>2. CASE UNCHANGED geoVars
    BY <2>1, <2>2 DEF geoVars, GeoInv, GeoTypeOK, UpdateMutex, UpdateHolds, ReadersOwned, LookupsCurrent
  <2> QED
    BY <2>1, <2>2, UpdateSteps1, OpenKeeps, SwapKeeps, CloseKeeps, ServiceKeeps DEF GeoNext
<1>3. GeoInv => ReadersSound
  <2>1. SUFFICES ASSUME GeoInv PROVE ReadersSound
    OBVIOUS
  <2>2. \A v \in GeoUpdaters : v \notin {"free", "stop"}
    BY GeoAssumption
  <2>3. geoLife = "stopped" => reader = NoReader /\ openReaders = {}
    BY <2>1, <2>2 DEF GeoInv, UpdateMutex, UpdateHolds, ReadersOwned, NoReader
  <2> QED
    BY <2>1, <2>3 DEF GeoInv, ReadersOwned, LookupsCurrent, ReadersSound
<1> QED
  BY <1>1, <1>2, <1>3, PTL DEF GeoSpec

-----------------------------------------------------------------------------
(* Platforms *)

\* The handlers' states, as far as AdminTypeOK leaves them open.
HandlersShaped ==
    /\ DOMAIN handlers = AdminHandlers
    /\ \A h \in AdminHandlers :
         /\ handlers[h].op = "idle" => handlers[h] = Idle
         /\ handlers[h].op = "patch" =>
              handlers[h] = [op |-> "patch", id |-> handlers[h].id, row |-> handlers[h].row]

\* Ids in use were given out, rows have names of their own, and the default
\* platform's row is never missing.
RowsSound ==
    /\ DefaultPlatformID \in DOMAIN platformRows
    /\ DOMAIN platformRows \subseteq usedIds /\ DOMAIN platformByID \subseteq usedIds
    /\ \A h \in AdminHandlers : handlers[h].op # "idle" => handlers[h].id \in usedIds
    /\ \A i, j \in DOMAIN platformRows : platformRows[i].name = platformRows[j].name => i = j

\* Rows and pool agree on every id but those of S.
AgreeExcept(S) ==
    /\ DOMAIN platformByID \ S = DOMAIN platformRows \ S
    /\ \A i \in DOMAIN platformRows \ S : platformByID[i] = [id |-> i, row |-> platformRows[i]]

\* How far the pool is behind the rows while handler h is the only one.
Behind(h) ==
    /\ handlers[h].op = "patch" => /\ AgreeExcept({})
                                   /\ handlers[h].id \in DOMAIN platformRows
    /\ handlers[h].op \in {"register", "replace", "unregister"} => AgreeExcept({handlers[h].id})
    /\ handlers[h].op \in {"register", "replace"} => /\ handlers[h].id \in DOMAIN platformRows
                                                     /\ platformRows[handlers[h].id] = handlers[h].row
    /\ handlers[h].op = "register" => handlers[h].id \notin DOMAIN platformByID
    /\ handlers[h].op = "replace" => handlers[h].id \in DOMAIN platformByID
    /\ handlers[h].op = "unregister" => handlers[h].id \notin DOMAIN platformRows

\* Until two operations overlap, at most one is under way, and rows and pool
\* agree but for what it has still to do.
SerialInv ==
    ~overlap => /\ \A g, h \in AdminHandlers : handlers[g] # Idle /\ handlers[h] # Idle => g = h
                /\ \A h \in AdminHandlers : Behind(h)
                /\ ~Busy => AgreeExcept({})

AdminInv == AdminTypeOK /\ HandlersShaped /\ RowsSound /\ NameIndexSound /\ SerialInv

\* One handler's state is written.
LEMMA HandlerWritten ==
    ASSUME HandlersShaped, NEW h \in AdminHandlers, NEW step, HandlerDoes(h, step)
    PROVE  /\ DOMAIN handlers' = AdminHandlers
           /\ handlers'[h] = step
           /\ \A g \in AdminHandlers \ {h} : handlers'[g] = handlers[g]
BY DEF HandlersShaped, HandlerDoes

\* Taking a platform's name out of the index leaves no name that leads to it.
LEMMA UnindexFacts ==
    ASSUME AdminTypeOK, NameIndexSound, NEW id \in DOMAIN platformByID,
           NEW m, m = Unindex(platformByID[id])
    PROVE  /\ IsMap(m, PlatformNames, Platform)
           /\ DOMAIN m \subseteq DOMAIN platformByName
           /\ \A n \in DOMAIN m : m[n] = platformByName[n] /\ m[n].id # id
<1>1. PICK plat : plat = platformByID[id]
  OBVIOUS
<1>2. IsMap(platformByName, PlatformNames, Platform)
  BY DEF AdminTypeOK
<1>3. CASE plat.row.name \in DOMAIN platformByName /\ platformByName[plat.row.name] = plat
  <2>1. m = MapDelete(platformByName, plat.row.name)
    BY <1>1, <1>3 DEF Unindex
  <2>2. /\ IsMap(m, PlatformNames, Platform)
        /\ DOMAIN m = DOMAIN platformByName \ {plat.row.name}
        /\ \A n \in DOMAIN m : m[n] = platformByName[n]
    BY <1>2, <2>1 DEF IsMap, MapDelete
  <2> QED
    BY <1>1, <2>2 DEF NameIndexSound
<1>4. CASE ~(plat.row.name \in DOMAIN platformByName /\ platformByName[plat.row.name] = plat)
  <2>1. m = platformByName
    BY <1>1, <1>4 DEF Unindex
  <2> QED
    BY <1>1, <1>2, <1>4, <2>1 DEF NameIndexSound
<1> QED
  BY <1>3, <1>4

\* The three operations of the pool keep the index sound; each says what it
\* does to the objects.
LEMMA RegisterSound ==
    ASSUME AdminTypeOK, NameIndexSound, NEW plat \in Platform, RegisterPlatform(plat)
    PROVE  /\ IsMap(platformByID', PlatformIds, Platform)
           /\ IsMap(platformByName', PlatformNames, Platform)
           /\ NameIndexSound'
           /\ DOMAIN platformByID' = DOMAIN platformByID \cup {plat.id}
           /\ plat.id \notin DOMAIN platformByID => platformByID'[plat.id] = plat
           /\ \A i \in DOMAIN platformByID : platformByID'[i] = platformByID[i]
<1>1. /\ IsMap(platformByID, PlatformIds, Platform)
      /\ IsMap(platformByName, PlatformNames, Platform)
  BY DEF AdminTypeOK
<1>2. plat.id \in PlatformIds /\ plat.row.name \in PlatformNames
  BY DEF Platform, Row
<1>3. CASE plat.id \in DOMAIN platformByID
  <2>1. UNCHANGED <<platformByID, platformByName>>
    BY <1>3 DEF RegisterPlatform, poolIndex
  <2> QED
    BY <1>1, <1>3, <2>1 DEF NameIndexSound
<1>4. CASE plat.id \notin DOMAIN platformByID
  <2>1. /\ platformByID' = MapPut(platformByID, plat.id, plat)
        /\ platformByName' = MapPut(platformByName, plat.row.name, plat)
    BY <1>4 DEF RegisterPlatform
  <2>2. /\ IsMap(platformByID', PlatformIds, Platform)
        /\ DOMAIN platformByID' = DOMAIN platformByID \cup {plat.id}
        /\ platformByID'[plat.id] = plat
        /\ \A i \in DOMAIN platformByID \ {plat.id} : platformByID'[i] = platformByID[i]
    BY <1>1, <1>2, <2>1 DEF IsMap, MapPut
  <2>3. /\ IsMap(platformByName', PlatformNames, Platform)
        /\ DOMAIN platformByName' = DOMAIN platformByName \cup {plat.row.name}
        /\ platformByName'[plat.row.name] = plat
        /\ \A n \in DOMAIN platformByName \ {plat.row.name} : platformByName'[n] = platformByName[n]
    BY <1>1, <1>2, <2>1 DEF IsMap, MapPut
  <2>4. ASSUME NEW n \in DOMAIN platformByName', NEW p, p = platformByName'[n]
        PROVE  p.row.name = n /\ p.id \in DOMAIN platformByID' /\ platformByID'[p.id] = p
    <3>1. CASE n = plat.row.name
      BY <2>2, <2>3, <2>4, <3>1
    <3>2. CASE n # plat.row.name
      BY <1>4, <2>2, <2>3, <2>4, <3>2 DEF NameIndexSound
    <3> QED
      BY <3>1, <3>2
  <2> QED
    BY <1>4, <2>2, <2>3, <2>4 DEF NameIndexSound
<1> QED
  BY <1>3, <1>4

\* UnregisterPlatform takes an object and its name out together.
LEMMA UnregisterSound ==
    ASSUME AdminTypeOK, NameIndexSound, NEW id, UnregisterPlatform(id)
    PROVE  /\ IsMap(platformByID', PlatformIds, Platform)
           /\ IsMap(platformByName', PlatformNames, Platform)
           /\ NameIndexSound'
           /\ DOMAIN platformByID' = DOMAIN platformByID \ {id}
           /\ \A i \in DOMAIN platformByID \ {id} : platformByID'[i] = platformByID[i]
<1>1. /\ IsMap(platformByID, PlatformIds, Platform)
      /\ IsMap(platformByName, PlatformNames, Platform)
  BY DEF AdminTypeOK
<1>2. CASE id \notin DOMAIN platformByID
  <2>1. UNCHANGED <<platformByID, platformByName>>
    BY <1>2 DEF UnregisterPlatform, poolIndex
  <2> QED
    BY <1>1, <1>2, <2>1 DEF NameIndexSound
<1>3. CASE id \in DOMAIN platformByID
  <2>1. /\ platformByName' = Unindex(platformByID[id])
        /\ platformByID' = MapDelete(platformByID, id)
    BY <1>3 DEF UnregisterPlatform
  <2>2. /\ IsMap(platformByName', PlatformNames, Platform)
        /\ DOMAIN platformByName' \subseteq DOMAIN platformByName
        /\ \A n \in DOMAIN platformByName' :
             platformByName'[n] = platformByName[n] /\ platformByName'[n].id # id
    BY <1>3, <2>1, UnindexFacts
  <2>3. /\ IsMap(platformByID', PlatformIds, Platform)
        /\ DOMAIN platformByID' = DOMAIN platformByID \ {id}
        /\ \A i \in DOMAIN platformByID \ {id} : platformByID'[i] = platformByID[i]
    BY <1>1, <2>1 DEF IsMap, MapDelete
  <2>4. ASSUME NEW n \in DOMAIN platformByName', NEW p, p = platformByName'[n]
        PROVE  p.row.name = n /\ p.id \in DOMAIN platformByID' /\ platformByID'[p.id] = p
    BY <2>2, <2>3, <2>4 DEF NameIndexSound
  <2> QED
    BY <2>2, <2>3, <2>4 DEF NameIndexSound
<1> QED
  BY <1>2, <1>3

\* ReplacePlatform drops the old name before it indexes the new one.
LEMMA ReplaceSound ==
    ASSUME AdminTypeOK, NameIndexSound, NEW next \in Platform, ReplacePlatform(next)
    PROVE  /\ IsMap(platformByID', PlatformIds, Platform)
           /\ IsMap(platformByName', PlatformNames, Platform)
           /\ NameIndexSound'
           /\ DOMAIN platformByID' = DOMAIN platformByID
           /\ \A i \in DOMAIN platformByID \ {next.id} : platformByID'[i] = platformByID[i]
           /\ ~ReplaceRefused(next) => platformByID'[next.id] = next
<1>1. /\ IsMap(platformByID, PlatformIds, Platform)
      /\ IsMap(platformByName, PlatformNames, Platform)
  BY DEF AdminTypeOK
<1>2. next.id \in PlatformIds /\ next.row.name \in PlatformNames
  BY DEF Platform, Row
<1>3. CASE ReplaceRefused(next)
  <2>1. UNCHANGED <<platformByID, platformByName>>
    BY <1>3 DEF ReplacePlatform, poolIndex
  <2> QED
    BY <1>1, <1>3, <2>1 DEF NameIndexSound
<1>4. CASE ~ReplaceRefused(next)
  <2>1. /\ next.id \in DOMAIN platformByID
        /\ platformByName' = MapPut(Unindex(platformByID[next.id]), next.row.name, next)
        /\ platformByID' = MapPut(platformByID, next.id, next)
    BY <1>4 DEF ReplacePlatform, ReplaceRefused
  <2>2. PICK m : m = Unindex(platformByID[next.id])
    OBVIOUS
  <2>3. /\ IsMap(m, PlatformNames, Platform)
        /\ DOMAIN m \subseteq DOMAIN platformByName
        /\ \A n \in DOMAIN m : m[n] = platformByName[n] /\ m[n].id # next.id
    BY <2>1, <2>2, UnindexFacts
  <2>4. /\ IsMap(platformByID', PlatformIds, Platform)
        /\ DOMAIN platformByID' = DOMAIN platformByID \cup {next.id}
        /\ platformByID'[next.id] = next
        /\ \A i \in DOMAIN platformByID \ {next.id} : platformByID'[i] = platformByID[i]
    BY <1>1, <1>2, <2>1 DEF IsMap, MapPut
  <2>5. /\ IsMap(platformByName', PlatformNames, Platform)
        /\ DOMAIN platformByName' = DOMAIN m \cup {next.row.name}
        /\ platformByName'[next.row.name] = next
        /\ \A n \in DOMAIN m \ {next.row.name} : platformByName'[n] = m[n]
    BY <1>2, <2>1, <2>2, <2>3 DEF IsMap, MapPut
  <2>6. ASSUME NEW n \in DOMAIN platformByName', NEW p, p = platformByName'[n]
        PROVE  p.row.name = n /\ p.id \in DOMAIN platformByID' /\ platformByID'[p.id] = p
    <3>1. CASE n = next.row.name
      BY <2>4, <2>5, <2>6, <3>1
    <3>2. CASE n # next.row.name
      BY <2>3, <2>4, <2>5, <2>6, <3>2 DEF NameIndexSound
    <3> QED
      BY <3>1, <3>2
  <2> QED
    BY <2>1, <2>4, <2>5, <2>6 DEF NameIndexSound
<1> QED
  BY <1>3, <1>4

\* An operation that begins without overlap begins on rows and pool that agree.
LEMMA BeginFacts ==
    ASSUME AdminInv, NEW h \in AdminHandlers, BeginsOp(h)
    PROVE  /\ handlers[h] = Idle /\ handlers[h].op = "idle"
           /\ overlap' \in BOOLEAN
           /\ adminOps' \in 0..MaxAdminOps /\ restarts' \in 0..MaxRestarts
           /\ ~overlap' => AgreeExcept({}) /\ \A g \in AdminHandlers : handlers[g] = Idle
<1>1. handlers[h] = Idle /\ overlap' = (overlap \/ Busy) /\ UNCHANGED restarts
  BY DEF BeginsOp
<1>2. handlers[h].op = "idle"
  BY <1>1 DEF Idle
<1>3. adminOps' \in 0..MaxAdminOps /\ restarts' \in 0..MaxRestarts
  BY AdminAssumption DEF BeginsOp, AdminInv, AdminTypeOK
<1>4. overlap' \in BOOLEAN
  <2>1. overlap \in BOOLEAN
    BY DEF AdminInv, AdminTypeOK
  <2>2. (overlap \/ Busy) \in BOOLEAN
    BY <2>1, Zenon
  <2> QED
    BY <1>1, <2>2
<1>5. ~overlap' => AgreeExcept({}) /\ \A g \in AdminHandlers : handlers[g] = Idle
  BY <1>1 DEF AdminInv, SerialInv, Busy
<1> QED
  BY <1>1, <1>2, <1>3, <1>4, <1>5

\* After the first step of an operation it is the only one, unless they overlap.
LEMMA BeginSerial ==
    ASSUME AdminInv, NEW h \in AdminHandlers, BeginsOp(h), NEW step, step.op # "idle",
           HandlerDoes(h, step), ~overlap' => Behind(h)'
    PROVE  SerialInv'
<1>1. /\ DOMAIN handlers' = AdminHandlers
      /\ handlers'[h] = step
      /\ \A g \in AdminHandlers \ {h} : handlers'[g] = handlers[g]
  BY HandlerWritten DEF AdminInv
<1>2. SUFFICES ASSUME ~overlap' PROVE SerialInv'
  BY DEF SerialInv
<1>3. \A g \in AdminHandlers \ {h} : handlers'[g] = Idle
  BY <1>1, <1>2, BeginFacts
<1>4. step # Idle
  BY DEF Idle
<1>5. Busy'
  BY <1>1, <1>4 DEF Busy
<1>6. \A g \in AdminHandlers \ {h} : Behind(g)'
  <2>1. \A g \in AdminHandlers \ {h} : handlers'[g].op = "idle"
    BY <1>3 DEF Idle
  <2> QED
    BY <2>1 DEF Behind
<1> QED
  BY <1>1, <1>2, <1>3, <1>4, <1>5, <1>6 DEF SerialInv

\* The handlers' part of the invariant after one has been written.
LEMMA HandlersKept ==
    ASSUME AdminInv, NEW h \in AdminHandlers, NEW step, HandlerDoes(h, step),
           \/ step = Idle
           \/ /\ step.op \in {"register", "patch", "replace", "unregister"}
              /\ step.id \in PlatformIds /\ step.id \in usedIds'
              /\ step.op \in {"register", "patch", "replace"} => step.row \in Row
              /\ step.op = "patch" => step = [op |-> "patch", id |-> step.id, row |-> step.row],
           usedIds \subseteq usedIds'
    PROVE  /\ HandlersShaped'
           /\ \A g \in AdminHandlers :
                /\ handlers'[g].op \in {"idle", "register", "patch", "replace", "unregister"}
                /\ handlers'[g].op # "idle" => handlers'[g].id \in PlatformIds
                /\ handlers'[g].op \in {"register", "patch", "replace"} => handlers'[g].row \in Row
                /\ handlers'[g].op # "idle" => handlers'[g].id \in usedIds'
<1>1. /\ DOMAIN handlers' = AdminHandlers
      /\ handlers'[h] = step
      /\ \A g \in AdminHandlers \ {h} : handlers'[g] = handlers[g]
  BY HandlerWritten DEF AdminInv
<1>2. step = Idle => step.op = "idle"
  BY DEF Idle
<1>3. \A g \in AdminHandlers \ {h} :
        /\ handlers[g].op \in {"idle", "register", "patch", "replace", "unregister"}
        /\ handlers[g].op # "idle" => handlers[g].id \in PlatformIds /\ handlers[g].id \in usedIds
        /\ handlers[g].op \in {"register", "patch", "replace"} => handlers[g].row \in Row
        /\ handlers[g].op = "idle" => handlers[g] = Idle
        /\ handlers[g].op = "patch" =>
             handlers[g] = [op |-> "patch", id |-> handlers[g].id, row |-> handlers[g].row]
  BY DEF AdminInv, AdminTypeOK, RowsSound, HandlersShaped
<1>4. HandlersShaped'
  BY <1>1, <1>2, <1>3 DEF HandlersShaped
<1> HIDE DEF Idle
<1> QED
  BY <1>1, <1>2, <1>3, <1>4

\* An upsert keeps the names of the rows apart.
LEMMA UpsertRows ==
    ASSUME AdminInv, NEW id \in PlatformIds, NEW row \in Row, Upsert(id, row), id \in usedIds',
           usedIds \subseteq usedIds'
    PROVE  /\ IsMap(platformRows', PlatformIds, Row)
           /\ DOMAIN platformRows' = DOMAIN platformRows \cup {id}
           /\ platformRows'[id] = row
           /\ \A i \in DOMAIN platformRows \ {id} : platformRows'[i] = platformRows[i]
           /\ DefaultPlatformID \in DOMAIN platformRows'
           /\ DOMAIN platformRows' \subseteq usedIds'
           /\ \A i, j \in DOMAIN platformRows' : platformRows'[i].name = platformRows'[j].name => i = j
<1>1. IsMap(platformRows, PlatformIds, Row)
  BY DEF AdminInv, AdminTypeOK
<1>2. /\ platformRows' = MapPut(platformRows, id, row)
      /\ \A i \in DOMAIN platformRows \ {id} : platformRows[i].name # row.name
  BY DEF Upsert
<1>3. /\ IsMap(platformRows', PlatformIds, Row)
      /\ DOMAIN platformRows' = DOMAIN platformRows \cup {id}
      /\ platformRows'[id] = row
      /\ \A i \in DOMAIN platformRows \ {id} : platformRows'[i] = platformRows[i]
  BY <1>1, <1>2 DEF IsMap, MapPut
<1> QED
  BY <1>2, <1>3 DEF AdminInv, RowsSound

\* CreatePlatform writes the row of a new id.
LEMMA CreateKeeps ==
    ASSUME AdminInv, NEW h \in AdminHandlers, NEW id \in PlatformIds, NEW row \in Row,
           CreatePlatform(h, id, row)
    PROVE  AdminInv'
<1>1. /\ BeginsOp(h)
      /\ id \notin usedIds /\ usedIds' = usedIds \cup {id}
      /\ Upsert(id, row)
      /\ HandlerDoes(h, [op |-> "register", id |-> id, row |-> row])
      /\ UNCHANGED <<platformByID, platformByName>>
  BY DEF CreatePlatform, poolIndex
<1>2. PICK step : step = [op |-> "register", id |-> id, row |-> row]
  OBVIOUS
<1>3. step.op = "register" /\ step.id = id /\ step.row = row /\ HandlerDoes(h, step)
  BY <1>1, <1>2
<1>4. /\ IsMap(platformRows', PlatformIds, Row)
      /\ DOMAIN platformRows' = DOMAIN platformRows \cup {id}
      /\ platformRows'[id] = row
      /\ \A i \in DOMAIN platformRows \ {id} : platformRows'[i] = platformRows[i]
      /\ DefaultPlatformID \in DOMAIN platformRows'
      /\ DOMAIN platformRows' \subseteq usedIds'
      /\ \A i, j \in DOMAIN platformRows' : platformRows'[i].name = platformRows'[j].name => i = j
  BY <1>1, UpsertRows
<1>5. id \notin DOMAIN platformByID /\ id \notin DOMAIN platformRows
  BY <1>1 DEF AdminInv, RowsSound
<1>6. /\ HandlersShaped'
      /\ \A g \in AdminHandlers :
           /\ handlers'[g].op \in {"idle", "register", "patch", "replace", "unregister"}
           /\ handlers'[g].op # "idle" => handlers'[g].id \in PlatformIds
           /\ handlers'[g].op \in {"register", "patch", "replace"} => handlers'[g].row \in Row
           /\ handlers'[g].op # "idle" => handlers'[g].id \in usedIds'
  BY <1>1, <1>3, HandlersKept
<1>7. handlers'[h] = step
  BY <1>3, HandlerWritten DEF AdminInv
<1>8. ~overlap' => Behind(h)'
  <2>1. SUFFICES ASSUME AgreeExcept({}) PROVE Behind(h)'
    BY <1>1, BeginFacts
  <2>2. AgreeExcept({id})'
    BY <1>1, <1>4, <1>5, <2>1 DEF AgreeExcept
  <2>3. AgreeExcept({handlers[h].id})'
    BY <1>3, <1>7, <2>2 DEF AgreeExcept
  <2> QED
    BY <1>1, <1>3, <1>4, <1>5, <1>7, <2>3 DEF Behind
<1>9. SerialInv'
  BY <1>1, <1>3, <1>8, BeginSerial
<1>10. AdminTypeOK'
  BY <1>1, <1>4, <1>6, BeginFacts DEF AdminInv, AdminTypeOK
<1>11. RowsSound' /\ NameIndexSound'
  BY <1>1, <1>4, <1>6 DEF AdminInv, RowsSound, NameIndexSound
<1> QED
  BY <1>6, <1>9, <1>10, <1>11 DEF AdminInv

\* A patch or a reset reads.
LEMMA ReadKeeps ==
    ASSUME AdminInv, NEW h \in AdminHandlers, NEW id \in DOMAIN platformRows, NEW row \in Row,
           BeginsOp(h), HandlerDoes(h, [op |-> "patch", id |-> id, row |-> row]),
           UNCHANGED <<platformRows, poolIndex, usedIds>>
    PROVE  AdminInv'
<1>1. UNCHANGED <<platformRows, platformByID, platformByName, usedIds>>
  BY DEF poolIndex
<1>2. PICK step : step = [op |-> "patch", id |-> id, row |-> row]
  OBVIOUS
<1>3. step.op = "patch" /\ step.id = id /\ step.row = row /\ HandlerDoes(h, step)
  BY <1>2
<1>4. id \in PlatformIds /\ id \in usedIds
  BY DEF AdminInv, AdminTypeOK, IsMap, RowsSound
<1>5. /\ HandlersShaped'
      /\ \A g \in AdminHandlers :
           /\ handlers'[g].op \in {"idle", "register", "patch", "replace", "unregister"}
           /\ handlers'[g].op # "idle" => handlers'[g].id \in PlatformIds
           /\ handlers'[g].op \in {"register", "patch", "replace"} => handlers'[g].row \in Row
           /\ handlers'[g].op # "idle" => handlers'[g].id \in usedIds'
  BY <1>1, <1>2, <1>3, <1>4, HandlersKept
<1>6. handlers'[h] = step
  BY <1>3, HandlerWritten DEF AdminInv
<1>7. ~overlap' => Behind(h)'
  <2>1. SUFFICES ASSUME AgreeExcept({}) PROVE Behind(h)'
    BY BeginFacts
  <2>2. AgreeExcept({})'
    BY <1>1, <2>1 DEF AgreeExcept
  <2> QED
    BY <1>1, <1>3, <1>6, <2>2 DEF Behind
<1>8. SerialInv'
  BY <1>3, <1>7, BeginSerial
<1>9. AdminTypeOK'
  BY <1>1, <1>5, BeginFacts DEF AdminInv, AdminTypeOK
<1>10. RowsSound' /\ NameIndexSound'
  BY <1>1, <1>5 DEF AdminInv, RowsSound, NameIndexSound
<1> QED
  BY <1>5, <1>8, <1>9, <1>10 DEF AdminInv

\* DeletePlatform deletes the row.
LEMMA DeleteKeeps ==
    ASSUME AdminInv, NEW h \in AdminHandlers, NEW id \in PlatformIds, DeletePlatform(h, id)
    PROVE  AdminInv'
<1>1. /\ BeginsOp(h)
      /\ id # DefaultPlatformID /\ id \in DOMAIN platformRows
      /\ platformRows' = MapDelete(platformRows, id)
      /\ HandlerDoes(h, [op |-> "unregister", id |-> id])
      /\ UNCHANGED <<platformByID, platformByName, usedIds>>
  BY DEF DeletePlatform, poolIndex
<1>2. PICK step : step = [op |-> "unregister", id |-> id]
  OBVIOUS
<1>3. step.op = "unregister" /\ step.id = id /\ HandlerDoes(h, step)
  BY <1>1, <1>2
<1>4. /\ IsMap(platformRows', PlatformIds, Row)
      /\ DOMAIN platformRows' = DOMAIN platformRows \ {id}
      /\ \A i \in DOMAIN platformRows \ {id} : platformRows'[i] = platformRows[i]
  BY <1>1 DEF AdminInv, AdminTypeOK, IsMap, MapDelete
<1>5. id \in usedIds
  BY <1>1 DEF AdminInv, RowsSound
<1>6. /\ HandlersShaped'
      /\ \A g \in AdminHandlers :
           /\ handlers'[g].op \in {"idle", "register", "patch", "replace", "unregister"}
           /\ handlers'[g].op # "idle" => handlers'[g].id \in PlatformIds
           /\ handlers'[g].op \in {"register", "patch", "replace"} => handlers'[g].row \in Row
           /\ handlers'[g].op # "idle" => handlers'[g].id \in usedIds'
  BY <1>1, <1>3, <1>5, HandlersKept
<1>7. handlers'[h] = step
  BY <1>3, HandlerWritten DEF AdminInv
<1>8. ~overlap' => Behind(h)'
  <2>1. SUFFICES ASSUME AgreeExcept({}) PROVE Behind(h)'
    BY <1>1, BeginFacts
  <2>2. AgreeExcept({id})'
    BY <1>1, <1>4, <2>1 DEF AgreeExcept
  <2>3. AgreeExcept({handlers[h].id})'
    BY <1>3, <1>7, <2>2 DEF AgreeExcept
  <2> QED
    BY <1>3, <1>4, <1>7, <2>3 DEF Behind
<1>9. SerialInv'
  BY <1>1, <1>3, <1>8, BeginSerial
<1>10. AdminTypeOK'
  BY <1>1, <1>4, <1>6, BeginFacts DEF AdminInv, AdminTypeOK
<1>11. RowsSound' /\ NameIndexSound'
  BY <1>1, <1>4, <1>6 DEF AdminInv, RowsSound, NameIndexSound
<1> QED
  BY <1>6, <1>9, <1>10, <1>11 DEF AdminInv

\* An operation ends with rows and pool that agree, unless operations overlap.
LEMMA FinishKeeps ==
    ASSUME AdminInv, NEW h \in AdminHandlers, handlers[h].op # "idle",
           HandlerDoes(h, Idle), HandlerContinues, UNCHANGED platformRows,
           IsMap(platformByID', PlatformIds, Platform),
           IsMap(platformByName', PlatformNames, Platform),
           NameIndexSound', DOMAIN platformByID' \subseteq usedIds,
           ~overlap => AgreeExcept({})'
    PROVE  AdminInv'
<1>1. UNCHANGED <<platformRows, adminOps, overlap, restarts, usedIds>>
  BY DEF HandlerContinues
<1>2. /\ DOMAIN handlers' = AdminHandlers
      /\ handlers'[h] = Idle
      /\ \A g \in AdminHandlers \ {h} : handlers'[g] = handlers[g]
  BY HandlerWritten DEF AdminInv
<1>3. /\ HandlersShaped'
      /\ \A g \in AdminHandlers :
           /\ handlers'[g].op \in {"idle", "register", "patch", "replace", "unregister"}
           /\ handlers'[g].op # "idle" => handlers'[g].id \in PlatformIds
           /\ handlers'[g].op \in {"register", "patch", "replace"} => handlers'[g].row \in Row
           /\ handlers'[g].op # "idle" => handlers'[g].id \in usedIds'
  <2>1. PICK step : step = Idle
    OBVIOUS
  <2>2. HandlerDoes(h, step)
    BY <2>1
  <2> QED
    BY <1>1, <2>1, <2>2, HandlersKept
<1>4. SerialInv'
  <2>1. SUFFICES ASSUME ~overlap PROVE SerialInv'
    BY <1>1 DEF SerialInv
  <2>2. handlers[h] # Idle
    BY DEF Idle
  <2>3. \A g \in AdminHandlers \ {h} : handlers[g] = Idle
    BY <2>1, <2>2 DEF AdminInv, SerialInv
  <2>4. \A g \in AdminHandlers : handlers'[g] = Idle
    BY <1>2, <2>3
  <2>5. \A g \in AdminHandlers : Behind(g)'
    <3>1. \A g \in AdminHandlers : handlers'[g].op = "idle"
      BY <2>4 DEF Idle
    <3> QED
      BY <3>1 DEF Behind
  <2> QED
    BY <2>1, <2>4, <2>5 DEF SerialInv
<1>5. AdminTypeOK'
  BY <1>1, <1>3 DEF AdminInv, AdminTypeOK
<1>6. RowsSound'
  BY <1>1, <1>3 DEF AdminInv, RowsSound
<1> QED
  BY <1>3, <1>4, <1>5, <1>6 DEF AdminInv

\* Create registers the object of the row it wrote.
LEMMA FinishCreateKeeps ==
    ASSUME AdminInv, NEW h \in AdminHandlers, FinishCreate(h)
    PROVE  AdminInv'
<1>1. PICK plat : plat = [id |-> handlers[h].id, row |-> handlers[h].row]
  OBVIOUS
<1>2. /\ handlers[h].op = "register" /\ RegisterPlatform(plat)
      /\ HandlerDoes(h, Idle) /\ HandlerContinues /\ UNCHANGED platformRows
  BY <1>1 DEF FinishCreate
<1>3. plat \in Platform /\ plat.id = handlers[h].id /\ plat.row = handlers[h].row
  BY <1>1, <1>2 DEF AdminInv, AdminTypeOK, Platform
<1>4. /\ IsMap(platformByID', PlatformIds, Platform)
      /\ IsMap(platformByName', PlatformNames, Platform)
      /\ NameIndexSound'
      /\ DOMAIN platformByID' = DOMAIN platformByID \cup {plat.id}
      /\ plat.id \notin DOMAIN platformByID => platformByID'[plat.id] = plat
      /\ \A i \in DOMAIN platformByID : platformByID'[i] = platformByID[i]
  BY <1>2, <1>3, RegisterSound DEF AdminInv
<1>5. DOMAIN platformByID' \subseteq usedIds
  BY <1>2, <1>3, <1>4 DEF AdminInv, RowsSound
<1>6. ASSUME ~overlap PROVE AgreeExcept({})'
  <2>1. /\ AgreeExcept({plat.id}) /\ plat.id \in DOMAIN platformRows
        /\ platformRows[plat.id] = plat.row
        /\ plat.id \notin DOMAIN platformByID
    BY <1>2, <1>3, <1>6 DEF AdminInv, SerialInv, Behind
  <2>2. platformByID'[plat.id] = [id |-> plat.id, row |-> platformRows[plat.id]]
    BY <1>1, <1>3, <1>4, <2>1
  <2> QED
    BY <1>2, <1>4, <2>1, <2>2 DEF AgreeExcept
<1> QED
  BY <1>2, <1>4, <1>5, <1>6, FinishKeeps

\* Delete unregisters what its row was for.
LEMMA FinishDeleteKeeps ==
    ASSUME AdminInv, NEW h \in AdminHandlers, FinishDelete(h)
    PROVE  AdminInv'
<1>1. PICK id : id = handlers[h].id
  OBVIOUS
<1>2. /\ handlers[h].op = "unregister" /\ UnregisterPlatform(id)
      /\ HandlerDoes(h, Idle) /\ HandlerContinues /\ UNCHANGED platformRows
  BY <1>1 DEF FinishDelete
<1>3. /\ IsMap(platformByID', PlatformIds, Platform)
      /\ IsMap(platformByName', PlatformNames, Platform)
      /\ NameIndexSound'
      /\ DOMAIN platformByID' = DOMAIN platformByID \ {id}
      /\ \A i \in DOMAIN platformByID \ {id} : platformByID'[i] = platformByID[i]
  BY <1>2, UnregisterSound DEF AdminInv
<1>4. DOMAIN platformByID' \subseteq usedIds
  BY <1>3 DEF AdminInv, RowsSound
<1>5. ASSUME ~overlap PROVE AgreeExcept({})'
  <2>1. AgreeExcept({id}) /\ id \notin DOMAIN platformRows
    BY <1>1, <1>2, <1>5 DEF AdminInv, SerialInv, Behind
  <2> QED
    BY <1>2, <1>3, <2>1 DEF AgreeExcept
<1> QED
  BY <1>2, <1>3, <1>4, <1>5, FinishKeeps

\* Where operations do not overlap, a patch that was saved is not refused.
LEMMA FinishPatchKeeps ==
    ASSUME AdminInv, NEW h \in AdminHandlers, FinishPatch(h)
    PROVE  AdminInv'
<1>1. PICK plat : plat = [id |-> handlers[h].id, row |-> handlers[h].row]
  OBVIOUS
<1>2. /\ handlers[h].op = "replace" /\ ReplacePlatform(plat)
      /\ HandlerDoes(h, Idle) /\ HandlerContinues /\ UNCHANGED platformRows
  BY <1>1 DEF FinishPatch
<1>3. plat \in Platform /\ plat.id = handlers[h].id /\ plat.row = handlers[h].row
  BY <1>1, <1>2 DEF AdminInv, AdminTypeOK, Platform
<1>4. /\ IsMap(platformByID', PlatformIds, Platform)
      /\ IsMap(platformByName', PlatformNames, Platform)
      /\ NameIndexSound'
      /\ DOMAIN platformByID' = DOMAIN platformByID
      /\ \A i \in DOMAIN platformByID \ {plat.id} : platformByID'[i] = platformByID[i]
      /\ ~ReplaceRefused(plat) => platformByID'[plat.id] = plat
  BY <1>2, <1>3, ReplaceSound DEF AdminInv
<1>5. DOMAIN platformByID' \subseteq usedIds
  BY <1>4 DEF AdminInv, RowsSound
<1>6. ASSUME ~overlap PROVE AgreeExcept({})'
  <2>1. /\ AgreeExcept({plat.id}) /\ plat.id \in DOMAIN platformRows
        /\ platformRows[plat.id] = plat.row
        /\ plat.id \in DOMAIN platformByID
    BY <1>2, <1>3, <1>6 DEF AdminInv, SerialInv, Behind
  <2>2. ASSUME plat.row.name \in DOMAIN platformByName
        PROVE  platformByName[plat.row.name] = platformByID[plat.id]
    <3>1. PICK p : p = platformByName[plat.row.name]
      OBVIOUS
    <3>2. p.row.name = plat.row.name /\ p.id \in DOMAIN platformByID /\ platformByID[p.id] = p
      BY <2>2, <3>1 DEF AdminInv, NameIndexSound
    <3>3. SUFFICES ASSUME p.id # plat.id PROVE FALSE
      BY <3>1, <3>2
    <3>4. p.id \in DOMAIN platformRows /\ p = [id |-> p.id, row |-> platformRows[p.id]]
      BY <2>1, <3>2, <3>3 DEF AgreeExcept
    <3>5. platformRows[p.id].name = platformRows[plat.id].name
      BY <2>1, <3>2, <3>4
    <3> QED
      BY <2>1, <3>3, <3>4, <3>5 DEF AdminInv, RowsSound
  <2>3. ~ReplaceRefused(plat)
    BY <2>1, <2>2 DEF ReplaceRefused
  <2>4. platformByID'[plat.id] = [id |-> plat.id, row |-> platformRows[plat.id]]
    BY <1>1, <1>3, <1>4, <2>1, <2>3
  <2> QED
    BY <1>2, <1>4, <2>1, <2>4 DEF AgreeExcept
<1> QED
  BY <1>2, <1>4, <1>5, <1>6, FinishKeeps

\* A patch writes the row; the pool follows later.
LEMMA PersistPatchKeeps ==
    ASSUME AdminInv, NEW h \in AdminHandlers, PersistPatch(h)
    PROVE  AdminInv'
<1>1. PICK id, row : id = handlers[h].id /\ row = handlers[h].row
  OBVIOUS
<1>2. /\ handlers[h].op = "patch" /\ HandlerContinues
      /\ UNCHANGED <<platformByID, platformByName, adminOps, overlap, restarts, usedIds>>
  BY DEF PersistPatch, poolIndex, HandlerContinues
<1>3. id \in PlatformIds /\ row \in Row /\ id \in usedIds
  BY <1>1, <1>2 DEF AdminInv, AdminTypeOK, RowsSound
<1>4. ~overlap => AgreeExcept({}) /\ id \in DOMAIN platformRows
  BY <1>1, <1>2 DEF AdminInv, SerialInv, Behind
<1>5. CASE HandlerDoes(h, Idle) /\ UNCHANGED platformRows
  <2>1. NameIndexSound'
    BY <1>2 DEF AdminInv, NameIndexSound
  <2>2. ~overlap => AgreeExcept({})'
    BY <1>2, <1>4, <1>5 DEF AgreeExcept
  <2>3. /\ IsMap(platformByID', PlatformIds, Platform)
        /\ IsMap(platformByName', PlatformNames, Platform)
        /\ DOMAIN platformByID' \subseteq usedIds
    BY <1>2 DEF AdminInv, AdminTypeOK, RowsSound
  <2> QED
    BY <1>2, <1>5, <2>1, <2>2, <2>3, FinishKeeps
<1>6. CASE Upsert(id, row) /\ HandlerDoes(h, [handlers[h] EXCEPT !.op = "replace"])
  <2>1. PICK step : step = [handlers[h] EXCEPT !.op = "replace"]
    OBVIOUS
  <2>2. HandlerDoes(h, step)
    BY <1>6, <2>1
  <2>3. step.id = id /\ step.row = row
    BY <1>1, <2>1
  <2>4. step.op = "replace"
    BY <1>2, <2>1 DEF AdminInv, HandlersShaped
  <2>5. /\ IsMap(platformRows', PlatformIds, Row)
        /\ DOMAIN platformRows' = DOMAIN platformRows \cup {id}
        /\ platformRows'[id] = row
        /\ \A i \in DOMAIN platformRows \ {id} : platformRows'[i] = platformRows[i]
        /\ DefaultPlatformID \in DOMAIN platformRows'
        /\ DOMAIN platformRows' \subseteq usedIds'
        /\ \A i, j \in DOMAIN platformRows' : platformRows'[i].name = platformRows'[j].name => i = j
    BY <1>2, <1>3, <1>6, UpsertRows
  <2>6. /\ HandlersShaped'
        /\ \A g \in AdminHandlers :
             /\ handlers'[g].op \in {"idle", "register", "patch", "replace", "unregister"}
             /\ handlers'[g].op # "idle" => handlers'[g].id \in PlatformIds
             /\ handlers'[g].op \in {"register", "patch", "replace"} => handlers'[g].row \in Row
             /\ handlers'[g].op # "idle" => handlers'[g].id \in usedIds'
    BY <1>2, <1>3, <2>2, <2>3, <2>4, HandlersKept
  <2>7. /\ handlers'[h] = step
        /\ \A g \in AdminHandlers \ {h} : handlers'[g] = handlers[g]
    BY <2>2, HandlerWritten DEF AdminInv
  <2>8. SerialInv'
    <3>1. SUFFICES ASSUME ~overlap PROVE SerialInv'
      BY <1>2 DEF SerialInv
    <3>2. handlers[h] # Idle /\ step # Idle
      BY <1>2, <2>4 DEF Idle
    <3>3. \A g \in AdminHandlers \ {h} : handlers'[g] = Idle
      BY <2>7, <3>1, <3>2 DEF AdminInv, SerialInv
    <3>4. \A g \in AdminHandlers \ {h} : handlers'[g].op = "idle"
      BY <3>3 DEF Idle
    <3>5. \A g \in AdminHandlers \ {h} : Behind(g)'
      BY <3>4 DEF Behind
    <3>6. AgreeExcept({id})' /\ id \in DOMAIN platformByID'
      BY <1>2, <1>4, <2>5, <3>1 DEF AgreeExcept
    <3>7. AgreeExcept({handlers[h].id})'
      BY <2>3, <2>7, <3>6 DEF AgreeExcept
    <3>8. Behind(h)'
      BY <2>3, <2>4, <2>5, <2>7, <3>6, <3>7 DEF Behind
    <3>9. Busy'
      BY <2>7, <3>2 DEF Busy
    <3> QED
      BY <1>2, <3>2, <2>7, <3>3, <3>5, <3>8, <3>9 DEF SerialInv
  <2>9. AdminTypeOK'
    BY <1>2, <2>5, <2>6 DEF AdminInv, AdminTypeOK
  <2>10. RowsSound' /\ NameIndexSound'
    BY <1>2, <2>5, <2>6 DEF AdminInv, RowsSound, NameIndexSound
  <2> QED
    BY <2>6, <2>8, <2>9, <2>10 DEF AdminInv
<1> QED
  BY <1>1, <1>5, <1>6 DEF PersistPatch

\* The boot registers what the rows say.
LEMMA BootFacts ==
    ASSUME NEW rows, IsMap(rows, PlatformIds, Row),
           NEW byID, byID = PoolOf(rows), NEW byName, byName = IndexOf(rows)
    PROVE  /\ IsMap(byID, PlatformIds, Platform)
           /\ IsMap(byName, PlatformNames, Platform)
           /\ \A n \in DOMAIN byName : /\ byName[n].row.name = n
                                       /\ byName[n].id \in DOMAIN byID
                                       /\ byID[byName[n].id] = byName[n]
           /\ DOMAIN byID = DOMAIN rows
           /\ \A i \in DOMAIN rows : byID[i] = [id |-> i, row |-> rows[i]]
<1>1. DOMAIN PoolOf(rows) = DOMAIN rows
  BY DEF PoolOf
<1>2. \A i \in DOMAIN rows : PoolOf(rows)[i] = [id |-> i, row |-> rows[i]]
  BY DEF PoolOf
<1>3. \A i \in DOMAIN rows : i \in PlatformIds /\ rows[i] \in Row
  BY DEF IsMap
<1>4. \A i \in DOMAIN rows : PoolOf(rows)[i] \in Platform
  <2> TAKE i \in DOMAIN rows
  <2>1. [id |-> i, row |-> rows[i]] \in Platform
    BY <1>3 DEF Platform
  <2> QED
    BY <1>2, <2>1
<1>5. IsMap(byID, PlatformIds, Platform)
  BY <1>1, <1>3, <1>4 DEF IsMap, PoolOf
<1>6. DOMAIN IndexOf(rows) = {rows[i].name : i \in DOMAIN rows}
  BY DEF IndexOf
<1>7. ASSUME NEW n \in DOMAIN IndexOf(rows)
      PROVE  \E i \in DOMAIN rows : rows[i].name = n /\ IndexOf(rows)[n] = PoolOf(rows)[i]
  <2>1. \E i \in DOMAIN rows : rows[i].name = n
    BY <1>6
  <2>2. PICK i : i = CHOOSE j \in DOMAIN rows : rows[j].name = n
    OBVIOUS
  <2>3. i \in DOMAIN rows /\ rows[i].name = n
    BY <2>1, <2>2
  <2>4. IndexOf(rows)[n] = PoolOf(rows)[i]
    BY <1>6, <2>2 DEF IndexOf
  <2> QED
    BY <2>3, <2>4
<1>8. IsMap(byName, PlatformNames, Platform)
  <2>1. DOMAIN IndexOf(rows) \subseteq PlatformNames
    BY <1>3, <1>6 DEF Row
  <2>2. \A n \in DOMAIN IndexOf(rows) : IndexOf(rows)[n] \in Platform
    BY <1>4, <1>7
  <2>3. IndexOf(rows) \in [DOMAIN IndexOf(rows) -> Platform]
    BY <2>2 DEF IndexOf
  <2> QED
    BY <2>1, <2>3 DEF IsMap
<1>9. ASSUME NEW n \in DOMAIN byName
      PROVE  byName[n].row.name = n /\ byName[n].id \in DOMAIN byID /\ byID[byName[n].id] = byName[n]
  BY <1>1, <1>2, <1>7
<1> QED
  BY <1>1, <1>2, <1>5, <1>8, <1>9

\* A crash loses what operations were doing; the boot reads the rows.
LEMMA RestartKeeps ==
    ASSUME AdminInv, RestartAdmin
    PROVE  AdminInv'
<1>1. /\ restarts' = restarts + 1 /\ restarts < MaxRestarts
      /\ handlers' = [h \in AdminHandlers |-> Idle]
      /\ overlap' = FALSE
      /\ UNCHANGED <<usedIds, adminOps>>
  BY DEF RestartAdmin
<1>2. platformRows' = platformRows
  BY DEF RestartAdmin, EnsureDefaultPlatform, AdminInv, RowsSound
<1>3. platformByID' = PoolOf(platformRows) /\ platformByName' = IndexOf(platformRows)
  BY <1>2 DEF RestartAdmin
<1>4. IsMap(platformRows, PlatformIds, Row)
  BY DEF AdminInv, AdminTypeOK
<1>5. /\ IsMap(platformByID', PlatformIds, Platform)
      /\ IsMap(platformByName', PlatformNames, Platform)
      /\ \A n \in DOMAIN platformByName' :
           /\ platformByName'[n].row.name = n
           /\ platformByName'[n].id \in DOMAIN platformByID'
           /\ platformByID'[platformByName'[n].id] = platformByName'[n]
      /\ DOMAIN platformByID' = DOMAIN platformRows
      /\ \A i \in DOMAIN platformRows : platformByID'[i] = [id |-> i, row |-> platformRows[i]]
  BY <1>3, <1>4, BootFacts
<1>6. \A h \in AdminHandlers : handlers'[h] = Idle /\ handlers'[h].op = "idle"
  BY <1>1 DEF Idle
<1>7. HandlersShaped'
  BY <1>1, <1>6 DEF HandlersShaped
<1>8. SerialInv'
  <2>1. AgreeExcept({})'
    BY <1>2, <1>5 DEF AgreeExcept
  <2>2. \A h \in AdminHandlers : Behind(h)'
    BY <1>6 DEF Behind
  <2> QED
    BY <1>6, <2>1, <2>2 DEF SerialInv
<1>9. AdminTypeOK'
  <2>1. restarts' \in 0..MaxRestarts /\ adminOps' \in 0..MaxAdminOps
    BY <1>1, AdminAssumption DEF AdminInv, AdminTypeOK
  <2>2. overlap' \in BOOLEAN
    BY <1>1
  <2> QED
    BY <1>1, <1>2, <1>4, <1>5, <1>6, <2>1, <2>2 DEF AdminInv, AdminTypeOK
<1>10. RowsSound' /\ NameIndexSound'
  BY <1>1, <1>2, <1>5, <1>6 DEF AdminInv, RowsSound, NameIndexSound
<1> QED
  BY <1>7, <1>8, <1>9, <1>10 DEF AdminInv

\* At the start the pool holds what the rows say.
LEMMA AdminStarts == AdminInit => AdminInv
<1>1. SUFFICES ASSUME AdminInit PROVE AdminInv
  OBVIOUS
<1>2. PICK row : row = [name |-> DefaultPlatformName, config |-> DefaultConfig]
  OBVIOUS
<1>3. DefaultConfig \in Config
  BY DEF DefaultConfig, Config, Behaviors
<1>4. row \in Row
  BY <1>2, <1>3, AdminAssumption DEF Row
<1>5. DOMAIN EmptyMap = {}
  BY DEF EmptyMap
<1>6. platformRows = MapPut(EmptyMap, DefaultPlatformID, row)
  BY <1>1, <1>2, <1>5 DEF AdminInit, EnsureDefaultPlatform
<1>7. /\ IsMap(platformRows, PlatformIds, Row)
      /\ DOMAIN platformRows = {DefaultPlatformID}
  BY <1>4, <1>5, <1>6, AdminAssumption DEF IsMap, MapPut
<1>8. /\ IsMap(platformByID, PlatformIds, Platform)
      /\ IsMap(platformByName, PlatformNames, Platform)
      /\ \A n \in DOMAIN platformByName :
           /\ platformByName[n].row.name = n
           /\ platformByName[n].id \in DOMAIN platformByID
           /\ platformByID[platformByName[n].id] = platformByName[n]
      /\ DOMAIN platformByID = DOMAIN platformRows
      /\ \A i \in DOMAIN platformRows : platformByID[i] = [id |-> i, row |-> platformRows[i]]
  BY <1>1, <1>7, BootFacts DEF AdminInit
<1>9. \A h \in AdminHandlers : handlers[h] = Idle /\ handlers[h].op = "idle"
  BY <1>1 DEF AdminInit, Idle
<1>10. HandlersShaped
  BY <1>1, <1>9 DEF HandlersShaped, AdminInit
<1>11. SerialInv
  <2>1. AgreeExcept({})
    BY <1>8 DEF AgreeExcept
  <2>2. \A h \in AdminHandlers : Behind(h)
    BY <1>9 DEF Behind
  <2> QED
    BY <1>9, <2>1, <2>2 DEF SerialInv
<1>12. AdminTypeOK
  <2>1. restarts \in 0..MaxRestarts /\ adminOps \in 0..MaxAdminOps
    BY <1>1, AdminAssumption DEF AdminInit
  <2>2. overlap \in BOOLEAN /\ usedIds \subseteq PlatformIds
    BY <1>1, AdminAssumption DEF AdminInit
  <2> QED
    BY <1>7, <1>8, <1>9, <2>1, <2>2 DEF AdminTypeOK
<1>13. RowsSound /\ NameIndexSound
  BY <1>1, <1>7, <1>8, <1>9 DEF AdminInit, RowsSound, NameIndexSound
<1> QED
  BY <1>10, <1>11, <1>12, <1>13 DEF AdminInv

\* AdminInv holds for every number of handlers, platforms and restarts.
LEMMA AdminInvariant == AdminSpec => []AdminInv
<1>1. AdminInv /\ [AdminNext]_adminVars => AdminInv'
  <2>1. SUFFICES ASSUME AdminInv, [AdminNext]_adminVars PROVE AdminInv'
    OBVIOUS
  <2>2. CASE UNCHANGED adminVars
    BY <2>1, <2>2 DEF adminVars, AdminInv, AdminTypeOK, HandlersShaped, RowsSound,
       NameIndexSound, SerialInv, Behind, Busy, AgreeExcept
  <2>3. ASSUME NEW h \in AdminHandlers, NEW id \in PlatformIds, NEW row \in Row,
               ReadPlatform(h, id, row)
        PROVE  AdminInv'
    BY <2>1, <2>3, ReadKeeps DEF ReadPlatform
  <2>4. ASSUME NEW h \in AdminHandlers, NEW id \in PlatformIds, ReadPlatformName(h, id)
        PROVE  AdminInv'
    <3>1. PICK row : row = [name |-> platformRows[id].name, config |-> DefaultConfig]
      OBVIOUS
    <3>2. id \in DOMAIN platformRows
      BY <2>4 DEF ReadPlatformName
    <3>3. platformRows[id].name \in PlatformNames
      BY <2>1, <3>2 DEF AdminInv, AdminTypeOK, IsMap, Row
    <3>4. DefaultConfig \in Config
      BY DEF DefaultConfig, Config, Behaviors
    <3>5. row \in Row
      BY <3>1, <3>3, <3>4 DEF Row
    <3> QED
      BY <2>1, <2>4, <3>1, <3>2, <3>5, ReadKeeps DEF ReadPlatformName
  <2> QED
    BY <2>1, <2>2, <2>3, <2>4, CreateKeeps, DeleteKeeps, FinishCreateKeeps, PersistPatchKeeps,
       FinishPatchKeeps, FinishDeleteKeeps, RestartKeeps DEF AdminNext
<1> QED
  BY <1>1, AdminStarts, PTL DEF AdminSpec

\* However operations on platforms overlap, and however many crash, a name leads
\* to the object the pool has under that object's id, and to none that was
\* replaced, renamed or deleted (RegisterPlatform, ReplacePlatform,
\* UnregisterPlatform).
THEOREM NamesCorrect == AdminSpec => []NameIndexSound
<1>1. AdminInv => NameIndexSound
  BY DEF AdminInv
<1> QED
  BY <1>1, AdminInvariant, PTL

\* Operations that do not overlap leave the pool as the rows say, refused ones
\* and crashes between the write of the row and the change of the pool included.
THEOREM SerialCorrect == AdminSpec => []SerialOpsAgree
<1>1. AdminInv => SerialOpsAgree
  <2>1. SUFFICES ASSUME AdminInv, ~Busy, ~overlap PROVE platformByID = PoolOf(platformRows)
    BY DEF SerialOpsAgree
  <2>2. /\ DOMAIN platformByID = DOMAIN platformRows
        /\ \A i \in DOMAIN platformRows : platformByID[i] = [id |-> i, row |-> platformRows[i]]
    BY <2>1 DEF AdminInv, SerialInv, AgreeExcept
  <2>3. platformByID \in [DOMAIN platformByID -> Platform]
    BY <2>1 DEF AdminInv, AdminTypeOK, IsMap
  <2> QED
    BY <2>2, <2>3 DEF PoolOf
<1> QED
  BY <1>1, AdminInvariant, PTL

-----------------------------------------------------------------------------
(* Custom endpoints *)

\* Rows hold validated endpoints, never the default port.
StoredEndpoint == [port : Ports, enabled : BOOLEAN, caps : CapabilitySets]
RowOf(id) == {endpointRows[i] : i \in DOMAIN endpointRows \cap {id}}
Enabled(rows) == \E e \in rows : e.enabled

\* What the holder of endpointMu is doing, and what of the row it knows.
AdminShaped ==
    /\ admin.op = "none" => admin = NoAdmin
    /\ admin.op # "none" => /\ admin = [op |-> admin.op, id |-> admin.id, before |-> admin.before]
                            /\ admin.before \subseteq StoredEndpoint
                            /\ \A e, f \in admin.before : e = f
                            /\ manager # "boot"
    /\ admin.op = "apply" => admin.id \in DOMAIN endpointRows /\ endpointRows[admin.id].enabled
    /\ admin.op = "remove" => ~Enabled(RowOf(admin.id))

\* The listeners of a started manager are started, those of a boot wait.
StartedInv == manager # "stopping" =>
                \A i \in DOMAIN runtimes : runtimes[i].started = (manager = "started")

RestoringInv ==
    /\ restoring # {} => manager = "boot"
    /\ \A i \in restoring : i \in DOMAIN endpointRows /\ endpointRows[i].enabled

\* The endpoint is served as its row says, rows being that row or empty.
Follows(id, rows) ==
    IF Enabled(rows)
    THEN \/ /\ id \in DOMAIN runtimes /\ id \in DOMAIN statuses
            /\ \A e \in rows : runtimes[id].port = e.port /\ runtimes[id].caps = e.caps
            /\ statuses[id] = IF manager = "boot" THEN "starting" ELSE "active"
         \/ id \notin DOMAIN runtimes /\ id \in DOMAIN statuses /\ statuses[id] = "error"
    ELSE id \notin DOMAIN runtimes /\ id \notin DOMAIN statuses

\* An endpoint follows its row, or, while an operation is on it, the row as it
\* was before the operation.
FollowsInv(id) ==
    /\ id \in restoring => id \notin DOMAIN runtimes /\ id \notin DOMAIN statuses
    /\ id \notin restoring /\ (admin.op = "none" \/ admin.id # id) => Follows(id, RowOf(id))
    /\ admin.op \in {"apply", "undoRow"} /\ admin.id = id => Follows(id, admin.before)
    /\ admin.op = "undo" /\ admin.id = id =>
         IF Enabled(admin.before) THEN Follows(id, admin.before) ELSE id \notin DOMAIN runtimes

EndpointInv ==
    /\ EndpointTypeOK /\ IsMap(endpointRows, Endpoints, StoredEndpoint)
    /\ AdminShaped /\ StartedInv /\ RestoringInv
    /\ manager # "stopping" => \A id \in Endpoints \ rollbackFailed : FollowsInv(id)

\* The listener and the status of an endpoint, and its row, stay what they are.
SameListener(id) ==
    /\ id \in DOMAIN runtimes' <=> id \in DOMAIN runtimes
    /\ id \in DOMAIN runtimes => runtimes'[id] = runtimes[id]
    /\ id \in DOMAIN statuses' <=> id \in DOMAIN statuses
    /\ id \in DOMAIN statuses => statuses'[id] = statuses[id]

SameRow(id) ==
    /\ id \in DOMAIN endpointRows' <=> id \in DOMAIN endpointRows
    /\ id \in DOMAIN endpointRows => endpointRows'[id] = endpointRows[id]

\* A listener nobody touched still follows the rows it followed.
LEMMA FollowsKept ==
    ASSUME NEW id, NEW rows, Follows(id, rows), SameListener(id), manager' = manager
    PROVE  Follows(id, rows)'
BY DEF Follows, SameListener

\* A row nobody touched is the same endpoint.
LEMMA RowKept ==
    ASSUME NEW id, SameRow(id)
    PROVE  RowOf(id)' = RowOf(id)
BY DEF RowOf, SameRow

\* A step of the operation on one endpoint leaves the others alone.
LEMMA OthersKept ==
    ASSUME NEW t, NEW id, id # t, FollowsInv(id), SameListener(id), SameRow(id),
           manager' = manager, id \in restoring' <=> id \in restoring,
           admin.op = "none" \/ admin.id = t, admin'.op = "none" \/ admin'.id = t
    PROVE  FollowsInv(id)'
<1>1. PICK rows : rows = RowOf(id)
  OBVIOUS
<1>2. RowOf(id)' = rows
  BY <1>1, RowKept
<1>3. id \in restoring' => id \notin DOMAIN runtimes' /\ id \notin DOMAIN statuses'
  BY DEF FollowsInv, SameListener
<1>4. ASSUME id \notin restoring' PROVE Follows(id, RowOf(id))'
  <2>1. Follows(id, rows)
    BY <1>1, <1>4 DEF FollowsInv
  <2>2. Follows(id, rows)'
    BY <2>1, FollowsKept
  <2> QED
    BY <1>2, <2>2 DEF Follows
<1> QED
  BY <1>3, <1>4 DEF FollowsInv

\* CreateEndpoint, UpdateEndpoint and DeleteEndpoint write the row of an
\* endpoint that follows its row.
LEMMA RowWritten ==
    ASSUME EndpointInv, NEW t \in Endpoints, AdminFree, OnlyRows,
           IsMap(endpointRows', Endpoints, Endpoint), IsMap(endpointRows', Endpoints, StoredEndpoint),
           \A id \in Endpoints \ {t} : SameRow(id),
           NEW op \in {"apply", "remove"},
           \/ admin' = NoAdmin /\ ~Enabled(RowOf(t)) /\ ~Enabled(RowOf(t))'
           \/ /\ admin' = [op |-> op, id |-> t, before |-> RowOf(t)]
              /\ op = "apply" => t \in DOMAIN endpointRows' /\ endpointRows'[t].enabled
              /\ op = "remove" => ~Enabled(RowOf(t))'
           \/ /\ admin' = [op |-> "remove", id |-> t, before |-> {}]
              /\ ~Enabled(RowOf(t))'
    PROVE  EndpointInv'
<1>1. /\ admin = NoAdmin /\ manager # "boot" /\ admin.op = "none"
      /\ UNCHANGED <<runtimes, statuses, retiring, dead, manager, restoring, rollbackFailed, endpointCrashes>>
  BY DEF AdminFree, OnlyRows, listeners, NoAdmin
<1>2. /\ admin'.op \in {"none", "apply", "remove"}
      /\ admin'.op = "none" => admin' = NoAdmin
      /\ admin'.op # "none" => /\ admin'.id = t
                               /\ admin' = [op |-> admin'.op, id |-> admin'.id, before |-> admin'.before]
                               /\ admin'.before = RowOf(t) \/ admin'.before = {}
      /\ admin'.op = "apply" => admin'.before = RowOf(t)
  BY DEF NoAdmin
<1>3. restoring = {}
  BY <1>1 DEF EndpointInv, RestoringInv
<1>4. EndpointTypeOK'
  BY <1>1, <1>2 DEF EndpointInv, EndpointTypeOK
<1>5. RowOf(t) \subseteq StoredEndpoint /\ \A e, f \in RowOf(t) : e = f
  BY DEF RowOf, EndpointInv, IsMap
<1>6. AdminShaped'
  <2>1. admin'.op = "apply" => t \in DOMAIN endpointRows' /\ endpointRows'[t].enabled
    BY DEF NoAdmin
  <2>2. admin'.op = "remove" => ~Enabled(RowOf(t))'
    BY DEF NoAdmin
  <2>3. admin'.op = "remove" => ~Enabled(RowOf(admin.id))'
    BY <1>2, <2>2 DEF Enabled, RowOf
  <2> QED
    BY <1>1, <1>2, <1>5, <2>1, <2>3 DEF AdminShaped
<1>7. StartedInv' /\ RestoringInv'
  BY <1>1, <1>3 DEF EndpointInv, StartedInv, RestoringInv
<1>8. ASSUME manager # "stopping", NEW id \in Endpoints \ rollbackFailed
      PROVE  FollowsInv(id)'
  <2>1. SameListener(id)
    BY <1>1 DEF SameListener
  <2>2. FollowsInv(id)
    BY <1>8 DEF EndpointInv
  <2>3. CASE id # t
    BY <1>1, <1>2, <2>1, <2>2, <2>3, OthersKept
  <2>4. CASE id = t
    <3>1. PICK rows : rows = RowOf(t)
      OBVIOUS
    <3>2. Follows(t, rows)
      BY <1>1, <1>3, <2>2, <2>4, <3>1 DEF FollowsInv
    <3>3. Follows(t, rows)'
      BY <1>1, <2>1, <2>4, <3>2, FollowsKept
    <3>4. admin'.op = "none" => Follows(t, RowOf(t))'
      <4>1. SUFFICES ASSUME admin' = NoAdmin, ~Enabled(rows), ~Enabled(RowOf(t))'
                     PROVE  Follows(t, RowOf(t))'
        BY <1>2, <3>1 DEF NoAdmin
      <4>2. t \notin DOMAIN runtimes' /\ t \notin DOMAIN statuses'
        BY <3>3, <4>1 DEF Follows
      <4> QED
        BY <4>1, <4>2 DEF Follows
    <3>5. admin'.op = "apply" => Follows(t, admin.before)'
      <4>1. admin'.op = "apply" => admin'.before = rows
        BY <1>2, <3>1
      <4> QED
        BY <3>3, <4>1 DEF Follows
    <3> QED
      BY <1>1, <1>2, <1>3, <2>4, <3>4, <3>5 DEF FollowsInv
  <2> QED
    BY <2>3, <2>4
<1> QED
  BY <1>1, <1>4, <1>6, <1>7, <1>8 DEF EndpointInv

\* What passes the validation may be stored.
LEMMA ValidatedStored ==
    ASSUME NEW e \in Endpoint, ValidateEndpoint(e)
    PROVE  e \in StoredEndpoint
<1>1. e.port # DefaultPort
  BY DEF ValidateEndpoint
<1>2. e.port \in Ports
  BY <1>1 DEF Endpoint
<1> QED
  BY <1>2 DEF Endpoint, StoredEndpoint

\* One row is stored.
LEMMA RowPut ==
    ASSUME EndpointInv, NEW id \in Endpoints, NEW e \in StoredEndpoint,
           endpointRows' = MapPut(endpointRows, id, e)
    PROVE  /\ IsMap(endpointRows', Endpoints, Endpoint)
           /\ IsMap(endpointRows', Endpoints, StoredEndpoint)
           /\ \A i \in Endpoints \ {id} : SameRow(i)
           /\ id \in DOMAIN endpointRows' /\ endpointRows'[id] = e
           /\ RowOf(id)' = {e}
<1>1. e \in Endpoint
  BY DEF StoredEndpoint, Endpoint
<1>2. /\ IsMap(endpointRows, Endpoints, Endpoint)
      /\ IsMap(endpointRows, Endpoints, StoredEndpoint)
  BY DEF EndpointInv, EndpointTypeOK
<1>3. DOMAIN endpointRows' = DOMAIN endpointRows \cup {id}
  BY DEF MapPut
<1>4. \A i \in DOMAIN endpointRows' : endpointRows'[i] = IF i = id THEN e ELSE endpointRows[i]
  BY DEF MapPut
<1>5. IsMap(endpointRows', Endpoints, Endpoint)
  BY <1>1, <1>2 DEF IsMap, MapPut
<1>6. IsMap(endpointRows', Endpoints, StoredEndpoint)
  BY <1>2 DEF IsMap, MapPut
<1>7. \A i \in Endpoints \ {id} : SameRow(i)
  BY <1>3, <1>4 DEF SameRow
<1>8. RowOf(id)' = {e}
  BY <1>3, <1>4 DEF RowOf
<1> QED
  BY <1>3, <1>4, <1>5, <1>6, <1>7, <1>8

\* A deleted row leaves all others as they were.
LEMMA RowDeleted ==
    ASSUME EndpointInv, NEW id \in Endpoints, endpointRows' = MapDelete(endpointRows, id)
    PROVE  /\ IsMap(endpointRows', Endpoints, Endpoint)
           /\ IsMap(endpointRows', Endpoints, StoredEndpoint)
           /\ \A i \in Endpoints \ {id} : SameRow(i)
           /\ RowOf(id)' = {}
<1>1. /\ IsMap(endpointRows, Endpoints, Endpoint)
      /\ IsMap(endpointRows, Endpoints, StoredEndpoint)
  BY DEF EndpointInv, EndpointTypeOK
<1>2. /\ DOMAIN endpointRows' = DOMAIN endpointRows \ {id}
      /\ \A i \in DOMAIN endpointRows' : endpointRows'[i] = endpointRows[i]
  BY DEF MapDelete
<1>3. IsMap(endpointRows', Endpoints, Endpoint)
  BY <1>1 DEF IsMap, MapDelete
<1>4. IsMap(endpointRows', Endpoints, StoredEndpoint)
  BY <1>1 DEF IsMap, MapDelete
<1>5. \A i \in Endpoints \ {id} : SameRow(i)
  BY <1>2 DEF SameRow
<1>6. RowOf(id)' = {}
  BY <1>2 DEF RowOf
<1> QED
  BY <1>3, <1>4, <1>5, <1>6

\* The statements that write an endpoint's row.
LEMMA RowOpsKeep ==
    ASSUME EndpointInv, NEW id \in Endpoints,
           \/ \E e \in Endpoint : CreateEndpoint(id, e) \/ UpdateEndpoint(id, e)
           \/ DeleteEndpoint(id)
    PROVE  EndpointInv'
<1>1. ASSUME NEW e \in Endpoint, CreateEndpoint(id, e) PROVE EndpointInv'
  <2>1. /\ AdminFree /\ OnlyRows /\ id \notin DOMAIN endpointRows
        /\ endpointRows' = MapPut(endpointRows, id, e)
        /\ admin' = IF e.enabled THEN [op |-> "apply", id |-> id, before |-> {}] ELSE NoAdmin
        /\ e \in StoredEndpoint
    BY <1>1, ValidatedStored DEF CreateEndpoint
  <2>2. RowOf(id) = {}
    BY <2>1 DEF RowOf
  <2>3. /\ IsMap(endpointRows', Endpoints, Endpoint)
        /\ IsMap(endpointRows', Endpoints, StoredEndpoint)
        /\ \A i \in Endpoints \ {id} : SameRow(i)
        /\ id \in DOMAIN endpointRows' /\ endpointRows'[id] = e
        /\ RowOf(id)' = {e}
    BY <2>1, RowPut
  <2>4. CASE e.enabled
    <3>1. admin' = [op |-> "apply", id |-> id, before |-> RowOf(id)]
      BY <2>1, <2>2, <2>4
    <3> QED
      BY <2>1, <2>3, <2>4, <3>1, RowWritten
  <2>5. CASE ~e.enabled
    <3>1. ~Enabled(RowOf(id)) /\ ~Enabled(RowOf(id))'
      BY <2>2, <2>3, <2>5 DEF Enabled
    <3> QED
      BY <2>1, <2>3, <2>5, <3>1, RowWritten
  <2> QED
    BY <2>4, <2>5
<1>2. ASSUME NEW e \in Endpoint, UpdateEndpoint(id, e) PROVE EndpointInv'
  <2>1. /\ AdminFree /\ OnlyRows /\ id \in DOMAIN endpointRows
        /\ endpointRows' = MapPut(endpointRows, id, e)
        /\ admin' = [op |-> IF e.enabled THEN "apply" ELSE "remove", id |-> id,
                     before |-> {endpointRows[id]}]
        /\ e \in StoredEndpoint
    BY <1>2, ValidatedStored DEF UpdateEndpoint
  <2>2. RowOf(id) = {endpointRows[id]}
    BY <2>1 DEF RowOf
  <2>3. /\ IsMap(endpointRows', Endpoints, Endpoint)
        /\ IsMap(endpointRows', Endpoints, StoredEndpoint)
        /\ \A i \in Endpoints \ {id} : SameRow(i)
        /\ id \in DOMAIN endpointRows' /\ endpointRows'[id] = e
        /\ RowOf(id)' = {e}
    BY <2>1, RowPut
  <2>4. CASE e.enabled
    <3>1. admin' = [op |-> "apply", id |-> id, before |-> RowOf(id)]
      BY <2>1, <2>2, <2>4
    <3> QED
      BY <2>1, <2>3, <2>4, <3>1, RowWritten
  <2>5. CASE ~e.enabled
    <3>1. ~Enabled(RowOf(id))'
      BY <2>3, <2>5 DEF Enabled
    <3>2. admin' = [op |-> "remove", id |-> id, before |-> RowOf(id)]
      BY <2>1, <2>2, <2>5
    <3> QED
      BY <2>1, <2>3, <2>5, <3>1, <3>2, RowWritten
  <2> QED
    BY <2>4, <2>5
<1>3. CASE DeleteEndpoint(id)
  <2>1. /\ AdminFree /\ OnlyRows
        /\ endpointRows' = MapDelete(endpointRows, id)
        /\ admin' = [op |-> "remove", id |-> id, before |-> {}]
    BY <1>3 DEF DeleteEndpoint
  <2>2. /\ IsMap(endpointRows', Endpoints, Endpoint)
        /\ IsMap(endpointRows', Endpoints, StoredEndpoint)
        /\ \A i \in Endpoints \ {id} : SameRow(i)
        /\ RowOf(id)' = {}
    BY <2>1, RowDeleted
  <2>3. ~Enabled(RowOf(id))'
    BY <2>2 DEF Enabled
  <2> QED
    BY <2>1, <2>2, <2>3, RowWritten
<1> QED
  BY <1>1, <1>2, <1>3

\* What a listener, and what its status, may be.
Runtime == [port : Ports, caps : CapabilitySets, started : BOOLEAN]
Statuses == {"starting", "active", "error"}

\* A step of the operation that holds endpointMu, on its endpoint.
LEMMA AdminStep ==
    ASSUME EndpointInv, NEW t \in Endpoints, admin.op # "none", admin.id = t,
           UNCHANGED <<manager, restoring, endpointCrashes>>,
           IsMap(endpointRows', Endpoints, Endpoint), IsMap(endpointRows', Endpoints, StoredEndpoint),
           IsMap(runtimes', Endpoints, Runtime), IsMap(statuses', Endpoints, Statuses),
           retiring' \subseteq Ports, dead' \subseteq Ports,
           rollbackFailed' \in {rollbackFailed, rollbackFailed \cup {t}},
           \A id \in Endpoints \ {t} : SameRow(id) /\ SameListener(id),
           manager # "stopping" /\ t \in DOMAIN runtimes' => runtimes'[t].started = (manager = "started"),
           NEW op \in {"undo", "undoRow"},
           admin' = NoAdmin \/ admin' = [admin EXCEPT !.op = op],
           ASSUME manager # "stopping", t \notin rollbackFailed'
           PROVE  /\ admin' = NoAdmin => Follows(t, RowOf(t))'
                  /\ admin' # NoAdmin /\ (op = "undoRow" \/ Enabled(admin.before)) => Follows(t, admin.before)'
                  /\ admin' # NoAdmin /\ op = "undo" /\ ~Enabled(admin.before) => t \notin DOMAIN runtimes'
    PROVE  EndpointInv'
<1>1. /\ admin = [op |-> admin.op, id |-> admin.id, before |-> admin.before]
      /\ admin.before \subseteq StoredEndpoint
      /\ \A e, f \in admin.before : e = f
      /\ manager # "boot"
  BY DEF EndpointInv, AdminShaped
<1>2. /\ admin'.op \in {"none", op}
      /\ admin'.op = "none" => admin' = NoAdmin
      /\ admin'.op # "none" => /\ admin' # NoAdmin
                               /\ admin'.id = t /\ admin'.before = admin.before
                               /\ admin' = [op |-> admin'.op, id |-> admin'.id, before |-> admin'.before]
      /\ admin' = NoAdmin => admin'.op = "none"
  BY <1>1 DEF NoAdmin
<1>3. restoring = {}
  BY <1>1 DEF EndpointInv, RestoringInv
<1>4. EndpointTypeOK'
  BY <1>2 DEF EndpointInv, EndpointTypeOK, Runtime, Statuses
<1>5. AdminShaped'
  BY <1>1, <1>2 DEF AdminShaped
<1>6. StartedInv' /\ RestoringInv'
  BY <1>3 DEF EndpointInv, EndpointTypeOK, IsMap, StartedInv, RestoringInv, SameListener
<1>7. ASSUME manager # "stopping", NEW id \in Endpoints \ rollbackFailed'
      PROVE  FollowsInv(id)'
  <2>1. FollowsInv(id)
    BY <1>7 DEF EndpointInv
  <2>2. CASE id # t
    BY <1>2, <2>1, <2>2, OthersKept
  <2>3. CASE id = t
    <3>1. /\ admin' = NoAdmin => Follows(t, RowOf(t))'
          /\ admin' # NoAdmin /\ (op = "undoRow" \/ Enabled(admin.before)) => Follows(t, admin.before)'
          /\ admin' # NoAdmin /\ op = "undo" /\ ~Enabled(admin.before) => t \notin DOMAIN runtimes'
      BY <1>7, <2>3
    <3>2. admin'.op # "none" => (Enabled(admin.before)' <=> Enabled(admin.before))
      BY <1>2 DEF Enabled
    <3> QED
      BY <1>2, <1>3, <2>3, <3>1, <3>2 DEF FollowsInv
  <2> QED
    BY <2>2, <2>3
<1> QED
  BY <1>4, <1>5, <1>6, <1>7 DEF EndpointInv

\* Types of a listener that was stored, or taken out.
LEMMA ListenerPut ==
    ASSUME IsMap(runtimes, Endpoints, Runtime), NEW t \in Endpoints, NEW r \in Runtime,
           runtimes' = MapPut(runtimes, t, r)
    PROVE  /\ IsMap(runtimes', Endpoints, Runtime)
           /\ t \in DOMAIN runtimes' /\ runtimes'[t] = r
           /\ \A id \in Endpoints \ {t} : /\ id \in DOMAIN runtimes' <=> id \in DOMAIN runtimes
                                          /\ id \in DOMAIN runtimes => runtimes'[id] = runtimes[id]
BY DEF IsMap, MapPut

\* A runtime taken out of the manager's table.
LEMMA ListenerGone ==
    ASSUME IsMap(runtimes, Endpoints, Runtime), NEW t, runtimes' = MapDelete(runtimes, t)
    PROVE  /\ IsMap(runtimes', Endpoints, Runtime)
           /\ t \notin DOMAIN runtimes'
           /\ \A id \in Endpoints \ {t} : /\ id \in DOMAIN runtimes' <=> id \in DOMAIN runtimes
                                          /\ id \in DOMAIN runtimes => runtimes'[id] = runtimes[id]
BY DEF IsMap, MapDelete

\* A status recorded for an endpoint.
LEMMA StatusPut ==
    ASSUME IsMap(statuses, Endpoints, Statuses), NEW t \in Endpoints, NEW s \in Statuses,
           statuses' = MapPut(statuses, t, s)
    PROVE  /\ IsMap(statuses', Endpoints, Statuses)
           /\ t \in DOMAIN statuses' /\ statuses'[t] = s
           /\ \A id \in Endpoints \ {t} : /\ id \in DOMAIN statuses' <=> id \in DOMAIN statuses
                                          /\ id \in DOMAIN statuses => statuses'[id] = statuses[id]
BY DEF IsMap, MapPut

\* A status taken out.
LEMMA StatusGone ==
    ASSUME IsMap(statuses, Endpoints, Statuses), NEW t, statuses' = MapDelete(statuses, t)
    PROVE  /\ IsMap(statuses', Endpoints, Statuses)
           /\ t \notin DOMAIN statuses'
           /\ \A id \in Endpoints \ {t} : /\ id \in DOMAIN statuses' <=> id \in DOMAIN statuses
                                          /\ id \in DOMAIN statuses => statuses'[id] = statuses[id]
BY DEF IsMap, MapDelete

\* ApplyEndpoint, where it succeeds: the endpoint is served as its row says.
LEMMA ApplySucceeds ==
    ASSUME EndpointInv, NEW t \in Endpoints, t \in DOMAIN endpointRows, endpointRows[t].enabled,
           UNCHANGED <<endpointRows, manager>>,
           NEW e, e = endpointRows[t], ApplyInPlace(t, e) \/ ApplyListens(t, e)
    PROVE  /\ IsMap(runtimes', Endpoints, Runtime) /\ IsMap(statuses', Endpoints, Statuses)
           /\ retiring' \subseteq Ports /\ dead' \subseteq Ports
           /\ \A id \in Endpoints \ {t} : SameListener(id)
           /\ manager # "stopping" /\ t \in DOMAIN runtimes' /\ runtimes'[t].started = (manager = "started")
           /\ Follows(t, RowOf(t))'
<1>1. IsMap(runtimes, Endpoints, Runtime) /\ IsMap(statuses, Endpoints, Statuses)
      /\ retiring \subseteq Ports /\ dead \subseteq Ports
      /\ manager \in {"boot", "started", "stopping"}
  BY DEF EndpointInv, EndpointTypeOK, Runtime, Statuses
<1>2. e \in StoredEndpoint /\ e.enabled
  BY DEF EndpointInv, IsMap
<1>3. RowOf(t)' = {e} /\ Enabled(RowOf(t))'
  BY <1>2 DEF RowOf, Enabled
<1>4. manager # "stopping" /\ UNCHANGED dead
  BY DEF ApplyInPlace, ApplyListens
<1>5. \A i \in DOMAIN runtimes : runtimes[i].started = (manager = "started") /\ runtimes[i].port \in Ports
  BY <1>1, <1>4 DEF EndpointInv, StartedInv, IsMap, Runtime
<1>6. CASE ApplyInPlace(t, e)
  <2>1. PICK s : s = IF runtimes[t].started THEN "active" ELSE "starting"
    OBVIOUS
  <2>2. /\ t \in DOMAIN runtimes /\ runtimes[t].port = e.port
        /\ runtimes' = [runtimes EXCEPT ![t].caps = e.caps]
        /\ statuses' = MapPut(statuses, t, s)
        /\ UNCHANGED retiring
    BY <1>6, <2>1 DEF ApplyInPlace
  <2>3. s \in Statuses /\ s = IF manager = "boot" THEN "starting" ELSE "active"
    BY <1>1, <1>4, <1>5, <2>1, <2>2 DEF Statuses
  <2>4. PICK r : r = [runtimes[t] EXCEPT !.caps = e.caps]
    OBVIOUS
  <2>5. runtimes[t] \in Runtime
    BY <1>1, <2>2 DEF IsMap
  <2>6. r \in Runtime /\ r.port = e.port /\ r.caps = e.caps /\ r.started = runtimes[t].started
    BY <1>2, <2>2, <2>4, <2>5 DEF Runtime, StoredEndpoint
  <2>7. /\ IsMap(runtimes', Endpoints, Runtime)
        /\ t \in DOMAIN runtimes' /\ runtimes'[t] = r
        /\ \A id \in Endpoints \ {t} : /\ id \in DOMAIN runtimes' <=> id \in DOMAIN runtimes
                                       /\ id \in DOMAIN runtimes => runtimes'[id] = runtimes[id]
    BY <1>1, <2>2, <2>4, <2>6 DEF IsMap
  <2>8. /\ IsMap(statuses', Endpoints, Statuses)
        /\ t \in DOMAIN statuses' /\ statuses'[t] = s
        /\ \A id \in Endpoints \ {t} : /\ id \in DOMAIN statuses' <=> id \in DOMAIN statuses
                                       /\ id \in DOMAIN statuses => statuses'[id] = statuses[id]
    BY <1>1, <2>2, <2>3, StatusPut
  <2>9. Follows(t, RowOf(t))'
    BY <1>3, <2>3, <2>6, <2>7, <2>8 DEF Follows
  <2> QED
    BY <1>1, <1>4, <1>5, <2>2, <2>6, <2>7, <2>8, <2>9 DEF SameListener
<1>7. CASE ApplyListens(t, e)
  <2>1. PICK s : s = IF manager = "started" THEN "active" ELSE "starting"
    OBVIOUS
  <2>2. PICK b \in BOOLEAN : b = (manager = "started")
    OBVIOUS
  <2>3. PICK r : r = [port |-> e.port, caps |-> e.caps, started |-> b]
    OBVIOUS
  <2>4. /\ runtimes' = MapPut(runtimes, t, r)
        /\ statuses' = MapPut(statuses, t, s)
        /\ retiring' = retiring \cup {runtimes[i].port : i \in DOMAIN runtimes \cap {t}}
    BY <1>7, <2>1, <2>2, <2>3 DEF ApplyListens
  <2>5. s \in Statuses /\ s = IF manager = "boot" THEN "starting" ELSE "active"
    BY <1>1, <1>4, <2>1 DEF Statuses
  <2>6. r \in Runtime /\ r.port = e.port /\ r.caps = e.caps /\ r.started = b
    BY <1>2, <2>3 DEF Runtime, StoredEndpoint
  <2>7. /\ IsMap(runtimes', Endpoints, Runtime)
        /\ t \in DOMAIN runtimes' /\ runtimes'[t] = r
        /\ \A id \in Endpoints \ {t} : /\ id \in DOMAIN runtimes' <=> id \in DOMAIN runtimes
                                       /\ id \in DOMAIN runtimes => runtimes'[id] = runtimes[id]
    BY <1>1, <2>4, <2>6, ListenerPut
  <2>8. /\ IsMap(statuses', Endpoints, Statuses)
        /\ t \in DOMAIN statuses' /\ statuses'[t] = s
        /\ \A id \in Endpoints \ {t} : /\ id \in DOMAIN statuses' <=> id \in DOMAIN statuses
                                       /\ id \in DOMAIN statuses => statuses'[id] = statuses[id]
    BY <1>1, <2>4, <2>5, StatusPut
  <2>9. Follows(t, RowOf(t))'
    BY <1>3, <2>5, <2>6, <2>7, <2>8 DEF Follows
  <2>10. retiring' \subseteq Ports
    BY <1>1, <1>5, <2>4
  <2> QED
    BY <1>1, <1>4, <2>2, <2>6, <2>7, <2>8, <2>9, <2>10 DEF SameListener
<1> QED
  BY <1>6, <1>7

\* ApplyEndpoint, where it fails, takes nothing from the endpoint but, where it
\* has no listener, leaves an error.
LEMMA ApplyFailed ==
    ASSUME EndpointInv, NEW t \in Endpoints, NEW e, ApplyFails(t, e)
    PROVE  /\ IsMap(runtimes', Endpoints, Runtime) /\ IsMap(statuses', Endpoints, Statuses)
           /\ retiring' \subseteq Ports /\ dead' \subseteq Ports
           /\ \A id \in Endpoints \ {t} : SameListener(id)
           /\ UNCHANGED runtimes
           /\ manager # "stopping" /\ t \in DOMAIN runtimes => SameListener(t)
           /\ manager # "stopping" /\ t \notin DOMAIN runtimes => t \in DOMAIN statuses' /\ statuses'[t] = "error"
<1>1. IsMap(runtimes, Endpoints, Runtime) /\ IsMap(statuses, Endpoints, Statuses)
      /\ retiring \subseteq Ports /\ dead \subseteq Ports
  BY DEF EndpointInv, EndpointTypeOK, Runtime, Statuses
<1>2. UNCHANGED <<runtimes, retiring, dead>>
  BY DEF ApplyFails
<1>3. CASE UNCHANGED statuses /\ (manager # "stopping" => t \in DOMAIN runtimes)
  BY <1>1, <1>2, <1>3 DEF SameListener
<1>4. CASE statuses' = MapPut(statuses, t, "error") /\ t \notin DOMAIN runtimes
  <2>1. "error" \in Statuses
    BY DEF Statuses
  <2>2. /\ IsMap(statuses', Endpoints, Statuses)
        /\ t \in DOMAIN statuses' /\ statuses'[t] = "error"
        /\ \A id \in Endpoints \ {t} : /\ id \in DOMAIN statuses' <=> id \in DOMAIN statuses
                                       /\ id \in DOMAIN statuses => statuses'[id] = statuses[id]
    BY <1>1, <1>4, <2>1, StatusPut
  <2> QED
    BY <1>1, <1>2, <1>4, <2>2 DEF SameListener
<1> QED
  BY <1>3, <1>4 DEF ApplyFails

\* RemoveEndpoint leaves neither listener nor status.
LEMMA RemoveFacts ==
    ASSUME EndpointInv, NEW t \in Endpoints, RemoveEndpoint(t)
    PROVE  /\ IsMap(runtimes', Endpoints, Runtime) /\ IsMap(statuses', Endpoints, Statuses)
           /\ retiring' \subseteq Ports /\ dead' \subseteq Ports
           /\ \A id \in Endpoints \ {t} : SameListener(id)
           /\ t \notin DOMAIN runtimes' /\ t \notin DOMAIN statuses'
<1>1. IsMap(runtimes, Endpoints, Runtime) /\ IsMap(statuses, Endpoints, Statuses)
      /\ retiring \subseteq Ports /\ dead \subseteq Ports
  BY DEF EndpointInv, EndpointTypeOK, Runtime, Statuses
<1>2. /\ runtimes' = MapDelete(runtimes, t) /\ statuses' = MapDelete(statuses, t)
      /\ UNCHANGED <<retiring, dead>>
  BY DEF RemoveEndpoint
<1> QED
  BY <1>1, <1>2, ListenerGone, StatusGone DEF SameListener

\* What the service does to the listeners under its lock, and how it takes it back.
LEMMA AdminOpsKeep ==
    ASSUME EndpointInv, AdminApplies \/ AdminRemoves \/ AdminUndoes \/ UndoRow
    PROVE  EndpointInv'
<1>1. admin.op # "none"
  BY DEF AdminApplies, AdminRemoves, AdminUndoes, UndoRow
<1>2. PICK t \in Endpoints : t = admin.id
  BY <1>1 DEF EndpointInv, EndpointTypeOK
<1>3. UNCHANGED <<manager, restoring, endpointCrashes>>
  BY DEF AdminApplies, AdminRemoves, AdminUndoes, UndoRow
<1>4. /\ IsMap(endpointRows, Endpoints, Endpoint) /\ IsMap(endpointRows, Endpoints, StoredEndpoint)
      /\ IsMap(runtimes, Endpoints, Runtime) /\ IsMap(statuses, Endpoints, Statuses)
      /\ retiring \subseteq Ports /\ dead \subseteq Ports
      /\ manager # "stopping" => \A i \in DOMAIN runtimes : runtimes[i].started = (manager = "started")
      /\ manager # "boot" /\ restoring = {}
  BY <1>1 DEF EndpointInv, EndpointTypeOK, Runtime, Statuses, StartedInv, AdminShaped, RestoringInv
<1>5. ASSUME UNCHANGED endpointRows PROVE \A id \in Endpoints : SameRow(id)
  BY <1>5 DEF SameRow
<1>6. ASSUME manager # "stopping", t \notin rollbackFailed
      PROVE  /\ admin.op \in {"apply", "undoRow"} => Follows(t, admin.before)
             /\ admin.op = "undo" =>
                  IF Enabled(admin.before) THEN Follows(t, admin.before) ELSE t \notin DOMAIN runtimes
  BY <1>2, <1>6 DEF EndpointInv, FollowsInv
<1>7. PICK before : before = admin.before
  OBVIOUS
<1>8. \A op \in {"undo", "undoRow"} : [admin EXCEPT !.op = op] # NoAdmin /\ [admin EXCEPT !.op = op].before = before
  BY <1>1, <1>7 DEF NoAdmin, EndpointInv, AdminShaped
<1>9. CASE AdminApplies
  <2>1. /\ admin.op = "apply" /\ t \in DOMAIN endpointRows /\ endpointRows[t].enabled
        /\ UNCHANGED <<endpointRows, rollbackFailed>>
    BY <1>2, <1>9 DEF AdminApplies, EndpointInv, AdminShaped
  <2>2. PICK e : e = endpointRows[t]
    OBVIOUS
  <2>3. CASE (ApplyInPlace(t, e) \/ ApplyListens(t, e)) /\ admin' = NoAdmin
    <3>1. /\ IsMap(runtimes', Endpoints, Runtime) /\ IsMap(statuses', Endpoints, Statuses)
          /\ retiring' \subseteq Ports /\ dead' \subseteq Ports
          /\ \A id \in Endpoints \ {t} : SameListener(id)
          /\ manager # "stopping" /\ t \in DOMAIN runtimes' /\ runtimes'[t].started = (manager = "started")
          /\ Follows(t, RowOf(t))'
      BY <1>3, <2>1, <2>2, <2>3, ApplySucceeds
    <3> QED
      BY <1>1, <1>2, <1>3, <1>4, <1>5, <2>1, <2>3, <3>1, AdminStep
  <2>4. CASE ApplyFails(t, e) /\ admin' = [admin EXCEPT !.op = "undo"]
    <3>1. /\ IsMap(runtimes', Endpoints, Runtime) /\ IsMap(statuses', Endpoints, Statuses)
          /\ retiring' \subseteq Ports /\ dead' \subseteq Ports
          /\ \A id \in Endpoints \ {t} : SameListener(id)
          /\ UNCHANGED runtimes
          /\ manager # "stopping" /\ t \in DOMAIN runtimes => SameListener(t)
          /\ manager # "stopping" /\ t \notin DOMAIN runtimes => t \in DOMAIN statuses' /\ statuses'[t] = "error"
      BY <2>4, ApplyFailed
    <3>2. ASSUME manager # "stopping", t \notin rollbackFailed
          PROVE  /\ Enabled(before) => Follows(t, before)'
                 /\ ~Enabled(before) => t \notin DOMAIN runtimes'
      <4>1. Follows(t, before)
        BY <1>6, <1>7, <2>1, <3>2
      <4>2. Enabled(before) => Follows(t, before)'
        BY <1>3, <3>1, <3>2, <4>1, FollowsKept DEF Follows
      <4> QED
        BY <3>1, <4>1, <4>2 DEF Follows
    <3>3. admin' # NoAdmin /\ admin'.before = before
      BY <1>8, <2>4
    <3>4. ASSUME manager # "stopping", t \notin rollbackFailed'
          PROVE  /\ Enabled(admin.before) => Follows(t, admin.before)'
                 /\ ~Enabled(admin.before) => t \notin DOMAIN runtimes'
      BY <1>7, <2>1, <3>2, <3>3, <3>4 DEF Follows
    <3> QED
      BY <1>1, <1>2, <1>3, <1>4, <1>5, <2>1, <2>4, <3>1, <3>3, <3>4, AdminStep
  <2> QED
    BY <1>2, <1>9, <2>2, <2>3, <2>4 DEF AdminApplies
<1>10. CASE AdminRemoves
  <2>1. /\ admin.op = "remove" /\ RemoveEndpoint(t) /\ admin' = NoAdmin
        /\ UNCHANGED <<endpointRows, rollbackFailed>>
    BY <1>2, <1>10 DEF AdminRemoves
  <2>2. /\ IsMap(runtimes', Endpoints, Runtime) /\ IsMap(statuses', Endpoints, Statuses)
        /\ retiring' \subseteq Ports /\ dead' \subseteq Ports
        /\ \A id \in Endpoints \ {t} : SameListener(id)
        /\ t \notin DOMAIN runtimes' /\ t \notin DOMAIN statuses'
    BY <2>1, RemoveFacts
  <2>3. ~Enabled(RowOf(t))
    BY <1>2, <2>1 DEF EndpointInv, AdminShaped
  <2>4. Follows(t, RowOf(t))'
    BY <2>1, <2>2, <2>3 DEF Follows, Enabled, RowOf
  <2> QED
    BY <1>1, <1>2, <1>3, <1>4, <1>5, <2>1, <2>2, <2>4, AdminStep
<1>11. CASE AdminUndoes
  <2>1. /\ admin.op = "undo" /\ admin' = [admin EXCEPT !.op = "undoRow"]
        /\ UNCHANGED <<endpointRows, rollbackFailed>>
        /\ IF Enabled(before) THEN UNCHANGED <<runtimes, statuses, retiring, dead>> ELSE RemoveEndpoint(t)
    BY <1>2, <1>7, <1>11 DEF AdminUndoes, listeners, Enabled
  <2>2. /\ IsMap(runtimes', Endpoints, Runtime) /\ IsMap(statuses', Endpoints, Statuses)
        /\ retiring' \subseteq Ports /\ dead' \subseteq Ports
        /\ \A id \in Endpoints \ {t} : SameListener(id)
        /\ IF Enabled(before) THEN UNCHANGED runtimes /\ SameListener(t)
           ELSE t \notin DOMAIN runtimes' /\ t \notin DOMAIN statuses'
    <3>1. CASE Enabled(before)
      BY <1>4, <2>1, <3>1 DEF SameListener
    <3>2. CASE ~Enabled(before)
      BY <2>1, <3>2, RemoveFacts
    <3> QED
      BY <3>1, <3>2
  <2>3. ASSUME manager # "stopping", t \notin rollbackFailed
        PROVE  Follows(t, before)'
    <3>1. CASE Enabled(before)
      BY <1>3, <1>6, <1>7, <2>1, <2>2, <2>3, <3>1, FollowsKept
    <3>2. CASE ~Enabled(before)
      BY <2>2, <3>2 DEF Follows
    <3> QED
      BY <3>1, <3>2
  <2>4. admin' # NoAdmin /\ admin'.before = before
    BY <1>8, <2>1
  <2>5. ASSUME manager # "stopping", t \notin rollbackFailed'
        PROVE  Follows(t, admin.before)'
    BY <2>1, <2>3, <2>4, <2>5 DEF Follows
  <2>6. manager # "stopping" /\ t \in DOMAIN runtimes' => runtimes'[t].started = (manager = "started")
    BY <1>4, <2>2
  <2> QED
    BY <1>1, <1>2, <1>3, <1>4, <1>5, <2>1, <2>2, <2>4, <2>5, <2>6, AdminStep
<1>12. CASE UndoRow
  <2>1. /\ admin.op = "undoRow" /\ admin' = NoAdmin
        /\ UNCHANGED <<runtimes, statuses, retiring, dead>>
    BY <1>12 DEF UndoRow, listeners
  <2>2. \A id \in Endpoints : SameListener(id)
    BY <2>1 DEF SameListener
  <2>3. before \subseteq StoredEndpoint /\ \A e, f \in before : e = f
    BY <1>1, <1>7 DEF EndpointInv, AdminShaped
  <2>4. CASE UNCHANGED endpointRows /\ rollbackFailed' = rollbackFailed \cup {t}
    BY <1>1, <1>2, <1>3, <1>4, <1>5, <2>1, <2>2, <2>4, AdminStep
  <2>5. ASSUME UNCHANGED rollbackFailed, RowOf(t)' = before
        PROVE  manager # "stopping" /\ t \notin rollbackFailed' => Follows(t, RowOf(t))'
    BY <1>3, <1>6, <1>7, <2>1, <2>2, <2>5, FollowsKept DEF Follows
  <2>6. CASE before = {} /\ endpointRows' = MapDelete(endpointRows, t) /\ UNCHANGED rollbackFailed
    <3>1. /\ IsMap(endpointRows', Endpoints, Endpoint) /\ IsMap(endpointRows', Endpoints, StoredEndpoint)
          /\ \A i \in Endpoints \ {t} : SameRow(i)
          /\ RowOf(t)' = {}
      BY <2>6, RowDeleted
    <3> QED
      BY <1>1, <1>2, <1>3, <1>4, <2>1, <2>2, <2>5, <2>6, <3>1, AdminStep
  <2>7. ASSUME NEW e \in before, endpointRows' = MapPut(endpointRows, t, e), UNCHANGED rollbackFailed
        PROVE  EndpointInv'
    <3>1. /\ IsMap(endpointRows', Endpoints, Endpoint) /\ IsMap(endpointRows', Endpoints, StoredEndpoint)
          /\ \A i \in Endpoints \ {t} : SameRow(i)
          /\ RowOf(t)' = {e}
      BY <2>3, <2>7, RowPut
    <3>2. RowOf(t)' = before
      BY <2>3, <2>7, <3>1
    <3> QED
      BY <1>1, <1>2, <1>3, <1>4, <2>1, <2>2, <2>5, <2>7, <3>1, <3>2, AdminStep
  <2> QED
    BY <1>2, <1>7, <1>12, <2>4, <2>6, <2>7 DEF UndoRow
<1> QED
  BY <1>9, <1>10, <1>11, <1>12

\* handleRuntimeError leaves an error where there was a listener, whatever
\* operation is under way.
LEMMA ServeFailsKeeps ==
    ASSUME EndpointInv, NEW t \in Endpoints, ServeFails(t)
    PROVE  EndpointInv'
<1>1. /\ t \in DOMAIN runtimes
      /\ runtimes' = MapDelete(runtimes, t)
      /\ statuses' = MapPut(statuses, t, "error")
      /\ dead' = dead \cup {runtimes[t].port}
      /\ UNCHANGED <<endpointRows, retiring, admin, manager, restoring, rollbackFailed, endpointCrashes>>
  BY DEF ServeFails
<1>2. IsMap(runtimes, Endpoints, Runtime) /\ IsMap(statuses, Endpoints, Statuses)
      /\ retiring \subseteq Ports /\ dead \subseteq Ports
  BY DEF EndpointInv, EndpointTypeOK, Runtime, Statuses
<1>3. /\ IsMap(runtimes', Endpoints, Runtime)
      /\ t \notin DOMAIN runtimes'
      /\ \A id \in Endpoints \ {t} : /\ id \in DOMAIN runtimes' <=> id \in DOMAIN runtimes
                                     /\ id \in DOMAIN runtimes => runtimes'[id] = runtimes[id]
  BY <1>1, <1>2, ListenerGone
<1>4. /\ IsMap(statuses', Endpoints, Statuses)
      /\ t \in DOMAIN statuses' /\ statuses'[t] = "error"
      /\ \A id \in Endpoints \ {t} : /\ id \in DOMAIN statuses' <=> id \in DOMAIN statuses
                                     /\ id \in DOMAIN statuses => statuses'[id] = statuses[id]
  BY <1>1, <1>2, StatusPut DEF Statuses
<1>5. \A id \in Endpoints \ {t} : SameListener(id)
  BY <1>3, <1>4 DEF SameListener
<1>6. dead' \subseteq Ports
  BY <1>1, <1>2 DEF IsMap, Runtime
<1>7. EndpointTypeOK'
  BY <1>1, <1>3, <1>4, <1>6 DEF EndpointInv, EndpointTypeOK, Runtime, Statuses
<1>8. AdminShaped' /\ RestoringInv'
  BY <1>1 DEF EndpointInv, AdminShaped, RestoringInv, Enabled, RowOf
<1>9. StartedInv'
  BY <1>1, <1>3, <1>2 DEF EndpointInv, StartedInv, IsMap
<1>10. ASSUME manager # "stopping", NEW id \in Endpoints \ rollbackFailed
       PROVE  FollowsInv(id)'
  <2>1. FollowsInv(id)
    BY <1>10 DEF EndpointInv
  <2>2. CASE id = t
    <3>1. ASSUME NEW rows, Follows(t, rows) PROVE Follows(t, rows)'
      BY <1>1, <1>3, <1>4, <3>1 DEF Follows
    <3>2. t \notin restoring
      BY <1>1, <2>1, <2>2 DEF FollowsInv
    <3>3. PICK rows, before : rows = RowOf(t) /\ before = admin.before
      OBVIOUS
    <3>4. /\ admin.op = "none" \/ admin.id # t => Follows(t, rows)
          /\ admin.op \in {"apply", "undoRow"} /\ admin.id = t => Follows(t, before)
          /\ admin.op = "undo" /\ admin.id = t => Enabled(before) /\ Follows(t, before)
      BY <1>1, <2>1, <2>2, <3>2, <3>3 DEF FollowsInv
    <3>5. /\ admin.op = "none" \/ admin.id # t => Follows(t, rows)'
          /\ admin.op \in {"apply", "undoRow"} /\ admin.id = t => Follows(t, before)'
          /\ admin.op = "undo" /\ admin.id = t => Follows(t, before)'
      BY <3>1, <3>4
    <3>6. RowOf(t)' = rows /\ admin'.before = before
      BY <1>1, <3>3 DEF RowOf
    <3>7. /\ Follows(t, rows)' => Follows(t, RowOf(t))'
          /\ Follows(t, before)' => Follows(t, admin.before)'
      BY <3>6 DEF Follows
    <3>8. Enabled(before) => Enabled(admin.before)'
      BY <3>6 DEF Enabled
    <3> QED
      BY <1>1, <2>2, <3>2, <3>4, <3>5, <3>7, <3>8 DEF FollowsInv
  <2>3. CASE id # t
    <3>1. SameListener(id)
      BY <1>5, <2>3
    <3> QED
      BY <1>1, <2>1, <3>1 DEF FollowsInv, Follows, SameListener, Enabled, RowOf
  <2> QED
    BY <2>2, <2>3
<1> QED
  BY <1>1, <1>7, <1>8, <1>9, <1>10 DEF EndpointInv

\* The boot applies a row.
LEMMA RestoreKeeps ==
    ASSUME EndpointInv, NEW t \in Endpoints, RestoreEndpoint(t)
    PROVE  EndpointInv'
<1>1. /\ manager = "boot" /\ t \in restoring /\ restoring' = restoring \ {t}
      /\ UNCHANGED <<endpointRows, admin, manager, rollbackFailed, endpointCrashes>>
  BY DEF RestoreEndpoint
<1>2. PICK e : e = endpointRows[t]
  OBVIOUS
<1>3. ApplyListens(t, e) \/ ApplyFails(t, e)
  BY <1>2 DEF RestoreEndpoint
<1>4. /\ t \in DOMAIN endpointRows /\ endpointRows[t].enabled
      /\ admin.op = "none"
  BY <1>1 DEF EndpointInv, RestoringInv, AdminShaped
<1>5. manager # "stopping" /\ t \notin rollbackFailed => t \notin DOMAIN runtimes
  BY <1>1 DEF EndpointInv, FollowsInv
<1>6. /\ IsMap(runtimes', Endpoints, Runtime) /\ IsMap(statuses', Endpoints, Statuses)
      /\ retiring' \subseteq Ports /\ dead' \subseteq Ports
      /\ \A id \in Endpoints \ {t} : SameListener(id)
      /\ t \notin rollbackFailed => Follows(t, RowOf(t))'
      /\ t \in DOMAIN runtimes' => (runtimes'[t].started = (manager = "started"))
  <2>1. CASE ApplyListens(t, e)
    BY <1>1, <1>2, <1>4, <2>1, ApplySucceeds
  <2>2. CASE ApplyFails(t, e)
    <3>1. /\ IsMap(runtimes', Endpoints, Runtime) /\ IsMap(statuses', Endpoints, Statuses)
          /\ retiring' \subseteq Ports /\ dead' \subseteq Ports
          /\ \A id \in Endpoints \ {t} : SameListener(id)
          /\ UNCHANGED runtimes
          /\ t \notin DOMAIN runtimes => t \in DOMAIN statuses' /\ statuses'[t] = "error"
      BY <1>1, <2>2, ApplyFailed
    <3>2. Enabled(RowOf(t))'
      BY <1>1, <1>4 DEF Enabled, RowOf
    <3>3. t \notin rollbackFailed => Follows(t, RowOf(t))'
      BY <1>1, <1>5, <3>1, <3>2 DEF Follows
    <3>4. t \in DOMAIN runtimes' => (runtimes'[t].started = (manager = "started"))
      BY <1>1, <3>1 DEF EndpointInv, StartedInv
    <3> QED
      BY <3>1, <3>3, <3>4
  <2> QED
    BY <1>3, <2>1, <2>2
<1>7. EndpointTypeOK'
  BY <1>1, <1>6 DEF EndpointInv, EndpointTypeOK, Runtime, Statuses
<1>8. AdminShaped' /\ RestoringInv'
  BY <1>1, <1>4 DEF EndpointInv, AdminShaped, RestoringInv
<1>9. StartedInv'
  BY <1>1, <1>6 DEF EndpointInv, StartedInv, IsMap, SameListener
<1>10. ASSUME NEW id \in Endpoints \ rollbackFailed PROVE FollowsInv(id)'
  <2>1. FollowsInv(id)
    BY <1>1, <1>10 DEF EndpointInv
  <2>2. CASE id = t
    BY <1>1, <1>4, <1>6, <2>2, <1>10 DEF FollowsInv
  <2>3. CASE id # t
    <3>1. SameListener(id) /\ SameRow(id)
      BY <1>1, <1>6, <2>3 DEF SameRow
    <3> QED
      BY <1>1, <1>4, <2>1, <2>3, <3>1, OthersKept
  <2> QED
    BY <2>2, <2>3
<1> QED
  BY <1>1, <1>7, <1>8, <1>9, <1>10 DEF EndpointInv

\* Start: what waited is started.
LEMMA StartKeeps ==
    ASSUME EndpointInv, StartEndpoints
    PROVE  EndpointInv'
<1>1. /\ manager = "boot" /\ restoring = {} /\ manager' = "started"
      /\ UNCHANGED <<endpointRows, retiring, dead, admin, restoring, rollbackFailed, endpointCrashes>>
  BY DEF StartEndpoints
<1>2. /\ DOMAIN runtimes' = DOMAIN runtimes
      /\ \A i \in DOMAIN runtimes : runtimes'[i] = [runtimes[i] EXCEPT !.started = TRUE]
      /\ runtimes' \in [DOMAIN runtimes' -> {runtimes'[i] : i \in DOMAIN runtimes'}]
  BY DEF StartEndpoints
<1>3. /\ DOMAIN statuses' = DOMAIN statuses
      /\ \A i \in DOMAIN statuses : statuses'[i] = IF i \in DOMAIN runtimes THEN "active" ELSE statuses[i]
      /\ statuses' \in [DOMAIN statuses' -> {statuses'[i] : i \in DOMAIN statuses'}]
  BY DEF StartEndpoints
<1>4. IsMap(runtimes, Endpoints, Runtime) /\ IsMap(statuses, Endpoints, Statuses)
  BY DEF EndpointInv, EndpointTypeOK, Runtime, Statuses
<1>5. ASSUME NEW i \in DOMAIN runtimes
      PROVE  /\ runtimes'[i] \in Runtime /\ runtimes'[i].started = TRUE
             /\ runtimes'[i].port = runtimes[i].port /\ runtimes'[i].caps = runtimes[i].caps
  <2>1. PICK r : r = runtimes[i]
    OBVIOUS
  <2>2. r \in Runtime
    BY <1>4, <2>1 DEF IsMap
  <2>3. runtimes'[i] = [r EXCEPT !.started = TRUE]
    BY <1>2, <2>1
  <2> QED
    BY <2>1, <2>2, <2>3 DEF Runtime
<1>6. IsMap(runtimes', Endpoints, Runtime)
  BY <1>2, <1>4, <1>5 DEF IsMap
<1>7. IsMap(statuses', Endpoints, Statuses)
  BY <1>3, <1>4 DEF IsMap, Statuses
<1>8. admin.op = "none"
  BY <1>1 DEF EndpointInv, AdminShaped
<1>9. EndpointTypeOK'
  BY <1>1, <1>6, <1>7 DEF EndpointInv, EndpointTypeOK, Runtime, Statuses
<1>10. AdminShaped' /\ RestoringInv'
  BY <1>1, <1>8 DEF EndpointInv, AdminShaped, RestoringInv
<1>11. StartedInv'
  BY <1>1, <1>2, <1>5 DEF StartedInv
<1>12. ASSUME NEW id \in Endpoints \ rollbackFailed PROVE FollowsInv(id)'
  <2>1. PICK rows : rows = RowOf(id)
    OBVIOUS
  <2>2. Follows(id, rows)
    BY <1>1, <1>8, <1>12, <2>1 DEF EndpointInv, FollowsInv
  <2>3. Follows(id, rows)'
    BY <1>1, <1>2, <1>3, <1>5, <2>2 DEF Follows
  <2>4. RowOf(id)' = rows
    BY <1>1, <2>1 DEF RowOf
  <2>5. Follows(id, RowOf(id))'
    BY <2>3, <2>4 DEF Follows
  <2> QED
    BY <1>1, <1>8, <2>5 DEF FollowsInv
<1> QED
  BY <1>1, <1>9, <1>10, <1>11, <1>12 DEF EndpointInv

\* Closing listeners, the shutdown, and the crash.
LEMMA OtherEndpointStepsKeep ==
    ASSUME EndpointInv, (\E port \in Ports : ListenerCloses(port)) \/ ShutdownEndpoints \/ EndpointCrash
    PROVE  EndpointInv'
<1>1. CASE \E port \in Ports : ListenerCloses(port)
  <2>1. /\ UNCHANGED <<endpointRows, runtimes, statuses, admin, manager, restoring, rollbackFailed, endpointCrashes>>
        /\ retiring' \subseteq retiring /\ dead' \subseteq dead
    BY <1>1 DEF ListenerCloses
  <2>2. EndpointTypeOK' /\ IsMap(endpointRows', Endpoints, StoredEndpoint)
    BY <2>1 DEF EndpointInv, EndpointTypeOK
  <2> QED
    BY <2>1, <2>2 DEF EndpointInv, AdminShaped, StartedInv, RestoringInv, FollowsInv, Follows, RowOf, Enabled
<1>2. CASE ShutdownEndpoints
  <2>1. /\ manager = "started" /\ manager' = "stopping"
        /\ retiring' = retiring \cup {runtimes[i].port : i \in DOMAIN runtimes}
        /\ runtimes' = EmptyMap
        /\ UNCHANGED <<endpointRows, statuses, dead, admin, restoring, rollbackFailed, endpointCrashes>>
    BY <1>2 DEF ShutdownEndpoints
  <2>2. retiring' \subseteq Ports
    BY <2>1 DEF EndpointInv, EndpointTypeOK, IsMap
  <2>3. EndpointTypeOK'
    BY <2>1, <2>2, EmptyMapType DEF EndpointInv, EndpointTypeOK
  <2> QED
    BY <2>1, <2>3 DEF EndpointInv, AdminShaped, StartedInv, RestoringInv, RowOf, Enabled
<1>3. CASE EndpointCrash
  <2>1. /\ endpointCrashes < MaxCrashes /\ endpointCrashes' = endpointCrashes + 1
        /\ runtimes' = EmptyMap /\ statuses' = EmptyMap /\ retiring' = {} /\ dead' = {}
        /\ admin' = NoAdmin /\ manager' = "boot" /\ rollbackFailed' = {}
        /\ restoring' = {i \in DOMAIN endpointRows : endpointRows[i].enabled}
        /\ UNCHANGED endpointRows
    BY <1>3 DEF EndpointCrash
  <2>2. admin'.op = "none"
    BY <2>1 DEF NoAdmin
  <2>3. endpointCrashes' \in 0..MaxCrashes
    BY <2>1, EndpointAssumption DEF EndpointInv, EndpointTypeOK
  <2>4. restoring' \subseteq Endpoints
    BY <2>1 DEF EndpointInv, IsMap
  <2>5. EndpointTypeOK'
    BY <2>1, <2>2, <2>3, <2>4, EmptyMapType DEF EndpointInv, EndpointTypeOK
  <2>6. DOMAIN runtimes' = {} /\ DOMAIN statuses' = {}
    BY <2>1, EmptyMapType
  <2>7. AdminShaped' /\ StartedInv' /\ RestoringInv'
    BY <2>1, <2>2, <2>6 DEF AdminShaped, StartedInv, RestoringInv
  <2>8. ASSUME NEW id \in Endpoints PROVE FollowsInv(id)'
    <3>1. id \notin restoring' => ~Enabled(RowOf(id))'
      BY <2>1 DEF Enabled, RowOf
    <3> QED
      BY <2>2, <2>6, <3>1 DEF FollowsInv, Follows
  <2> QED
    BY <2>1, <2>5, <2>7, <2>8 DEF EndpointInv
<1> QED
  BY <1>1, <1>2, <1>3

\* Between operations every listener serves what its row says, and only enabled
\* rows have one, through failed binds and their rollback, dying listeners,
\* shutdown and crashes at any point (UpdateEndpoint, ApplyEndpoint,
\* handleRuntimeError, restorePersistedEndpoints).
THEOREM EndpointsCorrect == EndpointSpec => []ListenerFollowsRow
<1>1. EndpointInit => EndpointInv
  <2>1. SUFFICES ASSUME EndpointInit PROVE EndpointInv
    OBVIOUS
  <2>2. /\ endpointRows = EmptyMap /\ runtimes = EmptyMap /\ statuses = EmptyMap
        /\ retiring = {} /\ dead = {} /\ admin = NoAdmin /\ manager = "boot"
        /\ restoring = {} /\ rollbackFailed = {} /\ endpointCrashes = 0
    BY <2>1 DEF EndpointInit
  <2>3. admin.op = "none"
    BY <2>2 DEF NoAdmin
  <2>4. DOMAIN endpointRows = {} /\ DOMAIN runtimes = {} /\ DOMAIN statuses = {}
    BY <2>2, EmptyMapType
  <2>5. endpointCrashes \in 0..MaxCrashes
    BY <2>2, EndpointAssumption
  <2>6. EndpointTypeOK /\ IsMap(endpointRows, Endpoints, StoredEndpoint)
    BY <2>2, <2>3, <2>5, EmptyMapType DEF EndpointTypeOK
  <2>7. AdminShaped /\ StartedInv /\ RestoringInv
    BY <2>2, <2>3, <2>4 DEF AdminShaped, StartedInv, RestoringInv
  <2>8. ASSUME NEW id \in Endpoints PROVE FollowsInv(id)
    <3>1. ~Enabled(RowOf(id))
      BY <2>4 DEF Enabled, RowOf
    <3> QED
      BY <2>2, <2>3, <2>4, <3>1 DEF FollowsInv, Follows
  <2> QED
    BY <2>6, <2>7, <2>8 DEF EndpointInv
<1>2. EndpointInv /\ [EndpointNext]_endpointVars => EndpointInv'
  <2>1. SUFFICES ASSUME EndpointInv, [EndpointNext]_endpointVars PROVE EndpointInv'
    OBVIOUS
  <2>2. CASE UNCHANGED endpointVars
    BY <2>1, <2>2 DEF endpointVars, EndpointInv, EndpointTypeOK, AdminShaped, StartedInv,
       RestoringInv, FollowsInv, Follows, RowOf, Enabled
  <2> QED
    BY <2>1, <2>2, RowOpsKeep, AdminOpsKeep, ServeFailsKeeps, RestoreKeeps, StartKeeps,
       OtherEndpointStepsKeep DEF EndpointNext
<1>3. EndpointInv => ListenerFollowsRow
  <2>1. SUFFICES ASSUME EndpointInv, admin = NoAdmin, manager = "started",
                        NEW id \in Endpoints \ rollbackFailed
                 PROVE  IF id \in DOMAIN endpointRows /\ endpointRows[id].enabled
                        THEN \/ /\ id \in DOMAIN runtimes
                                /\ Served(runtimes[id]) = Served(endpointRows[id])
                                /\ statuses[id] = "active"
                             \/ id \notin DOMAIN runtimes /\ id \in DOMAIN statuses /\ statuses[id] = "error"
                        ELSE id \notin DOMAIN runtimes /\ id \notin DOMAIN statuses
    BY DEF ListenerFollowsRow
  <2>2. admin.op = "none" /\ restoring = {}
    BY <2>1 DEF NoAdmin, EndpointInv, RestoringInv
  <2>3. Follows(id, RowOf(id))
    BY <2>1, <2>2 DEF EndpointInv, FollowsInv
  <2>4. Enabled(RowOf(id)) <=> id \in DOMAIN endpointRows /\ endpointRows[id].enabled
    BY DEF Enabled, RowOf
  <2>5. id \in DOMAIN endpointRows => endpointRows[id] \in RowOf(id)
    BY DEF RowOf
  <2> QED
    BY <2>1, <2>3, <2>4, <2>5 DEF Follows, Served
<1> QED
  BY <1>1, <1>2, <1>3, PTL DEF EndpointSpec

-----------------------------------------------------------------------------
(* Runtime configuration *)

\* The tested domain is one of the authorities.
DomainListed(c) == c.domain \in c.authorities

\* A patch holds configMu from before its read to after its swap.
ConfigMutex ==
    /\ DOMAIN settingOps = SettingHandlers
    /\ \A h \in SettingHandlers : settingOps[h].at \in {"patch", "save", "store"} => configMu = {h}

\* What a patch is about to save, or has saved.
PatchInv ==
    \A h \in SettingHandlers :
      /\ settingOps[h].at = "save" =>
           /\ settingOps[h] = [at |-> "save", patch |-> settingOps[h].patch,
                               config |-> settingOps[h].config, version |-> settingOps[h].version]
           /\ settingOps[h].config = Completed(WithFields(patched, settingOps[h].patch))
      /\ settingOps[h].at = "store" =>
           configRow = [version |-> settingOps[h].version, config |-> settingOps[h].config]

\* The row is what the saved patches made; memory and row are apart only between
\* the save and the swap.
ConfigInv ==
    /\ configRow.config = patched
    /\ DomainListed(configRow.config) /\ DomainListed(runtimeCfg)
    /\ (\A h \in SettingHandlers : settingOps[h].at # "store") =>
         runtimeCfg = configRow.config /\ configVersion \in {0, configRow.version}

SettingsInv == ConfigMutex /\ PatchInv /\ ConfigInv

\* A handler moves on in its own operation and in no other.
LEMMA SettingWritten ==
    ASSUME SettingsInv, NEW h \in SettingHandlers, NEW step, Does(h, step)
    PROVE  /\ DOMAIN settingOps' = SettingHandlers
           /\ settingOps'[h] = step
           /\ \A g \in SettingHandlers \ {h} : settingOps'[g] = settingOps[g]
BY DEF SettingsInv, ConfigMutex, Does

\* A step of a handler that neither saves nor swaps the configuration.
LEMMA RuleStepKeeps ==
    ASSUME SettingsInv, NEW h \in SettingHandlers, NEW step, Does(h, step),
           settingOps[h].at \notin {"patch", "save", "store"},
           step.at \notin {"save", "store"}, UNCHANGED <<configRow, runtimeCfg, configVersion, patched>>,
           \/ step.at # "patch" /\ UNCHANGED configMu
           \/ step.at = "patch" /\ configMu = {} /\ configMu' = {h}
    PROVE  SettingsInv'
<1>1. /\ DOMAIN settingOps' = SettingHandlers
      /\ settingOps'[h] = step
      /\ \A g \in SettingHandlers \ {h} : settingOps'[g] = settingOps[g]
  BY SettingWritten
<1>2. ConfigMutex'
  BY <1>1 DEF SettingsInv, ConfigMutex
<1>3. PatchInv'
  BY <1>1 DEF SettingsInv, PatchInv, DomainListed
<1>4. ConfigInv'
  BY <1>1 DEF SettingsInv, ConfigInv, DomainListed
<1> QED
  BY <1>2, <1>3, <1>4 DEF SettingsInv

\* A patched configuration that was completed lists its domain.
LEMMA CompletedLists ==
    ASSUME NEW c, NEW patch
    PROVE  DomainListed(Completed(WithFields(c, patch)))
<1>1. PICK d, a : WithFields(c, patch) = [domain |-> d, authorities |-> a]
  BY DEF WithFields
<1> QED BY <1>1 DEF Completed, DomainListed

\* PatchRuntimeConfig: patch a copy, or refuse it, save, swap.
LEMMA ConfigStepKeeps ==
    ASSUME SettingsInv, NEW h \in SettingHandlers,
           \/ RefusePatch(h) \/ SaveConfig(h) \/ StoreConfig(h)
           \/ \E patch \in ConfigPatch : PatchConfig(h, patch)
    PROVE  SettingsInv'
<1>1. settingOps[h].at \in {"patch", "save", "store"}
  BY DEF RefusePatch, SaveConfig, StoreConfig, PatchConfig
<1>2. configMu = {h} /\ \A g \in SettingHandlers \ {h} : settingOps[g].at \notin {"patch", "save", "store"}
  BY <1>1 DEF SettingsInv, ConfigMutex
<1>3. ASSUME NEW step, Does(h, step), step.at \notin {"patch", "save", "store"} \/ configMu' = {h},
             step.at = "save" =>
               /\ step = [at |-> "save", patch |-> step.patch, config |-> step.config,
                          version |-> step.version]
               /\ step.config = Completed(WithFields(patched', step.patch)),
             configRow'.config = patched',
             step.at = "store" => configRow' = [version |-> step.version, config |-> step.config],
             DomainListed(configRow'.config), DomainListed(runtimeCfg'),
             step.at # "store" => runtimeCfg' = configRow'.config /\ configVersion' \in {0, configRow'.version}
      PROVE  SettingsInv'
  <2>1. /\ DOMAIN settingOps' = SettingHandlers
        /\ settingOps'[h] = step
        /\ \A g \in SettingHandlers \ {h} : settingOps'[g] = settingOps[g]
    BY <1>3, SettingWritten
  <2>2. ConfigMutex'
    BY <1>2, <1>3, <2>1 DEF ConfigMutex
  <2>3. PatchInv'
    BY <1>2, <1>3, <2>1 DEF PatchInv
  <2>4. ConfigInv'
    BY <1>2, <1>3, <2>1 DEF ConfigInv, DomainListed
  <2> QED
    BY <2>2, <2>3, <2>4 DEF SettingsInv
<1>4. DomainListed(configRow.config) /\ DomainListed(runtimeCfg) /\ configRow.config = patched
  BY DEF SettingsInv, ConfigInv
<1>5. settingOps[h].at # "store" => runtimeCfg = configRow.config /\ configVersion \in {0, configRow.version}
  BY <1>2 DEF SettingsInv, ConfigInv
<1>6. ASSUME NEW patch \in ConfigPatch, PatchConfig(h, patch) PROVE SettingsInv'
  <2>1. PICK config : config = Completed(WithFields(runtimeCfg, patch))
    OBVIOUS
  <2>2. PICK step : step = [at |-> "save", patch |-> patch, config |-> config,
                            version |-> configVersion' + 1]
    OBVIOUS
  <2>3. /\ settingOps[h].at = "patch" /\ Does(h, step)
        /\ configVersion' = IF configVersion = 0 THEN configRow.version ELSE configVersion
        /\ UNCHANGED <<configRow, runtimeCfg, configMu, patched>>
    BY <1>6, <2>1, <2>2 DEF PatchConfig
  <2>4. /\ step.at = "save" /\ step.patch = patch /\ step.config = config
        /\ step = [at |-> "save", patch |-> step.patch, config |-> step.config,
                   version |-> step.version]
    BY <2>2
  <2>5. runtimeCfg = patched'
    BY <1>4, <1>5, <2>3
  <2>6. step.config = Completed(WithFields(patched', step.patch))
    BY <2>1, <2>4, <2>5
  <2> QED
    BY <1>2, <1>3, <1>4, <1>5, <2>3, <2>4, <2>6
<1>9. CASE RefusePatch(h)
  <2>1. PICK step : step = IdleOp
    OBVIOUS
  <2>2. /\ settingOps[h].at = "patch" /\ step.at = "idle" /\ Does(h, step)
        /\ UNCHANGED <<configRow, runtimeCfg, configVersion, patched>>
    BY <1>9, <2>1 DEF RefusePatch, configVars, IdleOp
  <2> QED
    BY <1>3, <1>4, <1>5, <2>2
<1>7. CASE SaveConfig(h)
  <2>1. settingOps[h].at = "save" /\ UNCHANGED <<runtimeCfg, configVersion>>
    BY <1>7 DEF SaveConfig
  <2>2. PICK op : op = settingOps[h]
    OBVIOUS
  <2>3. /\ op = [at |-> "save", patch |-> op.patch, config |-> op.config, version |-> op.version]
        /\ op.config = Completed(WithFields(patched, op.patch))
    BY <2>1, <2>2 DEF SettingsInv, PatchInv
  <2>4. CASE /\ configRow' = [version |-> op.version, config |-> op.config]
             /\ patched' = Completed(WithFields(patched, op.patch))
             /\ Does(h, [op EXCEPT !.at = "store"]) /\ UNCHANGED configMu
    <3>1. PICK step : step = [op EXCEPT !.at = "store"]
      OBVIOUS
    <3>2. step.at = "store" /\ step.config = op.config /\ step.version = op.version
      BY <2>3, <3>1
    <3>3. Does(h, step)
      BY <2>4, <3>1
    <3>4. DomainListed(op.config)
      BY <2>3, CompletedLists
    <3>5. configRow'.config = op.config /\ patched' = op.config
      BY <2>3, <2>4
    <3> QED
      BY <1>2, <1>3, <1>4, <2>1, <2>4, <3>2, <3>3, <3>4, <3>5
  <2>5. CASE Does(h, IdleOp) /\ UNCHANGED <<configRow, patched>>
    <3>1. PICK step : step = IdleOp
      OBVIOUS
    <3>2. step.at = "idle" /\ Does(h, step)
      BY <2>5, <3>1 DEF IdleOp
    <3> QED
      BY <1>3, <1>4, <1>5, <2>1, <2>5, <3>2
  <2> QED
    BY <1>7, <2>2, <2>4, <2>5 DEF SaveConfig
<1>8. CASE StoreConfig(h)
  <2>1. /\ settingOps[h].at = "store" /\ UNCHANGED <<configRow, patched>> /\ Does(h, IdleOp)
        /\ runtimeCfg' = settingOps[h].config /\ configVersion' = settingOps[h].version
    BY <1>8 DEF StoreConfig
  <2>2. configRow = [version |-> settingOps[h].version, config |-> settingOps[h].config]
    BY <2>1 DEF SettingsInv, PatchInv
  <2>3. runtimeCfg' = configRow.config /\ configVersion' = configRow.version
    BY <2>1, <2>2
  <2>4. PICK step : step = IdleOp
    OBVIOUS
  <2>5. step.at = "idle" /\ Does(h, step)
    BY <2>1, <2>4 DEF IdleOp
  <2> QED
    BY <1>3, <1>4, <2>1, <2>3, <2>5
<1> QED
  BY <1>6, <1>7, <1>8, <1>9

\* The stored configuration is what the saved patches make of it one after the
\* other, so that none loses a field of another; the configuration in use is the
\* stored one unless a patch is between the save and the swap, and its tested
\* domain is always one of its authorities, for any number of concurrent patches,
\* refusals, failed saves and crashes (PatchRuntimeConfig under configMu).
THEOREM ConfigCorrect == SettingsSpec => []ConfigFollowsRow
<1>1. SettingsInit => SettingsInv
  <2>1. SUFFICES ASSUME SettingsInit PROVE SettingsInv
    OBVIOUS
  <2>2. /\ configRow = [version |-> 0, config |-> [domain |-> DefaultDomain, authorities |-> {DefaultDomain}]]
        /\ runtimeCfg = configRow.config /\ configVersion = 0 /\ patched = configRow.config
        /\ settingOps = [h \in SettingHandlers |-> IdleOp]
    BY <2>1 DEF SettingsInit
  <2>3. \A h \in SettingHandlers : settingOps[h].at = "idle"
    BY <2>2 DEF IdleOp
  <2> QED
    BY <2>2, <2>3 DEF SettingsInv, ConfigMutex, PatchInv, ConfigInv, DomainListed
<1>2. SettingsInv /\ [SettingsNext]_settingVars => SettingsInv'
  <2>1. SUFFICES ASSUME SettingsInv, [SettingsNext]_settingVars PROVE SettingsInv'
    OBVIOUS
  <2>2. CASE UNCHANGED settingVars
    BY <2>1, <2>2 DEF settingVars, SettingsInv, ConfigMutex, PatchInv, ConfigInv, DomainListed
  <2>3. CASE RestartSettings
    <3>1. /\ runtimeCfg' = configRow.config /\ configVersion' = 0 /\ UNCHANGED <<configRow, patched>>
          /\ settingOps' = [h \in SettingHandlers |-> IdleOp]
      BY <2>3 DEF RestartSettings
    <3>2. \A h \in SettingHandlers : settingOps'[h].at = "idle"
      BY <3>1 DEF IdleOp
    <3> QED
      BY <2>1, <3>1, <3>2 DEF SettingsInv, ConfigMutex, PatchInv, ConfigInv, DomainListed
  <2>4. ASSUME NEW h \in SettingHandlers,
               \/ \E path \in RulePaths : DeleteRule(h, path) \/ \E x \in RuleHeaders : UpsertRule(h, path, x)
               \/ ListRules(h) \/ ReplaceRules(h) \/ LockConfig(h)
        PROVE  SettingsInv'
    <3>1. /\ settingOps[h].at \notin {"patch", "save", "store"}
          /\ UNCHANGED <<configRow, runtimeCfg, configVersion, patched>>
      <4>1. settingOps[h] = IdleOp \/ settingOps[h].at \in {"list", "swap"}
        BY <2>4 DEF DeleteRule, UpsertRule, ListRules, ReplaceRules, LockConfig, SettingBegins
      <4>2. IdleOp.at = "idle"
        BY DEF IdleOp
      <4>3. UNCHANGED <<configRow, runtimeCfg, configVersion, patched>>
        BY <2>4 DEF DeleteRule, UpsertRule, ListRules, ReplaceRules, LockConfig, configVars
      <4> HIDE DEF IdleOp
      <4> QED
        BY <4>1, <4>2, <4>3
    <3>2. PICK step : /\ Does(h, step) /\ step.at \notin {"save", "store"}
                      /\ \/ step.at # "patch" /\ UNCHANGED configMu
                         \/ step.at = "patch" /\ configMu = {} /\ configMu' = {h}
      <4>1. CASE \E path \in RulePaths : DeleteRule(h, path) \/ \E x \in RuleHeaders : UpsertRule(h, path, x)
        <5>1. Does(h, [at |-> "list"]) /\ UNCHANGED configMu
          BY <4>1 DEF DeleteRule, UpsertRule
        <5> QED
          BY <5>1
      <4>2. CASE ListRules(h)
        <5>1. UNCHANGED configMu /\ (Does(h, [at |-> "swap", rows |-> ruleRows]) \/ Does(h, IdleOp))
          BY <4>2 DEF ListRules
        <5> QED
          BY <5>1 DEF IdleOp
      <4>3. CASE ReplaceRules(h)
        <5>1. Does(h, IdleOp) /\ UNCHANGED configMu
          BY <4>3 DEF ReplaceRules
        <5> QED
          BY <5>1 DEF IdleOp
      <4>4. CASE LockConfig(h)
        <5>1. Does(h, [at |-> "patch"]) /\ configMu = {} /\ configMu' = {h}
          BY <4>4 DEF LockConfig
        <5> QED
          BY <5>1
      <4> QED
        BY <2>4, <4>1, <4>2, <4>3, <4>4
    <3> QED
      BY <2>1, <3>1, <3>2, RuleStepKeeps
  <2> QED
    BY <2>1, <2>2, <2>3, <2>4, ConfigStepKeeps DEF SettingsNext
<1>3. SettingsInv => ConfigFollowsRow
  BY DEF SettingsInv, ConfigInv, ConfigFollowsRow, DomainListed
<1> QED
  BY <1>1, <1>2, <1>3, PTL DEF SettingsSpec

-----------------------------------------------------------------------------
(* Account rules: the walk down the trie *)


Below == {p \in Nat \X Nat : p[1] < p[2]}

\* Every set of naturals that is not empty has a least element.
LEMMA LeastNatural ==
    ASSUME NEW T \in SUBSET Nat, T # {}
    PROVE  \E t \in T : \A u \in T : ~(u < t)
<1>1. IsWellFoundedOn(Below, Nat)
  BY NatLessThanWellFounded, Zenon DEF OpToRel, Below
<1>2. PICK x \in T : TRUE
  OBVIOUS
<1>3. PICK t \in T : \A u \in T : ~(<<u, t>> \in Below)
  BY <1>1, <1>2, WFMin
<1> QED BY <1>3 DEF Below

\* Max of naturals: the member that bounds the others, and there is one when
\* some number bounds them.
LEMMA MaxIs ==
    ASSUME NEW S \in SUBSET Nat, NEW m \in S, \A x \in S : m >= x
    PROVE  Max(S) = m
<1>1. PICK n : n = Max(S)
  OBVIOUS
<1>2. n \in S
  BY <1>1 DEF Max
<1>3. \A y \in S : n >= y
  BY <1>1 DEF Max
<1> QED BY <1>1, <1>2, <1>3

\* The maximum of a set of positions is one of them and none is above it.
LEMMA MaxBounds ==
    ASSUME NEW n \in Nat, NEW S \in SUBSET (0..n), S # {}
    PROVE  Max(S) \in S /\ \A x \in S : x <= Max(S)
<1>1. PICK T : T = {n - i : i \in S}
  OBVIOUS
<1>2. T \in SUBSET Nat /\ T # {}
  <2>1. PICK i \in S : n - i \in T
    BY <1>1
  <2>2. T \subseteq Nat
    BY <1>1
  <2> QED BY <2>1, <2>2
<1>3. PICK t \in T : \A u \in T : ~(u < t)
  BY <1>2, LeastNatural
<1>4. PICK m \in S : t = n - m
  BY <1>1
<1>5. \A y \in S : m >= y
  <2> TAKE y \in S
  <2>1. n - y \in T
    BY <1>1
  <2> QED BY <1>3, <1>4, <2>1
<1>6. S \in SUBSET Nat
  OBVIOUS
<1>7. Max(S) = m
  BY <1>5, <1>6, MaxIs
<1> QED BY <1>5, <1>6, <1>7

\* The prefix of length i.
Upto(q, i) == SubSeq(q, 1, i)

\* The first i segments of a path.
LEMMA UptoIsPrefix ==
    ASSUME NEW q \in Seq(Segments), NEW i \in 0..Len(q)
    PROVE  /\ Upto(q, i) \in Seq(Segments) /\ Len(Upto(q, i)) = i
           /\ \A j \in 1..i : Upto(q, i)[j] = q[j]
           /\ IsPrefix(Upto(q, i), q)
           /\ Upto(q, 0) = Fallback
<1>1. Len(q) \in Nat /\ i \in Int /\ \A j \in 1..i : q[j] \in Segments
  OBVIOUS
<1>2. PICK u : u = Upto(q, i)
  OBVIOUS
<1>3. u \in Seq(Segments) /\ Len(u) = i /\ \A j \in 1..i : u[j] = q[j]
  BY <1>1, <1>2 DEF Upto
<1>4. SubSeq(u, 1, Len(u)) = SubSeq(q, 1, Len(u))
  BY <1>1, <1>3
<1>5. IsPrefix(u, q)
  BY <1>1, <1>3, <1>4 DEF IsPrefix
<1>6. Upto(q, 0) = Fallback
  BY DEF Upto, Fallback
<1> QED BY <1>2, <1>3, <1>5, <1>6

\* A prefix is the prefix of its length.
LEMMA PrefixIsUpto ==
    ASSUME NEW q \in Seq(Segments), NEW p \in Seq(Segments), IsPrefix(p, q)
    PROVE  Len(p) \in 0..Len(q) /\ p = Upto(q, Len(p))
<1>1. Len(p) \in 0..Len(q) /\ SubSeq(p, 1, Len(p)) = SubSeq(q, 1, Len(p))
  BY DEF IsPrefix
<1>2. SubSeq(p, 1, Len(p)) = p
  BY <1>1
<1> QED BY <1>1, <1>2 DEF Upto

\* Nodes of the trie: every prefix of a rule's path is one, and so is every
\* prefix of a node.
LEMMA RuleIsNode ==
    ASSUME NEW m, DOMAIN m \subseteq Seq(Segments), NEW q \in Seq(Segments), NEW i \in 1..Len(q),
           Upto(q, i) \in DOMAIN m
    PROVE  Node(m, Upto(q, i))
<1>1. PICK u : u = Upto(q, i) /\ u \in Seq(Segments) /\ Len(u) = i
  BY UptoIsPrefix
<1>2. IsPrefix(u, u)
  BY <1>1 DEF IsPrefix
<1>3. u # Fallback
  BY <1>1 DEF Fallback
<1> QED BY <1>1, <1>2, <1>3 DEF Node

\* A trie node's parent is a trie node.
LEMMA NodesClosed ==
    ASSUME NEW m, DOMAIN m \subseteq Seq(Segments), NEW q \in Seq(Segments), NEW i \in 1..Len(q),
           i - 1 \in 1..Len(q), Node(m, Upto(q, i))
    PROVE  Node(m, Upto(q, i - 1))
<1>1. PICK p \in DOMAIN m : p # Fallback /\ IsPrefix(Upto(q, i), p)
  BY DEF Node
<1>2. PICK u : u = Upto(q, i) /\ u \in Seq(Segments) /\ Len(u) = i /\ \A j \in 1..i : u[j] = q[j]
  BY UptoIsPrefix
<1>3. PICK k : k = i - 1 /\ k \in 1..Len(q)
  OBVIOUS
<1>4. PICK v : v = Upto(q, k) /\ v \in Seq(Segments) /\ Len(v) = k /\ \A j \in 1..k : v[j] = q[j]
  BY <1>3, UptoIsPrefix
<1>5. p \in Seq(Segments) /\ Len(u) <= Len(p) /\ u = Upto(p, Len(u))
  BY <1>1, <1>2, PrefixIsUpto DEF IsPrefix
<1>6. i \in 0..Len(p) /\ k \in 0..Len(p) /\ k <= i
  BY <1>2, <1>3, <1>5
<1>7. \A j \in 1..i : u[j] = p[j]
  <2>1. \A j \in 1..i : Upto(p, i)[j] = p[j]
    BY <1>5, <1>6, UptoIsPrefix
  <2>2. u = Upto(p, i)
    BY <1>2, <1>5
  <2> QED BY <2>1, <2>2
<1>8. PICK w : w = Upto(p, k) /\ w \in Seq(Segments) /\ Len(w) = k /\ \A j \in 1..k : w[j] = p[j]
  BY <1>5, <1>6, UptoIsPrefix
<1>9. v = w
  <2>1. \A j \in 1..Len(v) : v[j] = w[j]
    BY <1>2, <1>3, <1>4, <1>6, <1>7, <1>8
  <2> QED BY <1>4, <1>8, <2>1, SeqEqual
<1>10. IsPrefix(v, p)
  BY <1>5, <1>6, <1>8, <1>9, UptoIsPrefix
<1> QED BY <1>1, <1>3, <1>4, <1>10 DEF Node

\* The rules on the way to the i-th node, and the walk in closed form.
RulesUpto(m, q, i) == {0} \cup {j \in 1..i : Upto(q, j) \in DOMAIN m}
Walked(m, q) ==
    [i \in 0..Len(q) |->
       [on |-> i = 0 \/ Node(m, Upto(q, i)), found |-> Upto(q, Max(RulesUpto(m, q, i)))]]

\* One turn of the walk.
WalkStep(m, q, g, i) ==
    IF i = 0 THEN [found |-> Fallback, on |-> TRUE]
    ELSE LET path == SubSeq(q, 1, i)
             on == g[i - 1].on /\ Node(m, path)
         IN  [on |-> on, found |-> IF on /\ path \in DOMAIN m THEN path ELSE g[i - 1].found]

\* The walk is the function that takes one step per segment.
LEMMA WalkUnfolds ==
    ASSUME NEW m, NEW q
    PROVE  Walk(m, q) = (CHOOSE g : g = [i \in 0..Len(q) |-> WalkStep(m, q, g, i)])[Len(q)].found
BY DEF Walk, WalkStep

\* The closed form takes the same turns.
LEMMA WalkedSteps ==
    ASSUME NEW m, DOMAIN m \subseteq Seq(Segments), NEW q \in Seq(Segments),
           NEW f, f = Walked(m, q), NEW i \in 0..Len(q)
    PROVE  f[i] = WalkStep(m, q, f, i)
<1>0. f[i] = [on |-> i = 0 \/ Node(m, Upto(q, i)), found |-> Upto(q, Max(RulesUpto(m, q, i)))]
  BY DEF Walked
<1>1. CASE i = 0
  <2>1. RulesUpto(m, q, 0) = {0}
    BY DEF RulesUpto
  <2>2. Max(RulesUpto(m, q, 0)) = 0
    BY <2>1, MaxIs
  <2>3. Upto(q, 0) = Fallback
    BY UptoIsPrefix
  <2> QED BY <1>0, <1>1, <2>2, <2>3 DEF WalkStep
<1>2. CASE i # 0
  <2>1. i \in 1..Len(q) /\ i - 1 \in 0..Len(q) /\ i - 1 \in Nat /\ Len(q) \in Nat
    BY <1>2
  <2>2. f[i - 1] = [on |-> i - 1 = 0 \/ Node(m, Upto(q, i - 1)),
                    found |-> Upto(q, Max(RulesUpto(m, q, i - 1)))]
    BY <2>1 DEF Walked
  <2>3. (f[i - 1].on /\ Node(m, Upto(q, i))) <=> Node(m, Upto(q, i))
    <3>1. Node(m, Upto(q, i)) => (i - 1 = 0 \/ Node(m, Upto(q, i - 1)))
      BY <2>1, NodesClosed
    <3>2. f[i - 1].on = (i - 1 = 0 \/ Node(m, Upto(q, i - 1)))
      BY <2>2
    <3> QED BY <3>1, <3>2
  <2>4. CASE Upto(q, i) \in DOMAIN m
    <3>1. Node(m, Upto(q, i))
      BY <2>1, <2>4, RuleIsNode
    <3>2. i \in RulesUpto(m, q, i) /\ RulesUpto(m, q, i) \in SUBSET Nat
          /\ \A x \in RulesUpto(m, q, i) : i >= x
      BY <2>1, <2>4 DEF RulesUpto
    <3>3. Max(RulesUpto(m, q, i)) = i
      BY <3>2, MaxIs
    <3> QED BY <1>0, <1>2, <2>3, <2>4, <3>1, <3>3 DEF WalkStep, Upto
  <2>5. CASE Upto(q, i) \notin DOMAIN m
    <3>1. RulesUpto(m, q, i) = RulesUpto(m, q, i - 1)
      BY <2>1, <2>5 DEF RulesUpto
    <3>2. f[i].found = f[i - 1].found
      BY <1>0, <2>2, <3>1
    <3>3. (i = 0 \/ Node(m, Upto(q, i))) = (f[i - 1].on /\ Node(m, Upto(q, i)))
      BY <1>2, <2>3
    <3>4. WalkStep(m, q, f, i) = [on |-> (f[i - 1].on /\ Node(m, Upto(q, i))), found |-> f[i - 1].found]
      BY <1>2, <2>5 DEF WalkStep, Upto
    <3>5. f[i] = [on |-> (i = 0 \/ Node(m, Upto(q, i))), found |-> f[i - 1].found]
      BY <1>0, <3>2
    <3> QED BY <3>3, <3>4, <3>5
  <2> QED BY <2>4, <2>5
<1> QED BY <1>1, <1>2

Turns(m, q, g) == \A i \in 0..Len(q) : g[i] = WalkStep(m, q, g, i)

\* Two functions that take the same turns are equal: there is no first place
\* where they differ.
LEMMA TurnsDetermine ==
    ASSUME NEW m, NEW q \in Seq(Segments), NEW f, NEW g, Turns(m, q, f), Turns(m, q, g)
    PROVE  \A i \in 0..Len(q) : f[i] = g[i]
<1>1. PICK T : T = {i \in 0..Len(q) : f[i] # g[i]}
  OBVIOUS
<1>2. SUFFICES ASSUME T # {} PROVE FALSE
  BY <1>1
<1>3. T \in SUBSET Nat
  BY <1>1
<1>4. PICK t \in T : \A u \in T : ~(u < t)
  BY <1>2, <1>3, LeastNatural
<1>5. t \in 0..Len(q) /\ f[t] # g[t] /\ f[t] = WalkStep(m, q, f, t) /\ g[t] = WalkStep(m, q, g, t)
  BY <1>1 DEF Turns
<1>6. t # 0
  BY <1>5 DEF WalkStep
<1>7. f[t - 1] = g[t - 1]
  BY <1>1, <1>4, <1>5, <1>6
<1> QED BY <1>5, <1>6, <1>7 DEF WalkStep

\* MatchWithPrefix finds the rule at the longest prefix that has one.
LEMMA WalkFinds ==
    ASSUME NEW m, DOMAIN m \subseteq Seq(Segments), NEW q \in Seq(Segments)
    PROVE  Walk(m, q) = Upto(q, Max(RulesUpto(m, q, Len(q))))
<1>1. PICK f : f = Walked(m, q)
  OBVIOUS
<1>2. \A i \in 0..Len(q) : f[i] = WalkStep(m, q, f, i)
  BY <1>1, WalkedSteps
<1>3. f = [i \in 0..Len(q) |-> WalkStep(m, q, f, i)]
  <2>1. f = [i \in 0..Len(q) |-> f[i]]
    BY <1>1 DEF Walked
  <2> QED BY <1>2, <2>1
<1>4. PICK g : g = CHOOSE h : h = [i \in 0..Len(q) |-> WalkStep(m, q, h, i)]
  OBVIOUS
<1>5. g = [i \in 0..Len(q) |-> WalkStep(m, q, g, i)]
  BY <1>3, <1>4, Zenon
<1>6. \A i \in 0..Len(q) : g[i] = WalkStep(m, q, g, i)
  BY <1>5
<1>7. \A i \in 0..Len(q) : f[i] = g[i]
  <2>1. Turns(m, q, f) /\ Turns(m, q, g)
    BY <1>2, <1>6 DEF Turns
  <2> QED BY <2>1, TurnsDetermine
<1>8. Len(q) \in 0..Len(q)
  OBVIOUS
<1>9. Walk(m, q) = g[Len(q)].found
  BY <1>4, WalkUnfolds
<1>10. f[Len(q)].found = Upto(q, Max(RulesUpto(m, q, Len(q))))
  BY <1>1, <1>8 DEF Walked
<1> QED BY <1>7, <1>8, <1>9, <1>10

\* A matcher with the fallback matches by the longest rule that is a prefix.
GoodMatcher(m) == DOMAIN m \subseteq Seq(Segments) /\ Fallback \in DOMAIN m

Longest(m, q, rules) ==
    rules # {} /\ Walk(m, q) = CHOOSE p \in rules : \A r \in rules : Len(r) <= Len(p)

\* What the walk has found at the end is the longest rule that matches.
LEMMA LongestFound ==
    ASSUME NEW m, GoodMatcher(m), NEW q \in Seq(Segments),
           NEW rules, rules = {p \in DOMAIN m : IsPrefix(p, q)}
    PROVE  Longest(m, q, rules)
<1>1. PICK S : S = RulesUpto(m, q, Len(q))
  OBVIOUS
<1>2. Len(q) \in Nat /\ S \in SUBSET (0..Len(q)) /\ S # {}
  BY <1>1 DEF RulesUpto
<1>3. PICK k : k = Max(S) /\ k \in S /\ \A x \in S : x <= k
  BY <1>2, MaxBounds
<1>4. k \in 0..Len(q)
  BY <1>2, <1>3
<1>5. PICK best : /\ best = Upto(q, k) /\ best \in Seq(Segments) /\ Len(best) = k
                  /\ IsPrefix(best, q) /\ Upto(q, 0) = Fallback
  BY <1>4, UptoIsPrefix
<1>6. best \in rules
  <2>1. k = 0 => best \in DOMAIN m
    BY <1>5 DEF GoodMatcher
  <2>2. k # 0 => best \in DOMAIN m
    BY <1>1, <1>3, <1>5 DEF RulesUpto
  <2> QED BY <1>5, <2>1, <2>2
<1>7. ASSUME NEW r \in rules PROVE Len(r) \in 0..Len(q) /\ r = Upto(q, Len(r)) /\ Len(r) <= k
  <2>1. r \in Seq(Segments) /\ r \in DOMAIN m /\ IsPrefix(r, q)
    BY DEF GoodMatcher
  <2>2. Len(r) \in 0..Len(q) /\ r = Upto(q, Len(r))
    BY <2>1, PrefixIsUpto
  <2>3. Len(r) \in S
    BY <1>1, <2>1, <2>2 DEF RulesUpto
  <2> QED BY <1>3, <2>2, <2>3
<1>8. PICK pick : pick = CHOOSE p \in rules : \A r \in rules : Len(r) <= Len(p)
  OBVIOUS
<1>9. \E p \in rules : \A r \in rules : Len(r) <= Len(p)
  BY <1>5, <1>6, <1>7
<1>10. pick \in rules /\ \A r \in rules : Len(r) <= Len(pick)
  BY <1>8, <1>9, Zenon
<1>11. Len(pick) = k
  BY <1>4, <1>5, <1>6, <1>7, <1>10
<1>12. pick = best
  BY <1>5, <1>7, <1>10, <1>11
<1>13. Walk(m, q) = best
  BY <1>1, <1>3, <1>5, WalkFinds DEF GoodMatcher
<1> QED BY <1>6, <1>8, <1>12, <1>13 DEF Longest

\* The fallback row is there from the start, nobody deletes it, and whoever
\* is about to swap in a matcher has read it.
GoodRows(rows) ==
    /\ <<Fallback, 0>> \in DOMAIN rows
    /\ \A p \in DOMAIN rows : p[1] \in Seq(Segments)

RulesInv ==
    /\ DOMAIN settingOps = SettingHandlers
    /\ GoodRows(ruleRows)
    /\ \A h \in SettingHandlers : settingOps[h].at = "swap" => GoodRows(settingOps[h].rows)
    /\ GoodMatcher(matcher)

\* A matcher built from rows with the fallback has the fallback.
LEMMA GoodRowsMatch ==
    ASSUME NEW rows, GoodRows(rows)
    PROVE  GoodMatcher(BuildAccountMatcher(rows))
<1>1. DOMAIN BuildAccountMatcher(rows) = {p[1] : p \in DOMAIN rows}
  BY DEF BuildAccountMatcher
<1>2. <<Fallback, 0>>[1] = Fallback
  OBVIOUS
<1>3. Fallback \in {p[1] : p \in DOMAIN rows}
  BY <1>2 DEF GoodRows
<1> QED BY <1>1, <1>3 DEF GoodRows, GoodMatcher

\* The first matcher is built from the rows, the fallback among them.
LEMMA RulesInit == SettingsInit => RulesInv
<1> SUFFICES ASSUME SettingsInit PROVE RulesInv
  OBVIOUS
<1>1. PICK old \in SUBSET {p \in RulePrefix : p[1] # Fallback /\ p[2] # 0} :
        DOMAIN ruleRows = old \cup {<<Fallback, 0>>}
  BY DEF SettingsInit
<1>2. \A p \in RulePrefix : p[1] \in Seq(Segments)
  BY RulesAssumption DEF RulePrefix
<1>3. <<Fallback, 0>>[1] \in Seq(Segments)
  BY DEF Fallback
<1>4. GoodRows(ruleRows)
  BY <1>1, <1>2, <1>3 DEF GoodRows
<1>5. GoodMatcher(matcher)
  BY <1>4, GoodRowsMatch DEF SettingsInit
<1>6. settingOps = [h \in SettingHandlers |-> IdleOp] /\ IdleOp.at = "idle"
  BY DEF SettingsInit, IdleOp
<1> QED BY <1>4, <1>5, <1>6 DEF RulesInv

\* A handler's step that does not end with rows to be swapped in.
LEMMA OpKeepsRules ==
    ASSUME RulesInv, NEW h \in SettingHandlers, NEW step, Does(h, step),
           step.at = "swap" => GoodRows(step.rows), GoodRows(ruleRows'), GoodMatcher(matcher')
    PROVE  RulesInv'
<1>1. /\ DOMAIN settingOps' = SettingHandlers /\ settingOps'[h] = step
      /\ \A g \in SettingHandlers \ {h} : settingOps'[g] = settingOps[g]
  BY DEF RulesInv, Does
<1>2. ASSUME NEW g \in SettingHandlers, settingOps'[g].at = "swap" PROVE GoodRows(settingOps'[g].rows)
  BY <1>1, <1>2 DEF RulesInv
<1> QED BY <1>1, <1>2 DEF RulesInv

\* No step loses the fallback row or builds a matcher without it.
LEMMA RulesNext ==
    ASSUME RulesInv, [SettingsNext]_settingVars
    PROVE  RulesInv'
<1>1. GoodRows(ruleRows) /\ GoodMatcher(matcher) /\ DOMAIN settingOps = SettingHandlers
  BY DEF RulesInv
<1>2. CASE UNCHANGED settingVars
  BY <1>2 DEF settingVars, RulesInv
<1>3. CASE RestartSettings
  <2>1. /\ matcher' = BuildAccountMatcher(ruleRows) /\ ruleRows' = ruleRows
        /\ settingOps' = [h \in SettingHandlers |-> IdleOp]
    BY <1>3 DEF RestartSettings
  <2>2. IdleOp.at = "idle"
    BY DEF IdleOp
  <2>3. GoodMatcher(matcher')
    BY <1>1, <2>1, GoodRowsMatch
  <2> QED BY <1>1, <2>1, <2>2, <2>3 DEF RulesInv
<1>4. ASSUME NEW h \in SettingHandlers, NEW path \in RulePaths, NEW x, UpsertRule(h, path, x)
      PROVE  RulesInv'
  <2>1. PICK step : step = [at |-> "list"]
    OBVIOUS
  <2>2. step.at = "list" /\ Does(h, step) /\ matcher' = matcher
    BY <1>4, <2>1 DEF UpsertRule
  <2>3. DOMAIN ruleRows' = DOMAIN ruleRows \cup {<<path, 0>>}
    BY <1>4 DEF UpsertRule, MapPut
  <2>4. <<path, 0>>[1] \in Seq(Segments)
    BY RulesAssumption
  <2>5. GoodRows(ruleRows')
    BY <1>1, <2>3, <2>4 DEF GoodRows
  <2> QED BY <1>1, <2>2, <2>5, OpKeepsRules
<1>5. ASSUME NEW h \in SettingHandlers, NEW path \in RulePaths, DeleteRule(h, path)
      PROVE  RulesInv'
  <2>1. PICK step : step = [at |-> "list"]
    OBVIOUS
  <2>2. step.at = "list" /\ Does(h, step) /\ matcher' = matcher /\ path # Fallback
    BY <1>5, <2>1 DEF DeleteRule
  <2>3. DOMAIN ruleRows' = DOMAIN ruleRows \ {<<path, 0>>}
    BY <1>5 DEF DeleteRule, MapDelete
  <2>4. GoodRows(ruleRows')
    BY <1>1, <2>2, <2>3 DEF GoodRows
  <2> QED BY <1>1, <2>2, <2>4, OpKeepsRules
<1>6. ASSUME NEW h \in SettingHandlers, ListRules(h) PROVE RulesInv'
  <2>1. UNCHANGED <<ruleRows, matcher>>
    BY <1>6 DEF ListRules, ruleVars
  <2>2. PICK step : Does(h, step) /\ (step = [at |-> "swap", rows |-> ruleRows] \/ step = IdleOp)
    BY <1>6 DEF ListRules
  <2>3. step.at = "swap" => step.rows = ruleRows
    BY <2>2 DEF IdleOp
  <2> QED BY <1>1, <2>1, <2>2, <2>3, OpKeepsRules
<1>7. ASSUME NEW h \in SettingHandlers, ReplaceRules(h) PROVE RulesInv'
  <2>1. /\ settingOps[h].at = "swap" /\ matcher' = BuildAccountMatcher(settingOps[h].rows)
        /\ ruleRows' = ruleRows /\ Does(h, IdleOp)
    BY <1>7 DEF ReplaceRules
  <2>2. GoodMatcher(matcher')
    BY <2>1, GoodRowsMatch DEF RulesInv
  <2>3. PICK step : step = IdleOp
    OBVIOUS
  <2>4. step.at = "idle" /\ Does(h, step)
    BY <2>1, <2>3 DEF IdleOp
  <2> QED BY <1>1, <2>1, <2>2, <2>4, OpKeepsRules
<1>8. ASSUME NEW h \in SettingHandlers,
             \/ LockConfig(h) \/ RefusePatch(h) \/ SaveConfig(h) \/ StoreConfig(h)
             \/ \E patch \in ConfigPatch : PatchConfig(h, patch)
      PROVE  RulesInv'
  <2>1. UNCHANGED <<ruleRows, matcher>>
    BY <1>8 DEF LockConfig, RefusePatch, SaveConfig, StoreConfig, PatchConfig, ruleVars
  <2>2. CASE \E step : Does(h, step) /\ step.at # "swap"
    BY <1>1, <2>1, <2>2, OpKeepsRules
  <2>3. CASE LockConfig(h)
    <3>1. PICK step : step = [at |-> "patch"]
      OBVIOUS
    <3>2. Does(h, step) /\ step.at # "swap"
      BY <2>3, <3>1 DEF LockConfig
    <3> QED BY <2>2, <3>2
  <2>4. CASE StoreConfig(h) \/ RefusePatch(h)
    <3>1. Does(h, IdleOp) /\ IdleOp.at # "swap"
      BY <2>4 DEF StoreConfig, RefusePatch, IdleOp
    <3> QED BY <2>2, <3>1
  <2>5. ASSUME NEW patch \in ConfigPatch, PatchConfig(h, patch) PROVE RulesInv'
    <3>1. PICK step : step = [at |-> "save", patch |-> patch,
                              config |-> Completed(WithFields(runtimeCfg, patch)),
                              version |-> configVersion' + 1]
      OBVIOUS
    <3>2. Does(h, step) /\ step.at # "swap"
      BY <2>5, <3>1 DEF PatchConfig
    <3> QED BY <2>2, <3>2
  <2>6. CASE SaveConfig(h)
    <3>1. IdleOp.at # "swap"
      BY DEF IdleOp
    <3>2. CASE Does(h, IdleOp)
      BY <2>2, <3>1, <3>2
    <3>3. CASE Does(h, [settingOps[h] EXCEPT !.at = "store"])
      <4>1. settingOps'[h] = [settingOps[h] EXCEPT !.at = "store"]
        BY <1>1, <3>3 DEF Does
      <4>2. settingOps[h].at = "save"
        BY <2>6 DEF SaveConfig
      <4>3. PICK step : step = [settingOps[h] EXCEPT !.at = "store"]
        OBVIOUS
      <4>4. step.at # "swap"
        BY <4>2, <4>3
      <4> QED BY <2>2, <3>3, <4>3, <4>4
    <3> QED BY <2>6, <3>2, <3>3 DEF SaveConfig
  <2> QED BY <1>8, <2>3, <2>4, <2>5, <2>6
<1> QED BY <1>2, <1>3, <1>4, <1>5, <1>6, <1>7, <1>8 DEF SettingsNext

\* For all sets of rules and request paths of any length, however rules are
\* written, deleted, read and swapped in by handlers that overlap, a request is
\* matched by the longest rule that is a prefix of it, the fallback at least
\* (AccountMatcher.MatchWithPrefix, BuildAccountMatcher, reloadAccountMatcher).
THEOREM MatcherCorrect == SettingsSpec => []MatchesLongestRule
<1>1. RulesInv => MatchesLongestRule
  <2> SUFFICES ASSUME RulesInv, NEW q \in RuleRequests, NEW rules,
                      rules = {p \in DOMAIN matcher : IsPrefix(p, q)}
               PROVE  Longest(matcher, q, rules)
    BY Zenon DEF MatchesLongestRule, Longest
  <2>1. q \in Seq(Segments) /\ GoodMatcher(matcher)
    BY RulesAssumption DEF RulesInv
  <2> QED BY <2>1, LongestFound
<1>2. RulesInv /\ [SettingsNext]_settingVars => RulesInv'
  BY RulesNext
<1> QED BY <1>1, <1>2, RulesInit, PTL DEF SettingsSpec

-----------------------------------------------------------------------------
(* Recovery of cache.db *)

\* The shape of a set of tables and of the memory: every field is there, and the
\* keys of the bindings name a subscription and a node.
TablesShaped(db) ==
    /\ db = [bindings |-> db.bindings, statics |-> db.statics, dynamics |-> db.dynamics,
             latencies |-> db.latencies, leases |-> db.leases]
    /\ db.bindings = [k \in DOMAIN db.bindings |-> db.bindings[k]]
    /\ db.leases = [k \in DOMAIN db.leases |-> db.leases[k]]
    /\ \A k \in DOMAIN db.bindings : k = <<k[1], k[2]>> /\ k[1] \in SubIds

MemoryShaped ==
    memory = [subs |-> memory.subs, platforms |-> memory.platforms, managed |-> memory.managed,
              nodes |-> memory.nodes, refs |-> memory.refs, closed |-> memory.closed,
              latencies |-> memory.latencies, leases |-> memory.leases]

\* The nodes an existing subscription holds, and the rows to keep.
Living == {n \in cacheDB.statics : \E s \in stateDB.subs \cap SubIds :
             <<s, n>> \in DOMAIN cacheDB.bindings /\ cacheDB.bindings[<<s, n>>] = "held"}
KeptBindings == {k \in DOMAIN cacheDB.bindings :
                   k[1] \in stateDB.subs /\ (cacheDB.bindings[k] = "held" => k[2] \in cacheDB.statics)}
KeptLeases == {k \in DOMAIN cacheDB.leases : k[1] \in stateDB.platforms /\ cacheDB.leases[k] \in Living}

\* The view of the repair's transaction: what each statement that has run left,
\* and what the others will still find.
Before(steps) == bootStep \in steps
RepairInv ==
    bootStep \in {"bindings", "statics", "dynamics", "latencies", "leases", "commit"} =>
      /\ repairTx.bindings = IF Before({"bindings"}) THEN cacheDB.bindings
                             ELSE [k \in KeptBindings |-> cacheDB.bindings[k]]
      /\ repairTx.statics = IF Before({"bindings", "statics"}) THEN cacheDB.statics ELSE Living
      /\ repairTx.dynamics = IF Before({"bindings", "statics", "dynamics"})
                             THEN cacheDB.dynamics ELSE cacheDB.dynamics \cap Living
      /\ repairTx.latencies = IF Before({"bindings", "statics", "dynamics", "latencies"})
                              THEN cacheDB.latencies ELSE cacheDB.latencies \cap Living
      /\ repairTx.leases = IF Before({"bindings", "statics", "dynamics", "latencies", "leases"})
                           THEN cacheDB.leases ELSE [k \in KeptLeases |-> cacheDB.leases[k]]

\* After the commit no row hangs in the air.
CommittedSound ==
    bootStep \in {"topology", "nodes", "managed", "dynamic", "latency", "restore_leases"} =>
      /\ \A n \in cacheDB.statics : \E s \in stateDB.subs :
           <<s, n>> \in DOMAIN cacheDB.bindings /\ cacheDB.bindings[<<s, n>>] = "held"
      /\ \A k \in DOMAIN cacheDB.bindings :
           k[1] \in stateDB.subs /\ (cacheDB.bindings[k] = "held" => k[2] \in cacheDB.statics)
      /\ \A k \in DOMAIN cacheDB.leases : k[1] \in stateDB.platforms /\ cacheDB.leases[k] \in cacheDB.statics

\* What of the rows the bootstrap has read.
MemoryInv ==
    /\ bootStep \in {"nodes", "managed", "dynamic", "latency", "restore_leases"} =>
         memory.subs = stateDB.subs /\ memory.platforms = stateDB.platforms
    /\ bootStep \in {"managed", "dynamic", "latency", "restore_leases"} => memory.nodes = cacheDB.statics
    /\ bootStep \in {"dynamic", "latency", "restore_leases"} =>
         /\ memory.managed = cacheDB.bindings
         /\ memory.refs = {k \in DOMAIN cacheDB.bindings : cacheDB.bindings[k] = "held"}
    /\ bootStep \in {"latency", "restore_leases"} => memory.closed \subseteq memory.nodes
    /\ bootStep = "restore_leases" => memory.latencies \subseteq memory.nodes

RecoveryInv ==
    /\ TablesShaped(cacheDB) /\ TablesShaped(repairTx) /\ MemoryShaped
    /\ RepairInv /\ CommittedSound /\ MemoryInv /\ BootedMemorySound

\* What each statement of the repair does to the transaction's view.
LEMMA RepairStatement ==
    ASSUME TablesShaped(repairTx), ExecRepair
    PROVE  /\ bootStep \in {"bindings", "statics", "dynamics", "latencies", "leases"}
           /\ bootStep' = CASE bootStep = "bindings" -> "statics" [] bootStep = "statics" -> "dynamics"
                            [] bootStep = "dynamics" -> "latencies" [] bootStep = "latencies" -> "leases"
                            [] bootStep = "leases" -> "commit"
           /\ repairTx' = [bindings |-> repairTx'.bindings, statics |-> repairTx'.statics,
                           dynamics |-> repairTx'.dynamics, latencies |-> repairTx'.latencies,
                           leases |-> repairTx'.leases]
           /\ bootStep # "bindings" => repairTx'.bindings = repairTx.bindings
           /\ bootStep # "statics" => repairTx'.statics = repairTx.statics
           /\ bootStep # "dynamics" => repairTx'.dynamics = repairTx.dynamics
           /\ bootStep # "latencies" => repairTx'.latencies = repairTx.latencies
           /\ bootStep # "leases" => repairTx'.leases = repairTx.leases
           /\ bootStep = "bindings" =>
                repairTx'.bindings =
                  [k \in {k \in DOMAIN repairTx.bindings :
                            k[1] \in stateDB.subs /\ (repairTx.bindings[k] = "held" => k[2] \in repairTx.statics)}
                     |-> repairTx.bindings[k]]
           /\ bootStep = "statics" =>
                repairTx'.statics = {n \in repairTx.statics : HeldBy(repairTx, n) # {}}
           /\ bootStep = "dynamics" => repairTx'.dynamics = repairTx.dynamics \cap repairTx.statics
           /\ bootStep = "latencies" => repairTx'.latencies = repairTx.latencies \cap repairTx.statics
           /\ bootStep = "leases" =>
                repairTx'.leases =
                  [k \in {k \in DOMAIN repairTx.leases :
                            k[1] \in stateDB.platforms /\ repairTx.leases[k] \in repairTx.statics}
                     |-> repairTx.leases[k]]
<1>1. DOMAIN RepairOrder = {"bindings", "statics", "dynamics", "latencies", "leases"}
  BY DEF RepairOrder
<1>2. bootStep \in {"bindings", "statics", "dynamics", "latencies", "leases"}
  BY <1>1 DEF ExecRepair
<1>3. repairTx' = DeleteOrphans(bootStep) /\ bootStep' = RepairOrder[bootStep]
  BY DEF ExecRepair
<1>4. repairTx = [bindings |-> repairTx.bindings, statics |-> repairTx.statics,
                  dynamics |-> repairTx.dynamics, latencies |-> repairTx.latencies,
                  leases |-> repairTx.leases]
  BY DEF TablesShaped
<1>5. CASE bootStep = "bindings"
  <2>1. bootStep' = "statics"
    BY <1>3, <1>5 DEF RepairOrder
  <2>2. PICK b : b = [k \in {k \in DOMAIN repairTx.bindings :
                            k[1] \in stateDB.subs /\ (repairTx.bindings[k] = "held" => k[2] \in repairTx.statics)}
                        |-> repairTx.bindings[k]]
    OBVIOUS
  <2>3. repairTx' = [repairTx EXCEPT !.bindings = b]
    BY <1>3, <1>5, <2>2 DEF DeleteOrphans, Restrict
  <2> QED
    BY <1>4, <1>5, <2>1, <2>2, <2>3
<1>6. CASE bootStep = "statics"
  <2>1. bootStep' = "dynamics"
    BY <1>3, <1>6 DEF RepairOrder
  <2>2. repairTx' = [repairTx EXCEPT !.statics = {n \in repairTx.statics : HeldBy(repairTx, n) # {}}]
    BY <1>3, <1>6 DEF DeleteOrphans
  <2> QED
    BY <1>4, <1>6, <2>1, <2>2
<1>7. CASE bootStep = "dynamics"
  <2>1. bootStep' = "latencies"
    BY <1>3, <1>7 DEF RepairOrder
  <2>2. repairTx' = [repairTx EXCEPT !.dynamics = repairTx.dynamics \cap repairTx.statics]
    BY <1>3, <1>7 DEF DeleteOrphans
  <2> QED
    BY <1>4, <1>7, <2>1, <2>2
<1>8. CASE bootStep = "latencies"
  <2>1. bootStep' = "leases"
    BY <1>3, <1>8 DEF RepairOrder
  <2>2. repairTx' = [repairTx EXCEPT !.latencies = repairTx.latencies \cap repairTx.statics]
    BY <1>3, <1>8 DEF DeleteOrphans
  <2> QED
    BY <1>4, <1>8, <2>1, <2>2
<1>9. CASE bootStep = "leases"
  <2>1. bootStep' = "commit"
    BY <1>3, <1>9 DEF RepairOrder
  <2>2. PICK b : b = [k \in {k \in DOMAIN repairTx.leases :
                            k[1] \in stateDB.platforms /\ repairTx.leases[k] \in repairTx.statics}
                        |-> repairTx.leases[k]]
    OBVIOUS
  <2>3. repairTx' = [repairTx EXCEPT !.leases = b]
    BY <1>3, <1>9, <2>2 DEF DeleteOrphans, Restrict
  <2> QED
    BY <1>4, <1>9, <2>1, <2>2, <2>3
<1> QED
  BY <1>2, <1>5, <1>6, <1>7, <1>8, <1>9

\* One delete of the repair takes away orphans only.
LEMMA ExecRepairKeeps ==
    ASSUME RecoveryInv, ExecRepair
    PROVE  RecoveryInv'
<1>1. UNCHANGED <<stateDB, cacheDB, memory>>
  BY DEF ExecRepair
<1>2. Living' = Living /\ KeptBindings' = KeptBindings /\ KeptLeases' = KeptLeases
  BY <1>1 DEF Living, KeptBindings, KeptLeases
<1>3. /\ bootStep \in {"bindings", "statics", "dynamics", "latencies", "leases"}
      /\ bootStep' = CASE bootStep = "bindings" -> "statics" [] bootStep = "statics" -> "dynamics"
                       [] bootStep = "dynamics" -> "latencies" [] bootStep = "latencies" -> "leases"
                       [] bootStep = "leases" -> "commit"
  BY RepairStatement DEF RecoveryInv
<1>4. /\ TablesShaped(cacheDB)' /\ MemoryShaped'
  BY <1>1 DEF RecoveryInv, TablesShaped, MemoryShaped
<1>5. CommittedSound' /\ MemoryInv' /\ BootedMemorySound'
  BY <1>3 DEF CommittedSound, MemoryInv, BootedMemorySound
<1>6. repairTx' = [bindings |-> repairTx'.bindings, statics |-> repairTx'.statics,
                   dynamics |-> repairTx'.dynamics, latencies |-> repairTx'.latencies,
                   leases |-> repairTx'.leases]
  BY RepairStatement DEF RecoveryInv
<1>7. /\ repairTx.bindings = IF bootStep = "bindings" THEN cacheDB.bindings
                             ELSE [k \in KeptBindings |-> cacheDB.bindings[k]]
      /\ repairTx.statics = IF bootStep \in {"bindings", "statics"} THEN cacheDB.statics ELSE Living
      /\ repairTx.dynamics = IF bootStep \in {"bindings", "statics", "dynamics"}
                             THEN cacheDB.dynamics ELSE cacheDB.dynamics \cap Living
      /\ repairTx.latencies = IF bootStep \in {"bindings", "statics", "dynamics", "latencies"}
                              THEN cacheDB.latencies ELSE cacheDB.latencies \cap Living
      /\ repairTx.leases = cacheDB.leases
  BY <1>3 DEF RecoveryInv, RepairInv, Before
<1>8. repairTx'.bindings = [k \in KeptBindings |-> cacheDB.bindings[k]]
  <2>1. CASE bootStep = "bindings"
    BY <1>7, <2>1, RepairStatement DEF RecoveryInv, KeptBindings
  <2>2. CASE bootStep # "bindings"
    BY <1>7, <2>2, RepairStatement DEF RecoveryInv
  <2> QED
    BY <2>1, <2>2
<1>9. repairTx'.statics = IF bootStep = "bindings" THEN cacheDB.statics ELSE Living
  <2>1. CASE bootStep = "statics"
    <3>1. repairTx'.statics = {n \in cacheDB.statics : HeldBy(repairTx, n) # {}}
      BY <1>7, <2>1, RepairStatement DEF RecoveryInv
    <3>2. ASSUME NEW n \in cacheDB.statics
          PROVE  HeldBy(repairTx, n) # {} <=> n \in Living
      <4>1. \A s \in SubIds : s \in HeldBy(repairTx, n) <=>
              <<s, n>> \in KeptBindings /\ cacheDB.bindings[<<s, n>>] = "held"
        BY <1>7, <2>1 DEF HeldBy
      <4>2. \A s : <<s, n>>[1] = s /\ <<s, n>>[2] = n
        OBVIOUS
      <4>3. \A s : <<s, n>> \in KeptBindings /\ cacheDB.bindings[<<s, n>>] = "held" <=>
              /\ <<s, n>> \in DOMAIN cacheDB.bindings /\ cacheDB.bindings[<<s, n>>] = "held"
              /\ s \in stateDB.subs
        BY <3>2, <4>2 DEF KeptBindings
      <4>4. HeldBy(repairTx, n) \subseteq SubIds
        BY DEF HeldBy
      <4> QED
        BY <3>2, <4>1, <4>3, <4>4 DEF Living
    <3> QED
      BY <2>1, <3>1, <3>2 DEF Living
  <2>2. CASE bootStep # "statics"
    BY <1>3, <1>7, <2>2, RepairStatement DEF RecoveryInv
  <2> QED
    BY <2>1, <2>2
<1>10. repairTx'.dynamics = IF bootStep \in {"bindings", "statics"}
                            THEN cacheDB.dynamics ELSE cacheDB.dynamics \cap Living
  BY <1>3, <1>7, RepairStatement DEF RecoveryInv
<1>11. repairTx'.latencies = IF bootStep \in {"bindings", "statics", "dynamics"}
                             THEN cacheDB.latencies ELSE cacheDB.latencies \cap Living
  BY <1>3, <1>7, RepairStatement DEF RecoveryInv
<1>12. repairTx'.leases = IF bootStep # "leases" THEN cacheDB.leases
                          ELSE [k \in KeptLeases |-> cacheDB.leases[k]]
  <2>1. CASE bootStep = "leases"
    BY <1>7, <2>1, RepairStatement DEF RecoveryInv, KeptLeases
  <2>2. CASE bootStep # "leases"
    BY <1>7, <2>2, RepairStatement DEF RecoveryInv
  <2> QED
    BY <2>1, <2>2
<1>13. RepairInv'
  BY <1>1, <1>2, <1>3, <1>8, <1>9, <1>10, <1>11, <1>12 DEF RepairInv, Before
<1>14. TablesShaped(repairTx)'
  <2>1. KeptBindings \subseteq DOMAIN cacheDB.bindings
    BY DEF KeptBindings
  <2>2. repairTx'.leases = [k \in DOMAIN repairTx'.leases |-> repairTx'.leases[k]]
    BY <1>12 DEF RecoveryInv, TablesShaped
  <2>3. /\ repairTx'.bindings = [k \in DOMAIN repairTx'.bindings |-> repairTx'.bindings[k]]
        /\ \A k \in DOMAIN repairTx'.bindings : k = <<k[1], k[2]>> /\ k[1] \in SubIds
    BY <1>8, <2>1 DEF RecoveryInv, TablesShaped
  <2> QED
    BY <1>6, <2>2, <2>3 DEF TablesShaped
<1> QED
  BY <1>4, <1>5, <1>13, <1>14 DEF RecoveryInv

\* The commit publishes rows without orphans.
LEMMA CommitKeeps ==
    ASSUME RecoveryInv, CommitRepair
    PROVE  RecoveryInv'
<1>1. /\ bootStep = "commit" /\ cacheDB' = repairTx /\ bootStep' = "topology"
      /\ UNCHANGED <<stateDB, repairTx, memory>>
  BY DEF CommitRepair
<1>2. /\ repairTx.bindings = [k \in KeptBindings |-> cacheDB.bindings[k]]
      /\ repairTx.statics = Living
      /\ repairTx.leases = [k \in KeptLeases |-> cacheDB.leases[k]]
  BY <1>1 DEF RecoveryInv, RepairInv, Before
<1>3. TablesShaped(cacheDB)' /\ TablesShaped(repairTx)' /\ MemoryShaped'
  BY <1>1 DEF RecoveryInv, TablesShaped, MemoryShaped
<1>4. RepairInv' /\ MemoryInv' /\ BootedMemorySound'
  BY <1>1 DEF RepairInv, MemoryInv, BootedMemorySound
<1>5. ASSUME NEW n \in Living
      PROVE  \E s \in stateDB.subs : <<s, n>> \in KeptBindings /\ cacheDB.bindings[<<s, n>>] = "held"
  <2>1. PICK s \in stateDB.subs : <<s, n>> \in DOMAIN cacheDB.bindings /\ cacheDB.bindings[<<s, n>>] = "held"
    BY <1>5 DEF Living
  <2>2. <<s, n>>[1] = s /\ <<s, n>>[2] = n /\ n \in cacheDB.statics
    BY <1>5 DEF Living
  <2> QED
    BY <2>1, <2>2 DEF KeptBindings
<1>6. ASSUME NEW k \in KeptBindings
      PROVE  k[1] \in stateDB.subs /\ (cacheDB.bindings[k] = "held" => k[2] \in Living)
  <2>1. /\ k \in DOMAIN cacheDB.bindings /\ k[1] \in stateDB.subs
        /\ cacheDB.bindings[k] = "held" => k[2] \in cacheDB.statics
    BY <1>6 DEF KeptBindings
  <2>2. k = <<k[1], k[2]>> /\ k[1] \in SubIds
    BY <2>1 DEF RecoveryInv, TablesShaped
  <2> QED
    BY <2>1, <2>2 DEF Living
<1>7. \A k \in KeptLeases : k[1] \in stateDB.platforms /\ cacheDB.leases[k] \in Living
  BY DEF KeptLeases
<1>8. /\ cacheDB'.statics = Living /\ stateDB' = stateDB
      /\ DOMAIN cacheDB'.bindings = KeptBindings
      /\ \A k \in KeptBindings : cacheDB'.bindings[k] = cacheDB.bindings[k]
      /\ DOMAIN cacheDB'.leases = KeptLeases
      /\ \A k \in KeptLeases : cacheDB'.leases[k] = cacheDB.leases[k]
  BY <1>1, <1>2
<1>9. CommittedSound'
  <2>1. \A n \in cacheDB'.statics : \E s \in stateDB'.subs :
          <<s, n>> \in DOMAIN cacheDB'.bindings /\ cacheDB'.bindings[<<s, n>>] = "held"
    BY <1>5, <1>8
  <2>2. \A k \in DOMAIN cacheDB'.bindings :
          k[1] \in stateDB'.subs /\ (cacheDB'.bindings[k] = "held" => k[2] \in cacheDB'.statics)
    BY <1>6, <1>8
  <2>3. \A k \in DOMAIN cacheDB'.leases :
          k[1] \in stateDB'.platforms /\ cacheDB'.leases[k] \in cacheDB'.statics
    BY <1>7, <1>8
  <2> QED
    BY <2>1, <2>2, <2>3 DEF CommittedSound
<1> QED
  BY <1>3, <1>4, <1>9 DEF RecoveryInv

\* Any rows a crash may leave have the shape of the tables.
LEMMA AnyTables ==
    ASSUME NEW db \in CacheDB
    PROVE  TablesShaped(db)
<1>1. /\ db = [bindings |-> db.bindings, statics |-> db.statics, dynamics |-> db.dynamics,
               latencies |-> db.latencies, leases |-> db.leases]
      /\ db.bindings \in UNION {[K -> {"held", "evicted"}] : K \in SUBSET (SubIds \X CacheNodes)}
      /\ db.leases \in UNION {[K -> CacheNodes] : K \in SUBSET (Plats \X LeaseAccounts)}
  BY DEF CacheDB
<1>2. PICK K \in SUBSET (SubIds \X CacheNodes) : db.bindings \in [K -> {"held", "evicted"}]
  BY <1>1
<1>3. PICK L \in SUBSET (Plats \X LeaseAccounts) : db.leases \in [L -> CacheNodes]
  BY <1>1
<1>4. \A k \in K : k = <<k[1], k[2]>> /\ k[1] \in SubIds
  BY <1>2
<1>5. DOMAIN db.bindings = K /\ db.bindings = [k \in DOMAIN db.bindings |-> db.bindings[k]]
  BY <1>2
<1>6. db.leases = [k \in DOMAIN db.leases |-> db.leases[k]]
  BY <1>3
<1> QED
  BY <1>1, <1>4, <1>5, <1>6 DEF TablesShaped

\* The bootstrap reads table after table of what the repair left.
LEMMA BootstrapKeeps ==
    ASSUME RecoveryInv,
           \/ BootstrapTopology \/ LoadBootstrapNodeStatics \/ RestoreBootstrapSubscriptionBindings
           \/ RestoreBootstrapNodeDynamics \/ RestoreBootstrapNodeLatencies \/ RestoreLeases
    PROVE  RecoveryInv'
<1>1. UNCHANGED <<stateDB, cacheDB, repairTx>>
  BY DEF BootstrapTopology, LoadBootstrapNodeStatics, RestoreBootstrapSubscriptionBindings,
     RestoreBootstrapNodeDynamics, RestoreBootstrapNodeLatencies, RestoreLeases
<1>2. TablesShaped(cacheDB)' /\ TablesShaped(repairTx)'
  BY <1>1 DEF RecoveryInv, TablesShaped
<1>3. memory = [subs |-> memory.subs, platforms |-> memory.platforms, managed |-> memory.managed,
                nodes |-> memory.nodes, refs |-> memory.refs, closed |-> memory.closed,
                latencies |-> memory.latencies, leases |-> memory.leases]
  BY DEF RecoveryInv, MemoryShaped
<1>4. CASE BootstrapTopology
  <2>1. /\ bootStep = "topology" /\ bootStep' = "nodes"
        /\ memory' = [memory EXCEPT !.subs = stateDB.subs, !.platforms = stateDB.platforms]
    BY <1>4 DEF BootstrapTopology
  <2>2. MemoryShaped' /\ memory'.subs = stateDB.subs /\ memory'.platforms = stateDB.platforms
    BY <1>3, <2>1 DEF MemoryShaped
  <2> QED
    BY <1>1, <1>2, <2>1, <2>2 DEF RecoveryInv, RepairInv, CommittedSound, MemoryInv, BootedMemorySound
<1>5. CASE LoadBootstrapNodeStatics
  <2>1. /\ bootStep = "nodes" /\ bootStep' = "managed"
        /\ memory' = [memory EXCEPT !.nodes = cacheDB.statics]
    BY <1>5 DEF LoadBootstrapNodeStatics
  <2>2. /\ MemoryShaped' /\ memory'.subs = memory.subs /\ memory'.platforms = memory.platforms
        /\ memory'.nodes = cacheDB.statics
    BY <1>3, <2>1 DEF MemoryShaped
  <2> QED
    BY <1>1, <1>2, <2>1, <2>2 DEF RecoveryInv, RepairInv, CommittedSound, MemoryInv, BootedMemorySound
<1>6. CASE RestoreBootstrapSubscriptionBindings
  <2>1. PICK restored :
          /\ restored = [k \in {k \in DOMAIN cacheDB.bindings : k[1] \in memory.subs} |-> cacheDB.bindings[k]]
          /\ memory' = [memory EXCEPT !.managed = restored,
               !.refs = {k \in DOMAIN restored : restored[k] = "held" /\ k[2] \in memory.nodes}]
    BY <1>6 DEF RestoreBootstrapSubscriptionBindings, Restrict
  <2>2. bootStep = "managed" /\ bootStep' = "dynamic"
    BY <1>6 DEF RestoreBootstrapSubscriptionBindings
  <2>3. /\ memory.subs = stateDB.subs /\ memory.platforms = stateDB.platforms
        /\ memory.nodes = cacheDB.statics
        /\ \A k \in DOMAIN cacheDB.bindings :
             k[1] \in stateDB.subs /\ (cacheDB.bindings[k] = "held" => k[2] \in cacheDB.statics)
    BY <2>2 DEF RecoveryInv, MemoryInv, CommittedSound
  <2>4. restored = cacheDB.bindings
    <3>1. {k \in DOMAIN cacheDB.bindings : k[1] \in memory.subs} = DOMAIN cacheDB.bindings
      BY <2>3
    <3>2. cacheDB.bindings = [k \in DOMAIN cacheDB.bindings |-> cacheDB.bindings[k]]
      BY DEF RecoveryInv, TablesShaped
    <3> QED
      BY <2>1, <3>1, <3>2
  <2>5. {k \in DOMAIN restored : restored[k] = "held" /\ k[2] \in memory.nodes}
          = {k \in DOMAIN cacheDB.bindings : cacheDB.bindings[k] = "held"}
    BY <2>3, <2>4
  <2>6. /\ MemoryShaped' /\ memory'.subs = memory.subs /\ memory'.platforms = memory.platforms
        /\ memory'.nodes = memory.nodes /\ memory'.managed = cacheDB.bindings
        /\ memory'.refs = {k \in DOMAIN cacheDB.bindings : cacheDB.bindings[k] = "held"}
    BY <1>3, <2>1, <2>4, <2>5 DEF MemoryShaped
  <2> QED
    BY <1>1, <1>2, <2>2, <2>3, <2>6 DEF RecoveryInv, RepairInv, CommittedSound, MemoryInv, BootedMemorySound
<1>7. CASE RestoreBootstrapNodeDynamics
  <2>1. bootStep = "dynamic" /\ bootStep' = "latency"
    BY <1>7 DEF RestoreBootstrapNodeDynamics
  <2>2. PICK closed : closed \subseteq memory.nodes /\ memory' = [memory EXCEPT !.closed = closed]
    BY <1>7 DEF RestoreBootstrapNodeDynamics
  <2>3. /\ MemoryShaped' /\ memory'.subs = memory.subs /\ memory'.platforms = memory.platforms
        /\ memory'.nodes = memory.nodes /\ memory'.managed = memory.managed
        /\ memory'.refs = memory.refs /\ memory'.closed = closed
    BY <1>3, <2>2 DEF MemoryShaped
  <2> QED
    BY <1>1, <1>2, <2>1, <2>2, <2>3 DEF RecoveryInv, RepairInv, CommittedSound, MemoryInv, BootedMemorySound
<1>8. CASE RestoreBootstrapNodeLatencies
  <2>1. /\ bootStep = "latency" /\ bootStep' = "restore_leases"
        /\ memory' = [memory EXCEPT !.latencies = cacheDB.latencies \cap memory.nodes]
    BY <1>8 DEF RestoreBootstrapNodeLatencies
  <2>2. /\ MemoryShaped' /\ memory'.subs = memory.subs /\ memory'.platforms = memory.platforms
        /\ memory'.nodes = memory.nodes /\ memory'.managed = memory.managed
        /\ memory'.refs = memory.refs /\ memory'.closed = memory.closed
        /\ memory'.latencies \subseteq memory.nodes
    BY <1>3, <2>1 DEF MemoryShaped
  <2> QED
    BY <1>1, <1>2, <2>1, <2>2 DEF RecoveryInv, RepairInv, CommittedSound, MemoryInv, BootedMemorySound
<1>9. CASE RestoreLeases
  <2>1. /\ bootStep = "restore_leases" /\ bootStep' = "serving"
        /\ memory' = [memory EXCEPT !.leases = cacheDB.leases]
    BY <1>9 DEF RestoreLeases
  <2>2. /\ MemoryShaped' /\ memory'.subs = memory.subs /\ memory'.platforms = memory.platforms
        /\ memory'.nodes = memory.nodes /\ memory'.managed = memory.managed
        /\ memory'.refs = memory.refs /\ memory'.closed = memory.closed
        /\ memory'.latencies = memory.latencies /\ memory'.leases = cacheDB.leases
    BY <1>3, <2>1 DEF MemoryShaped
  <2>3. /\ memory.subs = stateDB.subs /\ memory.platforms = stateDB.platforms
        /\ memory.nodes = cacheDB.statics /\ memory.managed = cacheDB.bindings
        /\ memory.refs = {k \in DOMAIN cacheDB.bindings : cacheDB.bindings[k] = "held"}
        /\ memory.closed \subseteq memory.nodes /\ memory.latencies \subseteq memory.nodes
    BY <2>1 DEF RecoveryInv, MemoryInv
  <2>4. /\ \A n \in cacheDB.statics : \E s \in stateDB.subs :
             <<s, n>> \in DOMAIN cacheDB.bindings /\ cacheDB.bindings[<<s, n>>] = "held"
        /\ \A k \in DOMAIN cacheDB.leases : k[1] \in stateDB.platforms /\ cacheDB.leases[k] \in cacheDB.statics
    BY <2>1 DEF RecoveryInv, CommittedSound
  <2>5. BootedMemorySound'
    BY <2>2, <2>3, <2>4 DEF BootedMemorySound
  <2> QED
    BY <1>2, <2>1, <2>2, <2>5 DEF RecoveryInv, RepairInv, CommittedSound, MemoryInv
<1> QED
  BY <1>4, <1>5, <1>6, <1>7, <1>8, <1>9

\* RecoveryInv holds whatever rows the first crash left.
LEMMA RecoveryInvariant == RecoverySpec => []RecoveryInv
<1>1. RecoveryInit => RecoveryInv
  <2>1. SUFFICES ASSUME RecoveryInit PROVE RecoveryInv
    OBVIOUS
  <2>2. TablesShaped(cacheDB) /\ TablesShaped(repairTx)
    BY <2>1, AnyTables DEF RecoveryInit
  <2> QED
    BY <2>1, <2>2 DEF RecoveryInit, RecoveryInv, MemoryShaped, EmptyPool, RepairInv,
       CommittedSound, MemoryInv, BootedMemorySound
<1>2. RecoveryInv /\ [RecoveryNext]_recoveryVars => RecoveryInv'
  <2>1. SUFFICES ASSUME RecoveryInv, [RecoveryNext]_recoveryVars PROVE RecoveryInv'
    OBVIOUS
  <2>2. CASE UNCHANGED recoveryVars
    <3>1. UNCHANGED <<stateDB, cacheDB, repairTx, memory, bootStep>>
      BY <2>2 DEF recoveryVars
    <3>2. TablesShaped(cacheDB)' /\ TablesShaped(repairTx)' /\ MemoryShaped'
      BY <2>1, <3>1 DEF RecoveryInv, TablesShaped, MemoryShaped
    <3>3. Living' = Living /\ KeptBindings' = KeptBindings /\ KeptLeases' = KeptLeases
      BY <3>1 DEF Living, KeptBindings, KeptLeases
    <3>4. RepairInv'
      BY <2>1, <3>1, <3>3 DEF RecoveryInv, RepairInv, Before
    <3>5. CommittedSound' /\ MemoryInv' /\ BootedMemorySound'
      BY <2>1, <3>1 DEF RecoveryInv, CommittedSound, MemoryInv, BootedMemorySound
    <3> QED
      BY <3>2, <3>4, <3>5 DEF RecoveryInv
  <2>3. CASE BeginRepair
    <3>1. /\ repairTx' = cacheDB /\ bootStep' = "bindings" /\ UNCHANGED <<cacheDB, memory>>
      BY <2>3 DEF BeginRepair
    <3>2. TablesShaped(cacheDB)' /\ TablesShaped(repairTx)' /\ MemoryShaped'
      BY <2>1, <3>1 DEF RecoveryInv, TablesShaped, MemoryShaped
    <3> QED
      BY <3>1, <3>2 DEF RecoveryInv, RepairInv, Before, CommittedSound, MemoryInv, BootedMemorySound
  <2>4. CASE DeleteStateRow
    <3>1. bootStep' = "dying" /\ UNCHANGED <<cacheDB, repairTx, memory>>
      BY <2>4 DEF DeleteStateRow
    <3>2. TablesShaped(cacheDB)' /\ TablesShaped(repairTx)' /\ MemoryShaped'
      BY <2>1, <3>1 DEF RecoveryInv, TablesShaped, MemoryShaped
    <3> QED
      BY <3>1, <3>2 DEF RecoveryInv, RepairInv, CommittedSound, MemoryInv, BootedMemorySound
  <2>5. CASE CrashAndReboot
    <3>1. bootStep' = "begin" /\ repairTx' = cacheDB /\ memory' = EmptyPool /\ UNCHANGED cacheDB
      BY <2>5 DEF CrashAndReboot
    <3>2. TablesShaped(cacheDB)' /\ TablesShaped(repairTx)'
      BY <2>1, <3>1 DEF RecoveryInv, TablesShaped
    <3>3. MemoryShaped'
      BY <3>1 DEF MemoryShaped, EmptyPool
    <3> QED
      BY <3>1, <3>2, <3>3 DEF RecoveryInv, RepairInv, CommittedSound, MemoryInv, BootedMemorySound
  <2> QED
    BY <2>1, <2>2, <2>3, <2>4, <2>5, ExecRepairKeeps, CommitKeeps, BootstrapKeeps DEF RecoveryNext
<1> QED
  BY <1>1, <1>2, PTL DEF RecoverySpec

\* RepairConsistency commits exactly the rows whose chain of references is
\* whole, whatever combination of rows the crashes before it left.
THEOREM RepairCorrect == RecoverySpec => []RepairKeepsExactlyTheLiving
<1>1. RecoveryInv => RepairKeepsExactlyTheLiving
  <2>1. SUFFICES ASSUME RecoveryInv, bootStep = "commit",
                        NEW living, living = {n \in cacheDB.statics : HeldBy(cacheDB, n) \cap stateDB.subs # {}}
                 PROVE  /\ repairTx.statics = living
                        /\ repairTx.dynamics = cacheDB.dynamics \cap living
                        /\ repairTx.latencies = cacheDB.latencies \cap living
                        /\ repairTx.leases = Restrict(cacheDB.leases, {k \in DOMAIN cacheDB.leases :
                                                k[1] \in stateDB.platforms /\ cacheDB.leases[k] \in living})
                        /\ repairTx.bindings = Restrict(cacheDB.bindings, {k \in DOMAIN cacheDB.bindings :
                                                /\ k[1] \in stateDB.subs
                                                /\ cacheDB.bindings[k] = "held" => k[2] \in living})
    BY DEF RepairKeepsExactlyTheLiving
  <2>2. living = Living
    <3>1. \A n \in cacheDB.statics : HeldBy(cacheDB, n) \cap stateDB.subs # {} <=>
            \E s \in stateDB.subs \cap SubIds :
              <<s, n>> \in DOMAIN cacheDB.bindings /\ cacheDB.bindings[<<s, n>>] = "held"
      BY DEF HeldBy
    <3> QED
      BY <2>1, <3>1 DEF Living
  <2>3. /\ repairTx.bindings = [k \in KeptBindings |-> cacheDB.bindings[k]]
        /\ repairTx.statics = Living
        /\ repairTx.dynamics = cacheDB.dynamics \cap Living
        /\ repairTx.latencies = cacheDB.latencies \cap Living
        /\ repairTx.leases = [k \in KeptLeases |-> cacheDB.leases[k]]
    BY <2>1 DEF RecoveryInv, RepairInv, Before
  <2>4. KeptBindings = {k \in DOMAIN cacheDB.bindings :
                          k[1] \in stateDB.subs /\ (cacheDB.bindings[k] = "held" => k[2] \in Living)}
    <3>1. ASSUME NEW k \in DOMAIN cacheDB.bindings, k[1] \in stateDB.subs, cacheDB.bindings[k] = "held"
          PROVE  k[2] \in cacheDB.statics <=> k[2] \in Living
      <4>1. k = <<k[1], k[2]>> /\ k[1] \in SubIds
        BY <2>1 DEF RecoveryInv, TablesShaped
      <4> QED
        BY <3>1, <4>1 DEF Living
    <3> QED
      BY <3>1 DEF KeptBindings
  <2> QED
    BY <2>2, <2>3, <2>4 DEF Restrict, KeptLeases
<1> QED
  BY <1>1, RecoveryInvariant, PTL

\* A process that has booted holds no dangling node, reference or lease, after
\* any number of crashes during the repair and the bootstrap.
THEOREM BootCorrect == RecoverySpec => []BootedMemorySound
<1>1. RecoveryInv => BootedMemorySound
  BY DEF RecoveryInv
<1> QED
  BY <1>1, RecoveryInvariant, PTL
=============================================================================
