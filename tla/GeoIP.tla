------------------------------- MODULE GeoIP -------------------------------
(***************************************************************************)
(* The GeoIP database: lookups hold the read lock while they use the       *)
(* reader; updates (at startup, by cron, on request) run one at a time     *)
(* under updateMu, download, verify, rename and swap the reader in; Stop   *)
(* cancels them and closes what is left.  A download goes directly and,    *)
(* when that fails in a way a proxy may help with, through up to two       *)
(* nodes.  An update may be cut short by a crash at any step.              *)
(***************************************************************************)
EXTENDS Naturals, FiniteSets

CONSTANTS GeoUpdaters,    \* goroutines that call UpdateNow: "startup", "cron", "api"
          Lookups,        \* goroutines that call Lookup
          MaxReaders,     \* bound on the readers opened
          MaxGeoCrashes   \* bound on the crashes

ASSUME GeoAssumption == GeoUpdaters \subseteq {"startup", "cron", "api"} /\ MaxReaders \in Nat

NoReader == 0
ReaderIds == 1..MaxReaders
UpdateSteps == {"idle", "lock", "direct", "proxied", "downloaded", "temp", "verify", "rename", "open", "swap", "close"}
\* of: what a download is for.  data: the asset read, intact or not.
Update == [at : UpdateSteps, of : {"release", "asset"}, tries : 0..2,
           data : {"none", "intact", "damaged"}, fresh : 0..MaxReaders, old : 0..MaxReaders]
IdleUpdate == [at |-> "idle", of |-> "release", tries |-> 0, data |-> "none", fresh |-> NoReader, old |-> NoReader]

VARIABLES reader,      \* Service.reader
          openReaders, \* the readers that are mapped and not closed
          opened,      \* readers opened so far
          using,       \* the reader each lookup holds the read lock for
          update,      \* each updater's progress
          updateMu,    \* who holds updateMu
          dbFile,      \* country.mmdb: what it holds
          geoLife,     \* the service's life
          geoCrashes

geoVars == <<reader, openReaders, opened, using, update, updateMu, dbFile, geoLife, geoCrashes>>

GeoInit ==
    /\ reader = NoReader
    /\ openReaders = {}
    /\ opened = 0
    /\ using = [l \in Lookups |-> NoReader]
    /\ update = [u \in GeoUpdaters |-> IdleUpdate]
    /\ updateMu = "free"
    /\ dbFile \in {"none", "intact"}
    /\ geoLife = "new"
    /\ geoCrashes = 0

Cancelled == geoLife \in {"cancelled", "waited", "locked", "swapped", "stopped"}

CanOpen == opened < MaxReaders
OpenReader == opened' = opened + 1 /\ openReaders' = openReaders \cup {opened + 1}

(* Start *)

\* Opening the file may fail, which is only logged; a missing or stale file
\* starts an update in a goroutine, and cron starts in any case.
GeoStart ==
    /\ geoLife = "new"
    /\ \/ dbFile # "none" /\ CanOpen /\ OpenReader /\ reader' = opened + 1
       \/ UNCHANGED <<reader, openReaders, opened>>
    /\ \E stale \in {dbFile = "none", TRUE} :
         update' = [u \in GeoUpdaters |-> IF u = "startup" /\ stale THEN [IdleUpdate EXCEPT !.at = "lock"] ELSE update[u]]
    /\ geoLife' = "running"
    /\ UNCHANGED <<using, updateMu, dbFile, geoCrashes>>

(* Lookup *)

BeginLookup(l) ==
    /\ using[l] = NoReader
    /\ reader # NoReader
    /\ using' = [using EXCEPT ![l] = reader]
    /\ UNCHANGED <<reader, openReaders, opened, update, updateMu, dbFile, geoLife, geoCrashes>>

EndLookup(l) ==
    /\ using[l] # NoReader
    /\ using' = [using EXCEPT ![l] = NoReader]
    /\ UNCHANGED <<reader, openReaders, opened, update, updateMu, dbFile, geoLife, geoCrashes>>

NoLookupInside == \A l \in Lookups : using[l] = NoReader

(* UpdateNow *)

\* Cron runs until it is stopped; a request may come at any time.
CallUpdate(u) ==
    /\ update[u].at = "idle"
    /\ \/ u = "cron" /\ geoLife = "running"
       \/ u = "api" /\ geoLife # "new"
    /\ update' = [update EXCEPT ![u] = [IdleUpdate EXCEPT !.at = "lock"]]
    /\ UNCHANGED <<reader, openReaders, opened, using, updateMu, dbFile, geoLife, geoCrashes>>

UpdateReturns(u) == update' = [update EXCEPT ![u] = IdleUpdate] /\ updateMu' = "free"
UpdateGoes(u, upd) == update' = [update EXCEPT ![u] = upd] /\ UNCHANGED updateMu

LockUpdate(u) ==
    /\ update[u].at = "lock"
    /\ updateMu = "free"
    /\ IF Cancelled
       THEN update' = [update EXCEPT ![u] = IdleUpdate] /\ UNCHANGED updateMu
       ELSE update' = [update EXCEPT ![u].at = "direct"] /\ updateMu' = u
    /\ UNCHANGED <<reader, openReaders, opened, using, dbFile, geoLife, geoCrashes>>

\* The direct attempt: done, or failed for good (cancelled, a status no
\* proxy changes, a malformed URL), or failed and worth a proxy.
DirectDownload(u) ==
    /\ update[u].at = "direct"
    /\ \/ ~Cancelled /\ UpdateGoes(u, [update[u] EXCEPT !.at = "downloaded"])
       \/ UpdateReturns(u)
       \/ ~Cancelled /\ UpdateGoes(u, [update[u] EXCEPT !.at = "proxied", !.tries = 0])
    /\ UNCHANGED <<reader, openReaders, opened, using, dbFile, geoLife, geoCrashes>>

\* Each of two attempts first looks at the context; an attempt whose node
\* cannot be picked counts like one whose fetch failed.
ProxiedDownload(u) ==
    /\ update[u].at = "proxied"
    /\ IF Cancelled \/ update[u].tries = 2
       THEN UpdateReturns(u)
       ELSE \/ UpdateGoes(u, [update[u] EXCEPT !.at = "downloaded"])
            \/ UpdateGoes(u, [update[u] EXCEPT !.tries = @ + 1])
    /\ UNCHANGED <<reader, openReaders, opened, using, dbFile, geoLife, geoCrashes>>

\* The release names the asset and its digest, or the update ends; the
\* asset's bytes are those of the digest, or not.
UseDownload(u) ==
    /\ update[u].at = "downloaded"
    /\ \/ update[u].of = "release" /\ UpdateGoes(u, [update[u] EXCEPT !.at = "direct", !.of = "asset"])
       \/ update[u].of = "release" /\ UpdateReturns(u)
       \/ /\ update[u].of = "asset"
          /\ \E data \in {"intact", "damaged"} : UpdateGoes(u, [update[u] EXCEPT !.at = "temp", !.data = data])
    /\ UNCHANGED <<reader, openReaders, opened, using, dbFile, geoLife, geoCrashes>>

WriteTemp(u) ==
    /\ update[u].at = "temp"
    /\ UpdateGoes(u, [update[u] EXCEPT !.at = "verify"]) \/ UpdateReturns(u)
    /\ UNCHANGED <<reader, openReaders, opened, using, dbFile, geoLife, geoCrashes>>

VerifySHA256(u) ==
    /\ update[u].at = "verify"
    /\ IF update[u].data = "intact"
       THEN UpdateGoes(u, [update[u] EXCEPT !.at = "rename"])
       ELSE UpdateReturns(u)
    /\ UNCHANGED <<reader, openReaders, opened, using, dbFile, geoLife, geoCrashes>>

\* Mutant: the digest is not compared.
VerifyNothing(u) ==
    /\ update[u].at = "verify"
    /\ UpdateGoes(u, [update[u] EXCEPT !.at = "rename"])
    /\ UNCHANGED <<reader, openReaders, opened, using, dbFile, geoLife, geoCrashes>>

\* The rename replaces the file; a context cancelled since ends the update.
RenameTemp(u) ==
    /\ update[u].at = "rename"
    /\ \/ ~Cancelled /\ dbFile' = update[u].data /\ UpdateGoes(u, [update[u] EXCEPT !.at = "open"])
       \/ UNCHANGED dbFile /\ UpdateReturns(u)
    /\ UNCHANGED <<reader, openReaders, opened, using, geoLife, geoCrashes>>

ReloadOpen(u) ==
    /\ update[u].at = "open"
    /\ \/ /\ ~Cancelled /\ CanOpen /\ OpenReader
          /\ UpdateGoes(u, [update[u] EXCEPT !.at = "swap", !.fresh = opened + 1])
       \/ UNCHANGED <<openReaders, opened>> /\ UpdateReturns(u)
    /\ UNCHANGED <<reader, using, dbFile, geoLife, geoCrashes>>

\* The write lock waits for the lookups inside.
ReloadSwap(u) ==
    /\ update[u].at = "swap"
    /\ NoLookupInside
    /\ reader' = update[u].fresh
    /\ UpdateGoes(u, [update[u] EXCEPT !.at = "close", !.old = reader])
    /\ UNCHANGED <<openReaders, opened, using, dbFile, geoLife, geoCrashes>>

ReloadClose(u) ==
    /\ update[u].at = "close"
    /\ openReaders' = openReaders \ {update[u].old}
    /\ UpdateReturns(u)
    /\ UNCHANGED <<reader, opened, using, dbFile, geoLife, geoCrashes>>

(* Stop *)

StopCancel ==
    /\ geoLife = "running"
    /\ geoLife' = "cancelled"
    /\ UNCHANGED <<reader, openReaders, opened, using, update, updateMu, dbFile, geoCrashes>>

StopCron ==
    /\ geoLife = "cancelled"
    /\ "cron" \in GeoUpdaters => update["cron"].at = "idle"
    /\ geoLife' = "waited"
    /\ UNCHANGED <<reader, openReaders, opened, using, update, updateMu, dbFile, geoCrashes>>

\* Mutant: Stop does not wait for an update in progress.
StopLockless ==
    /\ geoLife = "waited"
    /\ geoLife' = "locked"
    /\ UNCHANGED <<reader, openReaders, opened, using, update, updateMu, dbFile, geoCrashes>>

StopLock ==
    /\ geoLife = "waited"
    /\ updateMu = "free"
    /\ updateMu' = "stop"
    /\ geoLife' = "locked"
    /\ UNCHANGED <<reader, openReaders, opened, using, update, dbFile, geoCrashes>>

\* The reader is taken away under the write lock, then closed.
StopSwap ==
    /\ geoLife = "locked"
    /\ NoLookupInside
    /\ reader' = NoReader
    /\ openReaders' = openReaders \ {reader}
    /\ updateMu' = "free"
    /\ geoLife' = "stopped"
    /\ UNCHANGED <<opened, using, update, dbFile, geoCrashes>>

\* A crash keeps the file and loses the rest.
GeoCrash ==
    /\ geoCrashes < MaxGeoCrashes
    /\ geoCrashes' = geoCrashes + 1
    /\ reader' = NoReader
    /\ openReaders' = {}
    /\ using' = [l \in Lookups |-> NoReader]
    /\ update' = [u \in GeoUpdaters |-> IdleUpdate]
    /\ updateMu' = "free"
    /\ geoLife' = "new"
    /\ UNCHANGED <<opened, dbFile>>

GeoNext ==
    \/ GeoStart
    \/ \E l \in Lookups : BeginLookup(l) \/ EndLookup(l)
    \/ \E u \in GeoUpdaters :
         \/ CallUpdate(u) \/ LockUpdate(u)
         \/ DirectDownload(u) \/ ProxiedDownload(u) \/ UseDownload(u)
         \/ WriteTemp(u) \/ VerifySHA256(u) \/ RenameTemp(u)
         \/ ReloadOpen(u) \/ ReloadSwap(u) \/ ReloadClose(u)
    \/ StopCancel \/ StopCron \/ StopLock \/ StopSwap
    \/ GeoCrash

GeoSpec == GeoInit /\ [][GeoNext]_geoVars

GeoTypeOK ==
    /\ reader \in 0..MaxReaders
    /\ openReaders \subseteq ReaderIds
    /\ using \in [Lookups -> 0..MaxReaders]
    /\ update \in [GeoUpdaters -> Update]
    /\ updateMu \in GeoUpdaters \cup {"free", "stop"}
    /\ dbFile \in {"none", "intact", "damaged"}

----------------------------------------------------------------------------

\* A lookup never runs on a reader that a reload or Stop has closed (its
\* memory map would be gone), the published reader is an open one, and after
\* Stop none is left open, whatever update was on its way: the serialization
\* with UpdateNow "to prevent post-stop reader reload" holds.
ReadersSound ==
    /\ \A l \in Lookups : using[l] # NoReader => using[l] \in openReaders
    /\ reader # NoReader => reader \in openReaders
    /\ geoLife = "stopped" => reader = NoReader /\ openReaders = {}

============================================================================
