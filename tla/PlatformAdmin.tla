--------------------------- MODULE PlatformAdmin ----------------------------
(***************************************************************************)
(* Platforms: a row of state.db, and the object the pool serves requests   *)
(* with, found by id and by name.  Create, update, reset and delete write  *)
(* the row first and the pool after it.  Each database statement and each  *)
(* operation of the pool is atomic; nothing holds the operation together,  *)
(* so two of them may overlap anywhere.  A crash loses the pool, the boot  *)
(* makes it again from the rows.                                           *)
(*                                                                         *)
(* A configuration is two of its fields, the ones whose validity depends on*)
(* each other, so that partial updates of different fields can meet.       *)
(***************************************************************************)
EXTENDS Naturals, FiniteSets, ConcurrentMap

CONSTANTS
    PlatformIds, DefaultPlatformID,
    PlatformNames, DefaultPlatformName,
    Headers, NoHeader,     \* reverse_proxy_fixed_account_header
    AdminHandlers,         \* goroutines that serve requests of the API
    MaxAdminOps,           \* bound: operations begun
    MaxRestarts            \* bound

ASSUME AdminAssumption ==
    /\ DefaultPlatformID \in PlatformIds
    /\ DefaultPlatformName \in PlatformNames
    /\ MaxAdminOps \in Nat
    /\ MaxRestarts \in Nat

VARIABLES
    platformRows,          \* table platforms: id -> row
    platformByID,          \* pool: id -> object
    platformByName,        \* pool: name -> object
    handlers,              \* handler -> its operation
    usedIds,               \* ids given out; a new one is never used again
    overlap,               \* two operations have been under way at the same time
    adminOps, restarts

adminVars == <<platformRows, platformByID, platformByName, handlers, usedIds, overlap, adminOps, restarts>>
poolIndex == <<platformByID, platformByName>>

Behaviors == {"RANDOM", "FIXED_HEADER"}
Config == [behavior : Behaviors, header : Headers \cup {NoHeader}]
Row == [name : PlatformNames, config : Config]
Platform == [id : PlatformIds, row : Row]
DefaultConfig == [behavior |-> "RANDOM", header |-> NoHeader]
Idle == [op |-> "idle"]

AdminTypeOK ==
    /\ IsMap(platformRows, PlatformIds, Row)
    /\ IsMap(platformByID, PlatformIds, Platform)
    /\ IsMap(platformByName, PlatformNames, Platform)
    /\ \A h \in AdminHandlers :
         /\ handlers[h].op \in {"idle", "register", "patch", "replace", "unregister"}
         /\ handlers[h].op # "idle" => handlers[h].id \in PlatformIds
         /\ handlers[h].op \in {"register", "patch", "replace"} => handlers[h].row \in Row
    /\ usedIds \subseteq PlatformIds
    /\ overlap \in BOOLEAN
    /\ adminOps \in 0..MaxAdminOps /\ restarts \in 0..MaxRestarts

-----------------------------------------------------------------------------
(* The pool *)

\* bootstrapTopology after ensureDefaultPlatform: each row is registered.
PoolOf(rows) == [i \in DOMAIN rows |-> [id |-> i, row |-> rows[i]]]
IndexOf(rows) == [n \in {rows[i].name : i \in DOMAIN rows} |->
                    PoolOf(rows)[CHOOSE i \in DOMAIN rows : rows[i].name = n]]
EnsureDefaultPlatform(rows) ==
    IF DefaultPlatformID \in DOMAIN rows THEN rows
    ELSE MapPut(rows, DefaultPlatformID, [name |-> DefaultPlatformName, config |-> DefaultConfig])

AdminInit ==
    /\ platformRows = EnsureDefaultPlatform(EmptyMap)
    /\ platformByID = PoolOf(platformRows)
    /\ platformByName = IndexOf(platformRows)
    /\ handlers = [h \in AdminHandlers |-> Idle]
    /\ usedIds = {DefaultPlatformID}
    /\ overlap = FALSE
    /\ adminOps = 0 /\ restarts = 0

RegisterPlatform(plat) ==
    IF plat.id \in DOMAIN platformByID THEN UNCHANGED poolIndex
    ELSE /\ platformByID' = MapPut(platformByID, plat.id, plat)
         /\ platformByName' = MapPut(platformByName, plat.row.name, plat)

\* The name is removed only where it still points at this platform.
Unindex(plat) ==
    IF plat.row.name \in DOMAIN platformByName /\ platformByName[plat.row.name] = plat
    THEN MapDelete(platformByName, plat.row.name) ELSE platformByName

UnregisterPlatform(id) ==
    IF id \notin DOMAIN platformByID THEN UNCHANGED poolIndex
    ELSE /\ platformByName' = Unindex(platformByID[id])
         /\ platformByID' = MapDelete(platformByID, id)

\* ErrPlatformNotRegistered, ErrPlatformNameConflict
ReplaceRefused(next) ==
    \/ next.id \notin DOMAIN platformByID
    \/ /\ next.row.name \in DOMAIN platformByName
       /\ platformByName[next.row.name] # platformByID[next.id]

\* Mutant: the old name is not taken out of the index.
ReplaceKeepsName(next) ==
    IF ReplaceRefused(next) THEN UNCHANGED poolIndex
    ELSE /\ platformByName' = MapPut(platformByName, next.row.name, next)
         /\ platformByID' = MapPut(platformByID, next.id, next)

ReplacePlatform(next) ==
    IF ReplaceRefused(next) THEN UNCHANGED poolIndex
    ELSE /\ platformByName' = MapPut(Unindex(platformByID[next.id]), next.row.name, next)
         /\ platformByID' = MapPut(platformByID, next.id, next)

-----------------------------------------------------------------------------
(* Operations *)

Busy == \E h \in AdminHandlers : handlers[h] # Idle
BeginsOp(h) ==
    /\ handlers[h] = Idle
    /\ adminOps < MaxAdminOps
    /\ adminOps' = adminOps + 1
    /\ overlap' = (overlap \/ Busy)
    /\ UNCHANGED restarts

HandlerContinues == UNCHANGED <<adminOps, overlap, restarts, usedIds>>
HandlerDoes(h, step) == handlers' = [handlers EXCEPT ![h] = step]

\* validatePlatformEmptyAccountConfig
ValidConfig(c) == c.behavior = "FIXED_HEADER" => c.header # NoHeader

\* UpsertPlatform: by id, unless another row has the name.
Upsert(id, row) ==
    /\ \A i \in DOMAIN platformRows \ {id} : platformRows[i].name # row.name
    /\ platformRows' = MapPut(platformRows, id, row)

CreatePlatform(h, id, row) ==
    /\ BeginsOp(h)
    /\ id \notin usedIds /\ usedIds' = usedIds \cup {id}
    /\ row.name # DefaultPlatformName /\ ValidConfig(row.config)
    /\ Upsert(id, row)
    /\ HandlerDoes(h, [op |-> "register", id |-> id, row |-> row])
    /\ UNCHANGED poolIndex

FinishCreate(h) ==
    /\ handlers[h].op = "register"
    /\ RegisterPlatform([id |-> handlers[h].id, row |-> handlers[h].row])
    /\ HandlerDoes(h, Idle)
    /\ HandlerContinues /\ UNCHANGED platformRows

\* getPlatformModel, and the patch applied to what was read: any fields of the row,
\* each kept as read or set by the patch.
ReadPlatform(h, id, row) ==
    /\ BeginsOp(h)
    /\ id \in DOMAIN platformRows
    /\ IF id = DefaultPlatformID THEN row.name = DefaultPlatformName
       ELSE row.name # DefaultPlatformName
    /\ ValidConfig(row.config)
    /\ HandlerDoes(h, [op |-> "patch", id |-> id, row |-> row])
    /\ UNCHANGED <<platformRows, poolIndex, usedIds>>

\* ResetPlatformToDefault reads the name only.
ReadPlatformName(h, id) ==
    /\ BeginsOp(h)
    /\ id \in DOMAIN platformRows
    /\ HandlerDoes(h, [op |-> "patch", id |-> id,
                       row |-> [name |-> platformRows[id].name, config |-> DefaultConfig]])
    /\ UNCHANGED <<platformRows, poolIndex, usedIds>>

\* compileAndUpsertPlatform; a name that is taken or a failed write ends the operation.
PersistPatch(h) ==
    /\ handlers[h].op = "patch"
    /\ \/ Upsert(handlers[h].id, handlers[h].row) /\ HandlerDoes(h, [handlers[h] EXCEPT !.op = "replace"])
       \/ HandlerDoes(h, Idle) /\ UNCHANGED platformRows
    /\ HandlerContinues /\ UNCHANGED poolIndex

FinishPatch(h) ==
    /\ handlers[h].op = "replace"
    /\ ReplacePlatform([id |-> handlers[h].id, row |-> handlers[h].row])
    /\ HandlerDoes(h, Idle)
    /\ HandlerContinues /\ UNCHANGED platformRows

\* Mutant: the default platform is deleted like any other.
DeleteAny(h, id) ==
    /\ BeginsOp(h)
    /\ id \in DOMAIN platformRows
    /\ platformRows' = MapDelete(platformRows, id)
    /\ HandlerDoes(h, [op |-> "unregister", id |-> id])
    /\ UNCHANGED <<poolIndex, usedIds>>

DeletePlatform(h, id) ==
    /\ BeginsOp(h)
    /\ id # DefaultPlatformID
    /\ id \in DOMAIN platformRows
    /\ platformRows' = MapDelete(platformRows, id)
    /\ HandlerDoes(h, [op |-> "unregister", id |-> id])
    /\ UNCHANGED <<poolIndex, usedIds>>

\* Mutant: the row is deleted, the object stays.
FinishDeleteEarly(h) ==
    /\ handlers[h].op = "unregister"
    /\ HandlerDoes(h, Idle)
    /\ HandlerContinues /\ UNCHANGED <<platformRows, poolIndex>>

FinishDelete(h) ==
    /\ handlers[h].op = "unregister"
    /\ UnregisterPlatform(handlers[h].id)
    /\ HandlerDoes(h, Idle)
    /\ HandlerContinues /\ UNCHANGED platformRows

\* The process dies and boots from the rows.
RestartAdmin ==
    /\ restarts < MaxRestarts
    /\ restarts' = restarts + 1
    /\ platformRows' = EnsureDefaultPlatform(platformRows)
    /\ platformByID' = PoolOf(platformRows')
    /\ platformByName' = IndexOf(platformRows')
    /\ handlers' = [h \in AdminHandlers |-> Idle]
    /\ overlap' = FALSE
    /\ UNCHANGED <<usedIds, adminOps>>

AdminNext ==
    \/ \E h \in AdminHandlers, id \in PlatformIds :
         \/ \E row \in Row : CreatePlatform(h, id, row) \/ ReadPlatform(h, id, row)
         \/ ReadPlatformName(h, id) \/ DeletePlatform(h, id)
    \/ \E h \in AdminHandlers : FinishCreate(h) \/ PersistPatch(h) \/ FinishPatch(h) \/ FinishDelete(h)
    \/ RestartAdmin

AdminSpec == AdminInit /\ [][AdminNext]_adminVars

-----------------------------------------------------------------------------
(* Properties *)

\* A name leads to the object that the pool has under that object's id, and the
\* object has that name: no request is routed by a platform that was replaced,
\* renamed or deleted, however operations overlap (RegisterPlatform,
\* ReplacePlatform, UnregisterPlatform).
NameIndexSound ==
    \A n \in DOMAIN platformByName :
      LET plat == platformByName[n]
      IN  plat.row.name = n /\ plat.id \in DOMAIN platformByID /\ platformByID[plat.id] = plat

\* Operations that do not overlap leave rows and pool alike, failed ones and
\* crashes between the row and the pool included.
SerialOpsAgree == ~Busy /\ ~overlap => platformByID = PoolOf(platformRows)

\* The same for operations that overlap, which does not hold: no lock covers
\* the write of the row and the change of the pool, and the later write of two
\* may be the earlier change.
PoolFollowsRows == ~Busy => platformByID = PoolOf(platformRows)
=============================================================================
