-------------------------- MODULE EndpointRuntime ---------------------------
(***************************************************************************)
(* Custom endpoints: a row of state.db says on which port and with which   *)
(* capabilities a listener should run, the endpoint manager runs it.       *)
(*                                                                         *)
(* Create, update and delete hold endpointMu from their first read to their*)
(* last write: one runs at a time.  The manager has its own lock, so a     *)
(* listener may die, and old listeners may go on closing, in between.  A   *)
(* port is held by the listener that bound it until that one is closed:    *)
(* besides the running ones these are the replaced ones, closed in the     *)
(* background, and the ones whose Serve failed, which nobody closes but the*)
(* garbage collector.  A bind may also fail for reasons outside.  A crash  *)
(* loses all but the rows.                                                 *)
(***************************************************************************)
EXTENDS Naturals, ConcurrentMap

CONSTANTS
    Endpoints,         \* ids of custom endpoints
    Ports,             \* ports other than the default endpoint's
    DefaultPort,
    CapabilitySets,    \* what a request may ask for, see Capabilities
    MaxCrashes         \* bound

ASSUME EndpointAssumption == MaxCrashes \in Nat

Capabilities == {"management", "proxy", "authInfo", "forward", "reverse", "socks5"}

VARIABLES
    endpointRows,      \* table endpoints
    runtimes,          \* id -> what its listener serves
    statuses,          \* id -> status shown by the API
    retiring,          \* ports of replaced or removed listeners, not closed yet
    dead,              \* ports of listeners whose Serve failed
    admin,             \* the operation that holds endpointMu
    manager,           \* "boot", "started", "stopping"
    restoring,         \* rows the boot has not looked at
    rollbackFailed,    \* ids whose row could not be put back
    endpointCrashes

endpointVars == <<endpointRows, runtimes, statuses, retiring, dead, admin, manager,
                  restoring, rollbackFailed, endpointCrashes>>
listeners == <<runtimes, statuses, retiring, dead>>

Endpoint == [port : Ports \cup {DefaultPort}, enabled : BOOLEAN, caps : CapabilitySets]
NoAdmin == [op |-> "none"]
Served(e) == [port |-> e.port, caps |-> e.caps]

EndpointTypeOK ==
    /\ IsMap(endpointRows, Endpoints, Endpoint)
    /\ IsMap(runtimes, Endpoints, [port : Ports, caps : CapabilitySets, started : BOOLEAN])
    /\ IsMap(statuses, Endpoints, {"starting", "active", "error"})
    /\ retiring \subseteq Ports /\ dead \subseteq Ports
    /\ admin.op \in {"none", "apply", "remove", "undo", "undoRow"}
    /\ admin.op # "none" => admin.id \in Endpoints
    /\ manager \in {"boot", "started", "stopping"}
    /\ restoring \subseteq Endpoints /\ rollbackFailed \subseteq Endpoints
    /\ endpointCrashes \in 0..MaxCrashes

EndpointInit ==
    /\ endpointRows = EmptyMap /\ runtimes = EmptyMap /\ statuses = EmptyMap
    /\ retiring = {} /\ dead = {}
    /\ admin = NoAdmin
    /\ manager = "boot"
    /\ restoring = {} /\ rollbackFailed = {}
    /\ endpointCrashes = 0

-----------------------------------------------------------------------------
(* endpointRuntimeManager *)

Bound == {runtimes[i].port : i \in DOMAIN runtimes} \cup retiring \cup dead

\* ApplyEndpoint with the port it has: the configuration is swapped.
ApplyInPlace(id, e) ==
    /\ manager # "stopping"
    /\ id \in DOMAIN runtimes /\ runtimes[id].port = e.port
    /\ runtimes' = [runtimes EXCEPT ![id].caps = e.caps]
    /\ statuses' = MapPut(statuses, id, IF runtimes[id].started THEN "active" ELSE "starting")
    /\ UNCHANGED <<retiring, dead>>

\* ApplyEndpoint on a new port: listen there, publish, then retire the old one.
ApplyListens(id, e) ==
    /\ manager # "stopping"
    /\ id \in DOMAIN runtimes => runtimes[id].port # e.port
    /\ e.port \notin Bound
    /\ runtimes' = MapPut(runtimes, id, [port |-> e.port, caps |-> e.caps, started |-> manager = "started"])
    /\ statuses' = MapPut(statuses, id, IF manager = "started" THEN "active" ELSE "starting")
    /\ retiring' = retiring \cup {runtimes[i].port : i \in DOMAIN runtimes \cap {id}}
    /\ UNCHANGED dead

\* ApplyEndpoint fails: the manager is stopping, or the port cannot be bound.
ApplyFails(id, e) ==
    /\ \/ manager = "stopping" /\ UNCHANGED statuses
       \/ /\ manager # "stopping"
          /\ id \in DOMAIN runtimes => runtimes[id].port # e.port
          /\ statuses' = IF id \in DOMAIN runtimes THEN statuses ELSE MapPut(statuses, id, "error")
    /\ UNCHANGED <<runtimes, retiring, dead>>

\* RemoveEndpoint closes the listener before it returns.
RemoveEndpoint(id) ==
    /\ runtimes' = MapDelete(runtimes, id)
    /\ statuses' = MapDelete(statuses, id)
    /\ UNCHANGED <<retiring, dead>>

\* handleRuntimeError: Serve returned an error that is not the end of a shutdown.
ServeFails(id) ==
    /\ id \in DOMAIN runtimes /\ runtimes[id].started
    /\ runtimes' = MapDelete(runtimes, id)
    /\ statuses' = MapPut(statuses, id, "error")
    /\ dead' = dead \cup {runtimes[id].port}
    /\ UNCHANGED <<endpointRows, retiring, admin, manager, restoring, rollbackFailed, endpointCrashes>>

\* stopManagedEndpoint closes a replaced listener; a dead one is finalized.
ListenerCloses(port) ==
    /\ port \in retiring \cup dead
    /\ retiring' = retiring \ {port} /\ dead' = dead \ {port}
    /\ UNCHANGED <<endpointRows, runtimes, statuses, admin, manager, restoring, rollbackFailed, endpointCrashes>>

ShutdownEndpoints ==
    /\ manager = "started"
    /\ manager' = "stopping"
    /\ retiring' = retiring \cup {runtimes[i].port : i \in DOMAIN runtimes}
    /\ runtimes' = EmptyMap
    /\ UNCHANGED <<endpointRows, statuses, dead, admin, restoring, rollbackFailed, endpointCrashes>>

-----------------------------------------------------------------------------
(* Operations of the control plane, under endpointMu *)

\* validateEndpoint
ValidateEndpoint(e) ==
    /\ e.port # DefaultPort
    /\ e.caps \cap {"management", "proxy"} # {}
    /\ IF "proxy" \in e.caps
       THEN /\ e.caps \cap {"forward", "reverse", "socks5"} # {}
            /\ "authInfo" \in e.caps => e.caps \cap {"forward", "socks5"} # {}
       ELSE e.caps \subseteq {"management"}

PortFree(id, e) == \A i \in DOMAIN endpointRows \ {id} : endpointRows[i].port # e.port
AdminFree == admin = NoAdmin /\ manager # "boot"
OnlyRows == UNCHANGED <<listeners, manager, restoring, rollbackFailed, endpointCrashes>>

\* InsertEndpoint with a new id; the unique port decides.
CreateEndpoint(id, e) ==
    /\ AdminFree
    /\ id \notin DOMAIN endpointRows
    /\ ValidateEndpoint(e) /\ PortFree(id, e)
    /\ endpointRows' = MapPut(endpointRows, id, e)
    /\ admin' = IF e.enabled THEN [op |-> "apply", id |-> id, before |-> {}] ELSE NoAdmin
    /\ OnlyRows

\* A patch that changes something; what it was is kept for the rollback.
UpdateEndpoint(id, e) ==
    /\ AdminFree
    /\ id \in DOMAIN endpointRows
    /\ ValidateEndpoint(e) /\ e # endpointRows[id] /\ PortFree(id, e)
    /\ endpointRows' = MapPut(endpointRows, id, e)
    /\ admin' = [op |-> IF e.enabled THEN "apply" ELSE "remove", id |-> id,
                 before |-> {endpointRows[id]}]
    /\ OnlyRows

DeleteEndpoint(id) ==
    /\ AdminFree
    /\ id \in DOMAIN endpointRows
    /\ endpointRows' = MapDelete(endpointRows, id)
    /\ admin' = [op |-> "remove", id |-> id, before |-> {}]
    /\ OnlyRows

AdminApplies ==
    /\ admin.op = "apply"
    /\ LET e == endpointRows[admin.id]
       IN  \/ (ApplyInPlace(admin.id, e) \/ ApplyListens(admin.id, e)) /\ admin' = NoAdmin
           \/ ApplyFails(admin.id, e) /\ admin' = [admin EXCEPT !.op = "undo"]
    /\ UNCHANGED <<endpointRows, manager, restoring, rollbackFailed, endpointCrashes>>

AdminRemoves ==
    /\ admin.op = "remove"
    /\ RemoveEndpoint(admin.id)
    /\ admin' = NoAdmin
    /\ UNCHANGED <<endpointRows, manager, restoring, rollbackFailed, endpointCrashes>>

\* After a failed listen: an endpoint that was enabled before goes on as it was.
AdminUndoes ==
    /\ admin.op = "undo"
    /\ IF \E e \in admin.before : e.enabled
       THEN UNCHANGED listeners ELSE RemoveEndpoint(admin.id)
    /\ admin' = [admin EXCEPT !.op = "undoRow"]
    /\ UNCHANGED <<endpointRows, manager, restoring, rollbackFailed, endpointCrashes>>

\* Mutant: the row keeps what could not be applied.
KeepRow ==
    /\ admin.op = "undoRow"
    /\ admin' = NoAdmin
    /\ UNCHANGED <<endpointRows, listeners, manager, restoring, rollbackFailed, endpointCrashes>>

\* The row is put back, or deleted where there was none.
UndoRow ==
    /\ admin.op = "undoRow"
    /\ \/ /\ \/ admin.before = {} /\ endpointRows' = MapDelete(endpointRows, admin.id)
             \/ \E e \in admin.before : endpointRows' = MapPut(endpointRows, admin.id, e)
          /\ UNCHANGED rollbackFailed
       \/ rollbackFailed' = rollbackFailed \cup {admin.id} /\ UNCHANGED endpointRows
    /\ admin' = NoAdmin
    /\ UNCHANGED <<listeners, manager, restoring, endpointCrashes>>

-----------------------------------------------------------------------------
(* Crash, boot, start *)

EndpointCrash ==
    /\ endpointCrashes < MaxCrashes
    /\ endpointCrashes' = endpointCrashes + 1
    /\ runtimes' = EmptyMap /\ statuses' = EmptyMap /\ retiring' = {} /\ dead' = {}
    /\ admin' = NoAdmin
    /\ manager' = "boot"
    /\ restoring' = {i \in DOMAIN endpointRows : endpointRows[i].enabled}
    /\ rollbackFailed' = {}
    /\ UNCHANGED endpointRows

\* restorePersistedEndpoints: a row that cannot be applied is an error, not the end.
RestoreEndpoint(id) ==
    /\ manager = "boot" /\ id \in restoring
    /\ restoring' = restoring \ {id}
    /\ ApplyListens(id, endpointRows[id]) \/ ApplyFails(id, endpointRows[id])
    /\ UNCHANGED <<endpointRows, admin, manager, rollbackFailed, endpointCrashes>>

StartEndpoints ==
    /\ manager = "boot" /\ restoring = {}
    /\ manager' = "started"
    /\ runtimes' = [i \in DOMAIN runtimes |-> [runtimes[i] EXCEPT !.started = TRUE]]
    /\ statuses' = [i \in DOMAIN statuses |-> IF i \in DOMAIN runtimes THEN "active" ELSE statuses[i]]
    /\ UNCHANGED <<endpointRows, retiring, dead, admin, restoring, rollbackFailed, endpointCrashes>>

EndpointNext ==
    \/ \E id \in Endpoints, e \in Endpoint : CreateEndpoint(id, e) \/ UpdateEndpoint(id, e)
    \/ \E id \in Endpoints : DeleteEndpoint(id) \/ ServeFails(id) \/ RestoreEndpoint(id)
    \/ AdminApplies \/ AdminRemoves \/ AdminUndoes \/ UndoRow
    \/ \E port \in Ports : ListenerCloses(port)
    \/ ShutdownEndpoints \/ EndpointCrash \/ StartEndpoints

EndpointSpec == EndpointInit /\ [][EndpointNext]_endpointVars

-----------------------------------------------------------------------------
(* Properties *)

\* Between operations every listener serves what its row says, and only enabled
\* rows have one; a row without its listener is shown as an error. That holds
\* through failed binds and their rollback, dying listeners and crashes between
\* the row and the listener (UpdateEndpoint, ApplyEndpoint, handleRuntimeError).
ListenerFollowsRow ==
    admin = NoAdmin /\ manager = "started" =>
      \A id \in Endpoints \ rollbackFailed :
        IF id \in DOMAIN endpointRows /\ endpointRows[id].enabled
        THEN \/ /\ id \in DOMAIN runtimes
                /\ Served(runtimes[id]) = Served(endpointRows[id])
                /\ statuses[id] = "active"
             \/ id \notin DOMAIN runtimes /\ id \in DOMAIN statuses /\ statuses[id] = "error"
        ELSE id \notin DOMAIN runtimes /\ id \notin DOMAIN statuses
=============================================================================
