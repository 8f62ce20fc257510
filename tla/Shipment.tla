------------------------------ MODULE Shipment ------------------------------
(***************************************************************************)
(* ShipmentService over its database (app/services/shipment_service.py).   *)
(*                                                                         *)
(* Every call runs in a request with a session of its own.  It reads rows  *)
(* at READ COMMITTED, decides, and writes one shipment row back; the row's *)
(* version column (version_id_col) turns a write based on an overwritten   *)
(* row into StaleDataError.  A request is therefore two or three steps     *)
(* here: the step that reads and validates, for pickup and transit a       *)
(* second read after the compliance gate, and the step that flushes and    *)
(* commits.  Anything may happen in between, and a request may end at any  *)
(* point without having written (an exception, a lost connection, a crash).*)
(* A call that a guard rejects changes nothing and is not a step.          *)
(***************************************************************************)
EXTENDS Integers, FiniteSetsExt, ShipmentPolicies

CONSTANTS
  Shipments, Drivers, Vehicles, EquipmentUnits, Warehouses,
  Requests,           \* requests that may be in flight at once
  None,               \* a NULL column
  Loads,              \* declared weights of a shipment
  WarehouseCapacity,  \* warehouse -> weight it takes
  VehicleCapacity,    \* vehicle -> weight it takes
  EquipmentWeight,    \* equipment unit -> its own weight
  Calls,              \* the operations clients call
  Edits,              \* the fields clients change with an update
  Unsteady,           \* what changes while requests are under way
  MaxVersion          \* bound: no call starts on a row at this version

Operations == {"create", "update", "mark_ready", "assign", "accept", "pickup",
               "transit", "delay", "deliver", "fail", "return", "cancel",
               "delete", "restore"}

ASSUME ShipmentAssumption ==
  /\ None \notin Shipments \cup Drivers \cup Vehicles \cup EquipmentUnits \cup Warehouses
  /\ IsFiniteSet(Shipments)
  /\ Loads \subseteq Nat
  /\ WarehouseCapacity \in [Warehouses -> Nat]
  /\ VehicleCapacity \in [Vehicles -> Nat]
  /\ EquipmentWeight \in [EquipmentUnits -> Nat]
  /\ Calls \subseteq Operations
  /\ Edits \subseteq {"equipment", "route", "load"}
  /\ Unsteady \subseteq {"drivers", "vehicles", "equipment", "compliance"}
  /\ MaxVersion \in Nat

VARIABLES
  ship,       \* the shipments table
  told,       \* last status change in each shipment's event stream
  req,        \* what each in-flight request holds in memory
  missed,     \* request -> shipments written since it read (history)
  available,  \* drivers with is_available
  active,     \* vehicles in status ACTIVE
  usable,     \* equipment units in an assignable status
  cleared     \* <<s, e>>: validate_dispatch would let s move with e

world == <<available, active, usable, cleared>>
vars == <<ship, told, req, missed, world>>

-----------------------------------------------------------------------------
(* Rows and requests *)

\* A row that was never inserted.
Absent == [status |-> "absent", driver |-> None, vehicle |-> None,
           equipment |-> None, origin |-> None, dest |-> None, load |-> 0,
           deleted |-> FALSE, version |-> 0]

Rows == [status : Statuses \cup {"absent"}, driver : Drivers \cup {None},
         vehicle : Vehicles \cup {None}, equipment : EquipmentUnits \cup {None},
         origin : Warehouses \cup {None}, dest : Warehouses \cup {None},
         load : Nat, deleted : BOOLEAN, version : Nat]

\* snap: the row as loaded; next: the row the session will flush; judged: the
\* equipment the compliance gate let pass for this request.
Idle == [pc |-> "idle"]

InFlight == [pc : {"gated", "flush"}, op : Operations, s : Shipments,
             snap : Rows, next : Rows, judged : EquipmentUnits \cup {None}]

Busy(r) == req[r] # Idle

\* The call is made: a worker is free and the shipment may still change.
Asked(r, op, s) ==
  /\ ~Busy(r)
  /\ op \in Calls
  /\ ship[s].version < MaxVersion

\* get_by_id_or_raise and the is_deleted guard.
Live(s) == ship[s].status # "absent" /\ ~ship[s].deleted

\* The request has validated: it will flush row next over the row it loaded.
ToFlush(r, op, s, next, judged) ==
  /\ req' = [req EXCEPT ![r] = [pc |-> "flush", op |-> op, s |-> s,
                                snap |-> ship[s], next |-> next,
                                judged |-> judged]]
  /\ missed' = [missed EXCEPT ![r] = {}]
  /\ UNCHANGED <<ship, told, world>>

\* _transition up to its flush: validated against the table, then mutated.
Transition(r, op, s, target, mutated) ==
  /\ Live(s)
  /\ CanTransition(ship[s].status, target)
  /\ ToFlush(r, op, s, [mutated EXCEPT !.status = target], None)

-----------------------------------------------------------------------------
(* What the service asks the database *)

\* Fault: only shipments not yet picked up are counted.
HasActiveDriverFault(d, s) ==
  \E t \in Shipments \ {s} : /\ ship[t].driver = d
                             /\ ship[t].status = "assigned"
                             /\ ~ship[t].deleted

HasActiveDriver(d, s) ==
  \E t \in Shipments \ {s} : /\ ship[t].driver = d
                             /\ ship[t].status \in ASSIGNED_STATES
                             /\ ~ship[t].deleted

HasActiveVehicle(v, s) ==
  \E t \in Shipments \ {s} : /\ ship[t].vehicle = v
                             /\ ship[t].status \in ASSIGNED_STATES
                             /\ ~ship[t].deleted

HasActiveEquipment(e, s) ==
  \E t \in Shipments \ {s} : /\ ship[t].equipment = e
                             /\ ship[t].status \in ACTIVE_STATUSES
                             /\ ~ship[t].deleted

\* _validate_equipment: assignable, free, and not heavier than declared.
ValidEquipment(e, s, load) ==
  /\ e \in usable
  /\ ~HasActiveEquipment(e, s)
  /\ load >= EquipmentWeight[e]

CurrentLoad(w) ==
  MapThenSumSet(LAMBDA s : ship[s].load,
                {s \in Shipments : /\ w \in {ship[s].origin, ship[s].dest}
                                   /\ ship[s].status \in ACTIVE_STATUSES
                                   /\ ~ship[s].deleted})

\* _enforce_dispatch_gate: no equipment, no question.
GatePasses(s) == ship[s].equipment # None => <<s, ship[s].equipment>> \in cleared

-----------------------------------------------------------------------------
(* Operations: the step that reads and decides *)

\* Fault: the load that is to be added is not counted.
CreateShipmentFault(r, s) ==
  /\ Asked(r, "create", s)
  /\ ship[s] = Absent
  /\ \E o, d \in Warehouses, l \in Loads :
       /\ \A w \in {o, d} : CurrentLoad(w) < WarehouseCapacity[w]
       /\ ToFlush(r, "create", s, [Absent EXCEPT !.status = "created", !.origin = o,
                                                 !.dest = d, !.load = l], None)

CreateShipment(r, s) ==
  /\ Asked(r, "create", s)
  /\ ship[s] = Absent
  /\ \E o, d \in Warehouses, e \in EquipmentUnits \cup {None}, l \in Loads :
       /\ e # None => ValidEquipment(e, s, l)
       /\ \A w \in {o, d} : CurrentLoad(w) + l <= WarehouseCapacity[w]
       /\ ToFlush(r, "create", s,
                  [Absent EXCEPT !.status = "created", !.equipment = e,
                                 !.origin = o, !.dest = d, !.load = l], None)

\* PATCH: a field left out keeps its value.
Patched(field, old, values) == IF field \in Edits THEN values \cup {old} ELSE {old}

\* Capacity is not asked again.
UpdateShipment(r, s) ==
  /\ Asked(r, "update", s)
  /\ Live(s)
  /\ ship[s].status \notin TERMINAL_STATES
  /\ \E o \in Patched("route", ship[s].origin, Warehouses),
        d \in Patched("route", ship[s].dest, Warehouses),
        e \in Patched("equipment", ship[s].equipment, EquipmentUnits),
        l \in Patched("load", ship[s].load, Loads) :
       /\ e # ship[s].equipment => ValidEquipment(e, s, l)
       /\ ToFlush(r, "update", s,
                  [ship[s] EXCEPT !.equipment = e, !.origin = o,
                                  !.dest = d, !.load = l], None)

MarkReady(r, s) ==
  Asked(r, "mark_ready", s) /\ Transition(r, "mark_ready", s, "ready", ship[s])

\* The gate commits its DispatchCleared event, but the request keeps the row it
\* loaded (expire_on_commit=False), so nothing is read again before the flush.
AssignShipment(r, s) ==
  /\ Asked(r, "assign", s)
  /\ Live(s)
  /\ \E d \in available, v \in active :
       /\ ~HasActiveDriver(d, s)
       /\ ~HasActiveVehicle(v, s)
       /\ ship[s].load <= VehicleCapacity[v]
       /\ GatePasses(s)
       /\ CanTransition(ship[s].status, "assigned")
       /\ ToFlush(r, "assign", s,
                  [ship[s] EXCEPT !.status = "assigned", !.driver = d, !.vehicle = v],
                  ship[s].equipment)

\* Driver self-accept: no vehicle, no gate, and its own status guard.
AssignDriverOnly(r, s) ==
  /\ Asked(r, "accept", s)
  /\ Live(s)
  /\ ship[s].status \in {"ready", "created"}
  /\ \E d \in available :
       /\ ~HasActiveDriver(d, s)
       /\ ToFlush(r, "accept", s,
                  [ship[s] EXCEPT !.status = "assigned", !.driver = d], None)

\* The first half of pickup_shipment and start_transit: the gate is asked about
\* whatever row the id names, before any guard on deletion or status.
EnforceGate(r, s) ==
  \E op \in {"pickup", "transit"} :
    /\ Asked(r, op, s)
    /\ ship[s].status # "absent"
    /\ GatePasses(s)
    /\ req' = [req EXCEPT ![r] = [pc |-> "gated", op |-> op, s |-> s,
                                  snap |-> ship[s], next |-> ship[s],
                                  judged |-> ship[s].equipment]]
    /\ missed' = [missed EXCEPT ![r] = {}]
    /\ UNCHANGED <<ship, told, world>>

\* The second half: the row the gate looked at was a temporary, so _transition
\* loads the shipment again in the transaction after the gate's commit.
MoveGated(r) ==
  LET s == req[r].s
      target == IF req[r].op = "pickup" THEN "picked_up" ELSE "in_transit"
  IN /\ Busy(r)
     /\ req[r].pc = "gated"
     /\ ship[s].version < MaxVersion
     /\ Live(s)
     /\ CanTransition(ship[s].status, target)
     /\ ToFlush(r, req[r].op, s, [ship[s] EXCEPT !.status = target], req[r].judged)

MarkDelayed(r, s) ==
  Asked(r, "delay", s) /\ Transition(r, "delay", s, "delayed", ship[s])

\* deliver_shipment defines _mutate, which stamps delivered_at, but does not
\* hand it to _transition.
DeliverShipment(r, s) ==
  Asked(r, "deliver", s) /\ Transition(r, "deliver", s, "delivered", ship[s])

FailShipment(r, s) ==
  Asked(r, "fail", s) /\ Transition(r, "fail", s, "failed", ship[s])

ReturnShipment(r, s) ==
  Asked(r, "return", s) /\ Transition(r, "return", s, "returned", ship[s])

CancelShipment(r, s) ==
  Asked(r, "cancel", s) /\ Transition(r, "cancel", s, "cancelled", ship[s])

DeleteShipment(r, s) ==
  /\ Asked(r, "delete", s)
  /\ Live(s)
  /\ ToFlush(r, "delete", s, [ship[s] EXCEPT !.deleted = TRUE], None)

RestoreShipment(r, s) ==
  /\ Asked(r, "restore", s)
  /\ ship[s].deleted
  /\ ToFlush(r, "restore", s, [ship[s] EXCEPT !.deleted = FALSE], None)

-----------------------------------------------------------------------------
(* Operations: the step that writes *)

\* Fault: the row is written whatever happened to it since it was loaded.
VersionMatchesFault(r) == ship[req[r].s].version >= req[r].snap.version

\* flush: UPDATE ... WHERE id = :id AND version = :loaded.  For an insert the
\* version 0 stands for the key that must still be free.
VersionMatches(r) == ship[req[r].s].version = req[r].snap.version

\* The request ends; those still under way have not seen the rows it wrote.
Ends(r, written) ==
  /\ req' = [req EXCEPT ![r] = Idle]
  /\ missed' = [q \in Requests |-> IF Busy(q) /\ q # r THEN missed[q] \cup written ELSE {}]

\* Faults: the version column is not raised;
\* the event takes its previous status from the row it is about to write.
CommitWith(r, raise, told1) ==
  LET s == req[r].s
      after == [req[r].next EXCEPT !.version = req[r].snap.version + raise]
  IN /\ Busy(r)
     /\ req[r].pc = "flush"
     /\ VersionMatches(r)
     /\ ship' = [ship EXCEPT ![s] = after]
     /\ told' = told1
     /\ Ends(r, {s})
     /\ UNCHANGED world

StatusEvent(r, from) == [from |-> from, to |-> req[r].next.status]

CommitVersionFault(r) ==
  CommitWith(r, 0, IF req[r].next.status = req[r].snap.status THEN told
                   ELSE [told EXCEPT ![req[r].s] = StatusEvent(r, req[r].snap.status)])

CommitPreviousFault(r) ==
  CommitWith(r, 1, IF req[r].next.status = req[r].snap.status THEN told
                   ELSE [told EXCEPT ![req[r].s] = StatusEvent(r, req[r].next.status)])

\* flush, the status event with the status seen at load time, commit.
Commit(r) ==
  LET s == req[r].s
      before == req[r].snap
      after == [req[r].next EXCEPT !.version = before.version + 1]
  IN /\ Busy(r)
     /\ req[r].pc = "flush"
     /\ VersionMatches(r)
     /\ ship' = [ship EXCEPT ![s] = after]
     /\ told' = IF after.status = before.status THEN told
                ELSE [told EXCEPT ![s] = [from |-> before.status, to |-> after.status]]
     /\ Ends(r, {s})
     /\ UNCHANGED world

\* The request ends without having written its row: a guard of _transition
\* raised, StaleDataError, a conflict on the event version, a crash.
Abort(r) ==
  /\ Busy(r)
  /\ Ends(r, {})
  /\ UNCHANGED <<ship, told, world>>

-----------------------------------------------------------------------------
(* The rest of the system, as far as the guards above read it *)

SetAvailability(d) ==
  /\ "drivers" \in Unsteady
  /\ available' = IF d \in available THEN available \ {d} ELSE available \cup {d}
  /\ UNCHANGED <<ship, told, req, missed, active, usable, cleared>>

SetVehicleStatus(v) ==
  /\ "vehicles" \in Unsteady
  /\ active' = IF v \in active THEN active \ {v} ELSE active \cup {v}
  /\ UNCHANGED <<ship, told, req, missed, available, usable, cleared>>

SetEquipmentStatus(e) ==
  /\ "equipment" \in Unsteady
  /\ usable' = IF e \in usable THEN usable \ {e} ELSE usable \cup {e}
  /\ UNCHANGED <<ship, told, req, missed, available, active, cleared>>

\* A permit, an escort or a check of the shipment changes.
SetCompliance(s, e) ==
  /\ "compliance" \in Unsteady
  /\ cleared' = IF <<s, e>> \in cleared THEN cleared \ {<<s, e>>}
                ELSE cleared \cup {<<s, e>>}
  /\ UNCHANGED <<ship, told, req, missed, available, active, usable>>

Init ==
  /\ ship = [s \in Shipments |-> Absent]
  /\ told = [s \in Shipments |-> [from |-> "absent", to |-> "absent"]]
  /\ req = [r \in Requests |-> Idle]
  /\ missed = [r \in Requests |-> {}]
  /\ available = Drivers
  /\ active = Vehicles
  /\ usable = EquipmentUnits
  /\ cleared = {}

Handle(r, s) ==
  \/ CreateShipment(r, s) \/ UpdateShipment(r, s) \/ MarkReady(r, s)
  \/ AssignShipment(r, s) \/ AssignDriverOnly(r, s) \/ EnforceGate(r, s)
  \/ MarkDelayed(r, s) \/ DeliverShipment(r, s) \/ FailShipment(r, s)
  \/ ReturnShipment(r, s) \/ CancelShipment(r, s)
  \/ DeleteShipment(r, s) \/ RestoreShipment(r, s)

Next ==
  \/ \E r \in Requests, s \in Shipments : Handle(r, s)
  \/ \E r \in Requests : MoveGated(r) \/ Commit(r) \/ Abort(r)
  \/ \E d \in Drivers : SetAvailability(d)
  \/ \E v \in Vehicles : SetVehicleStatus(v)
  \/ \E e \in EquipmentUnits : SetEquipmentStatus(e)
  \/ \E s \in Shipments, e \in EquipmentUnits : SetCompliance(s, e)

Spec == Init /\ [][Next]_vars

-----------------------------------------------------------------------------
(* Properties *)

\* Every row, event and request in flight has the shape the code gives it.
TypeOK ==
  /\ ship \in [Shipments -> Rows]
  /\ told \in [Shipments -> [from : Statuses \cup {"absent"}, to : Statuses \cup {"absent"}]]
  /\ req \in [Requests -> {Idle} \cup InFlight]
  /\ missed \in [Requests -> SUBSET Shipments]
  /\ available \subseteq Drivers
  /\ active \subseteq Vehicles
  /\ usable \subseteq EquipmentUnits
  /\ cleared \subseteq Shipments \X EquipmentUnits

\* Request r writes the row of s in this step.
Writes(r, s) ==
  /\ Busy(r)
  /\ req[r].s = s
  /\ req'[r] = Idle
  /\ ship'[s] # ship[s]

\* No lost update: a row is replaced only by a request that computed the new row
\* from the row it replaces, however many requests were in flight on it
\* (version_id_col on Shipment).
NoLostUpdate ==
  [][\A s \in Shipments : ship'[s] # ship[s] =>
       \E r \in Requests : Writes(r, s) /\ req[r].snap = ship[s]]_vars

\* Between any two committed versions the status moves along the table of
\* shipment_policies.py, plus the one extra edge of driver self-accept, also when
\* two requests validated their transition against the same old status.
LegalStep(from, to) ==
  \/ from = to
  \/ from = "absent" /\ to = "created"
  \/ CanTransition(from, to)
  \/ from = "created" /\ to = "assigned"

StatusStepLegal(s) == LegalStep(ship[s].status, ship'[s].status)

\* A soft-deleted shipment is out of everybody's reach: no transition, update or
\* assignment that was under way when it was deleted lands on it; the only change
\* is a restore, which brings back exactly the row that was deleted.
DeletedIsFrozen(s) ==
  ship[s].deleted /\ ship'[s] # ship[s] =>
    ship'[s] = [ship[s] EXCEPT !.deleted = FALSE, !.version = @ + 1]

\* docs/19 rule 7, under races: once a shipment is delivered, cancelled, returned
\* or failed, no edit or assignment that started earlier changes what it carried,
\* who carried it or its status (failed -> returned excepted).
TerminalIsFinal(s) ==
  ship[s].status \in TERMINAL_STATES =>
    \E st \in {ship[s].status} \cup ALLOWED_TRANSITIONS[ship[s].status] :
      ship'[s] = [ship[s] EXCEPT !.status = st, !.deleted = ship'[s].deleted,
                                 !.version = ship'[s].version]

\* The three together: what a row may become, whichever requests interleave.
HistoryKept ==
  [][\A s \in Shipments : StatusStepLegal(s) /\ DeletedIsFrozen(s) /\ TerminalIsFinal(s)]_vars

\* The status-change events of a shipment form a chain: each names as previous
\* status the status the event before it announced, and the last one announces
\* the status of the row, so a consumer folding the stream arrives at the row.
StreamChains ==
  [][\A s \in Shipments : told'[s] # told[s] => told'[s].from = told[s].to]_vars

StreamTellsStatus == \A s \in Shipments : told[s].to = ship[s].status

\* Whoever moved a shipment into a committed status, a driver is bound to it, and
\* none is bound before.
DriverBound(row) ==
  /\ row.status \in ASSIGNED_STATES => row.driver # None
  /\ row.status \in {"absent", "created", "ready"} => row.driver = None

AssignedHasDriver == \A s \in Shipments : DriverBound(ship[s])

\* What makes the properties above inductive.  A version number names one row
\* content: a loaded row at the current version is the current row.  And what a
\* request is about to flush is a sound successor of the row it loaded.
SnapshotsCurrent ==
  \A r \in Requests : Busy(r) =>
    /\ req[r].snap.version <= ship[req[r].s].version
    /\ req[r].snap.version = ship[req[r].s].version => req[r].snap = ship[req[r].s]

SoundPlan(old, new) ==
  /\ LegalStep(old.status, new.status)
  /\ old.deleted => new = [old EXCEPT !.deleted = FALSE]
  /\ old.status \in TERMINAL_STATES =>
       \E st \in {old.status} \cup ALLOWED_TRANSITIONS[old.status] :
         new = [old EXCEPT !.status = st, !.deleted = new.deleted]
  /\ DriverBound(new)

SoundPlans ==
  \A r \in Requests : Busy(r) /\ req[r].pc = "flush" => SoundPlan(req[r].snap, req[r].next)

JudgedAsLoaded ==
  \A r \in Requests : Busy(r) /\ req[r].op = "assign" =>
    req[r].pc = "flush" /\ req[r].snap.equipment = req[r].judged

IInv ==
  /\ TypeOK
  /\ SnapshotsCurrent
  /\ SoundPlans
  /\ JudgedAsLoaded
  /\ AssignedHasDriver
  /\ StreamTellsStatus

\* The same seen without numbers, as OptimisticRows has it: a row never inserted
\* has no columns; a request that waits for its flush holds a plan for one row,
\* until that row's version is another one than it loaded, and then it is doomed.
\* A request that has only passed the gate holds nothing of what it will write.
AsRow(row) == IF row = Absent THEN [status |-> "absent", deleted |-> FALSE] ELSE row

AsPlan(q) == [pc |-> "flush", op |-> q.op,
              loaded |-> [s \in {q.s} |-> AsRow(q.snap)],
              writes |-> [s \in {q.s} |-> [q.next EXCEPT !.version = q.snap.version + 1]],
              then |-> Idle]

AsRequest(r) ==
  IF req[r].pc # "flush" THEN Idle
  ELSE IF VersionMatches(r) THEN AsPlan(req[r]) ELSE [pc |-> "doomed"]

AnyCall(r, scope) == Calls

Optimistic == INSTANCE OptimisticRows
  WITH Ids <- Shipments, Unversioned <- {}, Scopes <- {Shipments}, CallsOf <- AnyCall,
       db <- [s \in Shipments |-> AsRow(ship[s])],
       req <- [r \in Requests |-> AsRequest(r)]

\* ShipmentService with its version numbers implements the optimistic protocol of
\* OptimisticRows, which has none: every read of a request that leads to a flush is
\* of the row as it is, a commit dooms exactly the other requests that hold a plan
\* for that row, and a doomed request can only end (StaleDataError).
RowsAreOptimistic == Optimistic!Spec

\* docs/21 section 7, for assign_shipment: whatever happens between the gate and
\* the commit, the equipment on the row that is moved is what the gate let pass.
CargoJudged(ops) ==
  \A r \in Requests, s \in Shipments :
    Writes(r, s) /\ req[r].op \in ops => ship[s].equipment \in {None, req[r].judged}

AssignedCargoJudged == [][CargoJudged({"assign"})]_vars

\* docs/04: a driver, a vehicle, an equipment unit is held by one shipment.  What
\* a row holds, by kind.
Holding(row, statuses) == row.status \in statuses /\ ~row.deleted

HeldBy(row) ==
  ((IF Holding(row, ASSIGNED_STATES)
    THEN {<<"driver", row.driver>>, <<"vehicle", row.vehicle>>} ELSE {})
   \cup (IF Holding(row, ACTIVE_STATUSES) THEN {<<"equipment", row.equipment>>} ELSE {}))
  \ {<<kind, None>> : kind \in {"driver", "vehicle", "equipment"}}

SharedBy(s, t) == HeldBy(ship[s]) \cap HeldBy(ship[t])

\* Two shipments come to hold the same thing only by a commit of a request that had
\* looked before the other shipment took it (the queries of assign, accept, create and
\* update see committed rows alone), or that restores a shipment, which asks nothing.
DoubleBooks(r, s, t) == Writes(r, s) /\ (t \in missed[r] \/ req[r].op = "restore")

OnlyRacesDoubleBook ==
  [][\A s, t \in Shipments : s # t /\ ~(SharedBy(s, t)' \subseteq SharedBy(s, t)) =>
       \E r \in Requests : DoubleBooks(r, s, t) \/ DoubleBooks(r, t, s)]_vars

\* docs/19 rule 4: load is added to a warehouse beyond what it takes only by a request
\* that had summed up before another commit, or that does not ask: a restore, or an
\* update that changes the route or the load.
Overfills(r, s) ==
  /\ Writes(r, s)
  /\ \/ missed[r] # {}
     \/ req[r].op = "restore"
     \/ /\ req[r].op = "update"
        /\ <<ship[s].origin, ship[s].dest, ship[s].load>>
             # <<ship'[s].origin, ship'[s].dest, ship'[s].load>>

OnlyRacesOverfill ==
  [][\A w \in Warehouses :
       CurrentLoad(w)' > CurrentLoad(w) /\ CurrentLoad(w)' > WarehouseCapacity[w] =>
         \E r \in Requests, s \in Shipments : Overfills(r, s)]_vars
=============================================================================
