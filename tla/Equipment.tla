----------------------------- MODULE Equipment ------------------------------
(***************************************************************************)
(* EquipmentService: units of heavy equipment with a life cycle (status)   *)
(* and, in a second column, whether a unit can be had (availability).      *)
(* Every operation sets the two together except assign_to_shipment, which  *)
(* sets the second alone, and asking for the status a unit already has,    *)
(* which sets neither.                                                     *)
(***************************************************************************)
EXTENDS OptimisticRows

CONSTANTS
  Categories, Models, Units, Shipments,
  Conditions   \* sets of transport conditions a unit may have

ASSUME EquipmentAssumption ==
  /\ UNION {Categories, Models, Units, Shipments} \subseteq Ids
  /\ \A conditions \in Conditions :
       conditions \subseteq {"permit", "hazardous", "oversize", "escort", "insurance"}

EquipmentTransitions ==
  [active |-> {"under_maintenance", "reserved", "in_transit", "inactive", "decommissioned"},
   under_maintenance |-> {"active"}, reserved |-> {"active", "in_transit"},
   in_transit |-> {"active"}, inactive |-> {"active", "decommissioned"},
   decommissioned |-> {}]

Assignable == {"active", "reserved", "in_transit"}

Availabilities == {"available", "reserved", "assigned", "maintenance", "unavailable"}

CategoryRows == [status : {"category"}, deleted : BOOLEAN, parent : Categories \cup {None}]

ModelRows == [status : {"model"}, deleted : BOOLEAN, category : Categories]

\* needs: the flags and dimensions that ask for a permit, an escort, insurance.
UnitRows == [status : DOMAIN EquipmentTransitions, deleted : BOOLEAN,
             availability : Availabilities, needs : Conditions]

-----------------------------------------------------------------------------
(* Reference data *)

CreateCategory(r) ==
  /\ Asked(r, "create_category")
  /\ \E g \in Among(Categories), parent \in Among(Categories) \cup {None} :
       /\ parent # None => Owned(parent)
       /\ Insert(r, "create_category", g,
                 [status |-> "category", deleted |-> FALSE, parent |-> parent])

UpdateCategory(r) ==
  /\ Asked(r, "update_category")
  /\ \E g \in Among(Categories) : Live(g) /\ Write(r, "update_category", g, db[g])

CreateModel(r) ==
  /\ Asked(r, "create_model")
  /\ \E m \in Among(Models), g \in Among(Categories) :
       /\ Owned(g)
       /\ Insert(r, "create_model", m,
                 [status |-> "model", deleted |-> FALSE, category |-> g])

UpdateModel(r) ==
  /\ Asked(r, "update_model")
  /\ \E m \in Among(Models) : Live(m) /\ Write(r, "update_model", m, db[m])

-----------------------------------------------------------------------------
(* Units *)

\* With a category, and perhaps a model, of the tenant where they are looked at.
CreateEquipment(r) ==
  /\ Asked(r, "create_equipment")
  /\ \E u \in Among(Units), needs \in Conditions :
       /\ Among(Categories) # {} => \E g \in Among(Categories) : Owned(g)
       /\ Insert(r, "create_equipment", u,
                 [status |-> "active", deleted |-> FALSE,
                  availability |-> "available", needs |-> needs])

UpdateEquipment(r) ==
  /\ Asked(r, "update_equipment")
  /\ \E u \in Among(Units), needs \in Conditions :
       /\ Live(u)
       /\ db[u].status # "decommissioned"
       /\ Write(r, "update_equipment", u, [db[u] EXCEPT !.needs = needs])

\* The status and the availability an operation leads to.
EquipmentOperations ==
  [activate |-> <<"active", "available">>, deactivate |-> <<"inactive", "unavailable">>,
   release |-> <<"active", "available">>, mark_in_transit |-> <<"in_transit", "assigned">>,
   mark_delivered |-> <<"active", "available">>,
   start_maintenance |-> <<"under_maintenance", "maintenance">>,
   complete_maintenance |-> <<"active", "available">>,
   decommission |-> <<"decommissioned", "unavailable">>]

EquipmentTransition(r, op, u, status, availability) ==
  Transition(r, op, u, EquipmentTransitions, status,
             [db[u] EXCEPT !.availability = availability])

EquipmentOperation(r) ==
  \E op \in DOMAIN EquipmentOperations, u \in Among(Units) :
    /\ Asked(r, op)
    /\ EquipmentTransition(r, op, u, EquipmentOperations[op][1], EquipmentOperations[op][2])

\* An assigned unit is active and cannot be reserved.
ReserveEquipment(r) ==
  /\ Asked(r, "reserve")
  /\ \E u \in Among(Units) :
       /\ Live(u)
       /\ db[u].availability = "available"
       /\ EquipmentTransition(r, "reserve", u, "reserved", "reserved")

\* Fault: the status is not looked at.
AssignToShipmentFault(r) ==
  /\ Asked(r, "assign_equipment")
  /\ \E u \in Among(Units), s \in Among(Shipments) :
       /\ Live(u)
       /\ Owned(s)
       /\ Write(r, "assign_equipment", u, [db[u] EXCEPT !.availability = "assigned"])

\* The availability is not looked at: a unit that is assigned, or reserved for
\* somebody else, is assigned (again).
AssignToShipment(r) ==
  /\ Asked(r, "assign_equipment")
  /\ \E u \in Among(Units), s \in Among(Shipments) :
       /\ InStatus(u, Assignable)
       /\ Owned(s)
       /\ Write(r, "assign_equipment", u, [db[u] EXCEPT !.availability = "assigned"])

DeleteEquipment(r) ==
  /\ Asked(r, "delete_equipment")
  /\ \E u \in Among(Units) : SoftDelete(r, "delete_equipment", u)

RestoreEquipment(r) ==
  /\ Asked(r, "restore_equipment")
  /\ \E u \in Among(Units) : Undelete(r, "restore_equipment", u)

\* By the routes that lead to them: categories and models, units, what happens to a
\* unit (assign_to_shipment, mark_in_transit and mark_delivered have none yet).
ReferenceStep(r) == CreateCategory(r) \/ UpdateCategory(r) \/ CreateModel(r) \/ UpdateModel(r)

UnitStep(r) ==
  CreateEquipment(r) \/ UpdateEquipment(r) \/ DeleteEquipment(r) \/ RestoreEquipment(r)

OperationStep(r) == EquipmentOperation(r) \/ ReserveEquipment(r) \/ AssignToShipment(r)

EquipmentStep(r) == ReferenceStep(r) \/ UnitStep(r) \/ OperationStep(r)

-----------------------------------------------------------------------------
(* Properties *)

EquipmentTyped ==
  /\ \A g \in Among(Categories) : Exists(g) => db[g] \in CategoryRows
  /\ \A m \in Among(Models) : Exists(m) => db[m] \in ModelRows
  /\ \A u \in Among(Units) : Exists(u) => db[u] \in UnitRows

\* docs/20: the two columns of a unit agree, whichever of the operations that
\* race on it came last, deletion and restoration included: only an active unit
\* is available, and one that is out of service is never bound to anything.
Agree(unit) ==
  unit.availability \in CASE unit.status = "active" -> {"available", "assigned"}
                          [] unit.status = "reserved" -> {"reserved", "assigned"}
                          [] unit.status = "in_transit" -> {"assigned"}
                          [] unit.status = "under_maintenance" -> {"maintenance"}
                          [] OTHER -> {"unavailable"}

AvailabilityAgrees == \A u \in Among(Units) : Exists(u) => Agree(db[u])
=============================================================================
