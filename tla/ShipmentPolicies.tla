-------------------------- MODULE ShipmentPolicies --------------------------
(***************************************************************************)
(* The lifecycle table of a shipment (app/services/shipment_policies.py).  *)
(* Every status change the service makes through _transition is checked    *)
(* against ALLOWED_TRANSITIONS.                                            *)
(***************************************************************************)

ALLOWED_TRANSITIONS ==
  [created    |-> {"ready", "cancelled"},
   ready      |-> {"assigned", "cancelled"},
   assigned   |-> {"picked_up", "cancelled", "failed"},
   picked_up  |-> {"in_transit", "cancelled", "failed"},
   in_transit |-> {"delayed", "delivered", "failed", "returned", "cancelled"},
   delayed    |-> {"in_transit", "delivered", "failed", "returned", "cancelled"},
   failed     |-> {"returned"},
   delivered  |-> {},
   cancelled  |-> {},
   returned   |-> {}]

Statuses == {"created", "ready", "assigned", "picked_up", "in_transit",
             "delayed", "delivered", "failed", "returned", "cancelled"}

TERMINAL_STATES == {"delivered", "cancelled", "returned", "failed"}

\* A driver (and, by the documents, a vehicle) is bound to the shipment.
ASSIGNED_STATES == {"assigned", "picked_up", "in_transit", "delayed"}

\* The shipment counts against warehouse capacity and holds its equipment.
ACTIVE_STATUSES == {"created", "ready"} \cup ASSIGNED_STATES

CanTransition(current, target) ==
  /\ current \in Statuses
  /\ target \in ALLOWED_TRANSITIONS[current]
=============================================================================
