----------------------------- MODULE MCShipment -----------------------------
(* Values of the constants of Shipment for model checking. *)
EXTENDS Shipment, TLC

CONSTANTS s1, s2, d1, v1, e1, w1, r1, r2

\* The warehouses take two units of load, a vehicle one, equipment weighs one.
MCWarehouseCapacity == [w \in Warehouses |-> 2]
MCVehicleCapacity == [v \in Vehicles |-> 1]
MCEquipmentWeight == [e \in EquipmentUnits |-> 1]

AllCalls == Operations

Interchangeable ==
  Permutations(Requests) \cup Permutations(Shipments)
=============================================================================
