SPECIFICATION Spec
CONSTANTS
  s1 = s1
  s2 = s2
  d1 = d1
  v1 = v1
  e1 = e1
  w1 = w1
  r1 = r1
  r2 = r2
  None = None
  Shipments = {s1, s2}
  Drivers = {d1}
  Vehicles = {v1}
  EquipmentUnits = {e1}
  Warehouses = {w1}
  Requests = {r1, r2}
  Loads = {1, 2}
  WarehouseCapacity <- MCWarehouseCapacity
  VehicleCapacity <- MCVehicleCapacity
  EquipmentWeight <- MCEquipmentWeight
  Calls <- AllCalls
  Edits = {"equipment", "load"}
  Unsteady = {}
  MaxVersion = 3
SYMMETRY Interchangeable
PROPERTIES
  OnlyRacesDoubleBook
  OnlyRacesOverfill
CHECK_DEADLOCK FALSE
