-------------------------- MODULE OperationsProofs ---------------------------
(***************************************************************************)
(* Theorems about Operations: its departments keep the promise of          *)
(* OptimisticRows, and their own.                                          *)
(*                                                                         *)
(* The promises follow from one invariant, OpsInv.  It says what is so of  *)
(* the rows (DbInv) and of what every request is about to write (PlansFit: *)
(* each row fits the one it was computed from, entries of the indexes move *)
(* with the rows that occupy them, an attempt is written together with its *)
(* notification), and who may write what beside whom (FreshKept for the    *)
(* tables without versions, OneBearer for the refresh tokens).             *)
(***************************************************************************)
EXTENDS Operations, OptimisticRowsProofs, FiniteSetTheorems

\* A single-row operation of a service.
LEMMA Writing ==
  ASSUME RowsInv, NEW r \in Requests, NEW op, NEW x \in DOMAIN db, NEW row,
         req[r].pc # "flush", Write(r, op, x, row)
  PROVE  TakeUp(r)
BY WriteTakesUp DEF RowsInv, Flushing

\* One that writes several.
LEMMA Planning ==
  ASSUME RowsInv, NEW r \in Requests, NEW op, NEW writes, NEW then,
         req[r].pc # "flush", then.pc # "flush", DOMAIN writes \subseteq DOMAIN db,
         Prepare(r, Plan(op, writes, then))
  PROVE  TakeUp(r)
BY PrepareTakesUp DEF RowsInv, Flushing

\* Who is asked is idle.
LEMMA AskedIsIdle ==
  ASSUME NEW r \in Requests, NEW op, Asked(r, op)
  PROVE  req[r].pc # "flush"
BY DEF Asked, Idle

\* Categories and models.
LEMMA ReferenceTakesUp ==
  ASSUME RowsInv, NEW r \in Requests, ReferenceStep(r)
  PROVE  TakeUp(r)
<1>1. CASE CreateCategory(r)
  BY <1>1, Writing, AskedIsIdle DEF CreateCategory, Insert, Among
<1>2. CASE UpdateCategory(r)
  BY <1>2, Writing, AskedIsIdle DEF UpdateCategory, Among
<1>3. CASE CreateModel(r)
  BY <1>3, Writing, AskedIsIdle DEF CreateModel, Insert, Among
<1>4. CASE UpdateModel(r)
  BY <1>4, Writing, AskedIsIdle DEF UpdateModel, Among
<1> QED
  BY <1>1, <1>2, <1>3, <1>4 DEF ReferenceStep

\* Units of equipment.
LEMMA UnitTakesUp ==
  ASSUME RowsInv, NEW r \in Requests, UnitStep(r)
  PROVE  TakeUp(r)
<1>1. CASE CreateEquipment(r)
  BY <1>1, Writing, AskedIsIdle DEF CreateEquipment, Insert, Among
<1>2. CASE UpdateEquipment(r)
  BY <1>2, Writing, AskedIsIdle DEF UpdateEquipment, Among
<1>3. CASE DeleteEquipment(r)
  BY <1>3, Writing, AskedIsIdle DEF DeleteEquipment, SoftDelete, Among
<1>4. CASE RestoreEquipment(r)
  BY <1>4, Writing, AskedIsIdle DEF RestoreEquipment, Undelete, Among
<1> QED
  BY <1>1, <1>2, <1>3, <1>4 DEF UnitStep

\* What happens to a unit.
LEMMA OperationTakesUp ==
  ASSUME RowsInv, NEW r \in Requests, OperationStep(r)
  PROVE  TakeUp(r)
<1>1. CASE EquipmentOperation(r)
  BY <1>1, Writing, AskedIsIdle DEF EquipmentOperation, EquipmentTransition, Transition, Among
<1>2. CASE ReserveEquipment(r)
  BY <1>2, Writing, AskedIsIdle DEF ReserveEquipment, EquipmentTransition, Transition, Among
<1>3. CASE AssignToShipment(r)
  BY <1>3, Writing, AskedIsIdle DEF AssignToShipment, Among
<1> QED
  BY <1>1, <1>2, <1>3 DEF OperationStep

\* Permits.
LEMMA PermitTakesUp ==
  ASSUME RowsInv, NEW r \in Requests, PermitStep(r)
  PROVE  TakeUp(r)
<1>1. CASE CreatePermit(r)
  BY <1>1, Writing, AskedIsIdle DEF CreatePermit, Insert, Among
<1>2. CASE PermitTransition(r)
  BY <1>2, Writing, AskedIsIdle DEF PermitTransition, Transition, Among
<1>3. CASE ApprovePermit(r)
  BY <1>3, Writing, AskedIsIdle DEF ApprovePermit, Transition, Among
<1>4. CASE UpdatePermit(r)
  BY <1>4, Writing, AskedIsIdle DEF UpdatePermit, Among
<1>5. CASE DeletePermit(r)
  BY <1>5, Writing, AskedIsIdle DEF DeletePermit, SoftDelete, Among
<1>6. CASE RestorePermit(r)
  BY <1>6, Writing, AskedIsIdle DEF RestorePermit, Undelete, Among
<1> QED
  BY <1>1, <1>2, <1>3, <1>4, <1>5, <1>6 DEF PermitStep

\* Escorts.
LEMMA EscortTakesUp ==
  ASSUME RowsInv, NEW r \in Requests, EscortStep(r)
  PROVE  TakeUp(r)
<1>1. CASE CreateEscort(r)
  BY <1>1, Writing, AskedIsIdle DEF CreateEscort, Insert, Among
<1>2. CASE ScheduleEscort(r)
  BY <1>2, Writing, AskedIsIdle DEF ScheduleEscort, Among
<1>3. CASE CancelEscort(r)
  BY <1>3, Writing, AskedIsIdle DEF CancelEscort, Among
<1> QED
  BY <1>1, <1>2, <1>3 DEF EscortStep

\* Restrictions, axle weights, certifications.
LEMMA RecordTakesUp ==
  ASSUME RowsInv, NEW r \in Requests, RecordStep(r)
  PROVE  TakeUp(r)
<1>1. CASE CreateRouteRestriction(r)
  BY <1>1, Writing, AskedIsIdle DEF CreateRouteRestriction, Insert, Among
<1>2. CASE UpdateRouteRestriction(r)
  BY <1>2, Writing, AskedIsIdle DEF UpdateRouteRestriction, Among
<1>3. CASE CreateAxleWeightProfile(r)
  BY <1>3, Writing, AskedIsIdle DEF CreateAxleWeightProfile, Insert, Among
<1>4. CASE CreateOperatorCertification(r)
  BY <1>4, Writing, AskedIsIdle DEF CreateOperatorCertification, Insert, Among
<1>5. CASE ExpireOperatorCertification(r)
  BY <1>5, Writing, AskedIsIdle DEF ExpireOperatorCertification, Among
<1> QED
  BY <1>1, <1>2, <1>3, <1>4, <1>5 DEF RecordStep

\* Evaluations and overrides.
LEMMA CheckTakesUp ==
  ASSUME RowsInv, NEW r \in Requests, CheckStep(r)
  PROVE  TakeUp(r)
<1>1. CASE EvaluateCompliance(r)
  BY <1>1, Planning, AskedIsIdle DEF EvaluateCompliance, Among, Idle
<1>2. CASE ApplyComplianceOverride(r)
  BY <1>2, Writing, AskedIsIdle DEF ApplyComplianceOverride, Among
<1> QED
  BY <1>1, <1>2 DEF CheckStep

\* Partners and their names.
LEMMA PartnerTakesUp ==
  ASSUME RowsInv, NEW r \in Requests, PartnerStep(r)
  PROVE  TakeUp(r)
<1>1. CASE CreatePartner(r)
  BY <1>1, Planning, AskedIsIdle DEF CreatePartner, Among, Idle
<1>2. CASE UpdatePartner(r)
  BY <1>2, Planning, AskedIsIdle DEF UpdatePartner, Among, Idle
<1>3. CASE SuspendPartner(r)
  BY <1>3, Writing, AskedIsIdle DEF SuspendPartner, Among
<1>4. CASE ActivatePartner(r)
  BY <1>4, Writing, AskedIsIdle DEF ActivatePartner, Among
<1>5. CASE DeletePartner(r)
  BY <1>5, Writing, AskedIsIdle DEF DeletePartner, SoftDelete, Among
<1> QED
  BY <1>1, <1>2, <1>3, <1>4, <1>5 DEF PartnerStep

\* API keys.
LEMMA KeyTakesUp ==
  ASSUME RowsInv, NEW r \in Requests, KeyStep(r)
  PROVE  TakeUp(r)
<1>1. CASE CreateApiKey(r)
  BY <1>1, Writing, AskedIsIdle DEF CreateApiKey, Insert, Among
<1>2. CASE RevokeApiKey(r)
  BY <1>2, Writing, AskedIsIdle DEF RevokeApiKey, Among
<1>3. CASE RotateApiKey(r)
  BY <1>3, Planning, AskedIsIdle DEF RotateApiKey, Among, Idle
<1> QED
  BY <1>1, <1>2, <1>3 DEF KeyStep

\* Calls of partners, in two transactions.
LEMMA InboundTakesUp ==
  ASSUME RowsInv, NEW r \in Requests, InboundStep(r)
  PROVE  TakeUp(r)
<1>1. CASE Authenticate(r)
  BY <1>1, Planning, AskedIsIdle DEF Authenticate, Among, Row
<1>2. CASE ReceiveInboundEvent(r)
  BY <1>2, Planning, AskedIsIdle DEF ReceiveInboundEvent, Received, Among, Idle
<1>3. CASE ProcessInboundEvent(r)
  BY <1>3, Writing, AskedIsIdle DEF ProcessInboundEvent, Among
<1>4. CASE RejectInboundEvent(r)
  BY <1>4, Writing, AskedIsIdle DEF RejectInboundEvent, Among
<1> QED
  BY <1>1, <1>2, <1>3, <1>4 DEF InboundStep

\* Webhook subscriptions.
LEMMA SubscriptionTakesUp ==
  ASSUME RowsInv, NEW r \in Requests, SubscriptionStep(r)
  PROVE  TakeUp(r)
<1>1. CASE CreateSubscription(r)
  BY <1>1, Writing, AskedIsIdle DEF CreateSubscription, Insert, Among
<1>2. CASE UpdateSubscription(r)
  BY <1>2, Writing, AskedIsIdle DEF UpdateSubscription, Among
<1>3. CASE ActivateSubscription(r)
  BY <1>3, Writing, AskedIsIdle DEF ActivateSubscription, Among
<1>4. CASE DeactivateSubscription(r)
  BY <1>4, Writing, AskedIsIdle DEF DeactivateSubscription, Among
<1>5. CASE DeleteSubscription(r)
  BY <1>5, Writing, AskedIsIdle DEF DeleteSubscription, SoftDelete, Among
<1>6. CASE RotateSubscriptionSecret(r)
  BY <1>6, Writing, AskedIsIdle DEF RotateSubscriptionSecret, Among
<1> QED
  BY <1>1, <1>2, <1>3, <1>4, <1>5, <1>6 DEF SubscriptionStep

\* Templates.
LEMMA TemplateTakesUp ==
  ASSUME RowsInv, NEW r \in Requests, TemplateStep(r)
  PROVE  TakeUp(r)
<1>1. CASE CreateTemplate(r)
  BY <1>1, Planning, AskedIsIdle DEF CreateTemplate, Among, Idle
<1>2. CASE UpdateTemplate(r)
  BY <1>2, Writing, AskedIsIdle DEF UpdateTemplate, Among
<1>3. CASE ActivateTemplate(r)
  BY <1>3, Writing, AskedIsIdle DEF ActivateTemplate, SetTemplateActive, Among
<1>4. CASE DeactivateTemplate(r)
  BY <1>4, Writing, AskedIsIdle DEF DeactivateTemplate, SetTemplateActive, Among
<1>5. CASE DeleteTemplate(r)
  BY <1>5, Writing, AskedIsIdle DEF DeleteTemplate, SoftDelete, Among
<1>6. CASE RestoreTemplate(r)
  BY <1>6, Writing, AskedIsIdle DEF RestoreTemplate, Undelete, Among
<1> QED
  BY <1>1, <1>2, <1>3, <1>4, <1>5, <1>6 DEF TemplateStep

\* Notifications and their attempts.
LEMMA NotificationTakesUp ==
  ASSUME RowsInv, NEW r \in Requests, NotificationStep(r)
  PROVE  TakeUp(r)
<1>1. CASE CreateNotification(r)
  BY <1>1, Planning, AskedIsIdle DEF CreateNotification, Among, Idle
<1>2. CASE QueueNotification(r)
  BY <1>2, Writing, AskedIsIdle DEF QueueNotification, Transition, Among
<1>3. CASE SendNotification(r)
  BY <1>3, Planning, AskedIsIdle DEF SendNotification, Deliver, Among, Idle
<1>4. CASE RetryNotification(r)
  BY <1>4, Planning, AskedIsIdle DEF RetryNotification, Deliver, Among, Idle
<1>5. CASE CancelNotification(r)
  BY <1>5, Writing, AskedIsIdle DEF CancelNotification, Transition, Among
<1>6. CASE MarkRead(r)
  BY <1>6, Writing, AskedIsIdle DEF MarkRead, Transition, Among
<1> QED
  BY <1>1, <1>2, <1>3, <1>4, <1>5, <1>6 DEF NotificationStep

\* Users.
LEMMA UserTakesUp ==
  ASSUME RowsInv, NEW r \in Requests, UserStep(r)
  PROVE  TakeUp(r)
<1>1. CASE CreateUser(r)
  BY <1>1, Planning, AskedIsIdle DEF CreateUser, CreateKeyed, Among, Idle
<1>2. CASE UpdateUser(r)
  BY <1>2, Writing, AskedIsIdle DEF UpdateUser, Among
<1>3. CASE DeleteUser(r)
  BY <1>3, Planning, AskedIsIdle DEF DeleteUser, Among, Idle
<1> QED
  BY <1>1, <1>2, <1>3 DEF UserStep

\* Drivers.
LEMMA DriverTakesUp ==
  ASSUME RowsInv, NEW r \in Requests, DriverStep(r)
  PROVE  TakeUp(r)
<1>1. CASE CreateDriver(r)
  BY <1>1, Planning, AskedIsIdle DEF CreateDriver, Among, Idle
<1>2. CASE UpdateDriver(r)
  BY <1>2, Planning, AskedIsIdle DEF UpdateDriver, Rename, Among, Idle
<1>3. CASE SetAvailability(r)
  BY <1>3, Writing, AskedIsIdle DEF SetAvailability, Among
<1>4. CASE DeleteDriver(r)
  BY <1>4, Planning, AskedIsIdle DEF DeleteDriver, Among, Idle
<1> QED
  BY <1>1, <1>2, <1>3, <1>4 DEF DriverStep

\* Vehicles.
LEMMA VehicleTakesUp ==
  ASSUME RowsInv, NEW r \in Requests, VehicleStep(r)
  PROVE  TakeUp(r)
<1>1. CASE CreateVehicle(r)
  BY <1>1, Planning, AskedIsIdle DEF CreateVehicle, CreateKeyed, Among, Idle
<1>2. CASE UpdateVehicle(r)
  <2>1. PICK v \in Among(Vehicles) :
          \/ \E plate \in Among(Plates) : Rename(r, "update_vehicle", v, plate)
          \/ \E status \in {"active", "maintenance"} :
               Write(r, "update_vehicle", v, [db[v] EXCEPT !.status = status])
    BY <1>2 DEF UpdateVehicle
  <2>2. req[r].pc # "flush"
    BY <1>2, AskedIsIdle DEF UpdateVehicle
  <2>3. CASE \E plate \in Among(Plates) : Rename(r, "update_vehicle", v, plate)
    BY <2>2, <2>3, Planning DEF Rename, Among, Idle
  <2>4. CASE \E status \in {"active", "maintenance"} :
               Write(r, "update_vehicle", v, [db[v] EXCEPT !.status = status])
    BY <2>2, <2>4, Writing DEF Among
  <2> QED
    BY <2>1, <2>3, <2>4
<1>3. CASE DeleteVehicle(r)
  BY <1>3, Planning, AskedIsIdle DEF DeleteVehicle, DeleteKeyed, Among, Idle
<1> QED
  BY <1>1, <1>2, <1>3 DEF VehicleStep

\* Warehouses.
LEMMA WarehouseTakesUp ==
  ASSUME RowsInv, NEW r \in Requests, WarehouseStep(r)
  PROVE  TakeUp(r)
<1>1. CASE CreateWarehouse(r)
  BY <1>1, Planning, AskedIsIdle DEF CreateWarehouse, CreateKeyed, Among, Idle
<1>2. CASE UpdateWarehouse(r)
  BY <1>2, Writing, AskedIsIdle DEF UpdateWarehouse, Among
<1>3. CASE DeleteWarehouse(r)
  BY <1>3, Planning, AskedIsIdle DEF DeleteWarehouse, DeleteKeyed, Among, Idle
<1> QED
  BY <1>1, <1>2, <1>3 DEF WarehouseStep

\* Sessions, refreshed in two steps.
LEMMA SessionTakesUp ==
  ASSUME RowsInv, NEW r \in Requests, SessionStep(r)
  PROVE  TakeUp(r)
<1>1. CASE Login(r)
  BY <1>1, Writing, AskedIsIdle DEF Login, Insert, Among
<1>2. CASE ConsumeRefreshToken(r)
  BY <1>2, Planning, AskedIsIdle DEF ConsumeRefreshToken, Among, Row
<1>3. CASE IssueTokenPair(r)
  BY <1>3, Writing, AskedIsIdle DEF IssueTokenPair, Insert, Among
<1>4. CASE Logout(r)
  BY <1>4, Writing, AskedIsIdle DEF Logout, Among
<1> QED
  BY <1>1, <1>2, <1>3, <1>4 DEF SessionStep

\* Shipments, as far as they are seen from here; events and their replay.
LEMMA OthersTakeUp ==
  ASSUME RowsInv, NEW r \in Requests,
         CreateShipment(r) \/ Dispatch(r) \/ HandleDomainEvent(r) \/ ReplayEvent(r)
  PROVE  TakeUp(r)
<1>1. CASE CreateShipment(r)
  BY <1>1, Writing, AskedIsIdle DEF CreateShipment, Insert, Among
<1>2. CASE Dispatch(r)
  BY <1>2, Writing, AskedIsIdle DEF Dispatch, Among
<1>3. CASE HandleDomainEvent(r)
  <2>1. req[r].pc # "flush" /\ Idle.pc # "flush"
    BY <1>3, AskedIsIdle DEF HandleDomainEvent, Idle
  <2>2. PICK k \in Among(EventKeys) :
          \/ Prepare(r, Plan("handle_domain_event", Marked(k), Idle))
          \/ \E n \in Among(Notifications), a \in Among(Attempts), t \in RenderedFrom :
               Prepare(r, Plan("handle_domain_event", Join(FromEvent(n, a, k, t), Marked(k)),
                               Idle))
    BY <1>3 DEF HandleDomainEvent
  <2>3. DOMAIN Marked(k) \subseteq DOMAIN db
    BY DEF Marked, Among
  <2>4. CASE Prepare(r, Plan("handle_domain_event", Marked(k), Idle))
    BY <2>1, <2>3, <2>4, Planning
  <2>5. ASSUME NEW n \in Among(Notifications), NEW a \in Among(Attempts), NEW t,
               Prepare(r, Plan("handle_domain_event", Join(FromEvent(n, a, k, t), Marked(k)),
                               Idle))
        PROVE  TakeUp(r)
    <3>1. DOMAIN Join(FromEvent(n, a, k, t), Marked(k)) = {n, a, k} \cup DOMAIN Marked(k)
      BY DEF Join, FromEvent
    <3> QED
      BY <2>1, <2>3, <2>5, <3>1, Planning DEF Among
  <2> QED
    BY <2>2, <2>4, <2>5
<1>4. CASE ReplayEvent(r)
  BY <1>4, Writing, AskedIsIdle DEF ReplayEvent, Owned
<1> QED
  BY <1>1, <1>2, <1>3, <1>4

\* Every operation takes up work.
LEMMA StepTakesUp ==
  ASSUME RowsInv, NEW r \in Requests, OperationsStep(r)
  PROVE  TakeUp(r)
<1>1. CASE EquipmentStep(r) \/ ComplianceStep(r)
  BY <1>1, ReferenceTakesUp, UnitTakesUp, OperationTakesUp, PermitTakesUp,
     EscortTakesUp, RecordTakesUp, CheckTakesUp, OthersTakeUp
     DEF EquipmentStep, ComplianceStep
<1>2. CASE PartnersStep(r) \/ NotificationsStep(r)
  BY <1>2, PartnerTakesUp, KeyTakesUp, InboundTakesUp, SubscriptionTakesUp,
     TemplateTakesUp, NotificationTakesUp, OthersTakeUp
     DEF PartnersStep, NotificationsStep
<1>3. CASE AccessStep(r)
  BY <1>3, UserTakesUp, DriverTakesUp, VehicleTakesUp, WarehouseTakesUp, SessionTakesUp
     DEF AccessStep
<1> QED
  BY <1>1, <1>2, <1>3 DEF OperationsStep

\* Every step of the operations is one of OptimisticRows: work taken up on rows as
\* they are (also in the second transaction of a partner's call and of a refresh),
\* a commit or an abort.
THEOREM Implementation == OperationsSpec => Spec
<1>1. RowsInv /\ OperationsNext => Next
  <2> SUFFICES ASSUME RowsInv, OperationsNext PROVE Next
    OBVIOUS
  <2>1. PICK r \in Requests : OperationsStep(r) \/ Commit(r) \/ Abort(r)
    BY DEF OperationsNext
  <2>2. CASE OperationsStep(r)
    BY <2>2, StepTakesUp DEF Next
  <2> QED
    BY <2>1, <2>2 DEF Next
<1>2. RowsInv /\ [OperationsNext]_rows => [Next]_rows
  BY <1>1
<1> QED
  BY InitQuiet, StepKeeps, <1>2, PTL DEF OperationsSpec, Spec

\* So no update is lost here either, in any of the tables that have a version.
THEOREM NoUpdateIsLostHere == OperationsSpec => NoLostUpdate
BY Implementation, NoUpdateIsLost

-----------------------------------------------------------------------------
(* Tables *)

\* The entries of the unique indexes, and the marks of processed events.
IndexEntries ==
  (UNION {Names, TemplateCodes, Keys, Emails, Licences, Plates, Codes})
  \cup {Slot(k, tag) : k \in ApiKeys, tag \in Tags}
  \cup {Profile(u) : u \in Accounts}

Marks == {Processed(k) : k \in EventKeys}

\* The table a key is of.
TableOf(x) ==
  LET tables == <<Categories, Models, Units, Shipments, Permits, Escorts, Restrictions,
                  AxleProfiles, Checks, Certifications, Partners, ApiKeys, Subscriptions,
                  InboundEvents, Templates, Notifications, Attempts, Accounts, Drivers,
                  Vehicles, Warehouses, RefreshTokens, IndexEntries, Marks>>
  IN CHOOSE i \in 1..24 : x \in tables[i]

\* A key is in one table only.
LEMMA KeyTables ==
  ASSUME NEW x
  PROVE  /\ x \in Categories => TableOf(x) = 1
         /\ x \in Models => TableOf(x) = 2
         /\ x \in Units => TableOf(x) = 3
         /\ x \in Shipments => TableOf(x) = 4
         /\ x \in Permits => TableOf(x) = 5
         /\ x \in Escorts => TableOf(x) = 6
         /\ x \in Restrictions => TableOf(x) = 7
         /\ x \in AxleProfiles => TableOf(x) = 8
         /\ x \in Checks => TableOf(x) = 9
         /\ x \in Certifications => TableOf(x) = 10
         /\ x \in Partners => TableOf(x) = 11
         /\ x \in ApiKeys => TableOf(x) = 12
         /\ x \in Subscriptions => TableOf(x) = 13
         /\ x \in InboundEvents => TableOf(x) = 14
         /\ x \in Templates => TableOf(x) = 15
         /\ x \in Notifications => TableOf(x) = 16
         /\ x \in Attempts => TableOf(x) = 17
         /\ x \in Accounts => TableOf(x) = 18
         /\ x \in Drivers => TableOf(x) = 19
         /\ x \in Vehicles => TableOf(x) = 20
         /\ x \in Warehouses => TableOf(x) = 21
         /\ x \in RefreshTokens => TableOf(x) = 22
         /\ x \in IndexEntries => TableOf(x) = 23
         /\ x \in Marks => TableOf(x) = 24
         /\ x \in Unversioned <=> TableOf(x) \in {12, 14} /\ x \in ApiKeys \cup InboundEvents
<1> DEFINE tables == <<Categories, Models, Units, Shipments, Permits, Escorts, Restrictions,
                  AxleProfiles, Checks, Certifications, Partners, ApiKeys, Subscriptions,
                  InboundEvents, Templates, Notifications, Attempts, Accounts, Drivers,
                  Vehicles, Warehouses, RefreshTokens, IndexEntries, Marks>>
<1>1. ASSUME NEW i \in 1..24, x \in tables[i] PROVE TableOf(x) = i
  BY <1>1, TablesAssumption DEF TableOf, IndexEntries, Marks
<1>2. Unversioned = ApiKeys \cup InboundEvents
  BY TablesAssumption, PartnersAssumption
<1> QED
  BY <1>1, <1>2

-----------------------------------------------------------------------------
(* What a plan writes *)

\* The index entries a row occupies.
EntriesOf(x, row) ==
  IF row = Absent THEN {}
  ELSE IF x \in Partners THEN {row.name}
  ELSE IF x \in Templates \cup Accounts \cup Vehicles \cup Warehouses THEN {row.code}
  ELSE IF x \in Drivers THEN {row.code, Profile(row.user)}
  ELSE IF x \in Notifications THEN {row.key}
  ELSE IF x \in InboundEvents THEN {Slot(row.key, row.tag)}
  ELSE {}

\* Of a notification: how often it failed, and whether it reached its recipient.
Retries(row) == IF row = Absent THEN 0 ELSE row.retries

Reached(row) == row.status \in {"sent", "read"}

\* What may stand in the database under x.
Sound(x, row) ==
  \/ row = Absent
  \/ /\ row.status # "absent"
     /\ x \in Categories => row \in CategoryRows
     /\ x \in Models => row \in ModelRows
     /\ x \in Units => row \in UnitRows /\ Agree(row)
     /\ x \in Shipments => row \in ShipmentRows
     /\ x \in Permits =>
          row \in PermitRows /\ (row.status \in {"approved", "active", "expired"} => row.approvedAt)
     /\ x \in Escorts => row \in EscortRows
     /\ x \in Restrictions => row \in RestrictionRows
     /\ x \in AxleProfiles => row \in AxleRows
     /\ x \in Checks =>
          row \in CheckRows /\ (row.blocking <=> row.status \in {"passed", "failed"})
     /\ x \in Certifications => row \in CertificationRows
     /\ x \in Partners => row \in PartnerRows
     /\ x \in ApiKeys => row \in KeyRows /\ (row.revokedAt <=> row.status = "revoked")
     /\ x \in Subscriptions => row \in SubscriptionRows
     /\ x \in InboundEvents =>
          row \in InboundRows /\ (row.status \in {"accepted", "processed"} => row.valid)
     /\ x \in Templates => row \in TemplateRows
     /\ x \in Notifications => row \in NotificationRows
     /\ x \in Attempts => row \in AttemptRows
     /\ x \in Accounts => row \in AccountRows
     /\ x \in Drivers => row \in DriverRows
     /\ x \in Vehicles => row \in VehicleRows
     /\ x \in Warehouses => row \in WarehouseRows
     /\ x \in RefreshTokens => row \in TokenRows

\* Rows that are never taken out of their table.
Lasting == UNION {Units, Permits, Escorts, ApiKeys, InboundEvents, Notifications, Attempts,
                  RefreshTokens, Checks, Certifications}

\* How the row under x may change.
Lawful(x, old, new) ==
  /\ x \in Lasting => new # Absent
  /\ x \in Units =>
       (old.status = "decommissioned" => [new EXCEPT !.deleted = old.deleted] = old)
  /\ x \in Permits =>
       /\ old.status \in TerminalPermits => [new EXCEPT !.deleted = old.deleted] = old
       /\ old # Absent => new.shipment = old.shipment /\ (old.approvedAt => new.approvedAt)
  /\ x \in Escorts =>
       /\ old.status = "cancelled" => new = old
       /\ old # Absent => new.shipment = old.shipment
  /\ x \in Certifications => (old.status = "expired" => new = old)
  /\ x \in Checks => (old.status = "failed" => new = old \/ new.status = "overridden")
  /\ x \in ApiKeys => (old # Absent =>
       /\ new.partner = old.partner /\ new.dated = old.dated
       /\ old.status = "revoked" => new.status = "revoked")
  /\ x \in InboundEvents => (old # Absent =>
       new.key = old.key /\ new.tag = old.tag /\ new.valid = old.valid)
  /\ x \in Attempts => old = Absent
  /\ x \in RefreshTokens => (old # Absent => new.chain = old.chain /\ new.status = "spent")

\* What the row says of other rows is so.
Rests(x, row) ==
  row # Absent =>
    /\ x \in Shipments =>
         /\ row.unit # None => row.unit \in Among(Units) /\ Exists(row.unit)
         /\ row.needs \cap {"permit", "hazardous", "oversize"} # {} =>
              \E p \in Among(Permits) : Exists(p) /\ db[p].shipment = x /\ db[p].approvedAt
         /\ "escort" \in row.needs => \E e \in Among(Escorts) : Exists(e) /\ db[e].shipment = x
    /\ x \in RefreshTokens => row.chain = x \/ (row.chain \in DOMAIN db /\ Exists(row.chain))

RowFits(x, old, new) == Sound(x, new) /\ Lawful(x, old, new) /\ Rests(x, new)

\* Requests that do not see each other write one row of a table without versions: one
\* that was loaded is still there, with the columns nobody changes.
Merges(x, loaded, planned) ==
  /\ loaded # Absent /\ Sound(x, loaded)
  /\ db[x] # Absent
  /\ x \in ApiKeys =>
       /\ loaded.partner = db[x].partner /\ loaded.dated = db[x].dated
       /\ loaded.status = "revoked" => db[x].status = "revoked"
       /\ planned \in {[loaded EXCEPT !.used = TRUE],
                       [loaded EXCEPT !.status = "revoked", !.revokedAt = TRUE]}
  /\ x \in InboundEvents =>
       /\ loaded.key = db[x].key /\ loaded.tag = db[x].tag /\ loaded.valid = db[x].valid
       /\ \/ planned = [loaded EXCEPT !.status = "rejected"]
          \/ planned = [loaded EXCEPT !.status = "processed"] /\ loaded.valid

WriteOk(x, loaded, planned) ==
  \/ x \notin Unversioned /\ RowFits(x, loaded, planned)
  \/ x \in Unversioned /\ loaded = Absent /\ db[x] = Absent /\ planned # Absent
     /\ RowFits(x, Absent, planned)
  \/ x \in Unversioned /\ Merges(x, loaded, planned)

\* A row that occupies another entry takes it with it, and an entry is taken away
\* only together with its row's claim to it.
EntriesMove(loaded, writes) ==
  /\ \A x \in DOMAIN writes : \A i \in EntriesOf(x, writes[x]) \ EntriesOf(x, loaded[x]) :
       i \in DOMAIN writes /\ writes[i] = Entry(x)
  /\ \A i \in DOMAIN writes \cap IndexEntries :
       \/ loaded[i].status = "absent"
       \/ \E y \in DOMAIN writes : loaded[i] = Entry(y) /\ i \notin EntriesOf(y, writes[y])

\* A notification and the attempt to deliver it are written together.
AttemptsTold(loaded, writes) ==
  /\ \A a \in DOMAIN writes \cap Attempts : writes[a].of \in DOMAIN writes \cap Notifications
  /\ \A n \in DOMAIN writes \cap Notifications :
       \/ /\ DOMAIN writes \cap Attempts = {}
          /\ Retries(writes[n]) = Retries(loaded[n])
          /\ Reached(writes[n]) <=> Reached(loaded[n])
       \/ \E a \in Attempts :
            /\ DOMAIN writes \cap Attempts = {a}
            /\ writes[a].of = n
            /\ writes[a].number = Cardinality(AttemptsFor(n)) + 1
            /\ ~Reached(loaded[n])
            /\ Reached(writes[n]) <=> writes[a].status = "succeeded"
            /\ Retries(writes[n])
                 = Retries(loaded[n]) + (IF writes[a].status = "failed" THEN 1 ELSE 0)

\* What comes after the commit.
GoesOn(p) ==
  \/ p.then.pc = "idle"
  \/ p.then.pc = "authenticated" /\ p.then.key \in Among(ApiKeys)
  \/ /\ p.then.pc = "refreshing"
     /\ p.then.token \in DOMAIN p.writes \cap RefreshTokens
     /\ p.loaded[p.then.token].status = "live"
     /\ p.writes[p.then.token].status = "spent"
     /\ DOMAIN p.writes = {p.then.token}

FlushFits(p) ==
  /\ \A x \in DOMAIN p.writes : WriteOk(x, p.loaded[x], p.writes[x])
  /\ EntriesMove(p.loaded, p.writes)
  /\ AttemptsTold(p.loaded, p.writes)
  /\ GoesOn(p)

\* What a request is about to do fits the rows as they are.
Fits(p) ==
  /\ p.pc = "flush" => FlushFits(p)
  /\ p.pc = "authenticated" => p.key \in Among(ApiKeys)
  /\ p.pc = "refreshing" => p.token \in Among(RefreshTokens) /\ db[p.token] # Absent

\* A request that will put a live token of this chain into the store.
Bears(p, c) ==
  \/ p.pc = "refreshing" /\ db[p.token].chain = c
  \/ p.pc = "flush" /\ \E t \in DOMAIN p.writes \cap RefreshTokens :
                         p.writes[t].status = "live" /\ p.writes[t].chain = c

\* What r takes up fits; keys it inserts under are new; it bears the chain it bore or
\* begins one.
Planned(r) ==
  /\ Fits(req'[r])
  /\ \A x \in DOMAIN req'[r].writes \cap Unversioned :
       Fresh(x) \/ (db[x] # Absent /\ req'[r].loaded[x] # Absent)
  /\ \A c : Bears(req'[r], c) =>
       /\ Bears(req[r], c) \/ (c \in DOMAIN db /\ Fresh(c))
       /\ \A t, u \in DOMAIN req'[r].writes \cap RefreshTokens : t = u

RowsSound == \A x \in DOMAIN db : Sound(x, db[x])

RowsRest == \A x \in DOMAIN db : Rests(x, db[x])

\* An index entry that a row occupies says so.
Indexed == \A x \in DOMAIN db : \A i \in EntriesOf(x, db[x]) : i \in DOMAIN db /\ db[i] = Entry(x)

\* Notifications account for the attempts to deliver them.
Accounted ==
  /\ IsFiniteSet({a \in Among(Attempts) : db[a] # Absent})
  /\ \A a \in Among(Attempts) : db[a] # Absent =>
       db[a].of \in Among(Notifications) /\ db[db[a].of] # Absent
  /\ AttemptsAccounted
  /\ DeliveredOnce

\* The rows by themselves.
DbInv == DOMAIN db \in Scopes /\ RowsSound /\ RowsRest /\ Indexed /\ Accounted

-----------------------------------------------------------------------------
(* A single row *)

\* A plan that writes this row alone leaves no other row out of step with it.
Alone(x, old, new) ==
  /\ x \notin Unversioned \cup RefreshTokens \cup Attempts \cup IndexEntries
  /\ EntriesOf(x, new) \subseteq EntriesOf(x, old)
  /\ x \in Notifications =>
       Retries(new) = Retries(old) /\ (Reached(new) <=> Reached(old))

Good(x, row) == Sound(x, row) /\ Lawful(x, db[x], row) /\ Alone(x, db[x], row) /\ Rests(x, row)

\* One good row alone makes a plan that fits.
LEMMA WriteFits ==
  ASSUME RowsInv, NEW r \in Requests, NEW op, NEW x \in DOMAIN db, NEW row,
         Write(r, op, x, row), Good(x, row)
  PROVE  Planned(r)
<1> DEFINE p == Plan(op, Row(x, row), Idle)
<1>1. /\ req'[r] = p /\ p.pc = "flush" /\ p.then.pc = "idle"
      /\ DOMAIN p.writes = {x} /\ p.writes[x] = row /\ p.loaded[x] = db[x]
  BY DEF RowsInv, Write, Prepare, Plan, Row, Idle
<1> HIDE DEF p
<1>2. WriteOk(x, p.loaded[x], p.writes[x])
  BY <1>1 DEF Good, Alone, WriteOk, RowFits
<1>3. EntriesMove(p.loaded, p.writes)
  BY <1>1 DEF Good, Alone, EntriesMove
<1>4. AttemptsTold(p.loaded, p.writes)
  BY <1>1 DEF Good, Alone, AttemptsTold
<1>5. GoesOn(p)
  BY <1>1 DEF GoesOn
<1>6. Fits(p)
  BY <1>1, <1>2, <1>3, <1>4, <1>5 DEF Fits, FlushFits
<1>7. \A c : ~Bears(p, c)
  BY <1>1 DEF Good, Alone, Bears
<1> QED
  BY <1>1, <1>6, <1>7 DEF Planned, Good, Alone

\* A row that is read has the columns of its table.
LEMMA Typed ==
  ASSUME RowsSound, NEW x \in DOMAIN db
  PROVE  /\ Exists(x) <=> db[x] # Absent
         /\ Exists(x) => db[x].status # "absent"
         /\ Sound(x, db[x])
<1>1. Sound(x, db[x])
  BY DEF RowsSound
<1>2. CASE db[x] = Absent
  BY <1>1, <1>2 DEF Absent, Exists
<1>3. CASE db[x] # Absent
  BY <1>1, <1>3 DEF Sound, Exists
<1> QED
  BY <1>2, <1>3

\* Deleting and restoring set one column of a row that is there.
LEMMA Deletes ==
  ASSUME NEW r, NEW op, NEW x, SoftDelete(r, op, x) \/ Undelete(r, op, x)
  PROVE  \E deleted \in BOOLEAN :
           db[x] # Absent /\ Write(r, op, x, [db[x] EXCEPT !.deleted = deleted])
<1>1. CASE SoftDelete(r, op, x)
  <2>1. db[x] # Absent
    BY <1>1 DEF SoftDelete, Live, Exists, Absent
  <2> QED
    BY <1>1, <2>1 DEF SoftDelete
<1>2. CASE Undelete(r, op, x)
  <2>1. db[x] # Absent
    BY <1>2 DEF Undelete, Absent
  <2> QED
    BY <1>2, <2>1 DEF Undelete
<1> QED
  BY <1>1, <1>2

-----------------------------------------------------------------------------
(* Rows that may be written under a key of each table *)

\* Tables without index and without version troubles.
LEMMA GoodPlain ==
  ASSUME NEW x \in UNION {Categories, Models, Units, Shipments, Permits, Escorts, Restrictions,
                          AxleProfiles, Checks, Certifications, Subscriptions},
         NEW row, row # Absent, Sound(x, row), Lawful(x, db[x], row), Rests(x, row)
  PROVE  Good(x, row)
<1>1. TableOf(x) \in 1..10 \cup {13}
  BY KeyTables
<1>2. EntriesOf(x, row) = {}
  BY <1>1, KeyTables DEF EntriesOf
<1>3. x \notin Unversioned \cup RefreshTokens \cup Attempts \cup IndexEntries \cup Notifications
  BY <1>1, KeyTables
<1> QED
  BY <1>2, <1>3 DEF Good, Alone

\* Records nothing else depends on.
LEMMA GoodRecord ==
  ASSUME NEW x, NEW row,
         \/ x \in Categories /\ row \in CategoryRows
         \/ x \in Models /\ row \in ModelRows
         \/ x \in Restrictions /\ row \in RestrictionRows
         \/ x \in AxleProfiles /\ row \in AxleRows
         \/ x \in Subscriptions /\ row \in SubscriptionRows
         \/ x \in Certifications /\ row \in CertificationRows /\ (db[x].status = "expired" => row = db[x])
  PROVE  Good(x, row)
<1>0. row.status # "absent"
  BY DEF CategoryRows, ModelRows, RestrictionRows, AxleRows, SubscriptionRows,
     CertificationRows
<1>1. row # Absent /\ row.status # "absent"
  BY <1>0 DEF Absent
<1>2. TableOf(x) \in {1, 2, 7, 8, 13, 10}
  BY KeyTables
<1>3. Sound(x, row)
  BY <1>1, <1>2, KeyTables DEF Sound
<1>4. Lawful(x, db[x], row) /\ Rests(x, row)
  BY <1>1, <1>2, KeyTables DEF Lawful, Rests
<1> QED
  BY <1>1, <1>3, <1>4, GoodPlain

\* A unit whose two columns agree.
LEMMA GoodUnit ==
  ASSUME NEW x \in Units, NEW row \in UnitRows, Agree(row),
         db[x].status = "decommissioned" => [row EXCEPT !.deleted = db[x].deleted] = db[x]
  PROVE  Good(x, row)
<1>1. row # Absent /\ row.status # "absent"
  BY DEF UnitRows, EquipmentTransitions, Absent
<1>2. TableOf(x) = 3
  BY KeyTables
<1>3. Sound(x, row)
  BY <1>1, <1>2, KeyTables DEF Sound
<1>4. Lawful(x, db[x], row) /\ Rests(x, row)
  BY <1>1, <1>2, KeyTables DEF Lawful, Rests
<1> QED
  BY <1>1, <1>3, <1>4, GoodPlain

\* A permit that is in force only if it was approved.
LEMMA GoodPermit ==
  ASSUME NEW x \in Permits, NEW row \in PermitRows,
         row.status \in {"approved", "active", "expired"} => row.approvedAt,
         db[x].status \in TerminalPermits => [row EXCEPT !.deleted = db[x].deleted] = db[x],
         db[x] # Absent => row.shipment = db[x].shipment /\ (db[x].approvedAt => row.approvedAt)
  PROVE  Good(x, row)
<1>1. row # Absent /\ row.status # "absent"
  BY DEF PermitRows, PermitTransitions, Absent
<1>2. TableOf(x) = 5
  BY KeyTables
<1>3. Sound(x, row)
  BY <1>1, <1>2, KeyTables DEF Sound
<1>4. Lawful(x, db[x], row) /\ Rests(x, row)
  BY <1>1, <1>2, KeyTables DEF Lawful, Rests
<1> QED
  BY <1>1, <1>3, <1>4, GoodPlain

\* An escort that stays with its shipment.
LEMMA GoodEscort ==
  ASSUME NEW x \in Escorts, NEW row \in EscortRows,
         db[x].status = "cancelled" => row = db[x],
         db[x] # Absent => row.shipment = db[x].shipment
  PROVE  Good(x, row)
<1>1. row # Absent /\ row.status # "absent"
  BY DEF EscortRows, Absent
<1>2. TableOf(x) = 6
  BY KeyTables
<1>3. Sound(x, row)
  BY <1>1, <1>2, KeyTables DEF Sound
<1>4. Lawful(x, db[x], row) /\ Rests(x, row)
  BY <1>1, <1>2, KeyTables DEF Lawful, Rests
<1> QED
  BY <1>1, <1>3, <1>4, GoodPlain

-----------------------------------------------------------------------------
(* Equipment: every operation plans what fits *)

\* Categories and models.
LEMMA ReferenceFits ==
  ASSUME RowsInv, DbInv, NEW r \in Requests, ReferenceStep(r)
  PROVE  Planned(r)
<1>1. CASE CreateCategory(r)
  <2>1. PICK g \in Among(Categories), parent \in Among(Categories) \cup {None} :
          Write(r, "create_category", g,
                [status |-> "category", deleted |-> FALSE, parent |-> parent])
    BY <1>1 DEF CreateCategory, Insert
  <2>2. [status |-> "category", deleted |-> FALSE, parent |-> parent] \in CategoryRows
    BY DEF CategoryRows, Among
  <2> QED
    BY <2>1, <2>2, GoodRecord, WriteFits DEF Among
<1>2. CASE UpdateCategory(r)
  <2>1. PICK g \in Among(Categories) : Live(g) /\ Write(r, "update_category", g, db[g])
    BY <1>2 DEF UpdateCategory
  <2>2. db[g] \in CategoryRows
    BY <2>1, Typed DEF DbInv, Sound, Live, Among
  <2> QED
    BY <2>1, <2>2, GoodRecord, WriteFits DEF Among
<1>3. CASE CreateModel(r)
  <2>1. PICK m \in Among(Models), g \in Among(Categories) :
          Write(r, "create_model", m, [status |-> "model", deleted |-> FALSE, category |-> g])
    BY <1>3 DEF CreateModel, Insert
  <2>2. [status |-> "model", deleted |-> FALSE, category |-> g] \in ModelRows
    BY DEF ModelRows, Among
  <2> QED
    BY <2>1, <2>2, GoodRecord, WriteFits DEF Among
<1>4. CASE UpdateModel(r)
  <2>1. PICK m \in Among(Models) : Live(m) /\ Write(r, "update_model", m, db[m])
    BY <1>4 DEF UpdateModel
  <2>2. db[m] \in ModelRows
    BY <2>1, Typed DEF DbInv, Sound, Live, Among
  <2> QED
    BY <2>1, <2>2, GoodRecord, WriteFits DEF Among
<1> QED
  BY <1>1, <1>2, <1>3, <1>4 DEF ReferenceStep

\* A unit that is read.
LEMMA UnitTyped ==
  ASSUME RowsSound, NEW u \in Among(Units), Exists(u)
  PROVE  db[u] \in UnitRows /\ Agree(db[u]) /\ u \in DOMAIN db /\ db[u] # Absent
BY Typed DEF Sound, Among

\* Creating, editing, deleting and restoring a unit keep its two columns in agreement.
LEMMA UnitFits ==
  ASSUME RowsInv, DbInv, NEW r \in Requests, UnitStep(r)
  PROVE  Planned(r)
<1>1. CASE CreateEquipment(r)
  <2>1. PICK u \in Among(Units), needs \in Conditions :
          Fresh(u) /\ Write(r, "create_equipment", u,
                            [status |-> "active", deleted |-> FALSE,
                             availability |-> "available", needs |-> needs])
    BY <1>1 DEF CreateEquipment, Insert
  <2> DEFINE row == [status |-> "active", deleted |-> FALSE,
                     availability |-> "available", needs |-> needs]
  <2>2. row \in UnitRows /\ Agree(row)
    BY DEF UnitRows, EquipmentTransitions, Availabilities, Agree
  <2>3. db[u].status = "absent"
    BY <2>1 DEF Fresh, Exists
  <2> QED
    BY <2>1, <2>2, <2>3, GoodUnit, WriteFits DEF Among
<1>2. CASE UpdateEquipment(r)
  <2>1. PICK u \in Among(Units), needs \in Conditions :
          /\ Live(u) /\ db[u].status # "decommissioned"
          /\ Write(r, "update_equipment", u, [db[u] EXCEPT !.needs = needs])
    BY <1>2 DEF UpdateEquipment
  <2>2. db[u] \in UnitRows /\ Agree(db[u]) /\ u \in DOMAIN db
    BY <2>1, UnitTyped DEF DbInv, Live
  <2>3. [db[u] EXCEPT !.needs = needs] \in UnitRows /\ Agree([db[u] EXCEPT !.needs = needs])
    BY <2>2 DEF UnitRows, Agree
  <2> QED
    BY <2>1, <2>2, <2>3, GoodUnit, WriteFits DEF Among
<1>3. CASE DeleteEquipment(r) \/ RestoreEquipment(r)
  <2>0. PICK u \in Among(Units) : \E op : SoftDelete(r, op, u) \/ Undelete(r, op, u)
    BY <1>3 DEF DeleteEquipment, RestoreEquipment
  <2>00. PICK op : SoftDelete(r, op, u) \/ Undelete(r, op, u)
    BY <2>0
  <2>1. PICK deleted \in BOOLEAN :
          db[u] # Absent /\ Write(r, op, u, [db[u] EXCEPT !.deleted = deleted])
    BY <2>00, Deletes
  <2>2. db[u] \in UnitRows /\ Agree(db[u]) /\ u \in DOMAIN db
    BY <2>1, UnitTyped, Typed DEF DbInv, Among
  <2>3. [db[u] EXCEPT !.deleted = deleted] \in UnitRows /\ Agree([db[u] EXCEPT !.deleted = deleted])
    BY <2>2 DEF UnitRows, Agree
  <2>4. [[db[u] EXCEPT !.deleted = deleted] EXCEPT !.deleted = db[u].deleted] = db[u]
    BY <2>2 DEF UnitRows
  <2> QED
    BY <2>1, <2>2, <2>3, <2>4, GoodUnit, WriteFits DEF Among
<1> QED
  BY <1>1, <1>2, <1>3 DEF UnitStep

\* The transitions of a unit.
LEMMA UnitTable ==
  /\ \A from \in DOMAIN EquipmentTransitions :
       EquipmentTransitions[from] \subseteq DOMAIN EquipmentTransitions
  /\ \A op \in DOMAIN EquipmentOperations, u \in UnitRows :
       LET status == EquipmentOperations[op][1]
           availability == EquipmentOperations[op][2]
       IN /\ status \in DOMAIN EquipmentTransitions
          /\ availability \in Availabilities
          /\ Agree([[u EXCEPT !.availability = availability] EXCEPT !.status = status])
<1>1. \A from \in DOMAIN EquipmentTransitions :
        EquipmentTransitions[from] \subseteq DOMAIN EquipmentTransitions
  BY DEF EquipmentTransitions
<1>2. ASSUME NEW op \in DOMAIN EquipmentOperations, NEW u \in UnitRows
      PROVE  LET status == EquipmentOperations[op][1]
                 availability == EquipmentOperations[op][2]
             IN /\ status \in DOMAIN EquipmentTransitions
                /\ availability \in Availabilities
                /\ Agree([[u EXCEPT !.availability = availability] EXCEPT !.status = status])
  <2> DEFINE status == EquipmentOperations[op][1]
             availability == EquipmentOperations[op][2]
             row == [[u EXCEPT !.availability = availability] EXCEPT !.status = status]
  <2>1. row.status = status /\ row.availability = availability
    BY DEF UnitRows
  <2>2. <<status, availability>> \in
          {<<"active", "available">>, <<"inactive", "unavailable">>,
           <<"in_transit", "assigned">>, <<"under_maintenance", "maintenance">>,
           <<"decommissioned", "unavailable">>}
    BY DEF EquipmentOperations
  <2> HIDE DEF status, availability, row
  <2>3. Agree(row) /\ status \in DOMAIN EquipmentTransitions /\ availability \in Availabilities
    BY <2>1, <2>2 DEF Agree, EquipmentTransitions, Availabilities
  <2> QED
    BY <2>3 DEF row, status, availability
<1> QED
  BY <1>1, <1>2

\* A transition to a status and an availability that agree keeps a unit in agreement.
LEMMA UnitMoves ==
  ASSUME RowsInv, DbInv, NEW r \in Requests, NEW op, NEW u \in Among(Units),
         NEW status \in DOMAIN EquipmentTransitions, NEW availability \in Availabilities,
         EquipmentTransition(r, op, u, status, availability),
         Agree([[db[u] EXCEPT !.availability = availability] EXCEPT !.status = status])
  PROVE  Planned(r)
<1> DEFINE row == [[db[u] EXCEPT !.availability = availability] EXCEPT !.status = status]
<1>1. /\ Live(u) /\ status \in EquipmentTransitions[db[u].status]
      /\ Write(r, op, u, row)
  BY DEF EquipmentTransition, Transition
<1>2. db[u] \in UnitRows /\ u \in DOMAIN db
  BY <1>1, UnitTyped DEF DbInv, Live
<1>3. row \in UnitRows
  BY <1>2 DEF UnitRows
<1>4. db[u].status # "decommissioned"
  BY <1>1 DEF EquipmentTransitions
<1> HIDE DEF row
<1> QED
  BY <1>1, <1>2, <1>3, <1>4, GoodUnit, WriteFits DEF row, Among

\* What happens to a unit between its creation and its end.
LEMMA OperationFits ==
  ASSUME RowsInv, DbInv, NEW r \in Requests, OperationStep(r)
  PROVE  Planned(r)
<1>1. CASE EquipmentOperation(r)
  <2>1. PICK op \in DOMAIN EquipmentOperations, u \in Among(Units) :
          EquipmentTransition(r, op, u, EquipmentOperations[op][1], EquipmentOperations[op][2])
    BY <1>1 DEF EquipmentOperation
  <2>2. db[u] \in UnitRows
    BY <2>1, UnitTyped DEF DbInv, Live, EquipmentTransition, Transition
  <2> QED
    BY <2>1, <2>2, UnitTable, UnitMoves
<1>2. CASE ReserveEquipment(r)
  <2>1. PICK u \in Among(Units) : EquipmentTransition(r, "reserve", u, "reserved", "reserved")
    BY <1>2 DEF ReserveEquipment
  <2>2. db[u] \in UnitRows
    BY <2>1, UnitTyped DEF DbInv, Live, EquipmentTransition, Transition
  <2>3. Agree([[db[u] EXCEPT !.availability = "reserved"] EXCEPT !.status = "reserved"])
    BY <2>2 DEF UnitRows, Agree
  <2> QED
    BY <2>1, <2>3, UnitMoves DEF EquipmentTransitions, Availabilities
<1>3. CASE AssignToShipment(r)
  <2>1. PICK u \in Among(Units) :
          /\ InStatus(u, Assignable)
          /\ Write(r, "assign_equipment", u, [db[u] EXCEPT !.availability = "assigned"])
    BY <1>3 DEF AssignToShipment
  <2> DEFINE row == [db[u] EXCEPT !.availability = "assigned"]
  <2>2. db[u] \in UnitRows /\ u \in DOMAIN db /\ db[u].status \in Assignable
    BY <2>1, UnitTyped DEF DbInv, Live, InStatus
  <2>3. row \in UnitRows /\ Agree(row)
    BY <2>2 DEF UnitRows, Availabilities, Agree, Assignable
  <2>4. db[u].status # "decommissioned"
    BY <2>2 DEF Assignable
  <2> QED
    BY <2>1, <2>2, <2>3, <2>4, GoodUnit, WriteFits DEF Among
<1> QED
  BY <1>1, <1>2, <1>3 DEF OperationStep

-----------------------------------------------------------------------------
(* Compliance: every operation plans what fits *)

\* A permit that is read.
LEMMA PermitTyped ==
  ASSUME RowsSound, NEW p \in Among(Permits), Exists(p)
  PROVE  /\ db[p] \in PermitRows /\ p \in DOMAIN db /\ p \in Permits /\ db[p] # Absent
         /\ db[p].status \in {"approved", "active", "expired"} => db[p].approvedAt
BY Typed DEF Sound, Among

\* The transitions of a permit, spelt out.
LEMMA PermitTable ==
  ASSUME NEW from \in DOMAIN PermitTransitions, NEW to \in PermitTransitions[from]
  PROVE  /\ to \in DOMAIN PermitTransitions /\ from \notin TerminalPermits
         /\ to \in {"active", "expired"} => from \in {"approved", "active"}
BY DEF PermitTransitions, TerminalPermits

\* A permit that moves on, with its approval or a window perhaps.
LEMMA PermitMoves ==
  ASSUME RowsInv, DbInv, NEW r \in Requests, NEW op, NEW p \in Among(Permits),
         NEW target, NEW mutated \in PermitRows,
         Transition(r, op, p, PermitTransitions, target, mutated),
         mutated.shipment = db[p].shipment, db[p].approvedAt => mutated.approvedAt,
         target = "approved" => mutated.approvedAt
  PROVE  Planned(r)
<1> DEFINE row == [mutated EXCEPT !.status = target]
<1>1. Live(p) /\ target \in PermitTransitions[db[p].status] /\ Write(r, op, p, row)
  BY DEF Transition
<1>2. /\ db[p] \in PermitRows /\ p \in DOMAIN db /\ p \in Permits
      /\ db[p].status \in {"approved", "active", "expired"} => db[p].approvedAt
  BY <1>1, PermitTyped DEF DbInv, Live
<1>3. db[p].status \in DOMAIN PermitTransitions
  BY <1>2 DEF PermitRows
<1>4. /\ target \in DOMAIN PermitTransitions /\ db[p].status \notin TerminalPermits
      /\ target \in {"active", "expired"} => db[p].status \in {"approved", "active"}
  BY <1>1, <1>3, PermitTable
<1>5. /\ row \in PermitRows /\ row.status = target
      /\ row.shipment = mutated.shipment /\ row.approvedAt = mutated.approvedAt
  BY <1>4 DEF PermitRows
<1> HIDE DEF row
<1>6. Good(p, row)
  BY <1>2, <1>4, <1>5, GoodPermit
<1> QED
  BY <1>1, <1>2, <1>6, WriteFits

\* A permit gets its approval on the only way to the statuses that need one.
LEMMA PermitFits ==
  ASSUME RowsInv, DbInv, NEW r \in Requests, PermitStep(r)
  PROVE  Planned(r)
<1>1. CASE CreatePermit(r)
  <2>1. PICK p \in Among(Permits), s \in Among(Shipments) \cup {None}, bounded \in BOOLEAN :
          Insert(r, "create_permit", p,
                 [status |-> "draft", deleted |-> FALSE, shipment |-> s,
                  bounded |-> bounded, approvedAt |-> FALSE])
    BY <1>1 DEF CreatePermit
  <2> DEFINE row == [status |-> "draft", deleted |-> FALSE, shipment |-> s,
                     bounded |-> bounded, approvedAt |-> FALSE]
  <2>2. row \in PermitRows /\ row.status = "draft"
    BY DEF PermitRows, PermitTransitions, Among
  <2>3. Write(r, "create_permit", p, row) /\ ~Exists(p)
    BY <2>1 DEF Insert, Fresh
  <2>4. db[p] = Absent /\ p \in DOMAIN db /\ p \in Permits
    BY <2>3, Typed DEF DbInv, Among
  <2>5. db[p].status \notin TerminalPermits
    BY <2>4 DEF Absent, TerminalPermits
  <2> HIDE DEF row
  <2>6. Good(p, row)
    BY <2>2, <2>4, <2>5, GoodPermit
  <2> QED
    BY <2>3, <2>4, <2>6, WriteFits
<1>2. CASE PermitTransition(r)
  <2>1. PICK op \in DOMAIN PermitOperations, p \in Among(Permits) :
          Transition(r, op, p, PermitTransitions, PermitOperations[op], db[p])
    BY <1>2 DEF PermitTransition
  <2>2. db[p] \in PermitRows
    BY <2>1, PermitTyped DEF DbInv, Transition, Live
  <2>3. PermitOperations[op] # "approved"
    BY DEF PermitOperations
  <2> QED
    BY <2>1, <2>2, <2>3, PermitMoves
<1>3. CASE ApprovePermit(r)
  <2>1. PICK p \in Among(Permits), window \in BOOLEAN :
          Transition(r, "approve_permit", p, PermitTransitions, "approved",
                     [db[p] EXCEPT !.approvedAt = TRUE, !.bounded = @ \/ window])
    BY <1>3 DEF ApprovePermit
  <2>2. db[p] \in PermitRows
    BY <2>1, PermitTyped DEF DbInv, Transition, Live
  <2> DEFINE mutated == [db[p] EXCEPT !.approvedAt = TRUE, !.bounded = @ \/ window]
  <2>3. (db[p].bounded \/ window) \in BOOLEAN
    BY <2>2 DEF PermitRows
  <2>4. /\ mutated \in PermitRows /\ mutated.shipment = db[p].shipment /\ mutated.approvedAt
    BY <2>2, <2>3 DEF PermitRows
  <2> HIDE DEF mutated
  <2> QED
    BY <2>1, <2>4, PermitMoves DEF mutated
<1>4. CASE UpdatePermit(r)
  <2>1. PICK p \in Among(Permits), window \in BOOLEAN :
          /\ Live(p) /\ db[p].status \notin TerminalPermits
          /\ Write(r, "update_permit", p, [db[p] EXCEPT !.bounded = @ \/ window])
    BY <1>4 DEF UpdatePermit
  <2> DEFINE row == [db[p] EXCEPT !.bounded = @ \/ window]
  <2>2. /\ db[p] \in PermitRows /\ p \in DOMAIN db /\ p \in Permits
        /\ db[p].status \in {"approved", "active", "expired"} => db[p].approvedAt
    BY <2>1, PermitTyped DEF DbInv, Live
  <2>3. (db[p].bounded \/ window) \in BOOLEAN
    BY <2>2 DEF PermitRows
  <2>4. /\ row \in PermitRows /\ row.status = db[p].status /\ row.shipment = db[p].shipment
        /\ row.approvedAt = db[p].approvedAt
    BY <2>2, <2>3 DEF PermitRows
  <2> HIDE DEF row
  <2>5. Good(p, row)
    BY <2>1, <2>2, <2>4, GoodPermit
  <2> QED
    BY <2>1, <2>2, <2>5, WriteFits DEF row
<1>5. CASE DeletePermit(r) \/ RestorePermit(r)
  <2>1. PICK p \in Among(Permits) : \E op : SoftDelete(r, op, p) \/ Undelete(r, op, p)
    BY <1>5 DEF DeletePermit, RestorePermit
  <2>0. PICK op : SoftDelete(r, op, p) \/ Undelete(r, op, p)
    BY <2>1
  <2>2. PICK deleted \in BOOLEAN :
          db[p] # Absent /\ Write(r, op, p, [db[p] EXCEPT !.deleted = deleted])
    BY <2>0, Deletes
  <2> DEFINE row == [db[p] EXCEPT !.deleted = deleted]
  <2>3. /\ db[p] \in PermitRows /\ p \in DOMAIN db /\ p \in Permits
        /\ db[p].status \in {"approved", "active", "expired"} => db[p].approvedAt
    BY <2>2, Typed, PermitTyped DEF DbInv, Among
  <2>4. /\ row \in PermitRows /\ row.status = db[p].status /\ row.shipment = db[p].shipment
        /\ row.approvedAt = db[p].approvedAt /\ [row EXCEPT !.deleted = db[p].deleted] = db[p]
    BY <2>3 DEF PermitRows
  <2> HIDE DEF row
  <2>5. Good(p, row)
    BY <2>3, <2>4, GoodPermit
  <2> QED
    BY <2>2, <2>3, <2>5, WriteFits DEF row
<1> QED
  BY <1>1, <1>2, <1>3, <1>4, <1>5 DEF PermitStep

\* Escorts: a cancelled one is not written any more except as it is.
LEMMA EscortFits ==
  ASSUME RowsInv, DbInv, NEW r \in Requests, EscortStep(r)
  PROVE  Planned(r)
<1>1. CASE CreateEscort(r)
  <2>1. PICK e \in Among(Escorts), s \in Among(Shipments) \cup {None} :
          Insert(r, "create_escort", e, [status |-> "planned", deleted |-> FALSE, shipment |-> s])
    BY <1>1 DEF CreateEscort
  <2> DEFINE row == [status |-> "planned", deleted |-> FALSE, shipment |-> s]
  <2>2. row \in EscortRows
    BY DEF EscortRows, Among
  <2>3. Write(r, "create_escort", e, row) /\ ~Exists(e)
    BY <2>1 DEF Insert, Fresh
  <2>4. db[e] = Absent /\ e \in DOMAIN db /\ e \in Escorts
    BY <2>3, Typed DEF DbInv, Among
  <2>5. db[e].status # "cancelled"
    BY <2>4 DEF Absent
  <2> HIDE DEF row
  <2> QED
    BY <2>2, <2>3, <2>4, <2>5, GoodEscort, WriteFits
<1>2. CASE ScheduleEscort(r) \/ CancelEscort(r)
  <2>1. PICK e \in Among(Escorts), status \in {"scheduled", "cancelled"},
             op \in {"schedule_escort", "cancel_escort"} :
          /\ Live(e) /\ (db[e].status = "cancelled" => status = "cancelled")
          /\ Write(r, op, e, [db[e] EXCEPT !.status = status])
    <3>1. CASE ScheduleEscort(r)
      BY <3>1 DEF ScheduleEscort
    <3>2. CASE CancelEscort(r)
      BY <3>2 DEF CancelEscort
    <3> QED
      BY <1>2, <3>1, <3>2
  <2> DEFINE row == [db[e] EXCEPT !.status = status]
  <2>2. db[e] \in EscortRows /\ e \in DOMAIN db /\ e \in Escorts
    BY <2>1, Typed DEF DbInv, Sound, Live, Among
  <2>3. /\ row \in EscortRows /\ row.shipment = db[e].shipment
        /\ db[e].status = "cancelled" => row = db[e]
    BY <2>1, <2>2 DEF EscortRows
  <2> HIDE DEF row
  <2> QED
    BY <2>1, <2>2, <2>3, GoodEscort, WriteFits DEF row
<1> QED
  BY <1>1, <1>2 DEF EscortStep

\* Restrictions, axle profiles and certifications.
LEMMA RecordFits ==
  ASSUME RowsInv, DbInv, NEW r \in Requests, RecordStep(r)
  PROVE  Planned(r)
<1>1. CASE CreateRouteRestriction(r) \/ UpdateRouteRestriction(r)
  <2>1. CASE CreateRouteRestriction(r)
    <3>1. PICK x \in Among(Restrictions), active \in BOOLEAN :
            Write(r, "create_restriction", x,
                  [status |-> "restriction", deleted |-> FALSE, active |-> active])
      BY <2>1 DEF CreateRouteRestriction, Insert
    <3>2. [status |-> "restriction", deleted |-> FALSE, active |-> active] \in RestrictionRows
      BY DEF RestrictionRows
    <3> QED
      BY <3>1, <3>2, GoodRecord, WriteFits DEF Among
  <2>2. CASE UpdateRouteRestriction(r)
    <3>1. PICK x \in Among(Restrictions), active \in BOOLEAN :
            Live(x) /\ Write(r, "update_restriction", x, [db[x] EXCEPT !.active = active])
      BY <2>2 DEF UpdateRouteRestriction
    <3>2. db[x] \in RestrictionRows
      BY <3>1, Typed DEF DbInv, Sound, Live, Among
    <3>3. [db[x] EXCEPT !.active = active] \in RestrictionRows
      BY <3>2 DEF RestrictionRows
    <3> QED
      BY <3>1, <3>3, GoodRecord, WriteFits DEF Among
  <2> QED
    BY <1>1, <2>1, <2>2
<1>2. CASE CreateAxleWeightProfile(r)
  <2>1. PICK x \in Among(AxleProfiles) :
          Write(r, "create_axle_profile", x, [status |-> "profile", deleted |-> FALSE])
    BY <1>2 DEF CreateAxleWeightProfile, Insert
  <2>2. [status |-> "profile", deleted |-> FALSE] \in AxleRows
    BY DEF AxleRows
  <2> QED
    BY <2>1, <2>2, GoodRecord, WriteFits DEF Among
<1>3. CASE CreateOperatorCertification(r)
  <2>1. PICK x \in Among(Certifications) :
          /\ ~Exists(x)
          /\ Write(r, "create_certification", x, [status |-> "active", deleted |-> FALSE])
    BY <1>3 DEF CreateOperatorCertification, Insert, Fresh
  <2>2. [status |-> "active", deleted |-> FALSE] \in CertificationRows /\ db[x].status # "expired"
    BY <2>1 DEF CertificationRows, Exists
  <2> QED
    BY <2>1, <2>2, GoodRecord, WriteFits DEF Among
<1>4. CASE ExpireOperatorCertification(r)
  <2>1. PICK x \in Among(Certifications) :
          /\ InStatus(x, {"active"})
          /\ Write(r, "expire_certification", x, [db[x] EXCEPT !.status = "expired"])
    BY <1>4 DEF ExpireOperatorCertification
  <2>2. db[x] \in CertificationRows /\ db[x].status # "expired"
    BY <2>1, Typed DEF DbInv, Sound, Live, InStatus, Among
  <2>3. [db[x] EXCEPT !.status = "expired"] \in CertificationRows
    BY <2>2 DEF CertificationRows
  <2> QED
    BY <2>1, <2>2, <2>3, GoodRecord, WriteFits DEF Among
<1> QED
  BY <1>1, <1>2, <1>3, <1>4 DEF RecordStep

\* What a plan of several rows is.
LEMMA Prepared ==
  ASSUME RowsInv, NEW r \in Requests, NEW op, NEW writes, NEW then,
         Prepare(r, Plan(op, writes, then))
  PROVE  /\ req'[r].pc = "flush" /\ req'[r].writes = writes /\ req'[r].then = then
         /\ \A x \in DOMAIN writes : req'[r].loaded[x] = db[x]
<1>1. req'[r] = Plan(op, writes, then)
  BY DEF RowsInv, Prepare
<1> QED
  BY <1>1 DEF Plan

\* An evaluation inserts checks, an override changes one.
LEMMA CheckFits ==
  ASSUME RowsInv, DbInv, NEW r \in Requests, CheckStep(r)
  PROVE  Planned(r)
<1>1. CASE EvaluateCompliance(r)
  <2>0. PICK s \in Among(Shipments) : \E key \in [DOMAIN Verdicts(s) -> Among(Checks)] :
          /\ \A kind \in DOMAIN key : Fresh(key[kind])
          /\ Prepare(r, Plan("evaluate", [k \in {key[kind] : kind \in DOMAIN key} |->
               [status |-> Verdicts(s)[CHOOSE kind \in DOMAIN key : key[kind] = k],
                deleted |-> FALSE, shipment |-> s,
                kind |-> (CHOOSE kind \in DOMAIN key : key[kind] = k),
                blocking |-> Verdicts(s)[CHOOSE kind \in DOMAIN key : key[kind] = k] # "warning"]],
               Idle))
    BY <1>1 DEF EvaluateCompliance
  <2>1. PICK key \in [DOMAIN Verdicts(s) -> Among(Checks)] :
          /\ \A kind \in DOMAIN key : Fresh(key[kind])
          /\ Prepare(r, Plan("evaluate", [k \in {key[kind] : kind \in DOMAIN key} |->
               [status |-> Verdicts(s)[CHOOSE kind \in DOMAIN key : key[kind] = k],
                deleted |-> FALSE, shipment |-> s,
                kind |-> (CHOOSE kind \in DOMAIN key : key[kind] = k),
                blocking |-> Verdicts(s)[CHOOSE kind \in DOMAIN key : key[kind] = k] # "warning"]],
               Idle))
    BY <2>0
  <2> DEFINE writes == [k \in {key[kind] : kind \in DOMAIN key} |->
               [status |-> Verdicts(s)[CHOOSE kind \in DOMAIN key : key[kind] = k],
                deleted |-> FALSE, shipment |-> s,
                kind |-> (CHOOSE kind \in DOMAIN key : key[kind] = k),
                blocking |-> Verdicts(s)[CHOOSE kind \in DOMAIN key : key[kind] = k] # "warning"]]
  <2>2. \A kind \in DOMAIN Verdicts(s) :
          kind \in CheckKinds /\ Verdicts(s)[kind] \in {"passed", "failed", "warning"}
    BY DEF Verdicts, CheckKinds, Passed
  <2>3. ASSUME NEW k \in DOMAIN writes
        PROVE  /\ k \in Checks /\ k \in DOMAIN db /\ db[k] = Absent
               /\ writes[k] \in CheckRows
               /\ writes[k].blocking <=> writes[k].status \in {"passed", "failed"}
    <3>1. PICK kind \in DOMAIN key : key[kind] = k
      BY <2>1
    <3> DEFINE it == CHOOSE other \in DOMAIN key : key[other] = k
    <3>2. it \in DOMAIN key /\ key[it] = k /\ DOMAIN key = DOMAIN Verdicts(s)
      BY <3>1
    <3>3. writes[k] = [status |-> Verdicts(s)[it], deleted |-> FALSE, shipment |-> s,
                       kind |-> it, blocking |-> Verdicts(s)[it] # "warning"]
      BY <2>1
    <3>4. k \in Checks /\ k \in DOMAIN db /\ db[k] = Absent
      BY <2>1, <3>2, Typed DEF Among, Fresh, DbInv
    <3> HIDE DEF it
    <3>5. it \in CheckKinds /\ Verdicts(s)[it] \in {"passed", "failed", "warning"}
      BY <2>2, <3>2
    <3>6. (Verdicts(s)[it] # "warning") \in BOOLEAN
      OBVIOUS
    <3>7. writes[k] \in CheckRows
      BY <3>3, <3>5, <3>6 DEF CheckRows, Among
    <3> QED
      BY <3>3, <3>4, <3>5, <3>7
  <2> DEFINE p == req'[r]
  <2>4. /\ p.pc = "flush" /\ p.writes = writes /\ p.then = Idle
        /\ \A x \in DOMAIN writes : p.loaded[x] = db[x]
    BY <2>1, Prepared
  <2> HIDE DEF p, writes
  <2>5. \A x \in DOMAIN writes : TableOf(x) = 9 /\ x \notin Unversioned
    BY <2>3, KeyTables
  <2>6. \A x \in DOMAIN writes : WriteOk(x, p.loaded[x], p.writes[x])
    <3>1. ASSUME NEW x \in DOMAIN writes PROVE RowFits(x, Absent, writes[x])
      <4>0. writes[x].status # "absent"
        BY <2>3 DEF CheckRows
      <4>1. writes[x] # Absent /\ writes[x].status # "absent"
        BY <4>0 DEF Absent
      <4>2. Sound(x, writes[x])
        BY <2>3, <2>5, <4>1, KeyTables DEF Sound
      <4>3. Lawful(x, Absent, writes[x]) /\ Rests(x, writes[x])
        BY <2>5, <4>1, KeyTables DEF Lawful, Rests, Absent
      <4> QED
        BY <4>2, <4>3 DEF RowFits
    <3> QED
      BY <2>3, <2>4, <2>5, <3>1 DEF WriteOk
  <2>7. EntriesMove(p.loaded, p.writes)
    <3>1. \A x \in DOMAIN writes : \A row : EntriesOf(x, row) = {}
      BY <2>5, KeyTables DEF EntriesOf
    <3>2. DOMAIN writes \cap IndexEntries = {}
      BY <2>5, KeyTables
    <3> QED
      BY <2>4, <3>1, <3>2 DEF EntriesMove
  <2>8. AttemptsTold(p.loaded, p.writes)
    <3>1. DOMAIN writes \cap Attempts = {} /\ DOMAIN writes \cap Notifications = {}
      BY <2>5, KeyTables
    <3> QED
      BY <2>4, <3>1 DEF AttemptsTold
  <2>9. GoesOn(p)
    BY <2>4 DEF GoesOn, Idle
  <2>10. Fits(p)
    BY <2>4, <2>6, <2>7, <2>8, <2>9 DEF Fits, FlushFits
  <2>11. \A c : ~Bears(p, c)
    <3>1. DOMAIN writes \cap RefreshTokens = {}
      BY <2>5, KeyTables
    <3> QED
      BY <2>4, <3>1 DEF Bears
  <2> QED
    BY <2>4, <2>5, <2>10, <2>11 DEF Planned, p
<1>2. CASE ApplyComplianceOverride(r)
  <2>1. PICK k \in Among(Checks) :
          Live(k) /\ Write(r, "override_check", k,
                           [db[k] EXCEPT !.status = "overridden", !.blocking = FALSE])
    BY <1>2 DEF ApplyComplianceOverride
  <2> DEFINE row == [db[k] EXCEPT !.status = "overridden", !.blocking = FALSE]
  <2>2. db[k] \in CheckRows /\ k \in DOMAIN db /\ k \in Checks
    BY <2>1, Typed DEF DbInv, Sound, Live, Among
  <2>3. row \in CheckRows /\ row.status = "overridden" /\ row.blocking = FALSE
    BY <2>2 DEF CheckRows
  <2> HIDE DEF row
  <2>4. row # Absent /\ TableOf(k) = 9
    BY <2>2, <2>3, KeyTables DEF Absent
  <2>5. Sound(k, row)
    BY <2>2, <2>3, <2>4, KeyTables DEF Sound
  <2>6. Lawful(k, db[k], row) /\ Rests(k, row)
    BY <2>3, <2>4, KeyTables DEF Lawful, Rests
  <2>7. Good(k, row)
    BY <2>2, <2>4, <2>5, <2>6, GoodPlain
  <2> QED
    BY <2>1, <2>2, <2>7, WriteFits DEF row
<1> QED
  BY <1>1, <1>2 DEF CheckStep

\* A shipment that is read, and the conditions of its unit.
LEMMA ShipmentTyped ==
  ASSUME DbInv, NEW s \in Among(Shipments), Exists(s)
  PROVE  /\ db[s] \in ShipmentRows /\ s \in DOMAIN db /\ s \in Shipments /\ Rests(s, db[s])
         /\ Needs(s) \in SUBSET {"permit", "hazardous", "oversize", "escort", "insurance"}
<1>1. db[s] \in ShipmentRows /\ s \in DOMAIN db /\ s \in Shipments /\ Rests(s, db[s])
  BY Typed DEF DbInv, RowsRest, Sound, Among
<1>2. db[s].unit # None => db[s].unit \in Among(Units) /\ Exists(db[s].unit)
  BY <1>1, Typed DEF DbInv, Rests, Among
<1>3. db[s].unit # None => db[db[s].unit] \in UnitRows
  BY <1>2, UnitTyped DEF DbInv
<1>4. db[s].unit # None => db[db[s].unit].needs \in Conditions
  BY <1>3 DEF UnitRows
<1> QED
  BY <1>1, <1>4, EquipmentAssumption DEF Needs

\* A dispatch writes down what the gate saw: the unit and, if needed, permit and escort.
LEMMA ShipmentFits ==
  ASSUME RowsInv, DbInv, NEW r \in Requests, CreateShipment(r) \/ Dispatch(r)
  PROVE  Planned(r)
<1>1. CASE CreateShipment(r)
  <2>1. PICK s \in Among(Shipments), u \in Among(Units) \cup {None} :
          /\ u # None => InStatus(u, Assignable)
          /\ Write(r, "create_shipment", s,
                   [status |-> "planned", deleted |-> FALSE, unit |-> u, needs |-> {}])
    BY <1>1 DEF CreateShipment, Insert
  <2> DEFINE row == [status |-> "planned", deleted |-> FALSE, unit |-> u, needs |-> {}]
  <2>2. row \in ShipmentRows /\ row.unit = u /\ row.needs = {} /\ row.status # "absent"
    BY DEF ShipmentRows, Among
  <2>3. s \in Shipments /\ s \in DOMAIN db /\ TableOf(s) = 4
    BY KeyTables DEF Among
  <2> HIDE DEF row
  <2>4. row # Absent
    BY <2>2 DEF Absent
  <2>5. Sound(s, row)
    BY <2>2, <2>3, <2>4, KeyTables DEF Sound
  <2>6. Lawful(s, db[s], row) /\ Rests(s, row)
    BY <2>1, <2>2, <2>3, <2>4, KeyTables DEF Lawful, Rests, InStatus, Live
  <2>7. Good(s, row)
    BY <2>3, <2>4, <2>5, <2>6, GoodPlain
  <2> QED
    BY <2>1, <2>3, <2>7, WriteFits DEF row
<1>2. CASE Dispatch(r)
  <2>1. PICK s \in Among(Shipments), inTime \in BOOLEAN :
          /\ InStatus(s, {"planned"}) /\ Cleared(s, inTime)
          /\ Write(r, "dispatch", s,
                   [db[s] EXCEPT !.status = "dispatched", !.needs = Needs(s)])
    BY <1>2 DEF Dispatch
  <2> DEFINE row == [db[s] EXCEPT !.status = "dispatched", !.needs = Needs(s)]
  <2>2. /\ db[s] \in ShipmentRows /\ s \in DOMAIN db /\ s \in Shipments /\ Rests(s, db[s])
        /\ Needs(s) \in SUBSET {"permit", "hazardous", "oversize", "escort", "insurance"}
    BY <2>1, ShipmentTyped DEF InStatus, Live
  <2>3. /\ row \in ShipmentRows /\ row.unit = db[s].unit /\ row.needs = Needs(s)
        /\ row.status # "absent"
    BY <2>2 DEF ShipmentRows
  <2> HIDE DEF row
  <2>4. row # Absent /\ TableOf(s) = 4 /\ db[s] # Absent
    BY <2>1, <2>2, <2>3, KeyTables DEF Absent, InStatus, Live, Exists
  <2>5. Sound(s, row)
    BY <2>2, <2>3, <2>4, KeyTables DEF Sound
  <2>6. row.needs \cap {"permit", "hazardous", "oversize"} # {} =>
          \E p \in Among(Permits) : Exists(p) /\ db[p].shipment = s /\ db[p].approvedAt
    <3>1. SUFFICES ASSUME NeedsPermit(s)
                   PROVE  \E p \in Among(Permits) : Exists(p) /\ db[p].shipment = s /\ db[p].approvedAt
      BY <2>3 DEF NeedsPermit
    <3>2. db[s].unit # None
      BY <3>1 DEF NeedsPermit, Needs
    <3>3. PICK p \in ActivePermits(s) : TRUE
      BY <2>1, <3>1, <3>2 DEF Cleared
    <3>4. p \in Among(Permits) /\ Exists(p) /\ db[p].status = "active" /\ db[p].shipment = s
      BY DEF ActivePermits, InStatus, Live
    <3> QED
      BY <3>4, PermitTyped DEF DbInv
  <2>7. "escort" \in row.needs => \E e \in Among(Escorts) : Exists(e) /\ db[e].shipment = s
    <3>1. SUFFICES ASSUME "escort" \in Needs(s)
                   PROVE  \E e \in Among(Escorts) : Exists(e) /\ db[e].shipment = s
      BY <2>3
    <3>2. db[s].unit # None
      BY <3>1 DEF Needs
    <3>3. PICK e \in ActiveEscorts(s) : TRUE
      BY <2>1, <3>1, <3>2 DEF Cleared
    <3> QED
      BY <3>3 DEF ActiveEscorts, InStatus, Live
  <2>8. Lawful(s, db[s], row)
    BY <2>4, KeyTables DEF Lawful
  <2>9. Rests(s, row)
    BY <2>2, <2>3, <2>4, <2>6, <2>7, KeyTables DEF Rests
  <2>10. Good(s, row)
    BY <2>2, <2>4, <2>5, <2>8, <2>9, GoodPlain
  <2> QED
    BY <2>1, <2>2, <2>10, WriteFits DEF row
<1> QED
  BY <1>1, <1>2

-----------------------------------------------------------------------------
(* Rows with index entries *)

\* What an entry is.
LEMMA EntryRow ==
  ASSUME NEW x
  PROVE  /\ Entry(x).status = "entry" /\ Entry(x).of = x /\ Entry(x) # Absent
         /\ \A y : Entry(x) = Entry(y) => x = y
<1>1. Entry(x).status = "entry" /\ Entry(x).of = x
  BY DEF Entry
<1>2. \A y : Entry(y).of = y
  BY DEF Entry
<1> QED
  BY <1>1, <1>2 DEF Absent

\* A row that is written together with the entries it takes and gives up.
LEMMA EntriesFit ==
  ASSUME RowsInv, DbInv, NEW r \in Requests, NEW op, NEW x, NEW writes,
         Prepare(r, Plan(op, writes, Idle)),
         x \in DOMAIN writes, DOMAIN writes \subseteq DOMAIN db,
         DOMAIN writes \subseteq {x} \cup IndexEntries,
         x \notin RefreshTokens \cup Attempts \cup IndexEntries,
         x \in Unversioned => Fresh(x),
         WriteOk(x, db[x], writes[x]),
         x \in Notifications =>
           Retries(writes[x]) = Retries(db[x]) /\ (Reached(writes[x]) <=> Reached(db[x])),
         \A i \in DOMAIN writes \ {x} :
           \/ writes[i] = Entry(x) /\ ~Exists(i)
           \/ writes[i] = Absent /\ ~Exists(i)
           \/ /\ writes[i] = Absent /\ i \in EntriesOf(x, db[x])
              /\ i \notin EntriesOf(x, writes[x]),
         \A i \in EntriesOf(x, writes[x]) \ EntriesOf(x, db[x]) :
           i \in DOMAIN writes /\ writes[i] = Entry(x)
  PROVE  Planned(r)
<1> DEFINE p == req'[r]
<1>1. /\ p.pc = "flush" /\ p.writes = writes /\ p.then = Idle
      /\ \A y \in DOMAIN writes : p.loaded[y] = db[y]
  BY Prepared
<1> HIDE DEF p
<1>2. ASSUME NEW i \in DOMAIN writes, i # x
      PROVE  /\ i \in IndexEntries /\ i \in DOMAIN db /\ TableOf(i) = 23 /\ i \notin Unversioned
             /\ \A row : EntriesOf(i, row) = {}
             /\ writes[i] \in {Absent, Entry(x)}
  <2>1. i \in IndexEntries /\ i \in DOMAIN db /\ TableOf(i) = 23
    BY <1>2, KeyTables
  <2> QED
    BY <1>2, <2>1, KeyTables DEF EntriesOf
<1>3. \A y \in DOMAIN writes : WriteOk(y, p.loaded[y], p.writes[y])
  <2>1. ASSUME NEW i \in DOMAIN writes, i # x PROVE RowFits(i, db[i], writes[i])
    <3>1. writes[i] = Absent \/ writes[i].status # "absent"
      BY <1>2, <2>1, EntryRow
    <3>2. Sound(i, writes[i])
      BY <1>2, <2>1, <3>1, KeyTables DEF Sound
    <3>3. Lawful(i, db[i], writes[i])
      BY <1>2, <2>1, KeyTables DEF Lawful, Lasting
    <3>4. Rests(i, writes[i])
      BY <1>2, <2>1, KeyTables DEF Rests
    <3> QED
      BY <3>2, <3>3, <3>4 DEF RowFits
  <2> QED
    BY <1>1, <1>2, <2>1 DEF WriteOk
<1>4. EntriesMove(p.loaded, p.writes)
  <2>1. ASSUME NEW y \in DOMAIN writes, NEW i \in EntriesOf(y, writes[y]) \ EntriesOf(y, db[y])
        PROVE  i \in DOMAIN writes /\ writes[i] = Entry(y)
    BY <1>2
  <2>2. ASSUME NEW i \in DOMAIN writes \cap IndexEntries
        PROVE  \/ db[i].status = "absent"
               \/ \E y \in DOMAIN writes : db[i] = Entry(y) /\ i \notin EntriesOf(y, writes[y])
    <3>1. i # x
      OBVIOUS
    <3>2. CASE ~Exists(i)
      BY <3>2 DEF Exists
    <3>3. CASE i \in EntriesOf(x, db[x]) /\ i \notin EntriesOf(x, writes[x])
      BY <3>3 DEF DbInv, Indexed
    <3> QED
      BY <3>1, <3>2, <3>3
  <2> QED
    BY <1>1, <2>1, <2>2 DEF EntriesMove
<1>5. AttemptsTold(p.loaded, p.writes)
  <2>1. DOMAIN writes \cap Attempts = {} /\ DOMAIN writes \cap Notifications \subseteq {x}
    BY <1>2, KeyTables
  <2> QED
    BY <1>1, <2>1 DEF AttemptsTold
<1>6. GoesOn(p)
  BY <1>1 DEF GoesOn, Idle
<1>7. Fits(p)
  BY <1>1, <1>3, <1>4, <1>5, <1>6 DEF Fits, FlushFits
<1>8. DOMAIN writes \cap RefreshTokens = {}
  BY <1>2, KeyTables
<1>9. \A c : ~Bears(p, c)
  BY <1>1, <1>8 DEF Bears
<1> QED
  BY <1>1, <1>2, <1>7, <1>9 DEF Planned, p

\* A row with a natural key that keeps it.
LEMMA GoodKeyed ==
  ASSUME NEW x \in UNION {Partners, Templates, Accounts, Drivers, Vehicles, Warehouses},
         NEW row, row # Absent, Sound(x, row), EntriesOf(x, row) = EntriesOf(x, db[x])
  PROVE  Good(x, row)
<1>1. TableOf(x) \in {11, 15, 18, 19, 20, 21}
  BY KeyTables
<1>2. x \notin Unversioned \cup RefreshTokens \cup Attempts \cup IndexEntries \cup Notifications
  BY <1>1, KeyTables
<1>3. Lawful(x, db[x], row) /\ Rests(x, row)
  BY <1>1, KeyTables DEF Lawful, Rests
<1> QED
  BY <1>2, <1>3 DEF Good, Alone

\* One that is inserted, renamed or removed.
LEMMA KeyedOk ==
  ASSUME NEW x \in UNION {Partners, Templates, Accounts, Drivers, Vehicles, Warehouses},
         NEW row, Sound(x, row)
  PROVE  /\ WriteOk(x, db[x], row)
         /\ x \notin Unversioned \cup RefreshTokens \cup Attempts \cup IndexEntries \cup Notifications
<1>1. TableOf(x) \in {11, 15, 18, 19, 20, 21}
  BY KeyTables
<1>2. x \notin Unversioned \cup RefreshTokens \cup Attempts \cup IndexEntries \cup Notifications
  BY <1>1, KeyTables
<1>3. Lawful(x, db[x], row)
  BY <1>1, KeyTables DEF Lawful, Lasting
<1>4. Rests(x, row)
  BY <1>1, KeyTables DEF Rests
<1> QED
  BY <1>2, <1>3, <1>4 DEF WriteOk, RowFits

-----------------------------------------------------------------------------
(* Partners: every operation plans what fits *)

\* A partner row and its entry.
LEMMA PartnerRow ==
  ASSUME NEW x \in Partners, NEW row \in PartnerRows
  PROVE  Sound(x, row) /\ EntriesOf(x, row) = {row.name} /\ row # Absent
<1>1. row.status # "absent" /\ TableOf(x) = 11
  BY KeyTables DEF PartnerRows
<1>2. row # Absent
  BY <1>1 DEF Absent
<1> QED
  BY <1>1, <1>2, KeyTables DEF Sound, EntriesOf

\* A partner occupies the entry of its name, from its creation through every renaming.
LEMMA PartnerFits ==
  ASSUME RowsInv, DbInv, NEW r \in Requests, PartnerStep(r)
  PROVE  Planned(r)
<1>0. ASSUME NEW p \in Among(Partners), db[p] # Absent
      PROVE  /\ db[p] \in PartnerRows /\ p \in DOMAIN db /\ p \in Partners
             /\ EntriesOf(p, db[p]) = {db[p].name}
  <2>1. db[p] \in PartnerRows /\ p \in DOMAIN db /\ p \in Partners
    BY <1>0, Typed DEF DbInv, Sound, Among
  <2> QED
    BY <2>1, PartnerRow
<1>1. CASE CreatePartner(r)
  <2>1. PICK p \in Among(Partners), n \in Among(Names) :
          /\ Fresh(p) /\ FreeName(n)
          /\ Prepare(r, Plan("create_partner",
               [x \in {p, n} |-> IF x = n THEN Entry(p)
                                 ELSE [status |-> "active", deleted |-> FALSE, name |-> n]],
               Idle))
    BY <1>1 DEF CreatePartner
  <2> DEFINE row == [status |-> "active", deleted |-> FALSE, name |-> n]
             writes == [x \in {p, n} |-> IF x = n THEN Entry(p) ELSE row]
  <2>2. p \in Partners /\ p \in DOMAIN db /\ n \in DOMAIN db /\ n \in IndexEntries /\ n # p
    BY KeyTables DEF Among, IndexEntries
  <2>3. row \in PartnerRows /\ row.name = n
    BY DEF PartnerRows, Among
  <2> HIDE DEF row
  <2>4. Sound(p, row) /\ EntriesOf(p, row) = {n}
    BY <2>2, <2>3, PartnerRow
  <2>5. ~Exists(n) /\ Prepare(r, Plan("create_partner", writes, Idle))
    BY <2>1 DEF FreeName, row
  <2>6. DOMAIN writes = {p, n} /\ writes[p] = row /\ writes[n] = Entry(p)
    BY <2>2
  <2> HIDE DEF writes
  <2>7. /\ WriteOk(p, db[p], row)
        /\ p \notin Unversioned \cup RefreshTokens \cup Attempts \cup IndexEntries \cup Notifications
    BY <2>2, <2>4, KeyedOk
  <2> QED
    BY <2>2, <2>4, <2>5, <2>6, <2>7, EntriesFit
<1>2. CASE UpdatePartner(r)
  <2>1. PICK p \in Among(Partners), n \in Among(Names) :
          /\ Live(p) /\ FreeName(n)
          /\ Prepare(r, Plan("update_partner",
               [x \in Among({p, n, db[p].name}) |->
                  CASE x = p -> [db[p] EXCEPT !.name = n]
                    [] x = n -> Entry(p)
                    [] OTHER -> Absent],
               Idle))
    BY <1>2 DEF UpdatePartner
  <2> DEFINE row == [db[p] EXCEPT !.name = n]
             old == db[p].name
             writes == [x \in Among({p, n, old}) |->
                  CASE x = p -> row
                    [] x = n -> Entry(p)
                    [] OTHER -> Absent]
  <2>2. /\ p \in Partners /\ p \in DOMAIN db /\ db[p] \in PartnerRows
        /\ EntriesOf(p, db[p]) = {old}
    BY <1>0, <2>1 DEF Live, Exists, Absent
  <2>3. /\ n \in DOMAIN db /\ n \in IndexEntries /\ ~Exists(n)
        /\ old \in DOMAIN db /\ db[old] = Entry(p)
    BY <2>1, <2>2 DEF FreeName, Among, IndexEntries, DbInv, Indexed
  <2>4. old \in IndexEntries /\ old # n /\ p \notin IndexEntries
    BY <2>2, <2>3, KeyTables, EntryRow DEF PartnerRows, IndexEntries, Exists
  <2>5. row \in PartnerRows /\ row.name = n
    BY <2>2 DEF PartnerRows, Among
  <2> HIDE DEF row, old
  <2>6. Sound(p, row) /\ EntriesOf(p, row) = {n}
    BY <2>2, <2>5, PartnerRow
  <2>7. /\ DOMAIN writes = {p, n, old} /\ writes[p] = row /\ writes[n] = Entry(p)
        /\ writes[old] = Absent
    BY <2>2, <2>3, <2>4 DEF Among
  <2>8. Prepare(r, Plan("update_partner", writes, Idle))
    BY <2>1 DEF row, old
  <2> HIDE DEF writes
  <2>9. /\ WriteOk(p, db[p], row)
        /\ p \notin Unversioned \cup RefreshTokens \cup Attempts \cup IndexEntries \cup Notifications
    BY <2>2, <2>6, KeyedOk
  <2>10. ASSUME NEW i \in DOMAIN writes \ {p}
         PROVE  \/ writes[i] = Entry(p) /\ ~Exists(i)
                \/ writes[i] = Absent /\ i \in EntriesOf(p, db[p]) /\ i \notin EntriesOf(p, writes[p])
    BY <2>2, <2>3, <2>4, <2>6, <2>7
  <2> QED
    BY <2>2, <2>3, <2>4, <2>6, <2>7, <2>8, <2>9, <2>10, EntriesFit
<1>3. ASSUME NEW p \in Among(Partners), NEW op, NEW row \in PartnerRows,
             db[p] # Absent, row.name = db[p].name, Write(r, op, p, row)
      PROVE  Planned(r)
  <2>1. Good(p, row)
    BY <1>0, <1>3, PartnerRow, GoodKeyed
  <2> QED
    BY <1>0, <1>3, <2>1, WriteFits
<1>4. CASE SuspendPartner(r)
  <2>1. PICK p \in Among(Partners) :
          db[p] # Absent /\ Write(r, "suspend_partner", p, [db[p] EXCEPT !.status = "suspended"])
    BY <1>4 DEF SuspendPartner, InStatus, Live, Exists, Absent
  <2>2. /\ [db[p] EXCEPT !.status = "suspended"] \in PartnerRows
        /\ [db[p] EXCEPT !.status = "suspended"].name = db[p].name
    BY <1>0, <2>1 DEF PartnerRows
  <2> QED
    BY <1>3, <2>1, <2>2
<1>5. CASE ActivatePartner(r)
  <2>1. PICK p \in Among(Partners) :
          db[p] # Absent /\ Write(r, "activate_partner", p, [db[p] EXCEPT !.status = "active"])
    BY <1>5 DEF ActivatePartner, InStatus, Live, Exists, Absent
  <2>2. /\ [db[p] EXCEPT !.status = "active"] \in PartnerRows
        /\ [db[p] EXCEPT !.status = "active"].name = db[p].name
    BY <1>0, <2>1 DEF PartnerRows
  <2> QED
    BY <1>3, <2>1, <2>2
<1>6. CASE DeletePartner(r)
  <2>1. PICK p \in Among(Partners) : SoftDelete(r, "delete_partner", p)
    BY <1>6 DEF DeletePartner
  <2>2. PICK deleted \in BOOLEAN :
          db[p] # Absent /\ Write(r, "delete_partner", p, [db[p] EXCEPT !.deleted = deleted])
    BY <2>1, Deletes
  <2>3. /\ [db[p] EXCEPT !.deleted = deleted] \in PartnerRows
        /\ [db[p] EXCEPT !.deleted = deleted].name = db[p].name
    BY <1>0, <2>2 DEF PartnerRows
  <2> QED
    BY <1>3, <2>2, <2>3
<1> QED
  BY <1>1, <1>2, <1>4, <1>5, <1>6 DEF PartnerStep

\* Rows of tables without versions.
LEMMA SharedFit ==
  ASSUME RowsInv, DbInv, NEW r \in Requests, NEW op, NEW writes, NEW then,
         Prepare(r, Plan(op, writes, then)),
         DOMAIN writes \subseteq DOMAIN db \cap Unversioned,
         \A x \in DOMAIN writes :
           /\ WriteOk(x, db[x], writes[x])
           /\ EntriesOf(x, writes[x]) \subseteq EntriesOf(x, db[x])
           /\ Fresh(x) \/ db[x] # Absent,
         then = Idle \/ (then.pc = "authenticated" /\ then.key \in Among(ApiKeys))
  PROVE  Planned(r)
<1> DEFINE p == req'[r]
<1>1. /\ p.pc = "flush" /\ p.writes = writes /\ p.then = then
      /\ \A y \in DOMAIN writes : p.loaded[y] = db[y]
  BY Prepared
<1> HIDE DEF p
<1>2. \A x \in DOMAIN writes : TableOf(x) \in {12, 14}
  BY KeyTables
<1>3. \A y \in DOMAIN writes : WriteOk(y, p.loaded[y], p.writes[y])
  BY <1>1
<1>4. DOMAIN writes \cap IndexEntries = {} /\ DOMAIN writes \cap Attempts = {}
      /\ DOMAIN writes \cap Notifications = {} /\ DOMAIN writes \cap RefreshTokens = {}
  BY <1>2, KeyTables
<1>5. EntriesMove(p.loaded, p.writes)
  BY <1>1, <1>4 DEF EntriesMove
<1>6. AttemptsTold(p.loaded, p.writes)
  BY <1>1, <1>4 DEF AttemptsTold
<1>7. GoesOn(p)
  BY <1>1 DEF GoesOn, Idle
<1>8. Fits(p)
  BY <1>1, <1>3, <1>5, <1>6, <1>7 DEF Fits, FlushFits
<1>9. \A c : ~Bears(p, c)
  BY <1>1, <1>4 DEF Bears
<1> QED
  BY <1>1, <1>8, <1>9 DEF Planned, p

\* A key that is inserted, used or revoked.
LEMMA KeyOk ==
  ASSUME DbInv, NEW k \in Among(ApiKeys), NEW row,
         \/ Fresh(k) /\ \E p \in Partners, dated \in BOOLEAN : row = NewKey(p, dated)
         \/ Exists(k) /\ row \in {[db[k] EXCEPT !.used = TRUE], Revoked(k)}
  PROVE  /\ WriteOk(k, db[k], row) /\ k \in DOMAIN db \cap Unversioned
         /\ EntriesOf(k, row) \subseteq EntriesOf(k, db[k])
         /\ Fresh(k) \/ db[k] # Absent
<1>1. /\ k \in ApiKeys /\ k \in DOMAIN db /\ TableOf(k) = 12 /\ k \in Unversioned
      /\ Exists(k) <=> db[k] # Absent
      /\ Sound(k, db[k])
  BY KeyTables, Typed DEF Among, DbInv
<1>2. EntriesOf(k, row) \subseteq EntriesOf(k, db[k])
  BY <1>1, KeyTables DEF EntriesOf
<1>3. CASE Fresh(k) /\ \E p \in Partners, dated \in BOOLEAN : row = NewKey(p, dated)
  <2>1. row \in KeyRows /\ row.status = "active" /\ row.revokedAt = FALSE
    BY <1>3 DEF NewKey, KeyRows
  <2>2. row # Absent
    BY <2>1 DEF Absent
  <2>3. Sound(k, row)
    BY <1>1, <2>1, <2>2, KeyTables DEF Sound
  <2>4. Lawful(k, Absent, row) /\ Rests(k, row)
    BY <1>1, <2>2, KeyTables DEF Lawful, Rests
  <2> QED
    BY <1>1, <1>2, <1>3, <2>2, <2>3, <2>4 DEF WriteOk, RowFits, Fresh
<1>4. CASE Exists(k) /\ row \in {[db[k] EXCEPT !.used = TRUE], Revoked(k)}
  <2>1. Merges(k, db[k], row)
    BY <1>1, <1>4, KeyTables DEF Merges, Revoked
  <2> QED
    BY <1>1, <1>2, <1>4, <2>1 DEF WriteOk
<1> QED
  BY <1>3, <1>4

\* API keys: requests that do not see each other write their own columns of a key.
LEMMA KeyFits ==
  ASSUME RowsInv, DbInv, NEW r \in Requests, KeyStep(r)
  PROVE  Planned(r)
<1>1. ASSUME NEW k \in Among(ApiKeys), NEW op, NEW row, Write(r, op, k, row),
             \/ Fresh(k) /\ \E p \in Partners, dated \in BOOLEAN : row = NewKey(p, dated)
             \/ Exists(k) /\ row \in {[db[k] EXCEPT !.used = TRUE], Revoked(k)}
      PROVE  Planned(r)
  <2>1. DOMAIN Row(k, row) = {k} /\ Row(k, row)[k] = row
    BY DEF Row
  <2> QED
    BY <1>1, <2>1, KeyOk, SharedFit DEF Write
<1>2. CASE CreateApiKey(r)
  <2>1. PICK p \in Among(Partners), k \in Among(ApiKeys), dated \in BOOLEAN :
          Fresh(k) /\ Write(r, "create_key", k, NewKey(p, dated))
    BY <1>2 DEF CreateApiKey, Insert
  <2> QED
    BY <1>1, <2>1 DEF Among
<1>3. CASE RevokeApiKey(r)
  BY <1>1, <1>3 DEF RevokeApiKey, InStatus, Live
<1>4. CASE RotateApiKey(r)
  <2>1. PICK old \in Among(ApiKeys), new \in Among(ApiKeys) :
          /\ Exists(old) /\ Fresh(new)
          /\ Prepare(r, Plan("rotate_key",
               [x \in {old, new} |-> IF x = new THEN NewKey(db[old].partner, db[old].dated)
                                     ELSE Revoked(old)], Idle))
    BY <1>4 DEF RotateApiKey
  <2> DEFINE writes == [x \in {old, new} |-> IF x = new THEN NewKey(db[old].partner, db[old].dated)
                                             ELSE Revoked(old)]
  <2>2. db[old] \in KeyRows
    BY <2>1, Typed DEF Sound, DbInv, Among
  <2>3. db[old].partner \in Partners /\ db[old].dated \in BOOLEAN
    BY <2>2 DEF KeyRows
  <2>4. old # new
    BY <2>1 DEF Fresh
  <2>5. /\ DOMAIN writes = {old, new} /\ writes[old] = Revoked(old)
        /\ writes[new] = NewKey(db[old].partner, db[old].dated)
    BY <2>4
  <2> HIDE DEF writes
  <2>6. ASSUME NEW x \in DOMAIN writes
        PROVE  /\ WriteOk(x, db[x], writes[x]) /\ x \in DOMAIN db \cap Unversioned
               /\ EntriesOf(x, writes[x]) \subseteq EntriesOf(x, db[x])
               /\ Fresh(x) \/ db[x] # Absent
    BY <2>1, <2>3, <2>5, KeyOk
  <2>7. Prepare(r, Plan("rotate_key", writes, Idle))
    BY <2>1 DEF writes
  <2> QED
    BY <2>6, <2>7, SharedFit
<1> QED
  BY <1>2, <1>3, <1>4 DEF KeyStep

\* An event that is read.
LEMMA EventTyped ==
  ASSUME DbInv, NEW e \in Among(InboundEvents), Exists(e)
  PROVE  /\ db[e] \in InboundRows /\ e \in InboundEvents /\ e \in DOMAIN db
         /\ db[e] # Absent /\ Sound(e, db[e]) /\ TableOf(e) = 14 /\ e \in Unversioned
         /\ db[e].status \in {"accepted", "processed"} => db[e].valid
<1>1. e \in InboundEvents /\ e \in DOMAIN db /\ TableOf(e) = 14 /\ e \in Unversioned
  BY KeyTables DEF Among
<1> QED
  BY <1>1, Typed DEF Sound, DbInv

\* Events of partners: inserted with their slot, then processed or rejected.
LEMMA InboundFits ==
  ASSUME RowsInv, DbInv, NEW r \in Requests, Fits(req[r]), InboundStep(r)
  PROVE  Planned(r)
<1>1. CASE Authenticate(r)
  <2>1. PICK k \in Among(ApiKeys) :
          /\ Exists(k)
          /\ Prepare(r, Plan("authenticate", Row(k, [db[k] EXCEPT !.used = TRUE]),
                             [pc |-> "authenticated", key |-> k]))
    BY <1>1 DEF Authenticate, InStatus, Live
  <2>2. /\ DOMAIN Row(k, [db[k] EXCEPT !.used = TRUE]) = {k}
        /\ Row(k, [db[k] EXCEPT !.used = TRUE])[k] = [db[k] EXCEPT !.used = TRUE]
    BY DEF Row
  <2> QED
    BY <2>1, <2>2, KeyOk, SharedFit
<1>2. CASE ReceiveInboundEvent(r)
  <2>1. PICK e \in Among(InboundEvents), tag \in Tags, valid \in BOOLEAN :
          /\ req[r].pc = "authenticated" /\ Fresh(e) /\ ~Exists(Slot(req[r].key, tag))
          /\ Prepare(r, Plan("receive", Received(e, req[r].key, tag, valid), Idle))
    BY <1>2 DEF ReceiveInboundEvent
  <2> DEFINE k == req[r].key
             i == Slot(k, tag)
             row == [status |-> IF valid THEN "accepted" ELSE "rejected", deleted |-> FALSE,
                     key |-> k, tag |-> tag, valid |-> valid]
             writes == Received(e, k, tag, valid)
  <2>2. k \in ApiKeys /\ k \in DOMAIN db
    BY <2>1 DEF Fits, Among
  <2>3. /\ e \in InboundEvents /\ e \in DOMAIN db /\ TableOf(e) = 14 /\ e \in Unversioned
        /\ db[e] = Absent
    BY <2>1, KeyTables, Typed DEF Among, DbInv, Fresh
  <2>4. i \in DOMAIN db /\ i \in IndexEntries /\ i # e
    <3>1. i \in DOMAIN db
      BY <2>2, <2>3, TablesAssumption DEF DbInv
    <3>2. i \in IndexEntries
      BY <2>1, <2>2 DEF IndexEntries
    <3> QED
      BY <2>3, <3>1, <3>2, KeyTables
  <2>5. /\ row \in InboundRows /\ (row.status \in {"accepted", "processed"} => row.valid)
        /\ row.status # "absent" /\ row.key = k /\ row.tag = tag
    BY <2>2 DEF InboundRows
  <2>6. DOMAIN writes = {e, i} /\ writes[e] = row /\ writes[i] = Entry(e)
    BY <2>3, <2>4 DEF Received, Among
  <2> HIDE DEF writes, row, i
  <2>7. row # Absent
    BY <2>5 DEF Absent
  <2>8. Sound(e, row)
    BY <2>3, <2>5, <2>7, KeyTables DEF Sound
  <2>9. Lawful(e, Absent, row) /\ Rests(e, row)
    BY <2>3, <2>7, KeyTables DEF Lawful, Rests
  <2>10. WriteOk(e, db[e], row)
    BY <2>3, <2>7, <2>8, <2>9 DEF WriteOk, RowFits
  <2>11. EntriesOf(e, row) = {i}
    BY <2>3, <2>5, <2>7, KeyTables DEF EntriesOf, i
  <2>12. e \notin RefreshTokens \cup Attempts \cup IndexEntries \cup Notifications
    BY <2>3, KeyTables
  <2>13. ~Exists(i) /\ Prepare(r, Plan("receive", writes, Idle))
    BY <2>1 DEF writes, i
  <2> QED
    BY <2>1, <2>3, <2>4, <2>6, <2>10, <2>11, <2>12, <2>13, EntriesFit
<1>3. ASSUME NEW e \in Among(InboundEvents), NEW op, NEW row, Exists(e), Write(r, op, e, row),
             \/ row = [db[e] EXCEPT !.status = "rejected"]
             \/ row = [db[e] EXCEPT !.status = "processed"] /\ db[e].valid
      PROVE  Planned(r)
  <2>1. /\ db[e] \in InboundRows /\ e \in InboundEvents /\ e \in DOMAIN db
        /\ db[e] # Absent /\ Sound(e, db[e]) /\ TableOf(e) = 14 /\ e \in Unversioned
    BY <1>3, EventTyped
  <2>2. row.key = db[e].key /\ row.tag = db[e].tag /\ row.status \in {"rejected", "processed"}
    BY <1>3, <2>1 DEF InboundRows
  <2>3. row # Absent
    BY <2>2 DEF Absent
  <2>4. EntriesOf(e, row) = EntriesOf(e, db[e])
    BY <2>1, <2>2, <2>3, KeyTables DEF EntriesOf
  <2>5. Merges(e, db[e], row)
    BY <1>3, <2>1, KeyTables DEF Merges
  <2>6. WriteOk(e, db[e], row)
    BY <2>1, <2>5 DEF WriteOk
  <2>7. DOMAIN Row(e, row) = {e} /\ Row(e, row)[e] = row
    BY DEF Row
  <2> QED
    BY <1>3, <2>1, <2>4, <2>6, <2>7, SharedFit DEF Write
<1>4. CASE ProcessInboundEvent(r)
  <2>1. PICK e \in Among(InboundEvents) :
          /\ InStatus(e, {"accepted"})
          /\ Write(r, "process_inbound", e, [db[e] EXCEPT !.status = "processed"])
    BY <1>4 DEF ProcessInboundEvent
  <2>2. Exists(e) /\ db[e].valid
    BY <2>1, EventTyped DEF InStatus, Live
  <2> QED
    BY <1>3, <2>1, <2>2
<1>5. CASE RejectInboundEvent(r)
  BY <1>3, <1>5 DEF RejectInboundEvent, Live
<1> QED
  BY <1>1, <1>2, <1>4, <1>5 DEF InboundStep

\* Webhook subscriptions.
LEMMA SubscriptionFits ==
  ASSUME RowsInv, DbInv, NEW r \in Requests, SubscriptionStep(r)
  PROVE  Planned(r)
<1>1. ASSUME NEW u \in Among(Subscriptions), NEW op, NEW row \in SubscriptionRows,
             Write(r, op, u, row)
      PROVE  Planned(r)
  BY <1>1, GoodRecord, WriteFits DEF Among
<1>2. ASSUME NEW u \in Among(Subscriptions), Exists(u)
      PROVE  db[u] \in SubscriptionRows
  BY <1>2, Typed DEF DbInv, Sound, Among
<1>3. CASE CreateSubscription(r)
  <2>1. PICK p \in Among(Partners), u \in Among(Subscriptions) :
          Write(r, "create_subscription", u,
                [status |-> "active", deleted |-> FALSE, partner |-> p, secret |-> 0])
    BY <1>3 DEF CreateSubscription, Insert
  <2>2. [status |-> "active", deleted |-> FALSE, partner |-> p, secret |-> 0] \in SubscriptionRows
    BY DEF SubscriptionRows, Among
  <2> QED
    BY <1>1, <2>1, <2>2
<1>4. CASE UpdateSubscription(r)
  BY <1>1, <1>2, <1>4 DEF UpdateSubscription, Live
<1>5. CASE ActivateSubscription(r)
  <2>1. PICK u \in Among(Subscriptions) :
          Exists(u) /\ Write(r, "activate_subscription", u, [db[u] EXCEPT !.status = "active"])
    BY <1>5 DEF ActivateSubscription, InStatus, Live
  <2>2. [db[u] EXCEPT !.status = "active"] \in SubscriptionRows
    BY <1>2, <2>1 DEF SubscriptionRows
  <2> QED
    BY <1>1, <2>1, <2>2
<1>6. CASE DeactivateSubscription(r)
  <2>1. PICK u \in Among(Subscriptions) :
          Exists(u) /\ Write(r, "deactivate_subscription", u, [db[u] EXCEPT !.status = "inactive"])
    BY <1>6 DEF DeactivateSubscription, InStatus, Live
  <2>2. [db[u] EXCEPT !.status = "inactive"] \in SubscriptionRows
    BY <1>2, <2>1 DEF SubscriptionRows
  <2> QED
    BY <1>1, <2>1, <2>2
<1>7. CASE DeleteSubscription(r)
  <2>1. PICK u \in Among(Subscriptions) :
          Exists(u) /\ Write(r, "delete_subscription", u, [db[u] EXCEPT !.deleted = TRUE])
    BY <1>7 DEF DeleteSubscription, SoftDelete, Live
  <2>2. [db[u] EXCEPT !.deleted = TRUE] \in SubscriptionRows
    BY <1>2, <2>1 DEF SubscriptionRows
  <2> QED
    BY <1>1, <2>1, <2>2
<1>8. CASE RotateSubscriptionSecret(r)
  <2>1. PICK u \in Among(Subscriptions) :
          Exists(u) /\ Write(r, "rotate_secret", u, [db[u] EXCEPT !.secret = 1 - @])
    BY <1>8 DEF RotateSubscriptionSecret, Live
  <2>2. db[u] \in SubscriptionRows /\ 1 - db[u].secret \in 0..1
    BY <1>2, <2>1 DEF SubscriptionRows
  <2>3. [db[u] EXCEPT !.secret = 1 - @] \in SubscriptionRows
    BY <2>2 DEF SubscriptionRows
  <2> QED
    BY <1>1, <2>1, <2>3
<1> QED
  BY <1>3, <1>4, <1>5, <1>6, <1>7, <1>8 DEF SubscriptionStep

-----------------------------------------------------------------------------
(* Templates, users, vehicles, warehouses: rows with a code *)

\* A row with a code occupies its entry.
LEMMA CodedRow ==
  ASSUME NEW x, NEW row,
         \/ x \in Templates /\ row \in TemplateRows
         \/ x \in Accounts /\ row \in AccountRows
         \/ x \in Vehicles /\ row \in VehicleRows
         \/ x \in Warehouses /\ row \in WarehouseRows
  PROVE  /\ Sound(x, row) /\ row # Absent /\ EntriesOf(x, row) = {row.code}
         /\ row.code \in IndexEntries
         /\ x \in UNION {Partners, Templates, Accounts, Drivers, Vehicles, Warehouses}
<1>0. row.status # "absent" /\ row.code \in UNION {TemplateCodes, Emails, Plates, Codes}
  BY DEF TemplateRows, AccountRows, VehicleRows, WarehouseRows
<1>1. row.status # "absent" /\ row.code \in IndexEntries
  BY <1>0 DEF IndexEntries
<1>2. row # Absent
  BY <1>1 DEF Absent
<1>3. TableOf(x) \in {15, 18, 20, 21}
  BY KeyTables
<1>4. Sound(x, row)
  BY <1>1, <1>2, <1>3, KeyTables DEF Sound
<1>5. EntriesOf(x, row) = {row.code}
  BY <1>2, <1>3, KeyTables DEF EntriesOf
<1> QED
  BY <1>1, <1>2, <1>4, <1>5

\* A driver occupies two entries.
LEMMA DriverRow ==
  ASSUME NEW x \in Drivers, NEW row \in DriverRows
  PROVE  /\ Sound(x, row) /\ row # Absent
         /\ EntriesOf(x, row) = {row.code, Profile(row.user)}
         /\ row.code \in IndexEntries /\ Profile(row.user) \in IndexEntries
         /\ row.code # Profile(row.user)
<1>1. row.status # "absent" /\ row.code \in Licences /\ row.user \in Accounts
  BY DEF DriverRows
<1>2. row # Absent
  BY <1>1 DEF Absent
<1>3. TableOf(x) = 19
  BY KeyTables
<1>4. Sound(x, row)
  BY <1>1, <1>2, <1>3, KeyTables DEF Sound
<1>5. EntriesOf(x, row) = {row.code, Profile(row.user)}
  BY <1>2, <1>3, KeyTables DEF EntriesOf
<1>6. row.code # Profile(row.user)
  BY <1>1, AccessAssumption
<1>7. row.code \in IndexEntries /\ Profile(row.user) \in IndexEntries
  BY <1>1 DEF IndexEntries
<1> QED
  BY <1>2, <1>4, <1>5, <1>6, <1>7

\* One that is read.
LEMMA CodedTyped ==
  ASSUME DbInv, NEW x \in DOMAIN db, db[x] # Absent
  PROVE  /\ x \in Templates => db[x] \in TemplateRows
         /\ x \in Accounts => db[x] \in AccountRows
         /\ x \in Drivers => db[x] \in DriverRows
         /\ x \in Vehicles => db[x] \in VehicleRows
         /\ x \in Warehouses => db[x] \in WarehouseRows
BY Typed DEF DbInv, Sound

\* An insert takes the entry.
LEMMA CodedInsert ==
  ASSUME RowsInv, DbInv, NEW r \in Requests, NEW op, NEW x \in DOMAIN db, NEW c \in DOMAIN db,
         NEW row, NEW writes,
         \/ x \in Templates /\ row \in TemplateRows
         \/ x \in Accounts /\ row \in AccountRows
         \/ x \in Vehicles /\ row \in VehicleRows
         \/ x \in Warehouses /\ row \in WarehouseRows,
         row.code = c, ~Exists(c),
         Prepare(r, Plan(op, writes, Idle)),
         DOMAIN writes = {x, c}, writes[x] = row, c # x => writes[c] = Entry(x)
  PROVE  Planned(r)
<1>1. /\ Sound(x, row) /\ row # Absent /\ EntriesOf(x, row) = {c}
      /\ c \in IndexEntries
      /\ x \in UNION {Partners, Templates, Accounts, Drivers, Vehicles, Warehouses}
  BY CodedRow
<1>2. /\ WriteOk(x, db[x], row)
      /\ x \notin Unversioned \cup RefreshTokens \cup Attempts \cup IndexEntries \cup Notifications
  BY <1>1, KeyedOk
<1> QED
  BY <1>1, <1>2, EntriesFit

\* A template: only its creation touches the index.
LEMMA TemplateFits ==
  ASSUME RowsInv, DbInv, NEW r \in Requests, TemplateStep(r)
  PROVE  Planned(r)
<1>1. CASE CreateTemplate(r)
  <2>1. PICK t \in Among(Templates), c \in Among(TemplateCodes) :
          /\ Fresh(t) /\ ~Exists(c)
          /\ Prepare(r, Plan("create_template",
               [x \in {t, c} |-> IF x = c THEN Entry(t)
                                 ELSE [status |-> "active", deleted |-> FALSE, code |-> c]],
               Idle))
    BY <1>1 DEF CreateTemplate
  <2> DEFINE row == [status |-> "active", deleted |-> FALSE, code |-> c]
             writes == [x \in {t, c} |-> IF x = c THEN Entry(t) ELSE row]
  <2>2. t \in Templates /\ t \in DOMAIN db /\ c \in DOMAIN db /\ c \in IndexEntries
    BY DEF Among, IndexEntries
  <2>3. row \in TemplateRows /\ row.code = c
    BY DEF TemplateRows, Among
  <2>4. t # c
    BY <2>2, KeyTables
  <2>5. DOMAIN writes = {t, c} /\ writes[t] = row /\ writes[c] = Entry(t)
    BY <2>4
  <2>6. Prepare(r, Plan("create_template", writes, Idle))
    BY <2>1
  <2> HIDE DEF row, writes
  <2> QED
    BY <2>1, <2>2, <2>3, <2>5, <2>6, CodedInsert
<1>2. ASSUME NEW t \in Among(Templates), NEW op, NEW row \in TemplateRows,
             db[t] # Absent, row.code = db[t].code, Write(r, op, t, row)
      PROVE  Planned(r)
  <2>1. t \in Templates /\ t \in DOMAIN db /\ db[t] \in TemplateRows
    BY <1>2, CodedTyped DEF Among
  <2>2. Good(t, row)
    BY <1>2, <2>1, CodedRow, GoodKeyed
  <2> QED
    BY <1>2, <2>1, <2>2, WriteFits
<1>3. ASSUME NEW t \in Among(Templates), Live(t)
      PROVE  db[t] # Absent
  BY <1>3 DEF Live, Exists, Absent
<1>4. CASE UpdateTemplate(r)
  BY <1>2, <1>3, <1>4, CodedTyped DEF UpdateTemplate, Among
<1>5. ASSUME NEW op, NEW from, NEW to \in {"active", "inactive"},
             SetTemplateActive(r, op, from, to)
      PROVE  Planned(r)
  <2>1. PICK t \in Among(Templates) : Live(t) /\ Write(r, op, t, [db[t] EXCEPT !.status = to])
    BY <1>5 DEF SetTemplateActive, InStatus
  <2>2. db[t] \in TemplateRows /\ db[t] # Absent
    BY <1>3, <2>1, CodedTyped DEF Among
  <2>3. /\ [db[t] EXCEPT !.status = to] \in TemplateRows
        /\ [db[t] EXCEPT !.status = to].code = db[t].code
    BY <2>2 DEF TemplateRows
  <2> QED
    BY <1>2, <2>1, <2>2, <2>3
<1>6. CASE ActivateTemplate(r)
  BY <1>5, <1>6 DEF ActivateTemplate
<1>7. CASE DeactivateTemplate(r)
  BY <1>5, <1>7 DEF DeactivateTemplate
<1>8. CASE DeleteTemplate(r) \/ RestoreTemplate(r)
  <2>1. PICK t \in Among(Templates) : \E op : SoftDelete(r, op, t) \/ Undelete(r, op, t)
    BY <1>8 DEF DeleteTemplate, RestoreTemplate
  <2>2. PICK op : SoftDelete(r, op, t) \/ Undelete(r, op, t)
    BY <2>1
  <2>3. PICK deleted \in BOOLEAN :
          db[t] # Absent /\ Write(r, op, t, [db[t] EXCEPT !.deleted = deleted])
    BY <2>2, Deletes
  <2>4. db[t] \in TemplateRows
    BY <2>3, CodedTyped DEF Among
  <2>5. /\ [db[t] EXCEPT !.deleted = deleted] \in TemplateRows
        /\ [db[t] EXCEPT !.deleted = deleted].code = db[t].code
    BY <2>4 DEF TemplateRows
  <2> QED
    BY <1>2, <2>3, <2>5
<1> QED
  BY <1>1, <1>4, <1>6, <1>7, <1>8 DEF TemplateStep

-----------------------------------------------------------------------------
(* Users and the registry: every operation plans what fits *)

\* A row is inserted together with the entry of its code.
LEMMA KeyedCreated ==
  ASSUME RowsInv, DbInv, NEW r \in Requests, NEW op, NEW x \in DOMAIN db,
         NEW row, row.code \in DOMAIN db,
         \/ x \in Templates /\ row \in TemplateRows
         \/ x \in Accounts /\ row \in AccountRows
         \/ x \in Vehicles /\ row \in VehicleRows
         \/ x \in Warehouses /\ row \in WarehouseRows,
         CreateKeyed(r, op, x, row)
  PROVE  Planned(r)
<1> DEFINE writes == [y \in {x, row.code} |-> IF y = x THEN row ELSE Entry(x)]
<1>1. ~Exists(row.code) /\ Prepare(r, Plan(op, writes, Idle))
  BY DEF CreateKeyed
<1>2. /\ DOMAIN writes = {x, row.code} /\ writes[x] = row
      /\ row.code # x => writes[row.code] = Entry(x)
  OBVIOUS
<1> HIDE DEF writes
<1> QED
  BY <1>1, <1>2, CodedInsert

\* A row that is removed gives its entries up.
LEMMA KeyedRemoved ==
  ASSUME RowsInv, DbInv, NEW r \in Requests, NEW op,
         NEW x \in UNION {Partners, Templates, Accounts, Drivers, Vehicles, Warehouses},
         x \in DOMAIN db, NEW S, x \in S,
         \A i \in Among(S) \ {x} : i \in IndexEntries /\ (Exists(i) => i \in EntriesOf(x, db[x])),
         Prepare(r, Plan(op, [y \in Among(S) |-> Absent], Idle))
  PROVE  Planned(r)
<1> DEFINE writes == [y \in Among(S) |-> Absent]
<1>1. Sound(x, Absent) /\ EntriesOf(x, Absent) = {}
  BY DEF Sound, EntriesOf
<1>2. /\ WriteOk(x, db[x], Absent)
      /\ x \notin Unversioned \cup RefreshTokens \cup Attempts \cup IndexEntries \cup Notifications
  BY <1>1, KeyedOk
<1>3. /\ DOMAIN writes \subseteq DOMAIN db /\ x \in DOMAIN writes
      /\ DOMAIN writes \subseteq {x} \cup IndexEntries
      /\ \A y \in DOMAIN writes : writes[y] = Absent
      /\ \A i \in DOMAIN writes \ {x} : Exists(i) => i \in EntriesOf(x, db[x])
  BY DEF Among
<1>4. Prepare(r, Plan(op, writes, Idle))
  OBVIOUS
<1> HIDE DEF writes
<1> QED
  BY <1>1, <1>2, <1>3, <1>4, EntriesFit

\* Users and their emails.
LEMMA UserFits ==
  ASSUME RowsInv, DbInv, NEW r \in Requests, UserStep(r)
  PROVE  Planned(r)
<1>1. CASE CreateUser(r)
  <2>1. PICK u \in Among(Accounts), email \in Among(Emails), role \in {"admin", "driver"} :
          CreateKeyed(r, "create_account", u, [status |-> "active", deleted |-> FALSE,
                                               code |-> email, role |-> role])
    BY <1>1 DEF CreateUser
  <2> DEFINE row == [status |-> "active", deleted |-> FALSE, code |-> email, role |-> role]
  <2>2. row \in AccountRows /\ row.code = email
    BY DEF AccountRows, Among
  <2>3. CreateKeyed(r, "create_account", u, row)
    BY <2>1
  <2> HIDE DEF row
  <2> QED
    BY <2>2, <2>3, KeyedCreated DEF Among
<1>2. CASE UpdateUser(r)
  <2>1. PICK u \in Among(Accounts), status \in {"active", "inactive"} :
          Exists(u) /\ Write(r, "update_account", u, [db[u] EXCEPT !.status = status])
    BY <1>2 DEF UpdateUser
  <2> DEFINE row == [db[u] EXCEPT !.status = status]
  <2>2. u \in Accounts /\ u \in DOMAIN db /\ db[u] # Absent
    BY <2>1 DEF Among, Exists, Absent
  <2>3. db[u] \in AccountRows
    BY <2>2, CodedTyped
  <2>4. row \in AccountRows /\ row.code = db[u].code
    BY <2>3 DEF AccountRows
  <2>5. Write(r, "update_account", u, row)
    BY <2>1
  <2> HIDE DEF row
  <2>6. Good(u, row)
    BY <2>2, <2>3, <2>4, CodedRow, GoodKeyed
  <2> QED
    BY <2>2, <2>5, <2>6, WriteFits
<1>3. CASE DeleteUser(r)
  <2>1. PICK u \in Among(Accounts) :
          /\ Exists(u)
          /\ Profile(u) \in DOMAIN db => ~Exists(Profile(u))
          /\ Prepare(r, Plan("delete_account",
                             [y \in Among({u, db[u].code, Profile(u)}) |-> Absent], Idle))
    BY <1>3 DEF DeleteUser
  <2>2. u \in Accounts /\ u \in DOMAIN db /\ db[u] # Absent
    BY <2>1 DEF Among, Exists, Absent
  <2>3. db[u] \in AccountRows
    BY <2>2, CodedTyped
  <2>4. /\ EntriesOf(u, db[u]) = {db[u].code} /\ db[u].code \in IndexEntries
        /\ u \in UNION {Partners, Templates, Accounts, Drivers, Vehicles, Warehouses}
    BY <2>2, <2>3, CodedRow
  <2>5. Profile(u) \in IndexEntries
    BY <2>2 DEF IndexEntries
  <2> DEFINE S == {u, db[u].code, Profile(u)}
  <2>6. \A i \in Among(S) \ {u} : i \in IndexEntries /\ (Exists(i) => i \in EntriesOf(u, db[u]))
    BY <2>1, <2>4, <2>5 DEF Among
  <2>7. u \in S /\ Prepare(r, Plan("delete_account", [y \in Among(S) |-> Absent], Idle))
    BY <2>1
  <2> HIDE DEF S
  <2> QED
    BY <2>2, <2>4, <2>6, <2>7, KeyedRemoved
<1> QED
  BY <1>1, <1>2, <1>3 DEF UserStep

\* A row with another code takes the new entry and gives the old one up.
LEMMA KeyedRenamed ==
  ASSUME RowsInv, DbInv, NEW r \in Requests, NEW op, NEW x \in DOMAIN db, NEW c \in DOMAIN db,
         NEW row, row = [db[x] EXCEPT !.code = c],
         \/ x \in Drivers /\ row \in DriverRows
         \/ x \in Vehicles /\ row \in VehicleRows,
         Rename(r, op, x, c)
  PROVE  Planned(r)
<1> DEFINE old == db[x].code
           writes == [y \in Among({x, c, old}) |->
                        CASE y = x -> row [] y = c -> Entry(x) [] OTHER -> Absent]
<1>1. db[x] # Absent /\ ~Exists(c) /\ Prepare(r, Plan(op, writes, Idle))
  BY DEF Rename, Exists, Absent
<1>2. /\ x \in Drivers => db[x] \in DriverRows
      /\ x \in Vehicles => db[x] \in VehicleRows
  BY <1>1, CodedTyped
<1>3. row.code = c /\ (x \in Drivers => row.user = db[x].user)
  BY <1>2 DEF DriverRows, VehicleRows
<1>4. /\ old \in EntriesOf(x, db[x]) /\ c \in EntriesOf(x, row)
      /\ EntriesOf(x, row) \subseteq {c} \cup (EntriesOf(x, db[x]) \ {old})
      /\ old \in IndexEntries /\ c \in IndexEntries /\ Sound(x, row)
      /\ x \in UNION {Partners, Templates, Accounts, Drivers, Vehicles, Warehouses}
  <2>1. CASE x \in Drivers /\ row \in DriverRows
    <3>1. /\ EntriesOf(x, row) = {row.code, Profile(row.user)} /\ Sound(x, row)
          /\ row.code \in IndexEntries
      BY <2>1, DriverRow
    <3>2. /\ EntriesOf(x, db[x]) = {old, Profile(db[x].user)}
          /\ old \in IndexEntries /\ old # Profile(db[x].user)
      BY <1>2, <2>1, DriverRow
    <3> QED
      BY <1>3, <2>1, <3>1, <3>2
  <2>2. CASE x \in Vehicles /\ row \in VehicleRows
    <3>1. EntriesOf(x, row) = {row.code} /\ Sound(x, row) /\ row.code \in IndexEntries
      BY <2>2, CodedRow
    <3>2. EntriesOf(x, db[x]) = {old} /\ old \in IndexEntries
      BY <1>2, <2>2, CodedRow
    <3> QED
      BY <1>3, <2>2, <3>1, <3>2
  <2> QED
    BY <2>1, <2>2
<1>5. old \in DOMAIN db /\ db[old] = Entry(x)
  BY <1>4 DEF DbInv, Indexed
<1>6. old # c
  BY <1>1, <1>5, EntryRow DEF Exists
<1>7. /\ WriteOk(x, db[x], row)
      /\ x \notin Unversioned \cup RefreshTokens \cup Attempts \cup IndexEntries \cup Notifications
  BY <1>4, KeyedOk
<1>8. /\ DOMAIN writes = {x, c, old} /\ writes[x] = row /\ writes[c] = Entry(x)
      /\ writes[old] = Absent
  <2>1. x # c /\ x # old
    BY <1>4, <1>7
  <2> QED
    BY <1>5, <1>6, <2>1 DEF Among
<1> HIDE DEF writes, old
<1>9. old \notin EntriesOf(x, row)
  BY <1>4, <1>6
<1>10. \A i \in DOMAIN writes \ {x} :
         \/ writes[i] = Entry(x) /\ ~Exists(i)
         \/ writes[i] = Absent /\ i \in EntriesOf(x, db[x]) /\ i \notin EntriesOf(x, writes[x])
  BY <1>1, <1>4, <1>8, <1>9
<1>11. \A i \in EntriesOf(x, writes[x]) \ EntriesOf(x, db[x]) :
         i \in DOMAIN writes /\ writes[i] = Entry(x)
  BY <1>4, <1>8
<1> QED
  BY <1>1, <1>4, <1>5, <1>7, <1>8, <1>10, <1>11, EntriesFit

\* Drivers, their licences and their profiles.
LEMMA DriverFits ==
  ASSUME RowsInv, DbInv, NEW r \in Requests, DriverStep(r)
  PROVE  Planned(r)
<1>1. CASE CreateDriver(r)
  <2>1. PICK d \in Among(Drivers), licence \in Among(Licences), u \in Among(Accounts) :
          /\ Fresh(d) /\ ~Exists(licence)
          /\ Exists(u) /\ ~Exists(Profile(u))
          /\ Prepare(r, Plan("create_driver",
               [y \in Among({d, licence, Profile(u)}) |->
                  IF y = d THEN [status |-> "available", deleted |-> FALSE, code |-> licence,
                                 user |-> u]
                  ELSE Entry(d)], Idle))
    BY <1>1 DEF CreateDriver
  <2> DEFINE row == [status |-> "available", deleted |-> FALSE, code |-> licence, user |-> u]
             i == Profile(u)
             writes == [y \in Among({d, licence, i}) |-> IF y = d THEN row ELSE Entry(d)]
  <2>2. d \in Drivers /\ d \in DOMAIN db /\ licence \in DOMAIN db /\ u \in Accounts /\ u \in DOMAIN db
    BY DEF Among
  <2>3. row \in DriverRows /\ row.code = licence /\ row.user = u
    BY <2>2 DEF DriverRows, Among
  <2>4. i \in DOMAIN db
    BY <2>2, TablesAssumption DEF DbInv
  <2>5. ~Exists(i) /\ Prepare(r, Plan("create_driver", writes, Idle))
    BY <2>1
  <2> HIDE DEF row
  <2>6. /\ Sound(d, row) /\ EntriesOf(d, row) = {licence, i}
        /\ licence \in IndexEntries /\ i \in IndexEntries
    BY <2>2, <2>3, DriverRow
  <2>7. /\ WriteOk(d, db[d], row)
        /\ d \notin Unversioned \cup RefreshTokens \cup Attempts \cup IndexEntries \cup Notifications
    BY <2>2, <2>6, KeyedOk
  <2>8. /\ DOMAIN writes = {d, licence, i} /\ writes[d] = row
        /\ writes[licence] = Entry(d) /\ writes[i] = Entry(d)
    BY <2>2, <2>4, <2>6, <2>7 DEF Among
  <2> HIDE DEF writes, i
  <2> QED
    BY <2>1, <2>2, <2>4, <2>5, <2>6, <2>7, <2>8, EntriesFit
<1>2. CASE UpdateDriver(r)
  <2>1. PICK d \in Among(Drivers), licence \in Among(Licences) :
          Rename(r, "update_driver", d, licence)
    BY <1>2 DEF UpdateDriver
  <2>2. db[d] \in DriverRows
    BY <2>1, CodedTyped DEF Rename, Exists, Absent, Among
  <2>3. [db[d] EXCEPT !.code = licence] \in DriverRows
    BY <2>2 DEF DriverRows, Among
  <2> QED
    BY <2>1, <2>3, KeyedRenamed DEF Among
<1>3. CASE SetAvailability(r)
  <2>1. PICK d \in Among(Drivers), status \in {"available", "busy"} :
          Exists(d) /\ Write(r, "set_availability", d, [db[d] EXCEPT !.status = status])
    BY <1>3 DEF SetAvailability
  <2> DEFINE row == [db[d] EXCEPT !.status = status]
  <2>2. d \in Drivers /\ d \in DOMAIN db /\ db[d] # Absent
    BY <2>1 DEF Among, Exists, Absent
  <2>3. db[d] \in DriverRows
    BY <2>2, CodedTyped
  <2>4. row \in DriverRows /\ row.code = db[d].code /\ row.user = db[d].user
    BY <2>3 DEF DriverRows
  <2>5. Write(r, "set_availability", d, row)
    BY <2>1
  <2> HIDE DEF row
  <2>6. Good(d, row)
    BY <2>2, <2>3, <2>4, DriverRow, GoodKeyed
  <2> QED
    BY <2>2, <2>5, <2>6, WriteFits
<1>4. CASE DeleteDriver(r)
  <2>1. PICK d \in Among(Drivers) :
          /\ Exists(d)
          /\ Prepare(r, Plan("delete_driver",
                             [y \in Among({d, db[d].code, Profile(db[d].user)}) |-> Absent], Idle))
    BY <1>4 DEF DeleteDriver
  <2>2. d \in Drivers /\ d \in DOMAIN db /\ db[d] # Absent
    BY <2>1 DEF Among, Exists, Absent
  <2>3. db[d] \in DriverRows
    BY <2>2, CodedTyped
  <2>4. /\ EntriesOf(d, db[d]) = {db[d].code, Profile(db[d].user)}
        /\ db[d].code \in IndexEntries /\ Profile(db[d].user) \in IndexEntries
    BY <2>2, <2>3, DriverRow
  <2> DEFINE S == {d, db[d].code, Profile(db[d].user)}
  <2>5. \A i \in Among(S) \ {d} : i \in IndexEntries /\ (Exists(i) => i \in EntriesOf(d, db[d]))
    BY <2>4 DEF Among
  <2>6. d \in S /\ Prepare(r, Plan("delete_driver", [y \in Among(S) |-> Absent], Idle))
    BY <2>1
  <2> HIDE DEF S
  <2> QED
    BY <2>2, <2>5, <2>6, KeyedRemoved
<1> QED
  BY <1>1, <1>2, <1>3, <1>4 DEF DriverStep

\* Vehicles and warehouses that are deleted.
LEMMA KeyedDeleted ==
  ASSUME RowsInv, DbInv, NEW r \in Requests, NEW op, NEW x \in DOMAIN db,
         x \in Vehicles \cup Warehouses, DeleteKeyed(r, op, x)
  PROVE  Planned(r)
<1>1. db[x] # Absent /\ Prepare(r, Plan(op, [y \in Among({x, db[x].code}) |-> Absent], Idle))
  BY DEF DeleteKeyed, Exists, Absent
<1>2. /\ EntriesOf(x, db[x]) = {db[x].code} /\ db[x].code \in IndexEntries
      /\ x \in UNION {Partners, Templates, Accounts, Drivers, Vehicles, Warehouses}
  BY <1>1, CodedTyped, CodedRow
<1> DEFINE S == {x, db[x].code}
<1>3. \A i \in Among(S) \ {x} : i \in IndexEntries /\ (Exists(i) => i \in EntriesOf(x, db[x]))
  BY <1>2 DEF Among
<1>4. x \in S /\ Prepare(r, Plan(op, [y \in Among(S) |-> Absent], Idle))
  BY <1>1
<1> HIDE DEF S
<1> QED
  BY <1>2, <1>3, <1>4, KeyedRemoved

\* Vehicles and their plates.
LEMMA VehicleFits ==
  ASSUME RowsInv, DbInv, NEW r \in Requests, VehicleStep(r)
  PROVE  Planned(r)
<1>1. CASE CreateVehicle(r)
  <2>1. PICK v \in Among(Vehicles), plate \in Among(Plates) :
          CreateKeyed(r, "create_vehicle", v,
                      [status |-> "active", deleted |-> FALSE, code |-> plate])
    BY <1>1 DEF CreateVehicle
  <2> DEFINE row == [status |-> "active", deleted |-> FALSE, code |-> plate]
  <2>2. row \in VehicleRows /\ row.code = plate
    BY DEF VehicleRows, Among
  <2>3. CreateKeyed(r, "create_vehicle", v, row)
    BY <2>1
  <2> HIDE DEF row
  <2> QED
    BY <2>2, <2>3, KeyedCreated DEF Among
<1>2. CASE UpdateVehicle(r)
  <2>1. PICK v \in Among(Vehicles) :
          \/ \E plate \in Among(Plates) : Rename(r, "update_vehicle", v, plate)
          \/ \E status \in {"active", "maintenance"} :
               Exists(v) /\ Write(r, "update_vehicle", v, [db[v] EXCEPT !.status = status])
    BY <1>2 DEF UpdateVehicle
  <2>0. Exists(v)
    BY <2>1 DEF Rename
  <2>2. v \in Vehicles /\ v \in DOMAIN db /\ db[v] # Absent
    BY <2>0 DEF Among, Exists, Absent
  <2>3. db[v] \in VehicleRows
    BY <2>2, CodedTyped
  <2>4. ASSUME NEW plate \in Among(Plates), Rename(r, "update_vehicle", v, plate)
        PROVE  Planned(r)
    <3>1. [db[v] EXCEPT !.code = plate] \in VehicleRows
      BY <2>3 DEF VehicleRows, Among
    <3> QED
      BY <2>2, <2>4, <3>1, KeyedRenamed DEF Among
  <2>5. ASSUME NEW status \in {"active", "maintenance"},
               Write(r, "update_vehicle", v, [db[v] EXCEPT !.status = status])
        PROVE  Planned(r)
    <3> DEFINE row == [db[v] EXCEPT !.status = status]
    <3>1. row \in VehicleRows /\ row.code = db[v].code
      BY <2>3 DEF VehicleRows
    <3>2. Write(r, "update_vehicle", v, row)
      BY <2>5
    <3> HIDE DEF row
    <3>3. Good(v, row)
      BY <2>2, <2>3, <3>1, CodedRow, GoodKeyed
    <3> QED
      BY <2>2, <3>2, <3>3, WriteFits
  <2> QED
    BY <2>1, <2>4, <2>5
<1>3. CASE DeleteVehicle(r)
  BY <1>3, KeyedDeleted DEF DeleteVehicle, Among
<1> QED
  BY <1>1, <1>2, <1>3 DEF VehicleStep

\* Warehouses and their codes.
LEMMA WarehouseFits ==
  ASSUME RowsInv, DbInv, NEW r \in Requests, WarehouseStep(r)
  PROVE  Planned(r)
<1>1. CASE CreateWarehouse(r)
  <2>1. PICK w \in Among(Warehouses), code \in Among(Codes) :
          CreateKeyed(r, "create_warehouse", w,
                      [status |-> "open", deleted |-> FALSE, code |-> code])
    BY <1>1 DEF CreateWarehouse
  <2> DEFINE row == [status |-> "open", deleted |-> FALSE, code |-> code]
  <2>2. row \in WarehouseRows /\ row.code = code
    BY DEF WarehouseRows, Among
  <2>3. CreateKeyed(r, "create_warehouse", w, row)
    BY <2>1
  <2> HIDE DEF row
  <2> QED
    BY <2>2, <2>3, KeyedCreated DEF Among
<1>2. CASE UpdateWarehouse(r)
  <2>1. PICK w \in Among(Warehouses) : Exists(w) /\ Write(r, "update_warehouse", w, db[w])
    BY <1>2 DEF UpdateWarehouse
  <2>2. w \in Warehouses /\ w \in DOMAIN db /\ db[w] # Absent
    BY <2>1 DEF Among, Exists, Absent
  <2>3. db[w] \in WarehouseRows
    BY <2>2, CodedTyped
  <2>4. Good(w, db[w])
    BY <2>2, <2>3, CodedRow, GoodKeyed
  <2> QED
    BY <2>1, <2>2, <2>4, WriteFits
<1>3. CASE DeleteWarehouse(r)
  BY <1>3, KeyedDeleted DEF DeleteWarehouse, Among
<1> QED
  BY <1>1, <1>2, <1>3 DEF WarehouseStep

-----------------------------------------------------------------------------
(* Sessions: every step plans what fits *)

\* A refresh token that is written alone.
LEMMA TokenFits ==
  ASSUME RowsInv, DbInv, NEW r \in Requests, NEW op, NEW t \in Among(RefreshTokens),
         NEW row \in TokenRows, NEW then,
         Prepare(r, Plan(op, Row(t, row), then)),
         db[t] # Absent => row.chain = db[t].chain /\ row.status = "spent",
         row.chain = t \/ (row.chain \in DOMAIN db /\ Exists(row.chain)),
         \/ then = Idle
         \/ then = [pc |-> "refreshing", token |-> t] /\ db[t].status = "live" /\ row.status = "spent",
         row.status = "live" =>
           Bears(req[r], row.chain) \/ (row.chain \in DOMAIN db /\ Fresh(row.chain))
  PROVE  Planned(r)
<1> DEFINE p == req'[r]
<1>1. DOMAIN Row(t, row) = {t} /\ Row(t, row)[t] = row
  BY DEF Row
<1>2. /\ p.pc = "flush" /\ DOMAIN p.writes = {t} /\ p.writes[t] = row /\ p.then = then
      /\ p.loaded[t] = db[t]
  BY <1>1, Prepared
<1> HIDE DEF p
<1>3. t \in RefreshTokens /\ t \in DOMAIN db /\ TableOf(t) = 22
  BY KeyTables DEF Among
<1>4. row.status # "absent"
  BY DEF TokenRows
<1>5. row # Absent
  BY <1>4 DEF Absent
<1>6. Sound(t, row)
  BY <1>3, <1>4, KeyTables DEF Sound
<1>7. Lawful(t, db[t], row) /\ Rests(t, row)
  BY <1>3, <1>5, KeyTables DEF Lawful, Rests
<1>8. t \notin Unversioned \cup IndexEntries \cup Attempts \cup Notifications
  BY <1>3, KeyTables
<1>9. WriteOk(t, p.loaded[t], p.writes[t])
  BY <1>2, <1>6, <1>7, <1>8 DEF WriteOk, RowFits
<1>10. EntriesOf(t, row) = {}
  BY <1>3, KeyTables DEF EntriesOf
<1>11. EntriesMove(p.loaded, p.writes) /\ AttemptsTold(p.loaded, p.writes)
  BY <1>2, <1>8, <1>10 DEF EntriesMove, AttemptsTold
<1>12. GoesOn(p)
  BY <1>2, <1>3 DEF GoesOn, Idle
<1>13. Fits(p)
  BY <1>2, <1>9, <1>11, <1>12 DEF Fits, FlushFits
<1>14. \A c : Bears(p, c) => row.status = "live" /\ c = row.chain
  BY <1>2 DEF Bears
<1> QED
  BY <1>2, <1>8, <1>13, <1>14 DEF Planned, p

\* Login, refresh and logout: who consumes a token bears its chain until the next is in.
LEMMA SessionFits ==
  ASSUME RowsInv, DbInv, NEW r \in Requests, Fits(req[r]), SessionStep(r)
  PROVE  Planned(r)
<1>0. ASSUME NEW t \in Among(RefreshTokens), db[t] # Absent
      PROVE  /\ db[t] \in TokenRows /\ t \in DOMAIN db
             /\ db[t].chain = t \/ (db[t].chain \in DOMAIN db /\ Exists(db[t].chain))
  BY <1>0, Typed DEF DbInv, Sound, RowsRest, Rests, Among
<1>1. CASE Login(r)
  <2>1. PICK u \in Among(Accounts), t \in Among(RefreshTokens) :
          Insert(r, "login", t, [status |-> "live", deleted |-> FALSE, user |-> u, chain |-> t])
    BY <1>1 DEF Login
  <2> DEFINE row == [status |-> "live", deleted |-> FALSE, user |-> u, chain |-> t]
  <2>2. row \in TokenRows /\ row.chain = t
    BY DEF TokenRows, Among
  <2>3. Prepare(r, Plan("login", Row(t, row), Idle)) /\ Fresh(t) /\ t \in DOMAIN db
    BY <2>1 DEF Insert, Write, Among
  <2>4. db[t] = Absent
    BY <2>3, Typed DEF Fresh, DbInv
  <2> HIDE DEF row
  <2> QED
    BY <2>2, <2>3, <2>4, TokenFits
<1>2. ASSUME NEW t \in Among(RefreshTokens), NEW op, NEW then, InStatus(t, {"live"}),
             Prepare(r, Plan(op, Row(t, [db[t] EXCEPT !.status = "spent"]), then)),
             then = Idle \/ then = [pc |-> "refreshing", token |-> t]
      PROVE  Planned(r)
  <2> DEFINE row == [db[t] EXCEPT !.status = "spent"]
  <2>1. db[t] # Absent /\ db[t].status = "live"
    BY <1>2 DEF InStatus, Live, Exists, Absent
  <2>2. row \in TokenRows /\ row.chain = db[t].chain /\ row.status = "spent"
    BY <1>0, <2>1 DEF TokenRows
  <2>3. Prepare(r, Plan(op, Row(t, row), then))
    BY <1>2
  <2> HIDE DEF row
  <2> QED
    BY <1>0, <1>2, <2>1, <2>2, <2>3, TokenFits
<1>3. CASE ConsumeRefreshToken(r)
  BY <1>2, <1>3 DEF ConsumeRefreshToken
<1>4. CASE Logout(r)
  BY <1>2, <1>4 DEF Logout, Write
<1>5. CASE IssueTokenPair(r)
  <2> DEFINE from == req[r].token
             row == [db[from] EXCEPT !.status = "live"]
  <2>1. PICK t \in Among(RefreshTokens) : Insert(r, "issue", t, row)
    BY <1>5 DEF IssueTokenPair
  <2>2. req[r].pc = "refreshing" /\ from \in Among(RefreshTokens) /\ db[from] # Absent
    BY <1>5 DEF IssueTokenPair, Fits
  <2>3. /\ row \in TokenRows /\ row.chain = db[from].chain
        /\ row.chain = from \/ (row.chain \in DOMAIN db /\ Exists(row.chain))
    BY <1>0, <2>2 DEF TokenRows
  <2>4. from \in DOMAIN db /\ Exists(from)
    BY <2>2, Typed DEF DbInv, Among
  <2>5. Bears(req[r], row.chain)
    BY <2>2, <2>3 DEF Bears
  <2> HIDE DEF row, from
  <2>6. Prepare(r, Plan("issue", Row(t, row), Idle)) /\ Fresh(t) /\ t \in DOMAIN db
    BY <2>1 DEF Insert, Write, Among
  <2>7. db[t] = Absent
    BY <2>6, Typed DEF Fresh, DbInv
  <2> QED
    BY <2>3, <2>4, <2>5, <2>6, <2>7, TokenFits
<1> QED
  BY <1>1, <1>3, <1>4, <1>5 DEF SessionStep

-----------------------------------------------------------------------------
(* Notifications: every operation plans what fits *)

\* The largest of the numbers up to c.
LEMMA LargestNumber ==
  ASSUME NEW n, NEW c \in Nat, {db[a].number : a \in AttemptsFor(n)} = 1..c
  PROVE  NextAttemptNumber(n) = c + 1
<1>1. {0} \cup {db[a].number : a \in AttemptsFor(n)} = 0..c
  OBVIOUS
<1>2. c \in 0..c /\ \A y \in 0..c : c >= y
  OBVIOUS
<1>3. NextAttemptNumber(n) = 1 + (CHOOSE x \in 0..c : \A y \in 0..c : x >= y)
  BY <1>1 DEF NextAttemptNumber, Max
<1> QED
  BY <1>2, <1>3

\* A notification occupies the entry of its key.
LEMMA NotificationRow ==
  ASSUME NEW n \in Notifications, NEW row \in NotificationRows
  PROVE  /\ Sound(n, row) /\ row # Absent /\ EntriesOf(n, row) = {row.key}
         /\ row.key \in IndexEntries /\ Retries(row) = row.retries
         /\ \A old : Lawful(n, old, row)
         /\ Rests(n, row)
         /\ n \notin Unversioned \cup RefreshTokens \cup Attempts \cup IndexEntries \cup Marks
<1>1. row.status # "absent" /\ row.key \in Keys
  BY DEF NotificationRows, NotificationStatuses
<1>2. row # Absent
  BY <1>1 DEF Absent
<1>3. TableOf(n) = 16
  BY KeyTables
<1>4. Sound(n, row)
  BY <1>1, <1>2, <1>3, KeyTables DEF Sound
<1>5. EntriesOf(n, row) = {row.key}
  BY <1>2, <1>3, KeyTables DEF EntriesOf
<1>6. (\A old : Lawful(n, old, row)) /\ Rests(n, row)
  BY <1>2, <1>3, KeyTables DEF Lawful, Rests
<1>7. n \notin Unversioned \cup RefreshTokens \cup Attempts \cup IndexEntries \cup Marks
  BY <1>3, KeyTables
<1>8. row.key \in IndexEntries
  BY <1>1 DEF IndexEntries
<1> QED
  BY <1>2, <1>4, <1>5, <1>6, <1>7, <1>8 DEF Retries

\* The attempts to deliver a notification that is there.
LEMMA AttemptsKnown ==
  ASSUME DbInv, NEW n \in Among(Notifications), db[n] # Absent
  PROVE  /\ db[n] \in NotificationRows
         /\ Cardinality(AttemptsFor(n)) \in Nat /\ Cardinality(Failures(n)) \in Nat
         /\ Cardinality(Failures(n)) <= Cardinality(AttemptsFor(n))
         /\ db[n].retries = Cardinality(Failures(n))
         /\ NextAttemptNumber(n) = Cardinality(AttemptsFor(n)) + 1
<1>1. Exists(n) /\ db[n] \in NotificationRows
  BY Typed DEF DbInv, Sound, Among
<1>2. AttemptsFor(n) \subseteq {a \in Among(Attempts) : db[a] # Absent}
  BY DEF AttemptsFor, Exists, Absent
<1>3. IsFiniteSet(AttemptsFor(n))
  BY <1>2, FS_Subset DEF DbInv, Accounted
<1>4. Failures(n) \subseteq AttemptsFor(n)
  BY DEF Failures
<1>5. /\ Cardinality(AttemptsFor(n)) \in Nat /\ Cardinality(Failures(n)) \in Nat
      /\ Cardinality(Failures(n)) <= Cardinality(AttemptsFor(n))
  BY <1>3, <1>4, FS_Subset, FS_CardinalityType
<1>6. /\ {db[a].number : a \in AttemptsFor(n)} = 1..Cardinality(AttemptsFor(n))
      /\ db[n].retries = Cardinality(Failures(n))
  BY <1>1 DEF DbInv, Accounted, AttemptsAccounted
<1> QED
  BY <1>1, <1>5, <1>6, LargestNumber

\* Marks of events by themselves.
LEMMA MarksFit ==
  ASSUME RowsInv, DbInv, NEW r \in Requests, NEW op, NEW writes,
         Prepare(r, Plan(op, writes, Idle)),
         DOMAIN writes \subseteq DOMAIN db \cap Marks,
         \A i \in DOMAIN writes : writes[i] = Absent \/ writes[i].status # "absent"
  PROVE  Planned(r)
<1> DEFINE p == req'[r]
<1>1. /\ p.pc = "flush" /\ p.writes = writes /\ p.then = Idle
      /\ \A y \in DOMAIN writes : p.loaded[y] = db[y]
  BY Prepared
<1> HIDE DEF p
<1>2. ASSUME NEW i \in DOMAIN writes
      PROVE  /\ WriteOk(i, db[i], writes[i]) /\ \A row : EntriesOf(i, row) = {}
             /\ i \notin Unversioned \cup RefreshTokens \cup Attempts \cup IndexEntries \cup Notifications
  <2>1. TableOf(i) = 24
    BY KeyTables
  <2>2. i \notin Unversioned \cup RefreshTokens \cup Attempts \cup IndexEntries \cup Notifications
    BY <2>1, KeyTables
  <2>3. Sound(i, writes[i])
    BY <2>1, KeyTables DEF Sound
  <2>4. Lawful(i, db[i], writes[i])
    BY <2>1, KeyTables DEF Lawful, Lasting
  <2>5. Rests(i, writes[i])
    BY <2>1, KeyTables DEF Rests
  <2>6. \A row : EntriesOf(i, row) = {}
    BY <2>1, KeyTables DEF EntriesOf
  <2> QED
    BY <2>2, <2>3, <2>4, <2>5, <2>6 DEF WriteOk, RowFits
<1>3. EntriesMove(p.loaded, p.writes) /\ AttemptsTold(p.loaded, p.writes)
  BY <1>1, <1>2 DEF EntriesMove, AttemptsTold
<1>4. GoesOn(p)
  BY <1>1 DEF GoesOn, Idle
<1>5. Fits(p)
  BY <1>1, <1>2, <1>3, <1>4 DEF Fits, FlushFits
<1>6. \A c : ~Bears(p, c)
  BY <1>1, <1>2 DEF Bears
<1> QED
  BY <1>1, <1>2, <1>5, <1>6 DEF Planned, p

\* An attempt, what it makes of the notification and, if that one is new, its entry
\* and the mark of its event.
LEMMA DeliveryFits ==
  ASSUME RowsInv, DbInv, NEW r \in Requests, NEW op, NEW n \in Among(Notifications),
         NEW a \in Among(Attempts), NEW writes,
         Prepare(r, Plan(op, writes, Idle)),
         Fresh(a), n \in DOMAIN writes, a \in DOMAIN writes,
         DOMAIN writes \subseteq DOMAIN db,
         DOMAIN writes \subseteq {n, a} \cup IndexEntries \cup Marks,
         writes[n] \in NotificationRows, writes[a] \in AttemptRows,
         writes[a].of = n, writes[a].number = Cardinality(AttemptsFor(n)) + 1,
         ~Reached(db[n]), Reached(writes[n]) <=> writes[a].status = "succeeded",
         Retries(writes[n]) = Retries(db[n]) + (IF writes[a].status = "failed" THEN 1 ELSE 0),
         \A i \in DOMAIN writes \cap IndexEntries : writes[i] = Entry(n) /\ ~Exists(i),
         \A i \in DOMAIN writes \cap Marks : writes[i] = Absent \/ writes[i].status # "absent",
         db[n] # Absent => writes[n].key = db[n].key,
         db[n] = Absent => (writes[n].key \in DOMAIN writes /\ writes[writes[n].key] = Entry(n))
  PROVE  Planned(r)
<1> DEFINE p == req'[r]
<1>1. /\ p.pc = "flush" /\ p.writes = writes /\ p.then = Idle
      /\ \A y \in DOMAIN writes : p.loaded[y] = db[y]
  BY Prepared
<1> HIDE DEF p
<1>2. n \in Notifications /\ n \in DOMAIN db /\ a \in Attempts /\ a \in DOMAIN db
  BY DEF Among
<1>3. db[a] = Absent
  BY <1>2, Typed DEF Fresh, DbInv
<1>4. WriteOk(n, db[n], writes[n])
  BY <1>2, NotificationRow DEF WriteOk, RowFits
<1>5. /\ WriteOk(a, db[a], writes[a]) /\ (\A row : EntriesOf(a, row) = {})
      /\ a \notin Unversioned \cup RefreshTokens \cup Notifications \cup IndexEntries
  <2>1. TableOf(a) = 17 /\ writes[a].status # "absent"
    BY <1>2, KeyTables DEF AttemptRows
  <2>2. writes[a] # Absent
    BY <2>1 DEF Absent
  <2>3. a \notin Unversioned \cup RefreshTokens \cup Notifications \cup IndexEntries
    BY <2>1, KeyTables
  <2>4. Sound(a, writes[a])
    BY <2>1, <2>2, KeyTables DEF Sound
  <2>5. Lawful(a, db[a], writes[a]) /\ Rests(a, writes[a])
    BY <1>3, <2>1, <2>2, KeyTables DEF Lawful, Rests
  <2>6. \A row : EntriesOf(a, row) = {}
    BY <2>1, KeyTables DEF EntriesOf
  <2> QED
    BY <2>3, <2>4, <2>5, <2>6 DEF WriteOk, RowFits
<1>6. ASSUME NEW i \in DOMAIN writes \ {n, a}
      PROVE  /\ WriteOk(i, db[i], writes[i]) /\ \A row : EntriesOf(i, row) = {}
             /\ i \notin Unversioned \cup RefreshTokens \cup Attempts \cup Notifications
  <2>1. TableOf(i) \in {23, 24}
    BY KeyTables
  <2>2. i \notin Unversioned \cup RefreshTokens \cup Attempts \cup Notifications
    BY <2>1, KeyTables
  <2>3. writes[i] = Absent \/ writes[i].status # "absent"
    BY EntryRow
  <2>4. Sound(i, writes[i])
    BY <2>1, <2>3, KeyTables DEF Sound
  <2>5. Lawful(i, db[i], writes[i])
    BY <2>1, KeyTables DEF Lawful, Lasting
  <2>6. Rests(i, writes[i])
    BY <2>1, KeyTables DEF Rests
  <2>7. \A row : EntriesOf(i, row) = {}
    BY <2>1, KeyTables DEF EntriesOf
  <2> QED
    BY <2>2, <2>4, <2>5, <2>6, <2>7 DEF WriteOk, RowFits
<1>7. EntriesMove(p.loaded, p.writes)
  <2>1. ASSUME NEW y \in DOMAIN writes, NEW i \in EntriesOf(y, writes[y]) \ EntriesOf(y, db[y])
        PROVE  i \in DOMAIN writes /\ writes[i] = Entry(y)
    <3>1. y = n
      BY <1>5, <1>6
    <3>2. i = writes[n].key
      BY <1>2, <3>1, NotificationRow
    <3>3. CASE db[n] = Absent
      BY <3>1, <3>2, <3>3
    <3>4. CASE db[n] # Absent
      <4>1. db[n] \in NotificationRows
        BY <3>4, AttemptsKnown
      <4> QED
        BY <1>2, <3>1, <3>2, <3>4, <4>1, NotificationRow
    <3> QED
      BY <3>3, <3>4
  <2>2. ASSUME NEW i \in DOMAIN writes \cap IndexEntries PROVE db[i].status = "absent"
    BY DEF Exists
  <2> QED
    BY <1>1, <2>1, <2>2 DEF EntriesMove
<1>8. AttemptsTold(p.loaded, p.writes)
  <2>1. /\ DOMAIN writes \cap Attempts = {a} /\ DOMAIN writes \cap Notifications = {n}
    BY <1>2, <1>5, <1>6, NotificationRow
  <2> QED
    BY <1>1, <1>2, <2>1 DEF AttemptsTold
<1>9. GoesOn(p)
  BY <1>1 DEF GoesOn, Idle
<1>10. Fits(p)
  BY <1>1, <1>4, <1>5, <1>6, <1>7, <1>8, <1>9 DEF Fits, FlushFits
<1>11. DOMAIN writes \cap RefreshTokens = {} /\ DOMAIN writes \cap Unversioned = {}
  BY <1>2, <1>5, <1>6, NotificationRow
<1>12. \A c : ~Bears(p, c)
  BY <1>1, <1>11 DEF Bears
<1> QED
  BY <1>1, <1>10, <1>11, <1>12 DEF Planned, p

\* A delivery of a notification that is there.
LEMMA Delivers ==
  ASSUME RowsInv, DbInv, NEW r \in Requests, NEW op, NEW n \in Among(Notifications),
         Exists(n), ~Reached(db[n]), NEW row \in NotificationRows,
         row.key = db[n].key, row.retries = db[n].retries, row.status \in {"pending", "queued"},
         Deliver(r, op, n, row)
  PROVE  Planned(r)
<1>1. PICK a \in Among(Attempts), succeeded \in Answers(row.channel) :
        /\ Fresh(a) /\ NextAttemptNumber(n) <= MaxAttempts
        /\ Prepare(r, Plan(op, [x \in {n, a} |-> IF x = a THEN Attempt(n, succeeded)
                                                 ELSE Delivered(row, succeeded)], Idle))
  BY DEF Deliver
<1> DEFINE writes == [x \in {n, a} |-> IF x = a THEN Attempt(n, succeeded)
                                       ELSE Delivered(row, succeeded)]
           att == Attempt(n, succeeded)
           new == Delivered(row, succeeded)
<1>2. n \in Notifications /\ n \in DOMAIN db /\ a \in Attempts /\ a \in DOMAIN db /\ db[n] # Absent
  BY DEF Among, Exists, Absent
<1>3. /\ db[n] \in NotificationRows
      /\ Cardinality(AttemptsFor(n)) \in Nat /\ db[n].retries \in Nat
      /\ db[n].retries <= Cardinality(AttemptsFor(n))
      /\ NextAttemptNumber(n) = Cardinality(AttemptsFor(n)) + 1
  BY <1>2, AttemptsKnown
<1>4. /\ att \in AttemptRows /\ att.of = n /\ att.number = Cardinality(AttemptsFor(n)) + 1
      /\ att.status = IF succeeded THEN "succeeded" ELSE "failed"
  BY <1>1, <1>2, <1>3, NotificationsAssumption DEF Attempt, AttemptRows
<1> DEFINE target == IF succeeded THEN "sent" ELSE "failed"
           retries == IF succeeded THEN row.retries ELSE row.retries + 1
<1>5. target \in {"sent", "failed"} /\ target \in NotificationTable[row.status]
  BY DEF NotificationTable
<1>6. retries \in 0..MaxAttempts
  BY <1>1, <1>3, NotificationsAssumption
<1>7. new = [row EXCEPT !.status = target, !.retries = retries]
  BY <1>5 DEF Delivered, NotificationRows
<1> HIDE DEF new, att, target, retries
<1>8. /\ new \in NotificationRows /\ new.key = row.key /\ new.status = target
      /\ new.retries = retries
  BY <1>5, <1>6, <1>7 DEF NotificationRows, NotificationStatuses
<1>9. n # a
  BY <1>2, KeyTables
<1>10. DOMAIN writes = {n, a} /\ writes[n] = new /\ writes[a] = att
  BY <1>9 DEF new, att
<1>11. Prepare(r, Plan(op, writes, Idle))
  BY <1>1
<1> HIDE DEF writes
<1>12. DOMAIN writes \cap IndexEntries = {} /\ DOMAIN writes \cap Marks = {}
  BY <1>2, <1>10, KeyTables
<1>13. Reached(writes[n]) <=> writes[a].status = "succeeded"
  BY <1>4, <1>8, <1>10 DEF Reached, target
<1>14. Retries(writes[n]) = Retries(db[n]) + (IF writes[a].status = "failed" THEN 1 ELSE 0)
  <2>1. Retries(db[n]) = db[n].retries
    BY <1>2 DEF Retries
  <2>2. Retries(writes[n]) = retries
    BY <1>2, <1>8, <1>10, NotificationRow
  <2> QED
    BY <1>3, <1>4, <1>10, <2>1, <2>2 DEF retries
<1> QED
  BY <1>1, <1>2, <1>4, <1>8, <1>10, <1>11, <1>12, <1>13, <1>14, DeliveryFits

\* The transitions of a notification, spelt out.
LEMMA NotificationStatusTable ==
  /\ \A from \in NotificationStatuses :
       \A to \in NotificationTable[from] \cap {"queued", "cancelled", "read"} :
         to = "read" <=> from \in {"sent", "read"}
  /\ "sent" \in NotificationTable["pending"]
BY DEF NotificationTable, NotificationStatuses

\* A notification that changes its status without being delivered.
LEMMA NotificationMoves ==
  ASSUME RowsInv, DbInv, NEW r \in Requests, NEW op, NEW n \in Among(Notifications),
         NEW target, NEW readAt \in BOOLEAN, NEW mutated,
         mutated = [db[n] EXCEPT !.readAt = readAt] \/ mutated = db[n],
         Transition(r, op, n, NotificationTable, target, mutated),
         target \in {"queued", "cancelled", "read"}
  PROVE  Planned(r)
<1> DEFINE row == [mutated EXCEPT !.status = target]
<1>1. Live(n) /\ target \in NotificationTable[db[n].status] /\ Write(r, op, n, row)
  BY DEF Transition
<1>2. n \in Notifications /\ n \in DOMAIN db /\ db[n] # Absent
  BY <1>1 DEF Live, Exists, Absent, Among
<1>3. db[n] \in NotificationRows
  BY <1>2, AttemptsKnown
<1>4. /\ mutated \in NotificationRows /\ mutated.key = db[n].key /\ mutated.retries = db[n].retries
  BY <1>3 DEF NotificationRows
<1>5. /\ row \in NotificationRows /\ row.key = db[n].key /\ row.retries = db[n].retries
      /\ row.status = target
  BY <1>4 DEF NotificationRows, NotificationStatuses
<1>6. target = "read" <=> db[n].status \in {"sent", "read"}
  <2>1. db[n].status \in NotificationStatuses
    BY <1>3 DEF NotificationRows
  <2> QED
    BY <1>1, <2>1, NotificationStatusTable
<1> HIDE DEF row
<1>7. Reached(row) <=> Reached(db[n])
  BY <1>5, <1>6 DEF Reached
<1>8. /\ Sound(n, row) /\ Lawful(n, db[n], row) /\ Rests(n, row)
      /\ EntriesOf(n, row) = EntriesOf(n, db[n]) /\ Retries(row) = Retries(db[n])
      /\ n \notin Unversioned \cup RefreshTokens \cup Attempts \cup IndexEntries
  BY <1>2, <1>3, <1>5, NotificationRow
<1>9. Good(n, row)
  BY <1>7, <1>8 DEF Good, Alone
<1> QED
  BY <1>1, <1>2, <1>9, WriteFits

\* Notifications as clients create, queue, send, retry, cancel and read them.
LEMMA NotificationFits ==
  ASSUME RowsInv, DbInv, NEW r \in Requests, NotificationStep(r)
  PROVE  Planned(r)
<1>0. ASSUME NEW n \in Among(Notifications), Live(n)
      PROVE  db[n] \in NotificationRows /\ Exists(n)
  BY <1>0, AttemptsKnown DEF Live, Exists, Absent
<1>1. CASE CreateNotification(r)
  <2>1. PICK n \in Among(Notifications), k \in Among(Keys), channel \in {"in_app", "other"},
             t \in RenderedFrom :
          /\ Fresh(n) /\ ~Exists(k)
          /\ Prepare(r, Plan("create_notification",
               [x \in {n, k} |-> IF x = k THEN Entry(n) ELSE New(k, channel, t)], Idle))
    BY <1>1 DEF CreateNotification
  <2> DEFINE row == New(k, channel, t)
             writes == [x \in {n, k} |-> IF x = k THEN Entry(n) ELSE row]
  <2>2. n \in Notifications /\ n \in DOMAIN db /\ k \in DOMAIN db /\ k \in IndexEntries
    BY DEF Among, IndexEntries
  <2>3. t \in Templates \cup {None}
    BY DEF RenderedFrom, Among
  <2>4. row \in NotificationRows /\ row.key = k /\ row.retries = 0 /\ row.status = "pending"
    BY <2>3, NotificationsAssumption DEF New, NotificationRows, NotificationStatuses, Among
  <2>5. n # k
    BY <2>2, NotificationRow, <2>4
  <2>6. DOMAIN writes = {n, k} /\ writes[n] = row /\ writes[k] = Entry(n)
    BY <2>5
  <2>7. Prepare(r, Plan("create_notification", writes, Idle))
    BY <2>1
  <2> HIDE DEF row, writes
  <2>8. db[n] = Absent
    BY <2>1, <2>2, Typed DEF Fresh, DbInv
  <2>9. /\ Sound(n, row) /\ Lawful(n, db[n], row) /\ Rests(n, row)
        /\ EntriesOf(n, row) = {k} /\ Retries(row) = 0
        /\ n \notin Unversioned \cup RefreshTokens \cup Attempts \cup IndexEntries
    BY <2>2, <2>4, NotificationRow
  <2>10. WriteOk(n, db[n], row)
    BY <2>9 DEF WriteOk, RowFits
  <2>11. Retries(row) = Retries(db[n]) /\ (Reached(row) <=> Reached(db[n]))
    BY <2>4, <2>8, <2>9 DEF Retries, Reached, Absent
  <2> QED
    BY <2>1, <2>2, <2>6, <2>7, <2>9, <2>10, <2>11, EntriesFit
<1>2. CASE QueueNotification(r)
  BY <1>2, NotificationMoves DEF QueueNotification
<1>3. CASE CancelNotification(r)
  BY <1>3, NotificationMoves DEF CancelNotification
<1>4. CASE MarkRead(r)
  BY <1>4, NotificationMoves DEF MarkRead
<1>5. CASE SendNotification(r)
  <2>1. PICK n \in Among(Notifications) :
          /\ Live(n) /\ db[n].status \in {"pending", "queued"}
          /\ Deliver(r, "send_notification", n, db[n])
    BY <1>5 DEF SendNotification, InStatus
  <2> QED
    BY <1>0, <2>1, Delivers DEF Reached
<1>6. CASE RetryNotification(r)
  <2>1. PICK n \in Among(Notifications) :
          /\ Live(n) /\ db[n].status = "failed"
          /\ Deliver(r, "retry_notification", n, [db[n] EXCEPT !.status = "queued"])
    BY <1>6 DEF RetryNotification, InStatus
  <2> DEFINE row == [db[n] EXCEPT !.status = "queued"]
  <2>2. db[n] \in NotificationRows /\ Exists(n)
    BY <1>0, <2>1
  <2>3. /\ row \in NotificationRows /\ row.key = db[n].key /\ row.retries = db[n].retries
        /\ row.status = "queued"
    BY <2>2 DEF NotificationRows, NotificationStatuses
  <2>4. Deliver(r, "retry_notification", n, row)
    BY <2>1
  <2> HIDE DEF row
  <2> QED
    BY <2>1, <2>2, <2>3, <2>4, Delivers DEF Reached
<1> QED
  BY <1>1, <1>2, <1>3, <1>4, <1>5, <1>6 DEF NotificationStep

\* Events that are dispatched, for the first time or again.
LEMMA EventFits ==
  ASSUME RowsInv, DbInv, NEW r \in Requests, HandleDomainEvent(r) \/ ReplayEvent(r)
  PROVE  Planned(r)
<1>0. ASSUME NEW k \in Among(EventKeys)
      PROVE  /\ DOMAIN Marked(k) \subseteq DOMAIN db \cap Marks
             /\ \A i \in DOMAIN Marked(k) : Marked(k)[i] = Entry(k)
  BY DEF Marked, Among, Marks
<1>1. CASE ReplayEvent(r)
  <2>1. PICK k \in Among(EventKeys) :
          /\ Processed(k) \in DOMAIN db
          /\ Prepare(r, Plan("replay_event", Row(Processed(k), Absent), Idle))
    BY <1>1 DEF ReplayEvent, Owned, Write
  <2>2. Processed(k) \in Marks
    BY DEF Marks, Among
  <2>3. DOMAIN Row(Processed(k), Absent) = {Processed(k)}
        /\ Row(Processed(k), Absent)[Processed(k)] = Absent
    BY DEF Row
  <2> QED
    BY <2>1, <2>2, <2>3, MarksFit
<1>2. ASSUME NEW k \in Among(EventKeys), Prepare(r, Plan("handle_domain_event", Marked(k), Idle))
      PROVE  Planned(r)
  BY <1>0, <1>2, EntryRow, MarksFit
<1>3. ASSUME NEW k \in Among(EventKeys), ~Exists(k),
             NEW n \in Among(Notifications), NEW a \in Among(Attempts), NEW t \in RenderedFrom,
             Fresh(n), Fresh(a),
             Prepare(r, Plan("handle_domain_event", Join(FromEvent(n, a, k, t), Marked(k)), Idle))
      PROVE  Planned(r)
  <2> DEFINE writes == Join(FromEvent(n, a, k, t), Marked(k))
             row == Delivered(New(k, "in_app", t), TRUE)
             att == [status |-> "succeeded", deleted |-> FALSE, of |-> n, number |-> 1]
  <2>1. /\ n \in Notifications /\ n \in DOMAIN db /\ a \in Attempts /\ a \in DOMAIN db
        /\ k \in DOMAIN db /\ k \in Keys /\ k \in IndexEntries
    BY NotificationsAssumption DEF Among, IndexEntries
  <2>2. t \in Templates \cup {None}
    BY DEF RenderedFrom, Among
  <2>3. row = [status |-> "sent", deleted |-> FALSE, key |-> k, channel |-> "in_app",
               template |-> t, retries |-> 0, readAt |-> FALSE]
    <3>1. row = [New(k, "in_app", t) EXCEPT !.status = "sent", !.retries = 0]
      BY NotificationStatusTable DEF Delivered, New
    <3> QED
      BY <3>1 DEF New
  <2>4. row \in NotificationRows /\ row.key = k /\ row.retries = 0 /\ row.status = "sent"
    <3> HIDE DEF row
    <3> QED
      BY <2>1, <2>2, <2>3, NotificationsAssumption DEF NotificationRows, NotificationStatuses
  <2>5. /\ att \in AttemptRows /\ att.of = n /\ att.number = 1 /\ att.status = "succeeded"
    BY <2>1, NotificationsAssumption DEF AttemptRows
  <2>6. TableOf(n) = 16 /\ TableOf(a) = 17 /\ TableOf(k) = 23
        /\ \A i \in DOMAIN Marked(k) : TableOf(i) = 24
    BY <1>0, <2>1, KeyTables
  <2>7. n # a /\ n # k /\ a # k
    BY <2>6
  <2>8. /\ DOMAIN FromEvent(n, a, k, t) = {n, a, k}
        /\ FromEvent(n, a, k, t)[n] = row /\ FromEvent(n, a, k, t)[a] = att
        /\ FromEvent(n, a, k, t)[k] = Entry(n)
    BY <2>7 DEF FromEvent
  <2>9. /\ DOMAIN writes = {n, a, k} \cup DOMAIN Marked(k)
        /\ writes[n] = row /\ writes[a] = att /\ writes[k] = Entry(n)
        /\ \A i \in DOMAIN Marked(k) : writes[i] = Entry(k)
    <3>1. \A i \in DOMAIN Marked(k) : i \notin {n, a, k}
      BY <2>6
    <3> HIDE DEF row, att
    <3> QED
      BY <1>0, <2>8, <3>1 DEF Join
  <2>10. Prepare(r, Plan("handle_domain_event", writes, Idle))
    BY <1>3
  <2> HIDE DEF writes, row, att
  <2>11. db[n] = Absent /\ db[a] = Absent
    BY <1>3, <2>1, Typed DEF Fresh, DbInv
  <2>12. AttemptsFor(n) = {}
    BY <2>11, Typed DEF AttemptsFor, DbInv, Accounted, Among
  <2>13. Cardinality(AttemptsFor(n)) = 0
    BY <2>12, FS_EmptySet
  <2>14. /\ DOMAIN writes \subseteq DOMAIN db
         /\ DOMAIN writes \subseteq {n, a} \cup IndexEntries \cup Marks
    BY <1>0, <2>1, <2>9
  <2>15. \A i \in DOMAIN writes \cap IndexEntries : i = k
    BY <2>1, <2>6, <2>9, KeyTables
  <2>16. \A i \in DOMAIN writes \cap Marks : writes[i] = Entry(k)
    BY <2>1, <2>6, <2>9, KeyTables
  <2>17. ~Reached(db[n]) /\ (Reached(writes[n]) <=> writes[a].status = "succeeded")
    BY <2>4, <2>5, <2>9, <2>11 DEF Reached, Absent
  <2>18. Retries(writes[n]) = Retries(db[n]) + (IF writes[a].status = "failed" THEN 1 ELSE 0)
    <3>1. Retries(writes[n]) = 0
      BY <2>1, <2>4, <2>9, NotificationRow
    <3>2. Retries(db[n]) = 0
      BY <2>11 DEF Retries
    <3> QED
      BY <2>5, <2>9, <3>1, <3>2
  <2> QED
    BY <1>3, <2>4, <2>5, <2>9, <2>10, <2>11, <2>13, <2>14, <2>15, <2>16, <2>17, <2>18,
       EntryRow, DeliveryFits
<1> QED
  BY <1>1, <1>2, <1>3 DEF HandleDomainEvent

-----------------------------------------------------------------------------
(* Every step *)

\* Whatever a department takes up fits the rows as they are.
LEMMA StepFits ==
  ASSUME RowsInv, DbInv, NEW r \in Requests, Fits(req[r]), OperationsStep(r)
  PROVE  Planned(r)
<1>1. CASE EquipmentStep(r) \/ ComplianceStep(r)
  BY <1>1, ReferenceFits, UnitFits, OperationFits, PermitFits, EscortFits, RecordFits,
     CheckFits, ShipmentFits DEF EquipmentStep, ComplianceStep
<1>2. CASE PartnersStep(r)
  BY <1>2, PartnerFits, KeyFits, InboundFits, SubscriptionFits DEF PartnersStep
<1>3. CASE NotificationsStep(r)
  BY <1>3, TemplateFits, NotificationFits, EventFits DEF NotificationsStep
<1>4. CASE AccessStep(r)
  BY <1>4, UserFits, DriverFits, VehicleFits, WarehouseFits, SessionFits DEF AccessStep
<1> QED
  BY <1>1, <1>2, <1>3, <1>4 DEF OperationsStep

-----------------------------------------------------------------------------
(* The inductive invariant *)

\* What every request is about to do fits the rows as they are.
PlansFit == \A r \in Requests : Fits(req[r])

\* Who inserts a row into a table without versions is the only one who writes it.
FreshKept ==
  \A p, q \in Requests : p # q /\ Flushing(p) /\ Flushing(q) =>
    \A x \in DOMAIN req[p].writes \cap DOMAIN req[q].writes \cap Unversioned :
      req[p].loaded[x] # Absent

\* Of each login there is one token that works, or one request that will bring one.
LiveToken(t, c) == t \in Among(RefreshTokens) /\ db[t].status = "live" /\ db[t].chain = c

OneBearer ==
  \A c \in RefreshTokens :
    /\ \A t, u \in Among(RefreshTokens) : LiveToken(t, c) /\ LiveToken(u, c) => t = u
    /\ \A t \in Among(RefreshTokens), q \in Requests : ~(LiveToken(t, c) /\ Bears(req[q], c))
    /\ \A p, q \in Requests : Bears(req[p], c) /\ Bears(req[q], c) => p = q
    /\ \A q \in Requests : Flushing(q) /\ Bears(req[q], c) =>
         \A t, u \in DOMAIN req[q].writes \cap RefreshTokens : t = u

OpsInv == RowsInv /\ DbInv /\ PlansFit /\ FreshKept /\ OneBearer

\* At first there is nothing.
LEMMA InitOps == Init => OpsInv
<1> SUFFICES ASSUME Init PROVE OpsInv
  OBVIOUS
<1>1. PICK scope \in Scopes : db = Empty(scope)
  BY DEF Init
<1>2. DOMAIN db \in Scopes /\ \A x \in DOMAIN db : db[x] = Absent
  BY <1>1 DEF Empty
<1>3. \A x \in DOMAIN db : ~Exists(x) /\ db[x].status # "live"
  BY <1>2 DEF Exists, Absent
<1>4. RowsSound /\ RowsRest
  BY <1>2 DEF RowsSound, RowsRest, Sound, Rests
<1>5. Indexed
  BY <1>2 DEF Indexed, EntriesOf
<1>6. Accounted
  <2>1. {a \in Among(Attempts) : db[a] # Absent} = {}
    BY <1>2 DEF Among
  <2>2. AttemptsAccounted /\ DeliveredOnce
    BY <1>3 DEF AttemptsAccounted, DeliveredOnce, Among
  <2> QED
    BY <2>1, <2>2, FS_EmptySet DEF Accounted
<1>7. \A r \in Requests : req[r].pc = "idle"
  BY DEF Init, Idle
<1>8. PlansFit
  BY <1>7 DEF PlansFit, Fits
<1>9. FreshKept
  BY <1>7 DEF FreshKept, Flushing
<1>10. OneBearer
  BY <1>3, <1>7 DEF OneBearer, LiveToken, Bears, Among
<1> QED
  BY <1>2, <1>4, <1>5, <1>6, <1>8, <1>9, <1>10, InitQuiet DEF OpsInv, DbInv

\* What holds of the rows holds while they stay as they are.
LEMMA SameRows ==
  ASSUME UNCHANGED db
  PROVE  /\ DbInv => DbInv'
         /\ \A p : Fits(p) => Fits(p)'
         /\ \A p, c : Bears(p, c)' <=> Bears(p, c)
<1>1. (\A ids : Among(ids)' = Among(ids)) /\ (\A n : AttemptsFor(n)' = AttemptsFor(n))
      /\ (\A n : Failures(n)' = Failures(n)) /\ (\A x : Exists(x)' <=> Exists(x))
  BY DEF Among, AttemptsFor, Failures, Exists
<1>2. \A x, row : Rests(x, row)' <=> Rests(x, row)
  BY <1>1 DEF Rests
<1>3. RowsSound' <=> RowsSound
  BY DEF RowsSound
<1>4. RowsRest => RowsRest'
  BY <1>2 DEF RowsRest
<1>5. Indexed' <=> Indexed
  BY DEF Indexed
<1>6. Accounted => Accounted'
  BY <1>1 DEF Accounted, AttemptsAccounted, DeliveredOnce
<1>7. \A x, old, new : WriteOk(x, old, new) => WriteOk(x, old, new)'
  BY <1>2 DEF WriteOk, RowFits, Merges
<1>8. \A old, writes : AttemptsTold(old, writes)' <=> AttemptsTold(old, writes)
  BY <1>1 DEF AttemptsTold
<1>9. \A p : Fits(p) => Fits(p)'
  BY <1>1, <1>7, <1>8 DEF Fits, FlushFits, GoesOn
<1>10. \A p, c : Bears(p, c)' <=> Bears(p, c)
  BY DEF Bears
<1> QED
  BY <1>3, <1>4, <1>5, <1>6, <1>9, <1>10 DEF DbInv

\* A token's chain begins with a token that is, or was, there.
LEMMA ChainIsKnown ==
  ASSUME OpsInv, NEW c
  PROVE  /\ \A t : LiveToken(t, c) => c \in DOMAIN db /\ ~Fresh(c)
         /\ \A q \in Requests : Bears(req[q], c) => c \in DOMAIN db /\ ~Fresh(c)
         /\ \A t : LiveToken(t, c) => c \in RefreshTokens
         /\ \A q \in Requests : Bears(req[q], c) => c \in RefreshTokens
<1>0. ASSUME NEW t \in Among(RefreshTokens), db[t] # Absent, db[t].chain = c
      PROVE  c \in DOMAIN db /\ ~Fresh(c) /\ c \in RefreshTokens
  <2>1. t \in RefreshTokens /\ t \in DOMAIN db /\ RowsSound /\ Sound(t, db[t]) /\ Rests(t, db[t])
    BY Typed DEF OpsInv, DbInv, RowsRest, Among
  <2>2. db[t] \in TokenRows
    BY <1>0, <2>1 DEF Sound
  <2>3. c \in RefreshTokens
    BY <1>0, <2>2 DEF TokenRows
  <2>4. c = t \/ (c \in DOMAIN db /\ Exists(c))
    BY <1>0, <2>1 DEF Rests
  <2>5. Exists(t)
    BY <1>0, <2>1, Typed
  <2> QED
    BY <2>1, <2>3, <2>4, <2>5 DEF Fresh
<1>1. ASSUME NEW t, LiveToken(t, c) PROVE c \in DOMAIN db /\ ~Fresh(c) /\ c \in RefreshTokens
  BY <1>0, <1>1 DEF LiveToken, Absent
<1>2. ASSUME NEW q \in Requests, Bears(req[q], c)
      PROVE  c \in DOMAIN db /\ ~Fresh(c) /\ c \in RefreshTokens
  <2>1. Fits(req[q])
    BY DEF OpsInv, PlansFit
  <2>2. CASE req[q].pc = "refreshing" /\ db[req[q].token].chain = c
    BY <1>0, <2>1, <2>2 DEF Fits
  <2>3. ASSUME req[q].pc = "flush", NEW t \in DOMAIN req[q].writes \cap RefreshTokens,
               req[q].writes[t].status = "live", req[q].writes[t].chain = c
        PROVE  c \in DOMAIN db /\ ~Fresh(c) /\ c \in RefreshTokens
    <3>1. WriteOk(t, req[q].loaded[t], req[q].writes[t]) /\ t \notin Unversioned
      BY <2>1, <2>3, KeyTables DEF Fits, FlushFits
    <3>2. Sound(t, req[q].writes[t]) /\ Rests(t, req[q].writes[t])
      BY <3>1 DEF WriteOk, RowFits
    <3>3. req[q].writes[t] # Absent
      BY <2>3 DEF Absent
    <3>4. req[q].writes[t].chain \in RefreshTokens
      BY <3>2, <3>3 DEF Sound, TokenRows
    <3>5. t \in DOMAIN db /\ ~Fresh(t)
      BY <2>3 DEF OpsInv, RowsInv, PlansAreCurrent, Flushing, Fresh
    <3> QED
      BY <2>3, <3>2, <3>3, <3>4, <3>5 DEF Rests, Fresh
  <2> QED
    BY <1>2, <2>2, <2>3 DEF Bears
<1> QED
  BY <1>1, <1>2

\* Work is taken up.
LEMMA StepOps ==
  ASSUME OpsInv, NEW r \in Requests, OperationsStep(r)
  PROVE  OpsInv'
<1>1. Planned(r) /\ TakeUp(r)
  BY StepFits, StepTakesUp DEF OpsInv, PlansFit
<1>2. /\ UNCHANGED db /\ ~Flushing(r)
      /\ req'[r].pc = "flush" /\ DOMAIN req'[r].writes \subseteq DOMAIN db
      /\ \A q \in Requests : q # r => req'[q] = req[q]
  BY <1>1 DEF TakeUp, OpsInv, RowsInv
<1>3. RowsInv'
  BY <1>1, TakeUpKeeps DEF OpsInv
<1>4. DbInv'
  BY <1>2, SameRows DEF OpsInv
<1>5. PlansFit'
  <2>1. ASSUME NEW q \in Requests PROVE Fits(req'[q])
    BY <1>1, <1>2 DEF OpsInv, PlansFit, Planned
  <2> QED
    BY <1>2, <2>1, SameRows DEF PlansFit
<1>6. FreshKept'
  <2>1. ASSUME NEW x \in DOMAIN req'[r].writes \cap Unversioned,
               NEW q \in Requests, q # r, Flushing(q), x \in DOMAIN req[q].writes
        PROVE  req'[r].loaded[x] # Absent /\ req[q].loaded[x] # Absent
    <3>1. ~Fresh(x)
      BY <2>1 DEF Fresh
    <3>2. db[x] # Absent /\ req'[r].loaded[x] # Absent
      BY <1>1, <2>1, <3>1 DEF Planned
    <3>3. WriteOk(x, req[q].loaded[x], req[q].writes[x])
      BY <2>1 DEF OpsInv, PlansFit, Fits, FlushFits, Flushing
    <3>4. req[q].loaded[x] # Absent
      BY <2>1, <3>2, <3>3 DEF WriteOk, Merges
    <3> QED
      BY <3>2, <3>4
  <2>2. ASSUME NEW p \in Requests, NEW q \in Requests, p # q, Flushing(p)', Flushing(q)',
               NEW x \in DOMAIN req'[p].writes \cap DOMAIN req'[q].writes \cap Unversioned
        PROVE  req'[p].loaded[x] # Absent
    <3>1. CASE p = r
      BY <1>2, <2>1, <2>2, <3>1 DEF Flushing
    <3>2. CASE q = r
      BY <1>2, <2>1, <2>2, <3>2 DEF Flushing
    <3>3. CASE p # r /\ q # r
      BY <1>2, <2>2, <3>3 DEF OpsInv, FreshKept, Flushing
    <3> QED
      BY <3>1, <3>2, <3>3
  <2> QED
    BY <2>2 DEF FreshKept
<1>7. OneBearer'
  <2> SUFFICES ASSUME NEW c \in RefreshTokens
               PROVE  /\ \A t, u \in Among(RefreshTokens)' : LiveToken(t, c)' /\ LiveToken(u, c)' => t = u
                      /\ \A t \in Among(RefreshTokens)', q \in Requests :
                           ~(LiveToken(t, c)' /\ Bears(req[q], c)')
                      /\ \A p, q \in Requests : Bears(req[p], c)' /\ Bears(req[q], c)' => p = q
                      /\ \A q \in Requests : Flushing(q)' /\ Bears(req[q], c)' =>
                           \A t, u \in DOMAIN req'[q].writes \cap RefreshTokens : t = u
    BY DEF OneBearer
  <2>1. Among(RefreshTokens)' = Among(RefreshTokens) /\ \A t : LiveToken(t, c)' <=> LiveToken(t, c)
    BY <1>2 DEF Among, LiveToken
  <2>2. \A q \in Requests : Bears(req[q], c)' <=> Bears(req'[q], c)
    BY <1>2 DEF Bears
  <2>3. \A q \in Requests : q # r => (Bears(req'[q], c) <=> Bears(req[q], c))
    BY <1>2
  <2>4. Bears(req'[r], c) =>
          /\ Bears(req[r], c) \/ Fresh(c)
          /\ \A t, u \in DOMAIN req'[r].writes \cap RefreshTokens : t = u
    BY <1>1 DEF Planned
  <2>5. Fresh(c) => /\ \A t : ~LiveToken(t, c)
                    /\ \A q \in Requests : ~Bears(req[q], c)
    BY ChainIsKnown
  <2> HIDE DEF Bears
  <2>6. /\ \A t, u \in Among(RefreshTokens) : LiveToken(t, c) /\ LiveToken(u, c) => t = u
        /\ \A t \in Among(RefreshTokens), q \in Requests : ~(LiveToken(t, c) /\ Bears(req[q], c))
        /\ \A p, q \in Requests : Bears(req[p], c) /\ Bears(req[q], c) => p = q
        /\ \A q \in Requests : Flushing(q) /\ Bears(req[q], c) =>
             \A t, u \in DOMAIN req[q].writes \cap RefreshTokens : t = u
    BY DEF OpsInv, OneBearer
  <2>7. \A t \in Among(RefreshTokens), q \in Requests : ~(LiveToken(t, c) /\ Bears(req'[q], c))
    BY <2>3, <2>4, <2>5, <2>6
  <2>8. \A p, q \in Requests : Bears(req'[p], c) /\ Bears(req'[q], c) => p = q
    BY <2>3, <2>4, <2>5, <2>6
  <2>9. ASSUME NEW q \in Requests, Flushing(q)', Bears(req'[q], c)
        PROVE  \A t, u \in DOMAIN req'[q].writes \cap RefreshTokens : t = u
    <3>1. CASE q = r
      BY <2>4, <2>9, <3>1
    <3>2. CASE q # r
      <4>1. req'[q] = req[q] /\ Flushing(q)
        BY <1>2, <2>9, <3>2 DEF Flushing
      <4> QED
        BY <2>6, <2>9, <4>1
    <3> QED
      BY <3>1, <3>2
  <2> QED
    BY <2>1, <2>2, <2>6, <2>7, <2>8, <2>9
<1> QED
  BY <1>3, <1>4, <1>5, <1>6, <1>7 DEF OpsInv

\* A request ends.
LEMMA AbortOps ==
  ASSUME OpsInv, NEW r \in Requests, Abort(r)
  PROVE  OpsInv'
<1>1. UNCHANGED db /\ \A q \in Requests : req'[q] = IF q = r THEN Idle ELSE req[q]
  BY DEF Abort, OpsInv, RowsInv
<1>2. RowsInv'
  BY AbortKeeps DEF OpsInv
<1>3. DbInv'
  BY <1>1, SameRows DEF OpsInv
<1>4. Fits(Idle) /\ (\A c : ~Bears(Idle, c)) /\ Idle.pc # "flush"
  BY DEF Fits, Bears, Idle
<1>5. PlansFit'
  <2>1. \A q \in Requests : Fits(req'[q])
    BY <1>1, <1>4 DEF OpsInv, PlansFit
  <2> QED
    BY <1>1, <2>1, SameRows DEF PlansFit
<1>6. \A q \in Requests : req'[q].pc = "flush" => req'[q] = req[q]
  BY <1>1, <1>4
<1>7. FreshKept'
  BY <1>6 DEF OpsInv, FreshKept, Flushing
<1>8. OneBearer'
  <2> SUFFICES ASSUME NEW c \in RefreshTokens
               PROVE  /\ \A t, u \in Among(RefreshTokens)' :
                            LiveToken(t, c)' /\ LiveToken(u, c)' => t = u
                      /\ \A t \in Among(RefreshTokens)', q \in Requests :
                           ~(LiveToken(t, c)' /\ Bears(req[q], c)')
                      /\ \A p, q \in Requests : Bears(req[p], c)' /\ Bears(req[q], c)' => p = q
                      /\ \A q \in Requests : Flushing(q)' /\ Bears(req[q], c)' =>
                           \A t, u \in DOMAIN req'[q].writes \cap RefreshTokens : t = u
    BY DEF OneBearer
  <2>1. Among(RefreshTokens)' = Among(RefreshTokens) /\ \A t : LiveToken(t, c)' <=> LiveToken(t, c)
    BY <1>1 DEF Among, LiveToken
  <2>2. \A q \in Requests : Bears(req[q], c)' <=> Bears(req'[q], c)
    BY <1>1 DEF Bears
  <2>3. \A q \in Requests : Bears(req'[q], c) => Bears(req[q], c) /\ req'[q] = req[q]
    BY <1>1, <1>4
  <2> HIDE DEF Bears
  <2>6. /\ \A t, u \in Among(RefreshTokens) : LiveToken(t, c) /\ LiveToken(u, c) => t = u
        /\ \A t \in Among(RefreshTokens), q \in Requests : ~(LiveToken(t, c) /\ Bears(req[q], c))
        /\ \A p, q \in Requests : Bears(req[p], c) /\ Bears(req[q], c) => p = q
        /\ \A q \in Requests : Flushing(q) /\ Bears(req[q], c) =>
             \A t, u \in DOMAIN req[q].writes \cap RefreshTokens : t = u
    BY DEF OpsInv, OneBearer
  <2>7. \A q \in Requests : Flushing(q)' /\ Bears(req'[q], c) => Flushing(q) /\ Bears(req[q], c)
    BY <2>3 DEF Flushing
  <2>8. \A q \in Requests : Flushing(q)' /\ Bears(req[q], c)' =>
          \A t, u \in DOMAIN req'[q].writes \cap RefreshTokens : t = u
    BY <2>2, <2>3, <2>6, <2>7
  <2>9. \A t \in Among(RefreshTokens)', q \in Requests :
          ~(LiveToken(t, c)' /\ Bears(req[q], c)')
    BY <2>1, <2>2, <2>3, <2>6
  <2>10. \A p, q \in Requests : Bears(req[p], c)' /\ Bears(req[q], c)' => p = q
    BY <2>2, <2>3, <2>6
  <2>11. \A t, u \in Among(RefreshTokens)' : LiveToken(t, c)' /\ LiveToken(u, c)' => t = u
    BY <2>1, <2>6
  <2> QED
    BY <2>8, <2>9, <2>10, <2>11
<1> QED
  BY <1>2, <1>3, <1>5, <1>7, <1>8 DEF OpsInv

-----------------------------------------------------------------------------
(* What a commit does *)

\* A row of a table without versions that two requests change, each its own columns.
LEMMA MergeFits ==
  ASSUME RowsSound, NEW x \in DOMAIN db, x \in Unversioned,
         NEW loaded, NEW planned, Merges(x, loaded, planned)
  PROVE  /\ RowFits(x, db[x], Stored(x, loaded, planned))
         /\ Stored(x, loaded, planned) # Absent
         /\ EntriesOf(x, Stored(x, loaded, planned)) = EntriesOf(x, db[x])
         /\ EntriesOf(x, planned) = EntriesOf(x, db[x])
<1> DEFINE S == Stored(x, loaded, planned)
<1>1. /\ loaded # Absent /\ Sound(x, loaded) /\ db[x] # Absent /\ Sound(x, db[x])
      /\ x \in ApiKeys \cup InboundEvents
      /\ TableOf(x) \in {12, 14}
  BY KeyTables DEF Merges, RowsSound
<1>2. CASE x \in ApiKeys
  <2>1. /\ loaded \in KeyRows /\ (loaded.revokedAt <=> loaded.status = "revoked")
        /\ db[x] \in KeyRows /\ (db[x].revokedAt <=> db[x].status = "revoked")
    BY <1>1, <1>2 DEF Sound
  <2>2. /\ loaded.partner = db[x].partner /\ loaded.dated = db[x].dated
        /\ loaded.status = "revoked" => db[x].status = "revoked"
        /\ planned \in {[loaded EXCEPT !.used = TRUE],
                        [loaded EXCEPT !.status = "revoked", !.revokedAt = TRUE]}
    BY <1>2 DEF Merges
  <2>3. DOMAIN planned = DOMAIN loaded
        /\ DOMAIN loaded = {"status", "deleted", "partner", "dated", "used", "revokedAt"}
    BY <2>1, <2>2 DEF KeyRows
  <2>4. S = [column \in DOMAIN planned |->
              IF planned[column] = loaded[column] THEN db[x][column] ELSE planned[column]]
    BY <2>3 DEF Stored
  <2>5. /\ DOMAIN S = {"status", "deleted", "partner", "dated", "used", "revokedAt"}
        /\ \A column \in {"status", "deleted", "partner", "dated", "used", "revokedAt"} :
             S[column] = IF planned[column] = loaded[column]
                         THEN db[x][column] ELSE planned[column]
        /\ S = [column \in DOMAIN S |-> S[column]]
    BY <2>3, <2>4
  <2> HIDE DEF S
  <2>6. /\ planned.deleted = loaded.deleted /\ planned.partner = loaded.partner
        /\ planned.dated = loaded.dated
    BY <2>1, <2>2 DEF KeyRows
  <2>7. S.deleted = FALSE /\ S.partner = db[x].partner /\ S.dated = db[x].dated
    BY <2>1, <2>5, <2>6 DEF KeyRows
  <2>8. /\ S.status \in {"active", "revoked"} /\ S.used \in BOOLEAN /\ S.revokedAt \in BOOLEAN
        /\ S.revokedAt <=> S.status = "revoked"
        /\ db[x].status = "revoked" => S.status = "revoked"
    <3>1. CASE planned = [loaded EXCEPT !.used = TRUE]
      <4>1. planned.status = loaded.status /\ planned.revokedAt = loaded.revokedAt
            /\ planned.used = TRUE
        BY <2>1, <3>1 DEF KeyRows
      <4>2. S.status = db[x].status /\ S.revokedAt = db[x].revokedAt
            /\ (S.used = db[x].used \/ S.used = TRUE)
        BY <2>5, <4>1
      <4> QED
        BY <2>1, <4>2 DEF KeyRows
    <3>2. CASE planned = [loaded EXCEPT !.status = "revoked", !.revokedAt = TRUE]
      <4>1. planned.status = "revoked" /\ planned.revokedAt = TRUE
            /\ planned.used = loaded.used
        BY <2>1, <3>2 DEF KeyRows
      <4>2. S.used = db[x].used
        BY <2>5, <4>1
      <4>3. S.status = "revoked"
        BY <2>2, <2>5, <4>1
      <4>4. S.revokedAt = TRUE
        <5>1. CASE loaded.revokedAt = TRUE
          BY <2>1, <2>2, <2>5, <4>1, <5>1 DEF KeyRows
        <5>2. CASE loaded.revokedAt # TRUE
          BY <2>5, <4>1, <5>2
        <5> QED
          BY <5>1, <5>2
      <4> QED
        BY <2>1, <4>2, <4>3, <4>4 DEF KeyRows
    <3> QED
      BY <2>2, <3>1, <3>2
  <2>9. S \in KeyRows /\ S.status # "absent"
    BY <2>1, <2>5, <2>7, <2>8 DEF KeyRows
  <2>10. S # Absent
    BY <2>9 DEF Absent
  <2>11. Sound(x, S)
    BY <1>2, <2>8, <2>9, KeyTables DEF Sound
  <2>12. Lawful(x, db[x], S)
    BY <1>2, <2>7, <2>8, <2>10, KeyTables DEF Lawful
  <2>13. Rests(x, S) /\ \A row : EntriesOf(x, row) = {}
    BY <1>2, KeyTables DEF Rests, EntriesOf
  <2> QED
    BY <2>10, <2>11, <2>12, <2>13 DEF RowFits, S
<1>3. CASE x \in InboundEvents
  <2>1. /\ loaded \in InboundRows /\ (loaded.status \in {"accepted", "processed"} => loaded.valid)
        /\ db[x] \in InboundRows /\ (db[x].status \in {"accepted", "processed"} => db[x].valid)
    BY <1>1, <1>3 DEF Sound
  <2>2. /\ loaded.key = db[x].key /\ loaded.tag = db[x].tag /\ loaded.valid = db[x].valid
        /\ \/ planned = [loaded EXCEPT !.status = "rejected"]
           \/ planned = [loaded EXCEPT !.status = "processed"] /\ loaded.valid
    BY <1>3 DEF Merges
  <2>3. DOMAIN planned = DOMAIN loaded
        /\ DOMAIN loaded = {"status", "deleted", "key", "tag", "valid"}
    BY <2>1, <2>2 DEF InboundRows
  <2>4. S = [column \in DOMAIN planned |->
              IF planned[column] = loaded[column] THEN db[x][column] ELSE planned[column]]
    BY <2>3 DEF Stored
  <2>5. /\ DOMAIN S = {"status", "deleted", "key", "tag", "valid"}
        /\ \A column \in {"status", "deleted", "key", "tag", "valid"} :
             S[column] = IF planned[column] = loaded[column]
                         THEN db[x][column] ELSE planned[column]
        /\ S = [column \in DOMAIN S |-> S[column]]
    BY <2>3, <2>4
  <2> HIDE DEF S
  <2>6. /\ planned.deleted = loaded.deleted /\ planned.key = loaded.key
        /\ planned.tag = loaded.tag /\ planned.valid = loaded.valid
        /\ planned.status = "rejected" \/ (planned.status = "processed" /\ loaded.valid)
    BY <2>1, <2>2 DEF InboundRows
  <2>7. S.deleted = FALSE /\ S.key = db[x].key /\ S.tag = db[x].tag /\ S.valid = db[x].valid
    BY <2>1, <2>5, <2>6 DEF InboundRows
  <2>8. /\ S.status \in {"accepted", "rejected", "processed"}
        /\ S.status \in {"accepted", "processed"} => S.valid
    <3>1. S.status = db[x].status \/ S.status = planned.status
      BY <2>5
    <3> QED
      BY <2>1, <2>2, <2>6, <2>7, <3>1 DEF InboundRows
  <2>9. S \in InboundRows /\ S.status # "absent"
    BY <2>1, <2>5, <2>7, <2>8 DEF InboundRows
  <2>10. S # Absent
    BY <2>9 DEF Absent
  <2>11. Sound(x, S)
    BY <1>3, <2>8, <2>9, KeyTables DEF Sound
  <2>12. Lawful(x, db[x], S)
    BY <1>3, <2>7, <2>10, KeyTables DEF Lawful
  <2>13. Rests(x, S)
    BY <1>3, KeyTables DEF Rests
  <2>14. EntriesOf(x, S) = {Slot(S.key, S.tag)} /\ EntriesOf(x, db[x]) = {Slot(db[x].key, db[x].tag)}
    BY <1>1, <1>3, <2>10, KeyTables DEF EntriesOf
  <2>15. EntriesOf(x, planned) = {Slot(planned.key, planned.tag)}
    <3>1. planned.status # "absent"
      BY <2>6
    <3>2. planned # Absent
      BY <3>1 DEF Absent
    <3> QED
      BY <1>3, <3>2, KeyTables DEF EntriesOf
  <2> QED
    BY <2>2, <2>6, <2>7, <2>10, <2>11, <2>12, <2>13, <2>14, <2>15 DEF RowFits, S
<1> QED
  BY <1>1, <1>2, <1>3

\* What a commit makes of a row.
LEMMA Committed ==
  ASSUME OpsInv, NEW r \in Requests, Commit(r)
  PROVE  /\ Flushing(r) /\ FlushFits(req[r])
         /\ DOMAIN db' = DOMAIN db
         /\ DOMAIN req[r].writes \subseteq DOMAIN db
         /\ \A x \in DOMAIN db : x \notin DOMAIN req[r].writes => db'[x] = db[x]
         /\ \A x \in DOMAIN req[r].writes :
              /\ RowFits(x, db[x], db'[x])
              /\ \/ db'[x] = req[r].writes[x] /\ req[r].loaded[x] = db[x]
                 \/ /\ x \in Unversioned /\ db'[x] # Absent
                    /\ EntriesOf(x, db'[x]) = EntriesOf(x, db[x])
                    /\ EntriesOf(x, req[r].writes[x]) = EntriesOf(x, db[x])
         /\ \A q \in Requests : req'[q] \in {req[q], Doomed} \/ (q = r /\ req'[q] = req[r].then)
         /\ req'[r] = req[r].then
         /\ \A q \in Requests : q # r /\ Flushing(q) /\ req'[q] # Doomed =>
              DOMAIN req[q].writes \cap DOMAIN req[r].writes \subseteq Unversioned
<1>1. Flushing(r) /\ FlushFits(req[r])
  BY DEF Commit, OpsInv, PlansFit, Fits, Flushing
<1>2. DOMAIN db' = DOMAIN db /\ DOMAIN req[r].writes \subseteq DOMAIN db
  BY <1>1 DEF Commit, OpsInv, RowsInv, PlansAreCurrent
<1>3. ASSUME NEW x \in DOMAIN req[r].writes
      PROVE  /\ RowFits(x, db[x], db'[x])
             /\ \/ db'[x] = req[r].writes[x] /\ req[r].loaded[x] = db[x]
                \/ /\ x \in Unversioned /\ db'[x] # Absent
                   /\ EntriesOf(x, db'[x]) = EntriesOf(x, db[x])
                    /\ EntriesOf(x, req[r].writes[x]) = EntriesOf(x, db[x])
  <2> DEFINE loaded == req[r].loaded[x]
             planned == req[r].writes[x]
  <2>1. WriteOk(x, loaded, planned) /\ x \in DOMAIN db
    BY <1>1, <1>2 DEF FlushFits
  <2>2. db'[x] = Stored(x, loaded, planned)
    BY <1>2 DEF Commit
  <2>3. x \notin Unversioned => loaded = db[x]
    BY <1>1 DEF OpsInv, RowsInv, PlansAreCurrent
  <2>4. RowsSound
    BY DEF OpsInv, DbInv
  <2> HIDE DEF loaded, planned
  <2>5. CASE x \notin Unversioned /\ RowFits(x, loaded, planned)
    <3>1. db'[x] = planned
      BY <2>2, <2>5 DEF Stored
    <3> QED
      BY <2>3, <2>5, <3>1 DEF loaded, planned
  <2>6. CASE x \in Unversioned /\ loaded = Absent /\ db[x] = Absent /\ planned # Absent
             /\ RowFits(x, Absent, planned)
    <3>1. Sound(x, planned) /\ x \in ApiKeys \cup InboundEvents
      BY <2>6, KeyTables DEF RowFits
    <3>2. planned \in KeyRows \cup InboundRows
      BY <2>6, <3>1 DEF Sound
    <3>3. "valid" \in DOMAIN planned \/ "dated" \in DOMAIN planned
      BY <3>2 DEF KeyRows, InboundRows
    <3>4. DOMAIN loaded = {"status", "deleted"}
      BY <2>6 DEF Absent
    <3>5. db'[x] = planned
      BY <2>2, <3>3, <3>4 DEF Stored
    <3> QED
      BY <2>6, <3>5 DEF loaded, planned
  <2>7. CASE x \in Unversioned /\ Merges(x, loaded, planned)
    BY <2>1, <2>2, <2>4, <2>7, MergeFits DEF loaded, planned
  <2> QED
    BY <2>1, <2>5, <2>6, <2>7 DEF WriteOk
<1>4. \A x \in DOMAIN db : x \notin DOMAIN req[r].writes => db'[x] = db[x]
  BY DEF Commit
<1>5. \A q \in Requests : req'[q] \in {req[q], Doomed} \/ (q = r /\ req'[q] = req[r].then)
  BY DEF Commit
<1>6. req'[r] = req[r].then
  BY DEF Commit
<1>7. \A q \in Requests : q # r /\ Flushing(q) /\ req'[q] # Doomed =>
        DOMAIN req[q].writes \cap DOMAIN req[r].writes \subseteq Unversioned
  BY DEF Commit, Conflicts
<1> QED
  BY <1>1, <1>2, <1>3, <1>4, <1>5, <1>6, <1>7

\* What a row rests on lasts.
LEMMA CommitLasts ==
  ASSUME OpsInv, NEW r \in Requests, Commit(r)
  PROVE  /\ \A x \in DOMAIN db : RowFits(x, db[x], db'[x]) \/ db'[x] = db[x]
         /\ \A x \in DOMAIN db \cap Lasting : db[x] # Absent => db'[x] # Absent
         /\ \A x \in DOMAIN db : Exists(x)' <=> db'[x] # Absent
         /\ \A x \in DOMAIN db : \A row : Sound(x, row) /\ Rests(x, row) => Rests(x, row)'
         /\ \A ids : Among(ids)' = Among(ids)
<1>1. \A x \in DOMAIN db : RowFits(x, db[x], db'[x]) \/ db'[x] = db[x]
  BY Committed
<1>2. \A x \in DOMAIN db \cap Lasting : db[x] # Absent => db'[x] # Absent
  BY <1>1 DEF RowFits, Lawful
<1>3. \A ids : Among(ids)' = Among(ids)
  BY Committed DEF Among
<1>4. \A x \in DOMAIN db : Sound(x, db'[x]) /\ Sound(x, db[x])
  BY <1>1 DEF RowFits, OpsInv, DbInv, RowsSound
<1>5. \A x \in DOMAIN db : (Exists(x)' <=> db'[x] # Absent) /\ (Exists(x) <=> db[x] # Absent)
  <2>1. \A x : Exists(x) <=> db[x].status # "absent"
    BY DEF Exists
  <2>2. \A x : Exists(x)' <=> db'[x].status # "absent"
    BY DEF Exists
  <2>3. Absent.status = "absent"
    BY DEF Absent
  <2> QED
    BY <1>4, <2>1, <2>2, <2>3 DEF Sound
<1>6. \A y \in DOMAIN db \cap Lasting : Exists(y) => Exists(y)'
  BY <1>2, <1>5
<1>7. ASSUME NEW x \in DOMAIN db, NEW row, Sound(x, row), Rests(x, row), row # Absent
      PROVE  Rests(x, row)'
  <2>1. \A u \in Among(Units) : Exists(u) => Exists(u)'
    BY <1>6 DEF Among, Lasting
  <2>2. ASSUME NEW p \in Among(Permits), Exists(p), db[p].shipment = x, db[p].approvedAt
        PROVE  Exists(p)' /\ db'[p].shipment = x /\ db'[p].approvedAt
    <3>1. Exists(p)' /\ db[p] # Absent /\ p \in DOMAIN db /\ p \in Permits
      BY <1>5, <1>6, <2>2 DEF Among, Lasting
    <3> QED
      BY <1>1, <2>2, <3>1 DEF RowFits, Lawful
  <2>3. ASSUME NEW e \in Among(Escorts), Exists(e), db[e].shipment = x
        PROVE  Exists(e)' /\ db'[e].shipment = x
    <3>1. Exists(e)' /\ db[e] # Absent /\ e \in DOMAIN db /\ e \in Escorts
      BY <1>5, <1>6, <2>3 DEF Among, Lasting
    <3> QED
      BY <1>1, <2>3, <3>1 DEF RowFits, Lawful
  <2>4. CASE x \in RefreshTokens
    <3>1. x \notin Shipments
      BY <2>4, KeyTables
    <3>2. row.chain = x \/ (row.chain \in DOMAIN db /\ Exists(row.chain))
      BY <1>7, <2>4 DEF Rests
    <3>3. row.chain # x => row.chain \in RefreshTokens
      BY <1>7, <2>4 DEF Sound, TokenRows
    <3> QED
      BY <1>6, <3>1, <3>2, <3>3, Committed DEF Rests, Lasting
  <2>5. CASE x \notin RefreshTokens
    BY <1>3, <1>7, <2>1, <2>2, <2>3, <2>5 DEF Rests
  <2> QED
    BY <2>4, <2>5
<1>8. \A x \in DOMAIN db : \A row : row = Absent => Rests(x, row)'
  BY DEF Rests
<1> QED
  BY <1>1, <1>2, <1>3, <1>5, <1>7, <1>8

\* After a commit the rows are sound, and say true things of one another.
LEMMA CommitRowsAgree ==
  ASSUME OpsInv, NEW r \in Requests, Commit(r)
  PROVE  (DOMAIN db)' \in Scopes /\ RowsSound' /\ RowsRest'
<1>1. (DOMAIN db)' \in Scopes
  BY Committed DEF OpsInv, DbInv
<1>2. \A x \in DOMAIN db : Sound(x, db'[x]) /\ Rests(x, db'[x])
  BY CommitLasts DEF RowFits, OpsInv, DbInv, RowsSound, RowsRest
<1>3. DOMAIN db' = DOMAIN db
  BY Committed
<1>4. RowsSound'
  BY <1>2, <1>3 DEF RowsSound
<1>5. \A x \in DOMAIN db : \A row : Sound(x, row) /\ Rests(x, row) => Rests(x, row)'
  BY CommitLasts
<1>6. ASSUME NEW x \in DOMAIN db, NEW row, row = db'[x] PROVE Rests(x, row)'
  BY <1>2, <1>5, <1>6
<1>7. RowsRest'
  BY <1>3, <1>6 DEF RowsRest
<1> QED
  BY <1>1, <1>4, <1>7

\* The entries a row occupies are entries.
LEMMA EntriesKnown ==
  ASSUME NEW x, NEW row, Sound(x, row)
  PROVE  EntriesOf(x, row) \subseteq IndexEntries \ Unversioned
<1>1. ASSUME NEW i \in EntriesOf(x, row) PROVE i \in IndexEntries
  <2>1. row # Absent
    BY <1>1 DEF EntriesOf
  <2>2. CASE x \in Partners
    BY <1>1, <2>1, <2>2 DEF EntriesOf, Sound, PartnerRows, IndexEntries
  <2>3. CASE x \in Templates \cup Accounts \cup Vehicles \cup Warehouses
    <3>1. row.code \in UNION {TemplateCodes, Emails, Plates, Codes}
      BY <2>1, <2>3 DEF Sound, TemplateRows, AccountRows, VehicleRows, WarehouseRows
    <3>2. i = row.code
      BY <1>1, <2>1, <2>3, KeyTables DEF EntriesOf
    <3> QED
      BY <3>1, <3>2 DEF IndexEntries
  <2>4. CASE x \in Drivers
    <3>1. row.code \in Licences /\ row.user \in Accounts
      BY <2>1, <2>4 DEF Sound, DriverRows
    <3>2. i = row.code \/ i = Profile(row.user)
      BY <1>1, <2>1, <2>4, KeyTables DEF EntriesOf
    <3>3. Profile(row.user) \in {Profile(u) : u \in Accounts}
      BY <3>1
    <3>4. row.code \in IndexEntries /\ Profile(row.user) \in IndexEntries
      BY <3>1, <3>3 DEF IndexEntries
    <3> QED
      BY <3>2, <3>4
  <2>5. CASE x \in Notifications
    <3>1. row.key \in Keys
      BY <2>1, <2>5 DEF Sound, NotificationRows
    <3>2. i = row.key
      BY <1>1, <2>1, <2>5, KeyTables DEF EntriesOf
    <3> QED
      BY <3>1, <3>2 DEF IndexEntries
  <2>6. CASE x \in InboundEvents
    <3>1. row.key \in ApiKeys /\ row.tag \in Tags
      BY <2>1, <2>6 DEF Sound, InboundRows
    <3>2. i = Slot(row.key, row.tag)
      BY <1>1, <2>1, <2>6, KeyTables DEF EntriesOf
    <3> QED
      BY <3>1, <3>2 DEF IndexEntries
  <2> QED
    BY <1>1, <2>1, <2>2, <2>3, <2>4, <2>5, <2>6 DEF EntriesOf
<1>2. \A i \in IndexEntries : i \notin Unversioned
  BY KeyTables
<1> QED
  BY <1>1, <1>2

\* A commit keeps the indexes.
LEMMA CommitIndexed ==
  ASSUME OpsInv, NEW r \in Requests, Commit(r)
  PROVE  Indexed'
<1> DEFINE w == DOMAIN req[r].writes
<1>1. /\ \A x \in DOMAIN db : x \notin w => db'[x] = db[x]
      /\ w \subseteq DOMAIN db /\ DOMAIN db' = DOMAIN db
      /\ EntriesMove(req[r].loaded, req[r].writes)
  BY Committed DEF FlushFits
<1>2. ASSUME NEW x \in w
      PROVE  /\ Sound(x, db'[x])
             /\ \/ db'[x] = req[r].writes[x] /\ req[r].loaded[x] = db[x]
                \/ /\ x \in Unversioned
                   /\ EntriesOf(x, db'[x]) = EntriesOf(x, db[x])
                   /\ EntriesOf(x, req[r].writes[x]) = EntriesOf(x, db[x])
  BY Committed DEF RowFits
<1>3. ASSUME NEW x \in w, NEW i \in EntriesOf(x, db'[x]) \ EntriesOf(x, db[x])
      PROVE  i \in w /\ db'[i] = Entry(x)
  <2>1. db'[x] = req[r].writes[x] /\ req[r].loaded[x] = db[x]
    BY <1>2
  <2>2. i \in w /\ req[r].writes[i] = Entry(x)
    BY <1>1, <2>1 DEF EntriesMove
  <2>3. i \notin Unversioned
    BY <1>2, EntriesKnown
  <2> QED
    BY <1>2, <2>2, <2>3
<1>4. ASSUME NEW i \in w \cap IndexEntries, db[i].status # "absent"
      PROVE  \E y \in w : db[i] = Entry(y) /\ i \notin EntriesOf(y, db'[y])
  <2>1. i \notin Unversioned
    BY KeyTables
  <2>2. req[r].loaded[i] = db[i]
    BY <1>2, <2>1
  <2>3. PICK y \in w : db[i] = Entry(y) /\ i \notin EntriesOf(y, req[r].writes[y])
    BY <1>1, <1>4, <2>2 DEF EntriesMove
  <2>4. EntriesOf(y, db'[y]) = EntriesOf(y, req[r].writes[y])
    BY <1>2
  <2> QED
    BY <2>3, <2>4
<1> HIDE DEF w
<1>5. ASSUME NEW x \in DOMAIN db, NEW i \in EntriesOf(x, db'[x])
      PROVE  i \in DOMAIN db /\ db'[i] = Entry(x)
  <2>1. CASE x \in w /\ i \notin EntriesOf(x, db[x])
    BY <1>1, <1>3, <2>1
  <2>2. CASE i \in EntriesOf(x, db[x])
    <3>1. i \in DOMAIN db /\ db[i] = Entry(x) /\ Sound(x, db[x])
      BY <2>2 DEF OpsInv, DbInv, Indexed, RowsSound
    <3>2. i \in IndexEntries /\ db[i].status # "absent"
      BY <2>2, <3>1, EntriesKnown DEF Entry
    <3>3. \A y : Entry(y) = Entry(x) => y = x
      <4>1. \A y : Entry(y).of = y
        BY DEF Entry
      <4> QED
        BY <4>1
    <3>4. i \notin w
      BY <1>4, <1>5, <3>1, <3>2, <3>3
    <3> QED
      BY <1>1, <3>1, <3>4
  <2>3. CASE x \notin w
    BY <1>1, <1>5, <2>2, <2>3
  <2> QED
    BY <2>1, <2>2, <2>3
<1> QED
  BY <1>1, <1>5 DEF Indexed

\* The attempts to deliver a notification, whether it is there or not.
LEMMA AttemptsAll ==
  ASSUME DbInv, NEW n \in Among(Notifications)
  PROVE  /\ IsFiniteSet(AttemptsFor(n))
         /\ {db[a].number : a \in AttemptsFor(n)} = 1..Cardinality(AttemptsFor(n))
         /\ Retries(db[n]) = Cardinality(Failures(n))
         /\ Cardinality(AttemptsFor(n) \ Failures(n)) = IF Reached(db[n]) THEN 1 ELSE 0
<1>1. AttemptsFor(n) \subseteq {a \in Among(Attempts) : db[a] # Absent}
  BY DEF AttemptsFor, Exists, Absent
<1>2. IsFiniteSet(AttemptsFor(n))
  BY <1>1, FS_Subset DEF DbInv, Accounted
<1>3. CASE db[n] # Absent
  <2>1. Exists(n)
    BY <1>3, Typed DEF DbInv, Among
  <2> QED
    BY <1>2, <1>3, <2>1 DEF DbInv, Accounted, AttemptsAccounted, DeliveredOnce, Retries, Reached
<1>4. CASE db[n] = Absent
  <2>1. AttemptsFor(n) = {}
    BY <1>1, <1>4 DEF DbInv, Accounted, AttemptsFor
  <2>2. Failures(n) = {} /\ Cardinality({}) = 0
    BY <2>1, FS_EmptySet DEF Failures
  <2>3. Retries(db[n]) = 0 /\ ~Reached(db[n])
    BY <1>4 DEF Retries, Reached, Absent
  <2>4. {db[a].number : a \in AttemptsFor(n)} = {} /\ 1..0 = {}
    BY <2>1
  <2> QED
    BY <1>2, <2>1, <2>2, <2>3, <2>4
<1> QED
  BY <1>3, <1>4

\* A commit keeps the account of attempts: it adds one to its notification, or none.
LEMMA CommitAccounted ==
  ASSUME OpsInv, NEW r \in Requests, Commit(r)
  PROVE  Accounted'
<1> DEFINE w == DOMAIN req[r].writes
<1>1. /\ \A x \in DOMAIN db : x \notin w => db'[x] = db[x]
      /\ w \subseteq DOMAIN db /\ DOMAIN db' = DOMAIN db
      /\ AttemptsTold(req[r].loaded, req[r].writes)
      /\ DbInv
  BY Committed DEF FlushFits, OpsInv
<1>2. \A x \in w \cap (Attempts \cup Notifications) :
        db'[x] = req[r].writes[x] /\ req[r].loaded[x] = db[x] /\ RowFits(x, db[x], db'[x])
  <2>1. \A x \in Attempts \cup Notifications : x \notin Unversioned
    BY KeyTables
  <2> QED
    BY <2>1, Committed
<1>3. /\ \A ids : Among(ids)' = Among(ids)
      /\ \A x \in DOMAIN db : Exists(x)' <=> db'[x] # Absent
      /\ \A x \in DOMAIN db : Exists(x) <=> db[x] # Absent
  BY <1>1, CommitLasts, Typed DEF DbInv
<1>4. ASSUME NEW a \in w \cap Attempts
      PROVE  db[a] = Absent /\ db'[a] # Absent /\ db'[a].of \in w \cap Notifications
             /\ db'[a].status \in {"succeeded", "failed"}
  <2>1. db[a] = Absent /\ db'[a] # Absent
    BY <1>2 DEF RowFits, Lawful, Lasting
  <2>2. db'[a] \in AttemptRows
    BY <1>2, <2>1 DEF RowFits, Sound
  <2> QED
    BY <1>1, <1>2, <2>1, <2>2 DEF AttemptsTold, AttemptRows
<1>5. ASSUME NEW n \in w \cap Notifications
      PROVE  /\ db'[n] # Absent
             /\ \/ /\ w \cap Attempts = {}
                   /\ Retries(db'[n]) = Retries(db[n])
                   /\ Reached(db'[n]) <=> Reached(db[n])
                \/ \E a \in Attempts :
                     /\ w \cap Attempts = {a}
                     /\ db'[a].of = n
                     /\ db'[a].number = Cardinality(AttemptsFor(n)) + 1
                     /\ ~Reached(db[n])
                     /\ Reached(db'[n]) <=> db'[a].status = "succeeded"
                     /\ Retries(db'[n]) = Retries(db[n]) + (IF db'[a].status = "failed" THEN 1 ELSE 0)
  <2>1. db'[n] # Absent
    BY <1>2 DEF RowFits, Lawful, Lasting
  <2> QED
    BY <1>1, <1>2, <2>1 DEF AttemptsTold
<1> HIDE DEF w
<1>6. IsFiniteSet(w \cap Attempts)
  <2>1. CASE w \cap Attempts = {}
    BY <2>1, FS_EmptySet
  <2>2. CASE w \cap Attempts # {}
    <3>1. PICK n \in w \cap Notifications : TRUE
      BY <1>4, <2>2
    <3>2. PICK a \in Attempts : w \cap Attempts = {a}
      BY <1>5, <2>2, <3>1
    <3> QED
      BY <3>2, FS_Singleton
  <2> QED
    BY <2>1, <2>2
<1>7. IsFiniteSet({a \in Among(Attempts)' : db'[a] # Absent})
  <2>1. {a \in Among(Attempts)' : db'[a] # Absent}
          \subseteq {a \in Among(Attempts) : db[a] # Absent} \cup (w \cap Attempts)
    BY <1>1, <1>3 DEF Among
  <2>2. IsFiniteSet({a \in Among(Attempts) : db[a] # Absent} \cup (w \cap Attempts))
    BY <1>1, <1>6, FS_Union DEF DbInv, Accounted
  <2> QED
    BY <2>1, <2>2, FS_Subset
<1>8. ASSUME NEW a \in Among(Attempts), db'[a] # Absent
      PROVE  db'[a].of \in Among(Notifications) /\ db'[db'[a].of] # Absent
  <2>1. CASE a \in w
    BY <1>1, <1>4, <1>5, <2>1 DEF Among
  <2>2. CASE a \notin w
    <3>1. /\ db'[a] = db[a] /\ db[a].of \in Among(Notifications)
          /\ db[db[a].of] # Absent
      BY <1>1, <1>8, <2>2 DEF Among, DbInv, Accounted
    <3>2. CASE db[a].of \in w
      BY <1>5, <3>1, <3>2 DEF Among
    <3>3. CASE db[a].of \notin w
      BY <1>1, <3>1, <3>3 DEF Among
    <3> QED
      BY <3>1, <3>2, <3>3
  <2> QED
    BY <2>1, <2>2
<1>9. \A n : /\ AttemptsFor(n)' = {a \in Among(Attempts) : db'[a] # Absent /\ db'[a].of = n}
             /\ AttemptsFor(n) = {a \in Among(Attempts) : db[a] # Absent /\ db[a].of = n}
             /\ Failures(n) = {a \in AttemptsFor(n) : db[a].status = "failed"}
             /\ Failures(n)' = {a \in AttemptsFor(n)' : db'[a].status = "failed"}
  BY <1>3 DEF AttemptsFor, Failures, Among
<1>10. ASSUME NEW n, n \notin w \/ w \cap Attempts = {}
       PROVE  /\ AttemptsFor(n)' = AttemptsFor(n) /\ Failures(n)' = Failures(n)
              /\ \A a \in AttemptsFor(n) : db'[a] = db[a]
  <2>1. ASSUME NEW a \in Among(Attempts)
        PROVE  /\ db'[a] # Absent /\ db'[a].of = n <=> db[a] # Absent /\ db[a].of = n
               /\ db[a] # Absent => db'[a] = db[a]
    <3>1. CASE a \in w
      BY <1>4, <1>10, <3>1 DEF Among
    <3>2. CASE a \notin w
      BY <1>1, <3>2 DEF Among
    <3> QED
      BY <3>1, <3>2
  <2>2. AttemptsFor(n)' = AttemptsFor(n)
    BY <1>9, <2>1
  <2>3. \A a \in AttemptsFor(n) : db'[a] = db[a]
    BY <1>9, <2>1
  <2>4. Failures(n)' = Failures(n)
    BY <1>9, <2>2, <2>3
  <2> QED
    BY <2>2, <2>3, <2>4
<1>11. ASSUME NEW n \in Among(Notifications), db'[n] # Absent
       PROVE  /\ {db'[a].number : a \in AttemptsFor(n)'} = 1..Cardinality(AttemptsFor(n)')
              /\ Retries(db'[n]) = Cardinality(Failures(n)')
              /\ Cardinality(AttemptsFor(n)' \ Failures(n)') = IF Reached(db'[n]) THEN 1 ELSE 0
  <2> DEFINE A == AttemptsFor(n)
             F == Failures(n)
  <2>1. /\ IsFiniteSet(A) /\ {db[a].number : a \in A} = 1..Cardinality(A)
        /\ Retries(db[n]) = Cardinality(F)
        /\ Cardinality(A \ F) = IF Reached(db[n]) THEN 1 ELSE 0
    BY <1>1, AttemptsAll
  <2>2. CASE n \notin w \/ w \cap Attempts = {}
    <3>1. AttemptsFor(n)' = A /\ Failures(n)' = F /\ \A a \in A : db'[a] = db[a]
      BY <1>10, <2>2
    <3>2. Retries(db'[n]) = Retries(db[n]) /\ (Reached(db'[n]) <=> Reached(db[n]))
      <4>1. CASE n \notin w
        BY <1>1, <4>1 DEF Among
      <4>2. CASE n \in w /\ w \cap Attempts = {}
        BY <1>5, <4>2 DEF Among
      <4> QED
        BY <2>2, <4>1, <4>2
    <3>3. {db'[a].number : a \in A} = {db[a].number : a \in A}
      BY <3>1
    <3> HIDE DEF A, F
    <3> QED
      BY <2>1, <3>1, <3>2, <3>3
  <2>3. CASE n \in w /\ w \cap Attempts # {}
    <3>1. PICK a \in Attempts :
            /\ w \cap Attempts = {a}
            /\ db'[a].of = n
            /\ db'[a].number = Cardinality(A) + 1
            /\ ~Reached(db[n])
            /\ Reached(db'[n]) <=> db'[a].status = "succeeded"
            /\ Retries(db'[n]) = Retries(db[n]) + (IF db'[a].status = "failed" THEN 1 ELSE 0)
      BY <1>5, <2>3 DEF Among
    <3>2. /\ a \in Among(Attempts) /\ db[a] = Absent /\ db'[a] # Absent
          /\ db'[a].status \in {"succeeded", "failed"}
      BY <1>1, <1>4, <3>1 DEF Among
    <3>3. \A b \in Among(Attempts) : b # a => db'[b] = db[b]
      BY <1>1, <3>1 DEF Among
    <3>4. a \notin A /\ AttemptsFor(n)' = A \cup {a} /\ \A b \in A : db'[b] = db[b]
      BY <1>9, <3>1, <3>2, <3>3
    <3>5. F \subseteq A /\ Failures(n)' = IF db'[a].status = "failed" THEN F \cup {a} ELSE F
      BY <1>9, <3>4
    <3> HIDE DEF A, F
    <3>6. IsFiniteSet(F) /\ IsFiniteSet(A \ F) /\ Cardinality(A) \in Nat /\ Cardinality(F) \in Nat
      BY <2>1, <3>5, FS_Subset, FS_CardinalityType
    <3>7. Cardinality(A \cup {a}) = Cardinality(A) + 1
      BY <2>1, <3>4, FS_AddElement
    <3>8. {db'[b].number : b \in AttemptsFor(n)'} = 1..Cardinality(A) + 1
      <4>1. {db'[b].number : b \in A \cup {a}} = {db[b].number : b \in A} \cup {Cardinality(A) + 1}
        BY <3>1, <3>4
      <4>2. \A c \in Nat : (1..c) \cup {c + 1} = 1..(c + 1)
        OBVIOUS
      <4> QED
        BY <2>1, <3>4, <3>6, <4>1, <4>2
    <3>9. CASE db'[a].status = "failed"
      <4>1. Failures(n)' = F \cup {a} /\ a \notin F
        BY <3>4, <3>5, <3>9
      <4>2. Cardinality(F \cup {a}) = Cardinality(F) + 1
        BY <3>6, <4>1, FS_AddElement
      <4>3. AttemptsFor(n)' \ Failures(n)' = A \ F
        BY <3>4, <4>1
      <4> QED
        BY <2>1, <3>1, <3>4, <3>7, <3>8, <3>9, <4>1, <4>2, <4>3
    <3>10. CASE db'[a].status = "succeeded"
      <4>1. Failures(n)' = F
        BY <3>5, <3>10
      <4>2. AttemptsFor(n)' \ Failures(n)' = (A \ F) \cup {a} /\ a \notin A \ F
        BY <3>4, <3>5, <4>1
      <4>3. Cardinality((A \ F) \cup {a}) = Cardinality(A \ F) + 1
        BY <3>6, <4>2, FS_AddElement
      <4>4. Cardinality((A \ F) \cup {a}) = 1 /\ Reached(db'[n])
        BY <2>1, <3>1, <3>10, <4>3
      <4>5. Retries(db'[n]) = Cardinality(F)
        BY <2>1, <3>1, <3>6, <3>10
      <4>6. Cardinality(AttemptsFor(n)') = Cardinality(A) + 1
        BY <3>4, <3>7
      <4> HIDE DEF Reached, Retries
      <4> QED
        BY <3>8, <4>1, <4>2, <4>4, <4>5, <4>6
    <3> QED
      BY <3>2, <3>9, <3>10
  <2> QED
    BY <2>2, <2>3
<1>12. AttemptsAccounted'
  <2>1. \A n \in Among(Notifications)' : Exists(n)' =>
          /\ {db'[a].number : a \in AttemptsFor(n)'} = 1..Cardinality(AttemptsFor(n)')
          /\ db'[n].retries = Cardinality(Failures(n)')
    BY <1>3, <1>11 DEF Retries, Among
  <2> QED
    BY <2>1 DEF AttemptsAccounted
<1>13. DeliveredOnce'
  <2>1. \A n \in Among(Notifications)' : Exists(n)' =>
          Cardinality(AttemptsFor(n)' \ Failures(n)')
            = IF db'[n].status \in {"sent", "read"} THEN 1 ELSE 0
    BY <1>3, <1>11 DEF Reached, Among
  <2> QED
    BY <2>1 DEF DeliveredOnce
<1> QED
  BY <1>3, <1>7, <1>8, <1>12, <1>13 DEF Accounted

\* The attempts for a notification the commit does not write stay the same.
LEMMA CommitAttempts ==
  ASSUME OpsInv, NEW r \in Requests, Commit(r), NEW n, n \notin DOMAIN req[r].writes
  PROVE  AttemptsFor(n)' = AttemptsFor(n)
<1> DEFINE w == DOMAIN req[r].writes
<1>1. /\ \A x \in DOMAIN db : x \notin w => db'[x] = db[x]
      /\ w \subseteq DOMAIN db
      /\ AttemptsTold(req[r].loaded, req[r].writes)
  BY Committed DEF FlushFits
<1>2. /\ \A ids : Among(ids)' = Among(ids)
      /\ \A x \in DOMAIN db : Exists(x)' <=> db'[x] # Absent
      /\ \A x \in DOMAIN db : Exists(x) <=> db[x] # Absent
  BY CommitLasts, Typed DEF OpsInv, DbInv
<1>3. ASSUME NEW a \in w \cap Attempts
      PROVE  db[a] = Absent /\ db'[a].of # n
  <2>1. a \notin Unversioned
    BY KeyTables
  <2>2. db'[a] = req[r].writes[a] /\ RowFits(a, db[a], db'[a])
    BY <2>1, Committed
  <2> QED
    BY <1>1, <2>2 DEF RowFits, Lawful, AttemptsTold
<1> HIDE DEF w
<1>4. ASSUME NEW a \in Among(Attempts)
      PROVE  (Exists(a)' /\ db'[a].of = n) <=> (Exists(a) /\ db[a].of = n)
  <2>1. CASE a \in w
    BY <1>2, <1>3, <2>1 DEF Among
  <2>2. CASE a \notin w
    BY <1>1, <1>2, <2>2 DEF Among
  <2> QED
    BY <2>1, <2>2
<1> QED
  BY <1>2, <1>4 DEF AttemptsFor

\* What another request has planned for a row still fits after a commit.
LEMMA CommitWrites ==
  ASSUME OpsInv, NEW r \in Requests, Commit(r), NEW q \in Requests, q # r, Flushing(q),
         NEW p, p = req[q], NEW x \in DOMAIN p.writes
  PROVE  WriteOk(x, p.loaded[x], p.writes[x])'
<1>1. WriteOk(x, p.loaded[x], p.writes[x]) /\ x \in DOMAIN db
  BY DEF OpsInv, RowsInv, PlansAreCurrent, PlansFit, Fits, FlushFits, Flushing
<1>2. x \in Unversioned /\ p.loaded[x] = Absent => x \notin DOMAIN req[r].writes
  BY Committed DEF OpsInv, FreshKept
<1>3. x \notin DOMAIN req[r].writes => db'[x] = db[x]
  BY <1>1, Committed
<1>4. /\ \A row : Sound(x, row) /\ Rests(x, row) => Rests(x, row)'
      /\ RowFits(x, db[x], db'[x]) \/ db'[x] = db[x]
      /\ x \in Lasting /\ db[x] # Absent => db'[x] # Absent
  BY <1>1, CommitLasts
<1>5. \A old, new : RowFits(x, old, new) => RowFits(x, old, new)'
  BY <1>4 DEF RowFits
<1>6. ASSUME NEW old, NEW new, x \in Unversioned, Merges(x, old, new)
      PROVE  Merges(x, old, new)'
  <2>1. db[x] # Absent
    BY <1>6 DEF Merges
  <2>2. x \in ApiKeys \cup InboundEvents => db'[x] # Absent
    BY <1>4, <2>1 DEF Lasting
  <2>3. x \in ApiKeys => /\ db'[x].partner = db[x].partner /\ db'[x].dated = db[x].dated
                         /\ db[x].status = "revoked" => db'[x].status = "revoked"
    BY <1>4, <2>1 DEF RowFits, Lawful
  <2>4. x \in InboundEvents =>
          db'[x].key = db[x].key /\ db'[x].tag = db[x].tag /\ db'[x].valid = db[x].valid
    BY <1>4, <2>1 DEF RowFits, Lawful
  <2>5. x \in Unversioned => x \in ApiKeys \cup InboundEvents
    BY KeyTables
  <2> QED
    BY <1>6, <2>2, <2>3, <2>4, <2>5 DEF Merges
<1> QED
  BY <1>1, <1>2, <1>3, <1>5, <1>6 DEF WriteOk

\* What the others have planned still fits after a commit, and what r goes on with.
LEMMA CommitPlans ==
  ASSUME OpsInv, NEW r \in Requests, Commit(r)
  PROVE  PlansFit'
<1>1. /\ \A ids : Among(ids)' = Among(ids)
      /\ \A x \in DOMAIN db \cap Lasting : db[x] # Absent => db'[x] # Absent
  BY CommitLasts
<1>2. ASSUME NEW q \in Requests, q # r, req'[q] = req[q], NEW p, p = req[q]
      PROVE  Fits(p)'
  <2>1. Fits(p)
    BY <1>2 DEF OpsInv, PlansFit
  <2>2. CASE p.pc = "flush"
    <3>1. Flushing(q) /\ FlushFits(p)
      BY <1>2, <2>1, <2>2 DEF Flushing, Fits
    <3>2. \A x \in DOMAIN p.writes : WriteOk(x, p.loaded[x], p.writes[x])'
      BY <1>2, <3>1, CommitWrites
    <3>3. req'[q] # Doomed
      BY <1>2, <2>2 DEF Doomed
    <3>4. \A n \in DOMAIN p.writes \cap Notifications : n \notin DOMAIN req[r].writes
      <4>1. \A n \in Notifications : n \notin Unversioned
        BY KeyTables
      <4> QED
        BY <1>2, <3>1, <3>3, <4>1, Committed
    <3>5. \A n \in DOMAIN p.writes \cap Notifications : AttemptsFor(n)' = AttemptsFor(n)
      BY <3>4, CommitAttempts
    <3>6. AttemptsTold(p.loaded, p.writes)'
      BY <3>1, <3>5 DEF FlushFits, AttemptsTold
    <3>7. GoesOn(p)'
      BY <1>1, <3>1 DEF FlushFits, GoesOn
    <3>8. EntriesMove(p.loaded, p.writes)
      BY <3>1 DEF FlushFits
    <3> QED
      BY <2>2, <3>2, <3>6, <3>7, <3>8 DEF Fits, FlushFits
  <2>3. CASE p.pc = "refreshing"
    BY <1>1, <2>1, <2>3 DEF Fits, Among, Lasting
  <2>4. CASE p.pc \notin {"flush", "refreshing"}
    BY <1>1, <2>1, <2>4 DEF Fits
  <2> QED
    BY <2>2, <2>3, <2>4
<1>3. ASSUME NEW p, p = req[r].then PROVE Fits(p)'
  <2>1. GoesOn(req[r])
    BY Committed DEF FlushFits
  <2>2. CASE p.pc = "idle"
    BY <2>2 DEF Fits
  <2>3. CASE p.pc = "authenticated" /\ p.key \in Among(ApiKeys)
    BY <1>1, <2>3 DEF Fits
  <2>4. CASE p.pc = "refreshing" /\ p.token \in DOMAIN req[r].writes \cap RefreshTokens
    <3>1. RowFits(p.token, db[p.token], db'[p.token]) /\ p.token \in DOMAIN db
      BY <2>4, Committed
    <3>2. db'[p.token] # Absent
      BY <2>4, <3>1 DEF RowFits, Lawful, Lasting
    <3> QED
      BY <1>1, <2>4, <3>1, <3>2 DEF Fits, Among
  <2> QED
    BY <1>3, <2>1, <2>2, <2>3, <2>4 DEF GoesOn
<1>4. ASSUME NEW q \in Requests, NEW p, p = req'[q] PROVE Fits(p)'
  <2>1. CASE q = r
    BY <1>3, <1>4, <2>1, Committed
  <2>2. CASE q # r /\ req'[q] = req[q]
    BY <1>2, <1>4, <2>2
  <2>3. CASE req'[q] = Doomed
    BY <1>4, <2>3 DEF Fits, Doomed
  <2> QED
    BY <2>1, <2>2, <2>3, Committed
<1> QED
  BY <1>4 DEF PlansFit

\* After a commit, r is not flushing and nobody else has begun to.
LEMMA CommitFlushing ==
  ASSUME OpsInv, NEW r \in Requests, Commit(r), NEW q \in Requests, req'[q].pc = "flush"
  PROVE  q # r /\ Flushing(q) /\ req'[q] = req[q]
<1>1. req[r].then.pc # "flush"
  BY Committed DEF FlushFits, GoesOn
<1>2. Doomed.pc # "flush"
  BY DEF Doomed
<1> QED
  BY <1>1, <1>2, Committed DEF Flushing

\* Who inserts a row into a table without versions stays the only one who writes it.
LEMMA CommitFresh ==
  ASSUME OpsInv, NEW r \in Requests, Commit(r)
  PROVE  FreshKept'
<1>1. ASSUME NEW p \in Requests, NEW q \in Requests, p # q,
             req'[p].pc = "flush", req'[q].pc = "flush"
      PROVE  \A x \in DOMAIN req'[p].writes \cap DOMAIN req'[q].writes \cap Unversioned :
               req'[p].loaded[x] # Absent
  <2>1. /\ Flushing(p) /\ req'[p] = req[p] /\ Flushing(q) /\ req'[q] = req[q]
    BY <1>1, CommitFlushing
  <2> QED
    BY <1>1, <2>1 DEF OpsInv, FreshKept
<1> QED
  BY <1>1 DEF FreshKept, Flushing

\* A commit that consumes a token leaves one who will bring the next; one that issues a
\* token was the one who brought it.
LEMMA CommitBearer ==
  ASSUME OpsInv, NEW r \in Requests, Commit(r)
  PROVE  OneBearer'
<1> DEFINE w == DOMAIN req[r].writes
<1> SUFFICES ASSUME NEW c \in RefreshTokens
             PROVE  /\ \A t, u \in Among(RefreshTokens)' :
                          LiveToken(t, c)' /\ LiveToken(u, c)' => t = u
                    /\ \A t \in Among(RefreshTokens)', q \in Requests :
                         ~(LiveToken(t, c)' /\ Bears(req[q], c)')
                    /\ \A p, q \in Requests : Bears(req[p], c)' /\ Bears(req[q], c)' => p = q
                    /\ \A q \in Requests : Flushing(q)' /\ Bears(req[q], c)' =>
                         \A t, u \in DOMAIN req'[q].writes \cap RefreshTokens : t = u
  BY DEF OneBearer
<1>1. /\ \A t, u \in Among(RefreshTokens) : LiveToken(t, c) /\ LiveToken(u, c) => t = u
      /\ \A t \in Among(RefreshTokens), q \in Requests : ~(LiveToken(t, c) /\ Bears(req[q], c))
      /\ \A p, q \in Requests : Bears(req[p], c) /\ Bears(req[q], c) => p = q
      /\ \A q \in Requests : Flushing(q) /\ Bears(req[q], c) =>
           \A t, u \in DOMAIN req[q].writes \cap RefreshTokens : t = u
  BY DEF OpsInv, OneBearer
<1>2. /\ \A x \in DOMAIN db : x \notin w => db'[x] = db[x]
      /\ w \subseteq DOMAIN db
      /\ \A ids : Among(ids)' = Among(ids)
      /\ Flushing(r) /\ GoesOn(req[r]) /\ req'[r] = req[r].then
  BY Committed, CommitLasts DEF FlushFits
<1>3. ASSUME NEW t \in w \cap RefreshTokens
      PROVE  /\ db'[t] = req[r].writes[t] /\ req[r].loaded[t] = db[t]
             /\ db[t] # Absent => db'[t].chain = db[t].chain /\ db'[t].status = "spent"
  <2>1. t \notin Unversioned
    BY KeyTables
  <2> QED
    BY <2>1, Committed DEF RowFits, Lawful
<1>4. ASSUME NEW t \in Among(RefreshTokens), LiveToken(t, c)'
      PROVE  (t \notin w /\ LiveToken(t, c)) \/ (t \in w /\ Bears(req[r], c))
  <2>1. t \in RefreshTokens /\ t \in DOMAIN db /\ db'[t].status = "live" /\ db'[t].chain = c
    BY <1>4 DEF LiveToken, Among
  <2>2. CASE t \in w
    BY <1>2, <1>3, <2>1, <2>2 DEF Bears, Flushing
  <2>3. CASE t \notin w
    BY <1>2, <2>1, <2>3 DEF LiveToken, Among
  <2> QED
    BY <2>2, <2>3
<1>5. ASSUME Bears(req[r], c)'
      PROVE  /\ ~Bears(req[r], c)
             /\ \E t \in w \cap Among(RefreshTokens) : LiveToken(t, c) /\ ~LiveToken(t, c)'
  <2>1. req'[r].pc \in {"refreshing", "flush"}
    BY <1>5 DEF Bears
  <2>2. req'[r].pc # "flush"
    BY CommitFlushing
  <2>3. PICK t \in w \cap RefreshTokens :
          /\ t = req[r].then.token /\ req[r].loaded[t].status = "live"
          /\ req[r].writes[t].status = "spent" /\ w = {t}
    BY <1>2, <2>1, <2>2 DEF GoesOn
  <2>4. db'[t].chain = c
    BY <1>2, <1>5, <2>2, <2>3 DEF Bears
  <2>5. db[t].status = "live" /\ db[t] # Absent
    BY <1>3, <2>3 DEF Absent
  <2>6. db[t].chain = c /\ db'[t].status = "spent"
    BY <1>3, <2>3, <2>4, <2>5
  <2>7. LiveToken(t, c) /\ ~LiveToken(t, c)' /\ t \in Among(RefreshTokens)
    BY <1>2, <2>3, <2>5, <2>6 DEF LiveToken, Among
  <2>8. ~Bears(req[r], c)
    BY <1>2, <2>3 DEF Bears, Flushing
  <2> QED
    BY <2>3, <2>7, <2>8
<1>6. ASSUME NEW q \in Requests, q # r, Bears(req[q], c)'
      PROVE  Bears(req[q], c) /\ req'[q] = req[q]
  <2>1. req'[q] = req[q]
    BY <1>6, Committed DEF Bears, Doomed
  <2>2. CASE req[q].pc = "refreshing"
    <3> DEFINE t == req[q].token
    <3>1. t \in Among(RefreshTokens) /\ db[t] # Absent
      BY <2>2 DEF OpsInv, PlansFit, Fits
    <3>2. db'[t].chain = c
      BY <1>6, <2>1, <2>2 DEF Bears
    <3>3. db'[t].chain = db[t].chain
      BY <1>2, <1>3, <3>1 DEF Among
    <3> QED
      BY <2>1, <2>2, <3>2, <3>3 DEF Bears
  <2>3. CASE req[q].pc # "refreshing"
    BY <1>6, <2>1, <2>3 DEF Bears
  <2> QED
    BY <2>1, <2>2, <2>3
<1> HIDE DEF w, Bears, LiveToken
<1>7. \A t, u \in Among(RefreshTokens) : LiveToken(t, c)' /\ LiveToken(u, c)' => t = u
  <2>1. ASSUME NEW t \in Among(RefreshTokens), NEW u \in Among(RefreshTokens),
               LiveToken(t, c)', LiveToken(u, c)'
        PROVE  t = u
    <3>1. CASE t \in w /\ u \in w
      BY <1>1, <1>2, <1>4, <2>1, <3>1 DEF w, Among
    <3>2. CASE t \notin w \/ u \notin w
      BY <1>1, <1>4, <2>1, <3>2
    <3> QED
      BY <3>1, <3>2
  <2> QED
    BY <2>1
<1>8. ASSUME NEW t \in Among(RefreshTokens), NEW q \in Requests,
             LiveToken(t, c)', Bears(req[q], c)'
      PROVE  FALSE
  <2>1. CASE q = r
    <3>1. PICK u \in w \cap Among(RefreshTokens) : LiveToken(u, c) /\ ~LiveToken(u, c)'
      BY <1>5, <1>8, <2>1
    <3> QED
      BY <1>1, <1>4, <1>5, <1>8, <2>1, <3>1
  <2>2. CASE q # r
    BY <1>1, <1>4, <1>6, <1>8, <2>2
  <2> QED
    BY <2>1, <2>2
<1>9. ASSUME NEW p \in Requests, NEW q \in Requests, Bears(req[p], c)', Bears(req[q], c)'
      PROVE  p = q
  BY <1>1, <1>5, <1>6, <1>9
<1>10. ASSUME NEW q \in Requests, req'[q].pc = "flush", Bears(req[q], c)'
       PROVE  \A t, u \in DOMAIN req'[q].writes \cap RefreshTokens : t = u
  BY <1>1, <1>6, <1>10, CommitFlushing
<1> QED
  BY <1>2, <1>7, <1>8, <1>9, <1>10 DEF Flushing

\* A commit keeps the whole invariant.
LEMMA CommitOps ==
  ASSUME OpsInv, NEW r \in Requests, Commit(r)
  PROVE  OpsInv'
BY CommitKeeps, CommitRowsAgree, CommitIndexed, CommitAccounted, CommitPlans, CommitFresh,
   CommitBearer DEF OpsInv, DbInv

\* Every step keeps the invariant.
LEMMA NextOps == OpsInv /\ [OperationsNext]_rows => OpsInv'
<1>1. ASSUME OpsInv, OperationsNext PROVE OpsInv'
  <2>1. PICK r \in Requests : OperationsStep(r) \/ Commit(r) \/ Abort(r)
    BY <1>1 DEF OperationsNext
  <2> QED
    BY <1>1, <2>1, StepOps, CommitOps, AbortOps
<1>2. ASSUME OpsInv, UNCHANGED rows PROVE OpsInv'
  <2>1. db' = db /\ req' = req
    BY <1>2 DEF rows
  <2>2. RowsInv'
    BY <1>2, StepKeeps DEF OpsInv
  <2>3. DbInv'
    BY <1>2, <2>1, SameRows DEF OpsInv
  <2>4. PlansFit'
    BY <1>2, <2>1, SameRows DEF OpsInv, PlansFit
  <2>5. FreshKept'
    BY <1>2, <2>1 DEF OpsInv, FreshKept, Flushing
  <2>6. OneBearer'
    BY <1>2, <2>1 DEF OpsInv, OneBearer, LiveToken, Bears, Flushing, Among
  <2> QED
    BY <2>2, <2>3, <2>4, <2>5, <2>6 DEF OpsInv
<1> QED
  BY <1>1, <1>2

\* What operations write fits together, always.
THEOREM OperationsAgree == OperationsSpec => []OpsInv
BY InitOps, NextOps, PTL DEF OperationsSpec

-----------------------------------------------------------------------------
(* What the services promise *)

\* Two rows that occupy one entry are one row.
LEMMA OneOccupant ==
  ASSUME OpsInv, NEW x \in DOMAIN db, NEW y \in DOMAIN db,
         NEW i, i \in EntriesOf(x, db[x]), i \in EntriesOf(y, db[y])
  PROVE  x = y
<1>1. db[i] = Entry(x) /\ db[i] = Entry(y)
  BY DEF OpsInv, DbInv, Indexed
<1>2. Entry(x).of = x /\ Entry(y).of = y
  BY DEF Entry
<1> QED
  BY <1>1, <1>2

\* Equipment and compliance: rows have their types, availability agrees with status,
\* no permit is in force that nobody approved, checks block when they should, and what
\* was dispatched had the permit and the escort its unit asked for.
THEOREM ComplianceHolds == OperationsSpec => []ComplianceInv
<1>1. OpsInv => ComplianceInv
  <2> SUFFICES ASSUME OpsInv PROVE ComplianceInv
    OBVIOUS
  <2>1. DOMAIN db \in Scopes /\ RowsSound /\ RowsRest
    BY DEF OpsInv, DbInv
  <2>2. \A x \in DOMAIN db : Exists(x) => db[x] # Absent /\ Sound(x, db[x])
    BY <2>1, Typed
  <2>3. EquipmentTyped /\ ComplianceTyped
    BY <2>2 DEF Sound, EquipmentTyped, ComplianceTyped, Among
  <2>4. AvailabilityAgrees
    BY <2>2 DEF Sound, AvailabilityAgrees, Among
  <2>5. PermitsApproved /\ ChecksConsistent
    BY <2>2 DEF Sound, PermitsApproved, ChecksConsistent, Among
  <2>6. DispatchedUnderPermit
    BY <2>1, <2>2 DEF RowsRest, Rests, DispatchedUnderPermit, Among
  <2> QED
    BY <2>1, <2>3, <2>4, <2>5, <2>6 DEF ComplianceInv, TypeOK
<1> QED
  BY <1>1, OperationsAgree, PTL

\* The columns of a unit agree, whichever of the operations that race on it came last.
THEOREM AvailabilityIsKept == OperationsSpec => []AvailabilityAgrees
<1>1. ComplianceInv => AvailabilityAgrees
  BY DEF ComplianceInv
<1> QED
  BY <1>1, ComplianceHolds, PTL

\* What the gate lets pass, an evaluation would not block: the two codings of the rule
\* agree in every state, whatever permits and escorts there are.
THEOREM GateAgreesWithEvaluation == OperationsSpec => []GateImpliesVerdicts
<1>1. GateImpliesVerdicts
  <2> SUFFICES ASSUME NEW s \in Among(Shipments), NEW inTime \in BOOLEAN, Cleared(s, inTime),
                      NEW kind \in DOMAIN Verdicts(s)
               PROVE  Verdicts(s)[kind] # "failed"
    BY DEF GateImpliesVerdicts
  <2>1. /\ kind \in {"permit_required", "oversize"} => NeedsPermit(s)
        /\ kind = "escort_required" => "escort" \in Needs(s)
        /\ Verdicts(s)[kind] =
             CASE kind \in {"permit_required", "oversize"} -> Passed(ActivePermits(s) # {})
               [] kind = "escort_required" -> Passed(ActiveEscorts(s) # {})
               [] OTHER -> "warning"
    BY DEF Verdicts, NeedsPermit
  <2>2. "escort" \in Needs(s) \/ NeedsPermit(s) => db[s].unit # None
    BY DEF Needs, NeedsPermit
  <2>3. CASE kind \in {"permit_required", "oversize"}
    <3>1. ActivePermits(s) # {}
      BY <2>1, <2>2, <2>3 DEF Cleared
    <3> QED
      BY <2>1, <2>3, <3>1 DEF Passed
  <2>4. CASE kind = "escort_required"
    <3>1. ActiveEscorts(s) # {}
      BY <2>1, <2>2, <2>4 DEF Cleared
    <3> QED
      BY <2>1, <2>4, <3>1 DEF Passed
  <2>5. CASE kind \notin {"permit_required", "oversize", "escort_required"}
    BY <2>1, <2>5
  <2> QED
    BY <2>3, <2>4, <2>5
<1> QED
  BY <1>1, PTL

\* Partners: names are distinct, keys say when they were revoked, and what was accepted
\* had a valid signature.
THEOREM PartnersHold == OperationsSpec => []PartnersInv
<1>1. OpsInv => PartnersInv
  <2> SUFFICES ASSUME OpsInv PROVE PartnersInv
    OBVIOUS
  <2>1. \A x \in DOMAIN db : Exists(x) => db[x] # Absent /\ Sound(x, db[x])
    BY Typed DEF OpsInv, DbInv
  <2>2. PartnersTyped /\ KeysConsistent /\ ProcessedWasSigned
    BY <2>1 DEF Sound, PartnersTyped, KeysConsistent, ProcessedWasSigned, Among
  <2>3. PartnerNamesDistinct
    <3> SUFFICES ASSUME NEW p \in Among(Partners), NEW q \in Among(Partners),
                        Exists(p), Exists(q), db[p].name = db[q].name
                 PROVE  p = q
      BY DEF PartnerNamesDistinct
    <3>1. db[p].name \in EntriesOf(p, db[p]) /\ db[p].name \in EntriesOf(q, db[q])
      BY <2>1 DEF EntriesOf, Among
    <3> QED
      BY <3>1, OneOccupant DEF Among
  <2> QED
    BY <2>2, <2>3 DEF PartnersInv
<1> QED
  BY <1>1, OperationsAgree, PTL

\* An event a partner sends twice, or twice at the same time, is kept once: the index
\* decides, although the question was asked before the other one committed.
THEOREM EventsAreReceivedOnce == OperationsSpec => []ReceivedOnce
<1>1. OpsInv => ReceivedOnce
  <2> SUFFICES ASSUME OpsInv, NEW e \in Among(InboundEvents), NEW f \in Among(InboundEvents),
                      Exists(e), Exists(f), db[e].key = db[f].key, db[e].tag = db[f].tag
               PROVE  e = f
    BY DEF ReceivedOnce
  <2>1. db[e] # Absent /\ db[f] # Absent
    BY Typed DEF OpsInv, DbInv, Among
  <2>2. /\ Slot(db[e].key, db[e].tag) \in EntriesOf(e, db[e])
        /\ Slot(db[f].key, db[f].tag) \in EntriesOf(f, db[f])
    BY <2>1, KeyTables DEF EntriesOf, Among
  <2> QED
    BY <2>2, OneOccupant DEF Among
<1> QED
  BY <1>1, OperationsAgree, PTL

\* Notifications: one for each key, with attempts numbered without gap or double and the
\* failed ones counted.
THEOREM NotificationsHold == OperationsSpec => []NotificationsInv
<1>1. OpsInv => NotificationsInv
  <2> SUFFICES ASSUME OpsInv PROVE NotificationsInv
    OBVIOUS
  <2>1. \A x \in DOMAIN db : Exists(x) => db[x] # Absent /\ Sound(x, db[x])
    BY Typed DEF OpsInv, DbInv
  <2>2. NotificationsTyped
    BY <2>1 DEF Sound, NotificationsTyped, Among
  <2>3. OneForEachKey
    <3> SUFFICES ASSUME NEW m \in Among(Notifications), NEW n \in Among(Notifications),
                        Exists(m), Exists(n), db[m].key = db[n].key
                 PROVE  m = n
      BY DEF OneForEachKey
    <3>1. db[m].key \in EntriesOf(m, db[m]) /\ db[m].key \in EntriesOf(n, db[n])
      BY <2>1, KeyTables DEF EntriesOf, Among
    <3> QED
      BY <3>1, OneOccupant DEF Among
  <2>4. AttemptsAccounted
    BY DEF OpsInv, DbInv, Accounted
  <2> QED
    BY <2>2, <2>3, <2>4 DEF NotificationsInv
<1> QED
  BY <1>1, OperationsAgree, PTL

\* What was sent or read was delivered by exactly one attempt, and nothing else was.
THEOREM DeliveriesHappenOnce == OperationsSpec => []DeliveredOnce
<1>1. OpsInv => DeliveredOnce
  BY DEF OpsInv, DbInv, Accounted
<1> QED
  BY <1>1, OperationsAgree, PTL

\* Access: codes name one row of their table, a user has one profile, and a login at
\* most one token that works.
THEOREM AccessHolds == OperationsSpec => []AccessInv
<1>1. OpsInv => AccessInv
  <2> SUFFICES ASSUME OpsInv PROVE AccessInv
    OBVIOUS
  <2>1. \A x \in DOMAIN db : Exists(x) => db[x] # Absent /\ Sound(x, db[x])
    BY Typed DEF OpsInv, DbInv
  <2>2. AccessTyped
    BY <2>1 DEF Sound, AccessTyped, Among
  <2>3. ASSUME NEW table \in {Accounts, Drivers, Vehicles, Warehouses},
               NEW x \in Among(table), NEW y \in Among(table),
               Exists(x), Exists(y), db[x].code = db[y].code
        PROVE  x = y
    <3>1. \A z \in Among(table) : Exists(z) => db[z].code \in EntriesOf(z, db[z])
      <4> SUFFICES ASSUME NEW z \in Among(table), Exists(z)
                   PROVE  db[z].code \in EntriesOf(z, db[z])
        OBVIOUS
      <4>1. z \in Accounts \cup Drivers \cup Vehicles \cup Warehouses /\ db[z] # Absent
        BY <2>1 DEF Among
      <4> QED
        BY <4>1, KeyTables DEF EntriesOf
    <3> QED
      BY <2>3, <3>1, OneOccupant DEF Among
  <2>4. ASSUME NEW d \in Among(Drivers), NEW e \in Among(Drivers),
               Exists(d), Exists(e), db[d].user = db[e].user
        PROVE  d = e
    <3>1. /\ Profile(db[d].user) \in EntriesOf(d, db[d])
          /\ Profile(db[e].user) \in EntriesOf(e, db[e])
      BY <2>1, <2>4, KeyTables DEF EntriesOf, Among
    <3> QED
      BY <2>4, <3>1, OneOccupant DEF Among
  <2>5. OneLiveToken
    <3> SUFFICES ASSUME NEW t \in Among(RefreshTokens), NEW u \in Among(RefreshTokens),
                        InStatus(t, {"live"}), InStatus(u, {"live"}), db[t].chain = db[u].chain
                 PROVE  t = u
      BY DEF OneLiveToken
    <3>1. db[t].chain \in RefreshTokens
      BY <2>2 DEF AccessTyped, TokenRows, InStatus, Live
    <3>2. LiveToken(t, db[t].chain) /\ LiveToken(u, db[t].chain)
      BY DEF LiveToken, InStatus
    <3> QED
      BY <3>1, <3>2 DEF OpsInv, OneBearer
  <2> QED
    BY <2>2, <2>3, <2>4, <2>5 DEF AccessInv, KeysIdentify
<1> QED
  BY <1>1, OperationsAgree, PTL

\* What a step does to a row.
LEMMA RowSteps ==
  ASSUME OpsInv, [OperationsNext]_rows, NEW x \in DOMAIN db
  PROVE  db'[x] = db[x] \/ RowFits(x, db[x], db'[x])
<1>1. CASE OperationsNext
  <2>1. PICK r \in Requests : OperationsStep(r) \/ Commit(r) \/ Abort(r)
    BY <1>1 DEF OperationsNext
  <2>2. CASE OperationsStep(r)
    BY <2>2, StepTakesUp DEF OpsInv, TakeUp
  <2>3. CASE Commit(r)
    BY <2>3, CommitLasts
  <2>4. CASE Abort(r)
    BY <2>4 DEF Abort
  <2> QED
    BY <2>1, <2>2, <2>3, <2>4
<1>2. CASE UNCHANGED rows
  BY <1>2 DEF rows
<1> QED
  BY <1>1, <1>2

\* What is decided stays decided, whoever had loaded the row before.
THEOREM DecisionsStand == OperationsSpec => DecidedStaysDecided
<1> DEFINE Stand ==
      /\ \A p \in Among(Permits) :
           db[p].status \in TerminalPermits => [db'[p] EXCEPT !.deleted = db[p].deleted] = db[p]
      /\ \A u \in Among(Units) :
           db[u].status = "decommissioned" =>
             [db'[u] EXCEPT !.deleted = db[u].deleted] = db[u]
      /\ \A e \in Among(Escorts) : db[e].status = "cancelled" => db'[e] = db[e]
      /\ \A x \in Among(Certifications) : db[x].status = "expired" => db'[x] = db[x]
      /\ \A k \in Among(Checks) :
           db[k].status = "failed" /\ db'[k] # db[k] => db'[k].status = "overridden"
<1>1. ASSUME OpsInv, [OperationsNext]_rows PROVE Stand
  <2>1. ASSUME NEW p \in Among(Permits), db[p].status \in TerminalPermits
        PROVE  [db'[p] EXCEPT !.deleted = db[p].deleted] = db[p]
    <3>1. CASE db'[p] = db[p]
      <4>1. db[p] # Absent /\ p \in DOMAIN db /\ RowsSound
        BY <1>1, <2>1 DEF OpsInv, DbInv, Among, TerminalPermits, Absent
      <4>2. db[p] \in PermitRows
        BY <4>1, Typed DEF Sound, Among
      <4> QED
        BY <3>1, <4>2 DEF PermitRows
    <3>2. CASE RowFits(p, db[p], db'[p])
      BY <2>1, <3>2 DEF RowFits, Lawful, Among
    <3> QED
      BY <1>1, <3>1, <3>2, RowSteps DEF Among
  <2>2. ASSUME NEW u \in Among(Units), db[u].status = "decommissioned"
        PROVE  [db'[u] EXCEPT !.deleted = db[u].deleted] = db[u]
    <3>1. CASE db'[u] = db[u]
      <4>1. db[u] # Absent /\ u \in DOMAIN db /\ RowsSound
        BY <1>1, <2>2 DEF OpsInv, DbInv, Among, Absent
      <4>2. db[u] \in UnitRows
        BY <4>1, Typed DEF Sound, Among
      <4> QED
        BY <3>1, <4>2 DEF UnitRows
    <3>2. CASE RowFits(u, db[u], db'[u])
      BY <2>2, <3>2 DEF RowFits, Lawful, Among
    <3> QED
      BY <1>1, <3>1, <3>2, RowSteps DEF Among
  <2> QED
    BY <1>1, <2>1, <2>2, RowSteps DEF RowFits, Lawful, Among
<1>2. OpsInv /\ [OperationsNext]_rows => [Stand]_rows
  BY <1>1
<1> QED
  BY <1>2, OperationsAgree, PTL DEF OperationsSpec, DecidedStaysDecided

\* A revoked key stays revoked and stays its partner's, although its row is written by
\* requests that do not see each other.
THEOREM RevocationsStand == OperationsSpec => KeysStayRevoked
<1> DEFINE Stand ==
      \A k \in Among(ApiKeys) : db[k].status = "revoked" =>
        db'[k].status = "revoked" /\ db'[k].partner = db[k].partner
<1>1. ASSUME OpsInv, [OperationsNext]_rows PROVE Stand
  <2> SUFFICES ASSUME NEW k \in Among(ApiKeys), db[k].status = "revoked"
               PROVE  db'[k].status = "revoked" /\ db'[k].partner = db[k].partner
    OBVIOUS
  <2>1. db[k] # Absent
    BY DEF Absent
  <2> QED
    BY <1>1, <2>1, RowSteps DEF RowFits, Lawful, Among
<1>2. OpsInv /\ [OperationsNext]_rows => [Stand]_rows
  BY <1>1
<1> QED
  BY <1>2, OperationsAgree, PTL DEF OperationsSpec, KeysStayRevoked
=============================================================================
