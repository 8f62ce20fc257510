--------------------------- MODULE ShipmentProofs ---------------------------
(***************************************************************************)
(* Proofs about Shipment for every number of shipments, requests, drivers  *)
(* and so on.  The argument: a version number names one row content, so a  *)
(* request whose loaded version is still current holds the current row     *)
(* (SnapshotsCurrent); whatever it planned from that row (SoundPlans) is   *)
(* then what happens to the row.                                           *)
(***************************************************************************)
EXTENDS Shipment, FiniteSetTheorems, WellFoundedInduction, TLAPS

\* A request that loads a row and plans a sound successor keeps the invariant.
\* (_transition and the other handlers, up to their flush.)
LEMMA LoadInv ==
  ASSUME IInv, NEW r \in Requests, NEW s \in Shipments,
         NEW pc \in {"gated", "flush"}, NEW op \in Operations, NEW next \in Rows,
         NEW judged \in EquipmentUnits \cup {None},
         pc = "flush" => SoundPlan(ship[s], next),
         op = "assign" => pc = "flush" /\ judged = ship[s].equipment,
         req' = [req EXCEPT ![r] = [pc |-> pc, op |-> op, s |-> s, snap |-> ship[s],
                                    next |-> next, judged |-> judged]],
         missed' = [missed EXCEPT ![r] = {}],
         UNCHANGED <<ship, told, world>>
  PROVE  IInv'
<1> DEFINE rec == [pc |-> pc, op |-> op, s |-> s, snap |-> ship[s],
                   next |-> next, judged |-> judged]
<1> USE DEF IInv
<1>1. rec \in InFlight
  BY DEF TypeOK, InFlight
<1>2. TypeOK'
  BY <1>1 DEF TypeOK, world
<1>3. \A q \in Requests : req'[q] = IF q = r THEN rec ELSE req[q]
  BY DEF TypeOK
<1>4. SnapshotsCurrent'
  <2> SUFFICES ASSUME NEW q \in Requests, Busy(q)'
               PROVE  /\ req'[q].snap.version <= ship'[req'[q].s].version
                      /\ req'[q].snap.version = ship'[req'[q].s].version
                           => req'[q].snap = ship'[req'[q].s]
    BY DEF SnapshotsCurrent
  <2>1. CASE q = r
    <3>1. ship[s].version \in Nat
      BY DEF TypeOK, Rows
    <3> QED
      BY <1>3, <2>1, <3>1
  <2>2. CASE q # r
    BY <1>3, <2>2 DEF SnapshotsCurrent, Busy
  <2> QED
    BY <2>1, <2>2
<1>5. SoundPlans'
  <2> SUFFICES ASSUME NEW q \in Requests, Busy(q)', req'[q].pc = "flush"
               PROVE  SoundPlan(req'[q].snap, req'[q].next)
    BY DEF SoundPlans, SoundPlan, DriverBound, LegalStep, CanTransition
  <2>1. CASE q = r
    BY <1>3, <2>1
  <2>2. CASE q # r
    BY <1>3, <2>2 DEF SoundPlans, Busy
  <2> QED
    BY <2>1, <2>2
<1>6. AssignedHasDriver' /\ StreamTellsStatus'
  BY DEF AssignedHasDriver, StreamTellsStatus, DriverBound
<1>7. JudgedAsLoaded'
  BY <1>3 DEF JudgedAsLoaded, Busy
<1> QED
  BY <1>2, <1>4, <1>5, <1>6, <1>7

\* The same for the handlers, in the form they use.
LEMMA ToFlushInv ==
  ASSUME IInv, NEW r \in Requests, NEW s \in Shipments, NEW op \in Operations,
         NEW next \in Rows, NEW judged \in EquipmentUnits \cup {None},
         op = "assign" => judged = ship[s].equipment,
         SoundPlan(ship[s], next), ToFlush(r, op, s, next, judged)
  PROVE  IInv'
  BY LoadInv DEF ToFlush

\* What TypeOK says of one row, and the driver columns with it.
LEMMA RowFacts ==
  ASSUME IInv, NEW s \in Shipments
  PROVE  /\ ship[s] \in Rows
         /\ DriverBound(ship[s])
  BY DEF IInv, TypeOK, AssignedHasDriver

\* A plain status change (mark_ready, mark_delayed, deliver, fail, return, cancel).
LEMMA TransitionInv ==
  ASSUME IInv, NEW r \in Requests, NEW s \in Shipments, NEW op \in Operations \ {"assign"},
         NEW target \in {"ready", "delayed", "delivered", "failed", "returned", "cancelled"},
         Transition(r, op, s, target, ship[s])
  PROVE  IInv'
<1> DEFINE next == [ship[s] EXCEPT !.status = target]
<1>1. ship[s] \in Rows /\ DriverBound(ship[s])
  BY RowFacts
<1>2. CanTransition(ship[s].status, target) /\ ~ship[s].deleted
  BY DEF Transition, Live
<1>3. next \in Rows
  BY <1>1 DEF Rows, Statuses
<1>4. DriverBound(next)
  BY <1>1, <1>2 DEF DriverBound, Rows, CanTransition, Statuses, ALLOWED_TRANSITIONS,
                    ASSIGNED_STATES
<1>5. next = [ship[s] EXCEPT !.status = target, !.deleted = next.deleted]
  BY <1>1 DEF Rows
<1>6. SoundPlan(ship[s], next)
  BY <1>1, <1>2, <1>4, <1>5 DEF SoundPlan, LegalStep, CanTransition, Rows
<1>7. ToFlush(r, op, s, next, None)
  BY DEF Transition
<1> QED
  BY <1>3, <1>6, <1>7, ToFlushInv

\* create_shipment plans a CREATED row without a driver.
LEMMA CreateInv ==
  ASSUME IInv, NEW r \in Requests, NEW s \in Shipments, CreateShipment(r, s)
  PROVE  IInv'
<1>1. PICK o \in Warehouses, d \in Warehouses, e \in EquipmentUnits \cup {None}, l \in Loads :
        ToFlush(r, "create", s,
                [Absent EXCEPT !.status = "created", !.equipment = e,
                               !.origin = o, !.dest = d, !.load = l], None)
  BY DEF CreateShipment
<1> DEFINE next == [Absent EXCEPT !.status = "created", !.equipment = e,
                                  !.origin = o, !.dest = d, !.load = l]
<1>2. next \in Rows
  BY ShipmentAssumption DEF Rows, Absent, Statuses
<1>3. SoundPlan(ship[s], next)
  BY DEF CreateShipment, SoundPlan, LegalStep, DriverBound, Absent, TERMINAL_STATES,
         ASSIGNED_STATES
<1> QED
  BY <1>1, <1>2, <1>3, ToFlushInv DEF Operations

\* update_shipment touches neither the status nor the driver.
LEMMA UpdateInv ==
  ASSUME IInv, NEW r \in Requests, NEW s \in Shipments, UpdateShipment(r, s)
  PROVE  IInv'
<1>1. PICK o \in Warehouses \cup {ship[s].origin}, d \in Warehouses \cup {ship[s].dest},
           e \in EquipmentUnits \cup {ship[s].equipment}, l \in Loads \cup {ship[s].load} :
        ToFlush(r, "update", s, [ship[s] EXCEPT !.equipment = e, !.origin = o,
                                                !.dest = d, !.load = l], None)
  BY DEF UpdateShipment, Patched
<1> DEFINE next == [ship[s] EXCEPT !.equipment = e, !.origin = o, !.dest = d, !.load = l]
<1>2. ship[s] \in Rows /\ DriverBound(ship[s])
  BY RowFacts
<1>3. next \in Rows
  BY <1>2, ShipmentAssumption DEF Rows
<1>4. SoundPlan(ship[s], next)
  BY <1>2 DEF UpdateShipment, Live, SoundPlan, LegalStep, DriverBound, Rows
<1> QED
  BY <1>1, <1>3, <1>4, ToFlushInv DEF Operations

\* assign_shipment binds a driver (drivers are not NULL).
LEMMA AssignInv ==
  ASSUME IInv, NEW r \in Requests, NEW s \in Shipments, AssignShipment(r, s)
  PROVE  IInv'
<1>1. PICK d \in available, v \in active :
        /\ CanTransition(ship[s].status, "assigned")
        /\ ToFlush(r, "assign", s,
                   [ship[s] EXCEPT !.status = "assigned", !.driver = d, !.vehicle = v],
                   ship[s].equipment)
  BY DEF AssignShipment
<1> DEFINE next == [ship[s] EXCEPT !.status = "assigned", !.driver = d, !.vehicle = v]
<1>2. ship[s] \in Rows
  BY RowFacts
<1>3. d \in Drivers /\ v \in Vehicles /\ d # None
  BY ShipmentAssumption DEF IInv, TypeOK
<1>4. next \in Rows /\ ship[s].equipment \in EquipmentUnits \cup {None}
  BY <1>2, <1>3 DEF Rows, Statuses
<1>5. ship[s].status = "ready" /\ ~ship[s].deleted
  BY <1>1, <1>2 DEF AssignShipment, Live, CanTransition, Statuses, ALLOWED_TRANSITIONS
<1>6. SoundPlan(ship[s], next)
  BY <1>1, <1>2, <1>3, <1>5 DEF SoundPlan, LegalStep, DriverBound, Rows, TERMINAL_STATES
<1> QED
  BY <1>1, <1>4, <1>6, ToFlushInv DEF Operations

\* assign_driver_only binds a driver to a created or ready shipment.
LEMMA AcceptInv ==
  ASSUME IInv, NEW r \in Requests, NEW s \in Shipments, AssignDriverOnly(r, s)
  PROVE  IInv'
<1>1. PICK d \in available :
        ToFlush(r, "accept", s, [ship[s] EXCEPT !.status = "assigned", !.driver = d], None)
  BY DEF AssignDriverOnly
<1> DEFINE next == [ship[s] EXCEPT !.status = "assigned", !.driver = d]
<1>2. ship[s] \in Rows
  BY RowFacts
<1>3. d \in Drivers /\ d # None
  BY ShipmentAssumption DEF IInv, TypeOK
<1>4. next \in Rows
  BY <1>2, <1>3 DEF Rows, Statuses
<1>5. ship[s].status \in {"ready", "created"} /\ ~ship[s].deleted
  BY DEF AssignDriverOnly, Live
<1>6. LegalStep(ship[s].status, "assigned")
  BY <1>5 DEF LegalStep, CanTransition, Statuses, ALLOWED_TRANSITIONS
<1>7. next.status = "assigned" /\ next.driver = d
  BY <1>2 DEF Rows
<1>8. SoundPlan(ship[s], next)
  BY <1>3, <1>5, <1>6, <1>7 DEF SoundPlan, DriverBound, TERMINAL_STATES
<1> QED
  BY <1>1, <1>4, <1>8, ToFlushInv DEF Operations

\* The gate half of pickup and transit plans nothing yet.
LEMMA EnforceGateInv ==
  ASSUME IInv, NEW r \in Requests, NEW s \in Shipments, EnforceGate(r, s)
  PROVE  IInv'
<1>1. ship[s] \in Rows /\ ship[s].equipment \in EquipmentUnits \cup {None}
  BY RowFacts DEF Rows
<1>2. PICK op \in {"pickup", "transit"} :
        /\ req' = [req EXCEPT ![r] = [pc |-> "gated", op |-> op, s |-> s,
                                      snap |-> ship[s], next |-> ship[s],
                                      judged |-> ship[s].equipment]]
        /\ missed' = [missed EXCEPT ![r] = {}]
        /\ UNCHANGED <<ship, told, world>>
  BY DEF EnforceGate
<1>3. op \in Operations
  BY DEF Operations
<1>4. "gated" \in {"gated", "flush"} /\ "gated" # "flush"
  OBVIOUS
<1> HIDE DEF Operations
<1> QED
  BY <1>1, <1>2, <1>3, <1>4, LoadInv

\* The second half plans from the row loaded after the gate.
LEMMA MoveGatedInv ==
  ASSUME IInv, NEW r \in Requests, MoveGated(r)
  PROVE  IInv'
<1> DEFINE s == req[r].s
           target == IF req[r].op = "pickup" THEN "picked_up" ELSE "in_transit"
           next == [ship[s] EXCEPT !.status = target]
<1>1. req[r] \in InFlight
  BY DEF IInv, TypeOK, MoveGated, Busy
<1>2. /\ s \in Shipments
      /\ req[r].op \in Operations
      /\ req[r].op # "assign"
      /\ req[r].judged \in EquipmentUnits \cup {None}
  BY <1>1 DEF InFlight, MoveGated, IInv, JudgedAsLoaded
<1>3. ship[s] \in Rows /\ DriverBound(ship[s])
  BY <1>2, RowFacts
<1>4. CanTransition(ship[s].status, target) /\ ~ship[s].deleted
  BY DEF MoveGated, Live
<1>5. next \in Rows
  BY <1>3 DEF Rows, Statuses
<1>6. ship[s].status \in ASSIGNED_STATES /\ ship[s].status \notin TERMINAL_STATES
  BY <1>4 DEF CanTransition, Statuses, ALLOWED_TRANSITIONS, ASSIGNED_STATES, TERMINAL_STATES
<1>7. SoundPlan(ship[s], next)
  BY <1>3, <1>4, <1>6 DEF SoundPlan, LegalStep, DriverBound, Rows
<1>8. ToFlush(r, req[r].op, s, next, req[r].judged)
  BY DEF MoveGated
<1> QED
  BY <1>2, <1>5, <1>7, <1>8, ToFlushInv

\* delete_shipment and restore_shipment only flip the marker.
LEMMA DeleteRestoreInv ==
  ASSUME IInv, NEW r \in Requests, NEW s \in Shipments,
         DeleteShipment(r, s) \/ RestoreShipment(r, s)
  PROVE  IInv'
<1>1. ship[s] \in Rows /\ DriverBound(ship[s])
  BY RowFacts
<1> DEFINE Marked(b) == [ship[s] EXCEPT !.deleted = b]
<1>2. \A b \in BOOLEAN : Marked(b) \in Rows /\ DriverBound(Marked(b))
  BY <1>1 DEF Rows, DriverBound
<1>3. CASE DeleteShipment(r, s)
  <2>1. Marked(TRUE) = [ship[s] EXCEPT !.status = ship[s].status, !.deleted = Marked(TRUE).deleted]
    BY <1>1 DEF Rows
  <2>2. SoundPlan(ship[s], Marked(TRUE))
    BY <1>1, <1>2, <1>3, <2>1 DEF SoundPlan, LegalStep, DeleteShipment, Live, Rows
  <2> QED
    BY <1>2, <1>3, <2>2, ToFlushInv DEF DeleteShipment, Operations
<1>4. CASE RestoreShipment(r, s)
  <2>1. Marked(FALSE) = [ship[s] EXCEPT !.status = ship[s].status,
                                         !.deleted = Marked(FALSE).deleted]
    BY <1>1 DEF Rows
  <2>2. SoundPlan(ship[s], Marked(FALSE))
    BY <1>1, <1>2, <1>4, <2>1 DEF SoundPlan, LegalStep, Rows
  <2> QED
    BY <1>2, <1>4, <2>2, ToFlushInv DEF RestoreShipment, Operations
<1> QED
  BY <1>3, <1>4

\* What a commit does: the version check makes the loaded row the current one, so
\* the row becomes a sound successor of itself.
LEMMA CommitStep ==
  ASSUME IInv, NEW r \in Requests, Commit(r)
  PROVE  /\ req[r] \in InFlight
         /\ req[r].s \in Shipments
         /\ req[r].snap = ship[req[r].s]
         /\ ship[req[r].s] \in Rows
         /\ req[r].next \in Rows
         /\ SoundPlan(ship[req[r].s], req[r].next)
<1>1. req[r] \in InFlight
  BY DEF IInv, TypeOK, Commit, Busy
<1>2. req[r].s \in Shipments /\ req[r].next \in Rows
  BY <1>1 DEF InFlight
<1>3. req[r].snap = ship[req[r].s]
  BY DEF IInv, SnapshotsCurrent, Commit, VersionMatches
<1>4. SoundPlan(req[r].snap, req[r].next)
  BY DEF IInv, SoundPlans, Commit
<1>5. ship[req[r].s] \in Rows
  BY <1>2, RowFacts
<1> QED
  BY <1>1, <1>2, <1>3, <1>4, <1>5

\* A commit replaces the row by its sound successor and tells the stream of it.
LEMMA CommitInv ==
  ASSUME IInv, NEW r \in Requests, Commit(r)
  PROVE  IInv'
<1> DEFINE s == req[r].s
           before == req[r].snap
           after == [req[r].next EXCEPT !.version = before.version + 1]
<1>1. /\ s \in Shipments
      /\ before = ship[s]
      /\ before \in Rows
      /\ req[r].next \in Rows
      /\ SoundPlan(before, req[r].next)
  BY CommitStep
<1>2. /\ ship' = [ship EXCEPT ![s] = after]
      /\ told' = IF after.status = before.status THEN told
                 ELSE [told EXCEPT ![s] = [from |-> before.status, to |-> after.status]]
      /\ req' = [req EXCEPT ![r] = Idle]
      /\ missed' \in [Requests -> SUBSET Shipments]
      /\ UNCHANGED world
  BY <1>1 DEF Commit, Ends, IInv, TypeOK
<1>3. after \in Rows /\ after.version = before.version + 1 /\ before.version \in Nat
      /\ after.status = req[r].next.status /\ after.driver = req[r].next.driver
  BY <1>1 DEF Rows
<1>4. before.status \in Statuses \cup {"absent"} /\ after.status \in Statuses \cup {"absent"}
  BY <1>1, <1>3 DEF Rows
<1> HIDE DEF after, before, s
<1>5. \A t \in Shipments : ship'[t] = IF t = s THEN after ELSE ship[t]
  BY <1>2 DEF IInv, TypeOK
<1>6. \A q \in Requests : req'[q] = IF q = r THEN Idle ELSE req[q]
  BY <1>2 DEF IInv, TypeOK
<1>7. TypeOK'
  <2>1. ship' \in [Shipments -> Rows] /\ req' \in [Requests -> {Idle} \cup InFlight]
    BY <1>2, <1>3 DEF IInv, TypeOK
  <2>2. told' \in [Shipments -> [from : Statuses \cup {"absent"}, to : Statuses \cup {"absent"}]]
    BY <1>2, <1>4 DEF IInv, TypeOK
  <2> QED
    BY <1>2, <2>1, <2>2 DEF IInv, TypeOK, world
<1>8. SnapshotsCurrent'
  <2> SUFFICES ASSUME NEW q \in Requests, Busy(q)'
               PROVE  /\ req'[q].snap.version <= ship'[req'[q].s].version
                      /\ req'[q].snap.version = ship'[req'[q].s].version
                           => req'[q].snap = ship'[req'[q].s]
    BY DEF SnapshotsCurrent
  <2>1. q # r /\ Busy(q) /\ req'[q] = req[q]
    BY <1>6 DEF Busy
  <2>2. req[q] \in InFlight
    BY <2>1 DEF IInv, TypeOK, Busy
  <2>3. req[q].s \in Shipments /\ req[q].snap.version \in Nat
    BY <2>2 DEF InFlight, Rows
  <2>4. /\ req[q].snap.version <= ship[req[q].s].version
        /\ req[q].snap.version = ship[req[q].s].version => req[q].snap = ship[req[q].s]
    BY <2>1 DEF IInv, SnapshotsCurrent
  <2>5. CASE req[q].s = s
    BY <1>1, <1>3, <1>5, <2>1, <2>3, <2>4, <2>5
  <2>6. CASE req[q].s # s
    BY <1>5, <2>1, <2>3, <2>4, <2>6
  <2> QED
    BY <2>5, <2>6
<1>9. SoundPlans'
  <2> SUFFICES ASSUME NEW q \in Requests, Busy(q)', req'[q].pc = "flush"
               PROVE  SoundPlan(req'[q].snap, req'[q].next)
    BY DEF SoundPlans, SoundPlan, DriverBound, LegalStep, CanTransition
  <2> QED
    BY <1>6 DEF IInv, SoundPlans, Busy
<1>10. AssignedHasDriver'
  <2>1. DriverBound(after)
    BY <1>1, <1>3 DEF SoundPlan, DriverBound
  <2> QED
    BY <1>5, <2>1 DEF IInv, AssignedHasDriver, DriverBound
<1>11. StreamTellsStatus'
  BY <1>1, <1>2, <1>5 DEF IInv, TypeOK, StreamTellsStatus
<1>12. JudgedAsLoaded'
  BY <1>6 DEF IInv, JudgedAsLoaded, Busy
<1> QED
  BY <1>7, <1>8, <1>9, <1>10, <1>11, <1>12 DEF IInv

\* A request that ends without writing takes nothing with it.
LEMMA AbortInv ==
  ASSUME IInv, NEW r \in Requests, Abort(r)
  PROVE  IInv'
<1>1. \A q \in Requests : req'[q] = IF q = r THEN Idle ELSE req[q]
  BY DEF Abort, Ends, IInv, TypeOK
<1>2. TypeOK'
  BY DEF Abort, Ends, IInv, TypeOK, world
<1>3. SnapshotsCurrent'
  BY <1>1 DEF Abort, IInv, SnapshotsCurrent, Busy
<1>4. SoundPlans'
  <2> SUFFICES ASSUME NEW q \in Requests, Busy(q)', req'[q].pc = "flush"
               PROVE  SoundPlan(req'[q].snap, req'[q].next)
    BY DEF SoundPlans, SoundPlan, DriverBound, LegalStep, CanTransition
  <2> QED
    BY <1>1 DEF IInv, SoundPlans, Busy
<1>5. AssignedHasDriver' /\ StreamTellsStatus'
  BY DEF Abort, IInv, AssignedHasDriver, DriverBound, StreamTellsStatus
<1>6. JudgedAsLoaded'
  BY <1>1 DEF IInv, JudgedAsLoaded, Busy
<1> QED
  BY <1>2, <1>3, <1>4, <1>5, <1>6 DEF IInv

\* Steps that leave rows, events and requests alone keep the invariant.
LEMMA WorldInv ==
  ASSUME IInv, UNCHANGED <<ship, told, req, missed>>,
         available' \subseteq Drivers, active' \subseteq Vehicles,
         usable' \subseteq EquipmentUnits, cleared' \subseteq Shipments \X EquipmentUnits
  PROVE  IInv'
<1>1. TypeOK' /\ SnapshotsCurrent'
  BY DEF IInv, TypeOK, SnapshotsCurrent, Busy
<1>2. SoundPlans'
  BY DEF IInv, SoundPlans, Busy, SoundPlan, DriverBound, LegalStep, CanTransition
<1>3. AssignedHasDriver' /\ StreamTellsStatus' /\ JudgedAsLoaded'
  BY DEF IInv, AssignedHasDriver, DriverBound, StreamTellsStatus, JudgedAsLoaded, Busy
<1> QED
  BY <1>1, <1>2, <1>3 DEF IInv

\* Every handler keeps the invariant, up to its flush.
LEMMA HandleInv ==
  ASSUME IInv, NEW r \in Requests, NEW s \in Shipments, Handle(r, s)
  PROVE  IInv'
<1>1. CASE CreateShipment(r, s)
  BY <1>1, CreateInv
<1>2. CASE UpdateShipment(r, s)
  BY <1>2, UpdateInv
<1>3. CASE AssignShipment(r, s)
  BY <1>3, AssignInv
<1>4. CASE AssignDriverOnly(r, s)
  BY <1>4, AcceptInv
<1>5. CASE EnforceGate(r, s)
  BY <1>5, EnforceGateInv
<1>6. CASE DeleteShipment(r, s) \/ RestoreShipment(r, s)
  BY <1>6, DeleteRestoreInv
<1>7. CASE MarkReady(r, s) \/ MarkDelayed(r, s) \/ DeliverShipment(r, s)
           \/ FailShipment(r, s) \/ ReturnShipment(r, s) \/ CancelShipment(r, s)
  BY <1>7, TransitionInv DEF MarkReady, MarkDelayed, DeliverShipment, FailShipment,
                             ReturnShipment, CancelShipment, Operations
<1> QED
  BY <1>1, <1>2, <1>3, <1>4, <1>5, <1>6, <1>7 DEF Handle

\* Every step keeps the invariant.
LEMMA NextInv == IInv /\ [Next]_vars => IInv'
<1> SUFFICES ASSUME IInv, [Next]_vars
             PROVE  IInv'
  OBVIOUS
<1>1. CASE \E r \in Requests, s \in Shipments : Handle(r, s)
  BY <1>1, HandleInv
<1>2. CASE \E r \in Requests : MoveGated(r) \/ Commit(r) \/ Abort(r)
  BY <1>2, MoveGatedInv, CommitInv, AbortInv
<1>3. CASE \E d \in Drivers : SetAvailability(d)
  BY <1>3, WorldInv DEF SetAvailability, IInv, TypeOK
<1>4. CASE \E v \in Vehicles : SetVehicleStatus(v)
  BY <1>4, WorldInv DEF SetVehicleStatus, IInv, TypeOK
<1>5. CASE \E e \in EquipmentUnits : SetEquipmentStatus(e)
  BY <1>5, WorldInv DEF SetEquipmentStatus, IInv, TypeOK
<1>6. CASE \E s \in Shipments, e \in EquipmentUnits : SetCompliance(s, e)
  BY <1>6, WorldInv DEF SetCompliance, IInv, TypeOK
<1>7. CASE UNCHANGED vars
  BY <1>7, WorldInv DEF vars, world, IInv, TypeOK
<1> QED
  BY <1>1, <1>2, <1>3, <1>4, <1>5, <1>6, <1>7 DEF Next

\* No row, no event, no request.
LEMMA InitInv == Init => IInv
<1> SUFFICES ASSUME Init
             PROVE  IInv
  OBVIOUS
<1>1. Absent \in Rows /\ DriverBound(Absent)
  BY DEF Absent, Rows, DriverBound, ASSIGNED_STATES
<1>2. TypeOK
  BY <1>1 DEF Init, TypeOK
<1>3. AssignedHasDriver
  BY <1>1 DEF Init, AssignedHasDriver
<1>4. SnapshotsCurrent /\ SoundPlans /\ JudgedAsLoaded
  BY DEF Init, SnapshotsCurrent, SoundPlans, JudgedAsLoaded, Busy
<1>5. StreamTellsStatus
  BY DEF Init, StreamTellsStatus, Absent
<1> QED
  BY <1>2, <1>3, <1>4, <1>5 DEF IInv

-----------------------------------------------------------------------------
\* The inductive invariant holds in every reachable state.
THEOREM Invariance == Spec => []IInv
  BY InitInv, NextInv, PTL DEF Spec

\* Rows, events and requests keep their shape (all of ShipmentService).
THEOREM TypeCorrect == Spec => []TypeOK
  BY Invariance, PTL DEF IInv

\* The last status event of a shipment announces the status of its row.
THEOREM StreamCorrect == Spec => []StreamTellsStatus
  BY Invariance, PTL DEF IInv

\* A shipment in a committed status has a driver, an earlier one has none.
THEOREM DriverCorrect == Spec => []AssignedHasDriver
  BY Invariance, PTL DEF IInv

-----------------------------------------------------------------------------
(* Action properties: only a commit changes a row. *)

\* Only a commit changes the table or the event streams.
LEMMA OnlyCommitWrites ==
  ASSUME [Next]_vars
  PROVE  \/ UNCHANGED <<ship, told>>
         \/ \E r \in Requests : Commit(r)
<1>1. CASE \E r \in Requests, s \in Shipments : Handle(r, s)
  <2> PICK r \in Requests, s \in Shipments : Handle(r, s)
    BY <1>1
  <2>1. CASE CreateShipment(r, s) \/ UpdateShipment(r, s)
    BY <2>1 DEF CreateShipment, UpdateShipment, ToFlush
  <2>2. CASE AssignShipment(r, s) \/ AssignDriverOnly(r, s)
    BY <2>2 DEF AssignShipment, AssignDriverOnly, ToFlush
  <2>3. CASE EnforceGate(r, s)
    BY <2>3 DEF EnforceGate
  <2>4. CASE DeleteShipment(r, s) \/ RestoreShipment(r, s)
    BY <2>4 DEF DeleteShipment, RestoreShipment, ToFlush
  <2>5. CASE MarkReady(r, s) \/ MarkDelayed(r, s) \/ DeliverShipment(r, s)
             \/ FailShipment(r, s) \/ ReturnShipment(r, s) \/ CancelShipment(r, s)
    BY <2>5 DEF MarkReady, MarkDelayed, DeliverShipment, FailShipment, ReturnShipment,
                CancelShipment, Transition, ToFlush
  <2> QED
    BY <2>1, <2>2, <2>3, <2>4, <2>5 DEF Handle
<1>2. CASE \E r \in Requests : MoveGated(r) \/ Abort(r)
  BY <1>2 DEF MoveGated, ToFlush, Abort
<1>3. CASE UNCHANGED vars
  BY <1>3 DEF vars
<1> QED
  BY <1>1, <1>2, <1>3 DEF Next, SetAvailability, SetVehicleStatus, SetEquipmentStatus,
                          SetCompliance

\* A row that changes is a sound successor of itself, at the next version.
LEMMA RowStep ==
  ASSUME IInv, [Next]_vars, NEW s \in Shipments, ship'[s] # ship[s]
  PROVE  \E r \in Requests :
           /\ Commit(r)
           /\ Writes(r, s)
           /\ req[r].snap = ship[s]
           /\ ship[s] \in Rows
           /\ req[r].next \in Rows
           /\ SoundPlan(ship[s], req[r].next)
           /\ ship'[s] = [req[r].next EXCEPT !.version = ship[s].version + 1]
<1>1. PICK r \in Requests : Commit(r)
  BY OnlyCommitWrites
<1>2. /\ ship' = [ship EXCEPT ![req[r].s] =
                     [req[r].next EXCEPT !.version = req[r].snap.version + 1]]
      /\ req' = [req EXCEPT ![r] = Idle]
      /\ Busy(r)
  BY <1>1 DEF Commit, Ends
<1>3. req[r].s = s
  BY <1>2 DEF IInv, TypeOK
<1>4. ship'[s] = [req[r].next EXCEPT !.version = req[r].snap.version + 1] /\ req'[r] = Idle
  BY <1>2, <1>3 DEF IInv, TypeOK
<1>5. Writes(r, s)
  BY <1>2, <1>3, <1>4 DEF Writes
<1> QED
  BY <1>1, <1>3, <1>4, <1>5, CommitStep

\* No lost update (version_id_col on Shipment), for any number of requests.
THEOREM NoUpdateIsLost == Spec => NoLostUpdate
<1>1. IInv /\ [Next]_vars =>
        [\A s \in Shipments : ship'[s] # ship[s] =>
           \E r \in Requests : Writes(r, s) /\ req[r].snap = ship[s]]_vars
  BY RowStep
<1> QED
  BY <1>1, Invariance, PTL DEF Spec, NoLostUpdate

\* Statuses move along the table (and the self-accept edge), also under races.
LEMMA StatusStepsAreLegal ==
  ASSUME IInv, [Next]_vars, NEW s \in Shipments
  PROVE  StatusStepLegal(s)
<1>1. CASE ship'[s] = ship[s]
  BY <1>1 DEF StatusStepLegal, LegalStep
<1>2. CASE ship'[s] # ship[s]
  <2>1. PICK r \in Requests :
          /\ req[r].next \in Rows
          /\ SoundPlan(ship[s], req[r].next)
          /\ ship'[s] = [req[r].next EXCEPT !.version = ship[s].version + 1]
    BY <1>2, RowStep
  <2>2. ship'[s].status = req[r].next.status
    BY <2>1 DEF Rows
  <2> QED
    BY <2>1, <2>2 DEF SoundPlan, StatusStepLegal
<1> QED
  BY <1>1, <1>2

\* A deleted row is changed by a restore only, which brings the same row back.
LEMMA DeletedStaysFrozen ==
  ASSUME IInv, [Next]_vars, NEW s \in Shipments
  PROVE  DeletedIsFrozen(s)
<1> SUFFICES ASSUME ship[s].deleted, ship'[s] # ship[s]
             PROVE  ship'[s] = [ship[s] EXCEPT !.deleted = FALSE, !.version = @ + 1]
  BY DEF DeletedIsFrozen
<1>1. PICK r \in Requests :
        /\ ship[s] \in Rows
        /\ SoundPlan(ship[s], req[r].next)
        /\ ship'[s] = [req[r].next EXCEPT !.version = ship[s].version + 1]
  BY RowStep
<1>2. req[r].next = [ship[s] EXCEPT !.deleted = FALSE]
  BY <1>1 DEF SoundPlan
<1> QED
  BY <1>1, <1>2 DEF Rows

\* A terminal row keeps everything but its deletion marker (failed -> returned).
LEMMA TerminalStaysFinal ==
  ASSUME IInv, [Next]_vars, NEW s \in Shipments
  PROVE  TerminalIsFinal(s)
<1> SUFFICES ASSUME ship[s].status \in TERMINAL_STATES
             PROVE  \E st \in {ship[s].status} \cup ALLOWED_TRANSITIONS[ship[s].status] :
                      ship'[s] = [ship[s] EXCEPT !.status = st,
                                                 !.deleted = ship'[s].deleted,
                                                 !.version = ship'[s].version]
  BY DEF TerminalIsFinal
<1>1. CASE ship'[s] = ship[s]
  <2>1. ship[s] \in Rows
    BY RowFacts
  <2>2. ship'[s] = [ship[s] EXCEPT !.status = ship[s].status,
                                   !.deleted = ship'[s].deleted,
                                   !.version = ship'[s].version]
    BY <1>1, <2>1 DEF Rows
  <2> QED
    BY <2>2
<1>2. CASE ship'[s] # ship[s]
  <2>1. PICK r \in Requests :
          /\ ship[s] \in Rows
          /\ SoundPlan(ship[s], req[r].next)
          /\ ship'[s] = [req[r].next EXCEPT !.version = ship[s].version + 1]
    BY <1>2, RowStep
  <2>2. PICK st \in {ship[s].status} \cup ALLOWED_TRANSITIONS[ship[s].status] :
          req[r].next = [ship[s] EXCEPT !.status = st, !.deleted = req[r].next.deleted]
    BY <2>1 DEF SoundPlan
  <2>3. ship'[s] = [ship[s] EXCEPT !.status = st, !.deleted = req[r].next.deleted,
                                   !.version = ship[s].version + 1]
    BY <2>1, <2>2 DEF Rows
  <2>4. ship'[s] = [ship[s] EXCEPT !.status = st, !.deleted = ship'[s].deleted,
                                   !.version = ship'[s].version]
    BY <2>1, <2>3 DEF Rows
  <2> QED
    BY <2>2, <2>4
<1> QED
  BY <1>1, <1>2

\* Status steps are legal, deleted rows frozen and terminal rows final, whichever
\* requests interleave.
THEOREM HistoryIsKept == Spec => HistoryKept
<1>1. IInv /\ [Next]_vars =>
        [\A s \in Shipments :
           StatusStepLegal(s) /\ DeletedIsFrozen(s) /\ TerminalIsFinal(s)]_vars
  BY StatusStepsAreLegal, DeletedStaysFrozen, TerminalStaysFinal
<1> QED
  BY <1>1, Invariance, PTL DEF Spec, HistoryKept

\* Each status event continues where the one before it ended.
THEOREM StreamIsChained == Spec => StreamChains
<1>1. ASSUME IInv, [Next]_vars, NEW s \in Shipments, told'[s] # told[s]
      PROVE  told'[s].from = told[s].to
  <2>1. PICK r \in Requests : Commit(r)
    BY <1>1, OnlyCommitWrites
  <2>2. req[r].s \in Shipments /\ req[r].snap = ship[req[r].s]
    BY <1>1, <2>1, CommitStep
  <2>3. /\ req[r].s = s
        /\ told'[s].from = req[r].snap.status
    BY <1>1, <2>1, <2>2 DEF Commit, IInv, TypeOK
  <2> QED
    BY <1>1, <2>2, <2>3 DEF IInv, StreamTellsStatus
<1>2. IInv /\ [Next]_vars =>
        [\A s \in Shipments : told'[s] # told[s] => told'[s].from = told[s].to]_vars
  BY <1>1
<1> QED
  BY <1>2, Invariance, PTL DEF Spec, StreamChains

\* assign_shipment moves exactly the cargo the compliance gate let pass.
THEOREM AssignMovesJudgedCargo == Spec => AssignedCargoJudged
<1>1. ASSUME IInv, [Next]_vars, NEW q \in Requests, NEW s \in Shipments,
             Writes(q, s), req[q].op \in {"assign"}
      PROVE  ship[s].equipment \in {None, req[q].judged}
  <2>1. PICK r \in Requests : Commit(r) /\ Writes(r, s) /\ req[r].snap = ship[s]
    BY <1>1, RowStep DEF Writes
  <2>2. q = r
    BY <1>1, <2>1 DEF Commit, Ends, Writes, Busy, IInv, TypeOK
  <2>3. req[q].snap.equipment = req[q].judged
    BY <1>1 DEF IInv, JudgedAsLoaded, Writes
  <2> QED
    BY <2>1, <2>2, <2>3
<1>2. IInv /\ [Next]_vars => [CargoJudged({"assign"})]_vars
  BY <1>1 DEF CargoJudged
<1> QED
  BY <1>2, Invariance, PTL DEF Spec, AssignedCargoJudged

-----------------------------------------------------------------------------
(***************************************************************************)
(* Bookings, for any number of requests.  What a request asked the         *)
(* database (_validate_driver_free, _validate_equipment,                   *)
(* _validate_warehouse_capacity) still holds when it commits, of every     *)
(* shipment that was not written since: "missed" names the others.  A      *)
(* restore asked nothing, nor did an update ask about room.                *)
(***************************************************************************)

\* Only an assignment binds a vehicle, and no shipment goes back behind it.
VehicleBound(row) == row.status \in {"absent", "created", "ready"} => row.vehicle = None

\* What a row adds to the load of warehouse w.
Counted(row, w) == w \in {row.origin, row.dest} /\ Holding(row, ACTIVE_STATUSES)

Weight(row, w) == IF Counted(row, w) THEN row.load ELSE 0

\* The load of some rows, taken apart into units: as many as the loads sum to.
Units(table, S) == {u \in S \X Nat : 1 <= u[2] /\ u[2] <= table[u[1]].load}

\* The load of w by the rows of a table.
LoadIn(table, w) == Cardinality(Units(table, {s \in Shipments : Counted(table[s], w)}))

Where(row) == <<row.origin, row.dest, row.load>>

\* Row "next" may take the place of row "old" of s, as far as operation op asked and
\* the shipments in "away" were not written since: it shares nothing with another row
\* that the old one did not hold, and is no heavier for a warehouse than the old one
\* or than the room there is.
Fits(table, op, s, old, next, away) ==
  /\ VehicleBound(next)
  /\ op # "restore" =>
       \A t \in Shipments \ ({s} \cup away) :
         HeldBy(next) \cap HeldBy(table[t]) \subseteq HeldBy(old)
  /\ \A w \in Warehouses :
       \/ Weight(next, w) <= Weight(old, w)
       \/ op = "restore"
       \/ op = "update" /\ Where(next) # Where(old)
       \/ away # {}
       \/ LoadIn(table, w) + Weight(next, w) <= WarehouseCapacity[w] /\ Weight(old, w) = 0

Booked(r) == Fits(ship, req[r].op, req[r].s, req[r].snap, req[r].next, missed[r])

BookingInv ==
  /\ IInv
  /\ \A s \in Shipments : VehicleBound(ship[s])
  /\ \A r \in Requests : Busy(r) /\ req[r].pc = "flush" => Booked(r)

\* One row more adds as many units as its load.
LEMMA UnitsAdd ==
  ASSUME NEW table \in [Shipments -> Rows], NEW S, S \subseteq Shipments,
         NEW s \in Shipments \ S, IsFiniteSet(Units(table, S))
  PROVE  /\ IsFiniteSet(Units(table, S \cup {s}))
         /\ Cardinality(Units(table, S \cup {s})) = Cardinality(Units(table, S)) + table[s].load
<1> DEFINE load == table[s].load
           more == {s} \X (1..load)
<1>1. load \in Nat
  BY DEF Rows
<1> HIDE DEF load
<1>2. IsFiniteSet(1..load) /\ Cardinality(1..load) = load
  BY <1>1, FS_Interval
<1>3. IsFiniteSet({s}) /\ Cardinality({s}) = 1
  BY FS_Singleton
<1>4. IsFiniteSet(more) /\ Cardinality(more) = load
  <2>1. IsFiniteSet(more) /\ Cardinality(more) = Cardinality({s}) * Cardinality(1..load)
    BY <1>2, <1>3, FS_Product
  <2> HIDE DEF more
  <2> QED
    BY <1>1, <1>2, <1>3, <2>1
<1>5. Units(table, S \cup {s}) = Units(table, S) \cup more
  BY <1>1 DEF Units, load
<1>6. Units(table, S) \cap more = {}
  BY DEF Units
<1>7. Cardinality(Units(table, S)) \in Nat /\ Cardinality({}) = 0
  BY FS_CardinalityType, FS_EmptySet
<1> HIDE DEF more
<1>8. /\ IsFiniteSet(Units(table, S) \cup more)
      /\ Cardinality(Units(table, S) \cup more)
           = Cardinality(Units(table, S)) + Cardinality(more)
             - Cardinality(Units(table, S) \cap more)
  BY <1>4, FS_Union
<1>9. Cardinality(Units(table, S \cup {s}))
        = Cardinality(Units(table, S)) + Cardinality(more) - Cardinality({})
  BY <1>5, <1>6, <1>8
<1>10. Cardinality(Units(table, S \cup {s})) = Cardinality(Units(table, S)) + load
  BY <1>1, <1>4, <1>7, <1>9
<1> QED
  BY <1>5, <1>8, <1>10 DEF load

\* Of the sets for which something fails, one has no smaller one.
LEMMA SmallestFailure ==
  ASSUME NEW S, IsFiniteSet(S), NEW Bad, Bad \subseteq SUBSET S, Bad # {}
  PROVE  \E T \in Bad : \A U \in SUBSET T : U # T => U \notin Bad
<1> FiniteSubsetsOf(S) = SUBSET S
  BY FS_FiniteSubsetsOfFinite
<1>1. IsWellFoundedOn(StrictSubsetOrdering(S), SUBSET S)
  BY FS_StrictSubsetOrderingWellFounded
<1>2. PICK T \in Bad : \A U \in Bad : ~(<<U, T>> \in StrictSubsetOrdering(S))
  BY <1>1, WFMin
<1>3. ASSUME NEW U \in SUBSET T, U # T, U \in Bad PROVE FALSE
  <2>1. <<U, T>> \in StrictSubsetOrdering(S)
    BY <1>3 DEF StrictSubsetOrdering
  <2> QED
    BY <1>2, <1>3, <2>1
<1> QED
  BY <1>3

\* Finitely many rows have finitely many units.
LEMMA UnitsFinite ==
  ASSUME NEW table \in [Shipments -> Rows], NEW S, S \subseteq Shipments, IsFiniteSet(S)
  PROVE  IsFiniteSet(Units(table, S))
<1> DEFINE Bad == {T \in SUBSET S : ~IsFiniteSet(Units(table, T))}
<1>1. SUFFICES ASSUME Bad # {} PROVE FALSE
  OBVIOUS
<1>2. PICK T \in Bad : \A U \in SUBSET T : U # T => U \notin Bad
  <2>1. Bad \subseteq SUBSET S
    OBVIOUS
  <2> HIDE DEF Bad
  <2> QED
    BY <1>1, <2>1, SmallestFailure
<1>3. CASE T = {}
  <2>1. Units(table, {}) = {}
    BY DEF Units
  <2> QED
    BY <1>3, <2>1, FS_EmptySet
<1>4. CASE T # {}
  <2>1. PICK s : s \in T
    BY <1>4
  <2>2. IsFiniteSet(Units(table, T \ {s}))
    BY <1>2, <2>1
  <2>3. T \ {s} \subseteq Shipments /\ s \in Shipments \ (T \ {s}) /\ T = (T \ {s}) \cup {s}
    BY <2>1
  <2>4. IsFiniteSet(Units(table, (T \ {s}) \cup {s}))
    BY <2>2, <2>3, UnitsAdd
  <2> QED
    BY <2>3, <2>4
<1> QED
  BY <1>3, <1>4

\* Taking a row out of the load, or putting it in.
LEMMA LoadWithout ==
  ASSUME IsFiniteSet(Shipments), NEW table \in [Shipments -> Rows], NEW w, NEW s \in Shipments
  PROVE  LET others == {t \in Shipments \ {s} : Counted(table[t], w)}
         IN /\ Cardinality(Units(table, others)) \in Nat
            /\ LoadIn(table, w) = Cardinality(Units(table, others)) + Weight(table[s], w)
            /\ Weight(table[s], w) \in Nat
<1> DEFINE others == {t \in Shipments \ {s} : Counted(table[t], w)}
           all == {t \in Shipments : Counted(table[t], w)}
<1>1. IsFiniteSet(others) /\ others \subseteq Shipments /\ s \in Shipments \ others
  BY FS_Subset
<1>2. all = IF Counted(table[s], w) THEN others \cup {s} ELSE others
  OBVIOUS
<1>3. LoadIn(table, w) = Cardinality(Units(table, all))
  BY DEF LoadIn
<1>4. table[s].load \in Nat
  BY DEF Rows
<1> HIDE DEF others, all
<1>5. IsFiniteSet(Units(table, others))
  BY <1>1, UnitsFinite
<1>6. Cardinality(Units(table, others)) \in Nat
  BY <1>5, FS_CardinalityType
<1>7. Cardinality(Units(table, others \cup {s})) = Cardinality(Units(table, others)) + table[s].load
  BY <1>1, <1>5, UnitsAdd
<1>8. /\ LoadIn(table, w) = Cardinality(Units(table, others)) + Weight(table[s], w)
      /\ Weight(table[s], w) \in Nat
  BY <1>2, <1>3, <1>4, <1>6, <1>7 DEF Weight
<1> QED
  BY <1>6, <1>8 DEF others

\* A row that is replaced changes the load by the difference.
LEMMA LoadAfter ==
  ASSUME IsFiniteSet(Shipments), NEW table \in [Shipments -> Rows],
         NEW after \in [Shipments -> Rows], NEW s \in Shipments, NEW w,
         \A t \in Shipments \ {s} : after[t] = table[t]
  PROVE  /\ LoadIn(after, w) = LoadIn(table, w) - Weight(table[s], w) + Weight(after[s], w)
         /\ LoadIn(table, w) \in Int
         /\ Weight(table[s], w) \in Nat /\ Weight(after[s], w) \in Nat
<1> DEFINE others == {t \in Shipments \ {s} : Counted(table[t], w)}
           others2 == {t \in Shipments \ {s} : Counted(after[t], w)}
<1>1. others2 = others
  OBVIOUS
<1>2. Units(after, others) = Units(table, others)
  BY DEF Units
<1>3. /\ Cardinality(Units(table, others)) \in Nat /\ Weight(table[s], w) \in Nat
      /\ LoadIn(table, w) = Cardinality(Units(table, others)) + Weight(table[s], w)
  BY LoadWithout
<1>4. /\ Weight(after[s], w) \in Nat
      /\ LoadIn(after, w) = Cardinality(Units(after, others2)) + Weight(after[s], w)
  BY LoadWithout
<1> HIDE DEF others, others2
<1> QED
  BY <1>1, <1>2, <1>3, <1>4

\* The load of a warehouse is a number.
LEMMA LoadIsNat ==
  ASSUME TypeOK, NEW w
  PROVE  LoadIn(ship, w) \in Nat
<1>1. PICK S : S = {s \in Shipments : Counted(ship[s], w)}
  OBVIOUS
<1>2. IsFiniteSet(S) /\ S \subseteq Shipments /\ ship \in [Shipments -> Rows]
  BY <1>1, FS_Subset, ShipmentAssumption DEF TypeOK
<1>3. Cardinality(Units(ship, S)) \in Nat
  BY <1>2, UnitsFinite, FS_CardinalityType
<1> QED
  BY <1>1, <1>3 DEF LoadIn

\* CurrentLoad, which adds one load after the other in an order nobody chose, is that load.
LEMMA CurrentLoadIs ==
  ASSUME IsFiniteSet(Shipments), ship \in [Shipments -> Rows], NEW w
  PROVE  CurrentLoad(w) = LoadIn(ship, w)
<1> DEFINE S == {s \in Shipments : Counted(ship[s], w)}
           first(s) == CHOOSE x \in s : TRUE
           G(t) == [s \in SUBSET S |->
                      IF s = {} THEN 0 ELSE ship[first(s)].load + t[s \ {first(s)}]]
           g == CHOOSE t : t = G(t)
           h == [s \in SUBSET S |-> Cardinality(Units(ship, s))]
<1>1. S = {s \in Shipments : /\ w \in {ship[s].origin, ship[s].dest}
                             /\ ship[s].status \in ACTIVE_STATUSES
                             /\ ~ship[s].deleted}
  BY DEF Counted, Holding
<1>2. CurrentLoad(w) = MapThenSumSet(LAMBDA s : ship[s].load, S)
  BY <1>1 DEF CurrentLoad
<1>3. IsFiniteSet(S) /\ S \subseteq Shipments
  BY FS_Subset
<1>4. LoadIn(ship, w) = h[S]
  BY DEF LoadIn
<1> HIDE DEF S
<1>5. MapThenSumSet(LAMBDA s : ship[s].load, S) = g[S]
  BY DEF MapThenSumSet, MapThenFoldSet
<1>6. \A s : s # {} => first(s) \in s
  OBVIOUS
<1>7. h[{}] = 0
  <2>1. Units(ship, {}) = {}
    BY DEF Units
  <2> QED
    BY <2>1, FS_EmptySet
<1>8. ASSUME NEW s \in SUBSET S, s # {} PROVE h[s] = ship[first(s)].load + h[s \ {first(s)}]
  <2> DEFINE x == first(s)
             others == s \ {x}
  <2>1. x \in s
    BY <1>6, <1>8
  <2>2. x \in Shipments \ others /\ others \subseteq Shipments /\ others \in SUBSET S
        /\ s = others \cup {x}
    BY <1>3, <2>1
  <2>3. IsFiniteSet(Units(ship, others))
    BY <1>3, <2>2, FS_Subset, UnitsFinite
  <2>4. Cardinality(Units(ship, others)) \in Nat /\ ship[x].load \in Nat
    BY <2>2, <2>3, FS_CardinalityType DEF Rows
  <2>5. Cardinality(Units(ship, others \cup {x})) = Cardinality(Units(ship, others)) + ship[x].load
    <3> HIDE DEF x, others
    <3> QED
      BY <2>2, <2>3, UnitsAdd
  <2>6. h[s] = Cardinality(Units(ship, others)) + ship[x].load
    BY <2>2, <2>5
  <2>7. h[others] = Cardinality(Units(ship, others))
    BY <2>2
  <2> HIDE DEF h
  <2> QED
    BY <2>4, <2>6, <2>7
<1>9. h = G(h)
  <2> DEFINE H(s) == IF s = {} THEN 0 ELSE ship[first(s)].load + h[s \ {first(s)}]
  <2>1. \A s \in SUBSET S : h[s] = H(s)
    <3> HIDE DEF h, first
    <3> QED
      BY <1>7, <1>8
  <2>2. h = [s \in SUBSET S |-> h[s]]
    OBVIOUS
  <2> HIDE DEF h, first
  <2> QED
    BY <2>1, <2>2
<1>10. g = G(g)
  <2> HIDE DEF G, h
  <2> QED
    BY <1>9
<1> DEFINE Bad == {s \in SUBSET S : g[s] # h[s]}
<1>11. ASSUME Bad # {} PROVE FALSE
  <2>1. PICK s \in Bad : \A u \in SUBSET s : u # s => u \notin Bad
    <3>1. Bad \subseteq SUBSET S
      OBVIOUS
    <3> HIDE DEF Bad
    <3> QED
      BY <1>3, <1>11, <3>1, SmallestFailure
  <2>2. g[s] = IF s = {} THEN 0 ELSE ship[first(s)].load + g[s \ {first(s)}]
    <3> HIDE DEF g, h, first
    <3> QED
      BY <1>10
  <2> HIDE DEF g, h, G
  <2>3. s # {}
    BY <1>7, <2>2
  <2>4. g[s \ {first(s)}] = h[s \ {first(s)}]
    <3>1. s \ {first(s)} \in SUBSET s /\ s \ {first(s)} # s
      BY <1>6, <2>3
    <3> QED
      BY <2>1, <3>1
  <2> QED
    BY <1>8, <2>2, <2>3, <2>4
<1>12. g[S] = h[S]
  <2> HIDE DEF g, h
  <2> QED
    BY <1>11
<1> QED
  <2> HIDE DEF g, h
  <2> QED
    BY <1>2, <1>4, <1>5, <1>12

\* In every state of the service CurrentLoad is that load.
LEMMA CurrentLoadAlways == TypeOK => \A w \in Warehouses : CurrentLoad(w) = LoadIn(ship, w)
  BY CurrentLoadIs, ShipmentAssumption DEF TypeOK

\* What a row holds, one kind at a time.
LEMMA HeldThings ==
  ASSUME NEW row, NEW x
  PROVE  x \in HeldBy(row) <=>
           \/ Holding(row, ASSIGNED_STATES) /\ row.driver # None /\ x = <<"driver", row.driver>>
           \/ Holding(row, ASSIGNED_STATES) /\ row.vehicle # None /\ x = <<"vehicle", row.vehicle>>
           \/ Holding(row, ACTIVE_STATUSES) /\ row.equipment # None
                /\ x = <<"equipment", row.equipment>>
<1> DEFINE nothing == {<<kind, None>> : kind \in {"driver", "vehicle", "equipment"}}
<1>1. \A y : /\ <<"driver", y>> \in nothing <=> y = None
             /\ <<"vehicle", y>> \in nothing <=> y = None
             /\ <<"equipment", y>> \in nothing <=> y = None
  OBVIOUS
<1> HIDE DEF nothing
<1>2. x \in HeldBy(row) <=>
        /\ x \notin nothing
        /\ \/ Holding(row, ASSIGNED_STATES) /\ x = <<"driver", row.driver>>
           \/ Holding(row, ASSIGNED_STATES) /\ x = <<"vehicle", row.vehicle>>
           \/ Holding(row, ACTIVE_STATUSES) /\ x = <<"equipment", row.equipment>>
  BY DEF HeldBy, nothing
<1> QED
  BY <1>1, <1>2

\* A row whose driver, vehicle and equipment are those of the old row, or free of the
\* other one, shares nothing new with it.
LEMMA SharesNothingNew ==
  ASSUME NEW row, NEW old, NEW other,
         Holding(row, ASSIGNED_STATES) =>
           /\ \/ Holding(old, ASSIGNED_STATES) /\ row.driver = old.driver
              \/ Holding(other, ASSIGNED_STATES) => row.driver # other.driver
           /\ \/ Holding(old, ASSIGNED_STATES) /\ row.vehicle = old.vehicle
              \/ Holding(other, ASSIGNED_STATES) /\ row.vehicle # None
                   => row.vehicle # other.vehicle,
         Holding(row, ACTIVE_STATUSES) =>
           \/ Holding(old, ACTIVE_STATUSES) /\ row.equipment = old.equipment
           \/ Holding(other, ACTIVE_STATUSES) /\ row.equipment # None
                => row.equipment # other.equipment
  PROVE  HeldBy(row) \cap HeldBy(other) \subseteq HeldBy(old)
<1> SUFFICES ASSUME NEW x \in HeldBy(row), x \in HeldBy(other) PROVE x \in HeldBy(old)
  OBVIOUS
<1>1. CASE Holding(row, ASSIGNED_STATES) /\ row.driver # None /\ x = <<"driver", row.driver>>
  <2>1. Holding(other, ASSIGNED_STATES) /\ row.driver = other.driver
    BY <1>1, HeldThings
  <2> QED
    BY <1>1, <2>1, HeldThings
<1>2. CASE Holding(row, ASSIGNED_STATES) /\ row.vehicle # None /\ x = <<"vehicle", row.vehicle>>
  <2>1. Holding(other, ASSIGNED_STATES) /\ row.vehicle = other.vehicle
    BY <1>2, HeldThings
  <2> QED
    BY <1>2, <2>1, HeldThings
<1>3. CASE /\ Holding(row, ACTIVE_STATUSES) /\ row.equipment # None
           /\ x = <<"equipment", row.equipment>>
  <2>1. Holding(other, ACTIVE_STATUSES) /\ row.equipment = other.equipment
    BY <1>3, HeldThings
  <2> QED
    BY <1>3, <2>1, HeldThings
<1> QED
  BY <1>1, <1>2, <1>3, HeldThings

\* A row that stays where it was and is not taken up again weighs no more than before.
LEMMA WeighsNoMore ==
  ASSUME NEW row, NEW old \in Rows, Where(row) = Where(old),
         Holding(row, ACTIVE_STATUSES) => Holding(old, ACTIVE_STATUSES), NEW w
  PROVE  Weight(row, w) <= Weight(old, w)
<1>1. row.origin = old.origin /\ row.dest = old.dest /\ row.load = old.load /\ old.load \in Nat
  BY DEF Where, Rows
<1> QED
  BY <1>1 DEF Weight, Counted

\* Request r takes up a shipment: what it is about to flush fits, and nothing was
\* written since it read.
TakesUp(r) ==
  /\ ship' = ship
  /\ missed' = [missed EXCEPT ![r] = {}]
  /\ \E q : /\ req' = [req EXCEPT ![r] = q]
            /\ q.pc = "flush" => Fits(ship, q.op, q.s, q.snap, q.next, {})

\* The handlers in the form they have.
LEMMA ToFlushTakesUp ==
  ASSUME NEW r, NEW op, NEW s \in Shipments, NEW next, NEW judged,
         ToFlush(r, op, s, next, judged), Fits(ship, op, s, ship[s], next, {})
  PROVE  TakesUp(r)
<1> DEFINE q == [pc |-> "flush", op |-> op, s |-> s, snap |-> ship[s], next |-> next,
                 judged |-> judged]
<1>1. req' = [req EXCEPT ![r] = q] /\ ship' = ship /\ missed' = [missed EXCEPT ![r] = {}]
  BY DEF ToFlush
<1>2. q.op = op /\ q.s = s /\ q.snap = ship[s] /\ q.next = next
  OBVIOUS
<1> HIDE DEF q
<1> QED
  BY <1>1, <1>2 DEF TakesUp

\* create_shipment: the equipment is free and there is room for the load.
LEMMA CreateTakesUp ==
  ASSUME BookingInv, NEW r, NEW s \in Shipments, CreateShipment(r, s)
  PROVE  TakesUp(r)
<1>1. PICK o \in Warehouses, d \in Warehouses, e \in EquipmentUnits \cup {None}, l \in Loads :
        /\ e # None => ValidEquipment(e, s, l)
        /\ \A w \in {o, d} : CurrentLoad(w) + l <= WarehouseCapacity[w]
        /\ ToFlush(r, "create", s,
                   [Absent EXCEPT !.status = "created", !.equipment = e,
                                  !.origin = o, !.dest = d, !.load = l], None)
  BY DEF CreateShipment
<1>2. PICK row : row = [Absent EXCEPT !.status = "created", !.equipment = e,
                                      !.origin = o, !.dest = d, !.load = l]
  OBVIOUS
<1>3. /\ row.status = "created" /\ row.vehicle = None /\ row.equipment = e
      /\ row.origin = o /\ row.dest = d /\ row.load = l /\ row.deleted = FALSE
  BY <1>2 DEF Absent
<1>4. VehicleBound(row)
  BY <1>3 DEF VehicleBound
<1>5. ASSUME NEW t \in Shipments \ {s}
      PROVE  HeldBy(row) \cap HeldBy(ship[t]) \subseteq HeldBy(ship[s])
  <2>1. ~Holding(row, ASSIGNED_STATES)
    BY <1>3 DEF Holding, ASSIGNED_STATES
  <2>2. e # None /\ Holding(ship[t], ACTIVE_STATUSES) => e # ship[t].equipment
    BY <1>1 DEF ValidEquipment, HasActiveEquipment, Holding
  <2> QED
    BY <1>3, <2>1, <2>2, SharesNothingNew
<1>6. ASSUME NEW w \in Warehouses
      PROVE  \/ Weight(row, w) <= Weight(ship[s], w)
             \/ LoadIn(ship, w) + Weight(row, w) <= WarehouseCapacity[w] /\ Weight(ship[s], w) = 0
  <2>1. Weight(ship[s], w) = 0
    <3>1. ship[s] = Absent /\ ~Holding(Absent, ACTIVE_STATUSES)
      BY DEF CreateShipment, Holding, Absent, ACTIVE_STATUSES, ASSIGNED_STATES
    <3> QED
      BY <3>1 DEF Weight, Counted
  <2>2. CASE w \in {o, d}
    <3>1. CurrentLoad(w) + l <= WarehouseCapacity[w] /\ CurrentLoad(w) = LoadIn(ship, w)
      BY <1>1, <2>2, CurrentLoadAlways DEF BookingInv, IInv
    <3>2. Weight(row, w) = l
      BY <1>3, <2>2 DEF Weight, Counted, Holding, ACTIVE_STATUSES, Absent
    <3> QED
      BY <2>1, <3>1, <3>2
  <2>3. CASE w \notin {o, d}
    BY <1>3, <2>1, <2>3 DEF Weight, Counted
  <2> QED
    BY <2>2, <2>3
<1>7. Fits(ship, "create", s, ship[s], row, {})
  BY <1>4, <1>5, <1>6 DEF Fits
<1> QED
  BY <1>1, <1>2, <1>7, ToFlushTakesUp

\* update_shipment: other equipment is asked for, the driver and the vehicle stay.
LEMMA UpdateTakesUp ==
  ASSUME BookingInv, NEW r, NEW s \in Shipments, UpdateShipment(r, s)
  PROVE  TakesUp(r)
<1>1. PICK o, d, e, l :
        /\ e # ship[s].equipment => ValidEquipment(e, s, l)
        /\ ToFlush(r, "update", s, [ship[s] EXCEPT !.equipment = e, !.origin = o,
                                                   !.dest = d, !.load = l], None)
  BY DEF UpdateShipment
<1>2. PICK row : row = [ship[s] EXCEPT !.equipment = e, !.origin = o, !.dest = d, !.load = l]
  OBVIOUS
<1>3. ship[s] \in Rows /\ VehicleBound(ship[s])
  BY DEF BookingInv, IInv, TypeOK
<1>4. /\ row.status = ship[s].status /\ row.vehicle = ship[s].vehicle /\ row.equipment = e
      /\ row.driver = ship[s].driver /\ row.deleted = ship[s].deleted
  BY <1>2, <1>3 DEF Rows
<1>5. VehicleBound(row) /\ \A S : Holding(row, S) <=> Holding(ship[s], S)
  BY <1>3, <1>4 DEF VehicleBound, Holding
<1>6. ASSUME NEW t \in Shipments \ {s}
      PROVE  HeldBy(row) \cap HeldBy(ship[t]) \subseteq HeldBy(ship[s])
  <2>1. e # ship[s].equipment /\ Holding(ship[t], ACTIVE_STATUSES) => e # ship[t].equipment
    BY <1>1 DEF ValidEquipment, HasActiveEquipment, Holding
  <2> QED
    BY <1>4, <1>5, <2>1, SharesNothingNew
<1>7. ASSUME NEW w, Where(row) = Where(ship[s]) PROVE Weight(row, w) <= Weight(ship[s], w)
  BY <1>3, <1>5, <1>7, WeighsNoMore
<1>8. Fits(ship, "update", s, ship[s], row, {})
  BY <1>5, <1>6, <1>7 DEF Fits
<1> QED
  BY <1>1, <1>2, <1>8, ToFlushTakesUp

\* A status change along the table binds nothing: what is held afterwards was held
\* before.
LEMMA TransitionTakesUp ==
  ASSUME BookingInv, NEW r, NEW op, NEW s \in Shipments, NEW judged,
         NEW target \in {"ready", "picked_up", "in_transit", "delayed", "delivered", "failed",
                         "returned", "cancelled"},
         CanTransition(ship[s].status, target),
         ToFlush(r, op, s, [ship[s] EXCEPT !.status = target], judged)
  PROVE  TakesUp(r)
<1>1. PICK row : row = [ship[s] EXCEPT !.status = target]
  OBVIOUS
<1>2. ship[s] \in Rows /\ VehicleBound(ship[s])
  BY DEF BookingInv, IInv, TypeOK
<1>3. /\ row.status = target /\ row.vehicle = ship[s].vehicle
      /\ row.equipment = ship[s].equipment /\ row.driver = ship[s].driver
      /\ row.deleted = ship[s].deleted /\ Where(row) = Where(ship[s])
  BY <1>1, <1>2 DEF Rows, Where
<1>4. /\ target \in ASSIGNED_STATES => ship[s].status \in ASSIGNED_STATES
      /\ target \in ACTIVE_STATUSES => ship[s].status \in ACTIVE_STATUSES
      /\ target = "ready" => ship[s].status = "created"
  BY DEF CanTransition, Statuses, ALLOWED_TRANSITIONS, ASSIGNED_STATES, ACTIVE_STATUSES
<1>5. VehicleBound(row)
  BY <1>2, <1>3, <1>4 DEF VehicleBound
<1>6. /\ Holding(row, ASSIGNED_STATES) => Holding(ship[s], ASSIGNED_STATES)
      /\ Holding(row, ACTIVE_STATUSES) => Holding(ship[s], ACTIVE_STATUSES)
  BY <1>3, <1>4 DEF Holding
<1>7. \A t : HeldBy(row) \cap HeldBy(ship[t]) \subseteq HeldBy(ship[s])
  BY <1>3, <1>6, SharesNothingNew
<1>8. \A w : Weight(row, w) <= Weight(ship[s], w)
  BY <1>2, <1>3, <1>6, WeighsNoMore
<1>9. Fits(ship, op, s, ship[s], row, {})
  BY <1>5, <1>7, <1>8 DEF Fits
<1> QED
  BY <1>1, <1>9, ToFlushTakesUp

\* assign_shipment asked for the driver and the vehicle it binds.
LEMMA AssignTakesUp ==
  ASSUME BookingInv, NEW r, NEW s \in Shipments, AssignShipment(r, s)
  PROVE  TakesUp(r)
<1>1. PICK d \in available, v \in active :
        /\ ~HasActiveDriver(d, s)
        /\ ~HasActiveVehicle(v, s)
        /\ CanTransition(ship[s].status, "assigned")
        /\ ToFlush(r, "assign", s,
                   [ship[s] EXCEPT !.status = "assigned", !.driver = d, !.vehicle = v],
                   ship[s].equipment)
  BY DEF AssignShipment
<1>2. PICK row : row = [ship[s] EXCEPT !.status = "assigned", !.driver = d, !.vehicle = v]
  OBVIOUS
<1>3. ship[s] \in Rows
  BY DEF BookingInv, IInv, TypeOK
<1>4. /\ row.status = "assigned" /\ row.vehicle = v /\ row.driver = d
      /\ row.equipment = ship[s].equipment /\ row.deleted = ship[s].deleted
      /\ Where(row) = Where(ship[s])
  BY <1>2, <1>3 DEF Rows, Where
<1>5. ship[s].status \in ACTIVE_STATUSES
  BY <1>1 DEF CanTransition, Statuses, ALLOWED_TRANSITIONS, ACTIVE_STATUSES
<1>6. VehicleBound(row) /\ (Holding(row, ACTIVE_STATUSES) => Holding(ship[s], ACTIVE_STATUSES))
  BY <1>4, <1>5 DEF VehicleBound, Holding
<1>7. ASSUME NEW t \in Shipments \ {s}
      PROVE  HeldBy(row) \cap HeldBy(ship[t]) \subseteq HeldBy(ship[s])
  <2>1. Holding(ship[t], ASSIGNED_STATES) => d # ship[t].driver /\ v # ship[t].vehicle
    BY <1>1 DEF HasActiveDriver, HasActiveVehicle, Holding
  <2> QED
    BY <1>4, <1>6, <2>1, SharesNothingNew
<1>8. \A w : Weight(row, w) <= Weight(ship[s], w)
  BY <1>3, <1>4, <1>6, WeighsNoMore
<1>9. Fits(ship, "assign", s, ship[s], row, {})
  BY <1>6, <1>7, <1>8 DEF Fits
<1> QED
  BY <1>1, <1>2, <1>9, ToFlushTakesUp

\* assign_driver_only asked for the driver; the shipment has no vehicle yet.
LEMMA AcceptTakesUp ==
  ASSUME BookingInv, NEW r, NEW s \in Shipments, AssignDriverOnly(r, s)
  PROVE  TakesUp(r)
<1>1. PICK d \in available :
        /\ ~HasActiveDriver(d, s)
        /\ ToFlush(r, "accept", s, [ship[s] EXCEPT !.status = "assigned", !.driver = d], None)
  BY DEF AssignDriverOnly
<1>2. PICK row : row = [ship[s] EXCEPT !.status = "assigned", !.driver = d]
  OBVIOUS
<1>3. ship[s] \in Rows /\ VehicleBound(ship[s])
  BY DEF BookingInv, IInv, TypeOK
<1>4. /\ row.status = "assigned" /\ row.vehicle = ship[s].vehicle /\ row.driver = d
      /\ row.equipment = ship[s].equipment /\ row.deleted = ship[s].deleted
      /\ Where(row) = Where(ship[s])
  BY <1>2, <1>3 DEF Rows, Where
<1>5. ship[s].status \in ACTIVE_STATUSES /\ row.vehicle = None
  BY <1>3, <1>4 DEF AssignDriverOnly, ACTIVE_STATUSES, VehicleBound
<1>6. VehicleBound(row) /\ (Holding(row, ACTIVE_STATUSES) => Holding(ship[s], ACTIVE_STATUSES))
  BY <1>4, <1>5 DEF VehicleBound, Holding
<1>7. ASSUME NEW t \in Shipments \ {s}
      PROVE  HeldBy(row) \cap HeldBy(ship[t]) \subseteq HeldBy(ship[s])
  <2>1. Holding(ship[t], ASSIGNED_STATES) => d # ship[t].driver
    BY <1>1 DEF HasActiveDriver, Holding
  <2> QED
    BY <1>4, <1>5, <1>6, <2>1, SharesNothingNew
<1>8. \A w : Weight(row, w) <= Weight(ship[s], w)
  BY <1>3, <1>4, <1>6, WeighsNoMore
<1>9. Fits(ship, "accept", s, ship[s], row, {})
  BY <1>6, <1>7, <1>8 DEF Fits
<1> QED
  BY <1>1, <1>2, <1>9, ToFlushTakesUp

\* A deleted row holds nothing, and a restore asks nothing.
LEMMA DeleteRestoreTakesUp ==
  ASSUME BookingInv, NEW r, NEW s \in Shipments, DeleteShipment(r, s) \/ RestoreShipment(r, s)
  PROVE  TakesUp(r)
<1>1. ship[s] \in Rows /\ VehicleBound(ship[s])
  BY DEF BookingInv, IInv, TypeOK
<1>2. PICK op, gone, row :
        /\ row = [ship[s] EXCEPT !.deleted = gone]
        /\ op = "restore" \/ gone = TRUE
        /\ ToFlush(r, op, s, row, None)
  BY DEF DeleteShipment, RestoreShipment
<1>3. /\ row.deleted = gone /\ row.status = ship[s].status /\ row.vehicle = ship[s].vehicle
      /\ Where(row) = Where(ship[s])
  BY <1>1, <1>2 DEF Rows, Where
<1>4. VehicleBound(row) /\ (gone = TRUE => \A S : ~Holding(row, S))
  BY <1>1, <1>3 DEF VehicleBound, Holding
<1>5. ASSUME gone = TRUE
      PROVE  /\ \A t : HeldBy(row) \cap HeldBy(ship[t]) \subseteq HeldBy(ship[s])
             /\ \A w : Weight(row, w) <= Weight(ship[s], w)
  BY <1>1, <1>3, <1>4, <1>5, SharesNothingNew, WeighsNoMore
<1>6. Fits(ship, op, s, ship[s], row, {})
  BY <1>2, <1>4, <1>5 DEF Fits
<1> QED
  BY <1>2, <1>6, ToFlushTakesUp

\* Every handler takes a shipment up.
LEMMA HandleTakesUp ==
  ASSUME BookingInv, NEW r \in Requests, NEW s \in Shipments, Handle(r, s)
  PROVE  TakesUp(r)
<1>1. CASE CreateShipment(r, s) \/ UpdateShipment(r, s)
  BY <1>1, CreateTakesUp, UpdateTakesUp
<1>2. CASE AssignShipment(r, s) \/ AssignDriverOnly(r, s)
  BY <1>2, AssignTakesUp, AcceptTakesUp
<1>3. CASE EnforceGate(r, s)
  <2>1. PICK op : /\ ship' = ship /\ missed' = [missed EXCEPT ![r] = {}]
                  /\ req' = [req EXCEPT ![r] = [pc |-> "gated", op |-> op, s |-> s,
                                                snap |-> ship[s], next |-> ship[s],
                                                judged |-> ship[s].equipment]]
    BY <1>3 DEF EnforceGate
  <2> DEFINE q == [pc |-> "gated", op |-> op, s |-> s, snap |-> ship[s], next |-> ship[s],
                   judged |-> ship[s].equipment]
  <2>2. q.pc # "flush"
    OBVIOUS
  <2> HIDE DEF q
  <2>3. req' = [req EXCEPT ![r] = q]
    BY <2>1 DEF q
  <2> QED
    BY <2>1, <2>2, <2>3 DEF TakesUp
<1>4. CASE DeleteShipment(r, s) \/ RestoreShipment(r, s)
  BY <1>4, DeleteRestoreTakesUp
<1>5. CASE MarkReady(r, s) \/ MarkDelayed(r, s) \/ DeliverShipment(r, s)
           \/ FailShipment(r, s) \/ ReturnShipment(r, s) \/ CancelShipment(r, s)
  BY <1>5, TransitionTakesUp DEF MarkReady, MarkDelayed, DeliverShipment, FailShipment,
                                 ReturnShipment, CancelShipment, Transition
<1> QED
  BY <1>1, <1>2, <1>3, <1>4, <1>5 DEF Handle

\* The second half of pickup and transit loads the row again.
LEMMA MoveTakesUp ==
  ASSUME BookingInv, NEW r \in Requests, MoveGated(r)
  PROVE  TakesUp(r)
<1>1. req[r] \in InFlight
  BY DEF MoveGated, Busy, BookingInv, IInv, TypeOK
<1>2. PICK s \in Shipments, target \in {"picked_up", "in_transit"} :
        /\ CanTransition(ship[s].status, target)
        /\ ToFlush(r, req[r].op, s, [ship[s] EXCEPT !.status = target], req[r].judged)
  BY <1>1 DEF MoveGated, InFlight
<1> QED
  BY <1>2, TransitionTakesUp

-----------------------------------------------------------------------------
(* The invariant of bookings is kept. *)

\* Without a change of the table, all that matters is what is in flight.
LEMMA PlansStayBooked ==
  ASSUME BookingInv, IInv', ship' = ship,
         \A q \in Requests :
           \/ req'[q] = Idle
           \/ req'[q] = req[q] /\ missed'[q] = missed[q]
           \/ req'[q].pc = "flush" =>
                Fits(ship, req'[q].op, req'[q].s, req'[q].snap, req'[q].next, missed'[q])
  PROVE  BookingInv'
<1>1. ASSUME NEW q \in Requests, req'[q] # Idle, req'[q].pc = "flush"
      PROVE  Fits(ship, req'[q].op, req'[q].s, req'[q].snap, req'[q].next, missed'[q])
  BY <1>1 DEF BookingInv, Booked, Busy
<1>2. ASSUME NEW q \in Requests, Busy(q)', req'[q].pc = "flush" PROVE Booked(q)'
  BY <1>1, <1>2 DEF Booked, Busy
<1> QED
  BY <1>2 DEF BookingInv

\* The row that comes with a commit holds and weighs what was planned.
LEMMA CommittedRow ==
  ASSUME IInv, NEW r \in Requests, Commit(r)
  PROVE  LET s == req[r].s IN
         /\ s \in Shipments /\ req[r].snap = ship[s] /\ ship[s] \in Rows
         /\ \A t \in Shipments \ {s} : ship'[t] = ship[t]
         /\ ship'[s] \in Rows /\ ship' = [ship EXCEPT ![s] = ship'[s]]
         /\ HeldBy(ship'[s]) = HeldBy(req[r].next)
         /\ \A w : Weight(ship'[s], w) = Weight(req[r].next, w)
         /\ VehicleBound(ship'[s]) <=> VehicleBound(req[r].next)
         /\ Where(ship'[s]) = Where(req[r].next)
         /\ Writes(r, s)
<1> PICK s : s = req[r].s
  OBVIOUS
<1>1. /\ s \in Shipments /\ ship[s] \in Rows /\ req[r].next \in Rows /\ req[r].snap = ship[s]
  BY CommitStep
<1>2. PICK row : row = [req[r].next EXCEPT !.version = ship[s].version + 1]
  OBVIOUS
<1>3. /\ ship' = [ship EXCEPT ![s] = row] /\ req'[r] = Idle /\ Busy(r)
      /\ ship \in [Shipments -> Rows]
  BY <1>1, <1>2 DEF Commit, Ends, IInv, TypeOK
<1>4. /\ row \in Rows /\ row.version # ship[s].version
      /\ row.status = req[r].next.status /\ row.vehicle = req[r].next.vehicle
      /\ row.equipment = req[r].next.equipment /\ row.driver = req[r].next.driver
      /\ row.deleted = req[r].next.deleted /\ row.origin = req[r].next.origin
      /\ row.dest = req[r].next.dest /\ row.load = req[r].next.load
  BY <1>1, <1>2 DEF Rows
<1>5. ship'[s] = row /\ \A t \in Shipments \ {s} : ship'[t] = ship[t]
  BY <1>1, <1>3
<1>6. \A S : Holding(row, S) <=> Holding(req[r].next, S)
  BY <1>4 DEF Holding
<1>7. HeldBy(row) = HeldBy(req[r].next)
  BY <1>4, <1>6 DEF HeldBy
<1>8. \A w : Weight(row, w) = Weight(req[r].next, w)
  BY <1>4, <1>6 DEF Weight, Counted
<1>9. /\ VehicleBound(row) <=> VehicleBound(req[r].next)
      /\ Where(row) = Where(req[r].next)
  BY <1>4 DEF VehicleBound, Where
<1>10. Writes(r, s)
  BY <1>1, <1>3, <1>4, <1>5 DEF Writes
<1> QED
  BY <1>1, <1>3, <1>4, <1>5, <1>7, <1>8, <1>9, <1>10

\* A commit is missed by everyone else who is under way.
LEMMA CommitKeepsBooked ==
  ASSUME BookingInv, IInv', NEW r \in Requests, Commit(r)
  PROVE  BookingInv'
<1> PICK s : s = req[r].s
  OBVIOUS
<1>1. /\ s \in Shipments /\ \A t \in Shipments \ {s} : ship'[t] = ship[t]
      /\ VehicleBound(ship'[s]) <=> VehicleBound(req[r].next)
  BY CommittedRow DEF BookingInv
<1>2. VehicleBound(req[r].next)
  BY DEF BookingInv, Booked, Fits, Commit
<1>3. \A t \in Shipments : VehicleBound(ship'[t])
  BY <1>1, <1>2 DEF BookingInv
<1>4. /\ req' = [req EXCEPT ![r] = Idle] /\ req \in [Requests -> {Idle} \cup InFlight]
      /\ missed' = [q \in Requests |-> IF Busy(q) /\ q # r THEN missed[q] \cup {s} ELSE {}]
  BY DEF Commit, Ends, BookingInv, IInv, TypeOK
<1>5. ASSUME NEW op, NEW u, NEW old, NEW next, NEW away, Fits(ship, op, u, old, next, away)
      PROVE  Fits(ship', op, u, old, next, away \cup {s})
  <2>1. ASSUME NEW t \in Shipments \ ({u} \cup (away \cup {s})) PROVE ship'[t] = ship[t]
    BY <1>1, <2>1
  <2>2. away \cup {s} # {}
    OBVIOUS
  <2> QED
    BY <1>5, <2>1, <2>2 DEF Fits
<1>6. ASSUME NEW q \in Requests, Busy(q)', req'[q].pc = "flush" PROVE Booked(q)'
  <2>1. q # r /\ req'[q] = req[q] /\ Busy(q)
    BY <1>4, <1>6 DEF Busy
  <2>4. missed'[q] = missed[q] \cup {s}
    BY <1>4, <2>1
  <2>2. Fits(ship, req[q].op, req[q].s, req[q].snap, req[q].next, missed[q])
    BY <1>6, <2>1 DEF BookingInv, Booked
  <2>3. Fits(ship', req[q].op, req[q].s, req[q].snap, req[q].next, missed[q] \cup {s})
    BY <1>5, <2>2
  <2> QED
    BY <2>1, <2>3, <2>4 DEF Booked
<1> QED
  BY <1>3, <1>6 DEF BookingInv

\* Every step keeps the invariant of bookings.
LEMMA BookingStep == BookingInv /\ [Next]_vars => BookingInv'
<1> SUFFICES ASSUME BookingInv, [Next]_vars PROVE BookingInv'
  OBVIOUS
<1>1. /\ IInv' /\ req \in [Requests -> {Idle} \cup InFlight]
      /\ missed \in [Requests -> SUBSET Shipments]
  BY NextInv DEF BookingInv, IInv, TypeOK
<1>2. ASSUME NEW r \in Requests, TakesUp(r) PROVE BookingInv'
  <2>1. PICK q : /\ req' = [req EXCEPT ![r] = q]
                 /\ q.pc = "flush" => Fits(ship, q.op, q.s, q.snap, q.next, {})
    BY <1>2 DEF TakesUp
  <2>2. ship' = ship /\ missed' = [missed EXCEPT ![r] = {}]
    BY <1>2 DEF TakesUp
  <2>3. req'[r] = q /\ missed'[r] = {}
    BY <1>1, <2>1, <2>2
  <2>4. \A p \in Requests \ {r} : req'[p] = req[p] /\ missed'[p] = missed[p]
    BY <1>1, <2>1, <2>2
  <2>5. req'[r].pc = "flush" =>
          Fits(ship, req'[r].op, req'[r].s, req'[r].snap, req'[r].next, missed'[r])
    BY <2>1, <2>3
  <2> QED
    BY <1>1, <2>2, <2>4, <2>5, PlansStayBooked
<1>3. ASSUME NEW r \in Requests, Abort(r) PROVE BookingInv'
  <2>1. ship' = ship
    BY <1>3 DEF Abort
  <2>2. ASSUME NEW q \in Requests
        PROVE  req'[q] = Idle \/ (req'[q] = req[q] /\ missed'[q] = missed[q])
    BY <1>1, <1>3 DEF Abort, Ends, Busy
  <2> QED
    BY <1>1, <2>1, <2>2, PlansStayBooked
<1>4. ASSUME UNCHANGED <<ship, req, missed>> PROVE BookingInv'
  BY <1>1, <1>4, PlansStayBooked
<1>5. CASE \E r \in Requests, s \in Shipments : Handle(r, s)
  BY <1>2, <1>5, HandleTakesUp
<1>6. CASE \E r \in Requests : MoveGated(r) \/ Commit(r) \/ Abort(r)
  BY <1>1, <1>2, <1>3, <1>6, MoveTakesUp, CommitKeepsBooked
<1>7. CASE \/ \E d \in Drivers : SetAvailability(d)
           \/ \E v \in Vehicles : SetVehicleStatus(v)
           \/ \E e \in EquipmentUnits : SetEquipmentStatus(e)
           \/ \E s \in Shipments, e \in EquipmentUnits : SetCompliance(s, e)
           \/ UNCHANGED vars
  BY <1>4, <1>7 DEF SetAvailability, SetVehicleStatus, SetEquipmentStatus, SetCompliance, vars
<1> QED
  BY <1>5, <1>6, <1>7 DEF Next

\* Nothing is held and no request is under way.
LEMMA BookingInit == Init => BookingInv
<1> SUFFICES ASSUME Init PROVE BookingInv
  OBVIOUS
<1>1. \A s \in Shipments : VehicleBound(ship[s])
  BY DEF Init, VehicleBound, Absent
<1>2. \A r \in Requests : ~Busy(r)
  BY DEF Init, Busy
<1> QED
  BY <1>1, <1>2, InitInv DEF BookingInv

\* Whoever comes to share something with t had not seen t's row, or restores.
LEMMA SharesOnlyUnseen ==
  ASSUME BookingInv, NEW r \in Requests, Commit(r), NEW s, s = req[r].s,
         NEW t \in Shipments \ {s}, ~(SharedBy(s, t)' \subseteq SharedBy(s, t))
  PROVE  DoubleBooks(r, s, t)
<1>1. /\ s \in Shipments /\ req[r].snap = ship[s] /\ ship'[t] = ship[t]
      /\ HeldBy(ship'[s]) = HeldBy(req[r].next) /\ Writes(r, s)
  BY CommittedRow DEF BookingInv
<1>2. Booked(r)
  BY DEF BookingInv, Commit
<1>3. ASSUME t \notin missed[r], req[r].op # "restore"
      PROVE  HeldBy(req[r].next) \cap HeldBy(ship[t]) \subseteq HeldBy(ship[s])
  BY <1>1, <1>2, <1>3 DEF Booked, Fits
<1>4. t \in missed[r] \/ req[r].op = "restore"
  BY <1>1, <1>3 DEF SharedBy
<1> QED
  BY <1>1, <1>4 DEF DoubleBooks

\* Two shipments come to share a driver, a vehicle or an equipment unit only by a
\* request that looked before the other one's last write, or by a restore, for any
\* number of requests and all calls (the guards of create, update, assign, accept).
THEOREM DoubleBookingNeedsARace == Spec => OnlyRacesDoubleBook
<1>1. ASSUME BookingInv, [Next]_vars, NEW s \in Shipments, NEW t \in Shipments,
             s # t, ~(SharedBy(s, t)' \subseteq SharedBy(s, t))
      PROVE  \E r \in Requests : DoubleBooks(r, s, t) \/ DoubleBooks(r, t, s)
  <2>1. PICK r \in Requests : Commit(r)
    BY <1>1, OnlyCommitWrites DEF SharedBy
  <2>2. req[r].s \in {s, t}
    <3>1. \A u \in Shipments \ {req[r].s} : ship'[u] = ship[u]
      BY <1>1, <2>1, CommittedRow DEF BookingInv
    <3> QED
      BY <1>1, <3>1 DEF SharedBy
  <2>3. ~(SharedBy(t, s)' \subseteq SharedBy(t, s))
    BY <1>1 DEF SharedBy
  <2>4. CASE req[r].s = s
    BY <1>1, <2>1, <2>4, SharesOnlyUnseen
  <2>5. CASE req[r].s = t
    BY <1>1, <2>1, <2>3, <2>5, SharesOnlyUnseen
  <2> QED
    BY <2>2, <2>4, <2>5
<1>2. BookingInv /\ [Next]_vars =>
        [\A s, t \in Shipments : s # t /\ ~(SharedBy(s, t)' \subseteq SharedBy(s, t)) =>
           \E r \in Requests : DoubleBooks(r, s, t) \/ DoubleBooks(r, t, s)]_vars
  BY <1>1
<1> QED
  BY <1>2, BookingInit, BookingStep, PTL DEF Spec, OnlyRacesDoubleBook

\* A commit adds load beyond the capacity only if it missed another one, or restores,
\* or edits the route or the load.
LEMMA AddsOnlyUnasked ==
  ASSUME BookingInv, NEW r \in Requests, Commit(r), NEW w \in Warehouses,
         LoadIn(ship', w) > LoadIn(ship, w), LoadIn(ship', w) > WarehouseCapacity[w]
  PROVE  Overfills(r, req[r].s)
<1> PICK s : s = req[r].s
  OBVIOUS
<1>1. /\ s \in Shipments /\ req[r].snap = ship[s] /\ ship[s] \in Rows
      /\ ship'[s] \in Rows /\ ship' = [ship EXCEPT ![s] = ship'[s]]
      /\ \A t \in Shipments \ {s} : ship'[t] = ship[t]
      /\ Weight(ship'[s], w) = Weight(req[r].next, w)
      /\ Where(ship'[s]) = Where(req[r].next) /\ Writes(r, s)
  BY CommittedRow DEF BookingInv
<1>2. PICK row, after : row = ship'[s] /\ after = ship'
  OBVIOUS
<1>3. /\ LoadIn(after, w) = LoadIn(ship, w) - Weight(ship[s], w) + Weight(row, w)
      /\ LoadIn(ship, w) \in Int /\ Weight(ship[s], w) \in Nat /\ Weight(row, w) \in Nat
  <2>1. /\ ship \in [Shipments -> Rows] /\ after \in [Shipments -> Rows]
        /\ IsFiniteSet(Shipments)
    BY <1>1, <1>2, ShipmentAssumption DEF BookingInv, IInv, TypeOK
  <2>2. s \in Shipments /\ row = after[s] /\ \A t \in Shipments \ {s} : after[t] = ship[t]
    BY <1>1, <1>2
  <2> QED
    BY <2>1, <2>2, LoadAfter
<1>4. WarehouseCapacity[w] \in Nat
  BY ShipmentAssumption
<1>5. Weight(row, w) > Weight(ship[s], w)
  BY <1>2, <1>3
<1>6. ~(LoadIn(ship, w) + Weight(row, w) <= WarehouseCapacity[w] /\ Weight(ship[s], w) = 0)
  BY <1>2, <1>3, <1>4
<1>7. Booked(r) /\ Weight(row, w) = Weight(req[r].next, w)
  BY <1>1, <1>2 DEF BookingInv, Commit
<1>8. \/ Weight(row, w) <= Weight(ship[s], w)
      \/ req[r].op = "restore"
      \/ req[r].op = "update" /\ Where(req[r].next) # Where(ship[s])
      \/ missed[r] # {}
      \/ LoadIn(ship, w) + Weight(row, w) <= WarehouseCapacity[w] /\ Weight(ship[s], w) = 0
  BY <1>1, <1>7 DEF Booked, Fits
<1>9. \/ missed[r] # {}
      \/ req[r].op = "restore"
      \/ req[r].op = "update" /\ Where(req[r].next) # Where(ship[s])
  BY <1>3, <1>5, <1>6, <1>8
<1> QED
  BY <1>1, <1>9 DEF Overfills, Where

\* Load is added to a warehouse beyond its capacity only by a request that summed up
\* before another commit, by a restore, or by an update that changes the route or the
\* load (_validate_warehouse_capacity, asked by create only).
THEOREM OverfillingIsUnasked == Spec => OnlyRacesOverfill
<1>1. ASSUME BookingInv, [Next]_vars, NEW w \in Warehouses,
             LoadIn(ship', w) > LoadIn(ship, w), LoadIn(ship', w) > WarehouseCapacity[w]
      PROVE  \E r \in Requests, s \in Shipments : Overfills(r, s)
  <2>1. ship' # ship
    <3>1. LoadIn(ship, w) \in Nat
      <4>1. TypeOK
        BY <1>1 DEF BookingInv, IInv
      <4> QED
        BY <4>1, LoadIsNat
    <3> QED
      BY <1>1, <3>1
  <2>2. PICK r \in Requests : Commit(r)
    BY <1>1, <2>1, OnlyCommitWrites
  <2>3. req[r].s \in Shipments
    BY <1>1, <2>2, CommittedRow DEF BookingInv
  <2>4. Overfills(r, req[r].s)
    BY <1>1, <2>2, AddsOnlyUnasked
  <2> QED
    BY <2>3, <2>4
<1>2. TypeOK => \A w \in Warehouses : CurrentLoad(w) = LoadIn(ship, w)
  BY CurrentLoadAlways
<1>3. TypeOK' => (\A w \in Warehouses : CurrentLoad(w) = LoadIn(ship, w))'
  BY <1>2, PTL
<1>4. BookingInv /\ BookingInv' /\ [Next]_vars =>
        [\A w \in Warehouses :
           CurrentLoad(w)' > CurrentLoad(w) /\ CurrentLoad(w)' > WarehouseCapacity[w] =>
             \E r \in Requests, s \in Shipments : Overfills(r, s)]_vars
  <2> SUFFICES ASSUME BookingInv, BookingInv', [Next]_vars, NEW w \in Warehouses,
                      CurrentLoad(w)' > CurrentLoad(w), CurrentLoad(w)' > WarehouseCapacity[w]
               PROVE  \E r \in Requests, s \in Shipments : Overfills(r, s)
    OBVIOUS
  <2>1. CurrentLoad(w) = LoadIn(ship, w) /\ CurrentLoad(w)' = LoadIn(ship', w)
    BY <1>2, <1>3 DEF BookingInv, IInv
  <2> QED
    BY <1>1, <2>1
<1> QED
  BY <1>4, BookingInit, BookingStep, PTL DEF Spec, OnlyRacesOverfill

-----------------------------------------------------------------------------
(* The version numbers implement the optimistic protocol. *)

\* A record that announces its flush is what a request holds, and only then is it
\* more than idle to the protocol.
LEMMA ViewOfRequest ==
  ASSUME IInv, NEW r \in Requests
  PROVE  /\ req[r].pc # "flush" => AsRequest(r) = Idle
         /\ req[r].pc = "flush" =>
              /\ req[r] \in InFlight
              /\ Busy(r)
              /\ AsRequest(r) = IF VersionMatches(r) THEN AsPlan(req[r]) ELSE [pc |-> "doomed"]
         /\ AsRequest(r).pc \in {"idle", "doomed", "flush"}
<1>1. req[r] \in {Idle} \cup InFlight
  BY DEF IInv, TypeOK
<1>2. req[r].pc = "flush" => req[r] # Idle
  BY DEF Idle
<1>3. AsPlan(req[r]).pc = "flush" /\ Idle.pc = "idle" /\ [pc |-> "doomed"].pc = "doomed"
  BY DEF AsPlan, Idle
<1> QED
  BY <1>1, <1>2, <1>3 DEF AsRequest, Busy

\* Where the table does not change, a request that is left alone keeps its view.
LEMMA ViewIsKept ==
  ASSUME ship' = ship, NEW r \in Requests, req'[r] = req[r]
  PROVE  AsRequest(r)' = AsRequest(r)
BY DEF AsRequest, VersionMatches, AsPlan

\* No row, no request (Init).
LEMMA RefinesInit == Init => Optimistic!Init
<1> SUFFICES ASSUME Init
             PROVE  Optimistic!Init
  OBVIOUS
<1>1. [s \in Shipments |-> AsRow(ship[s])]
        = [s \in Shipments |-> [status |-> "absent", deleted |-> FALSE]]
  BY DEF Init, AsRow
<1>2. [r \in Requests |-> AsRequest(r)] = [r \in Requests |-> [pc |-> "idle"]]
  BY DEF Init, AsRequest, Idle
<1> QED
  BY <1>1, <1>2 DEF Optimistic!Init, Optimistic!Empty, Optimistic!Absent, Optimistic!Idle

\* A handler that validated, and the second half of pickup and transit, take up
\* work that starts from the row as it is (get_by_id_or_raise up to the flush).
LEMMA ToFlushRefines ==
  ASSUME IInv, NEW r \in Requests, req[r].pc # "flush", NEW op, NEW s \in Shipments,
         NEW next, NEW judged, ToFlush(r, op, s, next, judged)
  PROVE  Optimistic!TakeUp(r)
<1> DEFINE q == [pc |-> "flush", op |-> op, s |-> s, snap |-> ship[s], next |-> next,
                 judged |-> judged]
           view == [p \in Requests |-> AsRequest(p)]
           table == [t \in Shipments |-> AsRow(ship[t])]
<1>1. ship' = ship /\ req' = [req EXCEPT ![r] = q] /\ req \in [Requests -> {Idle} \cup InFlight]
  BY DEF ToFlush, IInv, TypeOK
<1>2. table' = table
  BY <1>1
<1>3. req'[r] = q
  BY <1>1
<1>4. AsRequest(r)' = AsPlan(q)
  BY <1>1, <1>3 DEF AsRequest, VersionMatches
<1>5. \A p \in Requests \ {r} : AsRequest(p)' = AsRequest(p)
  BY <1>1, ViewIsKept
<1>6. view' = [view EXCEPT ![r] = view'[r]]
  BY <1>5
<1>7. view[r].pc # "flush"
  BY ViewOfRequest DEF Idle
<1>8. view'[r] = AsPlan(q)
  BY <1>4
<1>9. /\ AsPlan(q).pc = "flush"
      /\ AsPlan(q).then.pc # "flush"
      /\ DOMAIN AsPlan(q).writes = {s}
      /\ AsPlan(q).loaded = [t \in {s} |-> table[t]]
  BY DEF AsPlan, Idle
<1> HIDE DEF q, view, table
<1> QED
  BY <1>2, <1>6, <1>7, <1>8, <1>9 DEF Optimistic!TakeUp, Optimistic!Flushing, view, table

\* A commit raises the version of its row, so every other request that holds a plan
\* for this row is doomed, and no other one (flush under version_id_col).
LEMMA OthersAfterCommit ==
  ASSUME IInv, NEW r \in Requests, Commit(r), NEW q \in Requests \ {r}
  PROVE  AsRequest(q)' = IF /\ AsRequest(q).pc = "flush"
                            /\ req[r].s \in DOMAIN AsRequest(q).writes
                         THEN [pc |-> "doomed"] ELSE AsRequest(q)
<1> DEFINE s == req[r].s
<1>1. /\ s \in Shipments
      /\ ship' = [ship EXCEPT ![s] = [req[r].next EXCEPT !.version = req[r].snap.version + 1]]
      /\ req'[q] = req[q]
      /\ req[r].next \in Rows
      /\ req[r].snap = ship[s]
      /\ ship[s].version \in Nat
  BY CommitStep DEF Commit, Ends, Rows, IInv, TypeOK
<1>2. ship'[s].version = ship[s].version + 1
  BY <1>1 DEF IInv, TypeOK, Rows
<1>3. CASE req[q].pc # "flush"
  BY <1>1, <1>3 DEF AsRequest, Idle
<1>4. CASE req[q].pc = "flush"
  <2>1. req[q] \in InFlight /\ Busy(q)
    BY <1>4, ViewOfRequest
  <2>2. /\ AsRequest(q) = IF VersionMatches(q) THEN AsPlan(req[q]) ELSE [pc |-> "doomed"]
        /\ AsRequest(q)' = IF VersionMatches(q)' THEN AsPlan(req[q]) ELSE [pc |-> "doomed"]
    BY <1>1, <1>4 DEF AsRequest
  <2>3. AsPlan(req[q]).pc = "flush" /\ DOMAIN AsPlan(req[q]).writes = {req[q].s}
    BY DEF AsPlan
  <2>4. CASE req[q].s = s
    <3>1. req[q].snap.version \in Nat /\ req[q].snap.version <= ship[s].version
      BY <2>1, <2>4 DEF InFlight, Rows, IInv, SnapshotsCurrent
    <3>2. ~VersionMatches(q)'
      BY <1>1, <1>2, <2>4, <3>1 DEF VersionMatches
    <3> QED
      BY <2>2, <2>3, <2>4, <3>2
  <2>5. CASE req[q].s # s
    <3>1. VersionMatches(q)' = VersionMatches(q)
      BY <1>1, <2>5 DEF VersionMatches
    <3>2. AsRequest(q)' = AsRequest(q)
      BY <2>2, <3>1
    <3>3. ~(AsRequest(q).pc = "flush" /\ s \in DOMAIN AsRequest(q).writes)
      BY <2>2, <2>3, <2>5
    <3> QED
      BY <3>2, <3>3
  <2> QED
    BY <2>4, <2>5
<1> QED
  BY <1>3, <1>4

\* The row a commit writes is the one that was planned.
LEMMA CommitRefines ==
  ASSUME IInv, NEW r \in Requests, Commit(r)
  PROVE  Optimistic!Commit(r)
<1> DEFINE s == req[r].s
           after == [req[r].next EXCEPT !.version = req[r].snap.version + 1]
           view == [p \in Requests |-> AsRequest(p)]
           table == [t \in Shipments |-> AsRow(ship[t])]
<1>1. /\ s \in Shipments
      /\ req[r].pc = "flush"
      /\ VersionMatches(r)
      /\ ship' = [ship EXCEPT ![s] = after]
      /\ req' = [req EXCEPT ![r] = Idle]
      /\ req[r].next \in Rows
      /\ req[r].snap = ship[s]
      /\ ship[s] \in Rows
  BY CommitStep DEF Commit, Ends
<1>2. after.version = ship[s].version + 1 /\ ship[s].version \in Nat
  BY <1>1 DEF Rows
<1>3. after # Absent
  BY <1>2 DEF Absent
<1>4. \A t \in Shipments : table'[t] = IF t \in {s} THEN after ELSE table[t]
  BY <1>1, <1>3 DEF AsRow, IInv, TypeOK
<1>5. view[r] = AsPlan(req[r])
  BY <1>1 DEF AsRequest
<1>6. /\ view[r].pc = "flush"
      /\ DOMAIN view[r].writes = {s}
      /\ view[r].writes[s] = after
      /\ view[r].then = Idle
  BY <1>5 DEF AsPlan
<1>7. view'[r] = Idle
  BY <1>1 DEF AsRequest, Idle, IInv, TypeOK
<1>8. \A q \in Requests \ {r} :
        view'[q] = IF view[q].pc = "flush" /\ s \in DOMAIN view[q].writes
                   THEN [pc |-> "doomed"] ELSE view[q]
  BY OthersAfterCommit
<1>9. DOMAIN table = Shipments /\ \A x, l, p : Optimistic!Stored(x, l, p) = p
  BY DEF Optimistic!Stored
<1>10. table' = [t \in Shipments |-> table'[t]] /\ view' = [q \in Requests |-> view'[q]]
  OBVIOUS
<1>11. \A q \in Requests : Optimistic!Conflicts(q, {s})
                             <=> view[q].pc = "flush" /\ s \in DOMAIN view[q].writes
  BY DEF Optimistic!Conflicts, Optimistic!Flushing
<1>12. Optimistic!Flushing(r)
  BY <1>6 DEF Optimistic!Flushing
<1> HIDE DEF after, view, table
<1>13. table' = [x \in DOMAIN table |->
                   IF x \in DOMAIN view[r].writes
                   THEN Optimistic!Stored(x, view[r].loaded[x], view[r].writes[x])
                   ELSE table[x]]
  BY <1>4, <1>6, <1>9, <1>10
<1>14. view' = [q \in Requests |-> IF q = r THEN view[r].then
                                   ELSE IF Optimistic!Conflicts(q, DOMAIN view[r].writes)
                                        THEN [pc |-> "doomed"] ELSE view[q]]
  BY <1>6, <1>7, <1>8, <1>10, <1>11
<1> QED
  BY <1>12, <1>13, <1>14 DEF Optimistic!Commit, Optimistic!Doomed, view, table

\* A request that ends gives up its plan, or had none.
LEMMA AbortRefines ==
  ASSUME IInv, NEW r \in Requests, Abort(r)
  PROVE  Optimistic!Abort(r) \/ UNCHANGED Optimistic!rows
<1> DEFINE view == [p \in Requests |-> AsRequest(p)]
           table == [t \in Shipments |-> AsRow(ship[t])]
<1>1. ship' = ship /\ req' = [req EXCEPT ![r] = Idle] /\ req \in [Requests -> {Idle} \cup InFlight]
  BY DEF Abort, Ends, IInv, TypeOK
<1>2. table' = table
  BY <1>1
<1>3. AsRequest(r)' = Idle
  BY <1>1 DEF AsRequest, Idle
<1>4. \A p \in Requests \ {r} : AsRequest(p)' = AsRequest(p)
  BY <1>1, ViewIsKept
<1>5. view' = [view EXCEPT ![r] = Idle]
  BY <1>3, <1>4
<1>6. CASE view[r] = Idle
  <2>1. view' = view
    BY <1>5, <1>6
  <2> QED
    BY <1>2, <2>1 DEF Optimistic!rows
<1>7. CASE view[r] # Idle
  BY <1>2, <1>5, <1>7 DEF Optimistic!Abort, Optimistic!Idle, Idle
<1> QED
  BY <1>6, <1>7

\* Passing the gate, and what the rest of the system does, is no step of the protocol.
LEMMA GateRefines ==
  ASSUME IInv, NEW r \in Requests, NEW s \in Shipments, EnforceGate(r, s)
  PROVE  UNCHANGED Optimistic!rows
<1>1. PICK op : /\ req[r] = Idle
                /\ ship' = ship
                /\ req' = [req EXCEPT ![r] = [pc |-> "gated", op |-> op, s |-> s,
                                              snap |-> ship[s], next |-> ship[s],
                                              judged |-> ship[s].equipment]]
  BY DEF EnforceGate, Asked, Busy
<1>2. req'[r].pc # "flush" /\ req[r].pc # "flush"
  BY <1>1 DEF IInv, TypeOK, Idle
<1>3. AsRequest(r)' = AsRequest(r)
  BY <1>2 DEF AsRequest
<1>4. \A p \in Requests \ {r} : AsRequest(p)' = AsRequest(p)
  BY <1>1, ViewIsKept DEF IInv, TypeOK
<1>5. \A p \in Requests : AsRequest(p)' = AsRequest(p)
  BY <1>3, <1>4
<1> QED
  BY <1>1, <1>5 DEF Optimistic!rows

\* Every handler but the gate ends in ToFlush, from an idle worker.
LEMMA HandleRefines ==
  ASSUME IInv, NEW r \in Requests, NEW s \in Shipments, Handle(r, s)
  PROVE  Optimistic!TakeUp(r) \/ UNCHANGED Optimistic!rows
<1>1. CASE EnforceGate(r, s)
  BY <1>1, GateRefines
<1>2. ASSUME ~Busy(r), NEW op, NEW next, NEW judged, ToFlush(r, op, s, next, judged)
      PROVE  Optimistic!TakeUp(r)
  BY <1>2, ToFlushRefines DEF Busy, Idle
<1>3. ASSUME NEW op, Asked(r, op, s) PROVE ~Busy(r)
  BY <1>3 DEF Asked
<1>4. ASSUME NEW op, NEW target, NEW mutated, Asked(r, op, s),
             Transition(r, op, s, target, mutated)
      PROVE  Optimistic!TakeUp(r)
  BY <1>2, <1>3, <1>4, Zenon DEF Transition
<1>5. CASE CreateShipment(r, s)
  BY <1>2, <1>3, <1>5, Zenon DEF CreateShipment
<1>6. CASE UpdateShipment(r, s)
  BY <1>2, <1>3, <1>6, Zenon DEF UpdateShipment
<1>7. CASE AssignShipment(r, s)
  BY <1>2, <1>3, <1>7, Zenon DEF AssignShipment
<1>8. CASE AssignDriverOnly(r, s)
  BY <1>2, <1>3, <1>8, Zenon DEF AssignDriverOnly
<1>9. CASE DeleteShipment(r, s) \/ RestoreShipment(r, s)
  BY <1>2, <1>3, <1>9, Zenon DEF DeleteShipment, RestoreShipment
<1>10. CASE MarkReady(r, s) \/ MarkDelayed(r, s) \/ DeliverShipment(r, s)
  BY <1>4, <1>10, Zenon DEF MarkReady, MarkDelayed, DeliverShipment
<1>11. CASE FailShipment(r, s) \/ ReturnShipment(r, s) \/ CancelShipment(r, s)
  BY <1>4, <1>11, Zenon DEF FailShipment, ReturnShipment, CancelShipment
<1> QED
  BY <1>1, <1>5, <1>6, <1>7, <1>8, <1>9, <1>10, <1>11 DEF Handle

\* The second half of pickup and transit, from a request that only passed the gate.
LEMMA MoveRefines ==
  ASSUME IInv, NEW r \in Requests, MoveGated(r)
  PROVE  Optimistic!TakeUp(r)
<1>1. req[r] \in InFlight /\ req[r].pc = "gated"
  BY DEF MoveGated, Busy, IInv, TypeOK
<1>2. req[r].s \in Shipments
  BY <1>1 DEF InFlight
<1>3. \E op, next, judged : ToFlush(r, op, req[r].s, next, judged)
  BY DEF MoveGated
<1> QED
  BY <1>1, <1>2, <1>3, ToFlushRefines

\* Every step of the service is one of the protocol, or none.
LEMMA RefinesNext == IInv /\ [Next]_vars => [Optimistic!Next]_(Optimistic!rows)
<1> SUFFICES ASSUME IInv, [Next]_vars
             PROVE  Optimistic!Next \/ UNCHANGED Optimistic!rows
  OBVIOUS
<1>1. CASE \E r \in Requests, s \in Shipments : Handle(r, s)
  BY <1>1, HandleRefines DEF Optimistic!Next
<1>2. CASE \E r \in Requests : MoveGated(r) \/ Commit(r) \/ Abort(r)
  BY <1>2, MoveRefines, CommitRefines, AbortRefines DEF Optimistic!Next
<1>3. CASE UNCHANGED <<ship, req>>
  BY <1>3 DEF Optimistic!rows, AsRequest, VersionMatches
<1> QED
  BY <1>1, <1>2, <1>3 DEF Next, vars, SetAvailability, SetVehicleStatus, SetEquipmentStatus,
                          SetCompliance

\* ShipmentService over its numbered rows implements the protocol of OptimisticRows,
\* for any number of shipments and requests.
THEOREM RefinesOptimisticRows == Spec => RowsAreOptimistic
  BY Invariance, RefinesInit, RefinesNext, PTL DEF Spec, RowsAreOptimistic, Optimistic!Spec
=============================================================================
