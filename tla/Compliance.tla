----------------------------- MODULE Compliance -----------------------------
(***************************************************************************)
(* ComplianceService: permits, escorts, route restrictions, axle weights,  *)
(* operator certifications and the checks of an evaluation; and the gate   *)
(* (ComplianceValidationService) every dispatch of a shipment asks.        *)
(*                                                                         *)
(* The gate only reads.  What it judged may change before the shipment is  *)
(* written, and nothing but the shipment's own version is compared then.   *)
(***************************************************************************)
EXTENDS Equipment

CONSTANTS Permits, Escorts, Restrictions, AxleProfiles, Checks, Certifications

ASSUME ComplianceAssumption ==
  UNION {Permits, Escorts, Restrictions, AxleProfiles, Checks, Certifications} \subseteq Ids

PermitTransitions ==
  [draft |-> {"submitted", "cancelled"}, submitted |-> {"under_review", "cancelled"},
   under_review |-> {"approved", "rejected", "cancelled"},
   approved |-> {"active", "cancelled"}, active |-> {"expired", "cancelled"},
   rejected |-> {}, expired |-> {}, cancelled |-> {}]

TerminalPermits == {"rejected", "expired", "cancelled"}

\* bounded: valid_from or valid_until is set, so whether the permit is valid now
\* changes as time passes; approvedAt: that column is set.
PermitRows == [status : DOMAIN PermitTransitions, deleted : BOOLEAN,
               shipment : Shipments \cup {None}, bounded : BOOLEAN, approvedAt : BOOLEAN]

EscortRows == [status : {"planned", "scheduled", "cancelled"}, deleted : {FALSE},
               shipment : Shipments \cup {None}]

RestrictionRows == [status : {"restriction"}, deleted : {FALSE}, active : BOOLEAN]

AxleRows == [status : {"profile"}, deleted : {FALSE}]

\* kind: what was checked.
CheckKinds == {"permit_required", "oversize", "escort_required", "hazardous_material",
               "insurance_required"}

CheckRows == [status : {"passed", "failed", "warning", "overridden"}, deleted : {FALSE},
              shipment : Shipments, kind : CheckKinds, blocking : BOOLEAN]

CertificationRows == [status : {"active", "expired"}, deleted : {FALSE}]

\* needs: what the unit of the shipment asked for when the shipment was dispatched.
ShipmentRows == [status : {"planned", "dispatched"}, deleted : BOOLEAN,
                 unit : Units \cup {None},
                 needs : SUBSET {"permit", "hazardous", "oversize", "escort", "insurance"}]

-----------------------------------------------------------------------------
(* Permits *)

\* _validate_refs, for the one reference that is looked at later.
ValidShipment(s) == s # None => Owned(s)

CreatePermit(r) ==
  /\ Asked(r, "create_permit")
  /\ \E p \in Among(Permits), s \in Among(Shipments) \cup {None}, bounded \in BOOLEAN :
       /\ ValidShipment(s)
       /\ Insert(r, "create_permit", p,
                 [status |-> "draft", deleted |-> FALSE, shipment |-> s,
                  bounded |-> bounded, approvedAt |-> FALSE])

PermitOperations ==
  [submit_permit |-> "submitted", mark_under_review |-> "under_review",
   reject_permit |-> "rejected", activate_permit |-> "active",
   expire_permit |-> "expired", cancel_permit |-> "cancelled"]

PermitTransition(r) ==
  \E op \in DOMAIN PermitOperations, p \in Among(Permits) :
    /\ Asked(r, op)
    /\ Transition(r, op, p, PermitTransitions, PermitOperations[op], db[p])

\* A window is set or left as it is.
ApprovePermit(r) ==
  /\ Asked(r, "approve_permit")
  /\ \E p \in Among(Permits), window \in BOOLEAN :
       Transition(r, "approve_permit", p, PermitTransitions, "approved",
                  [db[p] EXCEPT !.approvedAt = TRUE, !.bounded = @ \/ window])

\* A value that is not given is skipped: a window can be set, never taken away.
UpdatePermit(r) ==
  /\ Asked(r, "update_permit")
  /\ \E p \in Among(Permits), window \in BOOLEAN :
       /\ Live(p)
       /\ db[p].status \notin TerminalPermits
       /\ Write(r, "update_permit", p, [db[p] EXCEPT !.bounded = @ \/ window])

DeletePermit(r) ==
  /\ Asked(r, "delete_permit")
  /\ \E p \in Among(Permits) : SoftDelete(r, "delete_permit", p)

RestorePermit(r) ==
  /\ Asked(r, "restore_permit")
  /\ \E p \in Among(Permits) : Undelete(r, "restore_permit", p)

-----------------------------------------------------------------------------
(* Escorts, restrictions, axle weights, certifications *)

CreateEscort(r) ==
  /\ Asked(r, "create_escort")
  /\ \E e \in Among(Escorts), s \in Among(Shipments) \cup {None},
        p \in Among(Permits) \cup {None} :
       /\ ValidShipment(s)
       /\ p # None => Owned(p)
       /\ Insert(r, "create_escort", e,
                 [status |-> "planned", deleted |-> FALSE, shipment |-> s])

ScheduleEscort(r) ==
  /\ Asked(r, "schedule_escort")
  /\ \E e \in Among(Escorts) :
       /\ Live(e)
       /\ db[e].status # "cancelled"
       /\ Write(r, "schedule_escort", e, [db[e] EXCEPT !.status = "scheduled"])

\* Also one that is cancelled already: the row is written again.
CancelEscort(r) ==
  /\ Asked(r, "cancel_escort")
  /\ \E e \in Among(Escorts) :
       Live(e) /\ Write(r, "cancel_escort", e, [db[e] EXCEPT !.status = "cancelled"])

CreateRouteRestriction(r) ==
  /\ Asked(r, "create_restriction")
  /\ \E x \in Among(Restrictions), active \in BOOLEAN :
       Insert(r, "create_restriction", x,
              [status |-> "restriction", deleted |-> FALSE, active |-> active])

UpdateRouteRestriction(r) ==
  /\ Asked(r, "update_restriction")
  /\ \E x \in Among(Restrictions), active \in BOOLEAN :
       Live(x) /\ Write(r, "update_restriction", x, [db[x] EXCEPT !.active = active])

CreateAxleWeightProfile(r) ==
  /\ Asked(r, "create_axle_profile")
  /\ \E x \in Among(AxleProfiles), u \in Among(Units) \cup {None} :
       /\ u # None => Owned(u)
       /\ Insert(r, "create_axle_profile", x, [status |-> "profile", deleted |-> FALSE])

CreateOperatorCertification(r) ==
  /\ Asked(r, "create_certification")
  /\ \E x \in Among(Certifications) :
       Insert(r, "create_certification", x, [status |-> "active", deleted |-> FALSE])

ExpireOperatorCertification(r) ==
  /\ Asked(r, "expire_certification")
  /\ \E x \in Among(Certifications) :
       /\ InStatus(x, {"active"})
       /\ Write(r, "expire_certification", x, [db[x] EXCEPT !.status = "expired"])

-----------------------------------------------------------------------------
(* The gate and the evaluation *)

\* Fault: a permit that is only submitted counts.
ActivePermitsFault(s) ==
  {p \in Among(Permits) : InStatus(p, {"submitted", "active"}) /\ db[p].shipment = s}

\* get_active_permit_for_shipment returns one of these, whichever comes first.
ActivePermits(s) ==
  {p \in Among(Permits) : InStatus(p, {"active"}) /\ db[p].shipment = s}

ActiveEscorts(s) ==
  {e \in Among(Escorts) : InStatus(e, {"planned", "scheduled"}) /\ db[e].shipment = s}

FailedBlocking(s) ==
  {k \in Among(Checks) : InStatus(k, {"failed"}) /\ db[k].shipment = s /\ db[k].blocking}

Needs(s) == IF db[s].unit = None THEN {} ELSE db[db[s].unit].needs

NeedsPermit(s) == Needs(s) \cap {"permit", "hazardous", "oversize"} # {}

\* inTime: permits with a window are looked at while it is open.
ValidAt(p, inTime) == db[p].bounded => inTime

\* Fault: the gate asks for a permit of units with the flag only.
ClearedFault(s, inTime) ==
  db[s].unit # None =>
    /\ "permit" \in Needs(s) => \E p \in ActivePermits(s) : ValidAt(p, inTime)
    /\ "escort" \in Needs(s) => ActiveEscorts(s) # {}
    /\ FailedBlocking(s) = {}

\* validate_dispatch.  The unit is found although it may be deleted.
Cleared(s, inTime) ==
  db[s].unit # None =>
    /\ NeedsPermit(s) => \E p \in ActivePermits(s) : ValidAt(p, inTime)
    /\ "escort" \in Needs(s) => ActiveEscorts(s) # {}
    /\ FailedBlocking(s) = {}

Passed(ok) == IF ok THEN "passed" ELSE "failed"

\* What an evaluation finds, by kind of check.  The window of the permit is not
\* looked at.
Verdicts(s) ==
  LET asked == (IF NeedsPermit(s) THEN {"permit_required"} ELSE {})
               \cup (IF "oversize" \in Needs(s) THEN {"oversize"} ELSE {})
               \cup (IF "escort" \in Needs(s) THEN {"escort_required"} ELSE {})
               \cup (IF "hazardous" \in Needs(s) THEN {"hazardous_material"} ELSE {})
               \cup (IF "insurance" \in Needs(s) THEN {"insurance_required"} ELSE {})
  IN [kind \in asked |->
        CASE kind \in {"permit_required", "oversize"} -> Passed(ActivePermits(s) # {})
          [] kind = "escort_required" -> Passed(ActiveEscorts(s) # {})
          [] OTHER -> "warning"]

\* All checks of an evaluation are inserted by one commit; none that failed before
\* is touched.
EvaluateCompliance(r) ==
  /\ Asked(r, "evaluate")
  /\ \E s \in Among(Shipments) :
       /\ Owned(s)
       /\ \E key \in [DOMAIN Verdicts(s) -> Among(Checks)] :
            LET kindOf(k) == CHOOSE kind \in DOMAIN key : key[kind] = k
            IN /\ DOMAIN key # {}
               /\ \A kind, other \in DOMAIN key : key[kind] = key[other] => kind = other
               /\ \A kind \in DOMAIN key : Fresh(key[kind])
               /\ Prepare(r, Plan("evaluate",
                    [k \in {key[kind] : kind \in DOMAIN key} |->
                       [status |-> Verdicts(s)[kindOf(k)], deleted |-> FALSE, shipment |-> s,
                        kind |-> kindOf(k), blocking |-> Verdicts(s)[kindOf(k)] # "warning"]],
                    Idle))

\* Fault: the check no longer blocks but stays failed.
ApplyComplianceOverrideFault(r) ==
  /\ Asked(r, "override_check")
  /\ \E k \in Among(Checks) :
       Live(k) /\ Write(r, "override_check", k, [db[k] EXCEPT !.blocking = FALSE])

\* In any status, a check that passed included.
ApplyComplianceOverride(r) ==
  /\ Asked(r, "override_check")
  /\ \E k \in Among(Checks) :
       Live(k) /\ Write(r, "override_check", k,
                        [db[k] EXCEPT !.status = "overridden", !.blocking = FALSE])

-----------------------------------------------------------------------------
(* ShipmentService, as far as it is seen from here *)

CreateShipment(r) ==
  /\ Asked(r, "create_shipment")
  /\ \E s \in Among(Shipments), u \in Among(Units) \cup {None} :
       /\ u # None => InStatus(u, Assignable)
       /\ Insert(r, "create_shipment", s,
                 [status |-> "planned", deleted |-> FALSE, unit |-> u, needs |-> {}])

\* Assignment, pick-up or start of transit: the gate is asked, then the shipment
\* is written.
Dispatch(r) ==
  /\ Asked(r, "dispatch")
  /\ \E s \in Among(Shipments), inTime \in BOOLEAN :
       /\ InStatus(s, {"planned"})
       /\ Cleared(s, inTime)
       /\ Write(r, "dispatch", s, [db[s] EXCEPT !.status = "dispatched", !.needs = Needs(s)])

\* By the routes that lead to them: permits, escorts, the records beside them, checks.
PermitStep(r) ==
  \/ CreatePermit(r) \/ PermitTransition(r) \/ ApprovePermit(r) \/ UpdatePermit(r)
  \/ DeletePermit(r) \/ RestorePermit(r)

EscortStep(r) == CreateEscort(r) \/ ScheduleEscort(r) \/ CancelEscort(r)

RecordStep(r) ==
  \/ CreateRouteRestriction(r) \/ UpdateRouteRestriction(r) \/ CreateAxleWeightProfile(r)
  \/ CreateOperatorCertification(r) \/ ExpireOperatorCertification(r)

CheckStep(r) == EvaluateCompliance(r) \/ ApplyComplianceOverride(r)

ComplianceStep(r) ==
  \/ PermitStep(r) \/ EscortStep(r) \/ RecordStep(r) \/ CheckStep(r)
  \/ CreateShipment(r) \/ Dispatch(r)

-----------------------------------------------------------------------------
(* Properties *)

ComplianceTyped ==
  /\ \A p \in Among(Permits) : Exists(p) => db[p] \in PermitRows
  /\ \A e \in Among(Escorts) : Exists(e) => db[e] \in EscortRows
  /\ \A x \in Among(Restrictions) : Exists(x) => db[x] \in RestrictionRows
  /\ \A x \in Among(AxleProfiles) : Exists(x) => db[x] \in AxleRows
  /\ \A k \in Among(Checks) : Exists(k) => db[k] \in CheckRows
  /\ \A x \in Among(Certifications) : Exists(x) => db[x] \in CertificationRows
  /\ \A s \in Among(Shipments) : Exists(s) => db[s] \in ShipmentRows

TypeOK == DOMAIN db \in Scopes /\ EquipmentTyped /\ ComplianceTyped

\* docs/21 section 3: no permit is approved, active or expired that nobody approved.
PermitsApproved ==
  \A p \in Among(Permits) :
    Exists(p) /\ db[p].status \in {"approved", "active", "expired"} => db[p].approvedAt

\* docs/21 section 4: a failed check blocks; one that was overridden or is only
\* advice never does.
ChecksConsistent ==
  \A k \in Among(Checks) : Exists(k) => (db[k].blocking <=> db[k].status \in {"passed", "failed"})

\* docs/21 section 5: a shipment whose unit asked for a permit when it was
\* dispatched has a permit that was approved, and one whose unit asked for an
\* escort has an escort, although permits are cancelled, expire and are deleted,
\* escorts cancelled and units edited between the answer of the gate and the commit.
DispatchedUnderPermit ==
  \A s \in Among(Shipments) : Exists(s) =>
    /\ db[s].needs \cap {"permit", "hazardous", "oversize"} # {} =>
         \E p \in Among(Permits) : Exists(p) /\ db[p].shipment = s /\ db[p].approvedAt
    /\ "escort" \in db[s].needs => \E e \in Among(Escorts) : Exists(e) /\ db[e].shipment = s

ComplianceInv ==
  TypeOK /\ AvailabilityAgrees /\ PermitsApproved /\ ChecksConsistent /\ DispatchedUnderPermit

\* The gate and the evaluation are two codings of one rule: an evaluation of a
\* shipment the gate lets pass finds nothing that would block it.
GateImpliesVerdicts ==
  \A s \in Among(Shipments), inTime \in BOOLEAN :
    Live(s) /\ Cleared(s, inTime) =>
      \A kind \in DOMAIN Verdicts(s) : Verdicts(s)[kind] # "failed"

\* What is decided stays decided, whoever had loaded the row before: a terminal
\* permit and a decommissioned unit can only be deleted and restored, a cancelled
\* escort and an expired certification stay so, and a failed check blocks until
\* somebody overrides it, however often the shipment is evaluated again (docs/21).
DecidedStaysDecided ==
  [][/\ \A p \in Among(Permits) :
          db[p].status \in TerminalPermits => [db'[p] EXCEPT !.deleted = db[p].deleted] = db[p]
     /\ \A u \in Among(Units) :
          db[u].status = "decommissioned" =>
            [db'[u] EXCEPT !.deleted = db[u].deleted] = db[u]
     /\ \A e \in Among(Escorts) : db[e].status = "cancelled" => db'[e] = db[e]
     /\ \A x \in Among(Certifications) : db[x].status = "expired" => db'[x] = db[x]
     /\ \A k \in Among(Checks) :
          db[k].status = "failed" /\ db'[k] # db[k] => db'[k].status = "overridden"]_rows
=============================================================================
