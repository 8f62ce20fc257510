----------------------------- MODULE Operations -----------------------------
(***************************************************************************)
(* What the back office does not do, over one database: equipment, its     *)
(* permits and the gate in front of every dispatch; partners and their     *)
(* systems; users and their sessions; and what they all are told.          *)
(***************************************************************************)
EXTENDS Compliance, Partners, Notifications, Access

\* A key belongs to one table, and only two tables have no version column.  What is
\* looked at together is closed under the indexes: with the keys and the events of
\* partners their slots, with users and drivers their profiles.
ASSUME TablesAssumption ==
  LET entries == (UNION {Names, TemplateCodes, Keys, Emails, Licences, Plates, Codes})
                 \cup {Slot(k, tag) : k \in ApiKeys, tag \in Tags}
                 \cup {Profile(u) : u \in Accounts}
      marks == {Processed(k) : k \in EventKeys}
      tables == <<Categories, Models, Units, Shipments, Permits, Escorts, Restrictions,
                  AxleProfiles, Checks, Certifications, Partners, ApiKeys, Subscriptions,
                  InboundEvents, Templates, Notifications, Attempts, Accounts, Drivers,
                  Vehicles, Warehouses, RefreshTokens, entries, marks>>
  IN /\ \A i, j \in 1..24 : i # j => tables[i] \cap tables[j] = {}
     /\ Unversioned \subseteq ApiKeys \cup InboundEvents
     /\ \A scope \in Scopes :
          /\ \A e \in scope \cap InboundEvents, k \in scope \cap ApiKeys, tag \in Tags :
               Slot(k, tag) \in scope
          /\ \A d \in scope \cap Drivers, u \in scope \cap Accounts : Profile(u) \in scope

OperationsStep(r) ==
  \/ EquipmentStep(r) \/ ComplianceStep(r)
  \/ PartnersStep(r) \/ NotificationsStep(r) \/ AccessStep(r)

OperationsNext == \E r \in Requests : OperationsStep(r) \/ Commit(r) \/ Abort(r)

OperationsSpec == Init /\ [][OperationsNext]_rows
=============================================================================
