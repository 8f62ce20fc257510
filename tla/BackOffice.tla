----------------------------- MODULE BackOffice -----------------------------
(***************************************************************************)
(* The departments that trade, insure and settle, over one database: any   *)
(* request may call any of their services, and requests of different       *)
(* services meet in the rows they both read or write.                      *)
(***************************************************************************)
EXTENDS Settlements, Commerce

\* Each key is of one table, and each table here has a version column or only
\* rows that are never written again.
ASSUME TablesAssumption ==
  LET tables == <<Policies, CoverageRules, Claims, DamageReports, LiabilityRecords,
                  Settlements, Payouts, Invoices, Consumptions, Customers, Numbers,
                  Orders, Users, Cancellations, Quotes>>
  IN /\ \A i, j \in 1..15 : i # j => tables[i] \cap tables[j] = {}
     /\ \A i \in 1..15 : tables[i] \cap Unversioned = {}

BackOfficeStep(r) ==
  \/ InsuranceStep(r) \/ ClaimStep(r) \/ FindingStep(r)
  \/ SettlementStep(r) \/ CommerceStep(r)

BackOfficeNext == \E r \in Requests : BackOfficeStep(r) \/ Commit(r) \/ Abort(r)

BackOfficeSpec == Init /\ [][BackOfficeNext]_rows
=============================================================================
