-------------------------- MODULE BackOfficeProofs --------------------------
(* Theorems about BackOffice: the departments keep the promise of              *)
(* OptimisticRows, and BooksInv, the invariant that ties what a request has    *)
(* planned to the rows as they are: all that a request wrote fits the row it   *)
(* loaded, and at its commit the row it loaded is the row that stands there.   *)
EXTENDS BackOffice, OptimisticRowsProofs, FiniteSetTheorems, WellFoundedInduction

\* A single-row operation of a service.
LEMMA Writing ==
  ASSUME RowsInv, NEW r \in Requests, NEW op, NEW x \in DOMAIN db, NEW row,
         Asked(r, op), Write(r, op, x, row)
  PROVE  TakeUp(r)
BY WriteTakesUp DEF RowsInv, Asked, Flushing, Idle

\* One that writes several.
LEMMA Planning ==
  ASSUME RowsInv, NEW r \in Requests, NEW op, NEW writes, NEW then,
         req[r].pc # "flush", then.pc # "flush", DOMAIN writes \subseteq DOMAIN db,
         Prepare(r, Plan(op, writes, then))
  PROVE  TakeUp(r)
BY PrepareTakesUp DEF RowsInv, Flushing

\* Policies and their rules.
LEMMA InsuranceTakesUp ==
  ASSUME RowsInv, NEW r \in Requests, InsuranceStep(r)
  PROVE  TakeUp(r)
<1>1. CASE CreatePolicy(r)
  BY <1>1, Writing DEF CreatePolicy, Insert, Among
<1>2. CASE PolicyTransition(r)
  BY <1>2, Writing DEF PolicyTransition, Transition, Among
<1>3. CASE UpdatePolicy(r)
  BY <1>3, Writing DEF UpdatePolicy, Among
<1>4. CASE CreateCoverageRule(r)
  BY <1>4, Writing DEF CreateCoverageRule, Insert, Among
<1>5. CASE UpdateCoverageRule(r)
  BY <1>5, Writing DEF UpdateCoverageRule, Among
<1> QED
  BY <1>1, <1>2, <1>3, <1>4, <1>5 DEF InsuranceStep

\* Claims.
LEMMA ClaimTakesUp ==
  ASSUME RowsInv, NEW r \in Requests, ClaimStep(r)
  PROVE  TakeUp(r)
<1>1. CASE CreateClaim(r)
  BY <1>1, Writing DEF CreateClaim, Insert, Among
<1>2. CASE SubmitClaimForReview(r)
  BY <1>2, Writing DEF SubmitClaimForReview, Transition, Among
<1>3. CASE ReopenClaim(r)
  BY <1>3, Writing DEF ReopenClaim, Transition, Among
<1>4. CASE ApproveClaim(r)
  BY <1>4, Writing DEF ApproveClaim, Transition, Among
<1>5. CASE RejectClaim(r)
  BY <1>5, Writing DEF RejectClaim, Transition, Among
<1>6. CASE SettleClaim(r)
  BY <1>6, Writing DEF SettleClaim, Transition, Among
<1>7. CASE CloseClaim(r)
  BY <1>7, Writing DEF CloseClaim, Transition, Among
<1>8. CASE UpdateClaim(r)
  BY <1>8, Writing DEF UpdateClaim, Among
<1>9. CASE DeleteClaim(r)
  BY <1>9, Writing DEF DeleteClaim, SoftDelete, Among
<1>10. CASE RestoreClaim(r)
  BY <1>10, Writing DEF RestoreClaim, Undelete, Among
<1> QED
  BY <1>1, <1>2, <1>3, <1>4, <1>5, <1>6, <1>7, <1>8, <1>9, <1>10 DEF ClaimStep

\* Reports and shares of liability.
LEMMA FindingTakesUp ==
  ASSUME RowsInv, NEW r \in Requests, FindingStep(r)
  PROVE  TakeUp(r)
<1>1. CASE CreateDamageReport(r)
  BY <1>1, Writing DEF CreateDamageReport, Insert, Among
<1>2. CASE CreateLiabilityRecord(r)
  BY <1>2, Writing DEF CreateLiabilityRecord, Insert, Among
<1> QED
  BY <1>1, <1>2 DEF FindingStep

\* Settlements, in one transaction or two.
LEMMA SettlementTakesUp ==
  ASSUME RowsInv, NEW r \in Requests, SettlementStep(r)
  PROVE  TakeUp(r)
<1>1. CASE CreateSettlement(r)
  BY <1>1, Writing DEF CreateSettlement, Insert, Among
<1>2. CASE ConsumeClaimSettlement(r)
  BY <1>2, Planning DEF ConsumeClaimSettlement, Among, Asked, Idle, Row, Resume
<1>3. CASE ApplyInvoiceClaimAdjustment(r)
  BY <1>3, Planning DEF ApplyInvoiceClaimAdjustment, Among, Owned, Idle
<1>4. CASE SubmitSettlementForApproval(r)
  BY <1>4, Writing DEF SubmitSettlementForApproval, Transition, Among
<1>5. CASE ApproveSettlement(r)
  BY <1>5, Writing DEF ApproveSettlement, Transition, Among
<1>6. CASE SettleSettlement(r)
  BY <1>6, Writing DEF SettleSettlement, Transition, Among
<1>7. CASE CancelSettlement(r)
  BY <1>7, Writing DEF CancelSettlement, Transition, Among
<1>8. CASE UpdateSettlement(r)
  BY <1>8, Writing DEF UpdateSettlement, Among
<1>9. CASE CreatePayout(r)
  BY <1>9, Writing DEF CreatePayout, Insert, Among
<1>10. CASE IssueInvoice(r)
  BY <1>10, Writing DEF IssueInvoice, Insert, Among
<1>11. CASE FinaliseInvoice(r)
  BY <1>11, Writing DEF FinaliseInvoice, Among
<1> QED
  BY <1>1, <1>2, <1>3, <1>4, <1>5, <1>6, <1>7, <1>8, <1>9, <1>10, <1>11 DEF SettlementStep

\* Customers and their numbers.
LEMMA CustomerTakesUp ==
  ASSUME RowsInv, NEW r \in Requests, CustomerStep(r)
  PROVE  TakeUp(r)
<1>1. CASE CreateCustomer(r)
  BY <1>1, Planning DEF CreateCustomer, Among, Asked, Idle
<1>2. CASE UpdateCustomer(r)
  BY <1>2, Planning, Writing DEF UpdateCustomer, Among, Asked, Idle
<1>3. CASE CustomerTransition(r)
  BY <1>3, Writing DEF CustomerTransition, Transition, Among
<1>4. CASE DeleteCustomer(r)
  BY <1>4, Writing DEF DeleteCustomer, SoftDelete, Among
<1>5. CASE RestoreCustomer(r)
  BY <1>5, Writing DEF RestoreCustomer, Undelete, Among
<1> QED
  BY <1>1, <1>2, <1>3, <1>4, <1>5 DEF CustomerStep

\* Orders and the announcement of a cancellation.
LEMMA OrderTakesUp ==
  ASSUME RowsInv, NEW r \in Requests, OrderStep(r)
  PROVE  TakeUp(r)
<1>1. CASE CreateOrder(r)
  BY <1>1, Writing DEF CreateOrder, Insert, Among
<1>2. CASE UpdateOrder(r)
  BY <1>2, Writing DEF UpdateOrder, Among
<1>3. CASE OrderTransition(r)
  BY <1>3, Writing DEF OrderTransition, Transition, Among
<1>4. CASE AssignOrder(r)
  BY <1>4, Writing DEF AssignOrder, Transition, Among
<1>5. CASE CancelOrder(r)
  BY <1>5, Planning DEF CancelOrder, Among, Asked, Idle
<1>6. CASE DeleteOrder(r)
  BY <1>6, Writing DEF DeleteOrder, SoftDelete, Among
<1>7. CASE RestoreOrder(r)
  BY <1>7, Writing DEF RestoreOrder, Undelete, Among
<1> QED
  BY <1>1, <1>2, <1>3, <1>4, <1>5, <1>6, <1>7 DEF OrderStep

\* Quotes.
LEMMA QuoteTakesUp ==
  ASSUME RowsInv, NEW r \in Requests, QuoteStep(r)
  PROVE  TakeUp(r)
<1>1. CASE CreateQuote(r)
  BY <1>1, Writing DEF CreateQuote, Insert, Among
<1>2. CASE QuoteTransition(r)
  BY <1>2, Writing DEF QuoteTransition, Transition, Among
<1>3. CASE ApproveQuote(r)
  BY <1>3, Writing DEF ApproveQuote, Transition, Among
<1>4. CASE UpdateQuote(r)
  BY <1>4, Writing DEF UpdateQuote, Among
<1> QED
  BY <1>1, <1>2, <1>3, <1>4 DEF QuoteStep


\* Users.
LEMMA CreateUserTakesUp ==
  ASSUME RowsInv, NEW r \in Requests, CreateUser(r)
  PROVE  TakeUp(r)
BY Writing DEF CreateUser, Insert, Among

\* Any department.
LEMMA StepTakesUp ==
  ASSUME RowsInv, NEW r \in Requests, BackOfficeStep(r)
  PROVE  TakeUp(r)
BY InsuranceTakesUp, ClaimTakesUp, FindingTakesUp, SettlementTakesUp,
   CustomerTakesUp, OrderTakesUp, QuoteTakesUp, CreateUserTakesUp
   DEF BackOfficeStep, CommerceStep

\* Every step of the back office is one of OptimisticRows: work taken up on rows as
\* they are (also in the second transaction of a settlement), a commit or an abort.
THEOREM Implementation == BackOfficeSpec => Spec
<1>1. RowsInv /\ BackOfficeNext => Next
  <2> SUFFICES ASSUME RowsInv, BackOfficeNext PROVE Next
    OBVIOUS
  <2>1. PICK r \in Requests : BackOfficeStep(r) \/ Commit(r) \/ Abort(r)
    BY DEF BackOfficeNext
  <2>2. CASE BackOfficeStep(r)
    BY <2>2, StepTakesUp DEF Next
  <2> QED
    BY <2>1, <2>2 DEF Next
<1>2. Init => RowsInv
  BY InitQuiet
<1>3. RowsInv /\ [Next]_rows => RowsInv'
  BY StepKeeps
<1>4. RowsInv /\ [BackOfficeNext]_rows => [Next]_rows
  BY <1>1
<1> QED
  BY <1>2, <1>3, <1>4, PTL DEF BackOfficeSpec, Spec

\* So none of the departments loses an update, however their requests interleave.
THEOREM NoUpdateIsLostThere == BackOfficeSpec => NoLostUpdate
BY Implementation, NoUpdateIsLost

\* The table a key is of.
TableOf(x) ==
  LET tables == <<Policies, CoverageRules, Claims, DamageReports, LiabilityRecords,
                  Settlements, Payouts, Invoices, Consumptions, Customers, Numbers,
                  Orders, Users, Cancellations, Quotes>>
  IN CHOOSE i \in 1..15 : x \in tables[i]

\* A key is in one table only, and its row has a version.
LEMMA KeyTables ==
  ASSUME NEW x
  PROVE  /\ x \in Policies => TableOf(x) = 1 /\ x \notin Unversioned
         /\ x \in CoverageRules => TableOf(x) = 2 /\ x \notin Unversioned
         /\ x \in Claims => TableOf(x) = 3 /\ x \notin Unversioned
         /\ x \in DamageReports => TableOf(x) = 4 /\ x \notin Unversioned
         /\ x \in LiabilityRecords => TableOf(x) = 5 /\ x \notin Unversioned
         /\ x \in Settlements => TableOf(x) = 6 /\ x \notin Unversioned
         /\ x \in Payouts => TableOf(x) = 7 /\ x \notin Unversioned
         /\ x \in Invoices => TableOf(x) = 8 /\ x \notin Unversioned
         /\ x \in Consumptions => TableOf(x) = 9 /\ x \notin Unversioned
         /\ x \in Customers => TableOf(x) = 10 /\ x \notin Unversioned
         /\ x \in Numbers => TableOf(x) = 11 /\ x \notin Unversioned
         /\ x \in Orders => TableOf(x) = 12 /\ x \notin Unversioned
         /\ x \in Users => TableOf(x) = 13 /\ x \notin Unversioned
         /\ x \in Cancellations => TableOf(x) = 14 /\ x \notin Unversioned
         /\ x \in Quotes => TableOf(x) = 15 /\ x \notin Unversioned
<1> DEFINE tables == <<Policies, CoverageRules, Claims, DamageReports, LiabilityRecords,
                  Settlements, Payouts, Invoices, Consumptions, Customers, Numbers,
                  Orders, Users, Cancellations, Quotes>>
<1>1. ASSUME NEW i \in 1..15, x \in tables[i] PROVE TableOf(x) = i /\ x \notin Unversioned
  BY <1>1, TablesAssumption DEF TableOf
<1> QED
  BY <1>1

-----------------------------------------------------------------------------
(* What a plan writes *)

Number(row) == IF row = Absent THEN None ELSE row.number

Adjusted(row) == IF row = Absent THEN 0 ELSE row.adjusted

Upto(i) == {Stages[j] : j \in 1..i}

\* The stages an order row has behind it.
Staged(row) ==
  \E i \in 0..6 :
    /\ row.stamps \ Failures = Upto(i)
    /\ row.stamps \cap Failures = {row.status} \cap Failures
    /\ row.status \in Failures \cup {IF i = 0 THEN "draft" ELSE Stages[i]}
    /\ i >= 4 <=> row.dispatcher # None

\* What may stand in the database under x.
Sound(x, row) ==
  \/ row = Absent
  \/ /\ row.status # "absent"
     /\ x \in Policies => row \in PolicyRows
     /\ x \in CoverageRules => row \in RuleRows
     /\ x \in Claims => row \in ClaimRows /\ DecidedHasAmount(row)
     /\ x \in DamageReports => row \in ReportRows
     /\ x \in LiabilityRecords => row \in LiabilityRows
     /\ x \in Settlements =>
          row \in SettlementRows /\ (row.status \in {"approved", "settled"} => row.approvedAt)
     /\ x \in Payouts => row \in PayoutRows
     /\ x \in Invoices => row \in InvoiceRows
     /\ x \in Consumptions => row \in ConsumptionRows
     /\ x \in Customers => row \in CustomerRows
     /\ x \in Numbers => row \in EntryRows
     /\ x \in Orders => row \in OrderRows /\ Staged(row)
     /\ x \in Users => row \in UserRows
     /\ x \in Cancellations => row \in CancellationRows
     /\ x \in Quotes => row \in QuoteRows /\ row.total + row.discount = row.price

\* How a plan may change the row under x.
Lawful(x, old, new) ==
  /\ x \notin Unversioned
  /\ x \notin Numbers => new # Absent
  /\ x \in Payouts \cup Consumptions \cup Cancellations \cup LiabilityRecords => old = Absent
  /\ x \in Policies => (old.status \in {"expired", "cancelled"} => new = old)
  /\ x \in Claims => (old # Absent /\ old.approved # None => new.approved # None)
  /\ x \in Settlements =>
       /\ old # Absent /\ old.approvedAt => new.approvedAt
       /\ old.status \in {"approved", "settled", "cancelled"} =>
            new = [old EXCEPT !.status = new.status]
       /\ old.status \in {"settled", "cancelled"} => new = old
  /\ x \in Invoices => (old.status = "final" => new = old)
  /\ x \in Orders =>
       (old.status \in TerminalOrders => [new EXCEPT !.deleted = old.deleted] = old)
  /\ x \in Quotes => (old.status \in TerminalQuotes => new = old)

\* A plan that writes this row alone leaves no other row out of step with it.
Alone(x, old, new) ==
  /\ x \notin Consumptions \cup Cancellations \cup Numbers
  /\ x \in Customers => Number(new) = Number(old)
  /\ x \in Invoices => Adjusted(new) = Adjusted(old)
  /\ x \in Orders => (new.status = "cancelled" => old.status = "cancelled")

\* What the row says of other rows is so.
Rests(x, row) ==
  row # Absent =>
    /\ x \in Settlements /\ row.backed /\ row.claim # None =>
         row.claim \in Among(Claims) /\ Exists(row.claim) /\ db[row.claim].approved # None
    /\ x \in Payouts =>
         /\ row.settlement \in Among(Settlements)
         /\ Exists(row.settlement)
         /\ db[row.settlement].approvedAt
    /\ x \in Consumptions => row.settlement \in Among(Settlements) /\ Exists(row.settlement)

Fine(x, row) ==
  Sound(x, row) /\ Lawful(x, db[x], row) /\ Alone(x, db[x], row) /\ Rests(x, row)

Good(x, row) == Fine(x, row) /\ x \notin LiabilityRecords

RowsSound == \A x \in DOMAIN db : Sound(x, db[x])

\* Rows that may be written under a key of each table.
LEMMA GoodPolicy ==
  ASSUME NEW x \in Policies, NEW row \in PolicyRows,
         db[x].status \in {"expired", "cancelled"} => row = db[x]
  PROVE  Good(x, row)
<1>1. row.status # "absent" /\ row # Absent
  BY DEF PolicyRows, PolicyTransitions, Absent
<1> QED
  BY <1>1, KeyTables DEF Good, Fine, Sound, Lawful, Alone, Rests

\* A claim row: decided with an amount, and no approval is taken back.
LEMMA GoodClaim ==
  ASSUME NEW x \in Claims, NEW row \in ClaimRows, DecidedHasAmount(row),
         db[x] # Absent /\ db[x].approved # None => row.approved # None
  PROVE  Good(x, row)
<1>1. row.status # "absent" /\ row # Absent
  BY DEF ClaimRows, ClaimTransitions, Absent
<1> QED
  BY <1>1, KeyTables DEF Good, Fine, Sound, Lawful, Alone, Rests

\* A settlement row: settled through approval, backed by an approved claim.
LEMMA GoodSettlement ==
  ASSUME NEW x \in Settlements, NEW row \in SettlementRows,
         row.status \in {"approved", "settled"} => row.approvedAt,
         db[x] # Absent /\ db[x].approvedAt => row.approvedAt,
         db[x].status \in {"approved", "settled", "cancelled"} =>
            row = [db[x] EXCEPT !.status = row.status],
         db[x].status \in {"settled", "cancelled"} => row = db[x],
         Rests(x, row)
  PROVE  Good(x, row)
<1>1. row.status # "absent" /\ row # Absent
  BY DEF SettlementRows, SettlementTransitions, Absent
<1> QED
  BY <1>1, KeyTables DEF Good, Fine, Sound, Lawful, Alone

\* An order row, unless it becomes a cancelled one.
LEMMA GoodOrder ==
  ASSUME NEW x \in Orders, NEW row \in OrderRows, Staged(row),
         db[x].status \in TerminalOrders => [row EXCEPT !.deleted = db[x].deleted] = db[x],
         row.status = "cancelled" => db[x].status = "cancelled"
  PROVE  Good(x, row)
<1>1. row.status # "absent" /\ row # Absent
  BY DEF OrderRows, OrderTransitions, Absent
<1> QED
  BY <1>1, KeyTables DEF Good, Fine, Sound, Lawful, Alone, Rests

\* A quote row whose discount and total make up its price.
LEMMA GoodQuote ==
  ASSUME NEW x \in Quotes, NEW row \in QuoteRows, row.total + row.discount = row.price,
         db[x].status \in TerminalQuotes => row = db[x]
  PROVE  Good(x, row)
<1>1. row.status # "absent" /\ row # Absent
  BY DEF QuoteRows, QuoteTransitions, Absent
<1> QED
  BY <1>1, KeyTables DEF Good, Fine, Sound, Lawful, Alone, Rests

\* A customer row that keeps its number.
LEMMA GoodCustomer ==
  ASSUME NEW x \in Customers, NEW row \in CustomerRows, Number(row) = Number(db[x])
  PROVE  Good(x, row)
<1>1. row.status # "absent" /\ row # Absent
  BY DEF CustomerRows, CustomerTransitions, Absent
<1> QED
  BY <1>1, KeyTables DEF Good, Fine, Sound, Lawful, Alone, Rests

\* An invoice row that keeps its adjustment.
LEMMA GoodInvoice ==
  ASSUME NEW x \in Invoices, NEW row \in InvoiceRows, Adjusted(row) = Adjusted(db[x]),
         db[x].status = "final" => row = db[x]
  PROVE  Good(x, row)
<1>1. row.status # "absent" /\ row # Absent
  BY DEF InvoiceRows, Absent
<1> QED
  BY <1>1, KeyTables DEF Good, Fine, Sound, Lawful, Alone, Rests

\* Rows nothing depends on, and payouts.
LEMMA GoodRecord ==
  ASSUME NEW x, NEW row,
         \/ x \in CoverageRules /\ row \in RuleRows
         \/ x \in DamageReports /\ row \in ReportRows
         \/ x \in Users /\ row \in UserRows
         \/ x \in Payouts /\ row \in PayoutRows /\ db[x] = Absent /\ Rests(x, row)
  PROVE  Good(x, row)
<1>1. /\ row \in RuleRows => row.status = "rule"
      /\ row \in ReportRows => row.status = "reported"
      /\ row \in UserRows => row.status = "user"
      /\ row \in PayoutRows => row.status = "pending"
  BY DEF RuleRows, ReportRows, UserRows, PayoutRows
<1>2. row.status # "absent" /\ row # Absent
  BY <1>1 DEF Absent
<1>3. x \notin Payouts => Rests(x, row)
  BY KeyTables DEF Rests
<1> QED
  BY <1>2, <1>3, KeyTables DEF Good, Fine, Sound, Lawful, Alone

\* A share of liability.
LEMMA FineShare ==
  ASSUME NEW x \in LiabilityRecords, NEW row \in LiabilityRows, db[x] = Absent
  PROVE  Fine(x, row)
<1>1. row.status = "determined" /\ row # Absent
  BY DEF LiabilityRows, Absent
<1> QED
  BY <1>1, KeyTables DEF Fine, Sound, Lawful, Alone, Rests

-----------------------------------------------------------------------------
(* What a plan that writes several rows keeps together *)

\* An index entry moves with the number of its customer.
NumbersMove(l, w) ==
  /\ \A c \in DOMAIN w \cap Customers : Number(w[c]) # Number(l[c]) =>
       /\ Number(w[c]) \in DOMAIN w \cap Numbers
       /\ w[Number(w[c])] = Entry(c)
       /\ Number(l[c]) # None => Number(l[c]) \in DOMAIN w
  /\ \A n \in DOMAIN w \cap Numbers :
       IF w[n] = Absent
       THEN l[n] # Absent /\ l[n].of \in DOMAIN w \cap Customers /\ Number(w[l[n].of]) # n
       ELSE l[n] = Absent /\ w[n].of \in DOMAIN w \cap Customers /\ Number(w[w[n].of]) = n

\* An order is cancelled with one announcement.
CancelTold(l, w) ==
  /\ \A e \in DOMAIN w \cap Cancellations :
       /\ l[e] = Absent /\ w[e] # Absent
       /\ w[e].order \in DOMAIN w \cap Orders
       /\ l[w[e].order].status # "cancelled"
       /\ w[w[e].order].status = "cancelled"
       /\ w[e].compensate <=> w[w[e].order].dispatcher # None
       /\ \A f \in DOMAIN w \cap Cancellations : f = e
  /\ \A o \in DOMAIN w \cap Orders : w[o].status = "cancelled" =>
       \/ l[o].status = "cancelled"
       \/ \E e \in DOMAIN w \cap Cancellations : w[e].order = o

\* An invoice is adjusted with one announcement.
AdjustTold(l, w) ==
  /\ \A e \in DOMAIN w \cap Consumptions :
       /\ l[e] = Absent /\ w[e] # Absent
       /\ w[e].invoice \in DOMAIN w \cap Invoices
       /\ l[w[e].invoice] # Absent
       /\ w[w[e].invoice].adjusted = l[w[e].invoice].adjusted + w[e].amount
       /\ \A f \in DOMAIN w \cap Consumptions : f = e
  /\ \A i \in DOMAIN w \cap Invoices :
       \/ Adjusted(w[i]) = Adjusted(l[i])
       \/ \E e \in DOMAIN w \cap Consumptions : w[e].invoice = i

\* A request that goes on after its commit has a new settlement to go on with.
GoesOn(p) ==
  /\ p.then.pc \in {"idle", "resume"}
  /\ p.then.pc = "resume" =>
       /\ p.then.settlement \in DOMAIN p.writes \cap Settlements
       /\ p.loaded[p.then.settlement] = Absent
       /\ p.then.invoice \in Invoices
       /\ DOMAIN p.writes \cap Consumptions = {}

RowFits(x, old, new) == Sound(x, new) /\ Lawful(x, old, new) /\ Rests(x, new)

FlushFits(p) ==
  /\ IsFiniteSet(DOMAIN p.writes)
  /\ \A x \in DOMAIN p.writes : RowFits(x, p.loaded[x], p.writes[x])
  /\ NumbersMove(p.loaded, p.writes)
  /\ CancelTold(p.loaded, p.writes)
  /\ AdjustTold(p.loaded, p.writes)
  /\ GoesOn(p)

\* What a request is about to do fits the rows as they are.
Fits(p) ==
  /\ p.pc = "flush" => FlushFits(p)
  /\ p.pc = "resume" =>
       /\ p.settlement \in Among(Settlements)
       /\ db[p.settlement] # Absent
       /\ p.invoice \in Invoices

\* The request is on its way to announce that settlement s is consumed.
Carries(p, s) ==
  \/ p.pc = "flush" /\ p.then.pc = "resume" /\ p.then.settlement = s
  \/ p.pc = "resume" /\ p.settlement = s
  \/ p.pc = "flush" /\ \E e \in DOMAIN p.writes \cap Consumptions : p.writes[e].settlement = s

\* What r takes up fits, it carries only what it carried or what is new, and it
\* records a share of liability only if it was asked to.
Planned(r) ==
  /\ Fits(req'[r])
  /\ DOMAIN req'[r].writes \cap LiabilityRecords # {} => CreateLiabilityRecord(r)
  /\ \A s : Carries(req'[r], s) => Carries(req[r], s) \/ Fresh(s)

\* What a single-row write leaves planned.
LEMMA WritePlans ==
  ASSUME RowsInv, NEW r \in Requests, NEW op, NEW x \in DOMAIN db, NEW row,
         Write(r, op, x, row), Fine(x, row)
  PROVE  /\ Fits(req'[r]) /\ DOMAIN req'[r].writes = {x}
         /\ \A s : ~Carries(req'[r], s)
<1> DEFINE p == Plan(op, Row(x, row), Idle)
<1>1. /\ req'[r] = p /\ p.pc = "flush" /\ p.then.pc = "idle"
      /\ DOMAIN p.writes = {x} /\ p.writes[x] = row /\ p.loaded[x] = db[x]
  BY DEF RowsInv, Write, Prepare, Plan, Row, Idle
<1> HIDE DEF p
<1>2. IsFiniteSet(DOMAIN p.writes)
  BY <1>1, FS_Singleton
<1>3. NumbersMove(p.loaded, p.writes)
  BY <1>1 DEF Fine, Alone, NumbersMove
<1>4. CancelTold(p.loaded, p.writes)
  BY <1>1 DEF Fine, Alone, CancelTold
<1>5. AdjustTold(p.loaded, p.writes)
  BY <1>1 DEF Fine, Alone, AdjustTold
<1>6. GoesOn(p)
  BY <1>1 DEF GoesOn
<1>7. RowFits(x, p.loaded[x], p.writes[x])
  BY <1>1 DEF Fine, RowFits
<1>8. Fits(p)
  BY <1>1, <1>2, <1>3, <1>4, <1>5, <1>6, <1>7 DEF Fits, FlushFits
<1>9. \A s : ~Carries(p, s)
  BY <1>1 DEF Fine, Alone, Carries
<1> QED
  BY <1>1, <1>8, <1>9

\* One good row alone makes a plan that fits.
LEMMA WriteFits ==
  ASSUME RowsInv, NEW r \in Requests, NEW op, NEW x \in DOMAIN db, NEW row,
         Write(r, op, x, row), Good(x, row)
  PROVE  Planned(r)
BY WritePlans DEF Good, Planned

-----------------------------------------------------------------------------
(* Every operation plans what fits *)

\* An index entry and its customer point at each other.
Indexed ==
  /\ \A c \in Among(Customers) : Number(db[c]) # None =>
       Number(db[c]) \in Among(Numbers) /\ db[Number(db[c])] = Entry(c)
  /\ \A n \in Among(Numbers) : db[n] # Absent =>
       db[n].of \in Among(Customers) /\ Number(db[db[n].of]) = n

\* A cancelled order and its announcement.
Announced ==
  /\ \A o \in Among(Orders) : db[o].status = "cancelled" =>
       \E e \in Among(Cancellations) : db[e] # Absent /\ db[e].order = o
  /\ \A e \in Among(Cancellations) : db[e] # Absent =>
       /\ db[e].order \in Among(Orders)
       /\ db[db[e].order].status = "cancelled"
       /\ db[e].compensate <=> db[db[e].order].dispatcher # None
       /\ \A f \in Among(Cancellations) : db[f] # Absent /\ db[f].order = db[e].order => f = e

RowsRest == \A x \in DOMAIN db : Rests(x, db[x])

\* The rows by themselves.
DbInv ==
  /\ DOMAIN db \in Scopes
  /\ IsFiniteSet({x \in DOMAIN db : db[x] # Absent})
  /\ RowsSound
  /\ RowsRest
  /\ Indexed
  /\ Announced

\* A row that is read has the columns of its table.
LEMMA Typed ==
  ASSUME RowsSound, NEW x \in DOMAIN db
  PROVE  /\ Exists(x) <=> db[x] # Absent
         /\ Exists(x) /\ x \in Policies => db[x] \in PolicyRows
         /\ Exists(x) /\ x \in CoverageRules => db[x] \in RuleRows
         /\ Exists(x) /\ x \in Claims => db[x] \in ClaimRows /\ DecidedHasAmount(db[x])
         /\ Exists(x) /\ x \in DamageReports => db[x] \in ReportRows
         /\ Exists(x) /\ x \in LiabilityRecords => db[x] \in LiabilityRows
         /\ Exists(x) /\ x \in Settlements =>
              /\ db[x] \in SettlementRows
              /\ db[x].status \in {"approved", "settled"} => db[x].approvedAt
         /\ Exists(x) /\ x \in Payouts => db[x] \in PayoutRows
         /\ Exists(x) /\ x \in Invoices => db[x] \in InvoiceRows
         /\ Exists(x) /\ x \in Consumptions => db[x] \in ConsumptionRows
         /\ Exists(x) /\ x \in Customers => db[x] \in CustomerRows
         /\ Exists(x) /\ x \in Numbers => db[x] \in EntryRows
         /\ Exists(x) /\ x \in Orders => db[x] \in OrderRows /\ Staged(db[x])
         /\ Exists(x) /\ x \in Users => db[x] \in UserRows
         /\ Exists(x) /\ x \in Cancellations => db[x] \in CancellationRows
         /\ Exists(x) /\ x \in Quotes =>
              db[x] \in QuoteRows /\ db[x].total + db[x].discount = db[x].price
<1>1. Sound(x, db[x])
  BY DEF RowsSound
<1>2. CASE db[x] = Absent
  BY <1>2 DEF Absent, Exists
<1>3. CASE db[x] # Absent
  BY <1>1, <1>3 DEF Sound, Exists
<1> QED
  BY <1>2, <1>3

\* Policies and their rules.
LEMMA InsuranceFits ==
  ASSUME RowsInv, DbInv, NEW r \in Requests, InsuranceStep(r)
  PROVE  Planned(r)
<1>1. CASE CreatePolicy(r)
  <2>1. PICK p \in Among(Policies), covers \in BOOLEAN :
               Fresh(p) /\ Write(r, "create_policy", p, PolicyRow(covers))
    BY <1>1 DEF CreatePolicy, Insert
  <2>2. PolicyRow(covers) \in PolicyRows /\ db[p].status \notin {"expired", "cancelled"}
    BY <2>1 DEF PolicyRow, PolicyRows, PolicyTransitions, Fresh, Exists
  <2> QED
    BY <2>1, <2>2, GoodPolicy, WriteFits DEF Among
<1>2. CASE PolicyTransition(r)
  <2>1. PICK op \in DOMAIN PolicyOperations, p \in Among(Policies) :
               Transition(r, op, p, PolicyTransitions, PolicyOperations[op], db[p])
    BY <1>2 DEF PolicyTransition
  <2> DEFINE row == [db[p] EXCEPT !.status = PolicyOperations[op]]
  <2>2. db[p] \in PolicyRows /\ PolicyOperations[op] \in PolicyTransitions[db[p].status]
    BY <2>1, Typed DEF DbInv, Transition, Live, Among
  <2>3. row \in PolicyRows /\ db[p].status \notin {"expired", "cancelled"}
    BY <2>2 DEF PolicyRows, PolicyTransitions, PolicyOperations
  <2> QED
    BY <2>1, <2>3, GoodPolicy, WriteFits DEF Among, Transition
<1>3. CASE UpdatePolicy(r)
  <2>1. PICK p \in Among(Policies), covers \in BOOLEAN :
               /\ InStatus(p, {"draft", "active", "suspended"})
               /\ Write(r, "update_policy", p, [db[p] EXCEPT !.covers = covers])
    BY <1>3 DEF UpdatePolicy
  <2> DEFINE row == [db[p] EXCEPT !.covers = covers]
  <2>2. db[p] \in PolicyRows /\ db[p].status \notin {"expired", "cancelled"}
    BY <2>1, Typed DEF DbInv, InStatus, Live, Among
  <2>3. row \in PolicyRows
    BY <2>2 DEF PolicyRows
  <2> QED
    BY <2>1, <2>2, <2>3, GoodPolicy, WriteFits DEF Among
<1>4. CASE CreateCoverageRule(r)
  <2>1. PICK p \in Among(Policies), u \in Among(CoverageRules) :
               Write(r, "create_rule", u, [status |-> "rule", deleted |-> FALSE,
                                           policy |-> p, active |-> TRUE])
    BY <1>4 DEF CreateCoverageRule, Insert
  <2>2. [status |-> "rule", deleted |-> FALSE, policy |-> p, active |-> TRUE] \in RuleRows
    BY DEF RuleRows, Among
  <2> QED
    BY <2>1, <2>2, GoodRecord, WriteFits DEF Among
<1>5. CASE UpdateCoverageRule(r)
  <2>1. PICK u \in Among(CoverageRules), active \in BOOLEAN :
               Live(u) /\ Write(r, "update_rule", u, [db[u] EXCEPT !.active = active])
    BY <1>5 DEF UpdateCoverageRule
  <2>2. [db[u] EXCEPT !.active = active] \in RuleRows
    BY <2>1, Typed DEF DbInv, Live, Among, RuleRows
  <2> QED
    BY <2>1, <2>2, GoodRecord, WriteFits DEF Among
<1> QED
  BY <1>1, <1>2, <1>3, <1>4, <1>5 DEF InsuranceStep

\* No amount is NULL.
LEMMA AmountsAreValues == \A amount \in Amounts : amount # None
BY ClaimsAssumption

\* A claim moved along its table.
LEMMA ClaimMoves ==
  ASSUME RowsInv, DbInv, NEW r \in Requests, NEW op, NEW c \in Among(Claims),
         NEW target, NEW mutated \in ClaimRows,
         Transition(r, op, c, ClaimTransitions, target, mutated),
         Exists(c) /\ db[c].approved # None => mutated.approved # None,
         target \in {"approved", "settled"} => mutated.approved # None
  PROVE  Planned(r)
<1> DEFINE row == [mutated EXCEPT !.status = target]
<1>1. db[c] \in ClaimRows /\ target \in ClaimTransitions[db[c].status]
  BY Typed DEF DbInv, Transition, Live, Among
<1>2. row \in ClaimRows /\ row.status = target /\ row.approved = mutated.approved
  BY <1>1 DEF ClaimRows, ClaimTransitions
<1>3. DecidedHasAmount(row)
  BY <1>2 DEF DecidedHasAmount
<1>4. Exists(c)
  BY DEF Transition, Live
<1>5. Good(c, row)
  <2> HIDE DEF row
  <2> QED
    BY <1>2, <1>3, <1>4, GoodClaim DEF Among
<1> QED
  BY <1>5, WriteFits DEF Transition, Among

\* Every operation on a claim plans a row that fits.
LEMMA ClaimFits ==
  ASSUME RowsInv, DbInv, NEW r \in Requests, ClaimStep(r)
  PROVE  Planned(r)
<1>1. CASE CreateClaim(r)
  <2>1. PICK c \in Among(Claims), p \in Among(Policies) \cup {None},
             flagged \in BOOLEAN, claimed \in Amounts \cup {None} :
               /\ Fresh(c)
               /\ Write(r, "create_claim", c,
                        [status |-> "created", deleted |-> FALSE, policy |-> p,
                         flagged |-> flagged, claimed |-> claimed, approved |-> None])
    BY <1>1 DEF CreateClaim, Insert
  <2> DEFINE row == [status |-> "created", deleted |-> FALSE, policy |-> p,
                     flagged |-> flagged, claimed |-> claimed, approved |-> None]
  <2>2. row \in ClaimRows /\ DecidedHasAmount(row)
    BY DEF ClaimRows, ClaimTransitions, DecidedHasAmount, Among
  <2>3. db[c] = Absent
    BY <2>1, Typed DEF DbInv, Fresh, Among
  <2> QED
    BY <2>1, <2>2, <2>3, GoodClaim, WriteFits DEF Among
<1>2. CASE SubmitClaimForReview(r)
  <2>1. PICK c \in Among(Claims) :
               Transition(r, "review_claim", c, ClaimTransitions, "under_review", db[c])
    BY <1>2 DEF SubmitClaimForReview
  <2>2. db[c] \in ClaimRows
    BY <2>1, Typed DEF DbInv, Transition, Live, Among
  <2> QED
    BY <2>1, <2>2, ClaimMoves
<1>3. CASE ReopenClaim(r)
  <2>1. PICK c \in Among(Claims) :
               Transition(r, "reopen_claim", c, ClaimTransitions, "under_review", db[c])
    BY <1>3 DEF ReopenClaim
  <2>2. db[c] \in ClaimRows
    BY <2>1, Typed DEF DbInv, Transition, Live, Among
  <2> QED
    BY <2>1, <2>2, ClaimMoves
<1>4. CASE ApproveClaim(r)
  <2>1. PICK c \in Among(Claims), amount \in Amounts :
               Transition(r, "approve_claim", c, ClaimTransitions, "approved",
                          [db[c] EXCEPT !.approved = amount])
    BY <1>4 DEF ApproveClaim
  <2>2. db[c] \in ClaimRows /\ amount # None
    BY <2>1, Typed, AmountsAreValues DEF DbInv, Transition, Live, Among
  <2>3. [db[c] EXCEPT !.approved = amount] \in ClaimRows
    BY <2>2 DEF ClaimRows
  <2>4. [db[c] EXCEPT !.approved = amount].approved = amount
    BY <2>2 DEF ClaimRows
  <2> QED
    BY <2>1, <2>2, <2>3, <2>4, ClaimMoves
<1>5. CASE RejectClaim(r)
  <2>1. PICK c \in Among(Claims) :
               Transition(r, "reject_claim", c, ClaimTransitions, "rejected", db[c])
    BY <1>5 DEF RejectClaim
  <2>2. db[c] \in ClaimRows
    BY <2>1, Typed DEF DbInv, Transition, Live, Among
  <2> QED
    BY <2>1, <2>2, ClaimMoves
<1>6. CASE SettleClaim(r)
  <2>1. PICK c \in Among(Claims) :
               /\ db[c].approved # None
               /\ Transition(r, "settle_claim", c, ClaimTransitions, "settled", db[c])
    BY <1>6 DEF SettleClaim
  <2>2. db[c] \in ClaimRows
    BY <2>1, Typed DEF DbInv, Transition, Live, Among
  <2> QED
    BY <2>1, <2>2, ClaimMoves
<1>7. CASE CloseClaim(r)
  <2>1. PICK c \in Among(Claims) :
               Transition(r, "close_claim", c, ClaimTransitions, "closed", db[c])
    BY <1>7 DEF CloseClaim
  <2>2. db[c] \in ClaimRows
    BY <2>1, Typed DEF DbInv, Transition, Live, Among
  <2> QED
    BY <2>1, <2>2, ClaimMoves
<1>8. CASE UpdateClaim(r)
  <2>1. PICK c \in Among(Claims), claimed \in Amounts :
               Live(c) /\ Write(r, "update_claim", c, [db[c] EXCEPT !.claimed = claimed])
    BY <1>8 DEF UpdateClaim
  <2> DEFINE row == [db[c] EXCEPT !.claimed = claimed]
  <2>2. db[c] \in ClaimRows /\ DecidedHasAmount(db[c])
    BY <2>1, Typed DEF DbInv, Live, Among
  <2>3. row \in ClaimRows /\ DecidedHasAmount(row) /\ row.approved = db[c].approved
    BY <2>2 DEF ClaimRows, DecidedHasAmount
  <2> QED
    BY <2>1, <2>3, GoodClaim, WriteFits DEF Among
<1>9. CASE DeleteClaim(r)
  <2>1. PICK c \in Among(Claims) :
               Live(c) /\ Write(r, "delete_claim", c, [db[c] EXCEPT !.deleted = TRUE])
    BY <1>9 DEF DeleteClaim, SoftDelete
  <2> DEFINE row == [db[c] EXCEPT !.deleted = TRUE]
  <2>2. db[c] \in ClaimRows /\ DecidedHasAmount(db[c])
    BY <2>1, Typed DEF DbInv, Live, Among
  <2>3. row \in ClaimRows /\ DecidedHasAmount(row) /\ row.approved = db[c].approved
    BY <2>2 DEF ClaimRows, DecidedHasAmount
  <2> QED
    BY <2>1, <2>3, GoodClaim, WriteFits DEF Among
<1>10. CASE RestoreClaim(r)
  <2>1. PICK c \in Among(Claims) :
               db[c].deleted /\ Write(r, "restore_claim", c, [db[c] EXCEPT !.deleted = FALSE])
    BY <1>10 DEF RestoreClaim, Undelete
  <2> DEFINE row == [db[c] EXCEPT !.deleted = FALSE]
  <2>2. db[c] \in ClaimRows /\ DecidedHasAmount(db[c])
    BY <2>1, Typed DEF DbInv, Absent, Among
  <2>3. row \in ClaimRows /\ DecidedHasAmount(row) /\ row.approved = db[c].approved
    BY <2>2 DEF ClaimRows, DecidedHasAmount
  <2> QED
    BY <2>1, <2>3, GoodClaim, WriteFits DEF Among
<1> QED
  BY <1>1, <1>2, <1>3, <1>4, <1>5, <1>6, <1>7, <1>8, <1>9, <1>10 DEF ClaimStep

\* Reports and shares of liability.
LEMMA FindingFits ==
  ASSUME RowsInv, DbInv, NEW r \in Requests, FindingStep(r)
  PROVE  Planned(r)
<1>1. CASE CreateDamageReport(r)
  <2>1. PICK c \in Among(Claims), d \in Among(DamageReports) :
               Write(r, "create_report", d,
                     [status |-> "reported", deleted |-> FALSE, claim |-> c])
    BY <1>1 DEF CreateDamageReport, Insert
  <2>2. [status |-> "reported", deleted |-> FALSE, claim |-> c] \in ReportRows
    BY DEF ReportRows, Among
  <2> QED
    BY <2>1, <2>2, GoodRecord, WriteFits DEF Among
<1>2. CASE CreateLiabilityRecord(r)
  <2>1. PICK c \in Among(Claims), l \in Among(LiabilityRecords),
             share \in Shares \cup {None}, override \in Overrides :
               /\ Fresh(l)
               /\ Write(r, "create_liability", l,
                     [status |-> "determined", deleted |-> FALSE, claim |-> c,
                      share |-> share, overridden |-> override, beside |-> RecordsOf(c)])
    BY <1>2 DEF CreateLiabilityRecord, Insert
  <2>2. [status |-> "determined", deleted |-> FALSE, claim |-> c,
         share |-> share, overridden |-> override, beside |-> RecordsOf(c)] \in LiabilityRows
    BY ClaimsAssumption DEF LiabilityRows, RecordsOf, Among
  <2>3. db[l] = Absent
    BY <2>1, Typed DEF DbInv, Fresh, Among
  <2> QED
    BY <1>2, <2>1, <2>2, <2>3, FineShare, WritePlans DEF Among, Planned
<1> QED
  BY <1>1, <1>2 DEF FindingStep

\* The transitions of a settlement, spelt out.
LEMMA SettlementTable ==
  ASSUME NEW a \in DOMAIN SettlementTransitions, NEW b \in SettlementTransitions[a]
  PROVE  /\ b \in DOMAIN SettlementTransitions
         /\ b = "settled" => a = "approved"
         /\ b = "approved" => a = "pending_approval"
         /\ a \notin {"settled", "cancelled"}
<1>1. CASE a = "draft"
  BY <1>1 DEF SettlementTransitions
<1>2. CASE a = "pending_approval"
  BY <1>2 DEF SettlementTransitions
<1>3. CASE a = "approved"
  BY <1>3 DEF SettlementTransitions
<1>4. CASE a \in {"settled", "cancelled"}
  BY <1>4 DEF SettlementTransitions
<1> QED
  BY <1>1, <1>2, <1>3, <1>4 DEF SettlementTransitions

\* A settlement moved along its table.
LEMMA SettlementMoves ==
  ASSUME RowsInv, DbInv, NEW r \in Requests, NEW op, NEW s \in Among(Settlements),
         NEW target, NEW approved \in BOOLEAN,
         target # "approved" => approved = db[s].approvedAt,
         target = "approved" => approved,
         Transition(r, op, s, SettlementTransitions, target,
                    [db[s] EXCEPT !.approvedAt = approved])
  PROVE  Planned(r)
<1> DEFINE row == [[db[s] EXCEPT !.approvedAt = approved] EXCEPT !.status = target]
<1>1. /\ db[s] \in SettlementRows /\ target \in SettlementTransitions[db[s].status]
      /\ db[s].status \in {"approved", "settled"} => db[s].approvedAt
      /\ Exists(s)
  BY Typed DEF DbInv, Transition, Live, Among
<1>2. /\ row \in SettlementRows /\ row.status = target /\ row.approvedAt = approved
      /\ row.backed = db[s].backed /\ row.claim = db[s].claim
  <2> DEFINE mid == [db[s] EXCEPT !.approvedAt = approved]
  <2>1. target \in DOMAIN SettlementTransitions
    BY <1>1, SettlementTable DEF SettlementRows
  <2>2. /\ mid \in SettlementRows /\ mid.approvedAt = approved
        /\ mid.backed = db[s].backed /\ mid.claim = db[s].claim
    BY <1>1 DEF SettlementRows
  <2>3. row = [mid EXCEPT !.status = target]
    OBVIOUS
  <2> HIDE DEF mid, row
  <2> QED
    BY <2>1, <2>2, <2>3 DEF SettlementRows
<1>3. row.status \in {"approved", "settled"} => row.approvedAt
  <2>1. target = "settled" => db[s].status = "approved"
    BY <1>1, SettlementTable DEF SettlementRows
  <2> QED
    BY <1>1, <1>2, <2>1
<1>4. db[s].approvedAt => row.approvedAt
  BY <1>2
<1>5. db[s].status \in {"approved", "settled", "cancelled"} =>
         row = [db[s] EXCEPT !.status = row.status]
  <2>1. SUFFICES ASSUME db[s].status \in {"approved", "settled", "cancelled"}
                 PROVE  row = [db[s] EXCEPT !.status = row.status]
    OBVIOUS
  <2>2. approved = db[s].approvedAt
    BY <1>1, <2>1, SettlementTable DEF SettlementRows
  <2> QED
    BY <1>1, <1>2, <2>2 DEF SettlementRows
<1>6. db[s].status \notin {"settled", "cancelled"}
  BY <1>1, SettlementTable DEF SettlementRows
<1>7. Rests(s, row)
  BY <1>1, <1>2, Typed, KeyTables DEF Rests, DbInv, RowsRest, Among
<1>8. Good(s, row)
  <2> HIDE DEF row
  <2> QED
    BY <1>2, <1>3, <1>4, <1>5, <1>6, <1>7, GoodSettlement DEF Among
<1> QED
  BY <1>8, WriteFits DEF Transition, Among

\* A new settlement rests on what it was drawn up from.
LEMMA DraftIsGood ==
  ASSUME DbInv, NEW s \in Among(Settlements), Fresh(s),
         NEW c \in Among(Claims) \cup {None}, NEW i \in Among(Invoices) \cup {None},
         NEW backed \in BOOLEAN, NEW amount \in Amounts, NEW override,
         ValidAmount(c, backed, amount, override)
  PROVE  Good(s, Draft(c, backed, amount, i)) /\ db[s] = Absent
<1> DEFINE row == Draft(c, backed, amount, i)
<1>1. row \in SettlementRows
  BY DEF SettlementRows, SettlementTransitions, Draft, Among
<1>2. row.status = "draft" /\ row.backed = backed /\ row.claim = c
  BY DEF Draft
<1>3. db[s] = Absent
  BY Typed DEF DbInv, Fresh, Among
<1>4. db[s].status = "absent"
  BY <1>3 DEF Absent
<1>5. ASSUME backed, c # None PROVE Exists(c) /\ c \in Among(Claims) /\ db[c].approved # None
  <2>1. c \in Among(Claims) /\ Exists(c) /\ db[c].status \in {"approved", "settled"}
    BY <1>5 DEF ValidAmount, Owned, Live
  <2> QED
    BY <2>1, Typed DEF DbInv, DecidedHasAmount, Among
<1>6. Rests(s, row)
  BY <1>2, <1>5, KeyTables DEF Rests, Among
<1>7. Good(s, row)
  <2> HIDE DEF row
  <2> QED
    BY <1>1, <1>2, <1>3, <1>4, <1>6, GoodSettlement DEF Among
<1> QED
  BY <1>3, <1>7

\* Settlements, in one transaction or two.
LEMMA SettlementFits ==
  ASSUME RowsInv, DbInv, NEW r \in Requests, Fits(req[r]), SettlementStep(r)
  PROVE  Planned(r)
<1>1. CASE CreateSettlement(r)
  <2>1. PICK s \in Among(Settlements), c \in Among(Claims) \cup {None},
             i \in Among(Invoices) \cup {None}, backed \in BOOLEAN,
             amount \in Amounts, override \in Overrides :
               /\ ValidAmount(c, backed, amount, override)
               /\ Fresh(s)
               /\ Write(r, "create_settlement", s, Draft(c, backed, amount, i))
    BY <1>1 DEF CreateSettlement, Insert
  <2> QED
    BY <2>1, DraftIsGood, WriteFits DEF Among
<1>2. CASE ConsumeClaimSettlement(r)
  <2>1. PICK s \in Among(Settlements), c \in Among(Claims), i \in Among(Invoices),
             amount \in Amounts, override \in Overrides :
               /\ ValidAmount(c, TRUE, amount, override)
               /\ Fresh(s)
               /\ Prepare(r, Plan("consume", Row(s, Draft(c, TRUE, amount, i)), Resume(s, i)))
    BY <1>2 DEF ConsumeClaimSettlement
  <2> DEFINE row == Draft(c, TRUE, amount, i)
             p == Plan("consume", Row(s, row), Resume(s, i))
  <2>2. Good(s, row) /\ db[s] = Absent
    BY <2>1, DraftIsGood
  <2> HIDE DEF row
  <2>3. /\ req'[r] = p /\ p.pc = "flush" /\ p.then = Resume(s, i)
        /\ DOMAIN p.writes = {s} /\ p.writes[s] = row /\ p.loaded[s] = db[s]
    BY <2>1 DEF RowsInv, Prepare, Plan, Row, row
  <2> HIDE DEF p
  <2>4. s \in Settlements /\ s \notin Consumptions \cup Customers \cup Numbers \cup Orders
                                       \cup Cancellations \cup Invoices
    BY KeyTables DEF Among
  <2>5. IsFiniteSet(DOMAIN p.writes)
    BY <2>3, FS_Singleton
  <2>6. NumbersMove(p.loaded, p.writes) /\ CancelTold(p.loaded, p.writes)
        /\ AdjustTold(p.loaded, p.writes)
    BY <2>3, <2>4 DEF NumbersMove, CancelTold, AdjustTold
  <2>7. GoesOn(p)
    BY <2>2, <2>3, <2>4 DEF GoesOn, Resume, Among
  <2>8. Fits(p)
    BY <2>2, <2>3, <2>5, <2>6, <2>7 DEF Fits, FlushFits, Good, Fine, RowFits
  <2>9. \A t : Carries(p, t) => t = s
    BY <2>3, <2>4 DEF Carries, Resume
  <2>10. DOMAIN p.writes \cap LiabilityRecords = {}
    BY <2>3, KeyTables DEF Among
  <2> QED
    BY <2>1, <2>3, <2>8, <2>9, <2>10 DEF Planned
<1>3. CASE ApplyInvoiceClaimAdjustment(r)
  <2> DEFINE s == req[r].settlement
             i == req[r].invoice
             told == [status |-> "told", deleted |-> FALSE, settlement |-> s,
                      invoice |-> i, amount |-> db[s].amount]
             adjusted == [db[i] EXCEPT !.adjusted = @ + db[s].amount]
  <2>1. /\ req[r].pc = "resume"
        /\ i \in DOMAIN db /\ Exists(i) /\ db[i].status = "open"
    BY <1>3 DEF ApplyInvoiceClaimAdjustment, Owned, InStatus, Live
  <2>2. PICK e \in Among(Consumptions) :
               /\ Fresh(e)
               /\ Prepare(r, Plan("adjust", [x \in {i, e} |-> IF x = i THEN adjusted ELSE told],
                                  Idle))
    BY <1>3 DEF ApplyInvoiceClaimAdjustment
  <2> DEFINE w == [x \in {i, e} |-> IF x = i THEN adjusted ELSE told]
             p == Plan("adjust", w, Idle)
  <2>3. s \in Among(Settlements) /\ Exists(s) /\ i \in Invoices
    BY <2>1, Typed DEF Fits, DbInv, Among
  <2>4. db[s] \in SettlementRows /\ db[i] \in InvoiceRows /\ db[e] = Absent
    BY <2>1, <2>2, <2>3, Typed DEF DbInv, Fresh, Among
  <2>5. e # i /\ e \in Consumptions
    BY <2>3, KeyTables DEF Among
  <2>6. /\ DOMAIN w = {i, e} /\ w[i] = adjusted /\ w[e] = told
    BY <2>5
  <2>7. /\ adjusted \in InvoiceRows /\ adjusted.adjusted = db[i].adjusted + db[s].amount
        /\ adjusted.status = "open"
    <3>1. db[s].amount \in Nat
      BY <2>4, ClaimsAssumption DEF SettlementRows
    <3>2. db[i].adjusted \in Nat
      BY <2>4 DEF InvoiceRows
    <3>3. db[i].adjusted + db[s].amount \in Nat
      BY <3>1, <3>2
    <3> QED
      BY <2>1, <2>4, <3>3 DEF InvoiceRows
  <2>8. /\ told \in ConsumptionRows /\ told.settlement = s /\ told.invoice = i
        /\ told.amount = db[s].amount /\ told.status = "told"
    BY <2>3, <2>4 DEF ConsumptionRows, SettlementRows, Among
  <2>9. RowFits(i, db[i], adjusted)
    <3> HIDE DEF adjusted
    <3>1. adjusted # Absent
      BY <2>7 DEF Absent
    <3> QED
      BY <2>1, <2>3, <2>7, <3>1, KeyTables DEF RowFits, Sound, Lawful, Rests
  <2>10. RowFits(e, db[e], told)
    <3> HIDE DEF told
    <3>1. told # Absent
      BY <2>8 DEF Absent
    <3> QED
      BY <2>3, <2>4, <2>5, <2>8, <3>1, KeyTables DEF RowFits, Sound, Lawful, Rests
  <2> HIDE DEF told, adjusted
  <2>11. /\ req'[r] = p /\ p.pc = "flush" /\ p.then = Idle /\ p.writes = w
         /\ p.loaded[i] = db[i] /\ p.loaded[e] = db[e]
    BY <2>2, <2>6 DEF RowsInv, Prepare, Plan
  <2> HIDE DEF p, w
  <2>12. /\ i \notin Consumptions \cup Customers \cup Numbers \cup Orders \cup Cancellations
         /\ e \notin Invoices \cup Customers \cup Numbers \cup Orders \cup Cancellations
    BY <2>3, <2>5, KeyTables
  <2>13. IsFiniteSet(DOMAIN p.writes)
    <3>1. IsFiniteSet({i}) /\ {i, e} = {i} \cup {e}
      BY FS_Singleton
    <3> QED
      BY <2>6, <2>11, <3>1, FS_AddElement
  <2>14. NumbersMove(p.loaded, p.writes) /\ CancelTold(p.loaded, p.writes)
    BY <2>6, <2>11, <2>12 DEF NumbersMove, CancelTold
  <2>15. AdjustTold(p.loaded, p.writes)
    <3>1. db[i] # Absent /\ told # Absent
      BY <2>1, <2>8 DEF Absent
    <3>2. \A f \in DOMAIN w \cap Consumptions : f = e
      BY <2>6, <2>12
    <3>3. \A j \in DOMAIN w \cap Invoices : j = i
      BY <2>6, <2>12
    <3>4. p.loaded[e] = Absent /\ w[e].invoice = i /\ w[e] # Absent
      BY <2>4, <2>6, <2>8, <2>11, <3>1
    <3>5. w[i].adjusted = p.loaded[i].adjusted + w[e].amount /\ p.loaded[i] # Absent
      BY <2>6, <2>7, <2>8, <2>11, <3>1
    <3> QED
      BY <2>3, <2>5, <2>6, <2>11, <3>2, <3>3, <3>4, <3>5 DEF AdjustTold
  <2>16. GoesOn(p)
    BY <2>11 DEF GoesOn, Idle
  <2>17. Fits(p)
    BY <2>6, <2>9, <2>10, <2>11, <2>13, <2>14, <2>15, <2>16 DEF Fits, FlushFits
  <2>18. \A t : Carries(p, t) => t = s
    BY <2>6, <2>8, <2>11, <2>12 DEF Carries, Idle
  <2>19. Carries(req[r], s)
    BY <2>1 DEF Carries
  <2>20. DOMAIN p.writes \cap LiabilityRecords = {}
    BY <2>3, <2>5, <2>6, <2>11, KeyTables
  <2> QED
    BY <2>11, <2>17, <2>18, <2>19, <2>20 DEF Planned
<1>4. CASE SubmitSettlementForApproval(r)
  <2>1. PICK s \in Among(Settlements) :
               Transition(r, "submit_settlement", s, SettlementTransitions, "pending_approval", db[s])
    BY <1>4 DEF SubmitSettlementForApproval
  <2>2. db[s] \in SettlementRows
    BY <2>1, Typed DEF DbInv, Transition, Live, Among
  <2>3. db[s].approvedAt \in BOOLEAN /\ db[s] = [db[s] EXCEPT !.approvedAt = db[s].approvedAt]
    BY <2>2 DEF SettlementRows
  <2> QED
    BY <2>1, <2>3, SettlementMoves
<1>5. CASE ApproveSettlement(r)
  BY <1>5, SettlementMoves DEF ApproveSettlement
<1>6. CASE SettleSettlement(r)
  <2>1. PICK s \in Among(Settlements) :
               Transition(r, "settle_settlement", s, SettlementTransitions, "settled", db[s])
    BY <1>6 DEF SettleSettlement
  <2>2. db[s] \in SettlementRows
    BY <2>1, Typed DEF DbInv, Transition, Live, Among
  <2>3. db[s].approvedAt \in BOOLEAN /\ db[s] = [db[s] EXCEPT !.approvedAt = db[s].approvedAt]
    BY <2>2 DEF SettlementRows
  <2> QED
    BY <2>1, <2>3, SettlementMoves
<1>7. CASE CancelSettlement(r)
  <2>1. PICK s \in Among(Settlements) :
               Transition(r, "cancel_settlement", s, SettlementTransitions, "cancelled", db[s])
    BY <1>7 DEF CancelSettlement
  <2>2. db[s] \in SettlementRows
    BY <2>1, Typed DEF DbInv, Transition, Live, Among
  <2>3. db[s].approvedAt \in BOOLEAN /\ db[s] = [db[s] EXCEPT !.approvedAt = db[s].approvedAt]
    BY <2>2 DEF SettlementRows
  <2> QED
    BY <2>1, <2>3, SettlementMoves
<1>8. CASE UpdateSettlement(r)
  <2>1. PICK s \in Among(Settlements), amount \in Amounts :
               /\ InStatus(s, {"draft", "pending_approval"})
               /\ Write(r, "update_settlement", s, [db[s] EXCEPT !.amount = amount])
    BY <1>8 DEF UpdateSettlement
  <2> DEFINE row == [db[s] EXCEPT !.amount = amount]
  <2>2. db[s] \in SettlementRows /\ db[s].status \in {"draft", "pending_approval"} /\ Exists(s)
    BY <2>1, Typed DEF DbInv, InStatus, Live, Among
  <2>3. /\ row \in SettlementRows /\ row.status = db[s].status
        /\ row.approvedAt = db[s].approvedAt
        /\ row.backed = db[s].backed /\ row.claim = db[s].claim
    BY <2>2 DEF SettlementRows
  <2>4. Rests(s, row)
    BY <2>2, <2>3, Typed, KeyTables DEF Rests, DbInv, RowsRest, Among
  <2>5. Good(s, row)
    <3> HIDE DEF row
    <3> QED
      BY <2>2, <2>3, <2>4, GoodSettlement DEF Among
  <2> QED
    BY <2>1, <2>5, WriteFits DEF Among
<1>9. CASE CreatePayout(r)
  <2>1. PICK s \in Among(Settlements), o \in Among(Payouts) :
               /\ InStatus(s, {"approved", "settled"})
               /\ Fresh(o)
               /\ Write(r, "create_payout", o,
                        [status |-> "pending", deleted |-> FALSE, settlement |-> s])
    BY <1>9 DEF CreatePayout, Insert
  <2> DEFINE row == [status |-> "pending", deleted |-> FALSE, settlement |-> s]
  <2>2. row \in PayoutRows /\ row.settlement = s
    BY DEF PayoutRows, Among
  <2>3. Exists(s) /\ db[s].approvedAt /\ db[o] = Absent
    BY <2>1, Typed DEF DbInv, InStatus, Live, Fresh, Among
  <2>4. Rests(o, row)
    BY <2>2, <2>3, KeyTables DEF Rests, Among
  <2>5. Good(o, row)
    <3> HIDE DEF row
    <3> QED
      BY <2>2, <2>3, <2>4, GoodRecord DEF Among
  <2> QED
    BY <2>1, <2>5, WriteFits DEF Among
<1>10. CASE IssueInvoice(r)
  <2>1. PICK i \in Among(Invoices) :
               /\ Fresh(i)
               /\ Write(r, "create_invoice", i, [status |-> "open", deleted |-> FALSE, adjusted |-> 0])
    BY <1>10 DEF IssueInvoice, Insert
  <2> DEFINE row == [status |-> "open", deleted |-> FALSE, adjusted |-> 0]
  <2>2. row \in InvoiceRows /\ Adjusted(row) = 0
    BY DEF InvoiceRows, Adjusted, Absent
  <2>3. db[i] = Absent /\ Adjusted(db[i]) = 0 /\ db[i].status # "final"
    BY <2>1, Typed DEF DbInv, Fresh, Among, Adjusted, Absent
  <2>4. Good(i, row)
    <3> HIDE DEF row
    <3> QED
      BY <2>2, <2>3, GoodInvoice DEF Among
  <2> QED
    BY <2>1, <2>4, WriteFits DEF Among
<1>11. CASE FinaliseInvoice(r)
  <2>1. PICK i \in Among(Invoices) :
               /\ InStatus(i, {"open"})
               /\ Write(r, "finalise_invoice", i, [db[i] EXCEPT !.status = "final"])
    BY <1>11 DEF FinaliseInvoice
  <2> DEFINE row == [db[i] EXCEPT !.status = "final"]
  <2>2. db[i] \in InvoiceRows /\ db[i].status = "open"
    BY <2>1, Typed DEF DbInv, InStatus, Live, Among
  <2>3. row \in InvoiceRows /\ row.adjusted = db[i].adjusted /\ row.status = "final"
    BY <2>2 DEF InvoiceRows
  <2>4. Adjusted(row) = Adjusted(db[i])
    <3> HIDE DEF row
    <3> QED
      BY <2>2, <2>3 DEF Adjusted, Absent
  <2>5. Good(i, row)
    <3> HIDE DEF row
    <3> QED
      BY <2>2, <2>3, <2>4, GoodInvoice DEF Among
  <2> QED
    BY <2>1, <2>5, WriteFits DEF Among
<1> QED
  BY <1>1, <1>2, <1>3, <1>4, <1>5, <1>6, <1>7, <1>8, <1>9, <1>10, <1>11 DEF SettlementStep

\* The transitions of a customer, spelt out.
LEMMA CustomerTable ==
  ASSUME NEW a \in DOMAIN CustomerTransitions, NEW b \in CustomerTransitions[a]
  PROVE  b \in DOMAIN CustomerTransitions
<1>1. CASE a = "active"
  BY <1>1 DEF CustomerTransitions
<1>2. CASE a = "suspended"
  BY <1>2 DEF CustomerTransitions
<1>3. CASE a = "inactive"
  BY <1>3 DEF CustomerTransitions
<1> QED
  BY <1>1, <1>2, <1>3 DEF CustomerTransitions

\* A customer row whose number is left alone.
LEMMA CustomerKeepsNumber ==
  ASSUME RowsInv, DbInv, NEW r \in Requests, NEW op, NEW c \in Among(Customers), Exists(c),
         NEW row \in CustomerRows, row.number = db[c].number, Write(r, op, c, row)
  PROVE  Planned(r)
<1>1. row # Absent /\ db[c] # Absent
  BY Typed DEF DbInv, Among, CustomerRows, CustomerTransitions, Absent
<1>2. Number(row) = Number(db[c])
  BY <1>1 DEF Number
<1> QED
  BY <1>2, GoodCustomer, WriteFits DEF Among

\* None is not a number, and a number is no customer.
LEMMA NoneIsNoKey ==
  ASSUME DbInv
  PROVE  None \notin DOMAIN db
BY RowsAssumption DEF DbInv

\* Every operation on a customer plans its row and its number together.
LEMMA CustomerFits ==
  ASSUME RowsInv, DbInv, NEW r \in Requests, CustomerStep(r)
  PROVE  Planned(r)
<1>1. CASE CreateCustomer(r)
  <2>1. PICK c \in Among(Customers), n \in Among(Numbers) \cup {None},
             status \in DOMAIN CustomerTransitions :
               /\ Fresh(c)
               /\ Free(n)
               /\ Prepare(r, Plan("create_customer",
                    [x \in {c} \cup ({n} \ {None}) |->
                       IF x = n THEN Entry(c)
                       ELSE [status |-> status, deleted |-> FALSE, number |-> n]],
                    Idle))
    BY <1>1 DEF CreateCustomer
  <2> DEFINE row == [status |-> status, deleted |-> FALSE, number |-> n]
             w == [x \in {c} \cup ({n} \ {None}) |-> IF x = n THEN Entry(c) ELSE row]
             p == Plan("create_customer", w, Idle)
  <2>2. row \in CustomerRows /\ row.number = n /\ row # Absent
    BY DEF CustomerRows, CustomerTransitions, Among, Absent
  <2>3. Entry(c) \in EntryRows /\ Entry(c).of = c /\ Entry(c).status = "entry"
    BY DEF Entry, EntryRows, Among
  <2>4. c # n /\ c # None /\ c \in DOMAIN db /\ (n # None => n \in Numbers /\ n \in DOMAIN db)
    BY KeyTables, NoneIsNoKey DEF Among
  <2>5. db[c] = Absent /\ (n # None => db[n] = Absent)
    BY <2>1, <2>4, Typed DEF DbInv, Fresh, Free, Among
  <2> HIDE DEF row
  <2>6. /\ DOMAIN w = {c} \cup ({n} \ {None}) /\ w[c] = row
        /\ n # None => w[n] = Entry(c)
    BY <2>4
  <2>7. /\ req'[r] = p /\ p.pc = "flush" /\ p.then = Idle /\ p.writes = w
        /\ \A x \in DOMAIN w : p.loaded[x] = db[x]
    BY <2>1 DEF RowsInv, Prepare, Plan, row
  <2> HIDE DEF p, w
  <2>8. RowFits(c, db[c], row)
    BY <2>2, <2>5, KeyTables DEF RowFits, Sound, Lawful, Rests, Among, CustomerRows,
       CustomerTransitions
  <2>9. n # None => RowFits(n, db[n], Entry(c))
    <3>1. Entry(c) # Absent
      BY <2>3 DEF Absent
    <3> QED
      BY <2>3, <2>4, <3>1, KeyTables DEF RowFits, Sound, Lawful, Rests
  <2>10. IsFiniteSet(DOMAIN p.writes)
    <3>1. IsFiniteSet({c}) /\ ({n} \ {None} = {} \/ {n} \ {None} = {n})
      BY FS_Singleton
    <3> QED
      BY <2>6, <2>7, <3>1, FS_AddElement
  <2>11. NumbersMove(p.loaded, p.writes)
    <3>1. Number(row) = n /\ Number(db[c]) = None
      BY <2>2, <2>5 DEF Number
    <3>2. \A d \in DOMAIN w \cap Customers : d = c
      BY <2>4, <2>6, KeyTables
    <3>3. \A m \in DOMAIN w \cap Numbers : m = n /\ n # None
      BY <2>4, <2>6, KeyTables DEF Among
    <3>4. Entry(c) # Absent
      BY <2>3 DEF Absent
    <3> QED
      BY <2>3, <2>4, <2>5, <2>6, <2>7, <3>1, <3>2, <3>3, <3>4 DEF NumbersMove, Among
  <2>12. CancelTold(p.loaded, p.writes) /\ AdjustTold(p.loaded, p.writes)
    BY <2>4, <2>6, <2>7, KeyTables DEF CancelTold, AdjustTold, Among
  <2>13. Fits(p)
    BY <2>6, <2>7, <2>8, <2>9, <2>10, <2>11, <2>12 DEF Fits, FlushFits, GoesOn, Idle
  <2>14. \A t : ~Carries(p, t)
    BY <2>4, <2>6, <2>7, KeyTables DEF Carries, Idle, Among
  <2>15. DOMAIN p.writes \cap LiabilityRecords = {}
    BY <2>4, <2>6, <2>7, KeyTables DEF Among
  <2> QED
    BY <2>7, <2>13, <2>14, <2>15 DEF Planned
<1>3. CASE CustomerTransition(r)
  <2>1. PICK op \in DOMAIN CustomerOperations, c \in Among(Customers) :
               Transition(r, op, c, CustomerTransitions, CustomerOperations[op], db[c])
    BY <1>3 DEF CustomerTransition
  <2> DEFINE target == CustomerOperations[op]
             row == [db[c] EXCEPT !.status = target]
  <2>2. Exists(c) /\ db[c] \in CustomerRows /\ target \in CustomerTransitions[db[c].status]
    BY <2>1, Typed DEF DbInv, Transition, Live, Among
  <2> HIDE DEF target
  <2>3. row \in CustomerRows /\ row.number = db[c].number
    BY <2>2, CustomerTable DEF CustomerRows
  <2> QED
    BY <2>1, <2>2, <2>3, CustomerKeepsNumber DEF Transition, target
<1>4. CASE DeleteCustomer(r)
  <2>1. PICK c \in Among(Customers) :
               Live(c) /\ Write(r, "delete_customer", c, [db[c] EXCEPT !.deleted = TRUE])
    BY <1>4 DEF DeleteCustomer, SoftDelete
  <2>2. Exists(c) /\ db[c] \in CustomerRows
    BY <2>1, Typed DEF DbInv, Live, Among
  <2> QED
    BY <2>1, <2>2, CustomerKeepsNumber DEF CustomerRows
<1>5. CASE RestoreCustomer(r)
  <2>1. PICK c \in Among(Customers) :
               db[c].deleted /\ Write(r, "restore_customer", c, [db[c] EXCEPT !.deleted = FALSE])
    BY <1>5 DEF RestoreCustomer, Undelete
  <2>2. Exists(c) /\ db[c] \in CustomerRows
    BY <2>1, Typed DEF DbInv, Absent, Among
  <2> QED
    BY <2>1, <2>2, CustomerKeepsNumber DEF CustomerRows
<1>2. CASE UpdateCustomer(r)
  <2>1. PICK c \in Among(Customers), n \in Among(Numbers) :
               /\ Live(c)
               /\ \/ n = db[c].number /\ Write(r, "update_customer", c, db[c])
                  \/ /\ n # db[c].number
                     /\ Free(n)
                     /\ Prepare(r, Plan("update_customer",
                          [x \in Among({c, n, db[c].number}) |->
                             CASE x = n -> Entry(c)
                               [] x = c -> [db[c] EXCEPT !.number = n]
                               [] OTHER -> Absent],
                          Idle))
    BY <1>2 DEF UpdateCustomer
  <2>2. Exists(c) /\ db[c] \in CustomerRows /\ db[c] # Absent
    BY <2>1, Typed DEF DbInv, Live, Among
  <2>3. CASE n = db[c].number /\ Write(r, "update_customer", c, db[c])
    BY <2>2, <2>3, CustomerKeepsNumber
  <2>4. CASE /\ n # db[c].number
             /\ Free(n)
             /\ Prepare(r, Plan("update_customer",
                  [x \in Among({c, n, db[c].number}) |->
                     CASE x = n -> Entry(c)
                       [] x = c -> [db[c] EXCEPT !.number = n]
                       [] OTHER -> Absent],
                  Idle))
    <3> DEFINE old == db[c].number
               row == [db[c] EXCEPT !.number = n]
               w == [x \in Among({c, n, old}) |->
                       CASE x = n -> Entry(c) [] x = c -> row [] OTHER -> Absent]
               p == Plan("update_customer", w, Idle)
    <3>1. /\ c \in Customers /\ n \in Numbers /\ c \in DOMAIN db /\ n \in DOMAIN db
          /\ n # None /\ c # None
      BY NoneIsNoKey DEF Among
    <3>2. old # None => old \in Numbers /\ old \in DOMAIN db /\ db[old] = Entry(c)
      BY <2>2, <3>1 DEF DbInv, Indexed, Number, Among
    <3>3. c # n /\ c # old /\ n # old
      BY <2>4, <3>1, <3>2, KeyTables
    <3>4. /\ row \in CustomerRows /\ row.number = n /\ row.status = db[c].status
          /\ row # Absent
      BY <2>2, <3>1 DEF CustomerRows, CustomerTransitions, Absent
    <3>5. Entry(c) \in EntryRows /\ Entry(c).of = c /\ Entry(c).status = "entry" /\ Entry(c) # Absent
      BY <3>1 DEF Entry, EntryRows, Absent
    <3>6. db[n] = Absent
      BY <2>4, <3>1, Typed DEF DbInv, Free
    <3> HIDE DEF row
    <3>7. /\ DOMAIN w = {c, n} \cup ({old} \ {None}) /\ w[c] = row /\ w[n] = Entry(c)
          /\ old # None => w[old] = Absent
      BY <3>1, <3>2, <3>3, NoneIsNoKey DEF Among
    <3>8. /\ req'[r] = p /\ p.pc = "flush" /\ p.then = Idle /\ p.writes = w
          /\ \A x \in DOMAIN w : p.loaded[x] = db[x]
      BY <2>4 DEF RowsInv, Prepare, Plan, row
    <3> HIDE DEF p, w, old
    <3>9. RowFits(c, db[c], row)
      BY <3>1, <3>4, KeyTables DEF RowFits, Sound, Lawful, Rests, CustomerRows,
         CustomerTransitions
    <3>10. RowFits(n, db[n], Entry(c))
      BY <3>1, <3>5, KeyTables DEF RowFits, Sound, Lawful, Rests
    <3>11. old # None => RowFits(old, db[old], Absent)
      BY <3>2, KeyTables DEF RowFits, Sound, Lawful, Rests
    <3>12. IsFiniteSet(DOMAIN p.writes)
      <4>1. IsFiniteSet({c}) /\ {c, n} = {c} \cup {n}
            /\ ({old} \ {None} = {} \/ {old} \ {None} = {old})
        BY FS_Singleton
      <4>2. IsFiniteSet({c, n})
        BY <4>1, FS_AddElement
      <4> QED
        BY <3>7, <3>8, <4>1, <4>2, FS_AddElement
    <3>13. NumbersMove(p.loaded, p.writes)
      <4>1. Number(row) = n /\ Number(db[c]) = old
        BY <2>2, <3>4 DEF Number, old
      <4>2. \A d \in DOMAIN w \cap Customers : d = c
        BY <3>1, <3>2, <3>7, KeyTables
      <4>3. \A m \in DOMAIN w \cap Numbers : m = n \/ (m = old /\ old # None)
        BY <3>1, <3>7, KeyTables
      <4> QED
        BY <3>1, <3>2, <3>3, <3>5, <3>6, <3>7, <3>8, <4>1, <4>2, <4>3 DEF NumbersMove
    <3>14. CancelTold(p.loaded, p.writes) /\ AdjustTold(p.loaded, p.writes)
      BY <3>1, <3>2, <3>7, <3>8, KeyTables DEF CancelTold, AdjustTold
    <3>15. Fits(p)
      BY <3>7, <3>8, <3>9, <3>10, <3>11, <3>12, <3>13, <3>14 DEF Fits, FlushFits, GoesOn, Idle
    <3>16. \A t : ~Carries(p, t)
      BY <3>1, <3>2, <3>7, <3>8, KeyTables DEF Carries, Idle
    <3>17. DOMAIN p.writes \cap LiabilityRecords = {}
      BY <3>1, <3>2, <3>7, <3>8, KeyTables
    <3> QED
      BY <3>8, <3>15, <3>16, <3>17 DEF Planned
  <2> QED
    BY <2>1, <2>3, <2>4
<1> QED
  BY <1>1, <1>2, <1>3, <1>4, <1>5 DEF CustomerStep

\* The transitions of an order, spelt out.
LEMMA OrderTable ==
  ASSUME NEW a \in DOMAIN OrderTransitions, NEW b \in OrderTransitions[a]
  PROVE  /\ b \in DOMAIN OrderTransitions
         /\ a \notin TerminalOrders
         /\ b = "submitted" => a = "draft"
         /\ b = "approved" => a = "submitted"
         /\ b = "scheduled" => a = "approved"
         /\ b = "assigned" => a = "scheduled"
         /\ b = "in_transit" => a = "assigned"
         /\ b = "delivered" => a = "in_transit"
         /\ b # "draft"
<1>1. CASE a = "draft"
  BY <1>1 DEF OrderTransitions, TerminalOrders
<1>2. CASE a = "submitted"
  BY <1>2 DEF OrderTransitions, TerminalOrders
<1>3. CASE a = "approved"
  BY <1>3 DEF OrderTransitions, TerminalOrders
<1>4. CASE a = "scheduled"
  BY <1>4 DEF OrderTransitions, TerminalOrders
<1>5. CASE a = "assigned"
  BY <1>5 DEF OrderTransitions, TerminalOrders
<1>6. CASE a = "in_transit"
  BY <1>6 DEF OrderTransitions, TerminalOrders
<1>7. CASE a \in {"delivered", "cancelled", "failed"}
  BY <1>7 DEF OrderTransitions
<1> QED
  BY <1>1, <1>2, <1>3, <1>4, <1>5, <1>6, <1>7 DEF OrderTransitions

\* The stages in their order.
LEMMA StageNames ==
  /\ Stages[1] = "submitted" /\ Stages[2] = "approved" /\ Stages[3] = "scheduled"
  /\ Stages[4] = "assigned" /\ Stages[5] = "in_transit" /\ Stages[6] = "delivered"
BY DEF Stages

\* One more stage is one more stamp.
LEMMA UptoNext ==
  ASSUME NEW i \in 0..5
  PROVE  Upto(i + 1) = Upto(i) \cup {Stages[i + 1]}
<1>1. 1..(i + 1) = (1..i) \cup {i + 1}
  OBVIOUS
<1> QED
  BY <1>1 DEF Upto

\* Before the first stage nothing is stamped.
LEMMA UptoNone == Upto(0) = {}
<1>1. 1..0 = {}
  OBVIOUS
<1> QED
  BY <1>1 DEF Upto

\* An order that goes one stage on.
LEMMA StagedNext ==
  ASSUME NEW row \in OrderRows, Staged(row), NEW new,
         NEW target \in OrderTransitions[row.status], target \notin Failures,
         new.status = target, new.stamps = row.stamps \cup {target},
         new.dispatcher # None <=> row.dispatcher # None \/ target = "assigned"
  PROVE  Staged(new)
<1>1. PICK i \in 0..6 :
        /\ row.stamps \ Failures = Upto(i)
        /\ row.stamps \cap Failures = {row.status} \cap Failures
        /\ row.status \in Failures \cup {IF i = 0 THEN "draft" ELSE Stages[i]}
        /\ i >= 4 <=> row.dispatcher # None
  BY DEF Staged
<1>2. row.status \in DOMAIN OrderTransitions
  BY DEF OrderRows
<1>3. row.status \notin Failures
  BY <1>2, OrderTable DEF Failures, TerminalOrders
<1>4. i \in 0..5 /\ target = Stages[i + 1]
  <2>1. row.status = (IF i = 0 THEN "draft" ELSE Stages[i])
    BY <1>1, <1>3
  <2>2. target \in {"submitted", "approved", "scheduled", "assigned", "in_transit", "delivered"}
    BY <1>2, OrderTable DEF OrderTransitions, Failures
  <2>3. CASE i = 0
    BY <1>2, <2>1, <2>2, <2>3, OrderTable, StageNames
  <2>4. CASE i = 1
    BY <1>2, <2>1, <2>2, <2>4, OrderTable, StageNames
  <2>5. CASE i = 2
    BY <1>2, <2>1, <2>2, <2>5, OrderTable, StageNames
  <2>6. CASE i = 3
    BY <1>2, <2>1, <2>2, <2>6, OrderTable, StageNames
  <2>7. CASE i = 4
    BY <1>2, <2>1, <2>2, <2>7, OrderTable, StageNames
  <2>8. CASE i = 5
    BY <1>2, <2>1, <2>2, <2>8, OrderTable, StageNames
  <2>9. CASE i = 6
    BY <1>2, <2>1, <2>2, <2>9, OrderTable, StageNames DEF TerminalOrders
  <2> QED
    BY <1>1, <2>3, <2>4, <2>5, <2>6, <2>7, <2>8, <2>9
<1>5. new.stamps \ Failures = Upto(i + 1)
  BY <1>1, <1>4, UptoNext
<1>6. new.stamps \cap Failures = {new.status} \cap Failures
  BY <1>1, <1>3
<1>7. (i + 1 >= 4) <=> (i >= 4 \/ i = 3)
  BY <1>4
<1>8. target = "assigned" <=> i = 3
  <2>1. i = 0 \/ i = 1 \/ i = 2 \/ i = 3 \/ i = 4 \/ i = 5
    BY <1>4
  <2> QED
    BY <1>4, <2>1, StageNames
<1>9. (i + 1 >= 4) <=> new.dispatcher # None
  BY <1>1, <1>7, <1>8
<1>10. i + 1 \in 0..6 /\ i + 1 # 0
  BY <1>4
<1> QED
  BY <1>4, <1>5, <1>6, <1>9, <1>10 DEF Staged

\* An order that fails or is cancelled.
LEMMA StagedEnd ==
  ASSUME NEW row \in OrderRows, Staged(row), NEW new,
         NEW target \in OrderTransitions[row.status], target \in Failures,
         new.status = target, new.stamps = row.stamps \cup {target},
         new.dispatcher = row.dispatcher
  PROVE  /\ Staged(new)
         /\ RequiresCompensation(row.status) <=> new.dispatcher # None
<1>1. PICK i \in 0..6 :
        /\ row.stamps \ Failures = Upto(i)
        /\ row.stamps \cap Failures = {row.status} \cap Failures
        /\ row.status \in Failures \cup {IF i = 0 THEN "draft" ELSE Stages[i]}
        /\ i >= 4 <=> row.dispatcher # None
  BY DEF Staged
<1>2. row.status \in DOMAIN OrderTransitions /\ row.status \notin TerminalOrders
  BY OrderTable DEF OrderRows
<1>3. row.status \notin Failures
  BY <1>2 DEF Failures, TerminalOrders
<1>4. Staged(new)
  BY <1>1, <1>3 DEF Staged
<1>5. row.status = (IF i = 0 THEN "draft" ELSE Stages[i])
  BY <1>1, <1>3
<1>6. i = 0 \/ i = 1 \/ i = 2 \/ i = 3 \/ i = 4 \/ i = 5 \/ i = 6
  OBVIOUS
<1>7. RequiresCompensation(row.status) <=> i >= 4
  BY <1>2, <1>5, <1>6, StageNames DEF RequiresCompensation, TerminalOrders
<1> QED
  BY <1>1, <1>4, <1>7

\* An order row that changes neither its stages nor its end.
LEMMA OrderKept ==
  ASSUME RowsInv, DbInv, NEW r \in Requests, NEW op, NEW o \in Among(Orders), Exists(o),
         NEW deleted \in BOOLEAN, NEW row, row = [db[o] EXCEPT !.deleted = deleted],
         Write(r, op, o, row)
  PROVE  Planned(r)
<1>1. db[o] \in OrderRows /\ Staged(db[o])
  BY Typed DEF DbInv, Among
<1>2. /\ row \in OrderRows /\ row.status = db[o].status /\ row.stamps = db[o].stamps
      /\ row.dispatcher = db[o].dispatcher
  BY <1>1 DEF OrderRows
<1>3. Staged(row)
  BY <1>1, <1>2 DEF Staged
<1>4. [row EXCEPT !.deleted = db[o].deleted] = db[o]
  BY <1>1 DEF OrderRows
<1> QED
  BY <1>2, <1>3, <1>4, GoodOrder, WriteFits DEF Among

\* An order moved along its table, otherwise than to its cancellation.
LEMMA OrderMoves ==
  ASSUME RowsInv, DbInv, NEW r \in Requests, NEW op, NEW o \in Among(Orders),
         NEW target, NEW mutated, target # "cancelled",
         Transition(r, op, o, OrderTransitions, target, mutated),
         Exists(o) => /\ mutated \in OrderRows
                      /\ mutated.stamps = db[o].stamps \cup {target}
                      /\ IF target = "assigned" THEN mutated.dispatcher # None
                         ELSE mutated.dispatcher = db[o].dispatcher
  PROVE  Planned(r)
<1> DEFINE row == [mutated EXCEPT !.status = target]
<1>1. /\ Exists(o) /\ db[o] \in OrderRows /\ Staged(db[o])
      /\ target \in OrderTransitions[db[o].status]
      /\ Write(r, op, o, row)
  BY Typed DEF DbInv, Transition, Live, Among
<1>2. db[o].status \in DOMAIN OrderTransitions
  BY <1>1 DEF OrderRows
<1>3. target \in DOMAIN OrderTransitions /\ db[o].status \notin TerminalOrders
  BY <1>1, <1>2, OrderTable
<1>4. /\ row \in OrderRows /\ row.status = target /\ row.stamps = db[o].stamps \cup {target}
      /\ row.dispatcher = mutated.dispatcher
  BY <1>1, <1>3 DEF OrderRows
<1> HIDE DEF row
<1>5. Staged(row)
  <2>1. CASE target \in Failures
    BY <1>1, <1>4, <2>1, StagedEnd DEF Failures
  <2>2. CASE target \notin Failures
    BY <1>1, <1>4, <2>2, StagedNext
  <2> QED
    BY <2>1, <2>2
<1> QED
  BY <1>1, <1>3, <1>4, <1>5, GoodOrder, WriteFits DEF Among

\* Orders and the announcement of a cancellation.
LEMMA OrderFits ==
  ASSUME RowsInv, DbInv, NEW r \in Requests, OrderStep(r)
  PROVE  Planned(r)
<1>1. CASE CreateOrder(r)
  <2>1. PICK o \in Among(Orders), c \in Among(Customers) :
               /\ Fresh(o)
               /\ Write(r, "create_order", o,
                        [status |-> "draft", deleted |-> FALSE, customer |-> c,
                         dispatcher |-> None, stamps |-> {}])
    BY <1>1 DEF CreateOrder, Insert
  <2> DEFINE row == [status |-> "draft", deleted |-> FALSE, customer |-> c,
                     dispatcher |-> None, stamps |-> {}]
  <2>2. row \in OrderRows
    BY DEF OrderRows, OrderTransitions, Among
  <2>3. Staged(row)
    BY UptoNone DEF Staged, Failures
  <2>4. db[o].status \notin TerminalOrders /\ row.status = "draft"
    BY <2>1 DEF Fresh, Exists, TerminalOrders
  <2> HIDE DEF row
  <2>5. Good(o, row)
    BY <2>2, <2>3, <2>4, GoodOrder DEF Among
  <2> QED
    BY <2>1, <2>5, WriteFits DEF Among, row
<1>2. CASE UpdateOrder(r)
  <2>1. PICK o \in Among(Orders) : Live(o) /\ Write(r, "update_order", o, db[o])
    BY <1>2 DEF UpdateOrder
  <2>2. db[o] \in OrderRows /\ Exists(o)
    BY <2>1, Typed DEF DbInv, Live, Among
  <2>3. db[o] = [db[o] EXCEPT !.deleted = db[o].deleted] /\ db[o].deleted \in BOOLEAN
    BY <2>2 DEF OrderRows
  <2> QED
    BY <2>1, <2>2, <2>3, OrderKept
<1>3. CASE OrderTransition(r)
  <2>1. PICK op \in DOMAIN OrderOperations, o \in Among(Orders) :
               Transition(r, op, o, OrderTransitions, OrderOperations[op],
                          Stamped(o, OrderOperations[op]))
    BY <1>3 DEF OrderTransition
  <2> DEFINE target == OrderOperations[op]
  <2>2. /\ target \in DOMAIN OrderTransitions
        /\ target # "cancelled" /\ target # "assigned"
    BY DEF OrderOperations, OrderTransitions
  <2>3. Exists(o) => db[o] \in OrderRows
    BY Typed DEF DbInv, Among
  <2> HIDE DEF target
  <2>4. Exists(o) => /\ Stamped(o, target) \in OrderRows
                     /\ Stamped(o, target).stamps = db[o].stamps \cup {target}
                     /\ Stamped(o, target).dispatcher = db[o].dispatcher
    BY <2>2, <2>3 DEF Stamped, OrderRows
  <2> QED
    BY <2>1, <2>2, <2>4, OrderMoves DEF target
<1>4. CASE AssignOrder(r)
  <2>1. PICK o \in Among(Orders), u \in Among(Users) :
               Transition(r, "assign_order", o, OrderTransitions, "assigned",
                          [Stamped(o, "assigned") EXCEPT !.dispatcher = u])
    BY <1>4 DEF AssignOrder
  <2>2. Exists(o) => db[o] \in OrderRows
    BY Typed DEF DbInv, Among
  <2>3. u # None /\ u \in Users /\ "assigned" \in DOMAIN OrderTransitions
    BY NoneIsNoKey DEF Among, OrderTransitions
  <2> DEFINE row == [Stamped(o, "assigned") EXCEPT !.dispatcher = u]
  <2>4. Exists(o) => /\ Stamped(o, "assigned") \in OrderRows
                     /\ Stamped(o, "assigned").stamps = db[o].stamps \cup {"assigned"}
    BY <2>2, <2>3 DEF Stamped, OrderRows
  <2>5. Exists(o) => /\ row \in OrderRows /\ row.dispatcher = u
                     /\ row.stamps = db[o].stamps \cup {"assigned"}
    BY <2>3, <2>4 DEF OrderRows
  <2> HIDE DEF row
  <2> QED
    BY <2>1, <2>3, <2>5, OrderMoves DEF row
<1>5. CASE CancelOrder(r)
  <2> DEFINE row(o) == [Stamped(o, "cancelled") EXCEPT !.status = "cancelled"]
             told(o) == [status |-> "told", deleted |-> FALSE, order |-> o,
                         compensate |-> RequiresCompensation(db[o].status)]
             w(o, e) == [x \in {o, e} |-> IF x = o THEN row(o) ELSE told(o)]
             p(o, e) == Plan("cancel_order", w(o, e), Idle)
  <2>1. PICK o \in Among(Orders), e \in Among(Cancellations) :
               /\ Live(o)
               /\ "cancelled" \in OrderTransitions[db[o].status]
               /\ Fresh(e)
               /\ Prepare(r, p(o, e))
    BY <1>5 DEF CancelOrder
  <2>2. /\ Exists(o) /\ db[o] \in OrderRows /\ Staged(db[o]) /\ db[e] = Absent
        /\ o \in Orders /\ e \in Cancellations /\ o \in DOMAIN db /\ e \in DOMAIN db
    BY <2>1, Typed DEF DbInv, Live, Fresh, Among
  <2>3. o # e
    BY <2>2, KeyTables
  <2>4. db[o].status \in DOMAIN OrderTransitions
    BY <2>2 DEF OrderRows
  <2>5. db[o].status \notin TerminalOrders /\ "cancelled" \in DOMAIN OrderTransitions
    BY <2>1, <2>4, OrderTable
  <2>6. /\ row(o) \in OrderRows /\ row(o).status = "cancelled"
        /\ row(o).stamps = db[o].stamps \cup {"cancelled"}
        /\ row(o).dispatcher = db[o].dispatcher
    <3>1. /\ Stamped(o, "cancelled") \in OrderRows
          /\ Stamped(o, "cancelled").stamps = db[o].stamps \cup {"cancelled"}
          /\ Stamped(o, "cancelled").dispatcher = db[o].dispatcher
      BY <2>2, <2>5 DEF Stamped, OrderRows
    <3> QED
      BY <2>5, <3>1 DEF OrderRows
  <2>7. /\ told(o) \in CancellationRows /\ told(o).order = o /\ told(o).status = "told"
        /\ told(o).compensate = RequiresCompensation(db[o].status)
    <3>1. RequiresCompensation(db[o].status) \in BOOLEAN
      BY DEF RequiresCompensation
    <3> QED
      BY <2>2, <3>1 DEF CancellationRows
  <2>8. /\ DOMAIN w(o, e) = {o, e} /\ w(o, e)[o] = row(o) /\ w(o, e)[e] = told(o)
    BY <2>3
  <2>9. /\ req'[r] = p(o, e) /\ p(o, e).pc = "flush" /\ p(o, e).then = Idle
        /\ p(o, e).writes = w(o, e)
        /\ p(o, e).loaded[o] = db[o] /\ p(o, e).loaded[e] = db[e]
    BY <2>1, <2>8 DEF RowsInv, Prepare, Plan
  <2> HIDE DEF row, told, w, p
  <2>10. Staged(row(o)) /\ (told(o).compensate <=> row(o).dispatcher # None)
    BY <2>1, <2>2, <2>6, <2>7, StagedEnd DEF Failures
  <2>11. row(o) # Absent /\ told(o) # Absent
    BY <2>6, <2>7 DEF Absent
  <2>12. RowFits(o, db[o], row(o))
    BY <2>2, <2>5, <2>6, <2>10, <2>11, KeyTables DEF RowFits, Sound, Lawful, Rests
  <2>13. RowFits(e, db[e], told(o))
    BY <2>2, <2>7, <2>11, KeyTables DEF RowFits, Sound, Lawful, Rests
  <2>14. /\ o \notin Consumptions \cup Customers \cup Numbers \cup Invoices \cup Cancellations
         /\ e \notin Consumptions \cup Customers \cup Numbers \cup Invoices \cup Orders
    BY <2>2, KeyTables
  <2>15. IsFiniteSet(DOMAIN p(o, e).writes)
    <3>1. IsFiniteSet({o}) /\ {o, e} = {o} \cup {e}
      BY FS_Singleton
    <3> QED
      BY <2>8, <2>9, <3>1, FS_AddElement
  <2>16. NumbersMove(p(o, e).loaded, p(o, e).writes) /\ AdjustTold(p(o, e).loaded, p(o, e).writes)
    BY <2>8, <2>9, <2>14 DEF NumbersMove, AdjustTold
  <2>17. CancelTold(p(o, e).loaded, p(o, e).writes)
    <3>1. db[o].status # "cancelled"
      BY <2>5 DEF TerminalOrders
    <3>2. \A f \in DOMAIN w(o, e) \cap Cancellations : f = e
      BY <2>8, <2>14
    <3>3. \A f \in DOMAIN w(o, e) \cap Orders : f = o
      BY <2>8, <2>14
    <3> QED
      BY <2>2, <2>6, <2>7, <2>8, <2>9, <2>10, <2>11, <3>1, <3>2, <3>3 DEF CancelTold
  <2>18. Fits(p(o, e))
    BY <2>8, <2>9, <2>12, <2>13, <2>15, <2>16, <2>17 DEF Fits, FlushFits, GoesOn, Idle
  <2>19. \A t : ~Carries(p(o, e), t)
    BY <2>8, <2>9, <2>14 DEF Carries, Idle
  <2>20. DOMAIN p(o, e).writes \cap LiabilityRecords = {}
    BY <2>2, <2>8, <2>9, KeyTables
  <2> QED
    BY <2>9, <2>18, <2>19, <2>20 DEF Planned
<1>6. CASE DeleteOrder(r)
  <2>1. PICK o \in Among(Orders) :
               Live(o) /\ Write(r, "delete_order", o, [db[o] EXCEPT !.deleted = TRUE])
    BY <1>6 DEF DeleteOrder, SoftDelete
  <2> QED
    BY <2>1, OrderKept DEF Live
<1>7. CASE RestoreOrder(r)
  <2>1. PICK o \in Among(Orders) :
               db[o].deleted /\ Write(r, "restore_order", o, [db[o] EXCEPT !.deleted = FALSE])
    BY <1>7 DEF RestoreOrder, Undelete
  <2>2. Exists(o)
    BY <2>1, Typed DEF DbInv, Absent, Among
  <2> QED
    BY <2>1, <2>2, OrderKept
<1> QED
  BY <1>1, <1>2, <1>3, <1>4, <1>5, <1>6, <1>7 DEF OrderStep

\* The transitions of a quote, spelt out.
LEMMA QuoteTable ==
  ASSUME NEW a \in DOMAIN QuoteTransitions, NEW b \in QuoteTransitions[a]
  PROVE  b \in DOMAIN QuoteTransitions /\ a \notin TerminalQuotes
<1>1. CASE a = "draft"
  BY <1>1 DEF QuoteTransitions, TerminalQuotes
<1>2. CASE a = "issued"
  BY <1>2 DEF QuoteTransitions, TerminalQuotes
<1>3. CASE a = "approved"
  BY <1>3 DEF QuoteTransitions, TerminalQuotes
<1>4. CASE a \in {"rejected", "expired", "cancelled"}
  BY <1>4 DEF QuoteTransitions
<1> QED
  BY <1>1, <1>2, <1>3, <1>4 DEF QuoteTransitions

\* A quote moved along its table.
LEMMA QuoteMoves ==
  ASSUME RowsInv, DbInv, NEW r \in Requests, NEW op, NEW q \in Among(Quotes), NEW target,
         Transition(r, op, q, QuoteTransitions, target, db[q])
  PROVE  Planned(r)
<1> DEFINE row == [db[q] EXCEPT !.status = target]
<1>1. /\ db[q] \in QuoteRows /\ db[q].total + db[q].discount = db[q].price
      /\ target \in QuoteTransitions[db[q].status]
      /\ Write(r, op, q, row)
  BY Typed DEF DbInv, Transition, Live, Among
<1>2. db[q].status \in DOMAIN QuoteTransitions
  BY <1>1 DEF QuoteRows
<1>3. target \in DOMAIN QuoteTransitions /\ db[q].status \notin TerminalQuotes
  BY <1>1, <1>2, QuoteTable
<1>4. /\ row \in QuoteRows /\ row.total = db[q].total /\ row.discount = db[q].discount
      /\ row.price = db[q].price
  BY <1>1, <1>3 DEF QuoteRows
<1> HIDE DEF row
<1> QED
  BY <1>1, <1>3, <1>4, GoodQuote, WriteFits DEF Among

\* Quotes.
LEMMA QuoteFits ==
  ASSUME RowsInv, DbInv, NEW r \in Requests, QuoteStep(r)
  PROVE  Planned(r)
<1>1. CASE CreateQuote(r)
  <2>1. PICK q \in Among(Quotes), dated \in BOOLEAN, price \in Prices, discount \in Prices :
               /\ discount <= price
               /\ Fresh(q)
               /\ Write(r, "create_quote", q,
                        [status |-> "draft", deleted |-> FALSE, dated |-> dated, price |-> price,
                         discount |-> discount, total |-> price - discount])
    BY <1>1 DEF CreateQuote, Insert
  <2> DEFINE row == [status |-> "draft", deleted |-> FALSE, dated |-> dated, price |-> price,
                     discount |-> discount, total |-> price - discount]
  <2>2. price - discount \in Nat /\ (price - discount) + discount = price
    BY <2>1, CommerceAssumption
  <2>3. row \in QuoteRows /\ row.total + row.discount = row.price
    BY <2>2 DEF QuoteRows, QuoteTransitions
  <2>4. db[q].status \notin TerminalQuotes
    BY <2>1 DEF Fresh, Exists, TerminalQuotes
  <2>5. Good(q, row)
    BY <2>3, <2>4, GoodQuote DEF Among
  <2> QED
    BY <2>1, <2>5, WriteFits DEF Among
<1>2. CASE QuoteTransition(r)
  BY <1>2, QuoteMoves DEF QuoteTransition
<1>3. CASE ApproveQuote(r)
  BY <1>3, QuoteMoves DEF ApproveQuote
<1>4. CASE UpdateQuote(r)
  <2>1. PICK q \in Among(Quotes), price \in Prices, discount \in Prices, dated \in BOOLEAN :
               /\ Live(q)
               /\ db[q].status \notin TerminalQuotes
               /\ discount <= price
               /\ Write(r, "update_quote", q,
                        [db[q] EXCEPT !.price = price, !.discount = discount,
                                      !.total = price - discount, !.dated = @ \/ dated])
    BY <1>4 DEF UpdateQuote
  <2> DEFINE row == [db[q] EXCEPT !.price = price, !.discount = discount,
                                  !.total = price - discount, !.dated = @ \/ dated]
  <2>2. price - discount \in Nat /\ (price - discount) + discount = price
    BY <2>1, CommerceAssumption
  <2>3. db[q] \in QuoteRows
    BY <2>1, Typed DEF DbInv, Live, Among
  <2>4. row \in QuoteRows /\ row.total + row.discount = row.price
    <3> DEFINE total == price - discount
    <3> HIDE DEF total
    <3>1. /\ total \in Nat /\ total + discount = price
          /\ row = [db[q] EXCEPT !.price = price, !.discount = discount,
                                 !.total = total, !.dated = db[q].dated \/ dated]
      BY <2>2 DEF total
    <3>2. (db[q].dated \/ dated) \in BOOLEAN
      OBVIOUS
    <3> QED
      BY <2>3, <3>1, <3>2 DEF QuoteRows
  <2>5. Good(q, row)
    <3> HIDE DEF row
    <3> QED
      BY <2>1, <2>4, GoodQuote DEF Among
  <2> QED
    BY <2>1, <2>5, WriteFits DEF Among
<1> QED
  BY <1>1, <1>2, <1>3, <1>4 DEF QuoteStep

\* Users stand by themselves.
LEMMA CreateUserFits ==
  ASSUME RowsInv, DbInv, NEW r \in Requests, CreateUser(r)
  PROVE  Planned(r)
<1>1. PICK u \in Among(Users) : Write(r, "create_user", u, [status |-> "user", deleted |-> FALSE])
  BY DEF CreateUser, Insert
<1>2. [status |-> "user", deleted |-> FALSE] \in UserRows
  BY DEF UserRows
<1> QED
  BY <1>1, <1>2, GoodRecord, WriteFits DEF Among

\* Whatever a request takes up fits.
LEMMA StepFits ==
  ASSUME RowsInv, DbInv, NEW r \in Requests, Fits(req[r]), BackOfficeStep(r)
  PROVE  Planned(r)
BY InsuranceFits, ClaimFits, FindingFits, SettlementFits, CustomerFits, OrderFits,
   QuoteFits, CreateUserFits DEF BackOfficeStep, CommerceStep

-----------------------------------------------------------------------------
(* The inductive invariant, without the sums *)

PlansFit == \A r \in Requests : Fits(req[r])

\* One request at most is on its way to consume a settlement, and none once it is
\* consumed.
Once ==
  /\ \A q, r \in Requests : \A s : Carries(req[q], s) /\ Carries(req[r], s) => q = r
  /\ \A e \in Among(Consumptions), r \in Requests :
       db[e] # Absent => ~Carries(req[r], db[e].settlement)
  /\ \A e, f \in Among(Consumptions) :
       db[e] # Absent /\ db[f] # Absent /\ db[e].settlement = db[f].settlement => e = f

BooksInv == RowsInv /\ DbInv /\ PlansFit /\ Once

\* Nothing is stored and nothing planned at first.
LEMMA InitBooks == Init => BooksInv
<1> SUFFICES ASSUME Init PROVE BooksInv
  OBVIOUS
<1>1. PICK scope \in Scopes : db = Empty(scope)
  BY DEF Init
<1>2. DOMAIN db \in Scopes /\ \A x \in DOMAIN db : db[x] = Absent
  BY <1>1 DEF Empty
<1>3. {x \in DOMAIN db : db[x] # Absent} = {}
  BY <1>2
<1>4. IsFiniteSet({x \in DOMAIN db : db[x] # Absent})
  BY <1>3, FS_EmptySet
<1>5. RowsSound /\ RowsRest
  BY <1>2 DEF RowsSound, RowsRest, Sound, Rests
<1>6. Indexed
  BY <1>2 DEF Indexed, Number, Among
<1>7. Announced
  BY <1>2 DEF Announced, Among, Absent
<1>8. \A r \in Requests : req[r].pc = "idle"
  BY DEF Init, Idle
<1>9. PlansFit
  BY <1>8 DEF PlansFit, Fits
<1>10. Once
  BY <1>2, <1>8 DEF Once, Carries, Among
<1> QED
  BY <1>2, <1>4, <1>5, <1>6, <1>7, <1>9, <1>10, InitQuiet DEF BooksInv, DbInv

\* Work is taken up.
LEMMA StepBooks ==
  ASSUME BooksInv, NEW r \in Requests, BackOfficeStep(r), TakeUp(r)
  PROVE  BooksInv'
<1>1. Planned(r)
  BY StepFits DEF BooksInv, PlansFit
<1>2. UNCHANGED db /\ \A q \in Requests : q # r => req'[q] = req[q]
  BY DEF TakeUp, BooksInv, RowsInv
<1>3. RowsInv'
  BY TakeUpKeeps DEF BooksInv
<1>4. DbInv'
  BY <1>2 DEF BooksInv, DbInv, RowsSound, RowsRest, Rests, Indexed, Announced, Among, Exists
<1>5. \A p : Fits(p) => Fits(p)'
  BY <1>2 DEF Fits, FlushFits, RowFits, Rests, Among, Exists
<1>6. PlansFit'
  <2>1. ASSUME NEW q \in Requests PROVE Fits(req'[q])
    BY <1>1, <1>2 DEF BooksInv, PlansFit, Planned
  <2> QED
    BY <1>5, <2>1 DEF PlansFit
<1>7. Once'
  <2>1. ASSUME NEW q \in Requests, q # r, NEW s, Carries(req[q], s) PROVE ~Fresh(s)
    <3>1. CASE req[q].pc = "resume" /\ req[q].settlement = s
      BY <3>1, Typed DEF BooksInv, PlansFit, Fits, DbInv, Fresh, Among
    <3>2. CASE req[q].pc = "flush" /\ req[q].then.pc = "resume" /\ req[q].then.settlement = s
      BY <3>2 DEF BooksInv, PlansFit, Fits, FlushFits, GoesOn, Fresh, Flushing
    <3>3. CASE req[q].pc = "flush" /\ \E e \in DOMAIN req[q].writes \cap Consumptions :
                                        req[q].writes[e].settlement = s
      <4>1. PICK e \in DOMAIN req[q].writes \cap Consumptions : req[q].writes[e].settlement = s
        BY <3>3
      <4>2. Rests(e, req[q].writes[e]) /\ req[q].writes[e] # Absent
        BY <3>3, <4>1 DEF BooksInv, PlansFit, Fits, FlushFits, RowFits, AdjustTold
      <4> QED
        BY <4>1, <4>2 DEF Rests, Fresh
    <3> QED
      BY <2>1, <3>1, <3>2, <3>3 DEF Carries
  <2>2. ASSUME NEW e \in Among(Consumptions), db[e] # Absent PROVE ~Fresh(db[e].settlement)
    BY <2>2 DEF BooksInv, DbInv, RowsRest, Rests, Fresh, Among
  <2>3. \A q \in Requests : \A s : Carries(req'[q], s) => Carries(req[q], s) \/ (q = r /\ Fresh(s))
    BY <1>1, <1>2 DEF Planned
  <2>4. \A q, t \in Requests : \A s : Carries(req'[q], s) /\ Carries(req'[t], s) => q = t
    BY <2>1, <2>3 DEF BooksInv, Once
  <2>5. \A e \in Among(Consumptions), q \in Requests :
          db[e] # Absent => ~Carries(req'[q], db[e].settlement)
    BY <2>2, <2>3 DEF BooksInv, Once
  <2> QED
    BY <1>2, <2>4, <2>5 DEF BooksInv, Once, Among
<1> QED
  BY <1>3, <1>4, <1>6, <1>7 DEF BooksInv

\* A request ends.
LEMMA AbortBooks ==
  ASSUME BooksInv, NEW r \in Requests, Abort(r)
  PROVE  BooksInv'
<1>1. UNCHANGED db /\ \A q \in Requests : req'[q] = IF q = r THEN Idle ELSE req[q]
  BY DEF Abort, BooksInv, RowsInv
<1>2. RowsInv'
  BY AbortKeeps DEF BooksInv
<1>3. DbInv'
  BY <1>1 DEF BooksInv, DbInv, RowsSound, RowsRest, Rests, Indexed, Announced, Among, Exists
<1>4. \A p : Fits(p) => Fits(p)'
  BY <1>1 DEF Fits, FlushFits, RowFits, Rests, Among, Exists
<1>5. Fits(Idle) /\ \A s : ~Carries(Idle, s)
  BY DEF Fits, Carries, Idle
<1>6. PlansFit'
  <2>1. \A q \in Requests : Fits(req'[q])
    BY <1>1, <1>5 DEF BooksInv, PlansFit
  <2> QED
    BY <1>4, <2>1 DEF PlansFit
<1>7. Once'
  <2>1. \A q \in Requests : \A s : Carries(req'[q], s) => Carries(req[q], s)
    BY <1>1, <1>5
  <2> QED
    BY <1>1, <2>1 DEF BooksInv, Once, Among
<1> QED
  BY <1>2, <1>3, <1>6, <1>7 DEF BooksInv

\* What a commit makes of a row.
LEMMA Committed ==
  ASSUME BooksInv, NEW r \in Requests, Commit(r)
  PROVE  /\ Flushing(r) /\ FlushFits(req[r])
         /\ DOMAIN db' = DOMAIN db
         /\ DOMAIN req[r].writes \subseteq DOMAIN db
         /\ \A x \in DOMAIN db :
              \/ x \notin DOMAIN req[r].writes /\ db'[x] = db[x]
              \/ /\ x \in DOMAIN req[r].writes
                 /\ db'[x] = req[r].writes[x]
                 /\ req[r].loaded[x] = db[x]
                 /\ RowFits(x, db[x], db'[x])
         /\ \A q \in Requests : req'[q] \in {req[q], Doomed} \/ (q = r /\ req'[q] = req[r].then)
         /\ req'[r] = req[r].then
<1>1. Flushing(r) /\ FlushFits(req[r])
  BY DEF Commit, BooksInv, PlansFit, Fits, Flushing
<1>2. DOMAIN db' = DOMAIN db /\ DOMAIN req[r].writes \subseteq DOMAIN db
  BY <1>1 DEF Commit, BooksInv, RowsInv, PlansAreCurrent
<1>3. ASSUME NEW x \in DOMAIN db, x \in DOMAIN req[r].writes
      PROVE  /\ db'[x] = req[r].writes[x]
             /\ req[r].loaded[x] = db[x]
             /\ RowFits(x, db[x], db'[x])
  <2>1. x \notin Unversioned /\ RowFits(x, req[r].loaded[x], req[r].writes[x])
    BY <1>1, <1>3 DEF FlushFits, RowFits, Lawful
  <2>2. req[r].loaded[x] = db[x]
    BY <1>1, <1>3, <2>1 DEF BooksInv, RowsInv, PlansAreCurrent
  <2>3. db'[x] = Stored(x, req[r].loaded[x], req[r].writes[x])
    BY <1>3 DEF Commit
  <2>4. db'[x] = req[r].writes[x]
    BY <2>1, <2>3 DEF Stored
  <2> QED
    BY <2>1, <2>2, <2>4
<1>4. \A x \in DOMAIN db : x \notin DOMAIN req[r].writes => db'[x] = db[x]
  BY DEF Commit
<1>5. \A q \in Requests : req'[q] \in {req[q], Doomed} \/ (q = r /\ req'[q] = req[r].then)
  BY DEF Commit
<1>6. req'[r] = req[r].then
  BY DEF Commit
<1> QED
  BY <1>1, <1>2, <1>3, <1>4, <1>5, <1>6

\* What a row rests on lasts.
LEMMA CommitLasts ==
  ASSUME BooksInv, NEW r \in Requests, Commit(r)
  PROVE  /\ \A x \in DOMAIN db : x \notin Numbers /\ db[x] # Absent => db'[x] # Absent
         /\ \A x \in DOMAIN db : \A row : Rests(x, row) => Rests(x, row)'
         /\ \A x \in DOMAIN db : RowFits(x, db[x], db'[x]) \/ db'[x] = db[x]
<1>1. \A x \in DOMAIN db : RowFits(x, db[x], db'[x]) \/ db'[x] = db[x]
  BY Committed
<1>2. \A x \in DOMAIN db : x \notin Numbers /\ db[x] # Absent => db'[x] # Absent
  BY <1>1 DEF RowFits, Lawful
<1>3. DOMAIN db' = DOMAIN db
  BY Committed
<1>4. ASSUME NEW x \in DOMAIN db, NEW row, Rests(x, row), row # Absent PROVE Rests(x, row)'
  <2>1. ASSUME NEW c, c \in Among(Claims), Exists(c), db[c].approved # None
        PROVE  Exists(c)' /\ db'[c].approved # None
    <3>1. db[c] # Absent /\ c \in DOMAIN db /\ c \notin Numbers /\ c \in Claims
      BY <2>1, Typed, KeyTables DEF BooksInv, DbInv, Among
    <3>2. CASE db'[c] = db[c]
      BY <2>1, <3>2 DEF Exists
    <3>3. CASE RowFits(c, db[c], db'[c])
      BY <2>1, <3>1, <3>3, <1>2 DEF RowFits, Lawful, Sound, Exists
    <3> QED
      BY <1>1, <3>1, <3>2, <3>3
  <2>2. ASSUME NEW s, s \in Among(Settlements), Exists(s)
        PROVE  Exists(s)' /\ (db[s].approvedAt => db'[s].approvedAt)
    <3>1. db[s] # Absent /\ s \in DOMAIN db /\ s \notin Numbers /\ s \in Settlements
      BY <2>2, Typed, KeyTables DEF BooksInv, DbInv, Among
    <3>2. CASE db'[s] = db[s]
      BY <2>2, <3>2 DEF Exists
    <3>3. CASE RowFits(s, db[s], db'[s])
      BY <2>2, <3>1, <3>3, <1>2 DEF RowFits, Lawful, Sound, Exists
    <3> QED
      BY <1>1, <3>1, <3>2, <3>3
  <2>3. \A ids : Among(ids)' = Among(ids)
    BY <1>3 DEF Among
  <2> QED
    BY <1>4, <2>1, <2>2, <2>3 DEF Rests
<1>5. \A x \in DOMAIN db : \A row : row = Absent => Rests(x, row)'
  BY DEF Rests
<1> QED
  BY <1>1, <1>2, <1>4, <1>5

\* After a commit the rows are sound, and say true things of one another.
LEMMA CommitRowsAgree ==
  ASSUME BooksInv, NEW r \in Requests, Commit(r)
  PROVE  /\ (DOMAIN db)' \in Scopes /\ RowsSound' /\ RowsRest'
         /\ IsFiniteSet({x \in DOMAIN db : db[x] # Absent})'
<1>1. (DOMAIN db)' \in Scopes
  BY Committed DEF BooksInv, DbInv
<1>2. RowsSound'
  BY Committed DEF BooksInv, DbInv, RowsSound, RowFits
<1>3. RowsRest'
  BY Committed, CommitLasts DEF BooksInv, DbInv, RowsRest, RowFits
<1>4. IsFiniteSet({x \in DOMAIN db' : db'[x] # Absent})
  <2>1. IsFiniteSet({x \in DOMAIN db : db[x] # Absent} \cup DOMAIN req[r].writes)
    BY Committed, FS_Union DEF BooksInv, DbInv, FlushFits
  <2>2. {x \in DOMAIN db' : db'[x] # Absent}
          \subseteq {x \in DOMAIN db : db[x] # Absent} \cup DOMAIN req[r].writes
    BY Committed
  <2> QED
    BY <2>1, <2>2, FS_Subset
<1> QED
  BY <1>1, <1>2, <1>3, <1>4

\* A commit keeps the index of numbers and the customers pointing at each other.
LEMMA CommitIndexed ==
  ASSUME BooksInv, NEW r \in Requests, Commit(r)
  PROVE  Indexed'
<1> DEFINE w == DOMAIN req[r].writes
<1>1. \A ids : Among(ids)' = Among(ids)
  BY Committed DEF Among
<1>2. NumbersMove(req[r].loaded, req[r].writes)
  BY Committed DEF FlushFits
<1>3. /\ \A x \in DOMAIN db : x \notin w => db'[x] = db[x]
      /\ \A x \in w : /\ x \in DOMAIN db
                      /\ db'[x] = req[r].writes[x] /\ req[r].loaded[x] = db[x]
  BY Committed
<1>4. /\ \A c \in w \cap Customers : Number(db'[c]) # Number(db[c]) =>
           /\ Number(db'[c]) \in w \cap Numbers
           /\ db'[Number(db'[c])] = Entry(c)
           /\ Number(db[c]) # None => Number(db[c]) \in w
      /\ \A n \in w \cap Numbers :
           IF db'[n] = Absent
           THEN db[n] # Absent /\ db[n].of \in w \cap Customers /\ Number(db'[db[n].of]) # n
           ELSE db[n] = Absent /\ db'[n].of \in w \cap Customers /\ Number(db'[db'[n].of]) = n
  BY <1>2, <1>3 DEF NumbersMove
<1> HIDE DEF w
<1>5. Indexed
  BY DEF BooksInv, DbInv
<1>6. ASSUME NEW c \in Among(Customers), Number(db'[c]) # None
      PROVE  Number(db'[c]) \in Among(Numbers) /\ db'[Number(db'[c])] = Entry(c)
  <2>1. CASE Number(db'[c]) # Number(db[c])
    BY <1>3, <1>4, <2>1 DEF Among
  <2>2. CASE Number(db'[c]) = Number(db[c])
    <3> DEFINE n == Number(db[c])
    <3>1. n \in Among(Numbers) /\ db[n] = Entry(c)
      BY <1>5, <1>6, <2>2 DEF Indexed
    <3>2. Entry(c) # Absent /\ Entry(c).of = c
      BY DEF Entry, Absent
    <3>3. n \notin w
      BY <1>4, <2>2, <3>1, <3>2 DEF Among
    <3> QED
      BY <1>3, <2>2, <3>1, <3>3 DEF Among
  <2> QED
    BY <2>1, <2>2
<1>7. ASSUME NEW n \in Among(Numbers), db'[n] # Absent
      PROVE  db'[n].of \in Among(Customers) /\ Number(db'[db'[n].of]) = n
  <2>1. CASE n \in w
    BY <1>3, <1>4, <1>7, <2>1 DEF Among
  <2>2. CASE n \notin w
    <3>1. /\ db'[n] = db[n] /\ db[n].of \in Among(Customers) /\ Number(db[db[n].of]) = n
      BY <1>3, <1>5, <1>7, <2>2 DEF Indexed, Among
    <3>2. n # None
      BY NoneIsNoKey DEF BooksInv, Among
    <3> QED
      BY <1>3, <1>4, <2>2, <3>1, <3>2 DEF Among
  <2> QED
    BY <2>1, <2>2
<1> QED
  BY <1>1, <1>6, <1>7 DEF Indexed

\* A commit that cancels an order announces it, and no other announces any.
LEMMA CommitAnnounced ==
  ASSUME BooksInv, NEW r \in Requests, Commit(r)
  PROVE  Announced'
<1> DEFINE w == DOMAIN req[r].writes
<1>1. \A ids : Among(ids)' = Among(ids)
  BY Committed DEF Among
<1>2. CancelTold(req[r].loaded, req[r].writes)
  BY Committed DEF FlushFits
<1>3. /\ \A x \in DOMAIN db : x \notin w => db'[x] = db[x]
      /\ \A x \in w : /\ x \in DOMAIN db
                      /\ db'[x] = req[r].writes[x] /\ req[r].loaded[x] = db[x]
                      /\ RowFits(x, db[x], db'[x])
  BY Committed
<1>4. /\ \A e \in w \cap Cancellations :
           /\ db[e] = Absent /\ db'[e] # Absent
           /\ db'[e].order \in w \cap Orders
           /\ db[db'[e].order].status # "cancelled"
           /\ db'[db'[e].order].status = "cancelled"
           /\ db'[e].compensate <=> db'[db'[e].order].dispatcher # None
           /\ \A f \in w \cap Cancellations : f = e
      /\ \A o \in w \cap Orders : db'[o].status = "cancelled" =>
           db[o].status = "cancelled" \/ \E e \in w \cap Cancellations : db'[e].order = o
  BY <1>2, <1>3 DEF CancelTold
<1> HIDE DEF w
<1>5. Announced
  BY DEF BooksInv, DbInv
<1>6. ASSUME NEW o \in Among(Orders), db[o].status = "cancelled"
      PROVE  db'[o].status = "cancelled" /\ db'[o].dispatcher = db[o].dispatcher
  <2>1. CASE o \notin w
    BY <1>3, <1>6, <2>1 DEF Among
  <2>2. CASE o \in w
    <3>1. db[o] \in OrderRows
      BY <1>6, Typed DEF BooksInv, DbInv, Exists, Among
    <3>2. [db'[o] EXCEPT !.deleted = db[o].deleted] = db[o]
      BY <1>3, <1>6, <2>2 DEF RowFits, Lawful, TerminalOrders, Among
    <3>3. o \in Orders /\ o \notin Numbers
      BY KeyTables DEF Among
    <3>4. db'[o] # Absent /\ db'[o] \in OrderRows
      BY <1>3, <2>2, <3>3 DEF RowFits, Lawful, Sound
    <3> QED
      BY <1>6, <3>1, <3>2, <3>4 DEF OrderRows
  <2> QED
    BY <2>1, <2>2
<1>7. ASSUME NEW e \in Among(Cancellations), db[e] # Absent
      PROVE  e \notin w /\ db'[e] = db[e]
  BY <1>3, <1>4, <1>7 DEF Among
<1>8. ASSUME NEW o \in Among(Orders), db'[o].status = "cancelled"
      PROVE  \E e \in Among(Cancellations) : db'[e] # Absent /\ db'[e].order = o
  <2>1. CASE db[o].status = "cancelled"
    BY <1>5, <1>7, <2>1 DEF Announced
  <2>2. CASE db[o].status # "cancelled"
    <3>1. o \in w
      BY <1>3, <1>8, <2>2 DEF Among
    <3>2. PICK e \in w \cap Cancellations : db'[e].order = o
      BY <1>4, <1>8, <2>2, <3>1 DEF Among
    <3> QED
      BY <1>3, <1>4, <3>2 DEF Among
  <2> QED
    BY <2>1, <2>2
<1>9. ASSUME NEW e \in Among(Cancellations), db'[e] # Absent
      PROVE  /\ db'[e].order \in Among(Orders)
             /\ db'[db'[e].order].status = "cancelled"
             /\ db'[e].compensate <=> db'[db'[e].order].dispatcher # None
             /\ \A f \in Among(Cancellations) :
                  db'[f] # Absent /\ db'[f].order = db'[e].order => f = e
  <2>1. CASE e \in w
    <3>1. ASSUME NEW f \in Among(Cancellations), f \notin w, db'[f] # Absent
          PROVE  db'[f].order # db'[e].order
      BY <1>3, <1>4, <1>5, <2>1, <3>1 DEF Announced, Among
    <3> QED
      BY <1>3, <1>4, <2>1, <3>1 DEF Among
  <2>2. CASE e \notin w
    <3>1. db'[e] = db[e]
      BY <1>3, <2>2 DEF Among
    <3>2. ASSUME NEW f \in Among(Cancellations), f \in w PROVE db'[f].order # db'[e].order
      BY <1>4, <1>5, <1>9, <3>1, <3>2 DEF Announced, Among
    <3> QED
      BY <1>3, <1>5, <1>6, <1>9, <3>1, <3>2 DEF Announced, Among
  <2> QED
    BY <2>1, <2>2
<1> QED
  BY <1>1, <1>8, <1>9 DEF Announced

\* What the others have planned still fits after a commit.
LEMMA CommitPlans ==
  ASSUME BooksInv, NEW r \in Requests, Commit(r)
  PROVE  PlansFit'
<1>1. \A ids : Among(ids)' = Among(ids)
  BY Committed DEF Among
<1>2. DOMAIN db' = DOMAIN db /\ \A x \in DOMAIN db : x \notin Numbers /\ db[x] # Absent => db'[x] # Absent
  BY Committed, CommitLasts
<1>3. ASSUME NEW p, Fits(p), p.pc = "flush" => DOMAIN p.writes \subseteq DOMAIN db
      PROVE  Fits(p)'
  <2>1. CASE p.pc = "flush"
    <3>1. \A x \in DOMAIN p.writes : RowFits(x, p.loaded[x], p.writes[x])'
      BY <1>3, <2>1, CommitLasts DEF Fits, FlushFits, RowFits
    <3> QED
      BY <1>3, <2>1, <3>1 DEF Fits, FlushFits
  <2>2. CASE p.pc = "resume"
    <3>1. p.settlement \notin Numbers /\ p.settlement \in DOMAIN db
      BY <1>3, <2>2, KeyTables DEF Fits, Among
    <3> QED
      BY <1>1, <1>2, <1>3, <2>2, <3>1 DEF Fits
  <2> QED
    BY <2>1, <2>2 DEF Fits
<1>4. ASSUME NEW q \in Requests PROVE Fits(req[q])'
  <2>1. CASE req'[q] = req[q]
    <3>1. req[q].pc = "flush" => DOMAIN req[q].writes \subseteq DOMAIN db
      BY DEF BooksInv, RowsInv, PlansAreCurrent, Flushing
    <3> DEFINE p == req[q]
    <3>2. Fits(p) /\ (p.pc = "flush" => DOMAIN p.writes \subseteq DOMAIN db)
      BY <3>1 DEF BooksInv, PlansFit
    <3>3. ASSUME NEW v, v = req[q] PROVE Fits(v)'
      BY <1>3, <3>2, <3>3
    <3> QED
      BY <2>1, <3>3
  <2>2. CASE req'[q] = Doomed
    BY <2>2 DEF Fits, Doomed
  <2>3. CASE q = r
    <3>1. /\ req'[q] = req[r].then /\ GoesOn(req[r]) /\ Flushing(r)
      BY <2>3, Committed DEF FlushFits
    <3>2. CASE req[r].then.pc = "idle"
      BY <3>1, <3>2 DEF Fits
    <3>3. CASE req[r].then.pc = "resume"
      <4> DEFINE s == req[r].then.settlement
      <4>1. s \in DOMAIN req[r].writes /\ s \in Settlements /\ req[r].then.invoice \in Invoices
        BY <3>1, <3>3 DEF GoesOn
      <4>2. s \in DOMAIN db /\ RowFits(s, db[s], db'[s]) /\ s \notin Numbers
        BY <4>1, Committed, KeyTables
      <4>3. db'[s] # Absent
        BY <4>2 DEF RowFits, Lawful
      <4> QED
        BY <1>2, <3>1, <3>3, <4>1, <4>2, <4>3 DEF Fits, Among
    <3> QED
      BY <3>1, <3>2, <3>3 DEF GoesOn
  <2> QED
    BY <2>1, <2>2, <2>3, Committed
<1> QED
  BY <1>4 DEF PlansFit

\* A commit lets no second request consume the same settlement.
LEMMA CommitOnce ==
  ASSUME BooksInv, NEW r \in Requests, Commit(r)
  PROVE  Once'
<1> DEFINE w == DOMAIN req[r].writes
<1>1. /\ \A x \in DOMAIN db : x \notin w => db'[x] = db[x]
      /\ \A x \in w : /\ x \in DOMAIN db
                      /\ db'[x] = req[r].writes[x] /\ req[r].loaded[x] = db[x]
      /\ Flushing(r) /\ GoesOn(req[r]) /\ AdjustTold(req[r].loaded, req[r].writes)
      /\ req'[r] = req[r].then
  BY Committed DEF FlushFits
<1>2. \A ids : Among(ids)' = Among(ids)
  BY Committed DEF Among
<1>3. \A s : Carries(req'[r], s) => req[r].then.pc = "resume" /\ Carries(req[r], s)
  BY <1>1 DEF Carries, GoesOn, Flushing
<1>4. \A q \in Requests : \A s : Carries(req'[q], s) => Carries(req[q], s)
  BY <1>3, Committed DEF Carries, Doomed
<1>5. ASSUME NEW e \in w \cap Consumptions
      PROVE  /\ db[e] = Absent
             /\ Carries(req[r], db'[e].settlement)
             /\ req[r].then.pc # "resume"
             /\ \A f \in w \cap Consumptions : f = e
  <2>1. db[e] = Absent /\ \A f \in w \cap Consumptions : f = e
    BY <1>1 DEF AdjustTold
  <2>2. Carries(req[r], db'[e].settlement)
    BY <1>1 DEF Carries, Flushing
  <2>3. req[r].then.pc # "resume"
    BY <1>1 DEF GoesOn
  <2> QED
    BY <2>1, <2>2, <2>3
<1>6. ASSUME NEW e \in Among(Consumptions), e \notin w
      PROVE  db'[e] = db[e]
  BY <1>1, <1>6 DEF Among
<1> HIDE DEF w
<1>7. Once
  BY DEF BooksInv
<1>8. \A q, t \in Requests : \A s : Carries(req'[q], s) /\ Carries(req'[t], s) => q = t
  BY <1>4, <1>7 DEF Once
<1>9. ASSUME NEW e \in Among(Consumptions), NEW q \in Requests, db'[e] # Absent
      PROVE  ~Carries(req'[q], db'[e].settlement)
  <2>1. CASE e \notin w
    BY <1>4, <1>6, <1>7, <1>9, <2>1 DEF Once
  <2>2. CASE e \in w
    <3>1. e \in w \cap Consumptions
      BY <2>2 DEF Among
    <3>2. CASE q = r
      BY <1>3, <1>5, <3>1, <3>2
    <3>3. CASE q # r
      BY <1>4, <1>5, <1>7, <3>1, <3>3 DEF Once
    <3> QED
      BY <3>2, <3>3
  <2> QED
    BY <2>1, <2>2
<1>10. ASSUME NEW e \in Among(Consumptions), NEW f \in Among(Consumptions),
              db'[e] # Absent, db'[f] # Absent, db'[e].settlement = db'[f].settlement
       PROVE  e = f
  <2>1. CASE e \in w /\ f \in w
    BY <1>5, <2>1 DEF Among
  <2>2. CASE e \in w /\ f \notin w
    BY <1>5, <1>6, <1>7, <1>10, <2>2 DEF Once, Among
  <2>3. CASE e \notin w /\ f \in w
    BY <1>5, <1>6, <1>7, <1>10, <2>3 DEF Once, Among
  <2>4. CASE e \notin w /\ f \notin w
    BY <1>6, <1>7, <1>10, <2>4 DEF Once
  <2> QED
    BY <2>1, <2>2, <2>3, <2>4
<1> QED
  BY <1>2, <1>8, <1>9, <1>10 DEF Once

\* A commit keeps the whole invariant.
LEMMA CommitBooks ==
  ASSUME BooksInv, NEW r \in Requests, Commit(r)
  PROVE  BooksInv'
BY CommitKeeps, CommitRowsAgree, CommitIndexed, CommitAnnounced, CommitPlans, CommitOnce
   DEF BooksInv, DbInv

\* Every step keeps the invariant.
LEMMA NextBooks == BooksInv /\ [BackOfficeNext]_rows => BooksInv'
<1>1. ASSUME BooksInv, BackOfficeNext PROVE BooksInv'
  <2>1. PICK r \in Requests : BackOfficeStep(r) \/ Commit(r) \/ Abort(r)
    BY <1>1 DEF BackOfficeNext
  <2>2. CASE BackOfficeStep(r)
    BY <1>1, <2>2, StepBooks, StepTakesUp DEF BooksInv
  <2> QED
    BY <1>1, <2>1, <2>2, CommitBooks, AbortBooks
<1>2. ASSUME BooksInv, UNCHANGED rows PROVE BooksInv'
  <2>1. db' = db /\ req' = req
    BY <1>2 DEF rows
  <2>2. RowsInv'
    BY <1>2, StepKeeps DEF BooksInv
  <2>3. DbInv'
    BY <1>2, <2>1 DEF BooksInv, DbInv, RowsSound, RowsRest, Rests, Indexed, Announced, Among, Exists
  <2>4. PlansFit'
    BY <1>2, <2>1 DEF BooksInv, PlansFit, Fits, FlushFits, RowFits, Rests, Among, Exists
  <2>5. Once'
    BY <1>2, <2>1 DEF BooksInv, Once, Among
  <2> QED
    BY <2>2, <2>3, <2>4, <2>5 DEF BooksInv
<1> QED
  BY <1>1, <1>2

\* What the departments write fits together, always.
THEOREM BooksAgree == BackOfficeSpec => []BooksInv
BY InitBooks, NextBooks, PTL DEF BackOfficeSpec

-----------------------------------------------------------------------------
(* What the departments promise *)

\* Trade: rows have their types, the index of numbers and the customers point at each
\* other, orders went through their stages, quotes add up.
THEOREM TradeIsSound == BackOfficeSpec => []CommerceInv
<1>1. BooksInv => CommerceInv
  <2> SUFFICES ASSUME BooksInv PROVE CommerceInv
    OBVIOUS
  <2>1. CommerceTyped
    BY Typed DEF BooksInv, DbInv, CommerceTyped, Among
  <2>2. IndexAgrees
    <3>1. ASSUME NEW c \in Among(Customers), Exists(c), db[c].number # None
          PROVE  /\ db[c].number \in Among(Numbers) /\ Exists(db[c].number)
                 /\ db[db[c].number].of = c
      <4>1. Number(db[c]) = db[c].number
        BY <3>1, Typed DEF BooksInv, DbInv, Number, Among
      <4>2. db[c].number \in Among(Numbers) /\ db[db[c].number] = Entry(c)
        BY <3>1, <4>1 DEF BooksInv, DbInv, Indexed
      <4>3. Entry(c).status = "entry" /\ Entry(c).of = c
        BY DEF Entry
      <4> QED
        BY <4>2, <4>3 DEF Exists
    <3>2. ASSUME NEW n \in Among(Numbers), Exists(n)
          PROVE  Exists(db[n].of) /\ db[db[n].of].number = n
      <4>1. n # None /\ db[n] # Absent
        BY <3>2, NoneIsNoKey, Typed DEF BooksInv, DbInv, Among
      <4>2. db[n].of \in DOMAIN db /\ Number(db[db[n].of]) = n
        BY <4>1 DEF BooksInv, DbInv, Indexed, Among
      <4>3. db[db[n].of] # Absent /\ db[db[n].of].number = n
        BY <4>1, <4>2 DEF Number
      <4> QED
        BY <4>2, <4>3, Typed DEF BooksInv, DbInv
    <3> QED
      BY <3>1, <3>2 DEF IndexAgrees
  <2>3. StagesStamped
    BY Typed DEF BooksInv, DbInv, StagesStamped, Staged, Upto, Among
  <2>4. QuotesAddUp
    BY Typed DEF BooksInv, DbInv, QuotesAddUp, Among
  <2> QED
    BY <2>1, <2>2, <2>3, <2>4 DEF CommerceInv
<1> QED
  BY <1>1, BooksAgree, PTL

\* No two customers have the same number, though the service asks before others
\* commit, and asks for live customers only: the index decides.
THEOREM NumbersStayDistinct == BackOfficeSpec => []NumbersDistinct
<1>1. CommerceInv => NumbersDistinct
  BY DEF CommerceInv, IndexAgrees, NumbersDistinct
<1> QED
  BY <1>1, TradeIsSound, PTL

\* A cancelled order is announced exactly once, with compensation if and only if it
\* had been assigned.
THEOREM CancellationsAreTold == BackOfficeSpec => []CompensationTold
<1>1. BooksInv => CompensationTold
  <2> SUFFICES ASSUME BooksInv PROVE CompensationTold
    OBVIOUS
  <2>1. \A x \in DOMAIN db : Exists(x) <=> db[x] # Absent
    BY Typed DEF BooksInv, DbInv
  <2>2. Announced
    BY DEF BooksInv, DbInv
  <2> QED
    BY <2>1, <2>2 DEF CompensationTold, Announced, Among
<1> QED
  BY <1>1, BooksAgree, PTL

\* What a step does to a row.
LEMMA RowSteps ==
  ASSUME BooksInv, [BackOfficeNext]_rows, NEW x \in DOMAIN db
  PROVE  db'[x] = db[x] \/ RowFits(x, db[x], db'[x])
<1>1. CASE BackOfficeNext
  <2>1. PICK r \in Requests : BackOfficeStep(r) \/ Commit(r) \/ Abort(r)
    BY <1>1 DEF BackOfficeNext
  <2>2. CASE BackOfficeStep(r)
    BY <2>2, StepTakesUp DEF BooksInv, TakeUp
  <2>3. CASE Commit(r)
    BY <2>3, CommitLasts
  <2>4. CASE Abort(r)
    BY <2>4 DEF Abort
  <2> QED
    BY <2>1, <2>2, <2>3, <2>4
<1>2. CASE UNCHANGED rows
  BY <1>2 DEF rows
<1> QED
  BY <1>1, <1>2

\* What is decided stays as it was decided: settlements from their approval on, the
\* adjustment of a finalised invoice, a terminal policy, whoever had loaded them before.
THEOREM DecisionsStand == BackOfficeSpec => DecidedStaysDecided
<1> DEFINE Stand ==
      /\ \A s \in Among(Settlements) :
           /\ db[s].status \in {"approved", "settled", "cancelled"} =>
                db'[s] = [db[s] EXCEPT !.status = db'[s].status]
           /\ db[s].status \in {"settled", "cancelled"} => db'[s] = db[s]
      /\ \A i \in Among(Invoices) : db[i].status = "final" => db'[i] = db[i]
      /\ \A p \in Among(Policies) :
           db[p].status \in {"expired", "cancelled"} => db'[p] = db[p]
<1>1. ASSUME BooksInv, [BackOfficeNext]_rows PROVE Stand
  <2>1. ASSUME NEW s \in Among(Settlements), db[s].status \in {"approved", "settled", "cancelled"}
        PROVE  db'[s] = [db[s] EXCEPT !.status = db'[s].status]
    <3>1. CASE db'[s] = db[s]
      <4>1. db[s] \in SettlementRows
        BY <1>1, <2>1, Typed DEF BooksInv, DbInv, Exists, Among
      <4> QED
        BY <3>1, <4>1 DEF SettlementRows
    <3>2. CASE RowFits(s, db[s], db'[s])
      BY <2>1, <3>2 DEF RowFits, Lawful, Among
    <3> QED
      BY <1>1, <3>1, <3>2, RowSteps DEF Among
  <2> QED
    BY <1>1, <2>1, RowSteps DEF RowFits, Lawful, Among
<1>2. BooksInv /\ [BackOfficeNext]_rows => [Stand]_rows
  BY <1>1
<1> QED
  BY <1>2, BooksAgree, PTL DEF BackOfficeSpec, DecidedStaysDecided

\* A terminal order can only be deleted and restored, a terminal quote not even that.
THEOREM EndsAreEnds == BackOfficeSpec => EndedStaysEnded
<1> DEFINE Ended ==
      /\ \A o \in Among(Orders) :
           db[o].status \in TerminalOrders => [db'[o] EXCEPT !.deleted = db[o].deleted] = db[o]
      /\ \A q \in Among(Quotes) : db[q].status \in TerminalQuotes => db'[q] = db[q]
<1>1. ASSUME BooksInv, [BackOfficeNext]_rows PROVE Ended
  <2>1. ASSUME NEW o \in Among(Orders), db[o].status \in TerminalOrders
        PROVE  [db'[o] EXCEPT !.deleted = db[o].deleted] = db[o]
    <3>1. CASE db'[o] = db[o]
      <4>1. db[o] \in OrderRows
        BY <1>1, <2>1, Typed DEF BooksInv, DbInv, Exists, Among, TerminalOrders
      <4> QED
        BY <3>1, <4>1 DEF OrderRows
    <3>2. CASE RowFits(o, db[o], db'[o])
      BY <2>1, <3>2 DEF RowFits, Lawful, Among
    <3> QED
      BY <1>1, <3>1, <3>2, RowSteps DEF Among
  <2> QED
    BY <1>1, <2>1, RowSteps DEF RowFits, Lawful, Among
<1>2. BooksInv /\ [BackOfficeNext]_rows => [Ended]_rows
  BY <1>1
<1> QED
  BY <1>2, BooksAgree, PTL DEF BackOfficeSpec, EndedStaysEnded

-----------------------------------------------------------------------------
(***************************************************************************)
(* The sum of a function over a finite set, as MapThenSumSet computes it:  *)
(* one element after the other, in an order nobody chose.  A table of      *)
(* partial sums, one for each subset, stands for the computation.          *)
(***************************************************************************)

\* The element that is added next.
First(s) == CHOOSE x \in s : TRUE

\* g holds the sum of f over each subset of S.
SumsOver(g, f, S) ==
  g = [s \in SUBSET S |-> IF s = {} THEN 0 ELSE f[First(s)] + g[s \ {First(s)}]]

\* The entries of a table of partial sums.
LEMMA SumsOverValue ==
  ASSUME NEW W, NEW e, NEW t, SumsOver(t, e, W)
  PROVE  /\ t[{}] = 0
         /\ \A s \in SUBSET W : s # {} =>
              First(s) \in s /\ t[s] = e[First(s)] + t[s \ {First(s)}]
<1>1. \A s : s # {} => First(s) \in s
  BY DEF First
<1> DEFINE G(s) == IF s = {} THEN 0 ELSE e[First(s)] + t[s \ {First(s)}]
<1>2. t = [s \in SUBSET W |-> G(s)]
  BY DEF SumsOver
<1>3. \A s \in SUBSET W : t[s] = G(s)
  <2> HIDE DEF G
  <2> QED
    BY <1>2
<1> QED
  BY <1>1, <1>3

\* A property of subsets that fails, fails for a smallest one.
LEMMA SmallestSubset ==
  ASSUME NEW S, IsFiniteSet(S), NEW Bad, Bad \subseteq SUBSET S, Bad # {}
  PROVE  \E T \in Bad : \A U \in SUBSET T : U # T => U \notin Bad
<1>1. FiniteSubsetsOf(S) = SUBSET S
  BY FS_FiniteSubsetsOfFinite
<1>2. IsWellFoundedOn(StrictSubsetOrdering(S), SUBSET S)
  BY <1>1, FS_StrictSubsetOrderingWellFounded
<1>3. PICK T \in Bad : \A U \in Bad : ~(<<U, T>> \in StrictSubsetOrdering(S))
  BY <1>2, WFMin
<1>4. ASSUME NEW U \in SUBSET T, U # T, U \in Bad PROVE FALSE
  <2>1. <<U, T>> \in StrictSubsetOrdering(S)
    BY <1>4 DEF StrictSubsetOrdering
  <2> QED
    BY <1>3, <1>4, <2>1
<1> QED
  BY <1>4

\* The partial sums are determined, and determined by the part of f they are about.
LEMMA SumsAgree ==
  ASSUME NEW S, NEW T, NEW f, NEW h, NEW g, NEW k, NEW U, IsFiniteSet(U),
         U \subseteq S, U \subseteq T, SumsOver(g, f, S), SumsOver(k, h, T),
         \A x \in U : f[x] = h[x]
  PROVE  g[U] = k[U]
<1> DEFINE Bad == {s \in SUBSET U : g[s] # k[s]}
<1>1. SUFFICES ASSUME Bad # {} PROVE FALSE
  OBVIOUS
<1>2. PICK s \in Bad : \A u \in SUBSET s : u # s => u \notin Bad
  <2>1. Bad \subseteq SUBSET U
    OBVIOUS
  <2> HIDE DEF Bad
  <2> QED
    BY <1>1, <2>1, SmallestSubset
<1>3. /\ g[{}] = 0
      /\ \A u \in SUBSET S : u # {} => First(u) \in u /\ g[u] = f[First(u)] + g[u \ {First(u)}]
  BY SumsOverValue
<1>4. /\ k[{}] = 0
      /\ \A u \in SUBSET T : u # {} => First(u) \in u /\ k[u] = h[First(u)] + k[u \ {First(u)}]
  BY SumsOverValue
<1>5. s # {} /\ s \in SUBSET S /\ s \in SUBSET T
  BY <1>3, <1>4
<1>6. /\ First(s) \in s
      /\ g[s] = f[First(s)] + g[s \ {First(s)}]
      /\ k[s] = h[First(s)] + k[s \ {First(s)}]
  BY <1>3, <1>4, <1>5
<1>7. g[s \ {First(s)}] = k[s \ {First(s)}]
  BY <1>2, <1>6
<1> QED
  BY <1>6, <1>7

\* There are partial sums of anything over a finite set.
LEMMA SumsExist ==
  ASSUME NEW S, IsFiniteSet(S), NEW f
  PROVE  \E g : SumsOver(g, f, S)
<1> DEFINE Bad == {T \in SUBSET S : ~\E g : SumsOver(g, f, T)}
<1>1. SUFFICES ASSUME Bad # {} PROVE FALSE
  OBVIOUS
<1>2. PICK T \in Bad : \A U \in SUBSET T : U # T => U \notin Bad
  <2>1. Bad \subseteq SUBSET S
    OBVIOUS
  <2> HIDE DEF Bad
  <2> QED
    BY <1>1, <2>1, SmallestSubset
<1>3. \A U \in SUBSET T : U # T => \E g : SumsOver(g, f, U)
  BY <1>2
<1> DEFINE V(U) == (CHOOSE g : SumsOver(g, f, U))[U]
           g == [s \in SUBSET T |-> IF s = {} THEN 0 ELSE f[First(s)] + V(s \ {First(s)})]
<1>4. ASSUME NEW U \in SUBSET T, U # T PROVE g[U] = V(U)
  <2> DEFINE k == CHOOSE k : SumsOver(k, f, U)
  <2>1. SumsOver(k, f, U)
    BY <1>3, <1>4
  <2>2. V(U) = k[U]
    OBVIOUS
  <2> HIDE DEF k
  <2>3. CASE U = {}
    <3>1. k[U] = 0
      BY <2>1, <2>3, SumsOverValue
    <3> QED
      BY <2>2, <2>3, <3>1
  <2>4. CASE U # {}
    <3> DEFINE x == First(U)
               W == U \ {x}
               m == CHOOSE m : SumsOver(m, f, W)
    <3>1. /\ \A u \in SUBSET U : u # {} => First(u) \in u /\ k[u] = f[First(u)] + k[u \ {First(u)}]
      BY <2>1, SumsOverValue
    <3>2. x \in U /\ k[U] = f[x] + k[W]
      BY <2>4, <3>1
    <3>3. W \in SUBSET T /\ W # T /\ W \subseteq U
      BY <3>2
    <3>4. SumsOver(m, f, W)
      BY <1>3, <3>3
    <3>5. V(W) = m[W]
      OBVIOUS
    <3>6. IsFiniteSet(W)
      BY <3>3, FS_Subset
    <3> HIDE DEF m, W
    <3>7. k[W] = m[W]
      BY <2>1, <3>3, <3>4, <3>6, SumsAgree
    <3>8. g[U] = f[x] + V(W)
      BY <2>4 DEF W
    <3> QED
      BY <2>2, <3>2, <3>5, <3>7, <3>8
  <2> QED
    BY <2>3, <2>4
<1>5. \A s \in SUBSET T : s # {} => s \ {First(s)} \in SUBSET T /\ s \ {First(s)} # T
  BY DEF First
<1>6. \A s \in SUBSET T : s # {} => g[s \ {First(s)}] = V(s \ {First(s)})
  BY <1>4, <1>5
<1>7. g = [s \in SUBSET T |-> IF s = {} THEN 0 ELSE f[First(s)] + g[s \ {First(s)}]]
  <2> HIDE DEF V
  <2> QED
    BY <1>6
<1>8. SumsOver(g, f, T)
  BY <1>7 DEF SumsOver
<1> QED
  BY <1>2, <1>8

\* An element outside a set adds its value to the sum, wherever it comes in the order.
LEMMA SumsAdd ==
  ASSUME NEW S, IsFiniteSet(S), NEW f, \A x \in S : f[x] \in Int, NEW g, SumsOver(g, f, S)
  PROVE  \A T \in SUBSET S : /\ g[T] \in Int
                             /\ \A a \in S \ T : g[T \cup {a}] = g[T] + f[a]
<1>1. /\ g[{}] = 0
      /\ \A s \in SUBSET S : s # {} => First(s) \in s /\ g[s] = f[First(s)] + g[s \ {First(s)}]
  BY SumsOverValue
<1> DEFINE Adds(T) == g[T] \in Int /\ \A a \in S \ T : g[T \cup {a}] = g[T] + f[a]
           Bad == {T \in SUBSET S : ~Adds(T)}
<1>2. SUFFICES ASSUME Bad # {} PROVE FALSE
  OBVIOUS
<1>3. PICK T \in Bad : \A U \in SUBSET T : U # T => U \notin Bad
  <2>1. Bad \subseteq SUBSET S
    OBVIOUS
  <2> HIDE DEF Bad
  <2> QED
    BY <1>2, <2>1, SmallestSubset
<1>4. \A U \in SUBSET T : U # T => Adds(U)
  BY <1>3
<1>5. T \in SUBSET S /\ ~Adds(T)
  OBVIOUS
<1> HIDE DEF Bad
<1>6. g[T] \in Int
  <2>1. CASE T = {}
    BY <1>1, <2>1
  <2>2. CASE T # {}
    <3>1. First(T) \in T /\ g[T] = f[First(T)] + g[T \ {First(T)}]
      BY <1>1, <1>5, <2>2
    <3>2. g[T \ {First(T)}] \in Int
      BY <1>4, <3>1
    <3>3. f[First(T)] \in Int
      BY <1>5, <3>1
    <3> QED
      BY <3>1, <3>2, <3>3
  <2> QED
    BY <2>1, <2>2
<1>7. ASSUME NEW a \in S \ T PROVE g[T \cup {a}] = g[T] + f[a]
  <2> DEFINE A == T \cup {a}
             p == First(A)
  <2>1. A \in SUBSET S /\ A # {}
    BY <1>5
  <2>2. p \in A /\ g[A] = f[p] + g[A \ {p}]
    BY <1>1, <2>1
  <2>3. CASE p = a
    <3>1. A \ {p} = T /\ f[a] \in Int
      BY <2>3
    <3>2. g[A] = f[a] + g[T]
      BY <2>2, <2>3, <3>1
    <3> HIDE DEF p
    <3> QED
      BY <1>6, <3>1, <3>2
  <2>4. CASE p # a
    <3> DEFINE U == T \ {p}
    <3>1. p \in T /\ A \ {p} = U \cup {a} /\ T = U \cup {p}
      BY <2>2, <2>4
    <3>2. U \in SUBSET T /\ U # T /\ a \in S \ U /\ p \in S \ U
      BY <1>5, <3>1
    <3>3. g[U] \in Int /\ g[U \cup {a}] = g[U] + f[a] /\ g[U \cup {p}] = g[U] + f[p]
      BY <1>4, <3>2
    <3>4. f[p] \in Int /\ f[a] \in Int
      BY <3>2
    <3>5. g[A] = f[p] + (g[U] + f[a]) /\ g[T] = g[U] + f[p]
      BY <2>2, <3>1, <3>3
    <3> HIDE DEF p, U, A
    <3> QED
      BY <3>3, <3>4, <3>5 DEF A
  <2> QED
    BY <2>3, <2>4
<1> QED
  BY <1>5, <1>6, <1>7

\* The sum of f over S.
Total(f, S) == (CHOOSE g : SumsOver(g, f, S))[S]

\* Any table of partial sums has the sum in its last place.
LEMMA TotalIs ==
  ASSUME NEW S, IsFiniteSet(S), NEW f, NEW T, S \subseteq T, NEW h, NEW g, SumsOver(g, h, T),
         \A x \in S : f[x] = h[x]
  PROVE  Total(f, S) = g[S]
<1> DEFINE k == CHOOSE k : SumsOver(k, f, S)
<1>1. SumsOver(k, f, S)
  BY SumsExist
<1>2. Total(f, S) = k[S]
  BY DEF Total
<1> HIDE DEF k
<1> QED
  BY <1>1, <1>2, SumsAgree

\* Nothing sums to zero.
LEMMA TotalEmpty == \A f : Total(f, {}) = 0
<1> SUFFICES ASSUME NEW f PROVE Total(f, {}) = 0
  OBVIOUS
<1>1. IsFiniteSet({})
  BY FS_EmptySet
<1>2. PICK g : SumsOver(g, f, {})
  BY <1>1, SumsExist
<1> QED
  BY <1>1, <1>2, TotalIs, SumsOverValue

\* Only the values on the set count.
LEMMA TotalAgree ==
  ASSUME NEW S, IsFiniteSet(S), NEW f, NEW h, \A x \in S : f[x] = h[x]
  PROVE  Total(f, S) = Total(h, S)
<1>1. PICK g : SumsOver(g, h, S)
  BY SumsExist
<1> QED
  BY <1>1, TotalIs

\* One element more adds its value.
LEMMA TotalAdd ==
  ASSUME NEW S, IsFiniteSet(S), NEW a, a \notin S, NEW f, \A x \in S \cup {a} : f[x] \in Int
  PROVE  Total(f, S) \in Int /\ Total(f, S \cup {a}) = Total(f, S) + f[a]
<1> DEFINE A == S \cup {a}
<1>1. IsFiniteSet(A)
  BY FS_AddElement
<1> HIDE DEF A
<1>2. PICK g : SumsOver(g, f, A)
  BY <1>1, SumsExist
<1>3. S \subseteq A /\ A \subseteq A /\ a \in A \ S /\ A = S \cup {a}
  BY DEF A
<1>4. Total(f, S) = g[S] /\ Total(f, A) = g[A]
  BY <1>1, <1>2, <1>3, TotalIs
<1>5. g[S] \in Int /\ g[S \cup {a}] = g[S] + f[a]
  BY <1>1, <1>2, <1>3, SumsAdd DEF A
<1> QED
  BY <1>3, <1>4, <1>5

-----------------------------------------------------------------------------
(* The adjustments of an invoice *)

ToldFor(i) == {e \in Among(Consumptions) : db[e] # Absent /\ db[e].invoice = i}

AmountOf == [e \in DOMAIN db |-> db[e].amount]

AdjustmentsAddUp ==
  \A i \in Among(Invoices) : Adjusted(db[i]) = Total(AmountOf, ToldFor(i))

\* Finitely many consumptions speak of an invoice.
LEMMA ToldForIsFinite ==
  ASSUME DbInv, NEW i
  PROVE  IsFiniteSet(ToldFor(i))
<1>1. ToldFor(i) \subseteq {x \in DOMAIN db : db[x] # Absent}
  BY DEF ToldFor, Among
<1> QED
  BY <1>1, FS_Subset DEF DbInv

\* What was told for an invoice is a sum of the amounts of its consumptions.
LEMMA AmountsSum ==
  ASSUME NEW S, IsFiniteSet(S), S \subseteq DOMAIN db
  PROVE  MapThenSumSet(LAMBDA e : db[e].amount, S) = Total(AmountOf, S)
<1> DEFINE G(t) == [s \in SUBSET S |-> IF s = {} THEN 0 ELSE db[First(s)].amount + t[s \ {First(s)}]]
           g == CHOOSE t : t = G(t)
<1>1. MapThenSumSet(LAMBDA e : db[e].amount, S) = g[S]
  BY DEF MapThenSumSet, MapThenFoldSet, First
<1>2. \A s \in SUBSET S : s # {} => First(s) \in DOMAIN db
  BY DEF First
<1>3. \A s \in SUBSET S : s # {} => AmountOf[First(s)] = db[First(s)].amount
  BY <1>2 DEF AmountOf
<1>4. \A t : SumsOver(t, AmountOf, S) <=> t = G(t)
  BY <1>3 DEF SumsOver
<1> HIDE DEF G
<1>5. \E t : t = G(t)
  BY <1>4, SumsExist
<1>6. SumsOver(g, AmountOf, S)
  BY <1>4, <1>5
<1> QED
  BY <1>1, <1>6, TotalIs

\* No invoice is adjusted at first.
LEMMA InitAdjustments == Init => AdjustmentsAddUp
<1> SUFFICES ASSUME Init, NEW i \in Among(Invoices)
             PROVE  Adjusted(db[i]) = Total(AmountOf, ToldFor(i))
  BY DEF AdjustmentsAddUp
<1>1. \A x \in DOMAIN db : db[x] = Absent
  BY DEF Init, Empty
<1>2. ToldFor(i) = {} /\ Adjusted(db[i]) = 0
  BY <1>1 DEF ToldFor, Adjusted, Among
<1> QED
  BY <1>2, TotalEmpty

\* A commit adjusts an invoice by exactly what it announces.
LEMMA CommitAdjustments ==
  ASSUME BooksInv, AdjustmentsAddUp, NEW r \in Requests, Commit(r)
  PROVE  AdjustmentsAddUp'
<1> DEFINE w == DOMAIN req[r].writes
<1>1. \A ids : Among(ids)' = Among(ids)
  BY Committed DEF Among
<1>2. /\ \A x \in DOMAIN db : x \notin w => db'[x] = db[x]
      /\ \A x \in w : /\ x \in DOMAIN db
                      /\ db'[x] = req[r].writes[x] /\ req[r].loaded[x] = db[x]
                      /\ RowFits(x, db[x], db'[x])
      /\ AdjustTold(req[r].loaded, req[r].writes)
      /\ DOMAIN db' = DOMAIN db
  BY Committed DEF FlushFits
<1>3. /\ \A e \in w \cap Consumptions :
           /\ db[e] = Absent /\ db'[e] # Absent
           /\ db'[e].invoice \in w \cap Invoices
           /\ db[db'[e].invoice] # Absent
           /\ db'[db'[e].invoice].adjusted = db[db'[e].invoice].adjusted + db'[e].amount
           /\ \A f \in w \cap Consumptions : f = e
      /\ \A i \in w \cap Invoices :
           Adjusted(db'[i]) = Adjusted(db[i]) \/ \E e \in w \cap Consumptions : db'[e].invoice = i
  BY <1>2 DEF AdjustTold
<1> HIDE DEF w
<1>4. SUFFICES ASSUME NEW i \in Among(Invoices)
               PROVE  Adjusted(db'[i]) = Total(AmountOf', ToldFor(i)')
  BY <1>1 DEF AdjustmentsAddUp
<1> DEFINE S == ToldFor(i)
<1>5. IsFiniteSet(S)
  BY ToldForIsFinite DEF BooksInv
<1>6. \A e \in S : e \notin w /\ db'[e] = db[e] /\ AmountOf'[e] = AmountOf[e]
  BY <1>2, <1>3 DEF ToldFor, Among, AmountOf
<1>7. Adjusted(db[i]) = Total(AmountOf, S)
  BY DEF AdjustmentsAddUp
<1>8. Total(AmountOf', S) = Total(AmountOf, S)
  BY <1>5, <1>6, TotalAgree
<1>9. CASE \E e \in w \cap Consumptions : db'[e].invoice = i
  <2>1. PICK e \in w \cap Consumptions : db'[e].invoice = i
    BY <1>9
  <2>2. ToldFor(i)' = S \cup {e} /\ e \notin S
    BY <1>1, <1>2, <1>3, <1>6, <2>1 DEF ToldFor, Among
  <2>3. e \in DOMAIN db /\ db'[e] \in ConsumptionRows /\ AmountOf'[e] = db'[e].amount
    BY <1>2, <1>3, <2>1 DEF RowFits, Sound, AmountOf
  <2>4. AmountOf'[e] \in Nat
    BY <2>3, ClaimsAssumption DEF ConsumptionRows
  <2>5. \A x \in S : AmountOf'[x] \in Int
    <3>1. ASSUME NEW x \in S PROVE db[x] \in ConsumptionRows /\ x \in DOMAIN db
      BY Typed DEF BooksInv, DbInv, ToldFor, Among
    <3>2. ASSUME NEW x \in S PROVE db[x].amount \in Nat
      BY <3>1, ClaimsAssumption DEF ConsumptionRows
    <3>3. ASSUME NEW x \in S PROVE AmountOf[x] \in Nat
      BY <3>1, <3>2 DEF AmountOf
    <3> HIDE DEF S
    <3> QED
      BY <1>6, <3>3
  <2>6. Total(AmountOf', S \cup {e}) = Total(AmountOf', S) + AmountOf'[e]
    <3> DEFINE f == AmountOf'
    <3>1. \A x \in S \cup {e} : f[x] \in Int
      BY <2>4, <2>5
    <3> HIDE DEF f
    <3>2. Total(f, S \cup {e}) = Total(f, S) + f[e]
      BY <1>5, <2>2, <3>1, TotalAdd
    <3> QED
      BY <3>2 DEF f
  <2>7. Adjusted(db[i]) = db[i].adjusted /\ Adjusted(db'[i]) = db'[i].adjusted
    <3>1. i \in w /\ db[i] # Absent /\ i \notin Numbers
      BY <1>3, <2>1, KeyTables DEF Among
    <3>2. db'[i] # Absent
      BY <1>2, <3>1 DEF RowFits, Lawful
    <3> QED
      BY <3>1, <3>2 DEF Adjusted
  <2>8. Adjusted(db'[i]) = Adjusted(db[i]) + AmountOf'[e]
    BY <1>3, <2>1, <2>3, <2>7
  <2> QED
    BY <1>7, <1>8, <2>2, <2>6, <2>8
<1>10. CASE ~\E e \in w \cap Consumptions : db'[e].invoice = i
  <2>1. ToldFor(i)' = S
    BY <1>1, <1>2, <1>3, <1>6, <1>10 DEF ToldFor, Among
  <2>2. Adjusted(db'[i]) = Adjusted(db[i])
    BY <1>2, <1>3, <1>10 DEF Among
  <2> QED
    BY <1>7, <1>8, <2>1, <2>2
<1> QED
  BY <1>9, <1>10

\* Every step keeps the adjustments adding up.
LEMMA NextAdjustments ==
  BooksInv /\ AdjustmentsAddUp /\ [BackOfficeNext]_rows => AdjustmentsAddUp'
<1> SUFFICES ASSUME BooksInv, AdjustmentsAddUp, [BackOfficeNext]_rows PROVE AdjustmentsAddUp'
  OBVIOUS
<1>1. CASE UNCHANGED db
  BY <1>1 DEF AdjustmentsAddUp, Among, ToldFor, AmountOf
<1>2. CASE \E r \in Requests : Commit(r)
  BY <1>2, CommitAdjustments
<1>3. (\E r \in Requests : Commit(r)) \/ UNCHANGED db
  BY StepTakesUp DEF BackOfficeNext, BooksInv, TakeUp, Abort, rows
<1> QED
  BY <1>1, <1>2, <1>3

\* Claims and settlements: types, decided amounts, claim-backed settlements that rest
\* on an approval, payouts of what was approved, invoices adjusted by exactly what was
\* announced, and no settlement consumed twice.
THEOREM ClaimsAreSound == BackOfficeSpec => []ClaimsInv
<1>1. BooksInv /\ AdjustmentsAddUp => ClaimsInv
  <2> SUFFICES ASSUME BooksInv, AdjustmentsAddUp PROVE ClaimsInv
    OBVIOUS
  <2>1. ClaimsTyped
    BY Typed DEF BooksInv, DbInv, ClaimsTyped, Among
  <2>2. SettlementsTyped
    BY Typed DEF BooksInv, DbInv, SettlementsTyped, Among
  <2>3. AmountsDecided
    BY Typed DEF BooksInv, DbInv, AmountsDecided, Among
  <2>4. \A x \in DOMAIN db : Exists(x) <=> db[x] # Absent
    BY Typed DEF BooksInv, DbInv
  <2>5. BackedByApproval
    BY <2>4 DEF BooksInv, DbInv, RowsRest, Rests, BackedByApproval, Among
  <2>6. PayoutsApproved
    BY <2>4 DEF BooksInv, DbInv, RowsRest, Rests, PayoutsApproved, Among
  <2>7. ConsumedOnce
    BY <2>4 DEF BooksInv, Once, ConsumedOnce, Among
  <2>8. AdjustmentTold
    <3> SUFFICES ASSUME NEW i \in Among(Invoices), Exists(i)
                 PROVE  db[i].adjusted = MapThenSumSet(LAMBDA e : db[e].amount,
                          {e \in Among(Consumptions) : Exists(e) /\ db[e].invoice = i})
      BY DEF AdjustmentTold
    <3>1. {e \in Among(Consumptions) : Exists(e) /\ db[e].invoice = i} = ToldFor(i)
      BY <2>4 DEF ToldFor, Among
    <3>2. IsFiniteSet(ToldFor(i)) /\ ToldFor(i) \subseteq DOMAIN db
      BY ToldForIsFinite DEF BooksInv, ToldFor, Among
    <3>3. Adjusted(db[i]) = db[i].adjusted
      BY <2>4 DEF Adjusted, Among
    <3>4. MapThenSumSet(LAMBDA e : db[e].amount, ToldFor(i)) = Total(AmountOf, ToldFor(i))
      BY <3>2, AmountsSum
    <3> QED
      BY <3>1, <3>3, <3>4 DEF AdjustmentsAddUp
  <2> QED
    BY <2>1, <2>2, <2>3, <2>5, <2>6, <2>7, <2>8 DEF ClaimsInv
<1>2. BackOfficeSpec => [](BooksInv /\ AdjustmentsAddUp)
  BY InitBooks, NextBooks, InitAdjustments, NextAdjustments, PTL DEF BackOfficeSpec
<1> QED
  BY <1>1, <1>2, PTL

-----------------------------------------------------------------------------
(* Shares of liability *)

ShareOf == [l \in DOMAIN db |-> db[l].share]

Whole(c) ==
  \/ Total(ShareOf, RecordsOf(c)) <= 100
  \/ \E l \in RecordsOf(c) : db[l].overridden
  \/ \E l, m \in RecordsOf(c) : l # m /\ Unseen(l, m)

\* A record was checked beside records that were there.
SeenAreThere(c) == \A l \in RecordsOf(c) : db[l].beside \subseteq RecordsOf(c)

\* A share that is going to be recorded fits beside the records it was checked with.
ShareFits(r) ==
  Flushing(r) => \A x \in DOMAIN req[r].writes \cap LiabilityRecords :
    LET row == req[r].writes[x]
    IN /\ DOMAIN req[r].writes = {x}
       /\ row \in LiabilityRows
       /\ row.beside \subseteq RecordsOf(row.claim)
       /\ row.share # None /\ ~row.overridden /\ row.beside = RecordsOf(row.claim) =>
            Total(ShareOf, RecordsOf(row.claim)) + row.share <= 100

SharesInv ==
  /\ \A c \in Claims : Whole(c) /\ SeenAreThere(c)
  /\ \A r \in Requests : ShareFits(r)

\* Finitely many shares of a claim, each a percentage.
LEMMA RecordsAreFinite ==
  ASSUME DbInv, NEW c
  PROVE  /\ IsFiniteSet(RecordsOf(c)) /\ RecordsOf(c) \subseteq DOMAIN db
         /\ \A l \in RecordsOf(c) : db[l] # Absent /\ ShareOf[l] \in 0..100
<1>1. ASSUME NEW l \in RecordsOf(c)
      PROVE  /\ l \in DOMAIN db /\ db[l] # Absent /\ ShareOf[l] = db[l].share
             /\ db[l].share \in 0..100
  <2>1. l \in DOMAIN db /\ l \in LiabilityRecords /\ Exists(l) /\ db[l].share # None
    BY DEF RecordsOf, Among, Live
  <2>2. db[l] \in LiabilityRows
    BY <2>1, Typed DEF DbInv
  <2> QED
    BY <2>1, <2>2, Typed, ClaimsAssumption DEF DbInv, LiabilityRows, ShareOf
<1>2. RecordsOf(c) \subseteq {x \in DOMAIN db : db[x] # Absent}
  BY <1>1
<1> QED
  BY <1>1, <1>2, FS_Subset DEF DbInv

\* The sum the service computes is the total of the shares of the claim.
LEMMA SharesSum ==
  ASSUME DbInv, NEW c
  PROVE  TotalLiability(c) = Total(ShareOf, RecordsOf(c))
<1> DEFINE S == RecordsOf(c)
<1>1. IsFiniteSet(S) /\ S \subseteq DOMAIN db
  BY RecordsAreFinite
<1>2. TotalLiability(c) = MapThenSumSet(LAMBDA l : db[l].share, S)
  BY DEF TotalLiability
<1> HIDE DEF S
<1> DEFINE G(t) == [s \in SUBSET S |-> IF s = {} THEN 0 ELSE db[First(s)].share + t[s \ {First(s)}]]
           g == CHOOSE t : t = G(t)
<1>3. MapThenSumSet(LAMBDA l : db[l].share, S) = g[S]
  BY DEF MapThenSumSet, MapThenFoldSet, First
<1>4. \A s \in SUBSET S : s # {} => First(s) \in DOMAIN db
  BY <1>1 DEF First
<1>5. \A s \in SUBSET S : s # {} => ShareOf[First(s)] = db[First(s)].share
  BY <1>4 DEF ShareOf
<1>6. \A t : SumsOver(t, ShareOf, S) <=> t = G(t)
  BY <1>5 DEF SumsOver
<1> HIDE DEF G
<1>7. \E t : t = G(t)
  BY <1>1, <1>6, SumsExist
<1>8. SumsOver(g, ShareOf, S)
  BY <1>6, <1>7
<1> QED
  BY <1>1, <1>2, <1>3, <1>8, TotalIs DEF S

\* No share is recorded at first.
LEMMA InitShares == Init => SharesInv
<1> SUFFICES ASSUME Init PROVE SharesInv
  OBVIOUS
<1>1. \A x \in DOMAIN db : db[x] = Absent
  BY DEF Init, Empty
<1>2. \A c : RecordsOf(c) = {}
  BY <1>1 DEF RecordsOf, Live, Exists, Among, Absent
<1>3. \A c : Total(ShareOf, RecordsOf(c)) = 0
  BY <1>2, TotalEmpty
<1>4. \A r \in Requests : ~Flushing(r)
  BY DEF Init, Flushing, Idle
<1> QED
  BY <1>2, <1>3, <1>4 DEF SharesInv, Whole, SeenAreThere, ShareFits

\* Where the rows stay, the shares stay.
LEMMA SharesStay ==
  ASSUME UNCHANGED db
  PROVE  /\ UNCHANGED ShareOf
         /\ \A c : RecordsOf(c)' = RecordsOf(c)
         /\ \A c : Whole(c) => Whole(c)'
         /\ \A c : SeenAreThere(c) => SeenAreThere(c)'
<1>1. UNCHANGED ShareOf /\ \A c : RecordsOf(c)' = RecordsOf(c)
  BY DEF ShareOf, RecordsOf, Among, Live, Exists
<1>2. \A c : (Whole(c) => Whole(c)') /\ (SeenAreThere(c) => SeenAreThere(c)')
  BY <1>1 DEF Whole, SeenAreThere, Unseen
<1> QED
  BY <1>1, <1>2

\* A share is planned that fits.
LEMMA StepShares ==
  ASSUME BooksInv, SharesInv, NEW r \in Requests, BackOfficeStep(r), TakeUp(r)
  PROVE  SharesInv'
<1>1. UNCHANGED db /\ \A q \in Requests : q # r => req'[q] = req[q]
  BY DEF TakeUp, BooksInv, RowsInv
<1>2. /\ UNCHANGED ShareOf /\ \A c : RecordsOf(c)' = RecordsOf(c)
      /\ \A c \in Claims : Whole(c)' /\ SeenAreThere(c)'
  BY <1>1, SharesStay DEF SharesInv
<1>3. ASSUME NEW q \in Requests, q # r PROVE ShareFits(q)'
  <2>1. ShareFits(q)
    BY DEF SharesInv
  <2> QED
    BY <1>1, <1>2, <1>3, <2>1 DEF ShareFits, Flushing
<1>4. ShareFits(r)'
  <2>1. SUFFICES ASSUME CreateLiabilityRecord(r) PROVE ShareFits(r)'
    BY StepFits DEF BooksInv, PlansFit, Planned, ShareFits
  <2>2. PICK c \in Among(Claims), l \in Among(LiabilityRecords),
             share \in Shares \cup {None}, override \in Overrides :
               /\ ValidDistribution(c, share, override)
               /\ Write(r, "create_liability", l,
                        [status |-> "determined", deleted |-> FALSE, claim |-> c,
                         share |-> share, overridden |-> override, beside |-> RecordsOf(c)])
    BY <2>1 DEF CreateLiabilityRecord, Insert
  <2> DEFINE row == [status |-> "determined", deleted |-> FALSE, claim |-> c,
                     share |-> share, overridden |-> override, beside |-> RecordsOf(c)]
  <2>3. /\ row \in LiabilityRows /\ row.claim = c /\ row.share = share
        /\ row.overridden = override /\ row.beside = RecordsOf(c)
    BY ClaimsAssumption DEF LiabilityRows, RecordsOf, Among
  <2> HIDE DEF row
  <2>4. DOMAIN req'[r].writes = {l} /\ req'[r].writes[l] = row
    BY <2>2 DEF BooksInv, RowsInv, Write, Prepare, Plan, Row, row
  <2>5. share # None /\ ~override => Total(ShareOf, RecordsOf(c)) + share <= 100
    BY <2>2, SharesSum DEF BooksInv, ValidDistribution
  <2> QED
    BY <1>1, <1>2, <2>3, <2>4, <2>5 DEF ShareFits
<1> QED
  BY <1>2, <1>3, <1>4 DEF SharesInv

\* A share that was checked beside all the others keeps the whole, and one that was
\* not has not seen one that had not seen it.
LEMMA CommitShares ==
  ASSUME BooksInv, SharesInv, NEW r \in Requests, Commit(r)
  PROVE  SharesInv'
<1> DEFINE w == DOMAIN req[r].writes
<1>1. /\ \A x \in DOMAIN db : x \notin w => db'[x] = db[x]
      /\ \A x \in w : /\ x \in DOMAIN db
                      /\ db'[x] = req[r].writes[x] /\ req[r].loaded[x] = db[x]
                      /\ RowFits(x, db[x], db'[x])
      /\ DOMAIN db' = DOMAIN db
      /\ Flushing(r)
  BY Committed
<1>2. \A x \in w \cap LiabilityRecords :
        /\ w = {x} /\ db[x] = Absent /\ db'[x] \in LiabilityRows
        /\ db'[x].beside \subseteq RecordsOf(db'[x].claim)
        /\ db'[x].share # None /\ ~db'[x].overridden
             /\ db'[x].beside = RecordsOf(db'[x].claim) =>
             Total(ShareOf, RecordsOf(db'[x].claim)) + db'[x].share <= 100
  <2>1. TAKE x \in w \cap LiabilityRecords
  <2>2. db[x] = Absent
    <3>1. Lawful(x, db[x], db'[x])
      BY <1>1 DEF RowFits
    <3> QED
      BY <3>1 DEF Lawful
  <2>3. db'[x] = req[r].writes[x]
    BY <1>1
  <2>4. ShareFits(r)
    BY DEF SharesInv
  <2> QED
    BY <1>1, <2>2, <2>3, <2>4 DEF ShareFits
<1> HIDE DEF w
<1>3. ASSUME NEW c, NEW l \in RecordsOf(c)
      PROVE  l \notin w /\ db'[l] = db[l] /\ ShareOf'[l] = ShareOf[l] /\ l \in RecordsOf(c)'
  <2>1. l \in DOMAIN db /\ l \in LiabilityRecords /\ db[l] # Absent
    BY RecordsAreFinite DEF BooksInv, RecordsOf, Among
  <2>2. l \notin w /\ db'[l] = db[l]
    BY <1>1, <1>2, <2>1
  <2> QED
    BY <1>1, <2>1, <2>2 DEF ShareOf, RecordsOf, Among, Live, Exists
<1>4. ASSUME NEW c PROVE Total(ShareOf', RecordsOf(c)) = Total(ShareOf, RecordsOf(c))
  <2> DEFINE f == ShareOf'
             S == RecordsOf(c)
  <2>1. IsFiniteSet(S) /\ \A l \in S : f[l] = ShareOf[l]
    BY <1>3, RecordsAreFinite DEF BooksInv
  <2> HIDE DEF f, S
  <2>2. Total(f, S) = Total(ShareOf, S)
    BY <2>1, TotalAgree
  <2> QED
    BY <2>2 DEF f, S
<1>5. ASSUME NEW c, \A x \in w \cap LiabilityRecords : db'[x].share = None \/ db'[x].claim # c
      PROVE  /\ RecordsOf(c)' = RecordsOf(c)
             /\ Total(ShareOf, RecordsOf(c))' = Total(ShareOf, RecordsOf(c))
  <2>1. \A l \in RecordsOf(c)' : l \in RecordsOf(c)
    BY <1>1, <1>5 DEF RecordsOf, Among, Live, Exists
  <2>2. RecordsOf(c)' = RecordsOf(c)
    BY <1>3, <2>1
  <2> QED
    BY <1>4, <2>2
<1>6. ASSUME NEW c, NEW x \in w \cap LiabilityRecords, db'[x].share # None, db'[x].claim = c
      PROVE  RecordsOf(c)' = RecordsOf(c) \cup {x} /\ x \notin RecordsOf(c) /\ x \in DOMAIN db
  <2>1. w = {x} /\ db[x] = Absent /\ db'[x] \in LiabilityRows /\ x \in DOMAIN db
    BY <1>1, <1>2, <1>6
  <2>2. x \in RecordsOf(c)'
    BY <1>1, <1>6, <2>1 DEF RecordsOf, Among, Live, Exists, LiabilityRows
  <2>3. \A l \in RecordsOf(c)' : l \in RecordsOf(c) \/ l = x
    BY <1>1, <2>1 DEF RecordsOf, Among, Live, Exists
  <2>4. x \notin RecordsOf(c)
    BY <2>1, RecordsAreFinite DEF BooksInv
  <2> QED
    BY <1>3, <2>1, <2>2, <2>3, <2>4
<1>7. ASSUME NEW c \in Claims PROVE SeenAreThere(c)'
  <2>1. SeenAreThere(c)
    BY DEF SharesInv
  <2>2. CASE \A x \in w \cap LiabilityRecords : db'[x].share = None \/ db'[x].claim # c
    BY <1>3, <1>5, <2>1, <2>2 DEF SeenAreThere
  <2>3. CASE \E x \in w \cap LiabilityRecords : db'[x].share # None /\ db'[x].claim = c
    <3>1. PICK x \in w \cap LiabilityRecords : db'[x].share # None /\ db'[x].claim = c
      BY <2>3
    <3>2. RecordsOf(c)' = RecordsOf(c) \cup {x} /\ db'[x].beside \subseteq RecordsOf(c)
      BY <1>2, <1>6, <3>1
    <3> QED
      BY <1>3, <2>1, <3>2 DEF SeenAreThere
  <2> QED
    BY <2>2, <2>3
<1>8. ASSUME NEW c \in Claims PROVE Whole(c)'
  <2>1. Whole(c) /\ SeenAreThere(c)
    BY DEF SharesInv
  <2>2. ASSUME Total(ShareOf, RecordsOf(c))' = Total(ShareOf, RecordsOf(c))
        PROVE  Whole(c)'
    BY <1>3, <2>1, <2>2 DEF Whole, Unseen
  <2>3. CASE \A x \in w \cap LiabilityRecords : db'[x].share = None \/ db'[x].claim # c
    BY <1>5, <2>2, <2>3
  <2>4. CASE \E x \in w \cap LiabilityRecords : db'[x].share # None /\ db'[x].claim = c
    <3>1. PICK x \in w \cap LiabilityRecords : db'[x].share # None /\ db'[x].claim = c
      BY <2>4
    <3>2. /\ RecordsOf(c)' = RecordsOf(c) \cup {x} /\ x \notin RecordsOf(c) /\ x \in DOMAIN db
          /\ db'[x] \in LiabilityRows /\ db'[x].beside \subseteq RecordsOf(c)
      BY <1>2, <1>6, <3>1
    <3>3. CASE db'[x].overridden
      BY <3>2, <3>3 DEF Whole
    <3>4. CASE db'[x].beside # RecordsOf(c)
      <4>1. PICK l \in RecordsOf(c) : l \notin db'[x].beside
        BY <3>2, <3>4
      <4>2. x \notin db'[l].beside
        BY <1>3, <2>1, <3>2 DEF SeenAreThere
      <4> QED
        BY <3>2, <4>1, <4>2 DEF Whole, Unseen
    <3>5. CASE ~db'[x].overridden /\ db'[x].beside = RecordsOf(c)
      <4> DEFINE S == RecordsOf(c)
                 f == ShareOf'
      <4>1. Total(ShareOf, S) + db'[x].share <= 100
        BY <1>2, <3>1, <3>5
      <4>2. f[x] = db'[x].share /\ f[x] \in 0..100
        BY <1>1, <3>1, <3>2, ClaimsAssumption DEF ShareOf, LiabilityRows
      <4>3. IsFiniteSet(S) /\ \A l \in S : f[l] \in 0..100
        BY <1>3, RecordsAreFinite DEF BooksInv
      <4>4. Total(f, S) = Total(ShareOf, S)
        BY <1>4
      <4>5. Total(ShareOf, RecordsOf(c))' = Total(f, S \cup {x}) /\ x \notin S
        BY <3>2
      <4> HIDE DEF S, f
      <4>6. \A l \in S \cup {x} : f[l] \in Int
        BY <4>2, <4>3
      <4>7. Total(f, S \cup {x}) = Total(f, S) + f[x] /\ Total(f, S) \in Int
        BY <4>3, <4>5, <4>6, TotalAdd
      <4>8. Total(f, S \cup {x}) <= 100
        BY <4>1, <4>2, <4>4, <4>7
      <4> QED
        BY <4>5, <4>8 DEF Whole
    <3> QED
      BY <3>3, <3>4, <3>5
  <2> QED
    BY <2>3, <2>4
<1>9. ASSUME NEW q \in Requests PROVE ShareFits(q)'
  <2>1. CASE req'[q] = req[q] /\ Flushing(q)
    <3>1. ASSUME NEW x \in DOMAIN req[q].writes \cap LiabilityRecords,
                 NEW row, row = req[q].writes[x]
          PROVE  /\ DOMAIN req[q].writes = {x}
                 /\ row \in LiabilityRows
                 /\ row.beside \subseteq RecordsOf(row.claim)'
                 /\ row.share # None /\ ~row.overridden
                      /\ row.beside = RecordsOf(row.claim)' =>
                      Total(ShareOf, RecordsOf(row.claim))' + row.share <= 100
      <4>1. /\ DOMAIN req[q].writes = {x} /\ row \in LiabilityRows
            /\ row.beside \subseteq RecordsOf(row.claim)
            /\ row.share # None /\ ~row.overridden /\ row.beside = RecordsOf(row.claim) =>
                 Total(ShareOf, RecordsOf(row.claim)) + row.share <= 100
        BY <2>1, <3>1 DEF SharesInv, ShareFits
      <4>2. PICK c : c = row.claim
        OBVIOUS
      <4>3. CASE \A y \in w \cap LiabilityRecords : db'[y].share = None \/ db'[y].claim # c
        <5>1. /\ RecordsOf(c)' = RecordsOf(c)
              /\ Total(ShareOf, RecordsOf(c))' = Total(ShareOf, RecordsOf(c))
          BY <1>5, <4>3
        <5> QED
          BY <4>1, <4>2, <5>1
      <4>4. CASE \E y \in w \cap LiabilityRecords : db'[y].share # None /\ db'[y].claim = c
        <5>1. \E y : RecordsOf(c)' = RecordsOf(c) \cup {y} /\ y \notin RecordsOf(c)
          BY <1>6, <4>4
        <5> QED
          BY <4>1, <4>2, <5>1
      <4> QED
        BY <4>3, <4>4
    <3> QED
      BY <2>1, <3>1 DEF ShareFits, Flushing
  <2>2. CASE req'[q] = req[q] /\ ~Flushing(q)
    BY <2>2 DEF ShareFits, Flushing
  <2>3. CASE req'[q] = Doomed
    BY <2>3 DEF ShareFits, Flushing, Doomed
  <2>4. CASE req'[q] = req[r].then
    BY <2>4, Committed DEF ShareFits, Flushing, FlushFits, GoesOn
  <2> QED
    BY <2>1, <2>2, <2>3, <2>4, Committed
<1> QED
  BY <1>7, <1>8, <1>9 DEF SharesInv

\* Every step keeps what is known of the shares.
LEMMA NextShares == BooksInv /\ SharesInv /\ [BackOfficeNext]_rows => SharesInv'
<1> SUFFICES ASSUME BooksInv, SharesInv, [BackOfficeNext]_rows PROVE SharesInv'
  OBVIOUS
<1>1. ASSUME UNCHANGED db, \A q \in Requests : req'[q] = req[q] \/ req'[q] = Idle
      PROVE  SharesInv'
  <2>1. /\ UNCHANGED ShareOf /\ \A c : RecordsOf(c)' = RecordsOf(c)
        /\ \A c \in Claims : Whole(c)' /\ SeenAreThere(c)'
    BY <1>1, SharesStay DEF SharesInv
  <2>2. ASSUME NEW q \in Requests PROVE ShareFits(q)'
    BY <1>1, <2>1 DEF SharesInv, ShareFits, Flushing, Idle
  <2> QED
    BY <2>1, <2>2 DEF SharesInv
<1>2. CASE BackOfficeNext
  <2>1. PICK r \in Requests : BackOfficeStep(r) \/ Commit(r) \/ Abort(r)
    BY <1>2 DEF BackOfficeNext
  <2>2. CASE BackOfficeStep(r)
    BY <2>2, StepShares, StepTakesUp DEF BooksInv
  <2>3. CASE Commit(r)
    BY <2>3, CommitShares
  <2>4. CASE Abort(r)
    BY <1>1, <2>4 DEF Abort, BooksInv, RowsInv
  <2> QED
    BY <2>1, <2>2, <2>3, <2>4
<1>3. CASE UNCHANGED rows
  BY <1>1, <1>3 DEF rows
<1> QED
  BY <1>2, <1>3

\* For any number of recorders and shares: the shares of a claim sum to at most 100,
\* unless one was overridden or two were checked against a sum without each other
\* (validate_liability_distribution, which reads the sum and protects nothing).
THEOREM OnlyUnseenSharesExceed == BackOfficeSpec => []OnlyUnseenExceed
<1>1. BooksInv /\ SharesInv => OnlyUnseenExceed
  <2> SUFFICES ASSUME BooksInv, SharesInv, NEW c \in Among(Claims)
               PROVE  \/ TotalLiability(c) <= 100
                      \/ \E l \in RecordsOf(c) : db[l].overridden
                      \/ \E l, m \in RecordsOf(c) : l # m /\ Unseen(l, m)
    BY DEF OnlyUnseenExceed
  <2>1. Whole(c)
    BY DEF SharesInv, Among
  <2> QED
    BY <2>1, SharesSum DEF Whole, BooksInv
<1>2. BackOfficeSpec => [](BooksInv /\ SharesInv)
  BY InitBooks, NextBooks, InitShares, NextShares, PTL DEF BackOfficeSpec
<1> QED
  BY <1>1, <1>2, PTL
=============================================================================
