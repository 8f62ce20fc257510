--------------------------- MODULE InvoicePayments ---------------------------
(***************************************************************************)
(* Invoices, payments, penalties and claim adjustments: the invoice half   *)
(* of BillingService (app/services/billing_service.py) with the adjustment *)
(* SettlementService makes (app/services/settlement_service.py).           *)
(*                                                                         *)
(* A call loads the invoice and decides, then flushes and commits; other   *)
(* requests commit in between.  An UPDATE of the invoice is refused when   *)
(* its version column moved on since the load.  A payment is a row of its  *)
(* own, so it updates the invoice, and meets that check, only when the     *)
(* status changes.  Its PaymentRecorded event takes the next number of the *)
(* invoice's stream, which is unique, so two payments of one invoice are   *)
(* never between that insert and their commit together: that stretch is    *)
(* one step here.  A call a guard rejects changes nothing and is no step.  *)
(***************************************************************************)
EXTENDS Integers

CONSTANTS
  Invoices, Requests,
  CreditNotes,   \* invoices with is_credit_note
  Lines,         \* possible sums of an invoice's lines, tax included
  Amounts,       \* amounts of payments, penalties and adjustments
  Overrides,     \* values of allow_override that callers may pass
  Calls,         \* the operations clients call
  MaxVersion,    \* bound: no call starts on an invoice at this version
  MaxPaid,       \* bound: nor on one with this much confirmed money
  MaxPending     \* bound: payments that are pending at once

Operations == {"issue", "update", "void", "cancel", "overdue", "penalty",
               "adjust", "pay", "stage"}

ASSUME InvoiceAssumption ==
  /\ CreditNotes \subseteq Invoices
  /\ Lines \subseteq Nat
  /\ Amounts \subseteq Nat \ {0}
  /\ Overrides \subseteq BOOLEAN
  /\ Calls \subseteq Operations
  /\ {MaxVersion, MaxPaid, MaxPending} \subseteq Nat

VARIABLES
  inv,       \* the invoices table
  paid,      \* sum of each invoice's confirmed payments
  pending,   \* number of each invoice's pending payments
  charged,   \* sum of the penalties applied to each invoice
  credited,  \* sum of the claim adjustments applied to each invoice
  req        \* what each in-flight request holds in memory

vars == <<inv, paid, pending, charged, credited, req>>

-----------------------------------------------------------------------------
(* Rows, the state machine and requests *)

Statuses == {"draft", "issued", "partially_paid", "paid", "overdue", "voided",
             "cancelled"}

\* Fault: a partially paid invoice may be voided like an issued one.
ALLOWED_TRANSITIONSFault == [s \in Statuses |->
  CASE s = "draft"          -> {"issued", "cancelled"}
    [] s = "issued"         -> {"partially_paid", "paid", "overdue", "voided",
                                "cancelled"}
    [] s = "partially_paid" -> {"paid", "overdue", "voided"}
    [] s = "overdue"        -> {"partially_paid", "paid"}
    [] OTHER                -> {}]

ALLOWED_TRANSITIONS == [s \in Statuses |->
  CASE s = "draft"          -> {"issued", "cancelled"}
    [] s = "issued"         -> {"partially_paid", "paid", "overdue", "voided",
                                "cancelled"}
    [] s = "partially_paid" -> {"paid", "overdue"}
    [] s = "overdue"        -> {"partially_paid", "paid"}
    [] OTHER                -> {}]

TERMINAL_STATES == {"paid", "voided", "cancelled"}

\* What validate_payment accepts a payment on.
OPEN == Statuses \ (TERMINAL_STATES \cup {"draft"})

\* A row that was never inserted.
Absent == [status |-> "absent", lines |-> 0, penalty |-> 0, adjustment |-> 0,
           total |-> 0, version |-> 0]

Rows == [status : Statuses \cup {"absent"}, lines : Nat, penalty : Nat,
         adjustment : Nat, total : Nat, version : Nat]

Idle == [op |-> "idle"]

InFlight == [op : Operations, i : Invoices, snap : Rows, next : Rows,
             amount : Nat]

\* calculate_invoice_totals: never below zero.
TotalOf(row) ==
  LET sum == row.lines + row.penalty - row.adjustment
  IN  IF sum < 0 THEN 0 ELSE sum

Recomputed(row) == [row EXCEPT !.total = TotalOf(row)]

\* get_invoice_balance of the row in memory against the payments table.
Balance(i, row) == row.total - paid[i]

CanTransition(current, target) == target \in ALLOWED_TRANSITIONS[current]

\* The call is made: a worker is free and the invoice exists.
Asked(r, op, i) ==
  /\ req[r] = Idle
  /\ op \in Calls
  /\ inv[i].status # "absent"
  /\ inv[i].version < MaxVersion

\* The request has validated: it will flush next over the row it loaded.
ToFlush(r, op, i, next, amount) ==
  /\ req' = [req EXCEPT ![r] = [op |-> op, i |-> i, snap |-> inv[i],
                                next |-> next, amount |-> amount]]
  /\ UNCHANGED <<inv, paid, pending, charged, credited>>

-----------------------------------------------------------------------------
(* Operations: the step that reads and decides *)

\* create_invoice: nothing else knows the new row, so this is one step.
Create(i, lines) ==
  /\ inv[i] = Absent
  /\ inv' = [inv EXCEPT ![i] =
               Recomputed([Absent EXCEPT !.status = "draft", !.lines = lines,
                                         !.version = 1])]
  /\ UNCHANGED <<paid, pending, charged, credited, req>>

Issue(r, i) ==
  /\ Asked(r, "issue", i)
  /\ TotalOf(inv[i]) > 0 \/ i \in CreditNotes
  /\ CanTransition(inv[i].status, "issued")
  /\ ToFlush(r, "issue", i, [Recomputed(inv[i]) EXCEPT !.status = "issued"], 0)

\* update_invoice writes only fields that are not modelled.
Update(r, i) ==
  /\ Asked(r, "update", i)
  /\ inv[i].status = "draft"
  /\ ToFlush(r, "update", i, inv[i], 0)

Void(r, i, override) ==
  /\ Asked(r, "void", i)
  /\ \/ inv[i].status = "paid" /\ override
     \/ CanTransition(inv[i].status, "voided")
  /\ ToFlush(r, "void", i, [inv[i] EXCEPT !.status = "voided"], 0)

Cancel(r, i) ==
  /\ Asked(r, "cancel", i)
  /\ CanTransition(inv[i].status, "cancelled")
  /\ ToFlush(r, "cancel", i, [inv[i] EXCEPT !.status = "cancelled"], 0)

\* No schedule calls it yet: a service operation.
MarkOverdue(r, i) ==
  /\ Asked(r, "overdue", i)
  /\ CanTransition(inv[i].status, "overdue")
  /\ ToFlush(r, "overdue", i, [inv[i] EXCEPT !.status = "overdue"], 0)

\* Fault: the terminal check forgets paid invoices.
ApplyPenaltyFault(r, i, amount) ==
  /\ Asked(r, "penalty", i)
  /\ inv[i].status \notin {"voided", "cancelled"}
  /\ ToFlush(r, "penalty", i,
             Recomputed([inv[i] EXCEPT !.penalty = @ + amount]), amount)

\* apply_penalty and apply_cancellation_fee.  On a terminal invoice only the
\* penalty row is inserted, which nothing here depends on.
ApplyPenalty(r, i, amount) ==
  /\ Asked(r, "penalty", i)
  /\ inv[i].status \notin TERMINAL_STATES
  /\ ToFlush(r, "penalty", i,
             Recomputed([inv[i] EXCEPT !.penalty = @ + amount]), amount)

\* _apply_invoice_claim_adjustment: the total goes down, the status stays.
ApplyClaimAdjustment(r, i, amount) ==
  /\ Asked(r, "adjust", i)
  /\ inv[i].status \notin {"paid", "voided", "cancelled"}
  /\ ToFlush(r, "adjust", i,
             Recomputed([inv[i] EXCEPT !.adjustment = @ + amount]), amount)

\* validate_payment's check of the live balance.
WithinBalance(i, amount, override) ==
  override \/ amount <= Balance(i, inv[i])

\* record_payment(confirm = True) up to the insert.
RecordPayment(r, i, amount, override) ==
  /\ Asked(r, "pay", i)
  /\ paid[i] < MaxPaid
  /\ inv[i].status \in OPEN
  /\ WithinBalance(i, amount, override)
  /\ ToFlush(r, "pay", i, inv[i], amount)

\* record_payment(confirm = False) up to the insert: no balance check.
StagePayment(r, i, amount) ==
  /\ Asked(r, "stage", i)
  /\ pending[i] < MaxPending
  /\ inv[i].status \in OPEN
  /\ ToFlush(r, "stage", i, inv[i], amount)

-----------------------------------------------------------------------------
(* Operations: the step that flushes and commits *)

\* Fault: the last writer wins, as without version_id_col.
IsFreshFault(r) == req[r].op # "idle"

\* The WHERE version = ... of the UPDATE matches.
IsFresh(r) == inv[req[r].i].version = req[r].snap.version

\* The row as the UPDATE leaves it.
Written(row) == [row EXCEPT !.version = @ + 1]

Booked(sums, r, op) ==
  IF req[r].op = op THEN [sums EXCEPT ![req[r].i] = @ + req[r].amount] ELSE sums

CommitRow(r) ==
  /\ req[r].op \notin {"idle", "pay", "stage"}
  /\ IsFresh(r)
  /\ inv' = [inv EXCEPT ![req[r].i] = Written(req[r].next)]
  /\ charged' = Booked(charged, r, "penalty")
  /\ credited' = Booked(credited, r, "adjust")
  /\ req' = [req EXCEPT ![r] = Idle]
  /\ UNCHANGED <<paid, pending>>

\* The status _recompute_invoice_payment_status aims at.
StatusFor(balance) == IF balance <= 0 THEN "paid" ELSE "partially_paid"

\* The payment is inserted and numbered, then the status recomputed from the
\* total in memory and every confirmed payment there is by now.
CommitPayment(r) ==
  LET i      == req[r].i
      snap   == req[r].snap
      target == StatusFor(snap.total - (paid[i] + req[r].amount))
      moves  == target # snap.status /\ CanTransition(snap.status, target)
  IN  /\ req[r].op = "pay"
      /\ \/ /\ moves
            /\ IsFresh(r)
            /\ inv' = [inv EXCEPT ![i] = Written([snap EXCEPT !.status = target])]
         \/ /\ ~moves
            /\ UNCHANGED inv
      /\ paid' = [paid EXCEPT ![i] = @ + req[r].amount]
      /\ req' = [req EXCEPT ![r] = Idle]
      /\ UNCHANGED <<pending, charged, credited>>

CommitStaged(r) ==
  /\ req[r].op = "stage"
  /\ pending' = [pending EXCEPT ![req[r].i] = @ + 1]
  /\ req' = [req EXCEPT ![r] = Idle]
  /\ UNCHANGED <<inv, paid, charged, credited>>

\* mark_payment_failed, the only way on from pending: the payment's own
\* version column makes its read and its write one step.
MarkPaymentFailed(i) ==
  /\ pending[i] > 0
  /\ pending' = [pending EXCEPT ![i] = @ - 1]
  /\ UNCHANGED <<inv, paid, charged, credited, req>>

\* Whatever ends a request without a commit: StaleDataError, a duplicate event
\* number (ConcurrencyConflictError), any other exception, a crash.
Abort(r) ==
  /\ req[r] # Idle
  /\ req' = [req EXCEPT ![r] = Idle]
  /\ UNCHANGED <<inv, paid, pending, charged, credited>>

-----------------------------------------------------------------------------

Init ==
  /\ inv = [i \in Invoices |-> Absent]
  /\ paid = [i \in Invoices |-> 0]
  /\ pending = [i \in Invoices |-> 0]
  /\ charged = [i \in Invoices |-> 0]
  /\ credited = [i \in Invoices |-> 0]
  /\ req = [r \in Requests |-> Idle]

Decide(r, i) ==
  \/ Issue(r, i) \/ Update(r, i) \/ Cancel(r, i) \/ MarkOverdue(r, i)
  \/ \E override \in Overrides : Void(r, i, override)
  \/ \E amount \in Amounts :
       \/ ApplyPenalty(r, i, amount)
       \/ ApplyClaimAdjustment(r, i, amount)
       \/ StagePayment(r, i, amount)
       \/ \E override \in Overrides : RecordPayment(r, i, amount, override)

Next ==
  \/ \E i \in Invoices : \/ \E lines \in Lines : Create(i, lines)
                         \/ MarkPaymentFailed(i)
                         \/ \E r \in Requests : Decide(r, i)
  \/ \E r \in Requests : CommitRow(r) \/ CommitPayment(r) \/ CommitStaged(r) \/ Abort(r)

Spec == Init /\ [][Next]_vars

-----------------------------------------------------------------------------
(* Properties *)

\* Columns, sums and requests keep their types.
TypeOK ==
  /\ inv \in [Invoices -> Rows]
  /\ paid \in [Invoices -> Nat]
  /\ pending \in [Invoices -> Nat]
  /\ charged \in [Invoices -> Nat]
  /\ credited \in [Invoices -> Nat]
  /\ req \in [Requests -> InFlight \cup {Idle}]

\* No penalty or adjustment is lost to a concurrent write and none is booked
\* twice: the row carries exactly the sums applied and the total follows from
\* them (calculate_invoice_totals, _apply_invoice_claim_adjustment).
TotalAddsUp ==
  \A i \in Invoices : /\ inv[i].penalty = charged[i]
                      /\ inv[i].adjustment = credited[i]
                      /\ inv[i].total = TotalOf(inv[i])

\* The status of an invoice and the confirmed money on it agree, although they
\* live in different tables and only one of them is version-checked: no money
\* before a payment moved the status, some on a partially paid invoice, all of
\* it on a paid one, and a voided one had none or all of it.
StatusMatchesMoney ==
  \A i \in Invoices :
    /\ inv[i].status \in {"absent", "draft", "issued", "cancelled"} => paid[i] = 0
    /\ inv[i].status = "partially_paid" => paid[i] > 0
    /\ inv[i].status = "paid" => paid[i] >= inv[i].total
    /\ inv[i].status = "voided" => paid[i] = 0 \/ paid[i] >= inv[i].total

\* No claim adjustment has lowered the total of i.
Unadjusted(i) == credited[i] = 0

\* An open invoice with money on it still owes, unless a claim adjustment lowered
\* its total: two payments that race never cover it and leave it open (the
\* recomputation in record_payment sees both).
OpenOwes ==
  \A i \in Invoices :
    Unadjusted(i) /\ inv[i].status \in OPEN /\ paid[i] > 0 => paid[i] < inv[i].total

\* Confirmed money never exceeds the total.
NoOverpayment ==
  \A i \in Invoices : inv[i].status # "absent" => paid[i] <= inv[i].total

\* A closed invoice keeps its status and its sums for good; only a paid one
\* may still be voided (void_invoice with an override).
ClosedStaysClosed ==
  [][\A i \in Invoices :
       inv[i].status \in TERMINAL_STATES =>
         \/ inv'[i] = inv[i]
         \/ /\ inv[i].status = "paid"
            /\ inv'[i] = Written([inv[i] EXCEPT !.status = "voided"])]_vars

\* Confirmed money is only ever added to an open invoice, although the status
\* was checked before another request could close it: the payment that finds the
\* invoice closed fails on its version, for it has a status to write.  (After an
\* adjustment it may have none: the total it holds may be above the present one.)
ConfirmedOnlyOnOpen ==
  [][\A i \in Invoices :
       Unadjusted(i) /\ paid'[i] # paid[i] => inv[i].status \in OPEN]_vars

-----------------------------------------------------------------------------
(* The inductive invariant *)

\* What a request holds is an earlier or the present version of its row.
SnapshotsAreOld ==
  \A r \in Requests : req[r] # Idle =>
    LET i == req[r].i
    IN  /\ req[r].snap.version <= inv[i].version
        /\ req[r].snap.version = inv[i].version => req[r].snap = inv[i]

\* A payment was accepted on an open invoice, and money on it stays.
PaymentsStartOpen ==
  \A r \in Requests : req[r].op = "pay" =>
    /\ req[r].snap.status \in OPEN
    /\ req[r].amount > 0
    /\ req[r].snap.status = "partially_paid" => paid[req[r].i] > 0

\* What a writer flushes follows from what it loaded.
Decided(op, snap, next, amount) ==
  \/ /\ op = "issue"
     /\ snap.status = "draft"
     /\ next = [Recomputed(snap) EXCEPT !.status = "issued"]
  \/ /\ op = "update"
     /\ snap.status = "draft"
     /\ next = snap
  \/ /\ op = "void"
     /\ snap.status \in {"issued", "paid"}
     /\ next = [snap EXCEPT !.status = "voided"]
  \/ /\ op = "cancel"
     /\ snap.status \in {"draft", "issued"}
     /\ next = [snap EXCEPT !.status = "cancelled"]
  \/ /\ op = "overdue"
     /\ snap.status \in {"issued", "partially_paid"}
     /\ next = [snap EXCEPT !.status = "overdue"]
  \/ /\ op = "penalty"
     /\ snap.status \in Statuses \ TERMINAL_STATES
     /\ next = Recomputed([snap EXCEPT !.penalty = @ + amount])
  \/ /\ op = "adjust"
     /\ amount > 0
     /\ snap.status \in Statuses \ TERMINAL_STATES
     /\ next = Recomputed([snap EXCEPT !.adjustment = @ + amount])
  \/ op \in {"pay", "stage"}

WritesAreDecided ==
  \A r \in Requests : req[r] # Idle =>
    Decided(req[r].op, req[r].snap, req[r].next, req[r].amount)

IInv ==
  /\ TypeOK
  /\ SnapshotsAreOld
  /\ PaymentsStartOpen
  /\ WritesAreDecided
  /\ TotalAddsUp
  /\ StatusMatchesMoney

\* Without adjustments totals only grow, so a request never holds more than is
\* owed now.
TotalsOnlyGrow ==
  \A r \in Requests :
    req[r] # Idle /\ Unadjusted(req[r].i) => req[r].snap.total <= inv[req[r].i].total

OwesInv == IInv /\ TotalsOnlyGrow /\ OpenOwes
=============================================================================
