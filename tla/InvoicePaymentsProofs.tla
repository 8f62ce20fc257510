----------------------- MODULE InvoicePaymentsProofs -----------------------
(***************************************************************************)
(* Proofs about InvoicePayments for every number of invoices and requests  *)
(* and every amount.                                                       *)
(***************************************************************************)
EXTENDS InvoicePayments, TLAPS

(* A total is never negative and depends only on the three sums of a row. *)
LEMMA TotalType ==
  ASSUME NEW row,
         row.lines \in Nat, row.penalty \in Nat, row.adjustment \in Nat
  PROVE  TotalOf(row) \in Nat
  BY SMT DEF TotalOf

(* Recomputing a row keeps the row and makes its total right. *)
LEMMA RecomputedRow ==
  ASSUME NEW row \in Rows
  PROVE  /\ Recomputed(row) \in Rows
         /\ Recomputed(row).total = TotalOf(Recomputed(row))
         /\ Recomputed(row).status = row.status
         /\ Recomputed(row).lines = row.lines
         /\ Recomputed(row).penalty = row.penalty
         /\ Recomputed(row).adjustment = row.adjustment
         /\ Recomputed(row).version = row.version
<1>1. TotalOf(row) \in Nat
  BY TotalType DEF Rows
<1>2. QED
  BY <1>1 DEF Recomputed, Rows, TotalOf

(* An UPDATE changes the version and nothing else. *)
LEMMA WrittenKeeps ==
  ASSUME NEW row \in Rows
  PROVE  /\ Written(row) \in Rows
         /\ Written(row).version = row.version + 1
         /\ Written(row).status = row.status
         /\ Written(row).lines = row.lines
         /\ Written(row).penalty = row.penalty
         /\ Written(row).adjustment = row.adjustment
         /\ Written(row).total = row.total
  BY DEF Written, Rows

(* The life cycle, read off the table. *)
LEMMA Table ==
  ASSUME NEW s
  PROVE  /\ s \in Statuses /\ CanTransition(s, "issued") => s = "draft"
         /\ s \in Statuses /\ CanTransition(s, "voided") => s = "issued"
         /\ s \in Statuses /\ CanTransition(s, "cancelled") => s \in {"draft", "issued"}
         /\ s \in Statuses /\ CanTransition(s, "overdue") => s \in {"issued", "partially_paid"}
  BY DEF CanTransition, ALLOWED_TRANSITIONS, Statuses

(* An invoice that takes payments can move to what a payment makes of it. *)
LEMMA OpenMoves ==
  ASSUME NEW s \in OPEN, NEW balance
  PROVE  CanTransition(s, StatusFor(balance)) \/ s = StatusFor(balance)
  BY DEF CanTransition, ALLOWED_TRANSITIONS, Statuses, OPEN, TERMINAL_STATES, StatusFor

(* A request in flight is a record of the type, an idle one has no operation. *)
LEMMA Busy ==
  ASSUME IInv, NEW r \in Requests
  PROVE  /\ req[r] # Idle => req[r] \in InFlight
         /\ req[r] # Idle <=> req[r].op # "idle"
  BY DEF IInv, TypeOK, InFlight, Idle, Operations

-----------------------------------------------------------------------------
(* The steps that decide *)

(* A request that decided as Decided says keeps the invariant. *)
LEMMA DecideKeeps ==
  ASSUME IInv, NEW r \in Requests, NEW i \in Invoices, NEW op \in Operations,
         NEW next \in Rows, NEW amount \in Nat,
         ToFlush(r, op, i, next, amount),
         Decided(op, inv[i], next, amount),
         op = "pay" => inv[i].status \in OPEN /\ amount > 0
  PROVE  IInv'
<1> USE DEF IInv
<1>1. inv[i] \in Rows /\ inv[i].version \in Nat
  BY DEF TypeOK, Rows
<1>2. PICK e \in InFlight : /\ e = [op |-> op, i |-> i, snap |-> inv[i],
                                    next |-> next, amount |-> amount]
                            /\ req' = [req EXCEPT ![r] = e]
  BY <1>1 DEF ToFlush, InFlight
<1>3. \A q \in Requests : req'[q] = IF q = r THEN e ELSE req[q]
  BY <1>2 DEF TypeOK
<1>4. inv' = inv /\ paid' = paid /\ pending' = pending /\ charged' = charged
        /\ credited' = credited
  BY DEF ToFlush
<1>5. TypeOK'
  BY <1>2, <1>4 DEF TypeOK
<1>6. SnapshotsAreOld'
  BY <1>1, <1>2, <1>3, <1>4 DEF SnapshotsAreOld
<1>7. op = "pay" /\ inv[i].status = "partially_paid" => paid[i] > 0
  BY DEF StatusMatchesMoney
<1>8. PaymentsStartOpen'
  BY <1>2, <1>3, <1>4, <1>7 DEF PaymentsStartOpen
<1>9. WritesAreDecided'
  <2> SUFFICES ASSUME NEW q \in Requests, req'[q] # Idle
               PROVE  Decided(req'[q].op, req'[q].snap, req'[q].next, req'[q].amount)
    BY DEF WritesAreDecided, Decided
  <2>1. CASE q = r
    BY <1>2, <1>3, <2>1
  <2>2. CASE q # r
    BY <1>3, <2>2 DEF WritesAreDecided
  <2>3. QED
    BY <2>1, <2>2
<1>10. TotalAddsUp' /\ StatusMatchesMoney'
  BY <1>4 DEF TotalAddsUp, StatusMatchesMoney, TotalOf
<1>11. QED
  BY <1>5, <1>6, <1>8, <1>9, <1>10

(* Each operation decides as Decided says. *)
LEMMA DecideStep ==
  ASSUME IInv, InvoiceAssumption, NEW r \in Requests, NEW i \in Invoices,
         Decide(r, i)
  PROVE  IInv'
<1>1. inv[i] \in Rows
  BY DEF IInv, TypeOK
<1>2. CASE Issue(r, i)
  <2>1. inv[i].status = "draft"
    BY <1>1, <1>2, Table DEF Issue, Asked, Rows
  <2>2. [Recomputed(inv[i]) EXCEPT !.status = "issued"] \in Rows
    BY <1>1, RecomputedRow DEF Rows, Statuses
  <2>3. QED
    BY <1>2, <2>1, <2>2, DecideKeeps DEF Issue, Decided, Operations
<1>3. CASE Update(r, i)
  BY <1>1, <1>3, DecideKeeps DEF Update, Decided, Operations
<1>4. CASE Cancel(r, i)
  <2>1. inv[i].status \in {"draft", "issued"}
    BY <1>1, <1>4, Table DEF Cancel, Asked, Rows
  <2>2. [inv[i] EXCEPT !.status = "cancelled"] \in Rows
    BY <1>1 DEF Rows, Statuses
  <2>3. QED
    BY <1>4, <2>1, <2>2, DecideKeeps DEF Cancel, Decided, Operations
<1>5. CASE MarkOverdue(r, i)
  <2>1. inv[i].status \in {"issued", "partially_paid"}
    BY <1>1, <1>5, Table DEF MarkOverdue, Asked, Rows
  <2>2. [inv[i] EXCEPT !.status = "overdue"] \in Rows
    BY <1>1 DEF Rows, Statuses
  <2>3. QED
    BY <1>5, <2>1, <2>2, DecideKeeps DEF MarkOverdue, Decided, Operations
<1>6. ASSUME NEW override \in Overrides, Void(r, i, override)
      PROVE  IInv'
  <2>1. inv[i].status \in {"issued", "paid"}
    BY <1>1, <1>6, Table DEF Void, Asked, Rows
  <2>2. [inv[i] EXCEPT !.status = "voided"] \in Rows
    BY <1>1 DEF Rows, Statuses
  <2>3. QED
    BY <1>6, <2>1, <2>2, DecideKeeps DEF Void, Decided, Operations
<1>7. ASSUME NEW amount \in Amounts, ApplyPenalty(r, i, amount)
      PROVE  IInv'
  <2>1. amount \in Nat
    BY DEF InvoiceAssumption
  <2>2. [inv[i] EXCEPT !.penalty = @ + amount] \in Rows
    BY <1>1, <2>1 DEF Rows
  <2>3. inv[i].status \in Statuses \ TERMINAL_STATES
    BY <1>1, <1>7 DEF ApplyPenalty, Asked, Rows
  <2>4. QED
    BY <1>7, <2>1, <2>2, <2>3, RecomputedRow, DecideKeeps
       DEF ApplyPenalty, Decided, Operations
<1>8. ASSUME NEW amount \in Amounts, ApplyClaimAdjustment(r, i, amount)
      PROVE  IInv'
  <2>1. amount \in Nat /\ amount > 0
    BY DEF InvoiceAssumption
  <2>2. [inv[i] EXCEPT !.adjustment = @ + amount] \in Rows
    BY <1>1, <2>1 DEF Rows
  <2>3. inv[i].status \in Statuses \ TERMINAL_STATES
    BY <1>1, <1>8 DEF ApplyClaimAdjustment, Asked, Rows, TERMINAL_STATES
  <2>4. QED
    BY <1>8, <2>1, <2>2, <2>3, RecomputedRow, DecideKeeps
       DEF ApplyClaimAdjustment, Decided, Operations
<1>9. ASSUME NEW amount \in Amounts, StagePayment(r, i, amount)
      PROVE  IInv'
  <2>1. amount \in Nat
    BY DEF InvoiceAssumption
  <2>2. QED
    BY <1>1, <1>9, <2>1, DecideKeeps DEF StagePayment, Decided, Operations
<1>10. ASSUME NEW amount \in Amounts, NEW override \in Overrides,
              RecordPayment(r, i, amount, override)
       PROVE  IInv'
  <2>1. amount \in Nat /\ amount > 0
    BY DEF InvoiceAssumption
  <2>2. QED
    BY <1>1, <1>10, <2>1, DecideKeeps DEF RecordPayment, Decided, Operations
<1>11. QED
  BY <1>2, <1>3, <1>4, <1>5, <1>6, <1>7, <1>8, <1>9, <1>10 DEF Decide

-----------------------------------------------------------------------------
(* The steps that commit *)

(* A request that ends leaves nothing behind to be right about. *)
LEMMA RequestEnds ==
  ASSUME IInv, NEW r \in Requests, req' = [req EXCEPT ![r] = Idle]
  PROVE  /\ req' \in [Requests -> InFlight \cup {Idle}]
         /\ \A q \in Requests : req'[q] = IF q = r THEN Idle ELSE req[q]
         /\ WritesAreDecided'
<1>1. /\ req' \in [Requests -> InFlight \cup {Idle}]
      /\ \A q \in Requests : req'[q] = IF q = r THEN Idle ELSE req[q]
  BY DEF IInv, TypeOK
<1>2. WritesAreDecided'
  <2> SUFFICES ASSUME NEW q \in Requests, req'[q] # Idle
               PROVE  Decided(req'[q].op, req'[q].snap, req'[q].next, req'[q].amount)
    BY DEF WritesAreDecided, Decided
  <2>1. req'[q] = req[q]
    BY <1>1
  <2>2. QED
    BY <2>1 DEF IInv, WritesAreDecided
<1>3. QED
  BY <1>1, <1>2

(* The row a fresh writer leaves: a new version with right sums, and a status
   that agrees with the confirmed money. *)
LEMMA WrittenRow ==
  ASSUME IInv, NEW r \in Requests, CommitRow(r)
  PROVE  LET i == req[r].i
         IN  /\ i \in Invoices
             /\ inv'[i] \in Rows
             /\ inv'[i].version = inv[i].version + 1
             /\ inv'[i].penalty = charged'[i]
             /\ inv'[i].adjustment = credited'[i]
             /\ inv'[i].total = TotalOf(inv'[i])
             /\ inv'[i].status \in {"absent", "draft", "issued", "cancelled"} => paid[i] = 0
             /\ inv'[i].status = "partially_paid" => paid[i] > 0
             /\ inv'[i].status = "paid" => paid[i] >= inv'[i].total
             /\ inv'[i].status = "voided" => paid[i] = 0 \/ paid[i] >= inv'[i].total
             /\ charged' \in [Invoices -> Nat]
             /\ credited' \in [Invoices -> Nat]
             /\ \A j \in Invoices \ {i} : /\ inv'[j] = inv[j]
                                          /\ charged'[j] = charged[j]
                                          /\ credited'[j] = credited[j]
<1> USE DEF IInv
<1>1. PICK e \in InFlight : e = req[r]
  BY Busy DEF CommitRow
<1>2. PICK i \in Invoices : i = e.i
  BY <1>1 DEF InFlight
<1>3. PICK row \in Rows : row = inv[i]
  BY DEF TypeOK
<1>4. e.snap = row /\ e.next \in Rows /\ e.amount \in Nat
  BY <1>1, <1>2, <1>3, Busy DEF CommitRow, IsFresh, SnapshotsAreOld, InFlight
<1>5. Decided(e.op, row, e.next, e.amount) /\ e.op \notin {"pay", "stage"}
  BY <1>1, <1>4, Busy DEF CommitRow, WritesAreDecided
<1>6. inv' = [inv EXCEPT ![i] = Written(e.next)] /\ paid' = paid
  BY <1>1, <1>2 DEF CommitRow
<1>7. inv'[i] = Written(e.next) /\ \A j \in Invoices \ {i} : inv'[j] = inv[j]
  BY <1>6 DEF TypeOK
<1>8. /\ charged' = IF e.op = "penalty" THEN [charged EXCEPT ![i] = @ + e.amount]
                                        ELSE charged
      /\ credited' = IF e.op = "adjust" THEN [credited EXCEPT ![i] = @ + e.amount]
                                        ELSE credited
  BY <1>1, <1>2 DEF CommitRow, Booked
<1>9. charged[i] \in Nat /\ credited[i] \in Nat /\ paid[i] \in Nat
  BY DEF TypeOK
<1>10. /\ charged' \in [Invoices -> Nat] /\ credited' \in [Invoices -> Nat]
       /\ \A j \in Invoices \ {i} : charged'[j] = charged[j] /\ credited'[j] = credited[j]
       /\ charged'[i] = IF e.op = "penalty" THEN charged[i] + e.amount ELSE charged[i]
       /\ credited'[i] = IF e.op = "adjust" THEN credited[i] + e.amount ELSE credited[i]
  BY <1>4, <1>8, <1>9 DEF TypeOK
<1>11. row.penalty = charged[i] /\ row.adjustment = credited[i] /\ row.total = TotalOf(row)
  BY <1>3 DEF TotalAddsUp
<1>12. /\ row.status \in {"absent", "draft", "issued", "cancelled"} => paid[i] = 0
       /\ row.status = "partially_paid" => paid[i] > 0
       /\ row.status = "paid" => paid[i] >= row.total
       /\ row.status = "voided" => paid[i] = 0 \/ paid[i] >= row.total
  BY <1>3 DEF StatusMatchesMoney
<1>13. /\ Written(e.next) \in Rows
       /\ Written(e.next).version = e.next.version + 1
       /\ Written(e.next).status = e.next.status
       /\ Written(e.next).lines = e.next.lines
       /\ Written(e.next).penalty = e.next.penalty
       /\ Written(e.next).adjustment = e.next.adjustment
       /\ Written(e.next).total = e.next.total
       /\ TotalOf(Written(e.next)) = TotalOf(e.next)
  BY <1>4, WrittenKeeps DEF TotalOf
<1> DEFINE Right(next) ==
             /\ next.version = row.version
             /\ next.penalty = charged'[i]
             /\ next.adjustment = credited'[i]
             /\ next.total = TotalOf(next)
             /\ next.status \in {"absent", "draft", "issued", "cancelled"} => paid[i] = 0
             /\ next.status = "partially_paid" => paid[i] > 0
             /\ next.status = "paid" => paid[i] >= next.total
             /\ next.status = "voided" => paid[i] = 0 \/ paid[i] >= next.total
<1>14. Right(e.next)
  <2>1. CASE e.op = "issue" /\ row.status = "draft"
               /\ e.next = [Recomputed(row) EXCEPT !.status = "issued"]
    BY <1>10, <1>11, <1>12, <2>1, RecomputedRow DEF Rows, TotalOf
  <2>2. CASE e.op = "update" /\ e.next = row
    BY <1>10, <1>11, <1>12, <2>2
  <2>3. CASE e.op = "void" /\ row.status \in {"issued", "paid"}
               /\ e.next = [row EXCEPT !.status = "voided"]
    BY <1>10, <1>11, <1>12, <2>3 DEF Rows, TotalOf
  <2>4. CASE e.op = "cancel" /\ row.status \in {"draft", "issued"}
               /\ e.next = [row EXCEPT !.status = "cancelled"]
    BY <1>10, <1>11, <1>12, <2>4 DEF Rows, TotalOf
  <2>5. CASE e.op = "overdue" /\ e.next = [row EXCEPT !.status = "overdue"]
    BY <1>10, <1>11, <1>12, <2>5 DEF Rows, TotalOf
  <2>6. CASE e.op = "penalty" /\ row.status \in Statuses \ TERMINAL_STATES
               /\ e.next = Recomputed([row EXCEPT !.penalty = @ + e.amount])
    <3>1. [row EXCEPT !.penalty = @ + e.amount] \in Rows
      BY <1>4 DEF Rows
    <3>2. QED
      BY <1>4, <1>10, <1>11, <1>12, <2>6, <3>1, RecomputedRow DEF Rows, TERMINAL_STATES
  <2>7. CASE e.op = "adjust" /\ row.status \in Statuses \ TERMINAL_STATES
               /\ e.next = Recomputed([row EXCEPT !.adjustment = @ + e.amount])
    <3>1. [row EXCEPT !.adjustment = @ + e.amount] \in Rows
      BY <1>4 DEF Rows
    <3>2. QED
      BY <1>4, <1>10, <1>11, <1>12, <2>7, <3>1, RecomputedRow DEF Rows, TERMINAL_STATES
  <2>8. QED
    BY <1>5, <2>1, <2>2, <2>3, <2>4, <2>5, <2>6, <2>7 DEF Decided
<1>15. QED
  BY <1>1, <1>2, <1>3, <1>7, <1>10, <1>13, <1>14

\* A write of an invoice row lands only on the row it was computed from, so the
\* money in the new row is accounted for as in the old one.
LEMMA CommitRowKeeps ==
  ASSUME IInv, NEW r \in Requests, CommitRow(r)
  PROVE  IInv'
<1>1. PICK i \in Invoices : i = req[r].i
  BY WrittenRow
<1>2. /\ inv'[i] \in Rows
      /\ inv'[i].version = inv[i].version + 1
      /\ \A j \in Invoices \ {i} : inv'[j] = inv[j]
  BY <1>1, WrittenRow
<1>3. paid' = paid /\ pending' = pending /\ inv' \in [Invoices -> Rows]
  BY <1>1, <1>2 DEF CommitRow, IInv, TypeOK
<1>4. /\ req' \in [Requests -> InFlight \cup {Idle}]
      /\ \A q \in Requests : req'[q] = IF q = r THEN Idle ELSE req[q]
      /\ WritesAreDecided'
  BY RequestEnds DEF CommitRow
<1>5. TypeOK'
  BY <1>3, <1>4, WrittenRow DEF IInv, TypeOK
<1>6. SnapshotsAreOld'
  <2> SUFFICES ASSUME NEW q \in Requests, req'[q] # Idle
               PROVE  /\ req'[q].snap.version <= inv'[req'[q].i].version
                      /\ req'[q].snap.version = inv'[req'[q].i].version
                           => req'[q].snap = inv'[req'[q].i]
    BY DEF SnapshotsAreOld
  <2>1. req'[q] = req[q] /\ req[q].i \in Invoices /\ req[q].snap.version \in Nat
    BY <1>4, Busy DEF InFlight, Rows
  <2>2. /\ req[q].snap.version <= inv[req[q].i].version
        /\ req[q].snap.version = inv[req[q].i].version => req[q].snap = inv[req[q].i]
    BY <2>1 DEF IInv, SnapshotsAreOld
  <2>3. inv[i].version \in Nat
    BY DEF IInv, TypeOK, Rows
  <2>4. QED
    BY <1>2, <2>1, <2>2, <2>3
<1>7. PaymentsStartOpen'
  BY <1>3, <1>4 DEF IInv, PaymentsStartOpen, Idle
<1>8. TotalAddsUp'
  <2> SUFFICES ASSUME NEW j \in Invoices
               PROVE  /\ inv'[j].penalty = charged'[j]
                      /\ inv'[j].adjustment = credited'[j]
                      /\ inv'[j].total = TotalOf(inv'[j])
    BY DEF TotalAddsUp, TotalOf
  <2>1. CASE j = i
    BY <1>1, <2>1, WrittenRow
  <2>2. CASE j # i
    BY <1>1, <2>2, WrittenRow DEF IInv, TotalAddsUp
  <2>3. QED
    BY <2>1, <2>2
<1>9. StatusMatchesMoney'
  <2> SUFFICES ASSUME NEW j \in Invoices
               PROVE  /\ inv'[j].status \in {"absent", "draft", "issued", "cancelled"}
                           => paid[j] = 0
                      /\ inv'[j].status = "partially_paid" => paid[j] > 0
                      /\ inv'[j].status = "paid" => paid[j] >= inv'[j].total
                      /\ inv'[j].status = "voided"
                           => paid[j] = 0 \/ paid[j] >= inv'[j].total
    BY <1>3 DEF StatusMatchesMoney
  <2>1. CASE j = i
    BY <1>1, <2>1, WrittenRow
  <2>2. CASE j # i
    BY <1>2, <2>2 DEF IInv, StatusMatchesMoney
  <2>3. QED
    BY <2>1, <2>2
<1>10. QED
  BY <1>5, <1>4, <1>6, <1>7, <1>8, <1>9 DEF IInv

(* A payment in flight meets either its own version of the invoice, whose
   status it moves, or leaves the invoice as it is. *)
LEMMA PaymentCases ==
  ASSUME IInv, NEW r \in Requests, CommitPayment(r),
         NEW i, i = req[r].i, NEW a, a = req[r].amount
  PROVE  /\ i \in Invoices
         /\ a \in Nat /\ a > 0
         /\ paid' = [paid EXCEPT ![i] = @ + a]
         /\ req[r].snap \in Rows
         /\ \/ /\ inv[i] = req[r].snap
               /\ inv[i].status \in OPEN
               /\ inv' = [inv EXCEPT ![i] =
                    Written([inv[i] EXCEPT !.status =
                                 StatusFor(inv[i].total - (paid[i] + a))])]
            \/ /\ req[r].snap.status = "partially_paid"
               /\ req[r].snap.total - (paid[i] + a) > 0
               /\ paid[i] > 0
               /\ inv' = inv
<1>1. PICK e \in InFlight : e = req[r] /\ e.op = "pay"
  BY Busy DEF CommitPayment
<1>2. /\ e.snap.status \in OPEN /\ e.amount > 0
      /\ e.snap.status = "partially_paid" => paid[e.i] > 0
  BY <1>1 DEF IInv, PaymentsStartOpen
<1>3. e.i \in Invoices /\ e.snap \in Rows /\ e.amount \in Nat /\ i = e.i /\ a = e.amount
  BY <1>1 DEF InFlight
<1>4. paid' = [paid EXCEPT ![i] = @ + a]
  BY <1>1, <1>3 DEF CommitPayment
<1> DEFINE target == StatusFor(e.snap.total - (paid[i] + a))
<1>5. CASE target = e.snap.status
  <2>1. inv' = inv
    BY <1>1, <1>3, <1>5 DEF CommitPayment
  <2>2. target = "partially_paid" /\ ~(e.snap.total - (paid[i] + a) <= 0)
    BY <1>2, <1>5 DEF StatusFor, OPEN, TERMINAL_STATES
  <2>3. e.snap.total - (paid[i] + a) > 0
    BY <1>3, <2>2 DEF Rows, IInv, TypeOK
  <2>4. QED
    BY <1>1, <1>2, <1>3, <1>4, <1>5, <2>1, <2>2, <2>3
<1>6. CASE target # e.snap.status
  <2>1. CanTransition(e.snap.status, target)
    BY <1>2, <1>6, OpenMoves
  <2>2. /\ inv[i].version = e.snap.version
        /\ inv' = [inv EXCEPT ![i] = Written([e.snap EXCEPT !.status = target])]
    BY <1>1, <1>3, <1>6, <2>1 DEF CommitPayment, IsFresh
  <2>3. e.snap = inv[i]
    BY <1>1, <1>3, <2>2, Busy DEF IInv, SnapshotsAreOld, Idle
  <2>4. QED
    BY <1>1, <1>2, <1>3, <1>4, <2>2, <2>3
<1>7. QED
  BY <1>5, <1>6

\* A payment adds the same amount to the row and to what was paid.
LEMMA CommitPaymentKeeps ==
  ASSUME IInv, NEW r \in Requests, CommitPayment(r)
  PROVE  IInv'
<1>1. PICK i, a : i = req[r].i /\ a = req[r].amount
  OBVIOUS
<1>2. i \in Invoices /\ a \in Nat /\ a > 0
  BY <1>1, PaymentCases
<1>3. /\ paid[i] \in Nat
      /\ inv[i] \in Rows
      /\ paid' \in [Invoices -> Nat]
      /\ paid'[i] = paid[i] + a
      /\ \A j \in Invoices \ {i} : paid'[j] = paid[j]
  <2>1. paid' = [paid EXCEPT ![i] = @ + a]
    BY <1>1 DEF CommitPayment
  <2>2. QED
    BY <1>2, <2>1 DEF IInv, TypeOK
<1>4. /\ req' \in [Requests -> InFlight \cup {Idle}]
      /\ \A q \in Requests : req'[q] = IF q = r THEN Idle ELSE req[q]
      /\ WritesAreDecided'
      /\ charged' = charged /\ credited' = credited /\ pending' = pending
  BY RequestEnds DEF CommitPayment
<1>5. PaymentsStartOpen'
  <2> SUFFICES ASSUME NEW q \in Requests, req'[q].op = "pay"
               PROVE  /\ req'[q].snap.status \in OPEN
                      /\ req'[q].amount > 0
                      /\ req'[q].snap.status = "partially_paid" => paid'[req'[q].i] > 0
    BY DEF PaymentsStartOpen, OPEN
  <2>1. req'[q] = req[q] /\ req[q].i \in Invoices
    BY <1>4, Busy DEF Idle, InFlight
  <2>2. req[q].snap.status = "partially_paid" => paid[req[q].i] > 0
    BY <2>1 DEF IInv, PaymentsStartOpen
  <2>3. QED
    BY <1>2, <1>3, <2>1, <2>2 DEF IInv, PaymentsStartOpen
<1>6. CASE inv' = inv /\ paid[i] > 0
  <2>1. TypeOK' /\ TotalAddsUp'
    BY <1>3, <1>4, <1>6 DEF IInv, TypeOK, TotalAddsUp, TotalOf
  <2>2. SnapshotsAreOld'
    BY <1>4, <1>6 DEF IInv, SnapshotsAreOld
  <2>3. inv[i].total \in Nat
    BY <1>3 DEF Rows
  <2>4. StatusMatchesMoney'
    <3> SUFFICES ASSUME NEW j \in Invoices
                 PROVE  /\ inv[j].status \in {"absent", "draft", "issued", "cancelled"}
                             => paid'[j] = 0
                        /\ inv[j].status = "partially_paid" => paid'[j] > 0
                        /\ inv[j].status = "paid" => paid'[j] >= inv[j].total
                        /\ inv[j].status = "voided"
                             => paid'[j] = 0 \/ paid'[j] >= inv[j].total
      BY <1>6 DEF StatusMatchesMoney
    <3>1. /\ inv[j].status \in {"absent", "draft", "issued", "cancelled"} => paid[j] = 0
          /\ inv[j].status = "partially_paid" => paid[j] > 0
          /\ inv[j].status = "paid" => paid[j] >= inv[j].total
          /\ inv[j].status = "voided" => paid[j] = 0 \/ paid[j] >= inv[j].total
      BY DEF IInv, StatusMatchesMoney
    <3>2. QED
      BY <1>2, <1>3, <1>6, <2>3, <3>1
  <2>5. QED
    BY <1>4, <1>5, <2>1, <2>2, <2>4 DEF IInv
<1>7. CASE /\ inv[i].status \in OPEN
           /\ inv' = [inv EXCEPT ![i] =
                Written([inv[i] EXCEPT !.status =
                             StatusFor(inv[i].total - (paid[i] + a))])]
  <2>1. PICK target : target = StatusFor(inv[i].total - (paid[i] + a))
    OBVIOUS
  <2>2. /\ target \in {"paid", "partially_paid"}
        /\ target = "paid" <=> inv[i].total <= paid[i] + a
    BY <1>2, <1>3, <2>1 DEF StatusFor, Rows
  <2>3. /\ inv'[i] \in Rows
        /\ inv'[i].status = target
        /\ inv'[i].version = inv[i].version + 1
        /\ inv'[i].total = inv[i].total
        /\ inv'[i].penalty = inv[i].penalty
        /\ inv'[i].adjustment = inv[i].adjustment
        /\ TotalOf(inv'[i]) = TotalOf(inv[i])
        /\ \A j \in Invoices \ {i} : inv'[j] = inv[j]
    <3>1. /\ inv'[i] = Written([inv[i] EXCEPT !.status = target])
          /\ \A j \in Invoices \ {i} : inv'[j] = inv[j]
      BY <1>2, <1>7, <2>1 DEF IInv, TypeOK
    <3>2. PICK row \in Rows : row = inv[i]
      BY <1>3
    <3>3. PICK new : new = Written([row EXCEPT !.status = target])
      OBVIOUS
    <3>4. /\ new \in Rows /\ new.status = target /\ new.version = row.version + 1
          /\ new.lines = row.lines /\ new.total = row.total
          /\ new.penalty = row.penalty /\ new.adjustment = row.adjustment
      <4>1. PICK moved \in Rows : moved = [row EXCEPT !.status = target]
        BY <2>2 DEF Rows, Statuses
      <4>2. /\ moved.status = target /\ moved.version = row.version
            /\ moved.lines = row.lines /\ moved.total = row.total
            /\ moved.penalty = row.penalty /\ moved.adjustment = row.adjustment
        BY <4>1 DEF Rows
      <4>3. new = Written(moved)
        BY <3>3, <4>1
      <4>4. QED
        BY <2>2, <4>1, <4>2, <4>3, WrittenKeeps
    <3>5. TotalOf(new) = TotalOf(row)
      BY <3>4 DEF TotalOf
    <3>6. QED
      BY <3>1, <3>2, <3>3, <3>4, <3>5
  <2>4. inv' \in [Invoices -> Rows]
    BY <1>7, <2>3 DEF IInv, TypeOK
  <2>5. TypeOK'
    BY <1>3, <1>4, <2>4 DEF IInv, TypeOK
  <2>6. TotalAddsUp'
    <3> SUFFICES ASSUME NEW j \in Invoices
                 PROVE  /\ inv'[j].penalty = charged[j]
                        /\ inv'[j].adjustment = credited[j]
                        /\ inv'[j].total = TotalOf(inv'[j])
      BY <1>4 DEF TotalAddsUp, TotalOf
    <3>1. QED
      BY <2>3 DEF IInv, TotalAddsUp
  <2>7. SnapshotsAreOld'
    <3> SUFFICES ASSUME NEW q \in Requests, req'[q] # Idle
                 PROVE  /\ req'[q].snap.version <= inv'[req'[q].i].version
                        /\ req'[q].snap.version = inv'[req'[q].i].version
                             => req'[q].snap = inv'[req'[q].i]
      BY DEF SnapshotsAreOld
    <3>1. req'[q] = req[q] /\ req[q].i \in Invoices /\ req[q].snap.version \in Nat
      BY <1>4, Busy DEF InFlight, Rows
    <3>2. /\ req[q].snap.version <= inv[req[q].i].version
          /\ req[q].snap.version = inv[req[q].i].version => req[q].snap = inv[req[q].i]
      BY <3>1 DEF IInv, SnapshotsAreOld
    <3>3. inv[i].version \in Nat
      BY <1>3 DEF Rows
    <3>4. QED
      BY <2>3, <3>1, <3>2, <3>3
  <2>8. StatusMatchesMoney'
    <3> SUFFICES ASSUME NEW j \in Invoices
                 PROVE  /\ inv'[j].status \in {"absent", "draft", "issued", "cancelled"}
                             => paid'[j] = 0
                        /\ inv'[j].status = "partially_paid" => paid'[j] > 0
                        /\ inv'[j].status = "paid" => paid'[j] >= inv'[j].total
                        /\ inv'[j].status = "voided"
                             => paid'[j] = 0 \/ paid'[j] >= inv'[j].total
      BY DEF StatusMatchesMoney
    <3>1. CASE j = i
      BY <1>2, <1>3, <2>2, <2>3, <3>1
    <3>2. CASE j # i
      BY <1>3, <2>3, <3>2 DEF IInv, StatusMatchesMoney
    <3>3. QED
      BY <3>1, <3>2
  <2>9. QED
    BY <1>4, <1>5, <2>5, <2>6, <2>7, <2>8 DEF IInv
<1>8. QED
  BY <1>1, <1>6, <1>7, PaymentCases

(* Requests that stay as they are stay decided. *)
LEMMA RequestsStay ==
  ASSUME IInv, req' = req
  PROVE  WritesAreDecided'
<1> SUFFICES ASSUME NEW q \in Requests, req'[q] # Idle
             PROVE  Decided(req'[q].op, req'[q].snap, req'[q].next, req'[q].amount)
  BY DEF WritesAreDecided, Decided
<1>1. QED
  BY DEF IInv, WritesAreDecided

\* Staged flushes, aborts and failed payments move no money.
LEMMA OtherStepsKeep ==
  ASSUME IInv,
         \/ \E r \in Requests : CommitStaged(r) \/ Abort(r)
         \/ \E i \in Invoices : MarkPaymentFailed(i)
  PROVE  IInv'
<1>1. /\ inv' = inv /\ paid' = paid /\ charged' = charged /\ credited' = credited
      /\ TotalAddsUp' /\ StatusMatchesMoney'
  BY DEF CommitStaged, Abort, MarkPaymentFailed, IInv, TotalAddsUp,
         StatusMatchesMoney, TotalOf
<1>2. pending' \in [Invoices -> Nat]
  <2>1. ASSUME NEW r \in Requests, CommitStaged(r) PROVE pending' \in [Invoices -> Nat]
    <3>1. req[r] # Idle
      BY <2>1, Busy DEF CommitStaged
    <3>2. req[r].i \in Invoices
      BY <3>1, Busy DEF InFlight
    <3>3. pending[req[r].i] \in Nat
      BY <3>2 DEF IInv, TypeOK
    <3>4. QED
      BY <2>1, <3>2, <3>3 DEF CommitStaged, IInv, TypeOK
  <2>2. ASSUME NEW i \in Invoices, MarkPaymentFailed(i) PROVE pending' \in [Invoices -> Nat]
    BY <2>2 DEF MarkPaymentFailed, IInv, TypeOK
  <2>3. QED
    BY <2>1, <2>2 DEF Abort, IInv, TypeOK
<1>3. ASSUME NEW r \in Requests, req' = [req EXCEPT ![r] = Idle]
      PROVE  IInv'
  <2>1. /\ req' \in [Requests -> InFlight \cup {Idle}]
        /\ \A q \in Requests : req'[q] = IF q = r THEN Idle ELSE req[q]
        /\ WritesAreDecided'
    BY <1>3, RequestEnds
  <2>2. TypeOK'
    BY <1>1, <1>2, <2>1 DEF IInv, TypeOK
  <2>3. SnapshotsAreOld' /\ PaymentsStartOpen'
    BY <1>1, <2>1 DEF IInv, SnapshotsAreOld, PaymentsStartOpen, Idle
  <2>4. QED
    BY <1>1, <2>1, <2>2, <2>3 DEF IInv
<1>4. CASE req' = req
  <2>1. TypeOK'
    BY <1>1, <1>2, <1>4 DEF IInv, TypeOK
  <2>2. SnapshotsAreOld' /\ PaymentsStartOpen' /\ WritesAreDecided'
    BY <1>1, <1>4, RequestsStay DEF IInv, SnapshotsAreOld, PaymentsStartOpen
  <2>3. QED
    BY <1>1, <2>1, <2>2 DEF IInv
<1>5. QED
  BY <1>3, <1>4 DEF CommitStaged, Abort, MarkPaymentFailed

\* A draft owes its lines and nothing else.
LEMMA CreateKeeps ==
  ASSUME IInv, InvoiceAssumption, NEW i \in Invoices, NEW lines \in Lines,
         Create(i, lines)
  PROVE  IInv'
<1> DEFINE blank == [Absent EXCEPT !.status = "draft", !.lines = lines, !.version = 1]
<1>1. lines \in Nat /\ inv[i] = Absent
  BY DEF InvoiceAssumption, Create
<1>2. /\ blank \in Rows /\ blank.status = "draft" /\ blank.penalty = 0
      /\ blank.adjustment = 0 /\ blank.version = 1
  BY <1>1 DEF Absent, Rows, Statuses
<1>3. PICK row \in Rows : /\ row = Recomputed(blank)
                          /\ row.status = "draft" /\ row.version = 1
                          /\ row.penalty = 0 /\ row.adjustment = 0
                          /\ row.total = TotalOf(row)
  <2> HIDE DEF blank
  <2>1. QED
    BY <1>2, RecomputedRow
<1>4. /\ inv' = [inv EXCEPT ![i] = row]
      /\ paid' = paid /\ pending' = pending /\ charged' = charged
      /\ credited' = credited /\ req' = req
  BY <1>3 DEF Create
<1>5. inv'[i] = row /\ \A j \in Invoices \ {i} : inv'[j] = inv[j]
  BY <1>4 DEF IInv, TypeOK
<1>6. TypeOK'
  BY <1>4 DEF IInv, TypeOK
<1>7. paid[i] = 0 /\ charged[i] = 0 /\ credited[i] = 0
  BY <1>1 DEF IInv, StatusMatchesMoney, TotalAddsUp, Absent
<1>8. TotalAddsUp'
  <2> SUFFICES ASSUME NEW j \in Invoices
               PROVE  /\ inv'[j].penalty = charged[j]
                      /\ inv'[j].adjustment = credited[j]
                      /\ inv'[j].total = TotalOf(inv'[j])
    BY <1>4 DEF TotalAddsUp, TotalOf
  <2>1. QED
    BY <1>3, <1>5, <1>7 DEF IInv, TotalAddsUp
<1>9. StatusMatchesMoney'
  BY <1>3, <1>4, <1>5, <1>7 DEF IInv, StatusMatchesMoney
<1>10. SnapshotsAreOld'
  <2> SUFFICES ASSUME NEW q \in Requests, req[q] # Idle
               PROVE  /\ req[q].snap.version <= inv'[req[q].i].version
                      /\ req[q].snap.version = inv'[req[q].i].version
                           => req[q].snap = inv'[req[q].i]
    BY <1>4 DEF SnapshotsAreOld
  <2>1. req[q].i \in Invoices /\ req[q].snap.version \in Nat
    BY Busy DEF InFlight, Rows
  <2>2. /\ req[q].snap.version <= inv[req[q].i].version
        /\ req[q].snap.version = inv[req[q].i].version => req[q].snap = inv[req[q].i]
    BY DEF IInv, SnapshotsAreOld
  <2>3. QED
    BY <1>1, <1>3, <1>5, <2>1, <2>2 DEF Absent
<1>11. PaymentsStartOpen' /\ WritesAreDecided'
  BY <1>4, RequestsStay DEF IInv, PaymentsStartOpen
<1>12. QED
  BY <1>6, <1>8, <1>9, <1>10, <1>11 DEF IInv

-----------------------------------------------------------------------------
(* The invariant *)

\* No invoice, no payment, no request.
LEMMA InitKeeps == Init => IInv
<1> SUFFICES ASSUME Init PROVE IInv
  OBVIOUS
<1>1. Absent \in Rows /\ Absent.status = "absent" /\ TotalOf(Absent) = 0
        /\ Absent.penalty = 0 /\ Absent.adjustment = 0 /\ Absent.total = 0
  BY DEF Absent, Rows, TotalOf
<1>2. TypeOK
  BY <1>1 DEF Init, TypeOK
<1>3. SnapshotsAreOld /\ PaymentsStartOpen /\ WritesAreDecided
  BY DEF Init, SnapshotsAreOld, PaymentsStartOpen, WritesAreDecided, Idle
<1>4. TotalAddsUp /\ StatusMatchesMoney
  <2> HIDE DEF Absent
  <2>1. QED
    BY <1>1 DEF Init, TotalAddsUp, StatusMatchesMoney
<1>5. QED
  BY <1>2, <1>3, <1>4 DEF IInv

\* Every step of the specification keeps the invariant.
LEMMA StepKeeps ==
  ASSUME IInv, InvoiceAssumption, [Next]_vars
  PROVE  IInv'
<1>1. CASE UNCHANGED vars
  <2>1. WritesAreDecided'
    BY <1>1, RequestsStay DEF vars
  <2>2. TypeOK' /\ SnapshotsAreOld' /\ PaymentsStartOpen'
    BY <1>1 DEF vars, IInv, TypeOK, SnapshotsAreOld, PaymentsStartOpen
  <2>3. TotalAddsUp' /\ StatusMatchesMoney'
    BY <1>1 DEF vars, IInv, TotalAddsUp, StatusMatchesMoney, TotalOf
  <2>4. QED
    BY <2>1, <2>2, <2>3 DEF IInv
<1>2. CASE Next
  BY <1>2, CreateKeeps, DecideStep, CommitRowKeeps, CommitPaymentKeeps,
     OtherStepsKeep DEF Next
<1>3. QED
  BY <1>1, <1>2

(* The inductive invariant of invoices holds for any number of invoices,
   requests and amounts, claim adjustments included. *)
THEOREM Invariance == Spec => []IInv
<1>1. Init => IInv
  BY InitKeeps
<1>2. IInv /\ [Next]_vars => IInv'
  BY StepKeeps, InvoiceAssumption
<1>3. QED
  BY <1>1, <1>2, PTL DEF Spec

(* Columns, sums and requests keep their types. *)
THEOREM TypeCorrect == Spec => []TypeOK
<1>1. IInv => TypeOK
  BY DEF IInv
<1>2. QED
  BY <1>1, Invariance, PTL

(* No penalty or adjustment is lost or booked twice. *)
THEOREM SumsAddUp == Spec => []TotalAddsUp
<1>1. IInv => TotalAddsUp
  BY DEF IInv
<1>2. QED
  BY <1>1, Invariance, PTL

(* The status of an invoice and the confirmed money on it agree. *)
THEOREM StatusTellsMoney == Spec => []StatusMatchesMoney
<1>1. IInv => StatusMatchesMoney
  BY DEF IInv
<1>2. QED
  BY <1>1, Invariance, PTL

(* The steps that write invoices or add to the confirmed money. *)
LEMMA Writers ==
  ASSUME [Next]_vars
  PROVE  \/ inv' = inv /\ paid' = paid
         \/ \E lines \in Lines, i \in Invoices : Create(i, lines)
         \/ \E r \in Requests : CommitRow(r)
         \/ \E r \in Requests : CommitPayment(r)
<1>1. ASSUME NEW r \in Requests, NEW i \in Invoices, Decide(r, i)
      PROVE  inv' = inv /\ paid' = paid
  BY <1>1 DEF Decide, Issue, Update, Cancel, MarkOverdue, Void, ApplyPenalty,
              ApplyClaimAdjustment, StagePayment, RecordPayment, ToFlush
<1>2. ASSUME NEW r \in Requests, CommitStaged(r) \/ Abort(r)
      PROVE  inv' = inv /\ paid' = paid
  BY <1>2 DEF CommitStaged, Abort
<1>3. ASSUME NEW i \in Invoices, MarkPaymentFailed(i)
      PROVE  inv' = inv /\ paid' = paid
  BY <1>3 DEF MarkPaymentFailed
<1>4. CASE UNCHANGED vars
  BY <1>4 DEF vars
<1>5. QED
  BY <1>1, <1>2, <1>3, <1>4 DEF Next

(* A closed invoice keeps its status and sums; only a paid one may be voided. *)
THEOREM ClosedIsFinal == Spec => ClosedStaysClosed
<1>1. ASSUME IInv, InvoiceAssumption, [Next]_vars
      PROVE  \A i \in Invoices :
               inv[i].status \in TERMINAL_STATES =>
                 \/ inv'[i] = inv[i]
                 \/ /\ inv[i].status = "paid"
                    /\ inv'[i] = Written([inv[i] EXCEPT !.status = "voided"])
  <2> SUFFICES ASSUME NEW i \in Invoices, inv[i].status \in TERMINAL_STATES,
                      inv'[i] # inv[i]
               PROVE  /\ inv[i].status = "paid"
                      /\ inv'[i] = Written([inv[i] EXCEPT !.status = "voided"])
    OBVIOUS
  <2>1. CASE \E lines \in Lines, j \in Invoices : Create(j, lines)
    BY <2>1 DEF Create, IInv, TypeOK, Absent, TERMINAL_STATES
  <2>2. ASSUME NEW r \in Requests, CommitPayment(r)
        PROVE  FALSE
    <3>1. PICK j, a : j = req[r].i /\ a = req[r].amount
      OBVIOUS
    <3>2. /\ j \in Invoices
          /\ inv' # inv
          /\ \/ inv' = inv
             \/ /\ inv[j].status \in OPEN
                /\ inv' = [inv EXCEPT ![j] =
                     Written([inv[j] EXCEPT !.status =
                                  StatusFor(inv[j].total - (paid[j] + a))])]
      BY <1>1, <2>2, <3>1, PaymentCases
    <3>3. inv[j].status \in OPEN /\ \A k \in Invoices \ {j} : inv'[k] = inv[k]
      BY <1>1, <3>2 DEF IInv, TypeOK
    <3>4. QED
      BY <3>3 DEF OPEN
  <2>3. ASSUME NEW r \in Requests, CommitRow(r)
        PROVE  /\ inv[i].status = "paid"
               /\ inv'[i] = Written([inv[i] EXCEPT !.status = "voided"])
    <3>1. PICK e \in InFlight : e = req[r]
      BY <1>1, <2>3, Busy DEF CommitRow
    <3>2. e.i = i
      BY <1>1, <2>3, <3>1, WrittenRow
    <3>3. e.snap = inv[i]
      BY <1>1, <2>3, <3>1, <3>2, Busy DEF CommitRow, IsFresh, IInv, SnapshotsAreOld
    <3>4. Decided(e.op, inv[i], e.next, e.amount) /\ e.op \notin {"pay", "stage"}
      BY <1>1, <2>3, <3>1, <3>3, Busy DEF CommitRow, IInv, WritesAreDecided
    <3>5. inv[i].status = "paid" /\ e.next = [inv[i] EXCEPT !.status = "voided"]
      BY <3>4 DEF Decided, TERMINAL_STATES
    <3>6. inv'[i] = Written(e.next)
      BY <1>1, <2>3, <3>1, <3>2 DEF CommitRow, IInv, TypeOK
    <3>7. QED
      BY <3>5, <3>6
  <2>4. QED
    BY <1>1, <2>1, <2>2, <2>3, Writers
<1>2. QED
  BY <1>1, Invariance, InvoiceAssumption, PTL DEF Spec, ClosedStaysClosed

-----------------------------------------------------------------------------
(* Invoices no claim adjustment touched *)

(* What was unadjusted after a write was so before, and the write that left it
   so was no adjustment. *)
LEMMA StillUnadjusted ==
  ASSUME IInv, NEW r \in Requests, CommitRow(r)
  PROVE  /\ \A j \in Invoices : credited'[j] = 0 => credited[j] = 0
         /\ credited'[req[r].i] = 0 => req[r].op # "adjust"
<1>1. PICK e \in InFlight : e = req[r]
  BY Busy DEF CommitRow
<1>2. e.i \in Invoices /\ e.amount \in Nat
  BY DEF InFlight
<1>3. credited \in [Invoices -> Nat]
  BY DEF IInv, TypeOK
<1>4. CASE e.op = "adjust"
  <2>1. e.amount > 0
    BY <1>1, <1>4, Busy DEF CommitRow, IInv, WritesAreDecided, Decided
  <2>2. credited' = [credited EXCEPT ![e.i] = @ + e.amount]
    BY <1>1, <1>4 DEF CommitRow, Booked
  <2>3. credited'[e.i] = credited[e.i] + e.amount
    BY <1>2, <1>3, <2>2
  <2>4. \A j \in Invoices \ {e.i} : credited'[j] = credited[j]
    BY <1>2, <1>3, <2>2
  <2>5. credited[e.i] \in Nat
    BY <1>2, <1>3
  <2>6. credited'[e.i] # 0
    BY <1>2, <2>1, <2>3, <2>5
  <2>7. QED
    BY <1>1, <2>4, <2>6
<1>5. CASE e.op # "adjust"
  <2>1. credited' = credited
    BY <1>1, <1>5 DEF CommitRow, Booked
  <2>2. QED
    BY <1>1, <1>5, <2>1
<1>6. QED
  BY <1>4, <1>5

(* A penalty only raises a total. *)
LEMMA TotalsGrow ==
  ASSUME IInv, NEW r \in Requests, CommitRow(r), credited'[req[r].i] = 0
  PROVE  /\ inv'[req[r].i].total >= inv[req[r].i].total
         /\ inv'[req[r].i].status \in OPEN /\ paid[req[r].i] > 0 =>
              inv[req[r].i].status \in OPEN
<1>1. PICK e \in InFlight : e = req[r]
  BY Busy DEF CommitRow
<1>2. PICK i \in Invoices : i = e.i
  BY <1>1 DEF InFlight
<1>3. PICK row \in Rows : row = inv[i]
  BY DEF IInv, TypeOK
<1>4. e.snap = row /\ e.next \in Rows /\ e.amount \in Nat
  BY <1>1, <1>2, <1>3, Busy
     DEF CommitRow, IsFresh, IInv, SnapshotsAreOld, InFlight
<1>5. Decided(e.op, row, e.next, e.amount) /\ e.op \notin {"pay", "stage", "adjust"}
  BY <1>1, <1>4, Busy, StillUnadjusted DEF CommitRow, IInv, WritesAreDecided
<1>6. inv'[i] = Written(e.next)
  BY <1>1, <1>2 DEF CommitRow, IInv, TypeOK
<1>7. inv'[i].total = e.next.total /\ inv'[i].status = e.next.status
  BY <1>4, <1>6, WrittenKeeps
<1>8. row.total = TotalOf(row)
  BY <1>3 DEF IInv, TotalAddsUp
<1>9. row.status = "draft" => paid[i] = 0
  BY <1>3 DEF IInv, StatusMatchesMoney
<1>10. /\ e.next.total >= row.total
       /\ e.next.status \in OPEN /\ paid[i] > 0 => row.status \in OPEN
  <2>1. CASE e.op = "issue" /\ row.status = "draft"
               /\ e.next = [Recomputed(row) EXCEPT !.status = "issued"]
    BY <1>8, <1>9, <2>1, RecomputedRow DEF Rows, TotalOf
  <2>2. CASE e.op = "update" /\ e.next = row
    BY <2>2 DEF Rows
  <2>3. CASE e.op = "void" /\ e.next = [row EXCEPT !.status = "voided"]
    BY <2>3 DEF Rows, OPEN, TERMINAL_STATES
  <2>4. CASE e.op = "cancel" /\ e.next = [row EXCEPT !.status = "cancelled"]
    BY <2>4 DEF Rows, OPEN, TERMINAL_STATES
  <2>5. CASE e.op = "overdue" /\ row.status \in {"issued", "partially_paid"}
               /\ e.next = [row EXCEPT !.status = "overdue"]
    BY <2>5 DEF Rows, OPEN, TERMINAL_STATES, Statuses
  <2>6. CASE e.op = "penalty"
               /\ e.next = Recomputed([row EXCEPT !.penalty = @ + e.amount])
    <3>1. PICK more \in Rows : more = [row EXCEPT !.penalty = @ + e.amount]
      <4>1. row.penalty + e.amount \in Nat
        BY <1>4 DEF Rows
      <4>2. QED
        BY <4>1 DEF Rows
    <3>2. /\ more.lines = row.lines /\ more.penalty = row.penalty + e.amount
          /\ more.adjustment = row.adjustment /\ more.status = row.status
      BY <3>1 DEF Rows
    <3>3. TotalOf(more) >= TotalOf(row)
      BY <1>4, <3>2 DEF TotalOf, Rows
    <3>4. e.next.total = TotalOf(more) /\ e.next.status = row.status
      BY <2>6, <3>1, <3>2, RecomputedRow DEF Recomputed, Rows
    <3>5. QED
      BY <1>8, <3>3, <3>4
  <2>7. QED
    BY <1>5, <2>1, <2>2, <2>3, <2>4, <2>5, <2>6 DEF Decided
<1>11. QED
  BY <1>1, <1>2, <1>3, <1>7, <1>10

(* Requests hold totals no larger than today's, and an open invoice with money
   on it owes: kept by the steps that only decide or end a request. *)
LEMMA OwesStays ==
  ASSUME OwesInv, inv' = inv, paid' = paid, credited' = credited,
         \A q \in Requests : \/ req'[q] = req[q]
                             \/ req'[q] = Idle
                             \/ req'[q].snap = inv[req'[q].i] /\ req'[q].i \in Invoices
  PROVE  TotalsOnlyGrow' /\ OpenOwes'
<1>1. OpenOwes'
  BY DEF OwesInv, OpenOwes, Unadjusted
<1>2. TotalsOnlyGrow'
  BY DEF OwesInv, IInv, TypeOK, Rows, TotalsOnlyGrow, Unadjusted
<1>3. QED
  BY <1>1, <1>2

\* A row that is written keeps its promise of a total: rows in flight only raise it.
LEMMA OwesCommitRow ==
  ASSUME OwesInv, IInv', NEW r \in Requests, CommitRow(r)
  PROVE  TotalsOnlyGrow' /\ OpenOwes'
<1>1. IInv
  BY DEF OwesInv
<1>2. PICK i \in Invoices : i = req[r].i
  BY <1>1, WrittenRow
<1>3. credited'[i] = 0 =>
        /\ inv'[i].total >= inv[i].total
        /\ inv'[i].status \in OPEN /\ paid[i] > 0 => inv[i].status \in OPEN
  BY <1>1, <1>2, TotalsGrow
<1>4. \A j \in Invoices \ {i} : inv'[j] = inv[j]
  BY <1>1, <1>2, WrittenRow
<1>5. \A j \in Invoices : inv[j].total \in Nat /\ inv'[j].total \in Nat /\ paid[j] \in Nat
  BY <1>1 DEF IInv, TypeOK, Rows
<1>6. \A j \in Invoices :
        credited'[j] = 0 => credited[j] = 0 /\ inv'[j].total >= inv[j].total
  BY <1>1, <1>3, <1>4, <1>5, StillUnadjusted
<1>7. \A q \in Requests : req'[q] = req[q] \/ req'[q] = Idle
  BY <1>1, RequestEnds DEF CommitRow
<1>8. TotalsOnlyGrow'
  <2> SUFFICES ASSUME NEW q \in Requests, req'[q] # Idle, credited'[req'[q].i] = 0
               PROVE  req'[q].snap.total <= inv'[req'[q].i].total
    BY DEF TotalsOnlyGrow, Unadjusted
  <2>1. req'[q] = req[q] /\ req[q].i \in Invoices /\ req[q].snap.total \in Nat
    BY <1>1, <1>7, Busy DEF InFlight, Rows
  <2>2. req[q].snap.total <= inv[req[q].i].total
    BY <1>6, <2>1 DEF OwesInv, TotalsOnlyGrow, Unadjusted
  <2>3. QED
    BY <1>5, <1>6, <2>1, <2>2
<1>9. OpenOwes'
  <2> SUFFICES ASSUME NEW j \in Invoices, credited'[j] = 0,
                      inv'[j].status \in OPEN, paid[j] > 0
               PROVE  paid[j] < inv'[j].total
    BY DEF CommitRow, OpenOwes, Unadjusted
  <2>1. inv[j].status \in OPEN
    BY <1>3, <1>4
  <2>2. paid[j] < inv[j].total
    BY <1>6, <2>1 DEF OwesInv, OpenOwes, Unadjusted
  <2>3. QED
    BY <1>5, <1>6, <2>2
<1>10. QED
  BY <1>8, <1>9

\* An invoice that a payment leaves open still owes something.
LEMMA OwesCommitPayment ==
  ASSUME OwesInv, NEW r \in Requests, CommitPayment(r)
  PROVE  TotalsOnlyGrow' /\ OpenOwes'
<1>1. IInv
  BY DEF OwesInv
<1>2. PICK i, a : i = req[r].i /\ a = req[r].amount
  OBVIOUS
<1>3. i \in Invoices /\ a \in Nat /\ a > 0
  BY <1>1, <1>2, PaymentCases
<1>4. /\ paid'[i] = paid[i] + a
      /\ \A j \in Invoices \ {i} : paid'[j] = paid[j]
  <2>1. paid' = [paid EXCEPT ![i] = @ + a]
    BY <1>2 DEF CommitPayment
  <2>2. QED
    BY <1>1, <1>3, <2>1 DEF IInv, TypeOK
<1>5. \A j \in Invoices : inv[j].total \in Nat /\ paid[j] \in Nat /\ inv[j] \in Rows
  BY <1>1 DEF IInv, TypeOK, Rows
<1>6. \A q \in Requests : req'[q] = req[q] \/ req'[q] = Idle
  BY <1>1, RequestEnds DEF CommitPayment
<1>7. \A q \in Requests : req'[q] # Idle =>
        /\ req'[q] = req[q] /\ req[q].i \in Invoices
        /\ Unadjusted(req[q].i) => req[q].snap.total <= inv[req[q].i].total
  BY <1>1, <1>6, Busy DEF OwesInv, TotalsOnlyGrow, InFlight
<1>11. \A j \in Invoices : Unadjusted(j)' <=> Unadjusted(j)
  BY DEF CommitPayment, Unadjusted
<1>8. CASE /\ inv[i].status \in OPEN
           /\ inv' = [inv EXCEPT ![i] =
                Written([inv[i] EXCEPT !.status =
                             StatusFor(inv[i].total - (paid[i] + a))])]
  <2>1. PICK row \in Rows : row = inv[i]
    BY <1>3, <1>5
  <2>2. PICK target : target = StatusFor(row.total - (paid[i] + a))
    OBVIOUS
  <2>3. target \in {"paid", "partially_paid"}
          /\ (target = "paid" <=> row.total <= paid[i] + a)
    BY <1>3, <1>5, <2>1, <2>2 DEF StatusFor
  <2>4. PICK moved \in Rows : moved = [row EXCEPT !.status = target]
    BY <2>3 DEF Rows, Statuses
  <2>5. moved.status = target /\ moved.total = row.total
    BY <2>4 DEF Rows
  <2>6. inv'[i] = Written(moved) /\ \A j \in Invoices \ {i} : inv'[j] = inv[j]
    BY <1>1, <1>3, <1>8, <2>1, <2>2, <2>4 DEF IInv, TypeOK
  <2>7. inv'[i].status = target /\ inv'[i].total = inv[i].total
    BY <2>1, <2>5, <2>6, WrittenKeeps
  <2>8. TotalsOnlyGrow'
    BY <1>7, <1>11, <2>6, <2>7 DEF TotalsOnlyGrow, Unadjusted
  <2>9. OpenOwes'
    <3> SUFFICES ASSUME NEW j \in Invoices, Unadjusted(j),
                        inv'[j].status \in OPEN, paid'[j] > 0
                 PROVE  paid'[j] < inv'[j].total
      BY <1>11 DEF OpenOwes, Unadjusted
    <3>1. CASE j = i
      BY <1>3, <1>4, <1>5, <2>1, <2>3, <2>7, <3>1 DEF OPEN, TERMINAL_STATES
    <3>2. CASE j # i
      BY <1>4, <2>6, <3>2 DEF OwesInv, OpenOwes
    <3>3. QED
      BY <3>1, <3>2
  <2>10. QED
    BY <2>8, <2>9
<1>9. CASE inv' = inv /\ req[r].snap.total - (paid[i] + a) > 0
  <2>1. /\ Unadjusted(i) => req[r].snap.total <= inv[i].total
        /\ req[r].snap.total \in Nat
    BY <1>1, <1>2, Busy DEF CommitPayment, OwesInv, TotalsOnlyGrow, InFlight, Rows
  <2>2. TotalsOnlyGrow'
    BY <1>7, <1>9, <1>11 DEF TotalsOnlyGrow, Unadjusted
  <2>3. OpenOwes'
    <3> SUFFICES ASSUME NEW j \in Invoices, Unadjusted(j),
                        inv[j].status \in OPEN, paid'[j] > 0
                 PROVE  paid'[j] < inv[j].total
      BY <1>9, <1>11 DEF OpenOwes, Unadjusted
    <3>1. CASE j = i
      BY <1>3, <1>4, <1>5, <1>9, <2>1, <3>1
    <3>2. CASE j # i
      BY <1>4, <3>2 DEF OwesInv, OpenOwes
    <3>3. QED
      BY <3>1, <3>2
  <2>4. QED
    BY <2>2, <2>3
<1>10. QED
  BY <1>1, <1>2, <1>8, <1>9, PaymentCases

(* The request a deciding step starts holds the row as it is. *)
LEMMA DecideLoads ==
  ASSUME IInv, NEW r \in Requests, NEW i \in Invoices, Decide(r, i)
  PROVE  /\ inv' = inv /\ paid' = paid /\ credited' = credited
         /\ \A q \in Requests : \/ req'[q] = req[q]
                                \/ req'[q].snap = inv[req'[q].i] /\ req'[q].i \in Invoices
<1>1. ASSUME NEW op, NEW next, NEW amount, ToFlush(r, op, i, next, amount)
      PROVE  /\ inv' = inv /\ paid' = paid /\ credited' = credited
             /\ \A q \in Requests :
                  \/ req'[q] = req[q]
                  \/ req'[q].snap = inv[req'[q].i] /\ req'[q].i \in Invoices
  BY <1>1 DEF ToFlush, IInv, TypeOK
<1>2. QED
  BY <1>1 DEF Decide, Issue, Update, Cancel, MarkOverdue, Void, ApplyPenalty,
              ApplyClaimAdjustment, StagePayment, RecordPayment

\* Every step keeps what open invoices owe.
LEMMA OwesStep ==
  ASSUME OwesInv, InvoiceAssumption, [Next]_vars
  PROVE  OwesInv'
<1>1. IInv /\ IInv'
  BY StepKeeps DEF OwesInv
<1>2. CASE UNCHANGED vars
  BY <1>1, <1>2, OwesStays DEF vars, OwesInv
<1>3. ASSUME NEW r \in Requests, NEW i \in Invoices, Decide(r, i)
      PROVE  OwesInv'
  BY <1>1, <1>3, DecideLoads, OwesStays DEF OwesInv
<1>4. ASSUME NEW r \in Requests, CommitRow(r)
      PROVE  OwesInv'
  BY <1>1, <1>4, OwesCommitRow DEF OwesInv
<1>5. ASSUME NEW r \in Requests, CommitPayment(r)
      PROVE  OwesInv'
  BY <1>1, <1>5, OwesCommitPayment DEF OwesInv
<1>6. ASSUME NEW r \in Requests, CommitStaged(r) \/ Abort(r)
      PROVE  OwesInv'
  <2>1. /\ inv' = inv /\ paid' = paid /\ credited' = credited
        /\ req' = [req EXCEPT ![r] = Idle]
    BY <1>6 DEF CommitStaged, Abort
  <2>2. \A q \in Requests : req'[q] = req[q] \/ req'[q] = Idle
    BY <1>1, <2>1, RequestEnds
  <2>3. QED
    BY <1>1, <2>1, <2>2, OwesStays DEF OwesInv
<1>7. ASSUME NEW i \in Invoices, MarkPaymentFailed(i)
      PROVE  OwesInv'
  BY <1>1, <1>7, OwesStays DEF MarkPaymentFailed, OwesInv
<1>8. ASSUME NEW i \in Invoices, NEW lines \in Lines, Create(i, lines)
      PROVE  OwesInv'
  <2>1. inv[i] = Absent /\ paid' = paid /\ req' = req /\ credited' = credited
    BY <1>8 DEF Create
  <2>2. paid[i] = 0 /\ inv[i].total = 0
    BY <1>1, <2>1 DEF IInv, StatusMatchesMoney, Absent
  <2>3. inv'[i].total \in Nat /\ \A j \in Invoices \ {i} : inv'[j] = inv[j]
    BY <1>1, <1>8 DEF Create, IInv, TypeOK, Rows
  <2>4. TotalsOnlyGrow'
    <3> SUFFICES ASSUME NEW q \in Requests, req[q] # Idle, Unadjusted(req[q].i)
                 PROVE  req[q].snap.total <= inv'[req[q].i].total
      BY <2>1 DEF TotalsOnlyGrow, Unadjusted
    <3>1. req[q].i \in Invoices /\ req[q].snap.total \in Nat
            /\ req[q].snap.total <= inv[req[q].i].total
      BY <1>1, Busy DEF InFlight, Rows, OwesInv, TotalsOnlyGrow
    <3>2. QED
      BY <2>2, <2>3, <3>1
  <2>5. OpenOwes'
    BY <2>1, <2>2, <2>3 DEF OwesInv, OpenOwes, Unadjusted
  <2>6. QED
    BY <1>1, <2>4, <2>5 DEF OwesInv
<1>9. QED
  BY <1>2, <1>3, <1>4, <1>5, <1>6, <1>7, <1>8 DEF Next

(* The stronger invariant: what is owed on invoices no adjustment touched. *)
THEOREM OwesInvariance == Spec => []OwesInv
<1>1. Init => OwesInv
  BY InitKeeps DEF OwesInv, Init, TotalsOnlyGrow, OpenOwes
<1>2. OwesInv /\ [Next]_vars => OwesInv'
  BY OwesStep, InvoiceAssumption
<1>3. QED
  BY <1>1, <1>2, PTL DEF Spec

(* Racing payments never cover an invoice and leave it open. *)
THEOREM OpenStillOwes == Spec => []OpenOwes
<1>1. OwesInv => OpenOwes
  BY DEF OwesInv
<1>2. QED
  BY <1>1, OwesInvariance, PTL

(* Confirmed money is only ever added to an open invoice. *)
THEOREM MoneyOnlyOnOpen == Spec => ConfirmedOnlyOnOpen
<1>1. ASSUME OwesInv, [Next]_vars
      PROVE  \A i \in Invoices :
               Unadjusted(i) /\ paid'[i] # paid[i] => inv[i].status \in OPEN
  <2> SUFFICES ASSUME NEW i \in Invoices, Unadjusted(i), paid'[i] # paid[i]
               PROVE  inv[i].status \in OPEN
    OBVIOUS
  <2>1. IInv
    BY <1>1 DEF OwesInv
  <2>2. PICK r \in Requests : CommitPayment(r)
    BY <1>1, Writers DEF Create, CommitRow
  <2>3. PICK j, a : j = req[r].i /\ a = req[r].amount
    OBVIOUS
  <2>4. j = i
    BY <2>1, <2>2, <2>3 DEF CommitPayment, IInv, TypeOK
  <2>5. CASE inv[i].status \in OPEN
    BY <2>5
  <2>6. CASE /\ req[r].snap.total - (paid[i] + a) > 0
             /\ paid[i] > 0
    <3>1. /\ req[r].snap.total <= inv[i].total
          /\ req[r].snap.total \in Nat /\ a \in Nat
      BY <1>1, <2>1, <2>2, <2>3, <2>4, Busy
         DEF CommitPayment, OwesInv, TotalsOnlyGrow, InFlight, Rows
    <3>2. inv[i].total \in Nat /\ paid[i] \in Nat /\ inv[i].status \in Statuses \cup {"absent"}
      BY <2>1 DEF IInv, TypeOK, Rows
    <3>3. paid[i] < inv[i].total
      BY <2>6, <3>1, <3>2
    <3>4. inv[i].status \notin {"absent", "draft", "issued", "cancelled", "paid", "voided"}
      BY <2>1, <2>6, <3>2, <3>3 DEF IInv, StatusMatchesMoney
    <3>5. QED
      BY <3>2, <3>4 DEF OPEN, Statuses, TERMINAL_STATES
  <2>7. QED
    BY <2>1, <2>2, <2>3, <2>4, <2>5, <2>6, PaymentCases
<1>2. QED
  BY <1>1, OwesInvariance, PTL DEF Spec, ConfirmedOnlyOnOpen
=============================================================================
