\* Two payments that race on a partially paid invoice.
SPECIFICATION Spec
CONSTANTS
  i1 = i1
  r1 = r1
  r2 = r2
  Invoices = {i1}
  Requests = {r1, r2}
  CreditNotes = {}
  Lines = {3}
  Amounts = {1, 2}
  Overrides = {FALSE}
  Calls = {"issue", "pay"}
  MaxVersion = 6
  MaxPaid = 6
  MaxPending = 1
SYMMETRY Symmetry
INVARIANT
  NoOverpayment
\* A closed invoice is never written again.
CHECK_DEADLOCK FALSE
