\* Two requests on one invoice, every operation.
SPECIFICATION Spec
CONSTANTS
  i1 = i1
  r1 = r1
  r2 = r2
  Invoices = {i1}
  Requests = {r1, r2}
  CreditNotes = {i1}
  Lines = {0, 3}
  Amounts = {1, 2}
  Overrides = {FALSE, TRUE}
  Calls <- Everything
  MaxVersion = 6
  MaxPaid = 4
  MaxPending = 1
SYMMETRY Symmetry
INVARIANTS
  IInv
  OwesInv
PROPERTIES
  ClosedStaysClosed
  ConfirmedOnlyOnOpen
CHECK_DEADLOCK FALSE
