------------------------- MODULE MCInvoicePayments -------------------------
(* TLC instances of InvoicePayments. *)
EXTENDS InvoicePayments, TLC

CONSTANTS i1, r1, r2

Everything == Operations
Symmetry == Permutations(Requests)
=============================================================================
