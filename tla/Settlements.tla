---------------------------- MODULE Settlements -----------------------------
(***************************************************************************)
(* SettlementService: settlements that pay out approved claims, payouts,   *)
(* and the adjustment of an invoice by a settlement.                       *)
(*                                                                         *)
(* Consuming a claim settlement takes two transactions: the settlement is  *)
(* committed first, the invoice is adjusted and the consumption announced  *)
(* in the second, which may be refused or never happen.                    *)
(***************************************************************************)
EXTENDS InsuranceClaims

CONSTANTS Settlements, Payouts, Invoices,
          Consumptions   \* ClaimSettlementConsumed events in the event store

ASSUME SettlementsAssumption ==
  UNION {Settlements, Payouts, Invoices, Consumptions} \subseteq Ids

SettlementTransitions ==
  [draft |-> {"pending_approval", "cancelled"},
   pending_approval |-> {"approved", "cancelled"},
   approved |-> {"settled", "cancelled"}, settled |-> {}, cancelled |-> {}]

\* backed: settlement_type is claim_payout or claim_offset; approvedAt: it is set.
SettlementRows == [status : DOMAIN SettlementTransitions, deleted : {FALSE},
                   claim : Claims \cup {None}, backed : BOOLEAN, amount : Amounts,
                   invoice : Invoices \cup {None}, approvedAt : BOOLEAN]

PayoutRows == [status : {"pending"}, deleted : {FALSE}, settlement : Settlements]

\* Of an invoice: whether it is finalised, and its claim_adjustment_amount.
InvoiceRows == [status : {"open", "final"}, deleted : {FALSE}, adjusted : Nat]

ConsumptionRows == [status : {"told"}, deleted : {FALSE}, settlement : Settlements,
                    invoice : Invoices, amount : Amounts]

-----------------------------------------------------------------------------
(* Settlements *)

\* validate_settlement_amount
ValidAmount(c, backed, amount, override) ==
  c # None =>
    /\ Owned(c)
    /\ backed => /\ db[c].status \in {"approved", "settled"}
                 /\ db[c].approved # None /\ ~override => amount <= db[c].approved

\* _validate_refs, for the one reference that is looked at later.
ValidInvoice(i) == i # None => Owned(i)

Draft(c, backed, amount, i) ==
  [status |-> "draft", deleted |-> FALSE, claim |-> c, backed |-> backed,
   amount |-> amount, invoice |-> i, approvedAt |-> FALSE]

Resume(s, i) == [pc |-> "resume", settlement |-> s, invoice |-> i]

CreateSettlement(r) ==
  /\ Asked(r, "create_settlement")
  /\ \E s \in Among(Settlements), c \in Among(Claims) \cup {None},
        i \in Among(Invoices) \cup {None}, backed \in BOOLEAN,
        amount \in Amounts, override \in Overrides :
       /\ ValidInvoice(i)
       /\ ValidAmount(c, backed, amount, override)
       /\ Insert(r, "create_settlement", s, Draft(c, backed, amount, i))

\* consume_claim_settlement, the first transaction: create_settlement as above,
\* with a claim.  Without an invoice the second one only appends an event.
ConsumeClaimSettlement(r) ==
  /\ Asked(r, "consume")
  /\ \E s \in Among(Settlements), c \in Among(Claims), i \in Among(Invoices),
        amount \in Amounts, override \in Overrides :
       /\ Owned(i)
       /\ ValidAmount(c, TRUE, amount, override)
       /\ Fresh(s)
       /\ Prepare(r, Plan("consume", Row(s, Draft(c, TRUE, amount, i)), Resume(s, i)))

\* The second transaction: the settlement was refreshed, the invoice is loaded
\* again, and the event goes into the transaction that writes the invoice.
ApplyInvoiceClaimAdjustment(r) ==
  LET s == req[r].settlement
      i == req[r].invoice
  IN /\ req[r].pc = "resume"
     /\ Owned(i) /\ InStatus(i, {"open"})
     /\ \E e \in Among(Consumptions) :
          /\ Fresh(e)
          /\ Prepare(r, Plan("adjust",
               [x \in {i, e} |->
                  IF x = i THEN [db[i] EXCEPT !.adjusted = @ + db[s].amount]
                  ELSE [status |-> "told", deleted |-> FALSE, settlement |-> s,
                        invoice |-> i, amount |-> db[s].amount]],
               Idle))

SubmitSettlementForApproval(r) ==
  /\ Asked(r, "submit_settlement")
  /\ \E s \in Among(Settlements) :
       Transition(r, "submit_settlement", s, SettlementTransitions,
                  "pending_approval", db[s])

\* The amount is not looked at again.
ApproveSettlement(r) ==
  /\ Asked(r, "approve_settlement")
  /\ \E s \in Among(Settlements) :
       Transition(r, "approve_settlement", s, SettlementTransitions, "approved",
                  [db[s] EXCEPT !.approvedAt = TRUE])

SettleSettlement(r) ==
  /\ Asked(r, "settle_settlement")
  /\ \E s \in Among(Settlements) :
       Transition(r, "settle_settlement", s, SettlementTransitions, "settled", db[s])

CancelSettlement(r) ==
  /\ Asked(r, "cancel_settlement")
  /\ \E s \in Among(Settlements) :
       Transition(r, "cancel_settlement", s, SettlementTransitions, "cancelled", db[s])

\* Fault: an approved settlement can still be edited.
UpdateSettlementFault(r) ==
  /\ Asked(r, "update_settlement")
  /\ \E s \in Among(Settlements), amount \in Amounts :
       /\ InStatus(s, {"draft", "pending_approval", "approved"})
       /\ Write(r, "update_settlement", s, [db[s] EXCEPT !.amount = amount])

\* Any amount: validate_settlement_amount is not asked again.
UpdateSettlement(r) ==
  /\ Asked(r, "update_settlement")
  /\ \E s \in Among(Settlements), amount \in Amounts :
       /\ InStatus(s, {"draft", "pending_approval"})
       /\ Write(r, "update_settlement", s, [db[s] EXCEPT !.amount = amount])

\* Fault: a settlement that waits for approval is paid out.
CreatePayoutFault(r) ==
  /\ Asked(r, "create_payout")
  /\ \E s \in Among(Settlements), o \in Among(Payouts) :
       /\ InStatus(s, {"pending_approval", "approved", "settled"})
       /\ Insert(r, "create_payout", o,
                 [status |-> "pending", deleted |-> FALSE, settlement |-> s])

\* Only read, the settlement may be cancelled before the payout is committed; and
\* neither the amount of this payout nor their number is bounded.
CreatePayout(r) ==
  /\ Asked(r, "create_payout")
  /\ \E s \in Among(Settlements), o \in Among(Payouts) :
       /\ InStatus(s, {"approved", "settled"})
       /\ Insert(r, "create_payout", o,
                 [status |-> "pending", deleted |-> FALSE, settlement |-> s])

-----------------------------------------------------------------------------
(* BillingService, as far as it is seen from here *)

IssueInvoice(r) ==
  /\ Asked(r, "create_invoice")
  /\ \E i \in Among(Invoices) :
       Insert(r, "create_invoice", i, [status |-> "open", deleted |-> FALSE, adjusted |-> 0])

\* Paid, voided or cancelled.
FinaliseInvoice(r) ==
  /\ Asked(r, "finalise_invoice")
  /\ \E i \in Among(Invoices) :
       /\ InStatus(i, {"open"})
       /\ Write(r, "finalise_invoice", i, [db[i] EXCEPT !.status = "final"])

\* By the routes that lead to them (consume_claim_settlement has none yet).
SettlementStep(r) ==
  \/ CreateSettlement(r) \/ ConsumeClaimSettlement(r) \/ ApplyInvoiceClaimAdjustment(r)
  \/ SubmitSettlementForApproval(r) \/ ApproveSettlement(r) \/ SettleSettlement(r)
  \/ CancelSettlement(r) \/ UpdateSettlement(r) \/ CreatePayout(r)
  \/ IssueInvoice(r) \/ FinaliseInvoice(r)

-----------------------------------------------------------------------------
(* Properties *)

SettlementsTyped ==
  /\ \A s \in Among(Settlements) : Exists(s) => db[s] \in SettlementRows
  /\ \A o \in Among(Payouts) : Exists(o) => db[o] \in PayoutRows
  /\ \A i \in Among(Invoices) : Exists(i) => db[i] \in InvoiceRows
  /\ \A e \in Among(Consumptions) : Exists(e) => db[e] \in ConsumptionRows

\* docs/23 section 6: a claim-backed settlement rests on a claim somebody approved
\* with an amount, whatever became of the claim since (reopened, rejected, edited,
\* deleted).
BackedByApproval ==
  \A s \in Among(Settlements) :
    Exists(s) /\ db[s].backed /\ db[s].claim # None => db[db[s].claim].approved # None

\* docs/23 section 6: what is paid out was approved at some time, also when the
\* settlement is cancelled while the payout is being written.
PayoutsApproved ==
  \A o \in Among(Payouts) : Exists(o) => db[db[o].settlement].approvedAt

AmountsDecided ==
  \A c \in Among(Claims) : Exists(c) => DecidedHasAmount(db[c])

\* docs/23 section 7: the claim adjustment of an invoice is the sum of what the
\* consumption events announce for it; the two are written in one transaction
\* although two consumptions and the closing of the invoice may race.
AdjustmentTold ==
  \A i \in Among(Invoices) : Exists(i) =>
    db[i].adjusted = MapThenSumSet(LAMBDA e : db[e].amount,
                       {e \in Among(Consumptions) : Exists(e) /\ db[e].invoice = i})

\* A settlement is consumed at most once.
ConsumedOnce ==
  \A e, f \in Among(Consumptions) :
    e # f /\ Exists(e) /\ Exists(f) => db[e].settlement # db[f].settlement

\* What is decided stays as it was decided, whoever had loaded it before: the
\* amount of an approved, settled or cancelled settlement, all of a terminal one,
\* the adjustment of a finalised invoice, a terminal policy.
DecidedStaysDecided ==
  [][/\ \A s \in Among(Settlements) :
          /\ db[s].status \in {"approved", "settled", "cancelled"} =>
               db'[s] = [db[s] EXCEPT !.status = db'[s].status]
          /\ db[s].status \in {"settled", "cancelled"} => db'[s] = db[s]
     /\ \A i \in Among(Invoices) : db[i].status = "final" => db'[i] = db[i]
     /\ \A p \in Among(Policies) :
          db[p].status \in {"expired", "cancelled"} => db'[p] = db[p]]_rows

ClaimsInv ==
  /\ ClaimsTyped
  /\ SettlementsTyped
  /\ AmountsDecided
  /\ BackedByApproval
  /\ PayoutsApproved
  /\ AdjustmentTold
  /\ ConsumedOnce
=============================================================================
