---------------------------- MODULE MCBackOffice -----------------------------
(* Rows for TLC, which of them are looked at together, and who does what.    *)
EXTENDS BackOffice, TLC

CONSTANTS p1, u1, c1, d1, l1, l2, l3, s1, s2, o1, i1, e1, e2,
          k1, k2, n1, n2, v1, w1, x1, q1, r1, r2

MCIds == {p1, u1, c1, d1, l1, l2, l3, s1, s2, o1, i1, e1, e2, k1, k2, n1, n2, v1, w1, x1, q1}

PolicyCalls == {"create_policy", "update_policy"} \cup DOMAIN PolicyOperations

ClaimCalls == {"create_claim", "review_claim", "reopen_claim", "approve_claim",
               "reject_claim", "settle_claim", "close_claim", "update_claim",
               "delete_claim", "restore_claim"}

SettlementCalls == {"create_settlement", "submit_settlement", "approve_settlement",
                    "settle_settlement", "cancel_settlement", "update_settlement"}

CustomerCalls == {"create_customer", "update_customer", "delete_customer",
                  "restore_customer"} \cup DOMAIN CustomerOperations

OrderCalls == {"create_order", "update_order", "assign_order", "cancel_order",
               "delete_order", "restore_order"} \cup DOMAIN OrderOperations

QuoteCalls == {"create_quote", "approve_quote", "update_quote"} \cup DOMAIN QuoteOperations

\* A policy and its rule; a claim under a policy; a claim and its liability
\* shares; a settlement of a claim with its payout; two settlements against one
\* invoice; two customers and two numbers; an order of a customer with a dispatcher
\* and the announcement of its cancellation; a quote.
Cover == {p1, u1}
Claiming == {p1, c1, d1}
Liability == {c1, l1, l2, l3}
Paying == {p1, c1, s1, o1}
Adjusting == {p1, c1, s1, s2, i1, e1, e2}

Registering == {k1, k2, n1, n2}
Ordering == {k1, n1, v1, w1, x1}
Quoting == {q1}

MCScopes == {Registering, Ordering, Quoting, Cover, Claiming, Liability, Paying, Adjusting}

\* Both clients record liability, while one of them also works on the claim.
Calls(r, scope) ==
  CASE scope = Cover -> PolicyCalls \cup {"create_rule", "update_rule"}
    [] scope = Claiming -> IF r = r1 THEN ClaimCalls \cup {"create_report"}
                           ELSE PolicyCalls \cup {"approve_claim", "update_claim"}
    [] scope = Liability -> IF r = r1 THEN {"create_liability"}
                            ELSE {"create_liability", "create_claim", "review_claim",
                                  "reject_claim", "delete_claim", "restore_claim"}
    [] scope = Paying -> {"create_policy", "activate_policy", "create_claim", "review_claim",
                          "approve_claim", "settle_claim", "create_payout"}
                         \cup SettlementCalls
    [] scope = Adjusting -> {"create_policy", "activate_policy", "create_claim", "review_claim",
                             "approve_claim", "consume", "update_settlement",
                             "create_invoice", "finalise_invoice"}
    [] scope = Registering -> CustomerCalls
    [] scope = Ordering -> IF r = r1 THEN OrderCalls
                           ELSE OrderCalls \cup {"create_customer", "delete_customer",
                                                  "create_user"}
    [] scope = Quoting -> QuoteCalls

CallsTable == [r \in {r1, r2}, scope \in MCScopes |-> Calls(r, scope)]

MCCallsOf(r, scope) == CallsTable[r, scope]

Symmetry == Permutations({l1, l2, l3}) \cup Permutations({s1, s2}) \cup Permutations({e1, e2})
            \cup Permutations({k1, k2}) \cup Permutations({n1, n2})
=============================================================================
