------------------------------ MODULE Commerce ------------------------------
(***************************************************************************)
(* CustomerService, OrderService and the quotes of BillingService: who     *)
(* buys, what is ordered and at which price it was offered.                *)
(*                                                                         *)
(* A customer's code, registration and VAT number are unique by an index   *)
(* that counts deleted customers, too, while the service asks for live     *)
(* ones only.  Cancelling an order tells, in the same transaction, whether *)
(* its work has to be compensated.                                         *)
(***************************************************************************)
EXTENDS OptimisticRows

CONSTANTS
  Customers, Orders, Quotes, Users,
  Numbers,         \* entries of the index of codes, registrations, VAT numbers
  Cancellations,   \* OrderCancelled events in the event store
  Prices           \* amounts of a quote

ASSUME CommerceAssumption ==
  /\ UNION {Customers, Orders, Quotes, Users, Numbers, Cancellations} \subseteq Ids
  /\ (Numbers \cup Cancellations) \cap Unversioned = {}
  /\ Prices \subseteq Nat

CustomerTransitions ==
  [active |-> {"suspended", "inactive"}, suspended |-> {"active", "inactive"},
   inactive |-> {"active"}]

OrderTransitions ==
  [draft |-> {"submitted", "cancelled"},
   submitted |-> {"approved", "cancelled", "failed"},
   approved |-> {"scheduled", "cancelled", "failed"},
   scheduled |-> {"assigned", "cancelled", "failed"},
   assigned |-> {"in_transit", "cancelled", "failed"},
   in_transit |-> {"delivered", "cancelled", "failed"},
   delivered |-> {}, cancelled |-> {}, failed |-> {}]

TerminalOrders == {"delivered", "cancelled", "failed"}

\* requires_compensation
RequiresCompensation(previous) == previous \in {"assigned", "in_transit"}

QuoteTransitions ==
  [draft |-> {"issued"}, issued |-> {"approved", "rejected", "expired", "cancelled"},
   approved |-> {"cancelled"}, rejected |-> {}, expired |-> {}, cancelled |-> {}]

TerminalQuotes == {"rejected", "expired", "cancelled"}

\* number: the unique one of its numbers we look at.
CustomerRows == [status : DOMAIN CustomerTransitions, deleted : BOOLEAN,
                 number : Numbers \cup {None}]

\* stamps: the statuses whose time was noted (submitted_at and so on).
OrderRows == [status : DOMAIN OrderTransitions, deleted : BOOLEAN,
              customer : Customers, dispatcher : Users \cup {None},
              stamps : SUBSET DOMAIN OrderTransitions]

\* price: subtotal and tax; dated: valid_until is set, so it can pass.
QuoteRows == [status : DOMAIN QuoteTransitions, deleted : {FALSE}, dated : BOOLEAN,
              price : Prices, discount : Prices, total : Nat]

UserRows == [status : {"user"}, deleted : BOOLEAN]

EntryRows == [status : {"entry"}, deleted : {FALSE}, of : Customers]

CancellationRows == [status : {"told"}, deleted : {FALSE}, order : Orders,
                     compensate : BOOLEAN]

-----------------------------------------------------------------------------
(* Customers *)

\* get_by_code, get_by_commercial_registration, get_by_vat_number
Held(n) == \E c \in Among(Customers) : Live(c) /\ db[c].number = n

\* The service finds nobody with this number, and so does the index, which knows
\* the deleted customers, too: it refuses what the service let pass.
Free(n) == n # None => ~Held(n) /\ ~Exists(n)

\* In any status; registration and VAT number are optional.
CreateCustomer(r) ==
  /\ Asked(r, "create_customer")
  /\ \E c \in Among(Customers), n \in Among(Numbers) \cup {None},
        status \in DOMAIN CustomerTransitions :
       /\ Fresh(c)
       /\ Free(n)
       /\ Prepare(r, Plan("create_customer",
            [x \in {c} \cup ({n} \ {None}) |->
               IF x = n THEN Entry(c)
               ELSE [status |-> status, deleted |-> FALSE, number |-> n]],
            Idle))

\* With a new number the index entry moves; a number is never taken away.
UpdateCustomer(r) ==
  /\ Asked(r, "update_customer")
  /\ \E c \in Among(Customers), n \in Among(Numbers) :
       /\ Live(c)
       /\ IF n = db[c].number THEN Write(r, "update_customer", c, db[c])
          ELSE /\ Free(n)
               /\ Prepare(r, Plan("update_customer",
                    [x \in Among({c, n, db[c].number}) |->
                       CASE x = n -> Entry(c)
                         [] x = c -> [db[c] EXCEPT !.number = n]
                         [] OTHER -> Absent],
                    Idle))

CustomerOperations ==
  [activate_customer |-> "active", suspend_customer |-> "suspended",
   deactivate_customer |-> "inactive"]

CustomerTransition(r) ==
  \E op \in DOMAIN CustomerOperations, c \in Among(Customers) :
    /\ Asked(r, op)
    /\ Transition(r, op, c, CustomerTransitions, CustomerOperations[op], db[c])

\* Fault: the index leaves deleted customers out.
DeleteCustomerFault(r) ==
  /\ Asked(r, "delete_customer")
  /\ \E c \in Among(Customers) :
       /\ Live(c)
       /\ Prepare(r, Plan("delete_customer",
            [x \in Among({c, db[c].number}) |->
               IF x = c THEN [db[c] EXCEPT !.deleted = TRUE] ELSE Absent], Idle))

\* Whatever is still ordered for the customer.
DeleteCustomer(r) ==
  /\ Asked(r, "delete_customer")
  /\ \E c \in Among(Customers) : SoftDelete(r, "delete_customer", c)

\* Nothing is asked about the number it comes back with.
RestoreCustomer(r) ==
  /\ Asked(r, "restore_customer")
  /\ \E c \in Among(Customers) : Undelete(r, "restore_customer", c)

-----------------------------------------------------------------------------
(* Orders *)

\* The customer's status is not looked at.
CreateOrder(r) ==
  /\ Asked(r, "create_order")
  /\ \E o \in Among(Orders), c \in Among(Customers) :
       /\ Owned(c)
       /\ Insert(r, "create_order", o,
                 [status |-> "draft", deleted |-> FALSE, customer |-> c,
                  dispatcher |-> None, stamps |-> {}])

UpdateOrder(r) ==
  /\ Asked(r, "update_order")
  /\ \E o \in Among(Orders) :
       /\ Live(o)
       /\ db[o].status \notin TerminalOrders
       /\ Write(r, "update_order", o, db[o])

OrderOperations ==
  [submit_order |-> "submitted", approve_order |-> "approved",
   schedule_order |-> "scheduled", start_transit_order |-> "in_transit",
   deliver_order |-> "delivered", fail_order |-> "failed"]

Stamped(o, target) == [db[o] EXCEPT !.stamps = @ \cup {target}]

OrderTransition(r) ==
  \E op \in DOMAIN OrderOperations, o \in Among(Orders) :
    /\ Asked(r, op)
    /\ Transition(r, op, o, OrderTransitions, OrderOperations[op],
                  Stamped(o, OrderOperations[op]))

AssignOrder(r) ==
  /\ Asked(r, "assign_order")
  /\ \E o \in Among(Orders), u \in Among(Users) :
       /\ Owned(u)
       /\ Transition(r, "assign_order", o, OrderTransitions, "assigned",
                     [Stamped(o, "assigned") EXCEPT !.dispatcher = u])

\* Fault: the flag is taken from the status the order has by now.
CancelOrderFault(r) ==
  /\ Asked(r, "cancel_order")
  /\ \E o \in Among(Orders), e \in Among(Cancellations) :
       /\ Live(o)
       /\ "cancelled" \in OrderTransitions[db[o].status]
       /\ Fresh(e)
       /\ Prepare(r, Plan("cancel_order",
            [x \in {o, e} |->
               IF x = o THEN [Stamped(o, "cancelled") EXCEPT !.status = "cancelled"]
               ELSE [status |-> "told", deleted |-> FALSE, order |-> o,
                     compensate |-> RequiresCompensation("cancelled")]],
            Idle))

\* The row and the event are committed together.
CancelOrder(r) ==
  /\ Asked(r, "cancel_order")
  /\ \E o \in Among(Orders), e \in Among(Cancellations) :
       /\ Live(o)
       /\ "cancelled" \in OrderTransitions[db[o].status]
       /\ Fresh(e)
       /\ Prepare(r, Plan("cancel_order",
            [x \in {o, e} |->
               IF x = o THEN [Stamped(o, "cancelled") EXCEPT !.status = "cancelled"]
               ELSE [status |-> "told", deleted |-> FALSE, order |-> o,
                     compensate |-> RequiresCompensation(db[o].status)]],
            Idle))

DeleteOrder(r) ==
  /\ Asked(r, "delete_order")
  /\ \E o \in Among(Orders) : SoftDelete(r, "delete_order", o)

\* Fault: what comes back starts again.
RestoreOrderFault(r) ==
  /\ Asked(r, "restore_order")
  /\ \E o \in Among(Orders) :
       /\ db[o].deleted
       /\ Write(r, "restore_order", o, [db[o] EXCEPT !.deleted = FALSE, !.status = "draft"])

RestoreOrder(r) ==
  /\ Asked(r, "restore_order")
  /\ \E o \in Among(Orders) : Undelete(r, "restore_order", o)

\* A dispatcher's account; no service deletes one, but the row has the flag.
CreateUser(r) ==
  /\ Asked(r, "create_user")
  /\ \E u \in Among(Users) : Insert(r, "create_user", u, [status |-> "user", deleted |-> FALSE])

-----------------------------------------------------------------------------
(* Quotes *)

\* validate_customer_reference
ValidCustomer(c) == c # None => Owned(c)

\* For a live customer, where customers are looked at.
CreateQuote(r) ==
  /\ Asked(r, "create_quote")
  /\ \E q \in Among(Quotes), c \in Among(Customers) \cup {None}, dated \in BOOLEAN,
        price, discount \in Prices :
       /\ ValidCustomer(c)
       /\ discount <= price
       /\ Insert(r, "create_quote", q,
                 [status |-> "draft", deleted |-> FALSE, dated |-> dated, price |-> price,
                  discount |-> discount, total |-> price - discount])

QuoteOperations ==
  [issue_quote |-> "issued", reject_quote |-> "rejected", expire_quote |-> "expired",
   cancel_quote |-> "cancelled"]

QuoteTransition(r) ==
  \E op \in DOMAIN QuoteOperations, q \in Among(Quotes) :
    /\ Asked(r, op)
    /\ Transition(r, op, q, QuoteTransitions, QuoteOperations[op], db[q])

\* inTime: the day of a dated quote has not passed when it is asked for.
ApproveQuote(r) ==
  /\ Asked(r, "approve_quote")
  /\ \E q \in Among(Quotes), inTime \in BOOLEAN :
       /\ db[q] # Absent /\ db[q].dated => inTime
       /\ Transition(r, "approve_quote", q, QuoteTransitions, "approved", db[q])

\* Fault: the total is left as it was.
UpdateQuoteFault(r) ==
  /\ Asked(r, "update_quote")
  /\ \E q \in Among(Quotes), price, discount \in Prices :
       /\ Live(q)
       /\ db[q].status \notin TerminalQuotes
       /\ discount <= price
       /\ Write(r, "update_quote", q, [db[q] EXCEPT !.price = price, !.discount = discount])

\* Also of an approved quote.  That the total is not negative is left to the check
\* constraint of the table.
UpdateQuote(r) ==
  /\ Asked(r, "update_quote")
  /\ \E q \in Among(Quotes), price, discount \in Prices, dated \in BOOLEAN :
       /\ Live(q)
       /\ db[q].status \notin TerminalQuotes
       /\ discount <= price
       /\ Write(r, "update_quote", q,
                [db[q] EXCEPT !.price = price, !.discount = discount,
                              !.total = price - discount, !.dated = @ \/ dated])

\* By the routes that lead to them: customers (deactivate_customer has none yet),
\* orders, quotes.
CustomerStep(r) ==
  \/ CreateCustomer(r) \/ UpdateCustomer(r) \/ CustomerTransition(r)
  \/ DeleteCustomer(r) \/ RestoreCustomer(r)

OrderStep(r) ==
  \/ CreateOrder(r) \/ UpdateOrder(r) \/ OrderTransition(r) \/ AssignOrder(r)
  \/ CancelOrder(r) \/ DeleteOrder(r) \/ RestoreOrder(r)

QuoteStep(r) ==
  CreateQuote(r) \/ QuoteTransition(r) \/ ApproveQuote(r) \/ UpdateQuote(r)

CommerceStep(r) == CustomerStep(r) \/ OrderStep(r) \/ QuoteStep(r) \/ CreateUser(r)

-----------------------------------------------------------------------------
(* Properties *)

CommerceTyped ==
  /\ \A c \in Among(Customers) : Exists(c) => db[c] \in CustomerRows
  /\ \A n \in Among(Numbers) : Exists(n) => db[n] \in EntryRows
  /\ \A o \in Among(Orders) : Exists(o) => db[o] \in OrderRows
  /\ \A u \in Among(Users) : Exists(u) => db[u] \in UserRows
  /\ \A q \in Among(Quotes) : Exists(q) => db[q] \in QuoteRows
  /\ \A e \in Among(Cancellations) : Exists(e) => db[e] \in CancellationRows

\* The index holds exactly the numbers of the customers, deleted ones included.
IndexAgrees ==
  /\ \A c \in Among(Customers) : Exists(c) /\ db[c].number # None =>
       /\ db[c].number \in Among(Numbers)
       /\ Exists(db[c].number)
       /\ db[db[c].number].of = c
  /\ \A n \in Among(Numbers) : Exists(n) => Exists(db[n].of) /\ db[db[n].of].number = n

\* No two customers of a tenant, live, deleted or restored, have the same number
\* (docs/03: codes, registrations and VAT numbers are unique per tenant), though
\* the service asks before others commit and asks for live ones only.
NumbersDistinct ==
  \A c, d \in Among(Customers) :
    Exists(c) /\ Exists(d) /\ db[c].number = db[d].number /\ db[c].number # None => c = d

Stages == <<"submitted", "approved", "scheduled", "assigned", "in_transit", "delivered">>

Failures == {"cancelled", "failed"}

\* docs/18: an order went through every stage before the one it is in, at the time
\* noted for it, and it has a dispatcher from the stage of assignment on.
StagesStamped ==
  \A o \in Among(Orders) : Exists(o) =>
    \E i \in 0..6 :
      /\ db[o].stamps \ Failures = {Stages[j] : j \in 1..i}
      /\ db[o].stamps \cap Failures = {db[o].status} \cap Failures
      /\ db[o].status \in Failures \cup {IF i = 0 THEN "draft" ELSE Stages[i]}
      /\ i >= 4 <=> db[o].dispatcher # None

\* docs/18 section on cancellation: a cancelled order is announced exactly once, and
\* compensation is asked for if and only if the order had been assigned, whatever
\* transitions raced with the cancellation.
CompensationTold ==
  /\ \A o \in Among(Orders) : Exists(o) /\ db[o].status = "cancelled" =>
       \E e \in Among(Cancellations) : Exists(e) /\ db[e].order = o
  /\ \A e \in Among(Cancellations) : Exists(e) =>
       /\ db[db[e].order].status = "cancelled"
       /\ db[e].compensate <=> db[db[e].order].dispatcher # None
       /\ \A f \in Among(Cancellations) :
            Exists(f) /\ db[f].order = db[e].order => f = e

\* docs/23 section 3: the total of a quote is what its parts come to.
QuotesAddUp ==
  \A q \in Among(Quotes) : Exists(q) => db[q].total + db[q].discount = db[q].price

CommerceInv == CommerceTyped /\ IndexAgrees /\ StagesStamped /\ QuotesAddUp

\* What came to its end stays there, whoever had loaded it before: a terminal order
\* can only be deleted and restored, a terminal quote not even that.
EndedStaysEnded ==
  [][/\ \A o \in Among(Orders) :
          db[o].status \in TerminalOrders => [db'[o] EXCEPT !.deleted = db[o].deleted] = db[o]
     /\ \A q \in Among(Quotes) : db[q].status \in TerminalQuotes => db'[q] = db[q]]_rows
=============================================================================
