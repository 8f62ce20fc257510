---------------------------- MODULE Projections -----------------------------
(***************************************************************************)
(* ProjectionService: the read models that are counted from the events.    *)
(*                                                                         *)
(* A relay applies one event in one transaction: it loads the row of each  *)
(* projection the event feeds (or makes one), counts in memory, and        *)
(* flushes the columns that changed, together with the mark that the       *)
(* consumer "analytics" has seen the event.  A handler that fails is run   *)
(* again from the rows as they are then; one that keeps failing, and an    *)
(* event that cannot be read, is marked and gets a dead letter, uncounted. *)
(* The rows have no version: what another relay counted in between is      *)
(* overwritten.  Nor does the mark keep a second relay from counting: it   *)
(* is looked up before the handler runs, and looked up once more when it   *)
(* is to be set, where a mark that is there is left as it is.  The unique  *)
(* keys only stop two relays that insert at the same time (Fail).          *)
(*                                                                         *)
(* An administrator's rebuild loads all events of the store, published or  *)
(* not, deletes the rows, counts anew in the order of the log and commits. *)
(* It knows nothing of the marks.  From the delete to the commit it holds  *)
(* the rows, so the two are one step; a relay that had loaded the old rows *)
(* updates none and fails.                                                 *)
(*                                                                         *)
(* One tenant, one period, one currency; every amount is 1.  Averages and  *)
(* the health rows are left out.                                           *)
(***************************************************************************)
EXTENDS Integers, FiniteSets

CONSTANTS
  LastEvent,     \* events are numbered as they are ordered in the log
  TypeOf,        \* event -> its type
  SubjectOf,     \* event -> claim, invoice, shipment ... it is of
  Relays,
  Scenarios      \* sets of events, relays and a number of rebuilds looked at

Events == 1..LastEvent

\* InvoiceStateMachine: an invoice is paid once, and was issued before.
PaidWereIssued(events) ==
  \A e \in events : TypeOf[e] = "InvoicePaid" =>
    /\ \E i \in events : i < e /\ TypeOf[i] = "InvoiceIssued" /\ SubjectOf[i] = SubjectOf[e]
    /\ \A f \in events : TypeOf[f] = "InvoicePaid" /\ SubjectOf[f] = SubjectOf[e] => f = e

ASSUME ProjectionsAssumption ==
  /\ LastEvent \in Nat
  /\ DOMAIN TypeOf = Events /\ DOMAIN SubjectOf = Events
  /\ \A s \in Scenarios : /\ s.events \subseteq Events /\ PaidWereIssued(s.events)
                          /\ s.relays \subseteq Relays /\ IsFiniteSet(s.relays)
                          /\ s.rebuilds \in Nat

VARIABLES
  scenario,   \* what is looked at in this behaviour
  emitted,    \* event_store
  marked,     \* processed_events of the consumer "analytics"
  letters,    \* events that dead_letter_events holds for it
  tables,     \* projection -> its row
  incarnation,  \* projection -> how often its row was made anew
  relay,      \* relay -> the event it is applying
  rebuild,    \* the administrator's request
  overlapped  \* events that two relays had in hand at once (history)

store == <<marked, letters, tables, incarnation>>
vars == <<scenario, emitted, store, relay, rebuild, overlapped>>

-----------------------------------------------------------------------------
(* Which event counts where: projection -> event type -> column *)

ShipmentCounters ==
  [ShipmentCreated |-> "total", ShipmentAssigned |-> "assigned",
   ShipmentInTransit |-> "in_transit", ShipmentDelayed |-> "delayed",
   ShipmentDelivered |-> "delivered", ShipmentFailed |-> "failed",
   ShipmentReturned |-> "returned", ShipmentCancelled |-> "cancelled"]

FinancialCounters ==
  [QuoteCreated |-> "quotes", QuoteApproved |-> "approved_quotes", InvoiceIssued |-> "gross",
   InvoicePaid |-> "paid", InvoiceOverdue |-> "overdue", PaymentRecorded |-> "collected",
   SettlementSettled |-> "settlements", PenaltyApplied |-> "penalties",
   ClaimSettlementConsumed |-> "adjustments"]

ClaimCounters ==
  [ClaimCreated |-> "total", ClaimApproved |-> "approved", ClaimRejected |-> "rejected",
   ClaimSettled |-> "settled"]

ComplianceCounters ==
  [PermitCreated |-> "created", PermitApproved |-> "approved", PermitRejected |-> "rejected",
   PermitExpired |-> "expired", DispatchBlockedByCompliance |-> "blocks",
   DispatchClearedByCompliance |-> "clears", ComplianceCheckFailed |-> "failures",
   ComplianceOverrideApplied |-> "overrides"]

NotificationCounters ==
  [NotificationCreated |-> "total", NotificationSent |-> "sent",
   NotificationFailed |-> "failed", NotificationRead |-> "read",
   NotificationRetried |-> "retried"]

\* The dashboard goes up and down, never below zero.
Raises ==
  [ShipmentCreated |-> "active_shipments", ShipmentDelayed |-> "delayed_shipments",
   ClaimCreated |-> "open_claims", InvoiceIssued |-> "outstanding_invoices",
   PaymentRecorded |-> "collected", DispatchBlockedByCompliance |-> "compliance_blocks",
   NotificationCreated |-> "unread_urgent"]

Lowers ==
  [ShipmentDelivered |-> "active_shipments", ShipmentFailed |-> "active_shipments",
   ShipmentReturned |-> "active_shipments", ShipmentCancelled |-> "active_shipments",
   ClaimSettled |-> "open_claims", ClaimRejected |-> "open_claims",
   ClaimClosed |-> "open_claims", InvoicePaid |-> "outstanding_invoices",
   DispatchClearedByCompliance |-> "compliance_blocks", NotificationRead |-> "unread_urgent"]

Counters ==
  [shipment_performance |-> ShipmentCounters, financial_summary |-> FinancialCounters,
   claims_metrics |-> ClaimCounters, compliance_metrics |-> ComplianceCounters,
   notification_deliverability |-> NotificationCounters]

AgingEvents == {"InvoiceCreated", "InvoiceIssued", "InvoicePartiallyPaid", "InvoicePaid",
                "InvoiceOverdue", "PaymentRecorded"}

Projections == DOMAIN Counters \cup {"ar_aging", "operations_dashboard"}

Values(f) == {f[x] : x \in DOMAIN f}

\* Columns computed from others.
Derived ==
  [p \in Projections |->
     CASE p = "financial_summary" -> {"net_receivable"}
       [] p = "claims_metrics" -> {"open_claims"}
       [] OTHER -> {}]

Columns ==
  [p \in Projections |->
     CASE p = "ar_aging" -> {"outstanding"}
       [] p = "operations_dashboard" -> Values(Raises) \cup Values(Lowers)
       [] OTHER -> Values(Counters[p]) \cup Derived[p]]

Fed(p) == {e \in Events : CASE p = "ar_aging" -> TypeOf[e] \in AgingEvents
                            [] p = "operations_dashboard" ->
                                 TypeOf[e] \in DOMAIN Raises \cup DOMAIN Lowers
                            [] OTHER -> TypeOf[e] \in DOMAIN Counters[p]}

FeedsOn(e) == {p \in Projections : e \in Fed(p)}

-----------------------------------------------------------------------------
(* Counting *)

Clamp0(n) == IF n > 0 THEN n ELSE 0

NewRow(p) == [c \in Columns[p] |-> 0]

Absent == [absent |-> TRUE]

\* Read-through: the invoices as they are, which is as far as events were emitted.
Outstanding ==
  Cardinality({e \in emitted : TypeOf[e] = "InvoiceIssued"})
    - Cardinality({e \in emitted : TypeOf[e] = "InvoicePaid"})

\* A derived column follows the row the request has in memory.
WithDerived(p, row) ==
  CASE p = "financial_summary" -> [row EXCEPT !.net_receivable = row.gross - row.collected]
    [] p = "claims_metrics" ->
         [row EXCEPT !.open_claims = Clamp0(row.total - row.settled - row.rejected)]
    [] OTHER -> row

CountedIn(row, e) ==
  LET type == TypeOf[e]
  IN IF type \in DOMAIN Raises THEN [row EXCEPT ![Raises[type]] = @ + 1]
     ELSE [row EXCEPT ![Lowers[type]] = Clamp0(@ - 1)]

\* update_<projection>: the row with one more event.
Counted(p, row, e) ==
  CASE p = "ar_aging" -> [row EXCEPT !.outstanding = Outstanding]
    [] p = "operations_dashboard" -> CountedIn(row, e)
    [] OTHER -> WithDerived(p, [row EXCEPT ![Counters[p][TypeOf[e]]] = @ + 1])

\* The events counted one after the other, in the order of the log.
Replayed(p, start, events) ==
  LET after[n \in 0..LastEvent] ==
        IF n = 0 THEN start
        ELSE IF n \in events \cap Fed(p) THEN Counted(p, after[n - 1], n)
        ELSE after[n - 1]
  IN after[LastEvent]

-----------------------------------------------------------------------------
(* The relays *)

Idle == [pc |-> "idle"]

Init ==
  /\ scenario \in Scenarios
  /\ emitted = {} /\ marked = {} /\ letters = {} /\ overlapped = {}
  /\ tables = [p \in Projections |-> Absent]
  /\ incarnation = [p \in Projections |-> 0]
  /\ relay = [r \in Relays |-> Idle]
  /\ rebuild = [pc |-> "idle", left |-> scenario.rebuilds]

\* The service of the subject commits its next event.
Emit(e) ==
  /\ e \in scenario.events \ emitted
  /\ \A f \in scenario.events : f < e /\ SubjectOf[f] = SubjectOf[e] => f \in emitted
  /\ emitted' = emitted \cup {e}
  /\ UNCHANGED <<scenario, store, relay, rebuild, overlapped>>

\* The row a handler starts from: the one that is there, or one it makes.
Start(p, row) == IF row = Absent THEN NewRow(p) ELSE row

Loaded(p) == Start(p, tables[p])

\* The dispatcher finds no mark of the event.  Events that failed are passed over, so
\* that any may be next.
Take(r, e) ==
  /\ r \in scenario.relays /\ relay[r] = Idle
  /\ e \in emitted \ marked
  /\ relay' = [relay EXCEPT ![r] = [pc |-> "taken", event |-> e]]
  /\ overlapped' = overlapped
       \cup {f \in {e} : \E q \in Relays : relay[q] # Idle /\ relay[q].event = f}
  /\ UNCHANGED <<scenario, emitted, store, rebuild>>

\* The handler loads the rows, which another relay may have written since, and counts.
Apply(r) ==
  LET e == relay[r].event
  IN /\ relay[r].pc = "taken"
     /\ relay' = [relay EXCEPT ![r] =
          [pc |-> "applying", event |-> e, was |-> [p \in FeedsOn(e) |-> tables[p]],
           row |-> [p \in FeedsOn(e) |-> Counted(p, Loaded(p), e)],
           of |-> [p \in FeedsOn(e) |-> incarnation[p]]]]
     /\ UNCHANGED <<scenario, emitted, store, rebuild, overlapped>>

\* The handler fails (a row another relay made first or a rebuild deleted, an error):
\* its savepoint is undone and it runs again.  The mark is not asked for again.
Retry(r) ==
  /\ relay[r].pc = "applying"
  /\ relay' = [relay EXCEPT ![r] = [pc |-> "taken", event |-> relay[r].event]]
  /\ UNCHANGED <<scenario, emitted, store, rebuild, overlapped>>

\* The rows that are written: those that are new or changed.
Flushed(held) == {p \in FeedsOn(held.event) : held.row[p] # held.was[p]}

\* Of a row that is there only the columns that changed are written.
Merged(old, was, row) ==
  [c \in DOMAIN row |-> IF old # Absent /\ row[c] = was[c] THEN old[c] ELSE row[c]]

\* flush, mark_processed and commit.
Publish(r) ==
  LET e == relay[r].event
      flushed == Flushed(relay[r])
  IN /\ relay[r].pc = "applying"
     /\ \A p \in flushed : relay[r].of[p] = incarnation[p]
     /\ tables' = [p \in Projections |->
          IF p \in flushed THEN Merged(tables[p], relay[r].was[p], relay[r].row[p])
          ELSE tables[p]]
     /\ incarnation' = [p \in Projections |->
          IF p \in flushed /\ tables[p] = Absent THEN incarnation[p] + 1
          ELSE incarnation[p]]
     /\ marked' = marked \cup {e}
     /\ relay' = [relay EXCEPT ![r] = Idle]
     /\ UNCHANGED <<scenario, emitted, letters, rebuild, overlapped>>

\* Fault: what the failed handler counted is kept.
DeadLetterFault(r) ==
  /\ relay[r].pc \in {"taken", "applying"}
  /\ letters' = letters \cup {relay[r].event}
  /\ marked' = marked \cup {relay[r].event}
  /\ tables' = [p \in Projections |->
       IF relay[r].pc = "applying" /\ p \in FeedsOn(relay[r].event) THEN relay[r].row[p]
       ELSE tables[p]]
  /\ relay' = [relay EXCEPT ![r] = Idle]
  /\ UNCHANGED <<scenario, emitted, incarnation, rebuild, overlapped>>

\* The event cannot be read, or the retries are used up: nothing is counted, and the
\* event is marked with its dead letter so that it is not delivered again.
DeadLetter(r) ==
  /\ relay[r].pc \in {"taken", "applying"}
  /\ letters' = letters \cup {relay[r].event}
  /\ marked' = marked \cup {relay[r].event}
  /\ relay' = [relay EXCEPT ![r] = Idle]
  /\ UNCHANGED <<scenario, emitted, tables, incarnation, rebuild, overlapped>>

\* A conflict of keys at the commit, an error of another handler, a crash: nothing is
\* written; the event is tried again.
Fail(r) ==
  /\ relay[r] # Idle
  /\ relay' = [relay EXCEPT ![r] = Idle]
  /\ UNCHANGED <<scenario, emitted, store, rebuild, overlapped>>

-----------------------------------------------------------------------------
(* Rebuilds *)

\* rebuild_all_projections or rebuild_projection: the events are loaded first.
StartRebuild ==
  /\ rebuild.pc = "idle" /\ rebuild.left > 0
  /\ \E ps \in {Projections} \cup {{p} : p \in Projections} :
       rebuild' = [pc |-> "loaded", left |-> rebuild.left - 1, of |-> ps, events |-> emitted]
  /\ UNCHANGED <<scenario, emitted, store, relay, overlapped>>

\* Fault: the rows are not deleted first.
RebuiltRowFault(p, events) == Replayed(p, Loaded(p), events)

RebuiltRow(p, events) == Replayed(p, NewRow(p), events)

\* The delete, the count and the commit.  A projection without an event has no row.
CommitRebuild ==
  /\ rebuild.pc = "loaded"
  /\ tables' = [p \in Projections |->
       IF p \notin rebuild.of THEN tables[p]
       ELSE IF rebuild.events \cap Fed(p) = {} THEN Absent
       ELSE RebuiltRow(p, rebuild.events)]
  /\ incarnation' = [p \in Projections |->
       IF p \in rebuild.of /\ {tables[p], tables'[p]} # {Absent} THEN incarnation[p] + 1
       ELSE incarnation[p]]
  /\ rebuild' = [pc |-> "idle", left |-> rebuild.left]
  /\ UNCHANGED <<scenario, emitted, marked, letters, relay, overlapped>>

AbortRebuild ==
  /\ rebuild.pc = "loaded"
  /\ rebuild' = [pc |-> "idle", left |-> rebuild.left]
  /\ UNCHANGED <<scenario, emitted, store, relay, overlapped>>

Next ==
  \/ \E e \in Events : Emit(e)
  \/ \E r \in Relays : \/ \E e \in Events : Take(r, e)
                       \/ Apply(r) \/ Retry(r) \/ Publish(r) \/ DeadLetter(r) \/ Fail(r)
  \/ StartRebuild \/ CommitRebuild \/ AbortRebuild

Spec == Init /\ [][Next]_vars

-----------------------------------------------------------------------------
(* Properties *)

\* What a counter would be if each of these events were counted once.
Tally(p, c, events) ==
  Cardinality({e \in events : TypeOf[e] \in DOMAIN Counters[p] /\ Counters[p][TypeOf[e]] = c})

Value(p, c) == IF tables[p] = Absent THEN 0 ELSE tables[p][c]

Counts(p) == Values(Counters[p])

\* The events that were marked by a handler that counted them.
Applied == marked \ letters

\* docs/25 section 7: the mark keeps an event from being counted twice.  As long as
\* nobody rebuilds, no counter is above the number of events that were published and
\* not given up, however relays overwrite each other, unless two of them had one of
\* its events in hand at once.  A single relay counts each of them once whatever
\* fails, keeps the derived columns in step, in whatever order events that failed are
\* taken up again, and shows at least the invoices outstanding by them.
LiveCounts ==
  scenario.rebuilds = 0 =>
    /\ \A p \in DOMAIN Counters : \A c \in Counts(p) :
         Tally(p, c, overlapped) = 0 => Value(p, c) <= Tally(p, c, Applied)
    /\ Cardinality(scenario.relays) = 1 =>
         /\ \A p \in DOMAIN Counters : \A c \in Counts(p) : Value(p, c) = Tally(p, c, Applied)
         /\ Value("claims_metrics", "open_claims")
              = Clamp0(Tally("claims_metrics", "total", Applied)
                       - Tally("claims_metrics", "settled", Applied)
                       - Tally("claims_metrics", "rejected", Applied))
         /\ Value("operations_dashboard", "outstanding_invoices")
              >= Tally("financial_summary", "gross", Applied)
                 - Tally("financial_summary", "paid", Applied)

\* docs/25 section 6: the delete and the replay give the same result however often
\* they run: what a rebuild leaves is counted from the events it loaded, each of
\* them once, whatever relays and earlier rebuilds had left in the rows.  A counter
\* that was clamped because events were applied out of order is put right.
RebuiltFromLog ==
  [][rebuild.pc = "loaded" /\ tables' # tables /\ rebuild'.pc = "idle" =>
       /\ \A p \in rebuild.of \cap DOMAIN Counters : \A c \in Counts(p) :
            (IF tables'[p] = Absent THEN 0 ELSE tables'[p][c]) = Tally(p, c, rebuild.events)
       /\ "operations_dashboard" \in rebuild.of =>
            (IF tables'["operations_dashboard"] = Absent THEN 0
             ELSE tables'["operations_dashboard"].outstanding_invoices)
              = Tally("financial_summary", "gross", rebuild.events)
                - Tally("financial_summary", "paid", rebuild.events)]_vars

Settled == marked = emitted /\ letters = {} /\ \A r \in Relays : relay[r] = Idle

\* app/analytics/handlers.py:9 and docs/25:24, "effectively-once application": when
\* everything is published and nothing was given up, each counter is the number of its
\* events.
CountedOnce ==
  Settled /\ rebuild.pc = "idle" =>
    \A p \in DOMAIN Counters : \A c \in Counts(p) : Value(p, c) = Tally(p, c, emitted)
=============================================================================
