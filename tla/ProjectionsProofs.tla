------------------------- MODULE ProjectionsProofs --------------------------
(* Theorems about Projections: what the relays count and what a rebuild leaves. *)
EXTENDS Projections, FiniteSetTheorems, WellFoundedInduction, TLAPS

-----------------------------------------------------------------------------
(* The inductive invariant *)

\* The projections that are counted with plain counters.
Plain == DOMAIN Counters

RowsOf(p) == [Columns[p] -> Int]

\* Event e is one of those that column c counts.
CountsFor(p, c, e) == TypeOf[e] \in DOMAIN Counters[p] /\ Counters[p][TypeOf[e]] = c

\* Only the aging report reads the log when it counts; the others count in the row.
OwnCount(p, row, e) ==
  IF p = "operations_dashboard" THEN CountedIn(row, e)
  ELSE WithDerived(p, [row EXCEPT ![Counters[p][TypeOf[e]]] = @ + 1])

\* Events become part of the log in the order of their subject; a mark is only set
\* for an event that is in the log, and every dead letter comes with one.
LogInv ==
  /\ scenario \in Scenarios
  /\ emitted \subseteq scenario.events /\ marked \subseteq emitted
  /\ letters \subseteq marked /\ overlapped \subseteq emitted
  /\ \A e \in emitted, f \in scenario.events :
       f < e /\ SubjectOf[f] = SubjectOf[e] => f \in emitted

\* No event that counts in the column was in the hands of two relays at once.
Undisturbed(p, c) == Tally(p, c, overlapped) = 0

\* What a relay has in memory: rows it loaded, no further than what was applied, and
\* each of them with one more event counted.
Holding(held) ==
  held.pc = "applying" => \A p \in FeedsOn(held.event) \cap Plain :
    /\ held.was[p] = Absent \/ held.was[p] \in RowsOf(p)
    /\ held.row[p] = OwnCount(p, Start(p, held.was[p]), held.event)
    /\ \A c \in Counts(p) :
         Undisturbed(p, c) => Start(p, held.was[p])[c] <= Tally(p, c, Applied)

RelaysHold == \A r \in Relays : Holding(relay[r])

RowsAreRows == \A p \in Plain : tables[p] = Absent \/ tables[p] \in RowsOf(p)

NoneAbove ==
  \A p \in Plain : \A c \in Counts(p) : Undisturbed(p, c) => Value(p, c) <= Tally(p, c, Applied)

\* A relay that is alone holds the rows as they are.
HoldsCurrent(held) ==
  held.pc = "applying" => \A p \in FeedsOn(held.event) \ {"ar_aging"} :
    held.was[p] = tables[p] /\ held.row[p] = OwnCount(p, Loaded(p), held.event)

Dashboard == "operations_dashboard"

\* The columns that are derived or clamped are those the events say.
OpenClaims ==
  Value("claims_metrics", "open_claims")
    = Clamp0(Tally("claims_metrics", "total", Applied)
             - Tally("claims_metrics", "settled", Applied)
             - Tally("claims_metrics", "rejected", Applied))

OutstandingShown ==
  Value(Dashboard, "outstanding_invoices")
    >= Tally("financial_summary", "gross", Applied) - Tally("financial_summary", "paid", Applied)

AloneInv ==
  /\ overlapped = {}
  /\ \A r \in Relays : relay[r] # Idle => r \in scenario.relays /\ HoldsCurrent(relay[r])
  /\ tables[Dashboard] = Absent \/ tables[Dashboard] \in RowsOf(Dashboard)
  /\ \A p \in Plain : \A c \in Counts(p) : Value(p, c) = Tally(p, c, Applied)
  /\ OpenClaims
  /\ OutstandingShown

LiveInv ==
  scenario.rebuilds = 0 =>
    /\ rebuild = [pc |-> "idle", left |-> 0]
    /\ RelaysHold /\ RowsAreRows /\ NoneAbove
    /\ Cardinality(scenario.relays) = 1 => AloneInv

\* What a rebuild has loaded was the log at some time.
RebuildInv ==
  rebuild.pc = "loaded" =>
    /\ rebuild.events \subseteq scenario.events
    /\ \A e \in rebuild.events, f \in scenario.events :
         f < e /\ SubjectOf[f] = SubjectOf[e] => f \in rebuild.events

\* What a relay takes up is in the log; unless another has the same event in hand, or
\* had, it is not marked.
RelaysKnown ==
  /\ relay = [r \in Relays |-> relay[r]]
  /\ \A r \in Relays : relay[r] = Idle \/ relay[r].event \in emitted
  /\ \A r \in Relays : relay[r] # Idle /\ relay[r].event \notin overlapped =>
       /\ relay[r].event \notin marked
       /\ \A q \in Relays : relay[q] # Idle /\ relay[q].event = relay[r].event => q = r

IInv == LogInv /\ RelaysKnown /\ LiveInv /\ RebuildInv

-----------------------------------------------------------------------------
(* The tables of counters *)

\* The plain projections are among all of them.
LEMMA PlainNames ==
  /\ Plain = {"shipment_performance", "financial_summary", "claims_metrics",
              "compliance_metrics", "notification_deliverability"}
  /\ Projections = Plain \cup {"ar_aging", Dashboard}
  /\ Counters["shipment_performance"] = ShipmentCounters
  /\ Counters["financial_summary"] = FinancialCounters
  /\ Counters["claims_metrics"] = ClaimCounters
  /\ Counters["compliance_metrics"] = ComplianceCounters
  /\ Counters["notification_deliverability"] = NotificationCounters
BY DEF Plain, Counters, Projections, Dashboard

\* A plain projection has a column for each of its counters and the derived ones.
LEMMA PlainColumns ==
  ASSUME NEW p \in Plain
  PROVE  /\ Columns[p] = Counts(p) \cup Derived[p]
         /\ Derived[p] = IF p = "financial_summary" THEN {"net_receivable"}
                         ELSE IF p = "claims_metrics" THEN {"open_claims"} ELSE {}
BY PlainNames DEF Columns, Derived, Counts, Dashboard

\* What each counter counts has a name of its own.
LEMMA CountNames ==
  /\ Counts("financial_summary") = {"quotes", "approved_quotes", "gross", "paid", "overdue",
                                    "collected", "settlements", "penalties", "adjustments"}
  /\ Counts("claims_metrics") = {"total", "approved", "rejected", "settled"}
  /\ \A p \in Plain : "absent" \notin Counts(p)
<1>1. Counts("financial_summary") = {"quotes", "approved_quotes", "gross", "paid", "overdue",
                                    "collected", "settlements", "penalties", "adjustments"}
  BY PlainNames DEF Counts, Values, FinancialCounters
<1>2. Counts("claims_metrics") = {"total", "approved", "rejected", "settled"}
  BY PlainNames DEF Counts, Values, ClaimCounters
<1>3. "absent" \notin Counts("shipment_performance")
  BY PlainNames DEF Counts, Values, ShipmentCounters
<1>4. "absent" \notin Counts("compliance_metrics")
  BY PlainNames DEF Counts, Values, ComplianceCounters
<1>5. "absent" \notin Counts("notification_deliverability")
  BY PlainNames DEF Counts, Values, NotificationCounters
<1> QED
  BY <1>1, <1>2, <1>3, <1>4, <1>5, PlainNames

\* A row is not the absence of one.
LEMMA RowsArePresent ==
  /\ \A p \in Plain : \A row \in RowsOf(p) : row # Absent
  /\ \A row \in RowsOf(Dashboard) : row # Absent
<1>1. DOMAIN Absent = {"absent"}
  BY DEF Absent
<1>2. \A p \in Plain : "absent" \notin Columns[p]
  BY PlainColumns, CountNames
<1>3. "absent" \notin Columns[Dashboard]
  BY DEF Columns, Projections, Dashboard, Values, Raises, Lowers
<1>4. \A p : \A row \in RowsOf(p) : DOMAIN row = Columns[p]
  BY DEF RowsOf
<1> QED
  BY <1>1, <1>2, <1>3, <1>4

-----------------------------------------------------------------------------
(* Counting *)

\* One more event raises the counter of its type by one and no other; derived
\* columns follow, and the row keeps its columns.
LEMMA CountedPlain ==
  ASSUME NEW p \in Plain, NEW row \in RowsOf(p), NEW e \in Fed(p)
  PROVE  /\ OwnCount(p, row, e) \in RowsOf(p)
         /\ \A c \in Counts(p) :
              OwnCount(p, row, e)[c] = IF CountsFor(p, c, e) THEN row[c] + 1 ELSE row[c]
         /\ p = "claims_metrics" =>
              OwnCount(p, row, e).open_claims
                = Clamp0(OwnCount(p, row, e).total - OwnCount(p, row, e).settled
                         - OwnCount(p, row, e).rejected)
<1> DEFINE k == Counters[p][TypeOf[e]]
           one == [row EXCEPT ![k] = @ + 1]
<1>1. TypeOf[e] \in DOMAIN Counters[p] /\ k \in Counts(p)
  BY PlainNames DEF Fed, Counts, Values, Dashboard
<1>2. one \in RowsOf(p) /\ \A c \in Counts(p) : one[c] = IF c = k THEN row[c] + 1 ELSE row[c]
  BY <1>1, PlainColumns DEF RowsOf
<1>3. OwnCount(p, row, e) = WithDerived(p, one)
  BY PlainNames DEF OwnCount, Dashboard
<1>4. \A c : CountsFor(p, c, e) <=> c = k
  BY <1>1 DEF CountsFor
<1> HIDE DEF k, one
<1>5. CASE p = "financial_summary"
  <2>1. WithDerived(p, one) = [one EXCEPT !.net_receivable = one.gross - one.collected]
    BY <1>5 DEF WithDerived
  <2>2. one.gross \in Int /\ one.collected \in Int /\ "net_receivable" \notin Counts(p)
    BY <1>2, <1>5, PlainColumns, CountNames DEF RowsOf
  <2> QED
    BY <1>2, <1>3, <1>4, <1>5, <2>1, <2>2, PlainColumns DEF RowsOf
<1>6. CASE p = "claims_metrics"
  <2> DEFINE n == Clamp0(one.total - one.settled - one.rejected)
  <2>1. WithDerived(p, one) = [one EXCEPT !.open_claims = n]
    BY <1>6 DEF WithDerived
  <2>2. {"total", "settled", "rejected"} \subseteq Counts(p) /\ "open_claims" \notin Counts(p)
    BY <1>6, CountNames
  <2>3. n \in Int
    BY <1>2, <2>2, PlainColumns DEF Clamp0, RowsOf
  <2> HIDE DEF n
  <2>4. "open_claims" \in Columns[p]
    BY <1>6, PlainColumns
  <2>5. /\ WithDerived(p, one) \in RowsOf(p)
        /\ WithDerived(p, one)["open_claims"] = n
        /\ \A c \in Counts(p) : WithDerived(p, one)[c] = one[c]
    BY <1>2, <2>1, <2>2, <2>3, <2>4, PlainColumns DEF RowsOf
  <2>6. n = Clamp0(WithDerived(p, one).total - WithDerived(p, one).settled
                   - WithDerived(p, one).rejected)
    BY <2>2, <2>5 DEF n
  <2> QED
    BY <1>2, <1>3, <1>4, <2>5, <2>6
<1>7. CASE p \notin {"financial_summary", "claims_metrics"}
  <2>1. WithDerived(p, one) = one
    BY <1>7 DEF WithDerived
  <2> QED
    BY <1>2, <1>3, <1>4, <1>7, <2>1
<1> QED
  BY <1>5, <1>6, <1>7

\* The log is finite, and so is what is counted of it.
LEMMA TallyIsNat ==
  ASSUME NEW p, NEW c, NEW events, events \subseteq Events
  PROVE  Tally(p, c, events) \in Nat
<1>1. IsFiniteSet(Events)
  BY FS_Interval, ProjectionsAssumption DEF Events
<1>2. {e \in events : TypeOf[e] \in DOMAIN Counters[p] /\ Counters[p][TypeOf[e]] = c}
        \in SUBSET Events
  OBVIOUS
<1> QED
  BY <1>1, <1>2, FS_Subset, FS_CardinalityType DEF Tally

\* An event that was not counted yet makes a difference of one where it counts.
LEMMA TallyAdd ==
  ASSUME NEW p, NEW c, NEW events, events \subseteq Events, NEW e \in Events \ events
  PROVE  Tally(p, c, events \cup {e})
           = IF CountsFor(p, c, e) THEN Tally(p, c, events) + 1 ELSE Tally(p, c, events)
<1> DEFINE of(es) == {x \in es : TypeOf[x] \in DOMAIN Counters[p] /\ Counters[p][TypeOf[x]] = c}
<1>1. IsFiniteSet(of(events))
  <2>1. IsFiniteSet(Events)
    BY FS_Interval, ProjectionsAssumption DEF Events
  <2>2. of(events) \in SUBSET Events
    OBVIOUS
  <2> HIDE DEF of
  <2> QED
    BY <2>1, <2>2, FS_Subset
<1>2. of(events \cup {e}) = IF CountsFor(p, c, e) THEN of(events) \cup {e} ELSE of(events)
  BY DEF CountsFor
<1>3. e \notin of(events)
  OBVIOUS
<1>4. Tally(p, c, events) = Cardinality(of(events))
  BY DEF Tally
<1>5. Tally(p, c, events \cup {e}) = Cardinality(of(events \cup {e}))
  BY DEF Tally
<1> HIDE DEF of
<1>6. Cardinality(of(events) \cup {e}) = Cardinality(of(events)) + 1
  BY <1>1, <1>3, FS_AddElement
<1> QED
  BY <1>2, <1>4, <1>5, <1>6

\* Nothing counts nothing, nor does what does not feed the projection.
LEMMA TallyNone ==
  ASSUME NEW p \in Plain, NEW c, NEW events, events \subseteq Events, events \cap Fed(p) = {}
  PROVE  Tally(p, c, events) = 0
<1>1. \A e \in Events : TypeOf[e] \in DOMAIN Counters[p] => e \in Fed(p)
  BY PlainNames DEF Fed, Dashboard
<1>2. {e \in events : TypeOf[e] \in DOMAIN Counters[p] /\ Counters[p][TypeOf[e]] = c} = {}
  BY <1>1
<1> QED
  BY <1>2, FS_EmptySet DEF Tally

\* An event that does not feed a projection counts in none of its columns.
LEMMA UnfedCountsNowhere ==
  ASSUME NEW p \in Plain, NEW c, NEW e \in Events \ Fed(p)
  PROVE  ~CountsFor(p, c, e)
BY PlainNames DEF Fed, Dashboard, CountsFor

\* More events count for no less.
LEMMA TallyGrows ==
  ASSUME NEW p, NEW c, NEW more, more \subseteq Events, NEW events, events \subseteq more
  PROVE  Tally(p, c, events) <= Tally(p, c, more)
<1> DEFINE of(es) == {x \in es : TypeOf[x] \in DOMAIN Counters[p] /\ Counters[p][TypeOf[x]] = c}
<1>1. IsFiniteSet(Events)
  BY FS_Interval, ProjectionsAssumption DEF Events
<1>2. of(more) \in SUBSET Events /\ of(events) \in SUBSET of(more)
  OBVIOUS
<1>3. Tally(p, c, events) = Cardinality(of(events)) /\ Tally(p, c, more) = Cardinality(of(more))
  BY DEF Tally
<1> HIDE DEF of
<1>4. IsFiniteSet(of(more))
  BY <1>1, <1>2, FS_Subset
<1> QED
  BY <1>2, <1>3, <1>4, FS_Subset

\* That is how the handlers of the others count.
LEMMA CountedOwn ==
  ASSUME NEW p \in Projections \ {"ar_aging"}, NEW row, NEW e
  PROVE  Counted(p, row, e) = OwnCount(p, row, e)
BY DEF Counted, OwnCount

\* A handler starts from a row.
LEMMA StartRows ==
  ASSUME NEW p, NEW row, row = Absent \/ row \in RowsOf(p)
  PROVE  Start(p, row) \in RowsOf(p)
BY DEF Start, NewRow, RowsOf

\* The row a handler loads, and what it shows.
LEMMA LoadedRows ==
  ASSUME NEW p \in Plain \cup {Dashboard}, tables[p] = Absent \/ tables[p] \in RowsOf(p)
  PROVE  Loaded(p) \in RowsOf(p) /\ \A c \in Columns[p] : Loaded(p)[c] = Value(p, c)
BY DEF Loaded, Start, Value, NewRow, RowsOf

\* The dashboard's column of invoices goes up with each that is issued and down with
\* each that is paid.
LEMMA CountedDashboard ==
  ASSUME NEW row \in RowsOf(Dashboard), NEW e \in Fed(Dashboard)
  PROVE  /\ OwnCount(Dashboard, row, e) \in RowsOf(Dashboard)
         /\ OwnCount(Dashboard, row, e).outstanding_invoices
              = IF TypeOf[e] = "InvoiceIssued" THEN row.outstanding_invoices + 1
                ELSE IF TypeOf[e] = "InvoicePaid" THEN Clamp0(row.outstanding_invoices - 1)
                ELSE row.outstanding_invoices
<1>1. OwnCount(Dashboard, row, e) = CountedIn(row, e)
  BY DEF OwnCount, Dashboard
<1>2. TypeOf[e] \in DOMAIN Raises \cup DOMAIN Lowers
  BY DEF Fed, Dashboard
<1>3. Columns[Dashboard] = Values(Raises) \cup Values(Lowers)
  BY PlainNames DEF Columns, Dashboard
<1>4. CASE TypeOf[e] \in DOMAIN Raises
  <2> DEFINE c == Raises[TypeOf[e]]
  <2>1. CountedIn(row, e) = [row EXCEPT ![c] = @ + 1]
    BY <1>4 DEF CountedIn
  <2>2. c \in Columns[Dashboard]
    BY <1>3, <1>4 DEF Values
  <2>3. c = "outstanding_invoices" <=> TypeOf[e] = "InvoiceIssued"
    BY <1>4 DEF Raises
  <2>4. TypeOf[e] # "InvoicePaid" /\ "outstanding_invoices" \in Columns[Dashboard]
    BY <1>3, <1>4 DEF Raises, Lowers, Values
  <2> HIDE DEF c
  <2> QED
    BY <1>1, <2>1, <2>2, <2>3, <2>4 DEF RowsOf
<1>5. CASE TypeOf[e] \notin DOMAIN Raises
  <2> DEFINE c == Lowers[TypeOf[e]]
  <2>1. CountedIn(row, e) = [row EXCEPT ![c] = Clamp0(@ - 1)]
    BY <1>5 DEF CountedIn
  <2>2. c \in Columns[Dashboard]
    BY <1>2, <1>3, <1>5 DEF Values
  <2>3. c = "outstanding_invoices" <=> TypeOf[e] = "InvoicePaid"
    BY <1>2, <1>5 DEF Lowers
  <2>4. TypeOf[e] # "InvoiceIssued" /\ "outstanding_invoices" \in Columns[Dashboard]
    BY <1>3, <1>5 DEF Raises, Lowers, Values
  <2> HIDE DEF c
  <2> QED
    BY <1>1, <2>1, <2>2, <2>3, <2>4 DEF RowsOf, Clamp0
<1> QED
  BY <1>4, <1>5

\* The counters the dashboard is compared with.
LEMMA InvoiceCounts ==
  ASSUME NEW e \in Events
  PROVE  /\ CountsFor("financial_summary", "gross", e) <=> TypeOf[e] = "InvoiceIssued"
         /\ CountsFor("financial_summary", "paid", e) <=> TypeOf[e] = "InvoicePaid"
         /\ TypeOf[e] \in {"InvoiceIssued", "InvoicePaid"} => e \in Fed(Dashboard)
BY PlainNames DEF CountsFor, FinancialCounters, Fed, Dashboard, Raises, Lowers

-----------------------------------------------------------------------------
(* The steps *)

\* The events of the log are events.
LEMMA LogIsFinite ==
  ASSUME LogInv
  PROVE  /\ scenario.events \subseteq Events /\ emitted \subseteq Events /\ marked \subseteq Events
         /\ overlapped \subseteq Events /\ Applied \subseteq Events
BY ProjectionsAssumption DEF LogInv, Applied

\* An empty log counts nothing.
LEMMA InitInv == Init => IInv
<1> SUFFICES ASSUME Init PROVE IInv
  OBVIOUS
<1>1. LogInv /\ RelaysKnown /\ RebuildInv /\ RelaysHold /\ RowsAreRows
  BY PlainNames DEF Init, LogInv, RelaysKnown, RebuildInv, RelaysHold, Holding, Idle, RowsAreRows
<1>2. \A p \in Plain \cup {Dashboard} : tables[p] = Absent /\ \A c : Value(p, c) = 0
  BY PlainNames DEF Init, Value
<1>3. \A p \in Plain : \A c : Tally(p, c, Applied) = 0
  BY TallyNone DEF Init, Applied
<1>4. AloneInv
  <2>1. OpenClaims /\ OutstandingShown
    BY <1>2, <1>3, PlainNames DEF OpenClaims, OutstandingShown, Clamp0
  <2> QED
    BY <1>2, <1>3, <2>1 DEF AloneInv, Init
<1>5. LiveInv
  BY <1>1, <1>2, <1>3, <1>4 DEF LiveInv, NoneAbove, Init
<1> QED
  BY <1>1, <1>5 DEF IInv

\* Relay r goes on, or comes to rest.
RelayMoves(r, next) ==
  /\ relay' = [relay EXCEPT ![r] = next]
  /\ next = Idle \/ next.event \in emitted
  /\ UNCHANGED <<scenario, emitted, rebuild>>

\* What a relay has in hand when it has moved, and what is marked then.
RelayHands(r, next) ==
  \/ /\ next = Idle /\ overlapped' = overlapped
     /\ marked' = marked \/ (relay[r] # Idle /\ marked' = marked \cup {relay[r].event})
  \/ /\ next # Idle /\ relay[r] # Idle /\ next.event = relay[r].event
     /\ overlapped' = overlapped /\ marked' = marked
  \/ /\ next # Idle /\ relay[r] = Idle /\ next.event \notin marked /\ marked' = marked
     /\ overlapped' = overlapped \cup
          {f \in {next.event} : \E q \in Relays : relay[q] # Idle /\ relay[q].event = f}

RelayStep(r) ==
  \/ \E e \in Events : Take(r, e)
  \/ Apply(r) \/ Retry(r) \/ Publish(r) \/ DeadLetter(r) \/ Fail(r)

\* What the handler has in memory when it has counted.
LEMMA ApplyLoads ==
  ASSUME NEW r \in Relays, Apply(r)
  PROVE  \E held :
           /\ relay' = [relay EXCEPT ![r] = held]
           /\ held.pc = "applying" /\ held.event = relay[r].event
           /\ \A p \in FeedsOn(held.event) \ {"ar_aging"} :
                held.was[p] = tables[p] /\ held.row[p] = OwnCount(p, Loaded(p), held.event)
<1> DEFINE e == relay[r].event
           was == [p \in FeedsOn(e) |-> tables[p]]
           row == [p \in FeedsOn(e) |-> Counted(p, Loaded(p), e)]
           of == [p \in FeedsOn(e) |-> incarnation[p]]
           held == [pc |-> "applying", event |-> e, was |-> was, row |-> row, of |-> of]
<1>1. relay' = [relay EXCEPT ![r] = held]
  BY DEF Apply
<1>2. \A p \in FeedsOn(e) \ {"ar_aging"} : was[p] = tables[p] /\ row[p] = OwnCount(p, Loaded(p), e)
  BY CountedOwn DEF FeedsOn
<1> HIDE DEF was, row, of, e
<1>3. held.pc = "applying" /\ held.event = e /\ held.was = was /\ held.row = row
  OBVIOUS
<1> HIDE DEF held
<1> QED
  BY <1>1, <1>2, <1>3 DEF e

\* What the steps of a relay have in common.
LEMMA RelaySteps ==
  ASSUME LogInv, RelaysKnown, NEW r \in Relays, RelayStep(r)
  PROVE  /\ \E next : RelayMoves(r, next) /\ RelayHands(r, next)
         /\ letters' \subseteq marked' /\ marked' \subseteq emitted
<1>1. relay[r].pc \in {"taken", "applying"} => relay[r] # Idle /\ relay[r].event \in emitted
  BY DEF Idle, RelaysKnown
<1>2. letters \subseteq marked /\ marked \subseteq emitted
  BY DEF LogInv
<1>3. ASSUME Publish(r) \/ DeadLetter(r)
      PROVE  /\ RelayMoves(r, Idle) /\ RelayHands(r, Idle)
             /\ letters' \subseteq marked' /\ marked' \subseteq emitted
  BY <1>1, <1>2, <1>3 DEF Publish, DeadLetter, RelayMoves, RelayHands
<1>4. ASSUME Fail(r)
      PROVE  /\ RelayMoves(r, Idle) /\ RelayHands(r, Idle)
             /\ letters' \subseteq marked' /\ marked' \subseteq emitted
  BY <1>2, <1>4 DEF Fail, store, RelayMoves, RelayHands
<1>5. ASSUME Apply(r)
      PROVE  /\ \E next : RelayMoves(r, next) /\ RelayHands(r, next)
             /\ letters' \subseteq marked' /\ marked' \subseteq emitted
  <2>1. relay[r].pc = "taken" /\ UNCHANGED <<scenario, emitted, store, rebuild, overlapped>>
    BY <1>5 DEF Apply
  <2>2. PICK next : /\ relay' = [relay EXCEPT ![r] = next] /\ next.event = relay[r].event
                    /\ next.pc = "applying"
    BY <1>5, ApplyLoads
  <2>3. next # Idle
    BY <2>2 DEF Idle
  <2>4. RelayMoves(r, next) /\ RelayHands(r, next)
    BY <1>1, <2>1, <2>2, <2>3 DEF RelayMoves, RelayHands, store
  <2> QED
    BY <1>2, <2>1, <2>4 DEF store
<1>6. ASSUME Retry(r)
      PROVE  /\ \E next : RelayMoves(r, next) /\ RelayHands(r, next)
             /\ letters' \subseteq marked' /\ marked' \subseteq emitted
  <2> DEFINE next == [pc |-> "taken", event |-> relay[r].event]
  <2>1. next # Idle /\ next.event = relay[r].event
    BY DEF Idle
  <2>2. /\ relay' = [relay EXCEPT ![r] = next] /\ relay[r].pc = "applying"
        /\ UNCHANGED <<scenario, emitted, store, rebuild, overlapped>>
    BY <1>6 DEF Retry
  <2> HIDE DEF next
  <2>3. RelayMoves(r, next) /\ RelayHands(r, next)
    BY <1>1, <2>1, <2>2 DEF RelayMoves, RelayHands, store
  <2> QED
    BY <1>2, <2>2, <2>3 DEF store
<1>7. ASSUME NEW e \in Events, Take(r, e)
      PROVE  /\ \E next : RelayMoves(r, next) /\ RelayHands(r, next)
             /\ letters' \subseteq marked' /\ marked' \subseteq emitted
  <2> DEFINE next == [pc |-> "taken", event |-> e]
  <2>1. next # Idle /\ next.event = e
    BY DEF Idle
  <2>2. /\ relay' = [relay EXCEPT ![r] = next] /\ relay[r] = Idle /\ e \in emitted \ marked
        /\ overlapped' = overlapped \cup
             {f \in {e} : \E q \in Relays : relay[q] # Idle /\ relay[q].event = f}
        /\ UNCHANGED <<scenario, emitted, store, rebuild>>
    BY <1>7 DEF Take
  <2> HIDE DEF next
  <2>3. RelayMoves(r, next) /\ RelayHands(r, next)
    BY <2>1, <2>2 DEF RelayMoves, RelayHands, store
  <2> QED
    BY <1>2, <2>2, <2>3 DEF store
<1> QED
  BY <1>3, <1>4, <1>5, <1>6, <1>7 DEF RelayStep

\* A relay that takes an event up finds no mark of it, and the mark it sets is not one
\* of another relay's event, unless the two overlapped.
LEMMA RelaysStayKnown ==
  ASSUME LogInv, RelaysKnown, NEW r \in Relays, NEW next, RelayMoves(r, next), RelayHands(r, next)
  PROVE  RelaysKnown' /\ overlapped \subseteq overlapped' /\ overlapped' \subseteq emitted
<1>1. \A q \in Relays : relay'[q] = IF q = r THEN next ELSE relay[q]
  BY DEF RelayMoves, RelaysKnown
<1>2. overlapped \subseteq overlapped' /\ overlapped' \subseteq emitted
  BY DEF RelayHands, RelayMoves, LogInv
<1>3. ASSUME NEW q \in Relays, relay'[q] # Idle, relay'[q].event \notin overlapped'
      PROVE  /\ relay'[q].event \notin marked'
             /\ \A o \in Relays : relay'[o] # Idle /\ relay'[o].event = relay'[q].event => o = q
  <2>1. CASE next = Idle
    <3>1. q # r /\ relay'[q] = relay[q] /\ relay[q].event \notin overlapped
      BY <1>1, <1>2, <1>3, <2>1
    <3>2. relay[q].event \notin marked /\ (relay[r] # Idle => relay[r].event # relay[q].event)
      BY <1>3, <3>1 DEF RelaysKnown
    <3>3. relay'[q].event \notin marked'
      BY <2>1, <3>1, <3>2 DEF RelayHands
    <3> QED
      BY <1>1, <1>3, <2>1, <3>1, <3>3 DEF RelaysKnown
  <2>2. CASE next # Idle /\ relay[r] # Idle
    <3>1. next.event = relay[r].event /\ overlapped' = overlapped /\ marked' = marked
      BY <2>2 DEF RelayHands
    <3>2. \A o \in Relays : /\ relay'[o] # Idle => relay[o] # Idle
                            /\ relay[o] # Idle => relay'[o].event = relay[o].event
      BY <1>1, <2>2, <3>1
    <3> QED
      BY <1>3, <3>1, <3>2 DEF RelaysKnown
  <2>3. CASE next # Idle /\ relay[r] = Idle
    <3>1. /\ next.event \notin marked /\ marked' = marked
          /\ overlapped' = overlapped \cup
               {f \in {next.event} : \E o \in Relays : relay[o] # Idle /\ relay[o].event = f}
      BY <2>3 DEF RelayHands
    <3>2. CASE q = r
      <4>1. relay'[q] = next /\ next.event \notin overlapped'
        BY <1>1, <1>3, <3>2
      <4>2. \A o \in Relays : relay[o] # Idle => relay[o].event # next.event
        BY <3>1, <4>1
      <4> QED
        BY <1>1, <3>1, <3>2, <4>1, <4>2
    <3>3. CASE q # r
      <4>1. relay'[q] = relay[q] /\ relay[q].event \notin overlapped
        BY <1>1, <1>2, <1>3, <3>3
      <4>2. next.event # relay[q].event
        BY <1>3, <3>1, <4>1
      <4> QED
        BY <1>1, <1>3, <3>1, <3>3, <4>1, <4>2 DEF RelaysKnown
    <3> QED
      BY <3>2, <3>3
  <2> QED
    BY <2>1, <2>2, <2>3
<1>4. relay' = [q \in Relays |-> relay'[q]]
  BY DEF RelayMoves, RelaysKnown
<1>5. \A q \in Relays : relay'[q] = Idle \/ relay'[q].event \in emitted'
  BY <1>1 DEF RelayMoves, RelaysKnown
<1> QED
  BY <1>2, <1>3, <1>4, <1>5 DEF RelaysKnown

\* The log, the relays and what a rebuild has loaded.
LEMMA LogStep ==
  ASSUME LogInv, RelaysKnown, RebuildInv, Next
  PROVE  LogInv' /\ RelaysKnown' /\ RebuildInv'
<1>1. ASSUME NEW e \in Events, Emit(e) PROVE LogInv' /\ RelaysKnown' /\ RebuildInv'
  BY <1>1 DEF Emit, store, LogInv, RelaysKnown, RebuildInv
<1>2. ASSUME NEW r \in Relays, RelayStep(r)
      PROVE  LogInv' /\ RelaysKnown' /\ RebuildInv'
  <2>1. PICK next : RelayMoves(r, next) /\ RelayHands(r, next)
    BY <1>2, RelaySteps
  <2>2. letters' \subseteq marked' /\ marked' \subseteq emitted
    BY <1>2, RelaySteps
  <2>3. RelaysKnown' /\ overlapped' \subseteq emitted
    BY <2>1, RelaysStayKnown
  <2>4. LogInv' /\ RebuildInv'
    BY <2>1, <2>2, <2>3 DEF RelayMoves, LogInv, RebuildInv
  <2> QED
    BY <2>3, <2>4
<1>3. CASE StartRebuild
  <2>1. rebuild'.events = emitted
    BY <1>3 DEF StartRebuild
  <2> QED
    BY <1>3, <2>1 DEF StartRebuild, store, LogInv, RelaysKnown, RebuildInv
<1>4. CASE CommitRebuild \/ AbortRebuild
  BY <1>4 DEF CommitRebuild, AbortRebuild, store, LogInv, RelaysKnown, RebuildInv
<1> QED
  BY <1>1, <1>2, <1>3, <1>4 DEF Next, RelayStep

\* More events may overlap later, not fewer.
LEMMA UndisturbedBefore ==
  ASSUME NEW p, NEW c, NEW before, NEW after, before \subseteq after, after \subseteq Events,
         Tally(p, c, after) = 0
  PROVE  Tally(p, c, before) = 0
<1>1. before \subseteq Events
  OBVIOUS
<1> QED
  BY <1>1, TallyGrows, TallyIsNat

\* An event that overlapped disturbs the columns it counts in.
LEMMA CountingDisturbs ==
  ASSUME NEW p, NEW c, NEW events, events \subseteq Events, NEW e \in events, CountsFor(p, c, e)
  PROVE  Tally(p, c, events) # 0
<1> DEFINE rest == events \ {e}
<1>1. rest \subseteq Events /\ e \in Events \ rest /\ events = rest \cup {e}
  OBVIOUS
<1> HIDE DEF rest
<1>2. Tally(p, c, rest) \in Nat /\ Tally(p, c, rest \cup {e}) = Tally(p, c, rest) + 1
  BY <1>1, TallyAdd, TallyIsNat
<1> QED
  BY <1>1, <1>2

\* What was applied stays so, where no two relays had the same event.
Kept ==
  /\ \A p \in Plain : \A c \in Counts(p) :
       Undisturbed(p, c)' => /\ Undisturbed(p, c)
                             /\ Tally(p, c, Applied) \in Nat /\ Tally(p, c, Applied') \in Nat
                             /\ Tally(p, c, Applied) <= Tally(p, c, Applied')
  /\ Cardinality(scenario.relays) = 1 /\ AloneInv => overlapped' = {} /\ Applied' = Applied

\* What a relay holds fits the rows as long as the rows stay.
RelayFits(q) ==
  /\ Holding(relay[q]) /\ HoldsCurrent(relay[q])
  /\ Cardinality(scenario.relays) = 1 => q \in scenario.relays

\* What a relay has in memory goes no further than what was applied, then as before.
LEMMA HoldingStays ==
  ASSUME NEW held, Holding(held),
         \A p \in Plain : \A c \in Counts(p) :
           Undisturbed(p, c)' => /\ Undisturbed(p, c)
                                 /\ Tally(p, c, Applied) \in Nat /\ Tally(p, c, Applied') \in Nat
                                 /\ Tally(p, c, Applied) <= Tally(p, c, Applied')
  PROVE  held.pc = "applying" => \A p \in FeedsOn(held.event) \cap Plain :
           /\ held.was[p] = Absent \/ held.was[p] \in RowsOf(p)
           /\ held.row[p] = OwnCount(p, Start(p, held.was[p]), held.event)
           /\ \A c \in Counts(p) :
                Undisturbed(p, c)' => Start(p, held.was[p])[c] <= Tally(p, c, Applied')
<1> SUFFICES ASSUME held.pc = "applying", NEW p \in FeedsOn(held.event) \cap Plain
             PROVE  /\ held.was[p] = Absent \/ held.was[p] \in RowsOf(p)
                    /\ held.row[p] = OwnCount(p, Start(p, held.was[p]), held.event)
                    /\ \A c \in Counts(p) :
                         Undisturbed(p, c)' => Start(p, held.was[p])[c] <= Tally(p, c, Applied')
  OBVIOUS
<1>1. /\ held.was[p] = Absent \/ held.was[p] \in RowsOf(p)
      /\ held.row[p] = OwnCount(p, Start(p, held.was[p]), held.event)
      /\ \A c \in Counts(p) : Undisturbed(p, c) => Start(p, held.was[p])[c] <= Tally(p, c, Applied)
  BY DEF Holding
<1>2. Start(p, held.was[p]) \in RowsOf(p)
  BY <1>1, StartRows
<1>3. \A c \in Counts(p) : Start(p, held.was[p])[c] \in Int
  BY <1>2, PlainColumns DEF RowsOf
<1> QED
  BY <1>1, <1>3

\* Rows that stay show what they showed.
LEMMA RowsStay ==
  ASSUME LiveInv, UNCHANGED <<scenario, tables, rebuild>>, scenario.rebuilds = 0 => Kept,
         \A q \in Relays : \/ relay'[q] = relay[q]
                           \/ relay'[q] = Idle
                           \/ scenario.rebuilds = 0 => RelayFits(q)'
  PROVE  LiveInv'
<1> SUFFICES ASSUME scenario.rebuilds = 0
             PROVE  /\ rebuild' = [pc |-> "idle", left |-> 0]
                    /\ RelaysHold' /\ RowsAreRows' /\ NoneAbove'
                    /\ Cardinality(scenario.relays) = 1 => AloneInv'
  BY DEF LiveInv
<1>1. /\ rebuild = [pc |-> "idle", left |-> 0]
      /\ RelaysHold /\ RowsAreRows /\ NoneAbove
      /\ Cardinality(scenario.relays) = 1 => AloneInv
  BY DEF LiveInv
<1>2. RowsAreRows' /\ NoneAbove'
  <2>1. \A p \in Plain : \A c \in Counts(p) : Value(p, c) \in Int /\ Value(p, c)' = Value(p, c)
    BY <1>1, PlainColumns DEF RowsAreRows, RowsOf, Value
  <2>2. ASSUME NEW p \in Plain, NEW c \in Counts(p), Undisturbed(p, c)'
        PROVE  Value(p, c)' <= Tally(p, c, Applied')
    <3>1. /\ Undisturbed(p, c) /\ Tally(p, c, Applied) \in Nat /\ Tally(p, c, Applied') \in Nat
          /\ Tally(p, c, Applied) <= Tally(p, c, Applied')
      BY <2>2 DEF Kept
    <3>2. Value(p, c) <= Tally(p, c, Applied)
      BY <1>1, <3>1 DEF NoneAbove
    <3> QED
      BY <2>1, <3>1, <3>2
  <2> QED
    BY <1>1, <2>2 DEF RowsAreRows, NoneAbove
<1>3. ASSUME NEW q \in Relays, relay'[q] = relay[q] PROVE Holding(relay[q])'
  <2>1. Holding(relay[q])
    BY <1>1 DEF RelaysHold
  <2> DEFINE held == relay[q]
  <2>2. held' = held
    BY <1>3
  <2> HIDE DEF held
  <2>3. held.pc = "applying" => \A p \in FeedsOn(held.event) \cap Plain :
           /\ held.was[p] = Absent \/ held.was[p] \in RowsOf(p)
           /\ held.row[p] = OwnCount(p, Start(p, held.was[p]), held.event)
           /\ \A c \in Counts(p) :
                Undisturbed(p, c)' => Start(p, held.was[p])[c] <= Tally(p, c, Applied')
    <3>1. Holding(held)
      BY <2>1 DEF held
    <3> QED
      BY <3>1, HoldingStays DEF Kept
  <2>4. Holding(held)'
    BY <2>2, <2>3 DEF Holding
  <2> QED
    BY <2>4 DEF held
<1>4. RelaysHold'
  <2>1. \A q \in Relays : relay'[q] = Idle => Holding(relay[q])'
    BY DEF Holding, Idle
  <2> QED
    BY <1>3, <2>1 DEF RelaysHold, RelayFits
<1>5. ASSUME Cardinality(scenario.relays) = 1 PROVE AloneInv'
  <2>1. AloneInv
    BY <1>1, <1>5
  <2>2. \A q \in Relays : relay'[q] = relay[q] /\ HoldsCurrent(relay[q]) => HoldsCurrent(relay[q])'
    BY DEF HoldsCurrent, Loaded
  <2>3. \A q \in Relays : relay'[q] # Idle => q \in scenario'.relays /\ HoldsCurrent(relay[q])'
    BY <1>5, <2>1, <2>2 DEF AloneInv, RelayFits
  <2>4. \A p, c : Value(p, c)' = Value(p, c)
    BY DEF Value
  <2>5. overlapped' = {} /\ Applied' = Applied
    BY <1>5, <2>1 DEF Kept
  <2> QED
    BY <2>1, <2>3, <2>4, <2>5 DEF AloneInv, OpenClaims, OutstandingShown
<1> QED
  BY <1>1, <1>2, <1>4, <1>5

\* As long as no mark is set, what was applied stays.
LEMMA MarksStay ==
  ASSUME LogInv, UNCHANGED <<scenario, marked, letters>>,
         overlapped \subseteq overlapped', overlapped' \subseteq Events,
         Cardinality(scenario.relays) = 1 /\ AloneInv => overlapped' = {}
  PROVE  Kept
<1>1. Applied' = Applied /\ Applied \subseteq Events
  BY LogIsFinite DEF Applied
<1>2. \A p, c : Undisturbed(p, c)' => Undisturbed(p, c)
  BY UndisturbedBefore DEF Undisturbed
<1>3. \A p, c : Tally(p, c, Applied) \in Nat
  BY <1>1, TallyIsNat
<1>4. \A n \in Nat : n <= n
  OBVIOUS
<1> QED
  BY <1>1, <1>2, <1>3, <1>4 DEF Kept

\* A relay that is alone is the only one with an event in hand.
LEMMA OneInHand ==
  ASSUME LogInv, AloneInv, Cardinality(scenario.relays) = 1,
         NEW r \in scenario.relays, NEW q \in Relays, relay[q] # Idle
  PROVE  q = r
<1>1. IsFiniteSet(scenario.relays)
  BY ProjectionsAssumption DEF LogInv
<1>2. PICK one : scenario.relays = {one}
  BY <1>1, FS_Singleton
<1> QED
  BY <1>2 DEF AloneInv

\* The log grows.
LEMMA EmitStays ==
  ASSUME IInv, (\E e \in Events : Emit(e)) \/ UNCHANGED vars
  PROVE  LiveInv'
<1>1. LogInv /\ LiveInv /\ overlapped \subseteq Events
  BY LogIsFinite DEF IInv
<1>2. UNCHANGED <<scenario, marked, letters, overlapped, tables, rebuild, relay>>
  BY DEF Emit, store, vars
<1>3. Kept
  BY <1>1, <1>2, MarksStay DEF AloneInv
<1> QED
  BY <1>1, <1>2, <1>3, RowsStay

\* A relay takes an event up, counts, counts again or fails: no row changes.
LEMMA QuietSteps ==
  ASSUME IInv, NEW r \in Relays,
         (\E e \in Events : Take(r, e)) \/ Apply(r) \/ Retry(r) \/ Fail(r)
  PROVE  LiveInv'
<1>0. LogInv /\ RelaysKnown /\ LiveInv /\ overlapped \subseteq Events
  BY LogIsFinite DEF IInv
<1>a. \A next : relay' = [relay EXCEPT ![r] = next]
                  => \A q \in Relays : relay'[q] = IF q = r THEN next ELSE relay[q]
  BY <1>0 DEF RelaysKnown
<1>b. UNCHANGED <<scenario, marked, letters, overlapped>> => Kept
  BY <1>0, MarksStay DEF AloneInv
<1>2. ASSUME NEW e \in Events, Take(r, e) PROVE LiveInv'
  <2>1. relay'[r].pc = "taken" /\ \A q \in Relays \ {r} : relay'[q] = relay[q]
    BY <1>a, <1>2 DEF Take
  <2>2. /\ UNCHANGED <<scenario, marked, letters, tables, rebuild>> /\ r \in scenario.relays
        /\ relay[r] = Idle /\ e \in Events
        /\ overlapped' = overlapped \cup
             {f \in {e} : \E q \in Relays : relay[q] # Idle /\ relay[q].event = f}
    BY <1>2 DEF Take, store
  <2>3. RelayFits(r)'
    BY <2>1, <2>2 DEF RelayFits, Holding, HoldsCurrent
  <2>4. Cardinality(scenario.relays) = 1 /\ AloneInv => overlapped' = {}
    <3> SUFFICES ASSUME Cardinality(scenario.relays) = 1, AloneInv PROVE overlapped' = {}
      OBVIOUS
    <3>1. \A q \in Relays : relay[q] = Idle
      BY <1>0, <2>2, OneInHand
    <3> QED
      BY <2>2, <3>1 DEF AloneInv
  <2>5. overlapped \subseteq overlapped' /\ overlapped' \subseteq Events
    BY <1>0, <2>2
  <2>6. Kept
    BY <1>0, <2>2, <2>4, <2>5, MarksStay
  <2> QED
    BY <1>0, <2>1, <2>2, <2>3, <2>6, RowsStay
<1>3. CASE Fail(r)
  <2>1. relay'[r] = Idle /\ \A q \in Relays \ {r} : relay'[q] = relay[q]
    BY <1>a, <1>3 DEF Fail
  <2>2. UNCHANGED <<scenario, marked, letters, tables, rebuild, overlapped>>
    BY <1>3 DEF Fail, store
  <2> QED
    BY <1>0, <1>b, <2>1, <2>2, RowsStay
<1>4. CASE Retry(r)
  <2>1. relay'[r].pc = "taken" /\ \A q \in Relays \ {r} : relay'[q] = relay[q]
    BY <1>a, <1>4 DEF Retry
  <2>2. UNCHANGED <<scenario, marked, letters, tables, rebuild, overlapped>> /\ relay[r] # Idle
    BY <1>4 DEF Retry, store, Idle
  <2>3. ASSUME scenario.rebuilds = 0 PROVE RelayFits(r)'
    <3>1. Cardinality(scenario.relays) = 1 => r \in scenario.relays
      BY <1>0, <2>2, <2>3 DEF LiveInv, AloneInv
    <3> QED
      BY <2>1, <2>2, <3>1 DEF RelayFits, Holding, HoldsCurrent
  <2> QED
    BY <1>0, <1>b, <2>1, <2>2, <2>3, RowsStay
<1>5. CASE Apply(r)
  <2>1. PICK held : /\ relay' = [relay EXCEPT ![r] = held]
                    /\ held.pc = "applying" /\ held.event = relay[r].event
                    /\ \A p \in FeedsOn(held.event) \ {"ar_aging"} :
                         held.was[p] = tables[p] /\ held.row[p] = OwnCount(p, Loaded(p), held.event)
    BY <1>5, ApplyLoads
  <2>2. UNCHANGED <<scenario, marked, letters, tables, rebuild, overlapped>> /\ relay[r] # Idle
    BY <1>5 DEF Apply, store, Idle
  <2>3. relay'[r] = held /\ \A q \in Relays \ {r} : relay'[q] = relay[q]
    BY <1>a, <2>1
  <2>4. ASSUME scenario.rebuilds = 0 PROVE RelayFits(r)'
    <3>1. RowsAreRows /\ NoneAbove /\ (Cardinality(scenario.relays) = 1 => AloneInv)
      BY <1>0, <2>4 DEF LiveInv
    <3>2. \A p \in Plain : Loaded(p) \in RowsOf(p) /\ \A c \in Columns[p] : Loaded(p)[c] = Value(p, c)
      BY <3>1, LoadedRows DEF RowsAreRows
    <3>3. \A p \in Plain : \A c \in Counts(p) :
            Undisturbed(p, c) => Loaded(p)[c] <= Tally(p, c, Applied)
      BY <3>1, <3>2, PlainColumns DEF NoneAbove
    <3>4. "ar_aging" \notin Plain
      BY PlainNames
    <3>5. \A p : Loaded(p)' = Loaded(p)
      BY <2>2 DEF Loaded
    <3>6. \A p, c : /\ Undisturbed(p, c)' <=> Undisturbed(p, c)
                    /\ Tally(p, c, Applied)' = Tally(p, c, Applied)
      BY <2>2 DEF Undisturbed, Applied
    <3>7. \A p \in FeedsOn(held.event) \cap Plain :
            /\ held.was[p] = Absent \/ held.was[p] \in RowsOf(p)
            /\ held.row[p] = OwnCount(p, Start(p, held.was[p]), held.event)
            /\ \A c \in Counts(p) :
                 Undisturbed(p, c) => Start(p, held.was[p])[c] <= Tally(p, c, Applied)
      BY <2>1, <3>1, <3>3, <3>4 DEF RowsAreRows, Loaded
    <3>8. Holding(held)'
      BY <2>1, <3>6, <3>7 DEF Holding
    <3>9. HoldsCurrent(held)'
      BY <2>1, <2>2, <3>5 DEF HoldsCurrent
    <3>10. Cardinality(scenario.relays) = 1 => r \in scenario.relays
      BY <2>2, <3>1 DEF AloneInv
    <3> QED
      BY <2>2, <2>3, <3>8, <3>9, <3>10 DEF RelayFits
  <2> QED
    BY <1>0, <1>b, <2>2, <2>3, <2>4, RowsStay
<1> QED
  BY <1>2, <1>3, <1>4, <1>5

\* An event that is given up takes nothing away from what was applied, unless another
\* relay had it too.
LEMMA GivenUpStays ==
  ASSUME IInv, NEW r \in Relays, DeadLetter(r)
  PROVE  LiveInv'
<1> DEFINE e == relay[r].event
<1>1. LogInv /\ RelaysKnown /\ LiveInv /\ overlapped \subseteq Events /\ Applied \subseteq Events
  BY LogIsFinite DEF IInv
<1>2. /\ relay[r] # Idle /\ letters' = letters \cup {e} /\ marked' = marked \cup {e}
      /\ relay' = [relay EXCEPT ![r] = Idle]
      /\ UNCHANGED <<scenario, emitted, tables, rebuild, overlapped>>
  BY DEF DeadLetter, Idle
<1>3. Applied' = Applied \ {e} /\ (e \notin overlapped => Applied' = Applied)
  <2>1. e \notin overlapped => e \notin marked
    BY <1>1, <1>2 DEF RelaysKnown
  <2> HIDE DEF e
  <2> QED
    BY <1>2, <2>1 DEF Applied
<1>4. e \in Events
  BY <1>1, <1>2, LogIsFinite DEF RelaysKnown
<1>5. \A q \in Relays : relay'[q] = IF q = r THEN Idle ELSE relay[q]
  BY <1>1, <1>2 DEF RelaysKnown
<1> HIDE DEF e
<1>6. ASSUME NEW p, NEW c, Undisturbed(p, c)'
      PROVE  /\ Undisturbed(p, c) /\ Tally(p, c, Applied) \in Nat /\ Tally(p, c, Applied') \in Nat
             /\ Tally(p, c, Applied) <= Tally(p, c, Applied')
  <2>1. Undisturbed(p, c)
    BY <1>2, <1>6 DEF Undisturbed
  <2>2. /\ Applied' \subseteq Events
        /\ Tally(p, c, Applied) \in Nat /\ Tally(p, c, Applied') \in Nat
    <3>1. Applied' \subseteq Events
      BY <1>1, <1>3
    <3> QED
      BY <1>1, <3>1, TallyIsNat
  <2>3. CASE Applied' = Applied
    BY <2>1, <2>2, <2>3
  <2>4. CASE Applied' # Applied
    <3>1. e \in overlapped /\ e \in Applied /\ e \in Events \ Applied' /\ Applied = Applied' \cup {e}
      BY <1>3, <1>4, <2>4
    <3>2. ~CountsFor(p, c, e)
      BY <1>1, <2>1, <3>1, CountingDisturbs DEF Undisturbed
    <3>3. Tally(p, c, Applied' \cup {e}) = Tally(p, c, Applied')
      BY <2>2, <3>1, <3>2, TallyAdd
    <3> QED
      BY <2>1, <2>2, <3>1, <3>3
  <2> QED
    BY <2>3, <2>4
<1>7. Kept
  BY <1>2, <1>3, <1>6 DEF Kept, AloneInv
<1> QED
  BY <1>1, <1>2, <1>5, <1>7, RowsStay

\* What a relay publishes: of a row that is there the columns that it changed.
LEMMA MergedRow ==
  ASSUME NEW p, NEW old, old = Absent \/ old \in RowsOf(p), NEW was, NEW row \in RowsOf(p)
  PROVE  /\ Merged(old, was, row) \in RowsOf(p)
         /\ \A c \in Columns[p] : Merged(old, was, row)[c]
              = IF old # Absent /\ row[c] = was[c] THEN old[c] ELSE row[c]
BY DEF Merged, RowsOf

\* An event that is counted has fed a plain row, which is another row then.
LEMMA PlainRowChanges ==
  ASSUME NEW p \in Plain, NEW was, was = Absent \/ was \in RowsOf(p), NEW e \in Fed(p)
  PROVE  OwnCount(p, Start(p, was), e) # was
<1> DEFINE row == Start(p, was)
           k == Counters[p][TypeOf[e]]
<1>1. row \in RowsOf(p)
  BY StartRows
<1>2. OwnCount(p, row, e) \in RowsOf(p) /\ \A c \in Counts(p) :
        OwnCount(p, row, e)[c] = IF CountsFor(p, c, e) THEN row[c] + 1 ELSE row[c]
  BY <1>1, CountedPlain
<1>3. k \in Counts(p) /\ CountsFor(p, k, e)
  BY PlainNames DEF Fed, Counts, Values, Dashboard, CountsFor
<1>4. row[k] \in Int
  BY <1>1, <1>3, PlainColumns DEF RowsOf
<1> HIDE DEF k
<1>5. OwnCount(p, row, e) # row
  BY <1>2, <1>3, <1>4
<1>6. OwnCount(p, row, e) # Absent
  BY <1>2, RowsArePresent
<1>7. was # Absent => row = was
  BY DEF Start
<1> HIDE DEF row
<1>8. OwnCount(p, row, e) # was
  BY <1>5, <1>6, <1>7
<1> QED
  BY <1>8 DEF row

\* One event more is published: the rows it feeds go up, at most as far as the event counts.
LEMMA PublishRaises ==
  ASSUME IInv, NEW r \in Relays, Publish(r), scenario.rebuilds = 0
  PROVE  RelaysHold' /\ RowsAreRows' /\ NoneAbove'
<1> DEFINE e == relay[r].event
<1>1. LogInv /\ RelaysKnown /\ RelaysHold /\ RowsAreRows /\ NoneAbove
  BY DEF IInv, LiveInv
<1>2. /\ relay[r].pc = "applying" /\ marked' = marked \cup {e} /\ letters' = letters
      /\ overlapped' = overlapped /\ relay' = [relay EXCEPT ![r] = Idle]
      /\ tables' = [p \in Projections |->
           IF p \in Flushed(relay[r]) THEN Merged(tables[p], relay[r].was[p], relay[r].row[p])
           ELSE tables[p]]
  BY DEF Publish
<1>3. /\ e \in Events /\ Applied \subseteq Events /\ Applied \subseteq Applied'
      /\ Applied' \subseteq Applied \cup {e} /\ overlapped \subseteq Events
      /\ e \notin overlapped => e \notin Applied /\ Applied' = Applied \cup {e}
  <2>1. e \in emitted /\ (e \notin overlapped => e \notin marked)
    BY <1>1, <1>2 DEF RelaysKnown, Idle
  <2>2. e \in Events /\ Applied \subseteq Events /\ overlapped \subseteq Events
    BY <1>1, <2>1, LogIsFinite
  <2>3. letters \subseteq marked
    BY <1>1 DEF LogInv
  <2> HIDE DEF e
  <2> QED
    BY <1>2, <2>1, <2>2, <2>3 DEF Applied
<1> HIDE DEF e
<1>4. ASSUME NEW p, NEW c, Undisturbed(p, c)
      PROVE  /\ Tally(p, c, Applied) \in Nat /\ Tally(p, c, Applied') \in Nat
             /\ Tally(p, c, Applied) <= Tally(p, c, Applied')
             /\ CountsFor(p, c, e) => Tally(p, c, Applied') = Tally(p, c, Applied) + 1
  <2>1. Applied' \subseteq Events
    BY <1>3
  <2>2. /\ Tally(p, c, Applied) \in Nat /\ Tally(p, c, Applied') \in Nat
        /\ Tally(p, c, Applied) <= Tally(p, c, Applied')
    BY <1>3, <2>1, TallyIsNat, TallyGrows
  <2>3. ASSUME CountsFor(p, c, e) PROVE Tally(p, c, Applied') = Tally(p, c, Applied) + 1
    <3>1. e \notin overlapped
      BY <1>3, <1>4, <2>3, CountingDisturbs DEF Undisturbed
    <3>2. e \in Events \ Applied /\ Applied' = Applied \cup {e}
      BY <1>3, <3>1
    <3>3. Tally(p, c, Applied \cup {e}) = Tally(p, c, Applied) + 1
      BY <1>3, <2>3, <3>2, TallyAdd
    <3> QED
      BY <3>2, <3>3
  <2> QED
    BY <2>2, <2>3
<1>5. \A p, c : Undisturbed(p, c)' <=> Undisturbed(p, c)
  BY <1>2 DEF Undisturbed
<1>6. RelaysHold'
  <2>1. \A q \in Relays : relay'[q] = IF q = r THEN Idle ELSE relay[q]
    BY <1>1, <1>2 DEF RelaysKnown
  <2>2. ASSUME NEW q \in Relays, q # r PROVE Holding(relay[q])'
    <3> DEFINE held == relay[q]
    <3>1. held' = held /\ Holding(held)
      BY <1>1, <2>1, <2>2 DEF RelaysHold
    <3> HIDE DEF held
    <3>2. \A p \in Plain : \A c \in Counts(p) :
            Undisturbed(p, c)' => /\ Undisturbed(p, c)
                                  /\ Tally(p, c, Applied) \in Nat /\ Tally(p, c, Applied') \in Nat
                                  /\ Tally(p, c, Applied) <= Tally(p, c, Applied')
      BY <1>4, <1>5
    <3>3. held.pc = "applying" => \A p \in FeedsOn(held.event) \cap Plain :
             /\ held.was[p] = Absent \/ held.was[p] \in RowsOf(p)
             /\ held.row[p] = OwnCount(p, Start(p, held.was[p]), held.event)
             /\ \A c \in Counts(p) :
                  Undisturbed(p, c)' => Start(p, held.was[p])[c] <= Tally(p, c, Applied')
      BY <3>1, <3>2, HoldingStays
    <3>4. Holding(held)'
      BY <3>1, <3>3 DEF Holding
    <3> QED
      BY <3>4 DEF held
  <2>3. Holding(relay[r])'
    BY <2>1 DEF Holding, Idle
  <2> QED
    BY <2>2, <2>3 DEF RelaysHold
<1>7. ASSUME NEW p \in Plain
      PROVE  /\ tables'[p] = Absent \/ tables'[p] \in RowsOf(p)
             /\ \A c \in Counts(p) : Undisturbed(p, c) => Value(p, c)' <= Tally(p, c, Applied')
  <2>1. tables[p] = Absent \/ tables[p] \in RowsOf(p)
    BY <1>1 DEF RowsAreRows
  <2>2. \A c \in Counts(p) : /\ Undisturbed(p, c) => Value(p, c) <= Tally(p, c, Applied)
                             /\ Value(p, c) \in Int
    BY <1>1, <2>1, PlainColumns DEF NoneAbove, RowsOf, Value
  <2>3. p \in Projections
    BY PlainNames
  <2>4. CASE p \notin Flushed(relay[r])
    <3>1. tables'[p] = tables[p]
      BY <1>2, <2>3, <2>4
    <3>2. \A c \in Counts(p) : Value(p, c)' = Value(p, c)
      BY <3>1 DEF Value
    <3>3. ASSUME NEW c \in Counts(p), Undisturbed(p, c) PROVE Value(p, c)' <= Tally(p, c, Applied')
      <4>1. /\ Tally(p, c, Applied) \in Nat /\ Tally(p, c, Applied') \in Nat
            /\ Tally(p, c, Applied) <= Tally(p, c, Applied')
        BY <1>4, <3>3
      <4> QED
        BY <2>2, <3>2, <3>3, <4>1
    <3> QED
      BY <2>1, <3>1, <3>3
  <2>5. CASE p \in Flushed(relay[r])
    <3> DEFINE was == relay[r].was[p]
               row == relay[r].row[p]
               start == Start(p, was)
    <3>1. /\ was = Absent \/ was \in RowsOf(p)
          /\ row = OwnCount(p, start, e) /\ e \in Fed(p)
          /\ \A c \in Counts(p) : Undisturbed(p, c) => start[c] <= Tally(p, c, Applied)
      BY <1>1, <1>2, <2>5 DEF RelaysHold, Holding, Flushed, FeedsOn, e
    <3>2. tables'[p] = Merged(tables[p], was, row)
      BY <1>2, <2>3, <2>5
    <3>s. start \in RowsOf(p) /\ (was # Absent => start = was)
      BY <3>1, StartRows DEF Start
    <3> HIDE DEF was, row, start
    <3>3. row \in RowsOf(p) /\ \A c \in Counts(p) :
            row[c] = IF CountsFor(p, c, e) THEN start[c] + 1 ELSE start[c]
      BY <3>1, <3>s, CountedPlain
    <3>4. tables'[p] \in RowsOf(p) /\ \A c \in Columns[p] :
            tables'[p][c] = IF tables[p] # Absent /\ row[c] = was[c] THEN tables[p][c] ELSE row[c]
      <4> DEFINE merged == Merged(tables[p], was, row)
      <4>1. merged \in RowsOf(p) /\ \A c \in Columns[p] :
              merged[c] = IF tables[p] # Absent /\ row[c] = was[c] THEN tables[p][c] ELSE row[c]
        BY <2>1, <3>3, MergedRow
      <4> HIDE DEF merged
      <4> QED
        BY <3>2, <4>1 DEF merged
    <3>5. ASSUME NEW c \in Counts(p), Undisturbed(p, c) PROVE Value(p, c)' <= Tally(p, c, Applied')
      <4>1. c \in Columns[p] /\ start[c] \in Int
        BY <3>s, PlainColumns DEF RowsOf
      <4>2. Value(p, c)' = tables'[p][c]
        BY <3>4, RowsArePresent DEF Value
      <4>3. start[c] <= Tally(p, c, Applied)
        BY <3>1, <3>5
      <4>4. tables[p] # Absent => Value(p, c) = tables[p][c]
        BY DEF Value
      <4>5. /\ Tally(p, c, Applied) \in Nat /\ Tally(p, c, Applied') \in Nat
            /\ Tally(p, c, Applied) <= Tally(p, c, Applied')
            /\ CountsFor(p, c, e) => Tally(p, c, Applied') = Tally(p, c, Applied) + 1
        BY <1>4, <3>5
      <4>6. row[c] <= Tally(p, c, Applied')
        BY <3>3, <4>1, <4>3, <4>5
      <4>7. tables[p] # Absent => tables[p][c] <= Tally(p, c, Applied')
        BY <2>2, <3>5, <4>4, <4>5
      <4> QED
        BY <3>4, <4>1, <4>2, <4>6, <4>7
    <3> QED
      BY <3>4, <3>5
  <2> QED
    BY <2>4, <2>5
<1> QED
  BY <1>5, <1>6, <1>7 DEF RowsAreRows, NoneAbove

\* A relay that is alone changes each row it feeds into the row with one event more.
LEMMA PublishAlone ==
  ASSUME IInv, NEW r \in Relays, Publish(r), scenario.rebuilds = 0,
         Cardinality(scenario.relays) = 1
  PROVE  AloneInv'
<1> DEFINE e == relay[r].event
<1>1. LogInv /\ RelaysKnown /\ RelaysHold /\ RowsAreRows /\ AloneInv
  BY DEF IInv, LiveInv
<1>2. /\ relay[r].pc = "applying" /\ marked' = marked \cup {e} /\ letters' = letters
      /\ relay' = [relay EXCEPT ![r] = Idle] /\ scenario' = scenario /\ overlapped' = overlapped
      /\ tables' = [p \in Projections |->
           IF p \in Flushed(relay[r]) THEN Merged(tables[p], relay[r].was[p], relay[r].row[p])
           ELSE tables[p]]
  BY DEF Publish
<1>3. e \in Events \ Applied /\ Applied \subseteq Events /\ Applied' = Applied \cup {e}
  <2>1. e \in emitted /\ e \notin marked
    BY <1>1, <1>2 DEF RelaysKnown, AloneInv, Idle
  <2>2. letters \subseteq marked
    BY <1>1 DEF LogInv
  <2>3. e \in Events /\ Applied \subseteq Events
    BY <1>1, <2>1, LogIsFinite
  <2> HIDE DEF e
  <2> QED
    BY <1>2, <2>1, <2>2, <2>3 DEF Applied
<1>4. HoldsCurrent(relay[r]) /\ r \in scenario.relays
  BY <1>1, <1>2 DEF AloneInv, Idle
<1>5. \A q \in Relays : relay'[q] = Idle
  <2>1. \A q \in Relays : relay[q] # Idle => q = r
    BY <1>1, <1>4, OneInHand
  <2>2. \A q \in Relays : relay'[q] = IF q = r THEN Idle ELSE relay[q]
    BY <1>1, <1>2 DEF RelaysKnown
  <2> QED
    BY <2>1, <2>2
<1> HIDE DEF e
<1>6. ASSUME NEW p, NEW c
      PROVE  /\ Tally(p, c, Applied) \in Nat
             /\ Tally(p, c, Applied') = IF CountsFor(p, c, e) THEN Tally(p, c, Applied) + 1
                                       ELSE Tally(p, c, Applied)
  BY <1>3, TallyAdd, TallyIsNat
<1>7. ASSUME NEW p \in Plain \cup {Dashboard}
      PROVE  /\ p \in Projections \ {"ar_aging"} /\ (tables[p] = Absent \/ tables[p] \in RowsOf(p))
             /\ Loaded(p) \in RowsOf(p) /\ \A c \in Columns[p] : Loaded(p)[c] = Value(p, c)
  <2>1. p \in Projections \ {"ar_aging"}
    BY PlainNames DEF Dashboard
  <2>2. tables[p] = Absent \/ tables[p] \in RowsOf(p)
    BY <1>1 DEF RowsAreRows, AloneInv
  <2> QED
    BY <2>1, <2>2, LoadedRows
<1>8. ASSUME NEW p \in Plain \cup {Dashboard}, p \in FeedsOn(e)
      PROVE  e \in Fed(p) /\ tables'[p] = OwnCount(p, Loaded(p), e) /\ tables'[p] \in RowsOf(p)
  <2> DEFINE was == tables[p]
             row == OwnCount(p, Loaded(p), e)
  <2>1. relay[r].was[p] = was /\ relay[r].row[p] = row
    BY <1>2, <1>4, <1>7, <1>8 DEF HoldsCurrent, e
  <2>2. e \in Fed(p)
    BY <1>8 DEF FeedsOn
  <2>3. row \in RowsOf(p)
    BY <1>7, <2>2, CountedPlain, CountedDashboard
  <2>4. CASE row = was
    <3>1. p \notin Flushed(relay[r])
      BY <2>1, <2>4 DEF Flushed
    <3>2. tables'[p] = was
      BY <1>2, <1>7, <3>1
    <3> QED
      BY <2>2, <2>3, <2>4, <3>2
  <2>5. CASE row # was
    <3>1. p \in Flushed(relay[r])
      BY <1>8, <2>1, <2>5 DEF Flushed, e
    <3>2. was = Absent \/ was \in RowsOf(p)
      BY <1>7
    <3> DEFINE merged == Merged(was, was, row)
    <3>3. tables'[p] = merged
      BY <1>2, <1>7, <2>1, <3>1
    <3> HIDE DEF was, row
    <3>4. merged \in RowsOf(p) /\ \A c \in Columns[p] :
            merged[c] = IF was # Absent /\ row[c] = was[c] THEN was[c] ELSE row[c]
      BY <2>3, <3>2, MergedRow
    <3> HIDE DEF merged
    <3>5. \A c \in Columns[p] : merged[c] = row[c]
      BY <3>4
    <3>6. merged = row
      BY <2>3, <3>4, <3>5 DEF RowsOf
    <3> QED
      BY <2>2, <2>3, <3>3, <3>6 DEF row
  <2> QED
    BY <2>4, <2>5
<1>9. ASSUME NEW p \in Plain \cup {Dashboard}, p \notin FeedsOn(e)
      PROVE  e \notin Fed(p) /\ tables'[p] = tables[p] /\ \A c : Value(p, c)' = Value(p, c)
  <2>1. p \notin Flushed(relay[r])
    BY <1>9 DEF Flushed, e
  <2> QED
    BY <1>2, <1>7, <1>9, <2>1 DEF FeedsOn, Value
<1>10. ASSUME NEW p \in Plain \cup {Dashboard}, p \in FeedsOn(e)
       PROVE  \A c : Value(p, c)' = OwnCount(p, Loaded(p), e)[c]
  BY <1>8, <1>10, RowsArePresent DEF Value
<1>11. ASSUME NEW p \in Plain, NEW c \in Counts(p) PROVE Value(p, c)' = Tally(p, c, Applied')
  <2>1. Value(p, c) = Tally(p, c, Applied) /\ c \in Columns[p]
    BY <1>1, PlainColumns DEF AloneInv
  <2>2. CASE p \in FeedsOn(e)
    BY <1>6, <1>7, <1>8, <1>10, <2>1, <2>2, CountedPlain
  <2>3. CASE p \notin FeedsOn(e)
    BY <1>3, <1>6, <1>9, <2>1, <2>3, UnfedCountsNowhere
  <2> QED
    BY <2>2, <2>3
<1>12. OpenClaims'
  <2> DEFINE p == "claims_metrics"
  <2>1. p \in Plain /\ {"total", "settled", "rejected"} \subseteq Counts(p)
    BY PlainNames, CountNames
  <2>2. CASE p \in FeedsOn(e)
    <3>1. OwnCount(p, Loaded(p), e).open_claims
            = Clamp0(OwnCount(p, Loaded(p), e).total - OwnCount(p, Loaded(p), e).settled
                     - OwnCount(p, Loaded(p), e).rejected)
      BY <1>7, <1>8, <2>1, <2>2, CountedPlain
    <3>2. Value(p, "open_claims")'
            = Clamp0(Value(p, "total")' - Value(p, "settled")' - Value(p, "rejected")')
      BY <1>10, <2>1, <2>2, <3>1
    <3> QED
      BY <1>11, <2>1, <3>2 DEF OpenClaims
  <2>3. CASE p \notin FeedsOn(e)
    <3>1. \A c : Tally(p, c, Applied') = Tally(p, c, Applied)
      BY <1>3, <1>6, <1>9, <2>1, <2>3, UnfedCountsNowhere
    <3>2. Value(p, "open_claims")' = Value(p, "open_claims")
      BY <1>9, <2>1, <2>3
    <3> QED
      BY <1>1, <3>1, <3>2 DEF OpenClaims, AloneInv
  <2> QED
    BY <2>2, <2>3
<1>13. OutstandingShown'
  <2> DEFINE v == Value(Dashboard, "outstanding_invoices")
             gross == Tally("financial_summary", "gross", Applied)
             paid == Tally("financial_summary", "paid", Applied)
  <2>1. v >= gross - paid /\ gross \in Nat /\ paid \in Nat
    BY <1>1, <1>6 DEF AloneInv, OutstandingShown
  <2>2. "outstanding_invoices" \in Columns[Dashboard]
    BY DEF Columns, Projections, Dashboard, Values, Raises, Lowers
  <2>3. v \in Int
    BY <1>7, <2>2 DEF RowsOf
  <2>4. v' = IF TypeOf[e] = "InvoiceIssued" THEN v + 1
             ELSE IF TypeOf[e] = "InvoicePaid" THEN Clamp0(v - 1) ELSE v
    <3>1. CASE Dashboard \in FeedsOn(e)
      BY <1>7, <1>8, <1>10, <2>2, <3>1, CountedDashboard
    <3>2. CASE Dashboard \notin FeedsOn(e)
      BY <1>3, <1>9, <3>2, InvoiceCounts
    <3> QED
      BY <3>1, <3>2
  <2>5. /\ gross' = IF TypeOf[e] = "InvoiceIssued" THEN gross + 1 ELSE gross
        /\ paid' = IF TypeOf[e] = "InvoicePaid" THEN paid + 1 ELSE paid
    BY <1>3, <1>6, InvoiceCounts
  <2> HIDE DEF v, gross, paid
  <2>6. v' >= gross' - paid'
    BY <2>1, <2>3, <2>4, <2>5 DEF Clamp0
  <2> QED
    BY <2>6 DEF v, gross, paid, OutstandingShown
<1>14. tables'[Dashboard] = Absent \/ tables'[Dashboard] \in RowsOf(Dashboard)
  BY <1>7, <1>8, <1>9
<1>15. overlapped' = {}
  BY <1>1, <1>2 DEF AloneInv
<1> QED
  BY <1>5, <1>11, <1>12, <1>13, <1>14, <1>15 DEF AloneInv

\* Every step keeps the invariant.
LEMMA StepInv == IInv /\ [Next]_vars => IInv'
<1> SUFFICES ASSUME IInv, [Next]_vars PROVE IInv'
  OBVIOUS
<1>1. ASSUME Next PROVE LiveInv'
  <2>1. ASSUME NEW e \in Events, Emit(e) PROVE LiveInv'
    BY <2>1, EmitStays
  <2>2. ASSUME NEW r \in Relays,
               (\E e \in Events : Take(r, e)) \/ Apply(r) \/ Retry(r) \/ Fail(r) \/ DeadLetter(r)
        PROVE  LiveInv'
    BY <2>2, QuietSteps, GivenUpStays
  <2>3. ASSUME NEW r \in Relays, Publish(r) PROVE LiveInv'
    <3>1. scenario' = scenario /\ rebuild' = rebuild
      BY <2>3 DEF Publish
    <3> QED
      BY <2>3, <3>1, PublishRaises, PublishAlone DEF LiveInv, IInv
  <2>4. CASE StartRebuild \/ CommitRebuild \/ AbortRebuild
    <3>1. scenario' = scenario
      BY <2>4 DEF StartRebuild, CommitRebuild, AbortRebuild
    <3>2. scenario.rebuilds # 0
      BY <2>4 DEF StartRebuild, CommitRebuild, AbortRebuild, LiveInv, IInv
    <3> QED
      BY <3>1, <3>2 DEF LiveInv
  <2> QED
    BY <1>1, <2>1, <2>2, <2>3, <2>4 DEF Next
<1>2. CASE Next
  BY <1>1, <1>2, LogStep DEF IInv
<1>3. CASE UNCHANGED vars
  <2>1. LogInv' /\ RelaysKnown' /\ RebuildInv'
    BY <1>3 DEF vars, store, IInv, LogInv, RelaysKnown, RebuildInv
  <2>2. LiveInv'
    BY <1>3, EmitStays
  <2> QED
    BY <2>1, <2>2 DEF IInv
<1> QED
  BY <1>2, <1>3

-----------------------------------------------------------------------------
(* The relays *)

\* The log, what relays hold and what the rows show stay in step, for any number of
\* relays and events (Dispatcher, ProjectionService).
THEOREM Invariance == Spec => []IInv
BY InitInv, StepInv, PTL DEF Spec

\* As long as nobody rebuilds, no counter is above the events that were published; one
\* relay counts each once and keeps the derived columns in step (the handlers of
\* ProjectionService).
THEOREM LiveCountsHold == Spec => []LiveCounts
<1>1. IInv => LiveCounts
  BY DEF IInv, LiveInv, LiveCounts, NoneAbove, Undisturbed, AloneInv, OpenClaims,
         OutstandingShown, Plain, Dashboard
<1> QED
  BY <1>1, Invariance, PTL

-----------------------------------------------------------------------------
(* The replay *)

\* Of some numbers one is the first.
LEMMA FirstNumber ==
  ASSUME NEW S \in SUBSET Nat, S # {}
  PROVE  \E n \in S : \A m \in S : n <= m
<1> DEFINE R == OpToRel(<, Nat)
<1>1. \E n \in S : \A m \in S : ~ (<<m, n>> \in R)
  <2>1. IsWellFoundedOn(R, Nat)
    BY NatLessThanWellFounded
  <2> HIDE DEF R
  <2> QED
    BY <2>1, WFMin
<1>2. \A m, n \in Nat : <<m, n>> \in R <=> m < n
  BY DEF OpToRel
<1> HIDE DEF R
<1>3. PICK n \in S : \A m \in S : ~ (<<m, n>> \in R)
  BY <1>1
<1>4. \A m \in S : n \in Nat /\ m \in Nat /\ ~ (m < n)
  BY <1>2, <1>3
<1>5. \A m \in S : n <= m
  BY <1>4
<1> QED
  BY <1>5

\* The next event of the log, counted if it is replayed and feeds the projection.
Step(p, row, n, events) == IF n \in events \cap Fed(p) THEN Counted(p, row, n) ELSE row

\* The row after each event of a replay of the first of them.
IsReplay(after, last, p, start, events) ==
  after = [n \in 0..last |-> IF n = 0 THEN start ELSE Step(p, after[n - 1], n, events)]

\* The rows of a replay.
LEMMA ReplayRows ==
  ASSUME NEW last \in Nat, NEW after, NEW p, NEW start, NEW events,
         IsReplay(after, last, p, start, events)
  PROVE  /\ after[0] = start
         /\ \A n \in 1..last : after[n] = Step(p, after[n - 1], n, events)
<1> DEFINE G(n) == IF n = 0 THEN start ELSE Step(p, after[n - 1], n, events)
<1>1. after = [n \in 0..last |-> G(n)]
  BY DEF IsReplay
<1>2. \A n \in 0..last : after[n] = G(n)
  <2> HIDE DEF G
  <2> QED
    BY <1>1
<1> HIDE DEF Step
<1> QED
  BY <1>2

\* A log can be replayed.
LEMMA ReplayExists ==
  ASSUME NEW p, NEW start, NEW events
  PROVE  \A last \in Nat : \E after : IsReplay(after, last, p, start, events)
<1> DEFINE Bad == {n \in Nat : ~\E after : IsReplay(after, n, p, start, events)}
<1>1. SUFFICES ASSUME Bad # {} PROVE FALSE
  OBVIOUS
<1>2. PICK n \in Bad : \A m \in Bad : n <= m
  <2>1. Bad \in SUBSET Nat
    OBVIOUS
  <2> HIDE DEF Bad
  <2> QED
    BY <1>1, <2>1, FirstNumber
<1>3. n \in Nat /\ ~\E after : IsReplay(after, n, p, start, events)
  OBVIOUS
<1>4. CASE n = 0
  <2> DEFINE f == [m \in 0..0 |-> start]
  <2>1. f = [m \in 0..0 |-> IF m = 0 THEN start ELSE Step(p, f[m - 1], m, events)]
    OBVIOUS
  <2>2. IsReplay(f, n, p, start, events)
    BY <1>4, <2>1 DEF IsReplay
  <2> QED
    BY <1>3, <2>2
<1>5. CASE n # 0
  <2>1. n - 1 \in Nat /\ n - 1 \notin Bad
    BY <1>2, <1>3, <1>5
  <2>2. PICK f : IsReplay(f, n - 1, p, start, events)
    BY <2>1
  <2> DEFINE g == [m \in 0..n |-> IF m = n THEN Step(p, f[n - 1], n, events) ELSE f[m]]
             G(m) == IF m = 0 THEN start ELSE Step(p, g[m - 1], m, events)
  <2>3. f[0] = start /\ \A m \in 1..(n - 1) : f[m] = Step(p, f[m - 1], m, events)
    BY <2>1, <2>2, ReplayRows
  <2>4. g[n] = Step(p, f[n - 1], n, events) /\ \A m \in 0..(n - 1) : g[m] = f[m]
    BY <1>3
  <2>5. DOMAIN g = 0..n /\ g = [m \in 0..n |-> g[m]]
    OBVIOUS
  <2> HIDE DEF g, Bad
  <2>6. \A m \in 0..n : g[m] = G(m)
    <3> SUFFICES ASSUME NEW m \in 0..n PROVE g[m] = G(m)
      OBVIOUS
    <3>1. CASE m = 0
      BY <1>3, <1>5, <2>3, <2>4, <3>1
    <3>2. CASE m = n
      <4>1. n - 1 \in 0..(n - 1)
        BY <1>3, <1>5
      <4> QED
        BY <1>5, <2>4, <3>2, <4>1
    <3>3. CASE m # 0 /\ m # n
      <4>1. m \in 1..(n - 1) /\ m \in 0..(n - 1) /\ m - 1 \in 0..(n - 1)
        BY <1>3, <3>3
      <4> QED
        BY <2>3, <2>4, <3>3, <4>1
    <3> QED
      BY <3>1, <3>2, <3>3
  <2>7. g = [m \in 0..n |-> G(m)]
    <3> HIDE DEF G
    <3> QED
      BY <2>5, <2>6
  <2>8. IsReplay(g, n, p, start, events)
    BY <2>7 DEF IsReplay
  <2> QED
    BY <1>3, <2>8
<1> QED
  BY <1>4, <1>5

\* Replayed is the last row of a replay.
LEMMA ReplayedIs ==
  ASSUME NEW p, NEW start, NEW events
  PROVE  \E after : /\ after[0] = start
                    /\ \A n \in 1..LastEvent : after[n] = Step(p, after[n - 1], n, events)
                    /\ Replayed(p, start, events) = after[LastEvent]
<1> DEFINE G(f) == [n \in 0..LastEvent |->
                      IF n = 0 THEN start
                      ELSE IF n \in events \cap Fed(p) THEN Counted(p, f[n - 1], n)
                      ELSE f[n - 1]]
           after == CHOOSE f : f = G(f)
<1>1. Replayed(p, start, events) = after[LastEvent]
  BY DEF Replayed
<1>2. \A f : IsReplay(f, LastEvent, p, start, events) <=> f = G(f)
  BY DEF IsReplay, Step
<1> HIDE DEF G
<1>3. LastEvent \in Nat
  BY ProjectionsAssumption
<1>4. \E f : f = G(f)
  BY <1>2, <1>3, ReplayExists
<1>5. IsReplay(after, LastEvent, p, start, events)
  BY <1>2, <1>4
<1> HIDE DEF after
<1> QED
  BY <1>1, <1>3, <1>5, ReplayRows

\* The first n events of a set.
Upto(events, n) == events \cap (1..n)

\* One event further.
LEMMA UptoNext ==
  ASSUME NEW events, events \subseteq Events, NEW n \in 1..LastEvent
  PROVE  /\ n - 1 \in 0..LastEvent /\ n \in Events
         /\ Upto(events, n) = IF n \in events THEN Upto(events, n - 1) \cup {n}
                              ELSE Upto(events, n - 1)
         /\ n \notin Upto(events, n - 1) /\ Upto(events, n - 1) \subseteq Events
         /\ Upto(events, 0) = {} /\ Upto(events, LastEvent) = events
<1>1. LastEvent \in Nat /\ Events = 1..LastEvent
  BY ProjectionsAssumption DEF Events
<1>2. n \in Nat /\ n >= 1 /\ n <= LastEvent /\ n - 1 \in Nat
  BY <1>1
<1>3. 1..n = (1..(n - 1)) \cup {n} /\ n \notin 1..(n - 1) /\ 1..0 = {}
  BY <1>2
<1>4. Upto(events, n) = IF n \in events THEN Upto(events, n - 1) \cup {n}
                        ELSE Upto(events, n - 1)
  <2> DEFINE before == 1..(n - 1)
  <2>1. 1..n = before \cup {n}
    BY <1>3
  <2> HIDE DEF before
  <2>2. events \cap (1..n) = IF n \in events THEN (events \cap before) \cup {n} ELSE events \cap before
    BY <2>1
  <2> QED
    BY <2>2 DEF Upto, before
<1>5. n \notin Upto(events, n - 1) /\ Upto(events, n - 1) \subseteq Events
  BY <1>3 DEF Upto
<1>6. Upto(events, 0) = {} /\ Upto(events, LastEvent) = events
  BY <1>1, <1>3 DEF Upto
<1>7. n - 1 \in 0..LastEvent /\ n \in Events
  BY <1>1, <1>2
<1> QED
  BY <1>4, <1>5, <1>6, <1>7

\* What is counted of one event more.
LEMMA TallyNext ==
  ASSUME NEW events, events \subseteq Events, NEW n \in 1..LastEvent, NEW p, NEW c
  PROVE  /\ Tally(p, c, Upto(events, n - 1)) \in Nat
         /\ Tally(p, c, Upto(events, n))
              = IF n \in events /\ CountsFor(p, c, n) THEN Tally(p, c, Upto(events, n - 1)) + 1
                ELSE Tally(p, c, Upto(events, n - 1))
BY UptoNext, TallyAdd, TallyIsNat

\* A row that is counted anew has in each counter the number of its events.
LEMMA ReplayCounts ==
  ASSUME NEW p \in Plain, NEW events, events \subseteq Events, LastEvent # 0
  PROVE  /\ Replayed(p, NewRow(p), events) \in RowsOf(p)
         /\ \A c \in Counts(p) : Replayed(p, NewRow(p), events)[c] = Tally(p, c, events)
<1>1. PICK after : /\ after[0] = NewRow(p)
                   /\ \A n \in 1..LastEvent : after[n] = Step(p, after[n - 1], n, events)
                   /\ Replayed(p, NewRow(p), events) = after[LastEvent]
  BY ReplayedIs
<1>2. LastEvent \in Nat /\ LastEvent \in 1..LastEvent
  BY ProjectionsAssumption
<1> DEFINE Good(n) == /\ after[n] \in RowsOf(p)
                      /\ \A c \in Counts(p) : after[n][c] = Tally(p, c, Upto(events, n))
           Bad == {n \in 0..LastEvent : ~Good(n)}
<1>3. ASSUME Bad # {} PROVE FALSE
  <2>1. PICK n \in Bad : \A m \in Bad : n <= m
    <3>1. Bad \in SUBSET Nat
      BY <1>2
    <3> HIDE DEF Bad
    <3> QED
      BY <1>3, <3>1, FirstNumber
  <2>2. n \in 0..LastEvent /\ ~Good(n)
    OBVIOUS
  <2>3. CASE n = 0
    <3>1. after[0] \in RowsOf(p) /\ \A c \in Counts(p) : after[0][c] = 0
      BY <1>1, PlainColumns DEF NewRow, RowsOf
    <3>2. \A c : Tally(p, c, Upto(events, 0)) = 0
      BY <1>2, UptoNext, TallyNone
    <3> QED
      BY <2>2, <2>3, <3>1, <3>2
  <2>4. CASE n # 0
    <3>1. n \in 1..LastEvent /\ n \in Events
      BY <1>2, <2>2, <2>4, UptoNext
    <3>2. Good(n - 1)
      <4>1. n - 1 \in 0..LastEvent /\ n - 1 \notin Bad
        BY <1>2, <2>1, <3>1
      <4> QED
        BY <4>1
    <3>3. after[n] = Step(p, after[n - 1], n, events)
      BY <1>1, <3>1
    <3>4. ASSUME NEW c
          PROVE  Tally(p, c, Upto(events, n))
                   = IF n \in events /\ CountsFor(p, c, n) THEN Tally(p, c, Upto(events, n - 1)) + 1
                     ELSE Tally(p, c, Upto(events, n - 1))
      BY <3>1, TallyNext
    <3>5. p \in Projections \ {"ar_aging"}
      BY PlainNames
    <3>6. CASE n \in events \cap Fed(p)
      <4> DEFINE row == after[n - 1]
      <4>1. after[n] = OwnCount(p, row, n)
        BY <3>3, <3>5, <3>6, CountedOwn DEF Step
      <4>2. row \in RowsOf(p) /\ \A c \in Counts(p) : row[c] = Tally(p, c, Upto(events, n - 1))
        BY <3>2
      <4> HIDE DEF row
      <4>3. /\ after[n] \in RowsOf(p)
            /\ \A c \in Counts(p) : after[n][c] = IF CountsFor(p, c, n) THEN row[c] + 1 ELSE row[c]
        BY <3>6, <4>1, <4>2, CountedPlain
      <4>4. Good(n)
        BY <3>4, <3>6, <4>2, <4>3
      <4> QED
        BY <2>2, <4>4
    <3>7. CASE n \notin events \cap Fed(p)
      <4>1. after[n] = after[n - 1]
        BY <3>3, <3>7 DEF Step
      <4>2. \A c : n \in events => ~CountsFor(p, c, n)
        BY <3>1, <3>7, UnfedCountsNowhere
      <4>3. Good(n)
        BY <3>2, <3>4, <4>1, <4>2
      <4> QED
        BY <2>2, <4>3
    <3> QED
      BY <3>6, <3>7
  <2> QED
    BY <2>3, <2>4
<1>4. Good(LastEvent)
  BY <1>2, <1>3
<1>5. Upto(events, LastEvent) = events
  BY <1>2, UptoNext
<1> QED
  BY <1>1, <1>4, <1>5

\* Of the first events of a log no more invoices are paid than were issued.
LEMMA PaidWithinIssued ==
  ASSUME NEW all, all \subseteq Events, PaidWereIssued(all), NEW events, events \subseteq all,
         \A e \in events, f \in all : f < e /\ SubjectOf[f] = SubjectOf[e] => f \in events,
         NEW n \in Nat
  PROVE  Tally("financial_summary", "paid", Upto(events, n))
           <= Tally("financial_summary", "gross", Upto(events, n))
<1> DEFINE Paid == {e \in Upto(events, n) : TypeOf[e] = "InvoicePaid"}
           Issued == {e \in Upto(events, n) : TypeOf[e] = "InvoiceIssued"}
           issue == [e \in Paid |-> CHOOSE i \in Issued : SubjectOf[i] = SubjectOf[e]]
<1>1. \A e : TypeOf[e] \in DOMAIN Counters["financial_summary"]
               /\ Counters["financial_summary"][TypeOf[e]] = "gross" <=> TypeOf[e] = "InvoiceIssued"
  BY PlainNames DEF FinancialCounters
<1>2. \A e : TypeOf[e] \in DOMAIN Counters["financial_summary"]
               /\ Counters["financial_summary"][TypeOf[e]] = "paid" <=> TypeOf[e] = "InvoicePaid"
  BY PlainNames DEF FinancialCounters
<1>3. /\ Tally("financial_summary", "gross", Upto(events, n)) = Cardinality(Issued)
      /\ Tally("financial_summary", "paid", Upto(events, n)) = Cardinality(Paid)
  BY <1>1, <1>2 DEF Tally
<1>4. IsFiniteSet(Issued)
  <2>1. IsFiniteSet(Events) /\ Issued \in SUBSET Events
    BY FS_Interval, ProjectionsAssumption DEF Events, Upto
  <2> QED
    BY <2>1, FS_Subset
<1>5. ASSUME NEW e \in Paid PROVE \E i \in Issued : SubjectOf[i] = SubjectOf[e]
  <2>1. e \in events /\ e \in all /\ e \in 1..n
    BY DEF Upto
  <2>2. PICK i \in all : i < e /\ TypeOf[i] = "InvoiceIssued" /\ SubjectOf[i] = SubjectOf[e]
    BY <2>1 DEF PaidWereIssued
  <2>3. i \in events
    BY <2>1, <2>2
  <2>4. i \in 1..n
    BY <2>1, <2>2, ProjectionsAssumption DEF Events
  <2> QED
    BY <2>2, <2>3, <2>4 DEF Upto
<1>6. \A e \in Paid : issue[e] \in Issued /\ SubjectOf[issue[e]] = SubjectOf[e]
  BY <1>5
<1>7. ASSUME NEW e \in Paid, NEW f \in Paid, issue[e] = issue[f] PROVE e = f
  <2>1. SubjectOf[e] = SubjectOf[f]
    <3> HIDE DEF issue
    <3> QED
      BY <1>6, <1>7
  <2>2. e \in all /\ f \in all /\ TypeOf[e] = "InvoicePaid" /\ TypeOf[f] = "InvoicePaid"
    BY DEF Upto
  <2> QED
    BY <2>1, <2>2 DEF PaidWereIssued
<1>8. issue \in Injection(Paid, Issued)
  <2>1. issue \in [Paid -> Issued] /\ DOMAIN issue = Paid
    BY <1>6
  <2> HIDE DEF issue
  <2> QED
    BY <1>7, <2>1 DEF Injection, IsInjective
<1> HIDE DEF issue, Paid, Issued
<1> QED
  BY <1>3, <1>4, <1>8, FS_Injection

\* The dashboard that is counted anew shows the invoices that are outstanding: in the
\* order of the log it is never clamped.
LEMMA ReplayShowsOutstanding ==
  ASSUME NEW all, all \subseteq Events, PaidWereIssued(all), NEW events, events \subseteq all,
         \A e \in events, f \in all : f < e /\ SubjectOf[f] = SubjectOf[e] => f \in events,
         LastEvent # 0
  PROVE  /\ Replayed(Dashboard, NewRow(Dashboard), events) \in RowsOf(Dashboard)
         /\ Replayed(Dashboard, NewRow(Dashboard), events).outstanding_invoices
              = Tally("financial_summary", "gross", events)
                - Tally("financial_summary", "paid", events)
<1> DEFINE p == Dashboard
           gross(n) == Tally("financial_summary", "gross", Upto(events, n))
           paid(n) == Tally("financial_summary", "paid", Upto(events, n))
<1>1. PICK after : /\ after[0] = NewRow(p)
                   /\ \A n \in 1..LastEvent : after[n] = Step(p, after[n - 1], n, events)
                   /\ Replayed(p, NewRow(p), events) = after[LastEvent]
  BY ReplayedIs
<1>2. LastEvent \in Nat /\ LastEvent \in 1..LastEvent
  BY ProjectionsAssumption
<1>3. events \subseteq Events /\ p \in Projections \ {"ar_aging"}
  BY PlainNames DEF Dashboard
<1>4. "outstanding_invoices" \in Columns[p]
  BY DEF Columns, Projections, Dashboard, Values, Raises, Lowers
<1> DEFINE Good(n) == /\ after[n] \in RowsOf(p)
                      /\ after[n].outstanding_invoices = gross(n) - paid(n)
           Bad == {n \in 0..LastEvent : ~Good(n)}
<1>5. ASSUME Bad # {} PROVE FALSE
  <2>1. PICK n \in Bad : \A m \in Bad : n <= m
    <3>1. Bad \in SUBSET Nat
      BY <1>2
    <3> HIDE DEF Bad
    <3> QED
      BY <1>5, <3>1, FirstNumber
  <2>2. n \in 0..LastEvent /\ ~Good(n)
    OBVIOUS
  <2>3. CASE n = 0
    <3>1. after[0] \in RowsOf(p) /\ after[0].outstanding_invoices = 0
      BY <1>1, <1>4 DEF NewRow, RowsOf
    <3>2. gross(0) = 0 /\ paid(0) = 0
      BY <1>2, <1>3, UptoNext, TallyNone, PlainNames
    <3> HIDE DEF gross, paid
    <3> QED
      BY <2>2, <2>3, <3>1, <3>2
  <2>4. CASE n # 0
    <3>1. n \in 1..LastEvent /\ n \in Events
      BY <1>2, <1>3, <2>2, <2>4, UptoNext
    <3>2. Good(n - 1)
      <4>1. n - 1 \in 0..LastEvent /\ n - 1 \notin Bad
        BY <1>2, <2>1, <3>1
      <4> QED
        BY <4>1
    <3>3. after[n] = Step(p, after[n - 1], n, events)
      BY <1>1, <3>1
    <3>4. /\ gross(n - 1) \in Nat /\ paid(n - 1) \in Nat
          /\ gross(n) = IF n \in events /\ TypeOf[n] = "InvoiceIssued" THEN gross(n - 1) + 1
                        ELSE gross(n - 1)
          /\ paid(n) = IF n \in events /\ TypeOf[n] = "InvoicePaid" THEN paid(n - 1) + 1
                       ELSE paid(n - 1)
      BY <1>3, <3>1, TallyNext, InvoiceCounts
    <3>5. paid(n) <= gross(n)
      <4>1. n \in Nat
        BY <1>2, <3>1
      <4> HIDE DEF Bad, Good
      <4> QED
        BY <4>1, PaidWithinIssued
    <3> DEFINE row == after[n - 1]
               v == row.outstanding_invoices
    <3>6. row \in RowsOf(p) /\ v = gross(n - 1) - paid(n - 1)
      BY <3>2
    <3> HIDE DEF gross, paid
    <3>7. CASE n \in events \cap Fed(p)
      <4>1. after[n] = OwnCount(p, row, n)
        BY <1>3, <3>3, <3>7, CountedOwn DEF Step
      <4>2. /\ OwnCount(p, row, n) \in RowsOf(p)
            /\ OwnCount(p, row, n).outstanding_invoices
                 = IF TypeOf[n] = "InvoiceIssued" THEN v + 1
                   ELSE IF TypeOf[n] = "InvoicePaid" THEN Clamp0(v - 1) ELSE v
        BY <3>6, <3>7, CountedDashboard
      <4> HIDE DEF row, v
      <4>3. after[n] \in RowsOf(p) /\ after[n].outstanding_invoices = gross(n) - paid(n)
        BY <3>4, <3>5, <3>6, <3>7, <4>1, <4>2 DEF Clamp0
      <4> QED
        BY <2>2, <4>3
    <3>8. CASE n \notin events \cap Fed(p)
      <4>1. after[n] = row
        BY <3>3, <3>8 DEF Step
      <4>2. n \in events => TypeOf[n] \notin {"InvoiceIssued", "InvoicePaid"}
        BY <3>1, <3>8, InvoiceCounts
      <4>3. gross(n) = gross(n - 1) /\ paid(n) = paid(n - 1)
        BY <3>4, <4>2
      <4> QED
        BY <2>2, <3>6, <4>1, <4>3
    <3> QED
      BY <3>7, <3>8
  <2> QED
    BY <2>3, <2>4
<1>6. Good(LastEvent)
  BY <1>2, <1>5
<1>7. Upto(events, LastEvent) = events
  BY <1>2, <1>3, UptoNext
<1> QED
  BY <1>1, <1>6, <1>7

\* What a rebuild leaves is counted from the events it loaded, each of them once, and the
\* dashboard shows what is outstanding by them (rebuild_all_projections, _replay).
THEOREM RebuildsFromLog == Spec => RebuiltFromLog
<1> DEFINE Shown(p, c) == IF tables'[p] = Absent THEN 0 ELSE tables'[p][c]
           Rebuilds == rebuild.pc = "loaded" /\ tables' # tables /\ rebuild'.pc = "idle"
           Anew ==
             /\ \A p \in rebuild.of \cap DOMAIN Counters : \A c \in Counts(p) :
                  Shown(p, c) = Tally(p, c, rebuild.events)
             /\ "operations_dashboard" \in rebuild.of =>
                  (IF tables'["operations_dashboard"] = Absent THEN 0
                   ELSE tables'["operations_dashboard"].outstanding_invoices)
                    = Tally("financial_summary", "gross", rebuild.events)
                      - Tally("financial_summary", "paid", rebuild.events)
<1>1. ASSUME IInv, CommitRebuild PROVE Anew
  <2> DEFINE events == rebuild.events
             all == scenario.events
  <2>1. /\ all \subseteq Events /\ PaidWereIssued(all) /\ events \subseteq all
        /\ \A e \in events, f \in all : f < e /\ SubjectOf[f] = SubjectOf[e] => f \in events
    BY <1>1, ProjectionsAssumption DEF IInv, LogInv, RebuildInv, CommitRebuild
  <2>2. tables' = [p \in Projections |->
           IF p \notin rebuild.of THEN tables[p]
           ELSE IF events \cap Fed(p) = {} THEN Absent
           ELSE Replayed(p, NewRow(p), events)]
    BY <1>1 DEF CommitRebuild, RebuiltRow
  <2> HIDE DEF events, all
  <2>3. ASSUME NEW p, events \cap Fed(p) # {} PROVE LastEvent # 0
    BY <2>1, <2>3 DEF Fed, Events
  <2>4. ASSUME NEW p \in rebuild.of \cap Plain, NEW c \in Counts(p)
        PROVE  Shown(p, c) = Tally(p, c, events)
    <3>1. p \in Projections
      BY PlainNames
    <3>2. CASE events \cap Fed(p) = {}
      <4>1. tables'[p] = Absent
        BY <2>2, <3>1, <3>2
      <4>2. Tally(p, c, events) = 0
        BY <2>1, <3>2, TallyNone
      <4> QED
        BY <4>1, <4>2
    <3>3. CASE events \cap Fed(p) # {}
      <4>1. tables'[p] = Replayed(p, NewRow(p), events)
        BY <2>2, <3>1, <3>3
      <4>2. LastEvent # 0 /\ events \subseteq Events
        BY <2>1, <2>3, <3>3
      <4>3. tables'[p] \in RowsOf(p) /\ tables'[p][c] = Tally(p, c, events)
        BY <4>1, <4>2, ReplayCounts
      <4> QED
        BY <4>3, RowsArePresent
    <3> QED
      BY <3>2, <3>3
  <2>5. ASSUME Dashboard \in rebuild.of
        PROVE  Shown(Dashboard, "outstanding_invoices")
                 = Tally("financial_summary", "gross", events)
                   - Tally("financial_summary", "paid", events)
    <3>1. Dashboard \in Projections
      BY PlainNames
    <3>2. CASE events \cap Fed(Dashboard) = {}
      <4>1. tables'[Dashboard] = Absent
        BY <2>2, <2>5, <3>1, <3>2
      <4>2. \A e \in events : e \in Events /\ TypeOf[e] \notin {"InvoiceIssued", "InvoicePaid"}
        BY <2>1, <3>2, InvoiceCounts
      <4>3. \A e \in events : /\ ~CountsFor("financial_summary", "gross", e)
                              /\ ~CountsFor("financial_summary", "paid", e)
        BY <4>2, InvoiceCounts
      <4>4. \A c : (\A e \in events : ~CountsFor("financial_summary", c, e))
                     => Tally("financial_summary", c, events) = 0
        <5> SUFFICES ASSUME NEW c, \A e \in events : ~CountsFor("financial_summary", c, e)
                     PROVE  Tally("financial_summary", c, events) = 0
          OBVIOUS
        <5>1. {e \in events : /\ TypeOf[e] \in DOMAIN Counters["financial_summary"]
                              /\ Counters["financial_summary"][TypeOf[e]] = c} = {}
          BY DEF CountsFor
        <5> QED
          BY <5>1, FS_EmptySet DEF Tally
      <4> QED
        BY <4>1, <4>3, <4>4
    <3>3. CASE events \cap Fed(Dashboard) # {}
      <4>1. tables'[Dashboard] = Replayed(Dashboard, NewRow(Dashboard), events)
        BY <2>2, <2>5, <3>1, <3>3
      <4>2. LastEvent # 0
        BY <2>3, <3>3
      <4>3. /\ tables'[Dashboard] \in RowsOf(Dashboard)
            /\ tables'[Dashboard].outstanding_invoices
                 = Tally("financial_summary", "gross", events)
                   - Tally("financial_summary", "paid", events)
        BY <2>1, <4>1, <4>2, ReplayShowsOutstanding
      <4> QED
        BY <4>3, RowsArePresent
    <3> QED
      BY <3>2, <3>3
  <2> QED
    BY <2>4, <2>5 DEF Plain, Dashboard, events
<1>2. ASSUME IInv, [Next]_vars, Rebuilds PROVE CommitRebuild
  <2>1. rebuild' # rebuild /\ tables' # tables
    BY <1>2
  <2>2. ASSUME NEW e \in Events, Emit(e) PROVE FALSE
    BY <2>1, <2>2 DEF Emit
  <2>3. ASSUME NEW r \in Relays, RelayStep(r) PROVE FALSE
    <3>1. \E next : RelayMoves(r, next)
      BY <1>2, <2>3, RelaySteps DEF IInv
    <3> QED
      BY <2>1, <3>1 DEF RelayMoves
  <2>4. ~StartRebuild /\ ~AbortRebuild /\ ~UNCHANGED vars
    BY <2>1 DEF StartRebuild, AbortRebuild, store, vars
  <2> QED
    BY <1>2, <2>2, <2>3, <2>4 DEF Next, RelayStep
<1>3. IInv /\ [Next]_vars => [Rebuilds => Anew]_vars
  <2> HIDE DEF Rebuilds, Anew
  <2> QED
    BY <1>1, <1>2
<1> QED
  BY <1>3, Invariance, PTL DEF Spec, RebuiltFromLog

=============================================================================
