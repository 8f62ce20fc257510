# Formal models of the Logistics Management System

A verification development kept beside the FastAPI/SQLAlchemy service under
`src/app`. It holds TLA+ models of the parts whose correctness depends on the
order in which requests, workers and crashes happen, TLC configurations that
check them on small instances, and TLAPS proofs of the results that matter most
for every instance. `PROJECT.json` lists the runs, the mutants that show each
property can fail, the source lines of every definition, the findings, the
hazards and the theorems.

## 1. The system

A multi-tenant logistics back end. HTTP routes call services; a service loads
ORM rows, validates, mutates them and appends domain events to the event store
in the same transaction; Celery workers relay the events to consumers.

Three facts of `db/session.py` and the models shape everything:

* one session, and normally one transaction, per request, at READ COMMITTED,
  with `autoflush=False`: a query does not see what its own session has changed
  but not flushed;
* nearly every aggregate has a `version` column declared as `version_id_col`:
  an UPDATE of a row whose version has moved raises `StaleDataError`, which the
  services turn into `ConcurrencyConflictError` after a rollback. Rows that are
  only *read* to validate are not protected, nor are INSERTs, and `EventStore`,
  `ProcessedEvent`, `PartnerApiKey`, `InboundIntegrationEvent`, `WebhookDelivery` and its
  attempts, `NotificationDeliveryAttempt` and the projections have no version;
* `event_store` is unique on `(aggregate_id, aggregate_version)`; `_emit` takes
  max + 1, so two requests that append to one aggregate conflict.

### Components

| component | state it keeps | operations | interacts with | what is hard | what makes it correct |
|---|---|---|---|---|---|
| Shipments (`services/shipment_service.py`, `shipment_policies.py`) | shipment rows: status, driver, vehicle, equipment, warehouses, load, deletion, version; the event stream of each | create, update, mark ready, assign, self-accept, pickup, transit, delay, deliver, fail, return, cancel, delete, restore | drivers, vehicles, equipment (read), compliance gate (call), event store | guards are read at one time and the row written at another; the gate commits before the row is loaded again | drivers, vehicles and equipment double-booked and warehouses overfilled only in the ways named, the status table, no lost update, events chain, cargo moves only as judged |
| Event backbone (`events/*`, `repositories/event_store_repository.py`) | `event_store` (published_at, attempts, next_attempt_at), `processed_events`, `dead_letters` | append, relay run, dispatch to consumers, back-off, parking, operator replay | every service (producer), notifications, projections, integrations (consumers) | overlapping runs, crashes between two units of work, poison consumers, replay | nothing lost or given up early, a consumer applies an event once unless runs overlap on it |
| Billing (`services/billing_service.py`, `billing_policies.py`) | invoices with totals, payments, penalties, quotes | create, issue, update, void, cancel, mark overdue, penalty, cancellation fee, record/stage/fail payment; the quote life cycle | settlements (adjust an invoice), event store | payments are inserts, so the invoice version does not serialise them | totals add up, status tells the money, closed stays closed, no overpayment |
| Settlements (`services/settlement_service.py`) | settlement rows, payouts | create, submit, approve, settle, cancel, edit, payout, consume a claim | claims (read), billing (adjusts an invoice) | amounts checked at creation and edited later; two commits in one call | a backed settlement rests on an approval, a decided amount stays, payouts only of what was approved, an invoice's adjustment is told once |
| Claims (`services/claims_service.py`, `insurance_policies.py`) | claim status, amounts, liability records | create, review, approve, reject, settle, close, reopen, liability | policies, settlements | shares checked by a query before an insert; reopening | shares exceed 100 % only by an override or by recorders who did not see each other, a decided claim has an amount |
| Insurance policies (`services/insurance_service.py`) | policy status | create, activate, suspend, expire, cancel | claims | status against claim creation | the status table |
| Compliance (`services/compliance_service.py`) | permits, escorts, compliance checks, overrides | permit life cycle, evaluate, override, `validate_dispatch` | shipments (caller of the gate), equipment | the gate's answer ages; failed checks accumulate | cargo that needs a permit moves only under one |
| Equipment (`services/equipment_service.py`) | categories, models; units: status, availability | register, edit, reserve, assign, release, transit, maintenance, retire, delete, restore | shipments | two fields that tell one story | status and availability agree |
| Orders (`services/order_service.py`) | order status, stamps, dispatcher | submit, approve, schedule, assign, transit, deliver, cancel, fail | shipments | an end announced while the order moves on | every stage stamped, a cancellation told once with the right compensation flag, an end is an end |
| Webhook deliveries (`services/integration_service.py`, `integrations/sweep.py`) | deliveries, their attempts | create from an event, attempt, retry, cancel, sweep | event relay, the partner's server | a row lock held across an HTTP call, overlapping sweeps, no version column | every delivery settled, not given up early, delivered only if accepted, one call at a time |
| Partners, keys, subscriptions, inbound events (`services/integration_service.py`, `integrations/policies.py`) | their rows, a rate window in memory | edit, suspend, revoke, rotate, authenticate, receive, process, reject | the partner | duplicate inbound events; keys and events have no version column | an inbound event is taken once, a revoked key stays revoked, only signed events are processed |
| Notifications (`services/notification_service.py`) | notification rows | create, queue, send, fail, cancel, retry | relay, e-mail/SMS providers | the provider is called inside the transaction | one notification for a key, delivered by one attempt, attempts numbered without gaps |
| Projections (`services/projection_service.py`, `projections/engine.py`) | counters in one row per projection and period | apply an event, rebuild | relay | read-modify-write without a version; rebuild against live consumption | counters never exceed the events applied unless relays overlap on one, a rebuild leaves the fold of the log |
| Customers (`services/customer_service.py`) | customers, their numbers | create, edit, activate, suspend, delete, restore | orders, quotes | uniqueness asked of live rows, indexed over all | numbers are distinct |
| Drivers, vehicles, warehouses, users | plain rows with unique keys | create, rename, availability, delete | read by shipments and orders | asked before others commit | keys identify a row, one profile per user |
| Authentication (`services/auth_service.py`, `core/token_service.py`, `core/redis.py`) | refresh tokens and a denylist in Redis | login, refresh, logout | every route | rotation under concurrent use; Redis down | a refresh token is used once |
| Workers (`workers/*`) | none of their own; the beat schedule | run the relay, sweeps and expiry tasks | everything above | `acks_late`, overlapping beats, crashes | eventual delivery |
| Tenancy, routes, schemas, observability, configuration, migrations, clients | – | – | – | – | outside the models, see section 7 |

## 2. Modules

Two kinds. Four parts of the system have a protocol of their own and a module
that models it step by step; the projections are a fifth. The rest of the services
share one pattern, load rows, decide, flush under a version, and are modules
over `OptimisticRows`, composed so that requests of different services meet in
the rows they share.

| module | what it is | code |
|---|---|---|
| `ShipmentPolicies`, `Shipment` | the shipment service over its tables, many requests; implements `OptimisticRows` | `shipment_service.py`, `shipment_policies.py`, `shipment_repository.py` |
| `EventDelivery` | abstract: what the backbone promises each consumer about each event | the dispatcher |
| `OutboxRelay` | outbox, relay runs, dispatcher, idempotent consumers, dead letters, replay; implements `EventDelivery` | `events/relay.py`, `bus.py`, `dispatcher.py`, `event_store_repository.py` |
| `InvoicePayments` | invoices, payments, penalties and claim adjustments | `billing_service.py`, `billing_policies.py`, `settlement_service.py` |
| `WebhookDelivery` | one outbound delivery: sweeps, attempts, retries, cancellation, signing | `integration_service.py`, `integrations/sweep.py`, `integrations/delivery.py` |
| `Projections` | the read models counted from the events, and their rebuild | `projection_service.py`, `projection_repository.py`, `analytics/handlers.py` |
| `OptimisticRows` | abstract: units of work on versioned rows | `db/session.py`, `db/mixins.py`, `__mapper_args__` of the models |
| `InsuranceClaims` | policies, rules, claims, damage reports, liability | `insurance_service.py`, `claims_service.py` |
| `Settlements` | settlements, payouts, consuming a claim against an invoice | `settlement_service.py` |
| `Commerce` | customers, orders, quotes | `customer_service.py`, `order_service.py`, `billing_service.py` |
| `BackOffice` | composition of the three above | |
| `Equipment` | categories, models, units | `equipment_service.py` |
| `Compliance` | permits, escorts, checks, the gate and a shipment before it | `compliance_service.py` |
| `Partners` | partners, keys, subscriptions, inbound events | `integration_service.py` |
| `Notifications` | templates, notifications, attempts, the event consumer | `notification_service.py` |
| `Access` | users, drivers, vehicles, warehouses, refresh tokens | `auth_service.py`, `token_service.py`, the routes |
| `Operations` | composition of the five above | |
| `*Proofs` | theorems about the module they are named for | |
| `MC*` | values of the constants for TLC | |

A service call that a guard rejects changes nothing and is no step. A call that
succeeds is one action per span in which nothing else can be seen to happen:
the step that reads and validates leaves its result in `req[r]`, and the step
that flushes and commits applies it. Between the two any other request may
commit. `Abort` ends a request that has not committed: it stands for a failed
flush, any exception, a dropped connection and a crash of the process.

### Shipment

`ship[s]` is the row with its version; `told[s]` the last status change in its
event stream; `missed[r]` the shipments written since request `r` read (history, for the two properties about
bookings); `req[r]` what a request holds in memory: the row it loaded
(`snap`), the row it will flush (`next`) and the equipment the compliance gate
let pass for it (`judged`). Each handler is an action named for the operation;
`ToFlush` leaves the request at its commit, which `Commit` performs with the
version check and the status event. Pickup and transit call the gate, whose
unit of work commits, and load the shipment *again* (`_transition`): they are
`EnforceGate` and `MoveGated`; `assign_shipment` keeps the row it loaded first.
Drivers becoming unavailable, vehicles leaving service, equipment ceasing to be
assignable and the gate changing its mind are the environment (`SetAvailability`,
`SetVehicleStatus`, `SetEquipmentStatus`, `SetCompliance`), free at any time.

The instance `Optimistic` reads the protocol of `OptimisticRows` off this state: the rows as they are;
a request that waits for its flush as a plan for one row while `VersionMatches`, as doomed from then
on; one that only passed the gate as idle. `EnforceGate` and the environment are stutters,
`MoveGated` and the handlers `TakeUp`. `InvoicePayments` does not implement that protocol, for the status a
payment writes is computed at the flush from the payments there are by then.

### EventDelivery and OutboxRelay

Events are numbered in the order `(occurred_at, event_id)` in which the relay
reads them. A relay run is `Read` (the batch with the attempts read with it),
then per event `StartPublish` (the unit of work opens and looks up
`processed_events`), `CommitPublish` (handlers, dead letters of poison
consumers, the processed marks, `published_at`), or
`Fail` (rollback) followed by `BackOff` (attempts written as *read + 1*) or `Park`
(the relay gives up). `Crash` kills a worker anywhere; `Elapse` is time reaching
`next_attempt_at`. `ReplaySpec` adds an operator: `MarkReplayed` then `Republish`
in separate units of work, or `ReplayInOne` in one, where the identity map still
holds the row whose deletion is pending. The operator's dispatch is one step. `mark_processed` asks
again and keeps a mark that is there, so that a run that had found none commits the handler's writes
beside another's; the primary key refuses only marks inserted at the same time. `overlapped` is the
history of the events of which two transactions were open at once. No code of the application calls
`mark_dead_letter_replayed`; the replay follows its docstring and the tests.

`EventDelivery` has one state per subscribed (consumer, event) pair and two
steps, `Send` and `Settle`. The mapping in `OutboxRelay` reads it off the tables:
a pair is *applied* if the handler's writes are committed, *parked* if only a dead
letter is, *pending* if the event is committed and neither holds.

### InvoicePayments

`inv[i]` is the invoice row (status, lines, penalty, adjustment, total, version),
`paid` and `pending` what its payments sum up to, `charged` and `credited` the history of
penalties and adjustments the row must account for. `RecordPayment` and the
row-changing operations decide and leave the request at `CommitRow`,
`CommitPayment` or `CommitStaged`. The point of the model is what serialises two
payments: each appends an event to the *invoice's* stream and
`CommitPayment` writes the invoice row only when the recomputed status differs.

### WebhookDelivery

`row[d]` is the delivery's row as committed: status, `attempt_count`, whether `next_attempt_at` is
null, future or past, whether it is signed. `attempt_delivery` is one transaction: `SweepAttempt`
or `ClientAttempt` loads the row, `Number` reads the next attempt number, `Lock` is the flush of
"delivering" that takes the row lock (`Resign` when the row was unsigned), `Send` is the
provider's call, which may fail for us and still have been accepted, and `CommitAttempt` records
the attempt and what follows from the row *as loaded*. The table has no version column, so a
row that moved between load and lock is overwritten; what stops it is the unique attempt number
(`Collide`), when the number was read too early. `ListDue` is the sweep's own transaction.
"delivering" is never a committed status. The secret that cannot be decrypted is `readable`,
free to change; `sent`, `skipped` and `accepted` are history the row is compared with. A row is
due or not, so batches of 100 and the order of a sweep are left open.

### Projections

`tables[p]` is the row of projection `p` for one tenant, period and currency, `marked` the
`processed_events` of the consumer "analytics". A relay takes an event (`Take`, the look-up of the
mark), loads the rows and counts in memory (`Apply`), and commits rows and mark together
(`Publish`). A handler that fails is run again on rows loaded anew, without asking for the mark
(`Retry`), and a poisoned event, one that cannot be read or whose retries are used up, is marked with a
dead letter while nothing is counted (`DeadLetter`); a transaction that rolls back leaves nothing
(`Fail`). `Applied`, the marks without a dead letter, is what rows are compared with. A mark
that another relay has committed meanwhile stays, as in `mark_processed`, and the event is counted again:
`overlapped` is the history of the events that two relays had in hand at once. Rows have no version, and an UPDATE sets the columns that changed, so `Merged`
overwrites what another relay counted in the same column. `incarnation` is the identity of a row: a
relay that holds a row a rebuild has deleted, and has changed it, updates none and fails. A rebuild of
one projection or of all seven loads the whole log (`StartRebuild`), and later deletes and recounts in one step (`CommitRebuild`), because from the
delete to the commit it holds the row locks. Events that have no column to count in make no row.

### OptimisticRows and the services over it

`db` maps the keys of the rows looked at to rows, of all tables, and entries of unique
indexes (`Entry`); `req[r]` is a `Plan`: the rows it loaded, the rows it will write, and what it
does after the commit. `Prepare` is the step that reads and decides, `Commit` flushes. Versions
are only compared for equality and every write raises them, so no number is kept: when a row is
written, every other request that is going to write it becomes *doomed* and can only abort. For tables
without a version column (`Unversioned`) the later commit merges what it changed (`Stored`). Rows
that were only read protect nothing, exactly as in the code.

Each service is a module that EXTENDS it; each operation is an action with the
operation's name whose guard is the code's sequence of checks and whose plan is the
assignments. Tables of transitions are translated from the state machines in `*_policies.py`.
Operations that take two transactions plan the second one in `then`:
`consume_claim_settlement` commits the settlement and then loads the invoice
(`ApplyInvoiceClaimAdjustment`), a refresh consumes the token in Redis and then issues its
successor (`IssueTokenPair`). The announcements that a property speaks of are rows
(`Cancellations`, `Consumptions`); other events are left to `OutboxRelay`.

## 3. Runs

Every property has a mutant in `PROJECT.json`, a plausible bug in a
mapped definition under which TLC finds the property violated.

| run | specification and bounds | shows |
|---|---|---|
| `shipment_races` | 1 shipment, 2 requests, every operation, version < 5 when a call starts | implements `OptimisticRows` (so no lost update), history kept (legal status steps, deleted and terminal rows frozen), chained events, assignment only with judged cargo; the inductive invariant |
| `shipment_bookings` | 2 shipments of load 1–2, 1 driver, 1 vehicle, 1 unit, 1 warehouse of capacity 2, 2 requests, every operation, updates of equipment and load, version < 3, the environment still | two shipments come to share a driver, a vehicle or a unit only by a request that looked before the other's last write, or by a restore; a warehouse is overfilled only by such a request, a restore or an update of load or route |
| `outbox_live` | 1 event of 2 consumers, 2 runs, 3 attempts, 2 crashes, under fairness | implements `EventDelivery`; the event leaves the outbox, every delivery is settled |
| `outbox_replay` | 2 events of 1 aggregate, 2 consumers of which one ignores event 2, 2 runs, batch 1, 2 attempts, 1 crash, a replay of either kind | the inductive invariant (nothing lost, not given up early, applied once unless runs overlap on the event); a replay applies an event once more at most, under the same condition |
| `invoice_races` | 1 invoice of total 0 or 3, amounts 1–2, 2 requests, every operation, version < 6 | sums and status agree with the money; money only on open invoices and an open invoice owes, unless an adjustment touched it; closed stays closed |
| `webhook_races` | 1 delivery, 2 sweeps, 1 client with 1 call, 1 retry, 1 raised or dead attempt, under fairness | one call at a time, not given up early, settled in the end; the inductive invariant (counts invent no attempt, delivered means accepted) |
| `back_office` | 2 requests; 8 neighbourhoods of rows: a policy and its rule; a claim under a policy; a claim and its liability shares; a settlement with its payout; two settlements against one invoice; two customers and two numbers; an order and its cancellation; a quote | `ClaimsInv`: decided claims have amounts, settlements rest on approvals, payouts on approved settlements, an invoice's adjustment is told once; shares exceed 100 % only by an override or by two records checked without each other; numbers distinct; cancellations told once with the right flag; amounts of quotes add up; no lost update; decisions and ends stay |
| `operations` | 2 requests; 17 neighbourhoods: reference data; a unit; permits; a shipment before the gate with a permit, an escort or checks; partners; keys and inbound events; subscriptions; templates; notifications with attempts and events (three); drivers; vehicles; warehouses; sessions | status and availability agree; permits were approved, dispatched cargo had its permit; the gate and the evaluation agree; inbound events once, processed only if signed, revoked keys stay so; one notification for a key, delivered once, attempts accounted; keys identify, one live token per login; decisions stay |
| `projections` | 7 sets of 2–4 events of claims, invoices, shipments and notifications, 1 or 2 relays, retries and dead letters at will, up to 2 rebuilds of one projection or of all | without rebuilds no counter exceeds the events applied, unless two relays had one of them in hand at once; a single relay counts each once; a rebuild leaves the fold of the log it loaded |

Why the bounds are enough. Two requests are enough for every race here: a
request's commit depends on the rows it read and the rows now, and a third
request only adds another overwriting commit. The version bounds reach from creation to every
terminal status: in `shipment_races` by way of self-accept, in five calls, and to the terminal
statuses off that way with calls to spare; in `invoice_races` with a detour to spare. Over `OptimisticRows` no bound on versions is needed, for no number is
kept. Rows a service touches together are in one neighbourhood, and operations on
other rows cannot disturb them, which is why neighbourhoods are checked instead of one large
database. Loads and capacities are the least that allow both a fit
and a misfit; amounts 1, 2 of a total of 3 give partial payment, exact payment
and excess; shares of 50 and 60 make 100 and exceed it, and a third record is there for a sum that saw one
and missed another. Two attempts make back-off and giving up both happen; one crash at
any point covers each window, since a crashed run leaves nothing but committed
rows. A batch holds one event in both runs: what a run does with the next one of its batch is what it would do having read it
alone, but for the attempts read earlier, which the theorems cover with every `BatchSize`. The liveness run has one
event, for a failing one leaves the batch by its back-off and holds nothing up; what may delay it for ever is in its own
row and the runs on it. In `shipment_bookings` the questions asked of the database look at drivers, vehicles, units and
loads bound by *other* shipments, so two shipments decide them; three versions are creation, readiness and
assignment, or creation, self-accept and what comes next, a deletion for example; or a deletion and a restore. The constants `Edits` and `Unsteady`
keep the updates and the toggles that these questions do not read out of it, and `shipment_races` has
them all. Its deadlocks are the version bound's: no status is final before it is reached. Deliveries share nothing but the sweep's list, so one of them shows every race. In
`back_office` both clients record liability on one claim. What the bounds cut off is what
the theorems of section 5 cover.

Deadlock is off where the system may really stop: every event published, every
invoice closed, every delivery settled, every row in a terminal status; and in `shipment_bookings`, where
the bound on versions ends every behaviour.

### Fairness

`FairSpec` asks weak fairness of each relay run (`RelayStep`) and of `Elapse`.
The beat schedule starts `relay_outbox` every 30 s, `acks_late` gives a run that died
back to another worker, and a run takes its steps unless it crashes; time passes.
Nothing fair is asked of emitting, of failures, of crashes or of operators; their
number is bounded only by `MaxPublishAttempts` (the code's) and `MaxCrashes` (ours:
a worker that dies for ever delivers nothing). `WebhookDelivery` asks the same of sweeps and
`Elapse`, and that a client's call, once started, goes on: the provider's time-out ends the HTTP call
that other attempts wait for. Requests of clients oblige nobody to go on, so the modules over
`OptimisticRows` state no liveness.

## 4. Findings

Each is a run with `expect: violation` of one property that a document, docstring
or test states.

| run | what the code does |
|---|---|
| `invoice_overpaid` | two payments checked against one balance are both confirmed |
| `webhook_resend` | a sweep that waited for another's row lock sends what is already delivered |
| `projections_rebuild` | a rebuild counts an event that waits in the outbox, and the relay counts it again |

That two shipments never share a driver, and that a warehouse is never overfilled, does not hold: two concurrent
assignments or creations are enough, and the shipment document names that check-then-act risk. What
holds, and is checked and proved, is that nothing beyond the named cases does it (`OnlyRacesDoubleBook`,
`OnlyRacesOverfill`); the same is said of shares of liability (`OnlyUnseenExceed`). Other things the models
follow and a reader of the code should know, each visible in the action named:

* two relay runs that dispatch one event at once may both commit a handler's writes (`CommitPublish`, and `Publish` of
  `Projections`): the mark is looked up at the beginning, and `mark_processed` at the end finds the other's and keeps
  it (`event_store_repository.py:170`), though `dispatcher.py:86` says "exactly once" and
  `docs/25-reporting-analytics-projections-domain.md:84` builds on it;
* a projection misses a dead-lettered event for good, for it is marked as processed, and the dashboard
  then takes away what it never added (`DeadLetter`);

* restoring a deleted shipment (`RestoreShipment`) does not ask again whether its driver is free, so
  that a driver may hold two (`docs/04-event-storming-and-state-machines.md:1184` excludes it);
* equipment attached between the gate and the second load of pickup or transit (`EnforceGate`,
  `MoveGated`) moves unjudged, though `docs/21-compliance-permits-domain.md:77` calls the gate before each;
* the relay does not keep the order of an aggregate: an event that backs off is overtaken (`Read`);
  `docs/11-backend-architecture.md:229` and `docs/14-m2-event-backbone.md:56` promise per-aggregate order;
* self-accept (`AssignDriverOnly`) goes from created to assigned past the status
  table, leaves the vehicle empty and never asks the compliance gate;
* an update of load or warehouses is not checked against capacity (`UpdateShipment`);
* `DeliverShipment` never stamps `delivered_at`: the mutation that would is built and not passed on;
* a replayed dead letter republished in the same unit of work skips the consumer
  (`ReplayInOne`), for the deletion of its mark is not flushed;
* a pending payment may be inserted on an invoice voided after the check (`CommitStaged`), a
  partially paid invoice may become overdue, and a claim adjustment (`ApplyClaimAdjustment`) lowers
  the total without recomputing the status;
* a cancellation that waited for an attempt's row lock overwrites "delivered", and an attempt that
  loaded the row before it was cancelled revives it (`CommitCancel`, `CommitAttempt`); the row lock is
  held across the HTTP call, although `sweep.py` says that no transaction is;
* a settlement of `ConsumeClaimSettlement` stays if the invoice is closed before the second commit;
* checks accumulate (`EvaluateCompliance`): a failed one blocks until it is overridden, whatever a
  later evaluation finds; the gate judges the permit the database returns first (`Cleared`);
* a refused copy of an inbound event takes the idempotency key (`ReceiveInboundEvent`), so that a
  correct one sent later is not accepted; rotating a revoked key makes an active one (`RotateApiKey`);
* a refresh that races with a logout leaves its successor alive (`IssueTokenPair`);
* on the dashboard, `ClaimClosed` lowers `open_claims` a second time and `ShipmentFailed` followed by
  `ShipmentReturned` lowers `active_shipments` twice (`Lowers`), a rebuild included; clamping hides it;
* `retry_count` of a notification counts failures, where `docs/24` says retries (`Delivered`).

Service operations no code of the application calls, modelled where they change state:
`assign_to_shipment`, `mark_in_transit`, `mark_delivered` (equipment), `deactivate_customer`,
`process_inbound_event`, `reject_inbound_event`, `consume_claim_settlement`, `mark_payment_failed`,
`mark_overdue`, `mark_dead_letter_replayed`; and not modelled: `validate_dispatch_clearance`,
`rebuild_by_aggregate`.

## 5. Proofs

All are checked by TLAPS for every value of the constants, from the named
assumptions of the modules.

**Shipment.** `IInv` is needed because the safety properties speak of commits, and
what a commit does was decided when the request read: it says that a request's
`snap` is a past version of the row, and *equal* to the row while the versions are;
that `next` is a legal step from `snap`; that a created or loaded row has the driver its
status requires; and that `told` is the row's status. `Invariance` proves it; from it follow
`RefinesOptimisticRows`, `NoUpdateIsLost`, `HistoryIsKept` (by `StatusStepsAreLegal`, `DeletedStaysFrozen` and
`TerminalStaysFinal`), `StreamIsChained` and `AssignMovesJudgedCargo`.

`RefinesOptimisticRows` is what justifies leaving versions out of the other services: a number that every
write raises and every flush compares implements `OptimisticRows`, where a commit *dooms* the other plans for its
row. `SnapshotsCurrent` carries it: a loaded version is never ahead of the row's, so a request that has missed one
write has missed it for good (`OthersAfterCommit`), and while the versions are equal the plan was made from the
row that is there.

`DoubleBookingNeedsARace` and `OverfillingIsUnasked` say who may double-book and overfill, for any number of requests
and every operation. `BookingInv` adds to `IInv` that no shipment before its assignment has a vehicle (`VehicleBound`)
and that what a request is going to flush fits (`Fits`) every row *not* written since it read: it shares with
them only what its own row already held, unless it is a restore, and finds room in the warehouse, unless it is no
heavier than before, a restore, an update of load or route, or has missed a write. A commit adds its
shipment to `missed` of every request under way, so that the others keep their `Fits` by saying less. A load is
taken apart into units, so that the sum of the loads is the size of a set and a
shipment's weight can be taken out and put back (`UnitsAdd`).

**OutboxRelay.** `IInv` is an invariant of `ReplaySpec`, and so of `Spec`, which takes fewer steps. It joins the type
invariant, `ProcessedIsSettled` (a processed mark, in the table or in what a run saw, has
the handler's writes or a dead letter beside it), `CountsAreFailures` (attempts
recorded, and held by runs, never exceed the failures that happened: overlapping
runs lose increments, never invent them), `NothingLost`, `GivenUpOnlyAfterMax`, `LooksHold` and `ChancesAreReplays`.
`LooksHold` says that a run whose transaction is the only one open for its event since the first began finds the marks there are. The
last bounds, for events not in `overlapped`, what a consumer may *still* do: the applications it had, and one more while its
processed mark is missing. A mark written with a dead letter applied nothing, so the first replay only
gives back the chance that mark took, and each later one gives one more; `AppliedOncePerReplay` follows
(`OncePerReplay`), and `AppliedAtMostOnce` of `Spec`, where `replays` stays 0 (`EffectivelyOnce`); for events in `overlapped` neither is true of the code.
`CommitPublish`, `Republish`, `MarkReplayed` and `ReplayInOne` change the marks, the letters and the
writes in one pattern (`Dispatched`), about which the lemmas are. `Refinement`:
`ReplaySpec => Delivery!SafeSpec`, each action mapping to `Send`, `Settle` or a stutter.

**InvoicePayments.** `IInv` joins the type invariant, `SnapshotsAreOld`, `PaymentsStartOpen`,
`WritesAreDecided`, `TotalAddsUp` and `StatusMatchesMoney`; it holds with every operation
and gives `ClosedIsFinal`. `OwesInv` adds, for invoices no
claim adjustment touched, that totals only grow and that an open invoice still owes; from it
`MoneyOnlyOnOpen`. The condition is needed: an adjustment lowers the total
without recomputing the status.

**WebhookDelivery.** An attempt writes `attempt_count` as *loaded + 1* and its attempt under the number
it read, so neither is the number of attempts. `IInv` says what holds all the same: a call's number
exceeds the count it loaded and is the next number or taken (`NumbersAreNext`), a call that was
answered is counted and its acceptance noted (`CallsAreCounted`), nothing precedes creation
(`CreatedFirst`), and a row given up has its count above `max_retries` (`GivenUpByCount`). The lock,
`OneSendAtATime`, is part of it: two answered calls with one number would each be the next. From
`Invariance` follow `NoParallelSends` and `NeverGivenUpEarly`.

**OptimisticRows.** `RowsInv`: the rows of a plan that is not doomed are the rows of the
database, so far as they have versions (`PlansAreCurrent`), and plans are about rows that are looked
at. It is inductive because a commit dooms every other plan that is going to write what it wrote.
`NoUpdateIsLost` follows. **BackOffice** and **Operations** implement it (`Implementation`): each
of their operations, one lemma for each service, is a `Prepare` of a well-formed plan or the second transaction of
one; hence `NoUpdateIsLostThere` and `NoUpdateIsLostHere`, for every number of requests and rows.

The invariants of the services rest on `RowsInv`, in one argument. Each operation is shown to plan
something that fits the rows it loaded; a plan that is still to be flushed and is not doomed finds those rows unchanged
(`PlansAreCurrent`), so its commit keeps the rows as sound as they were. What a plan says of rows it
does *not* write must then be of a kind nobody takes back: that a claim has an approved amount, that a
settlement was approved, that a row exists. `TablesAssumption` of each composition says that a key
belongs to one table and, in `Operations`, that rows are looked at together with the index entries they occupy.

**BackOffice.** `BooksInv` is `RowsInv` with `DbInv` (rows are sound, `RowsSound`; what they say of
others is so, `RowsRest`; numbers and customers point at each other, `Indexed`; cancelled orders and announcements too,
`Announced`), `PlansFit` (each plan keeps all of this) and `Once` (a settlement on its way to be
consumed is carried by one request, from its first transaction to its second). `BooksAgree` proves it;
from it `TradeIsSound`, `NumbersStayDistinct`, `CancellationsAreTold`, and the action properties
`DecisionsStand` and `EndsAreEnds`, since a plan changes a row only as its table allows (`Lawful`).
Two results add sums: that an invoice was adjusted by exactly what was announced (`AdjustmentsAddUp`, for
`ClaimsAreSound`), and that only an override or records that did not see each other take shares of liability beyond the
whole (`SharesInv`, for `OnlyUnseenSharesExceed`), for any number of recorders. Each record carries, as history, the
records its sum was taken over (`beside`). A share that is going to be inserted fits if that is still all there are
(`ShareFits`); if another has been inserted since, the two have not seen each other, and never will.

**Operations.** `OpsInv` is `RowsInv` with `DbInv` (`RowsSound`, `RowsRest`, `Indexed`, and `Accounted`:
attempts belong to notifications and their numbers, successes and failures add up), `PlansFit`,
`FreshKept` and `OneBearer`. Two tables have no version: a plan for them need not have loaded the row it
overwrites, but the two agree in what nobody changes (`Merges`), and whoever inserts such a row is alone with it
(`FreshKept`). `OneBearer` says that of each login one token works, or one request brings the next, in
whichever of its two transactions it is. From `OperationsAgree` follow `ComplianceHolds`,
`AvailabilityIsKept`, `PartnersHold`, `EventsAreReceivedOnce`, `NotificationsHold`,
`DeliveriesHappenOnce`, `AccessHolds`, `DecisionsStand` and `RevocationsStand`; `GateAgreesWithEvaluation`
needs no invariant. The invariants of both compositions were model-checked on the instances of
their runs before they were proved.

Sums, of shares and of adjustments: the sum over a finite set is computed in an order nobody chose. A table of
partial sums, one for each subset, stands for the computation, and that an element added or taken away changes
the sum by its value is proved by choosing a smallest subset for which it fails.

**Projections.** `LiveCounts` compares a row with the marked events, and between the two stands what relays hold in
memory. `IInv` says that the log has an event only with the earlier ones of its subject (`LogInv`); that a busy
relay's event is in it (`RelaysKnown`); that while no rebuild is due (`LiveInv`) no row, in the table or as loaded, counts more
than the events applied in a column none of whose events two relays had in hand at once (`Undisturbed`), and what a relay is
going to write is what it loaded with its event counted in; that a relay which runs
alone has loaded the row as it is, so that rows count *exactly* the events applied, the marks without a dead letter, and the derived columns agree
(`AloneInv`); and that the log a rebuild loaded was the log at some time (`RebuildInv`). After a rebuild a row may count
more (the third finding), which is the condition in `LiveCounts`.

What a rebuild leaves is a function defined by recursion on the log. That it exists, and that it yields the tallies, is
shown by choosing a smallest prefix for which it fails. The dashboard column needs more: it is clamped at zero at every
payment, so no prefix of the log may pay more invoices than it issued. That is an injection from payments to earlier
issues, and rests on `PaidWereIssued` in `ProjectionsAssumption`: `InvoiceStateMachine` reaches a paid
status from an issued one only, and once. From `Invariance` follow `LiveCountsHold` and `RebuildsFromLog`.

**Only model-checked.** Liveness under fairness (`EventuallyPublished`, `DeliverySettled`,
`EventuallySettled`), which is beyond the prover, as is ENABLED. Every safety property that a passing run
checks is stated by a theorem; no recursive operators are used.

## 6. Plan

Done: `Shipment`, `OutboxRelay`, `InvoicePayments`, `WebhookDelivery`, each with its proofs; the
services over `OptimisticRows` with the proof that they implement it and the proofs of their invariants;
`Projections` with its proofs; the proof that the numbered rows of `Shipment` implement `OptimisticRows`.
Next, in order of what it would add:

1. the gate composed with the two-step move of `Shipment`, in place of its `cleared` environment;
2. the rate limiter of the inbound endpoint, and the health rows of the projections.

## 7. Not modelled

* In shipments: `transition_status` (no caller), `create_tracking_event` (never
  sets the tenant the table requires, so its insert always fails), uniqueness of reference
  codes, the volume dimension of capacity (as weight), declining an offer, the role
  check of the driver.
* In the backbone: the heartbeat row, metrics, in-process retry sleeps of the dispatcher,
  serialisation of envelopes. An operator's replay dispatches in one step, so that it overlaps with relay
  runs but not inside itself.
* In integrations: the rate limiter (counters in the memory of one process; its Redis backend is not
  wired), allowed addresses, scopes and the mapping of event names; the life of a subscription is in
  `Partners` and an attempt does not look at it.
* In billing: currencies, due dates, the arithmetic of line items.
* Over `OptimisticRows`: foreign keys that refuse a deletion, cascades on the removal of a user, free text
  and dates that no check reads; one number stands for the several unique numbers of a customer; a
  validity window is a choice of the step that reads the clock.
* In authentication: access tokens and their denylist (which lets tokens pass when Redis is down),
  `auth/tokens.py` (no route calls it), passwords and permissions. Suspending a tenant has no route and is checked
  nowhere.
* In projections: averages and rates, several periods and currencies, the health rows, the replay of a dead
  letter by an operator (it is in `OutboxRelay`; in `Projections` a poisoned event stays uncounted), and
  `ProjectionRebuilder` of `projections/engine.py`, which has no caller.
* Row-level security, migrations, routes as such, schemas, logging, cryptography and
  password hashing: no state whose order matters, or not this program's code. The
  constraints the schema declares are used where a model depends on them. The
  exclusivity indexes of migration 0008 are not unique and guard nothing.
* The mobile client, UI screens, API description and design system.
