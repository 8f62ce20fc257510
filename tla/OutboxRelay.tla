---------------------------- MODULE OutboxRelay ----------------------------
(***************************************************************************)
(* The transactional outbox (app/events/relay.py, dispatcher.py, bus.py    *)
(* over repositories/event_store_repository.py).  Services commit events   *)
(* into event_store; every run of the relay reads a batch of due events    *)
(* and publishes each in a transaction of its own, in which every handler  *)
(* runs in a savepoint.  Runs overlap (celery beat starts one every 30 s,  *)
(* nothing locks the batch), so a run decides on what another may have     *)
(* changed since: the batch, the attempt counters read with it, the        *)
(* processed_events it saw and the counter it increments are all snapshots.*)
(* The key of processed_events does not stop a second application either:  *)
(* mark_processed looks for the row once more and leaves one that another  *)
(* run has committed as it is; the key is only in the way of two runs that *)
(* insert at the same time.                                                *)
(*                                                                         *)
(* Events are numbers in the order of (occurred_at, event_id).             *)
(***************************************************************************)
EXTENDS Integers, FiniteSets

CONSTANTS
  Events, Aggregates, Consumers, Relays,
  AggregateOf,          \* event -> the aggregate whose stream it is in
  Handles,              \* pairs <<consumer, event>>: handler.handles(event_type)
  RelayConsumer,        \* "__outbox_relay__", the consumer of the relay's own rows
  NoEvent,
  BatchSize,
  MaxPublishAttempts,
  MaxCrashes,           \* bound: processes that die
  MaxReplays,           \* bound: dead letters an operator replays
  ReplayModes           \* how the operator republishes: in the same unit of work or a fresh one

ASSUME OutboxAssumption ==
  /\ Events \subseteq Nat
  /\ AggregateOf \in [Events -> Aggregates]
  /\ Handles \subseteq Consumers \X Events
  /\ RelayConsumer \notin Consumers
  /\ NoEvent \notin Events
  /\ MaxPublishAttempts \in Nat \ {0}
  /\ BatchSize \in Nat \ {0} /\ MaxCrashes \in Nat /\ MaxReplays \in Nat
  /\ ReplayModes \subseteq {"same", "fresh"}

VARIABLES
  emitted,     \* events committed to event_store
  published,   \* events with published_at set
  attempts,    \* event_store.publish_attempts
  due,         \* events whose next_attempt_at has passed
  processed,   \* processed_events: pairs <<consumer, event>>
  dlq,         \* dead_letter_events; rows alike are one
  times,       \* pair -> how often the handler's writes were committed
  failed,      \* event -> publish transactions that failed (history)
  overlapped,  \* events two transactions published at the same time (history)
  relay,       \* relay run -> where it is
  crashes,
  replays,
  replaying    \* event a fresh unit of work is about to republish, or NoEvent

store == <<emitted, published, attempts, due, processed, dlq, times, failed, overlapped>>
operator == <<replays, replaying>>
vars == <<store, relay, crashes, operator>>

DeadLetter(c, e) == [consumer |-> c, event |-> e, replayed |-> FALSE]

Run == [pc : {"idle", "next", "publishing", "failing"},
        batch : SUBSET Events,         \* events read and not yet dealt with
        prior : [Events -> Nat],       \* publish_attempts as read with the batch
        seen : SUBSET Consumers,       \* consumers found in processed_events
        read : Nat]                    \* publish_attempts as read on a failure

NoRun == [pc |-> "idle", batch |-> {}, prior |-> [e \in Events |-> 0],
          seen |-> {}, read |-> 0]

\* The earliest event of a set, in the order of the batch query.
First(S) == CHOOSE e \in S : \A f \in S : e <= f

Current(r) == First(relay[r].batch)

\* The loop moves on to the next event of the batch; the run ends with the last.
Advance(run) ==
  LET rest == run.batch \ {First(run.batch)}
  IN IF rest = {} THEN NoRun
     ELSE [run EXCEPT !.pc = "next", !.batch = rest, !.seen = {}, !.read = 0]

\* The runs that have a publish transaction of the event open.
Publishing(e) == {r \in Relays : relay[r].pc = "publishing" /\ Current(r) = e}

\* The history when one more transaction publishes the event.
Overlap(e) == overlapped \cup {f \in {e} : Publishing(f) # {}}

Subscribers(e) == {c \in Consumers : <<c, e>> \in Handles}

\* The handlers in "todo" are dispatched.  Those in "poison" fail on every retry
\* (or cannot deserialize): their savepoint is undone and a dead letter written.
\* Fault: a poison handler ends the loop over the handlers.
DispatchStopFault(e, todo, poison, letters) ==
  /\ times' = [p \in Handles |-> IF poison = {} /\ p \in todo \X {e}
                                 THEN times[p] + 1 ELSE times[p]]
  /\ dlq' = letters \cup {DeadLetter(c, e) : c \in poison}

Dispatch(e, todo, poison, letters) ==
  /\ times' = [p \in Handles |-> IF p \in (todo \ poison) \X {e} THEN times[p] + 1 ELSE times[p]]
  /\ dlq' = letters \cup {DeadLetter(c, e) : c \in poison}

Init ==
  /\ emitted = {} /\ published = {} /\ due = {} /\ processed = {} /\ dlq = {}
  /\ overlapped = {}
  /\ attempts = [e \in Events |-> 0]
  /\ failed = [e \in Events |-> 0]
  /\ times = [p \in Handles |-> 0]
  /\ relay = [r \in Relays |-> NoRun]
  /\ crashes = 0 /\ replays = 0 /\ replaying = NoEvent

(***************************************************************************)
(* A service commits an event with its aggregate.  UNIQUE(aggregate_id,    *)
(* aggregate_version) makes the events of one aggregate commit in order.   *)
(***************************************************************************)
Emit(e) ==
  /\ e \notin emitted
  /\ \A f \in Events : f < e /\ AggregateOf[f] = AggregateOf[e] => f \in emitted
  /\ emitted' = emitted \cup {e}
  /\ due' = due \cup {e}
  /\ UNCHANGED <<published, attempts, processed, dlq, times, failed, overlapped,
                 relay, crashes, operator>>

\* Due: next_attempt_at is null or past.
\* Fault: only where it is null, so that a failed event is never read again.
UnpublishedFault == {e \in (emitted \ published) \cap due : attempts[e] = 0}

Unpublished == (emitted \ published) \cap due

\* A run reads the first BatchSize due events with their attempt counters.
Read(r) ==
  /\ relay[r].pc = "idle" /\ Unpublished # {}
  /\ LET batch == {e \in Unpublished : Cardinality({f \in Unpublished : f < e}) < BatchSize}
     IN relay' = [relay EXCEPT ![r] =
          [NoRun EXCEPT !.pc = "next", !.batch = batch,
                        !.prior = [e \in Events |-> IF e \in batch THEN attempts[e] ELSE 0]]]
  /\ UNCHANGED <<store, crashes, operator>>

\* Each handler's dispatch first looks up its row of processed_events.
\* Fault: nothing is looked up.
StartPublishFault(r) ==
  /\ relay[r].pc = "next"
  /\ relay' = [relay EXCEPT ![r].pc = "publishing", ![r].seen = {}]
  /\ overlapped' = Overlap(Current(r))
  /\ UNCHANGED <<emitted, published, attempts, due, processed, dlq, times, failed,
                 crashes, operator>>

StartPublish(r) ==
  /\ relay[r].pc = "next"
  /\ relay' = [relay EXCEPT ![r].pc = "publishing",
                            ![r].seen = {c \in Consumers : <<c, Current(r)>> \in processed}]
  /\ overlapped' = Overlap(Current(r))
  /\ UNCHANGED <<emitted, published, attempts, due, processed, dlq, times, failed,
                 crashes, operator>>

\* The handlers that found no row.  Each looks when its turn comes, the first at the
\* start, so that a row that came or went since is found or not.
FoundNoRow(r) ==
  {todo \in SUBSET Subscribers(Current(r)) : \A c \in Subscribers(Current(r)) :
     (c \in relay[r].seen <=> <<c, Current(r)>> \in processed)
       => (c \in todo <=> c \notin relay[r].seen)}

\* mark_processed leaves a row that another run has committed by then as it is.
CommitPublish(r) ==
  LET e == Current(r)
  IN /\ relay[r].pc = "publishing"
     /\ relay' = [relay EXCEPT ![r] = Advance(@)]
     /\ published' = published \cup {e}
     /\ \E todo \in FoundNoRow(r) :
          /\ processed' = processed \cup (todo \X {e})
          /\ \E poison \in SUBSET todo : Dispatch(e, todo, poison, dlq)
     /\ UNCHANGED <<emitted, attempts, due, failed, overlapped, crashes, operator>>

(***************************************************************************)
(* The publish transaction rolls back: a key another run inserts at the    *)
(* same time, a database error, the time limit of the task.  The failure   *)
(* transaction then starts with a read of the row.                         *)
(***************************************************************************)
Fail(r) ==
  LET e == Current(r)
  IN /\ relay[r].pc = "publishing"
     /\ failed' = [failed EXCEPT ![e] = @ + 1]
     /\ relay' = [relay EXCEPT ![r].pc = "failing", ![r].seen = {}, ![r].read = attempts[e]]
     /\ UNCHANGED <<emitted, published, attempts, due, processed, dlq, times, overlapped,
                    crashes, operator>>

\* The count that decides is the one read with the batch.
IsLastAttempt(run) == run.prior[First(run.batch)] + 1 >= MaxPublishAttempts

\* The event is parked for all its consumers.
Park(r) ==
  /\ relay[r].pc = "failing" /\ IsLastAttempt(relay[r])
  /\ dlq' = dlq \cup {DeadLetter(RelayConsumer, Current(r))}
  /\ published' = published \cup {Current(r)}
  /\ relay' = [relay EXCEPT ![r] = Advance(@)]
  /\ UNCHANGED <<emitted, attempts, due, processed, times, failed, overlapped, crashes, operator>>

\* record_publish_failure: the counter read is written back plus one.
\* Fault: the event is stamped published as well.
BackOffFault(r) ==
  /\ relay[r].pc = "failing" /\ ~IsLastAttempt(relay[r])
  /\ attempts' = [attempts EXCEPT ![Current(r)] = relay[r].read + 1]
  /\ due' = due \ {Current(r)}
  /\ published' = published \cup {Current(r)}
  /\ relay' = [relay EXCEPT ![r] = Advance(@)]
  /\ UNCHANGED <<emitted, processed, dlq, times, failed, overlapped, crashes, operator>>

BackOff(r) ==
  /\ relay[r].pc = "failing" /\ ~IsLastAttempt(relay[r])
  /\ attempts' = [attempts EXCEPT ![Current(r)] = relay[r].read + 1]
  /\ due' = due \ {Current(r)}
  /\ relay' = [relay EXCEPT ![r] = Advance(@)]
  /\ UNCHANGED <<emitted, published, processed, dlq, times, failed, overlapped, crashes, operator>>

\* next_attempt_at passes.
Elapse(e) ==
  /\ e \in emitted \ due
  /\ due' = due \cup {e}
  /\ UNCHANGED <<emitted, published, attempts, processed, dlq, times, failed, overlapped,
                 relay, crashes, operator>>

\* The worker dies, or the failure transaction itself raises: the open
\* transaction is undone and the rest of the batch abandoned.
Crash(r) ==
  /\ relay[r].pc # "idle" /\ crashes < MaxCrashes
  /\ relay' = [relay EXCEPT ![r] = NoRun]
  /\ crashes' = crashes + 1
  /\ UNCHANGED <<store, operator>>

RelayStep(r) ==
  Read(r) \/ StartPublish(r) \/ CommitPublish(r) \/ Fail(r) \/ Park(r) \/ BackOff(r)

Next ==
  \/ \E e \in Events : Emit(e) \/ Elapse(e)
  \/ \E r \in Relays : RelayStep(r) \/ Crash(r)

Spec == Init /\ [][Next]_vars

\* Beat keeps starting runs, a run goes on unless it crashes, and time passes.
FairSpec ==
  /\ Spec
  /\ \A r \in Relays : WF_vars(RelayStep(r))
  /\ \A e \in Events : WF_vars(Elapse(e))

(***************************************************************************)
(* Replaying a dead letter (mark_dead_letter_replayed, then bus.publish).  *)
(* Nothing in the application does it; an operator's script may, in one    *)
(* unit of work or in two.  A replayed row may be replayed again.          *)
(***************************************************************************)
ReplaySlot == replaying = NoEvent /\ replays < MaxReplays /\ replays' = replays + 1

Stamp(letter) == (dlq \ {letter}) \cup {[letter EXCEPT !.replayed = TRUE]}

\* The first of two units of work.
MarkReplayed(letter) ==
  /\ "fresh" \in ReplayModes /\ ReplaySlot
  /\ dlq' = Stamp(letter)
  /\ processed' = processed \ {<<letter.consumer, letter.event>>}
  /\ replaying' = letter.event
  /\ UNCHANGED <<emitted, published, attempts, due, times, failed, overlapped, relay, crashes>>

\* The second: handlers without a row of processed_events get the event.
\* Fault: all handlers get it.
RepublishFault ==
  /\ replaying # NoEvent
  /\ \E poison \in SUBSET Subscribers(replaying) :
       Dispatch(replaying, Subscribers(replaying), poison, dlq)
  /\ processed' = processed \cup (Subscribers(replaying) \X {replaying})
  /\ replaying' = NoEvent
  /\ overlapped' = Overlap(replaying)
  /\ UNCHANGED <<emitted, published, attempts, due, failed, relay, crashes, replays>>

Republish ==
  LET todo == {c \in Subscribers(replaying) : <<c, replaying>> \notin processed}
  IN /\ replaying # NoEvent
     /\ \E poison \in SUBSET todo : Dispatch(replaying, todo, poison, dlq)
     /\ processed' = processed \cup (todo \X {replaying})
     /\ replaying' = NoEvent
     /\ overlapped' = Overlap(replaying)
     /\ UNCHANGED <<emitted, published, attempts, due, failed, relay, crashes, replays>>

\* The script dies between the two.
ReplayCrash ==
  /\ replaying # NoEvent /\ crashes < MaxCrashes
  /\ replaying' = NoEvent
  /\ crashes' = crashes + 1
  /\ UNCHANGED <<store, relay, replays>>

(***************************************************************************)
(* Both in one unit of work.  The session has autoflush off, so the delete *)
(* of the processed_events row is still pending when the dispatcher asks:  *)
(* Session.get answers from the identity map and the consumer is skipped,  *)
(* unless the savepoint of a handler dispatched before it flushed.         *)
(***************************************************************************)
ReplayInOne(letter) ==
  LET e == letter.event
      absent == {c \in Subscribers(e) : <<c, e>> \notin processed}
      flushed == IF absent = {} THEN {} ELSE {letter.consumer} \cap Subscribers(e)
  IN /\ "same" \in ReplayModes /\ ReplaySlot
     /\ \E todo \in {absent, absent \cup flushed} :
          /\ \E poison \in SUBSET todo : Dispatch(e, todo, poison, Stamp(letter))
          /\ processed' = (processed \ {<<letter.consumer, e>>}) \cup (todo \X {e})
     /\ overlapped' = Overlap(e)
     /\ UNCHANGED <<emitted, published, attempts, due, failed, relay, crashes, replaying>>

ReplayNext ==
  \/ \E letter \in dlq : MarkReplayed(letter) \/ ReplayInOne(letter)
  \/ Republish
  \/ ReplayCrash

ReplaySpec == Init /\ [][Next \/ ReplayNext]_vars

(***************************************************************************)
(* Properties.                                                             *)
(***************************************************************************)
Letters == [consumer : Consumers \cup {RelayConsumer}, event : Events, replayed : BOOLEAN]

\* The types of the columns and of a run.  A run that is not over has an event
\* to deal with, and every event a run holds was committed.
TypeOK ==
  /\ emitted \subseteq Events /\ published \subseteq emitted /\ due \subseteq emitted
  /\ attempts \in [Events -> Nat] /\ failed \in [Events -> Nat]
  /\ processed \subseteq Handles
  /\ dlq \subseteq {l \in Letters : l.event \in published}
  /\ times \in [Handles -> Nat] /\ overlapped \subseteq Events
  /\ relay \in [Relays -> Run]
  /\ \A r \in Relays : /\ relay[r].batch \subseteq emitted
                       /\ (relay[r].pc = "idle") <=> (relay[r].batch = {})
  /\ crashes \in Nat /\ replays \in Nat /\ replaying \in Events \cup {NoEvent}

IsParked(p) ==
  \E l \in dlq : l.event = p[2] /\ l.consumer \in {p[1], RelayConsumer}

IsSettled(p) == times[p] > 0 \/ IsParked(p)

\* An event the relay has stopped polling was applied by each handler that
\* subscribes to it or has a dead letter that names the handler or the relay:
\* neither a crash between the two transactions nor an overlapping run drops it
\* (docs/11: "never silently drop").
NothingLost == \A p \in Handles : p[2] \in published => IsSettled(p)

\* Without replays a handler's writes are committed at most once per event, however
\* runs fail, crash and work off old batches, unless two of them had a transaction of
\* the event open at once (Dispatcher: "effectively-once").
AppliedAtMostOnce == \A p \in Handles : p[2] \notin overlapped => times[p] <= 1

\* The relay gives an event up only after max_publish_attempts publish
\* transactions really failed, although overlapping runs decide on old counters
\* and overwrite each other's increments.
GivenUpOnlyAfterMax ==
  \A l \in dlq : l.consumer = RelayConsumer => failed[l.event] >= MaxPublishAttempts

\* Under replays, each replay lets a consumer apply an event once more at most, unless
\* two transactions that publish the event were open at once.
AppliedOncePerReplay ==
  \A p \in Handles :
    p[2] \notin overlapped => times[p] <= IF replays = 0 THEN 1 ELSE replays

\* Every committed event is published or parked in the end.
EventuallyPublished == \A e \in Events : (e \in emitted) ~> (e \in published)

(***************************************************************************)
(* The inductive invariant, of ReplaySpec and so of Spec.                  *)
(***************************************************************************)

\* Only settled deliveries have a row of processed_events, or had one when a run
\* looked; what was applied, and what is replayed, has left the outbox.
ProcessedIsSettled ==
  /\ \A p \in processed : p[2] \in published /\ IsSettled(p)
  /\ \A p \in Handles : times[p] > 0 => p[2] \in published
  /\ \A r \in Relays, c \in Consumers :
       /\ relay[r].pc = "publishing"
       /\ c \in relay[r].seen
       /\ <<c, Current(r)>> \in Handles
       => IsSettled(<<c, Current(r)>>)
  /\ replaying # NoEvent => replaying \in published

\* How often the handler may have its writes in the end: once more when its row of
\* processed_events is missing.
Chances(p) == times[p] + (IF p \in processed THEN 0 ELSE 1)

HasLetter(p) == \E l \in dlq : l.event = p[2] /\ l.consumer = p[1]

\* The row that came with a consumer's dead letter applied nothing, so the first
\* replay gives the chance that row took; and without a letter nothing is replayed.
ChancesAreReplays ==
  \A p \in Handles :
    p[2] \notin overlapped => Chances(p) <= IF HasLetter(p) THEN replays ELSE 1

\* A run that has the only open transaction of its event knows the rows there are.
LooksHold ==
  \A r \in Relays : relay[r].pc = "publishing" /\ Current(r) \notin overlapped =>
    /\ Publishing(Current(r)) = {r}
    /\ \A c \in Subscribers(Current(r)) \ relay[r].seen : <<c, Current(r)>> \notin processed

\* No counter, stored or remembered by a run, exceeds the failures there were.
CountsAreFailures ==
  /\ \A e \in Events : attempts[e] <= failed[e]
  /\ \A r \in Relays : \A e \in relay[r].batch : relay[r].prior[e] <= failed[e]
  /\ \A r \in Relays : relay[r].pc = "failing" =>
       /\ relay[r].read < failed[Current(r)]
       /\ relay[r].prior[Current(r)] < failed[Current(r)]

IInv == /\ TypeOK /\ ProcessedIsSettled /\ ChancesAreReplays /\ LooksHold /\ CountsAreFailures
        /\ NothingLost /\ GivenUpOnlyAfterMax

(***************************************************************************)
(* The relay implements EventDelivery.                                     *)
(***************************************************************************)
Status(p) == IF times[p] > 0 THEN "applied"
             ELSE IF IsParked(p) THEN "parked"
             ELSE IF p[2] \in emitted THEN "pending"
             ELSE "unsent"

Delivery == INSTANCE EventDelivery WITH delivery <- [p \in Handles |-> Status(p)]

\* Every step of the relay, and of a replay, is a step of the promise or changes
\* no delivery: what was applied stays applied, and one publication settles
\* all the deliveries of its event that are pending.
DeliverySafe == Delivery!SafeSpec

\* A pending delivery is applied or parked in the end.
DeliverySettled == Delivery!Settled
=============================================================================
