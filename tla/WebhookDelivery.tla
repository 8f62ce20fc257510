-------------------------- MODULE WebhookDelivery --------------------------
(***************************************************************************)
(* Outbound webhooks (app/services/integration_service.py and              *)
(* app/integrations/sweep.py).  The relay's consumer creates one delivery  *)
(* per (subscription, event); a sweep that celery beat starts every 60 s,  *)
(* and partners' administrators through the API, attempt it.  An attempt   *)
(* is one transaction that reads the delivery, takes its row lock with the *)
(* flush of status "delivering", calls the partner's server and commits    *)
(* the outcome: the lock is held across the call, what it writes was       *)
(* computed from a row read before the lock, and no version column tells   *)
(* it that the row moved in between.                                       *)
(***************************************************************************)
EXTENDS Integers

CONSTANTS
  Deliveries,     \* subscription-event pairs
  Sweeps, Clients,
  NoDelivery,
  MaxRetries,     \* WebhookSubscription.max_retries
  MaxCalls,       \* bound: calls of clients
  MaxAborts       \* bound: attempts that raise, or die with their worker

ASSUME WebhookAssumption ==
  /\ NoDelivery \notin Deliveries
  /\ Sweeps \cap Clients = {}
  /\ MaxRetries \in Nat /\ MaxCalls \in Nat /\ MaxAborts \in Nat

VARIABLES
  row,         \* webhook_deliveries
  tries,       \* delivery -> rows of webhook_delivery_attempts, numbered 1..tries
  sent,        \* delivery -> calls of provider.send (history)
  skipped,     \* delivery -> attempts recorded without a call (history)
  accepted,    \* deliveries whose payload the partner took (history)
  readable,    \* deliveries whose subscription's secret can be decrypted
  req,         \* worker -> the call it executes
  todo,        \* sweep -> due deliveries it has listed
  calls, aborts

history == <<sent, skipped, accepted>>
bounds == <<calls, aborts>>
vars == <<row, tries, history, readable, req, todo, bounds>>

Workers == Sweeps \cup Clients

Absent == [status |-> "absent", count |-> 0, due |-> "none", signed |-> FALSE]

\* status, attempt_count, next_attempt_at (null, future, past) and whether
\* there is a signature.  "delivering" is flushed but never committed.
Row == [status : {"absent", "pending", "delivered", "failed", "cancelled"},
        count : Nat, due : {"none", "waiting", "due"}, signed : BOOLEAN]

Call == [pc : {"idle", "loaded", "numbered", "sending", "sent", "cancelling"},
         delivery : Deliveries \cup {NoDelivery},
         snap : Row,              \* the row as loaded
         number : Nat,            \* attempt_number
         ok : BOOLEAN]            \* the provider's result

NoCall == [pc |-> "idle", delivery |-> NoDelivery, snap |-> Absent,
           number |-> 0, ok |-> FALSE]

\* The transaction of w has updated the row and not ended.
Holds(w, d) == req[w].delivery = d /\ req[w].pc \in {"sending", "sent"}

\* Fault: the status is not flushed before the call.
LockFreeFault(d) == TRUE

LockFree(d) == \A w \in Workers : ~Holds(w, d)

Init ==
  /\ row = [d \in Deliveries |-> Absent]
  /\ tries = [d \in Deliveries |-> 0]
  /\ sent = [d \in Deliveries |-> 0] /\ skipped = [d \in Deliveries |-> 0]
  /\ accepted = {}
  /\ readable = Deliveries
  /\ req = [w \in Workers |-> NoCall]
  /\ todo = [w \in Sweeps |-> {}]
  /\ calls = 0 /\ aborts = 0

(***************************************************************************)
(* Creation.  The unique key on (subscription, event) makes a redelivered  *)
(* event create nothing.  Without the secret the delivery is recorded      *)
(* unsigned and failed, with a skipped attempt.                            *)
(***************************************************************************)
CreateDelivery(d) ==
  /\ row[d] = Absent
  /\ IF d \in readable
     THEN /\ row' = [row EXCEPT ![d] = [status |-> "pending", count |-> 0,
                                        due |-> "due", signed |-> TRUE]]
          /\ UNCHANGED <<tries, skipped>>
     ELSE /\ row' = [row EXCEPT ![d].status = "failed"]
          /\ tries' = [tries EXCEPT ![d] = 1]
          /\ skipped' = [skipped EXCEPT ![d] = 1]
  /\ UNCHANGED <<sent, accepted, readable, req, todo, bounds>>

\* list_due: pending or failed, and its time has come.
\* Fault: failed deliveries are left out.
DueFault(d) == row[d].status = "pending" /\ row[d].due = "due"

Due(d) == row[d].status \in {"pending", "failed"} /\ row[d].due = "due"

\* A sweep lists the due deliveries in a transaction of its own.
ListDue(w) ==
  /\ req[w].pc = "idle" /\ todo[w] = {}
  /\ \E d \in Deliveries : Due(d)
  /\ todo' = [todo EXCEPT ![w] = {d \in Deliveries : Due(d)}]
  /\ UNCHANGED <<row, tries, history, readable, req, bounds>>

Attemptable(d) == row[d].status \notin {"absent", "delivered", "cancelled"}

Loaded(w, d, pc) ==
  req' = [req EXCEPT ![w] = [NoCall EXCEPT !.pc = pc, !.delivery = d, !.snap = row[d]]]

\* The sweep takes the next delivery of its list; one that was settled
\* meanwhile is refused, but the list's due times are not looked at again.
SweepAttempt(w, d) ==
  /\ req[w].pc = "idle" /\ d \in todo[w]
  /\ todo' = [todo EXCEPT ![w] = @ \ {d}]
  /\ IF Attemptable(d) THEN Loaded(w, d, "loaded") ELSE UNCHANGED req
  /\ UNCHANGED <<row, tries, history, readable, bounds>>

\* attempt or retry through the API.
ClientAttempt(w, d) ==
  /\ req[w].pc = "idle" /\ Attemptable(d) /\ calls < MaxCalls
  /\ Loaded(w, d, "loaded")
  /\ calls' = calls + 1
  /\ UNCHANGED <<row, tries, history, readable, todo, aborts>>

(***************************************************************************)
(* The steps of attempt_delivery.                                          *)
(***************************************************************************)

\* An unsigned delivery whose secret is still unreadable: a skipped attempt.
\* What it assigns to the row's status and next_attempt_at is what it loaded.
SkipUnsigned(w) ==
  LET d == req[w].delivery
  IN /\ req[w].pc = "loaded" /\ ~req[w].snap.signed /\ d \notin readable /\ LockFree(d)
     /\ tries' = [tries EXCEPT ![d] = @ + 1]
     /\ skipped' = [skipped EXCEPT ![d] = @ + 1]
     /\ req' = [req EXCEPT ![w] = NoCall]
     /\ UNCHANGED <<row, sent, accepted, readable, todo, bounds>>

\* An unsigned delivery whose secret is back: the flush of the signature takes
\* the row lock, and the attempt is numbered under it.
Resign(w) ==
  LET d == req[w].delivery
  IN /\ req[w].pc = "loaded" /\ ~req[w].snap.signed /\ d \in readable /\ LockFree(d)
     /\ req' = [req EXCEPT ![w].pc = "sending", ![w].number = tries[d] + 1]
     /\ UNCHANGED <<row, tries, history, readable, todo, bounds>>

\* next_attempt_number: one more than the attempts committed.
Number(w) ==
  /\ req[w].pc = "loaded" /\ req[w].snap.signed
  /\ req' = [req EXCEPT ![w].pc = "numbered", ![w].number = tries[req[w].delivery] + 1]
  /\ UNCHANGED <<row, tries, history, readable, todo, bounds>>

\* The flush of "delivering" waits for the row lock and takes it.
Lock(w) ==
  /\ req[w].pc = "numbered" /\ LockFree(req[w].delivery)
  /\ req' = [req EXCEPT ![w].pc = "sending"]
  /\ UNCHANGED <<row, tries, history, readable, todo, bounds>>

\* provider.send.  A call that fails for the sender may have been accepted.
Send(w) ==
  LET d == req[w].delivery
  IN /\ req[w].pc = "sending"
     /\ sent' = [sent EXCEPT ![d] = @ + 1]
     /\ \E ok, taken \in BOOLEAN :
          /\ ok => taken
          /\ req' = [req EXCEPT ![w].pc = "sent", ![w].ok = ok]
          /\ accepted' = IF taken THEN accepted \cup {d} ELSE accepted
     /\ UNCHANGED <<row, tries, skipped, readable, todo, bounds>>

\* The next attempt waits for its back-off while retries remain.
\* Fault: one retry short.
NextDueFault(ok, count) == IF ~ok /\ count < MaxRetries THEN "waiting" ELSE "none"

NextDue(ok, count) == IF ~ok /\ count <= MaxRetries THEN "waiting" ELSE "none"

\* next_attempt_at when it was loaded null and is assigned null is not written.
Written(loaded, assigned, stored) ==
  IF loaded = "none" /\ assigned = "none" THEN stored ELSE assigned

\* The row an attempt leaves: its count is the loaded one plus one.
Attempted(call, stored) ==
  LET count == call.snap.count + 1
  IN [status |-> IF call.ok THEN "delivered" ELSE "failed",
      count |-> count,
      due |-> Written(call.snap.due, NextDue(call.ok, count), stored.due),
      signed |-> TRUE]

\* UNIQUE(delivery_id, attempt_number) refuses a number committed meanwhile.
\* Fault: no such key.
NumberIsFreeFault(w) == TRUE

NumberIsFree(w) == req[w].number > tries[req[w].delivery]

CommitAttempt(w) ==
  LET d == req[w].delivery
  IN /\ req[w].pc = "sent" /\ NumberIsFree(w)
     /\ tries' = [tries EXCEPT ![d] = req[w].number]
     /\ row' = [row EXCEPT ![d] = Attempted(req[w], @)]
     /\ req' = [req EXCEPT ![w] = NoCall]
     /\ UNCHANGED <<history, readable, todo, bounds>>

\* The insert of the attempt fails after the call was made; all is rolled back.
Collide(w) ==
  /\ req[w].pc = "sent" /\ ~NumberIsFree(w)
  /\ req' = [req EXCEPT ![w] = NoCall]
  /\ UNCHANGED <<row, tries, history, readable, todo, bounds>>

(***************************************************************************)
(* cancel_delivery: the flush waits for the lock, and overwrites.          *)
(***************************************************************************)
ClientCancel(w, d) ==
  /\ req[w].pc = "idle" /\ Attemptable(d) /\ calls < MaxCalls
  /\ Loaded(w, d, "cancelling")
  /\ calls' = calls + 1
  /\ UNCHANGED <<row, tries, history, readable, todo, aborts>>

CommitCancel(w) ==
  LET d == req[w].delivery
  IN /\ req[w].pc = "cancelling" /\ LockFree(d)
     /\ row' = [row EXCEPT ![d].status = "cancelled",
                           ![d].due = Written(req[w].snap.due, "none", @)]
     /\ req' = [req EXCEPT ![w] = NoCall]
     /\ UNCHANGED <<tries, history, readable, todo, bounds>>

(***************************************************************************)
(* The environment.  A call raises and is rolled back, and a sweep goes on *)
(* with its list; or the worker dies, and the list with it.                *)
(***************************************************************************)
Abort(w) ==
  /\ req[w].pc # "idle" /\ aborts < MaxAborts
  /\ req' = [req EXCEPT ![w] = NoCall]
  /\ aborts' = aborts + 1
  /\ UNCHANGED <<row, tries, history, readable, todo, calls>>

Crash(w) ==
  /\ (req[w].pc # "idle" \/ todo[w] # {}) /\ aborts < MaxAborts
  /\ req' = [req EXCEPT ![w] = NoCall]
  /\ todo' = [todo EXCEPT ![w] = {}]
  /\ aborts' = aborts + 1
  /\ UNCHANGED <<row, tries, history, readable, calls>>

Elapse(d) ==
  /\ row[d].due = "waiting"
  /\ row' = [row EXCEPT ![d].due = "due"]
  /\ UNCHANGED <<tries, history, readable, req, todo, bounds>>

\* The key is lost, or rotate_subscription_secret brings a readable one.
SetReadable(d) ==
  /\ readable' = IF d \in readable THEN readable \ {d} ELSE readable \cup {d}
  /\ UNCHANGED <<row, tries, history, req, todo, bounds>>

AttemptStep(w) ==
  SkipUnsigned(w) \/ Resign(w) \/ Number(w) \/ Lock(w) \/ Send(w) \/ CommitAttempt(w) \/ Collide(w)

SweepStep(w) == ListDue(w) \/ (\E d \in Deliveries : SweepAttempt(w, d)) \/ AttemptStep(w)

ClientStep(w) == AttemptStep(w) \/ CommitCancel(w)

Next ==
  \/ \E d \in Deliveries : CreateDelivery(d) \/ Elapse(d) \/ SetReadable(d)
  \/ \E w \in Sweeps : SweepStep(w) \/ Crash(w)
  \/ \E w \in Clients : \/ ClientStep(w)
                        \/ \E d \in Deliveries : ClientAttempt(w, d) \/ ClientCancel(w, d)
  \/ \E w \in Workers : Abort(w)

Spec == Init /\ [][Next]_vars

\* Beat keeps starting sweeps, a call that was started goes on unless it raises
\* (the provider's time-out ends the HTTP call), and time passes.
FairSpec ==
  /\ Spec
  /\ \A w \in Sweeps : WF_vars(SweepStep(w))
  /\ \A w \in Clients : WF_vars(ClientStep(w))
  /\ \A d \in Deliveries : WF_vars(Elapse(d))

(***************************************************************************)
(* Properties.                                                             *)
(***************************************************************************)

\* The types of the columns and of a call.
TypeOK ==
  /\ row \in [Deliveries -> Row]
  /\ tries \in [Deliveries -> Nat]
  /\ sent \in [Deliveries -> Nat] /\ skipped \in [Deliveries -> Nat]
  /\ accepted \subseteq Deliveries /\ readable \subseteq Deliveries
  /\ req \in [Workers -> Call]
  /\ \A w \in Workers : req[w].pc # "idle" => req[w].delivery \in Deliveries
  /\ todo \in [Sweeps -> SUBSET Deliveries]
  /\ calls \in Nat /\ aborts \in Nat

\* One delivery is never in two HTTP calls at a time, whoever attempts it: the
\* status is flushed, and the row locked, before provider.send.
OneSendAtATime ==
  \A d \in Deliveries, v, w \in Workers : Holds(v, d) /\ Holds(w, d) => v = w

\* The number of attempts the row claims never exceeds the attempts on record,
\* nor those the calls and skips that happened: overlapping attempts overwrite
\* each other's count and may be rolled back after the call, but none is invented.
CountsAreAttempts ==
  \A d \in Deliveries : row[d].count <= tries[d] /\ tries[d] <= sent[d] + skipped[d]

\* A delivery is reported delivered only if the partner accepted its payload.
DeliveredWasAccepted == \A d \in Deliveries : row[d].status = "delivered" => d \in accepted

\* A delivery that can be signed is given up (failed, with no next attempt)
\* only after max_retries retries on record, whatever interleaved with them.
GivenUpLate ==
  \A d \in Deliveries :
    row[d].status = "failed" /\ row[d].due = "none" /\ row[d].signed => tries[d] > MaxRetries

Settled(d) ==
  \/ row[d].status \in {"delivered", "cancelled"}
  \/ row[d].status = "failed" /\ row[d].due = "none"

\* Every delivery that was created is delivered, cancelled or given up in the end.
EventuallySettled == \A d \in Deliveries : (row[d] # Absent) ~> Settled(d)

\* A delivery on record as delivered is not sent to the partner again (docs/27
\* section 5: "Delivered deliveries cannot be re-delivered").
NoRedelivery == [][\A d \in Deliveries : row[d].status = "delivered" => sent'[d] = sent[d]]_vars

(***************************************************************************)
(* The inductive invariant.                                                *)
(***************************************************************************)

\* Nothing happens to a delivery before it is created.
CreatedFirst ==
  /\ \A d \in Deliveries : row[d].status = "absent" => tries[d] = 0
  /\ \A w \in Workers : req[w].pc # "idle" => row[req[w].delivery].status # "absent"

\* An attempt's number exceeds the count it loaded, and is the next one or taken.
NumbersAreNext ==
  \A w \in Workers :
    LET d == req[w].delivery
    IN req[w].pc # "idle" =>
         /\ req[w].snap.count <= tries[d]
         /\ req[w].pc \in {"numbered", "sending", "sent"} =>
              req[w].snap.count < req[w].number /\ req[w].number <= tries[d] + 1

\* A call that was answered has been counted, and its acceptance noted.
CallsAreCounted ==
  \A w \in Workers : req[w].pc = "sent" =>
    /\ tries[req[w].delivery] < sent[req[w].delivery] + skipped[req[w].delivery]
    /\ req[w].ok => req[w].delivery \in accepted

\* The same with the count on the row, which the attempts on record exceed.
GivenUpByCount ==
  \A d \in Deliveries :
    row[d].status = "failed" /\ row[d].due = "none" /\ row[d].signed => row[d].count > MaxRetries

IInv == /\ TypeOK /\ OneSendAtATime /\ CountsAreAttempts /\ DeliveredWasAccepted
        /\ CreatedFirst /\ NumbersAreNext /\ CallsAreCounted /\ GivenUpByCount
=============================================================================
