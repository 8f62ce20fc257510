---------------------------- MODULE Notifications ----------------------------
(***************************************************************************)
(* NotificationService: templates, notifications and the attempts to       *)
(* deliver them.                                                           *)
(*                                                                         *)
(* A notification comes from a client, who may give it an idempotency key, *)
(* or from the relay, which hands an event to the consumer                 *)
(* "notifications" (the key is then made of event, channel and recipient)  *)
(* and commits the notification with the row of processed_events.  Two     *)
(* relays may do so at once, an operator may take that row away and have   *)
(* the event dispatched again, and meanwhile clients queue, send, retry,   *)
(* cancel and read what is there.                                          *)
(*                                                                         *)
(* A delivery calls the provider of the channel inside the transaction.    *)
(* In-app always succeeds; the other channels have placeholders that       *)
(* always fail, in whose place a registry puts real ones: their answer is  *)
(* either.  Subjects, bodies, priorities and recipients are left out.      *)
(***************************************************************************)
EXTENDS OptimisticRows, FiniteSetsExt

CONSTANTS
  Templates, TemplateCodes,
  Notifications,
  Attempts,       \* delivery attempts
  Keys,           \* entries of the index of idempotency keys
  EventKeys,      \* those of events
  MaxAttempts     \* bound of the model: attempts for one notification

\* The row of processed_events of the event with this key.
Processed(k) == <<k, "processed">>

ASSUME NotificationsAssumption ==
  /\ UNION {Templates, TemplateCodes, Notifications, Attempts, Keys} \subseteq Ids
  /\ EventKeys \subseteq Keys
  /\ \A k \in EventKeys : Processed(k) \in Ids
  /\ MaxAttempts \in Nat \ {0}

NotificationStatuses == {"pending", "queued", "sent", "read", "failed", "cancelled"}

NotificationTable ==
  [pending   |-> {"queued", "sent", "failed", "cancelled"},
   queued    |-> {"sent", "failed", "cancelled"},
   sent      |-> {"read", "failed"},
   failed    |-> {"queued", "cancelled"},
   cancelled |-> {},
   read      |-> {}]

TemplateRows == [status : {"active", "inactive"}, deleted : BOOLEAN, code : TemplateCodes]

NotificationRows ==
  [status : NotificationStatuses, deleted : {FALSE}, key : Keys, channel : {"in_app", "other"},
   template : Templates \cup {None}, retries : 0..MaxAttempts, readAt : BOOLEAN]

AttemptRows == [status : {"succeeded", "failed"}, deleted : {FALSE}, of : Notifications,
                number : 1..MaxAttempts]

-----------------------------------------------------------------------------
(* Templates *)

\* A code is looked up among the deleted templates, too.
CreateTemplate(r) ==
  /\ Asked(r, "create_template")
  /\ \E t \in Among(Templates), c \in Among(TemplateCodes) :
       /\ Fresh(t) /\ ~Exists(c)
       /\ Prepare(r, Plan("create_template",
            [x \in {t, c} |-> IF x = c THEN Entry(t)
                              ELSE [status |-> "active", deleted |-> FALSE, code |-> c]],
            Idle))

\* Name and texts: nothing that is looked at here.
UpdateTemplate(r) ==
  /\ Asked(r, "update_template")
  /\ \E t \in Among(Templates) : Live(t) /\ Write(r, "update_template", t, db[t])

SetTemplateActive(r, op, from, to) ==
  /\ Asked(r, op)
  /\ \E t \in Among(Templates) :
       InStatus(t, {from}) /\ Write(r, op, t, [db[t] EXCEPT !.status = to])

ActivateTemplate(r) == SetTemplateActive(r, "activate_template", "inactive", "active")

DeactivateTemplate(r) == SetTemplateActive(r, "deactivate_template", "active", "inactive")

DeleteTemplate(r) ==
  /\ Asked(r, "delete_template")
  /\ \E t \in Among(Templates) : SoftDelete(r, "delete_template", t)

\* The template comes back, active if it was.
RestoreTemplate(r) ==
  /\ Asked(r, "restore_template")
  /\ \E t \in Among(Templates) : Undelete(r, "restore_template", t)

\* The templates a text may be rendered from: an active one for the event, if there
\* is any; otherwise the given text or a built-in one.
RenderedFrom == LET active == {t \in Among(Templates) : InStatus(t, {"active"})}
                IN IF active = {} THEN {None} ELSE active

-----------------------------------------------------------------------------
(* Notifications *)

New(k, channel, t) ==
  [status |-> "pending", deleted |-> FALSE, key |-> k, channel |-> channel, template |-> t,
   retries |-> 0, readAt |-> FALSE]

\* A request without a key gets one of its own (a uuid), so it has a fresh k, too.
CreateNotification(r) ==
  /\ Asked(r, "create_notification")
  /\ \E n \in Among(Notifications), k \in Among(Keys), channel \in {"in_app", "other"},
        t \in RenderedFrom :
       /\ Fresh(n) /\ ~Exists(k)
       /\ Prepare(r, Plan("create_notification",
            [x \in {n, k} |-> IF x = k THEN Entry(n) ELSE New(k, channel, t)], Idle))

QueueNotification(r) ==
  /\ Asked(r, "queue_notification")
  /\ \E n \in Among(Notifications) :
       Transition(r, "queue_notification", n, NotificationTable, "queued", db[n])

\* Reading what was read is no step.
MarkRead(r) ==
  /\ Asked(r, "mark_read")
  /\ \E n \in Among(Notifications) :
       Transition(r, "mark_read", n, NotificationTable, "read", [db[n] EXCEPT !.readAt = TRUE])

CancelNotification(r) ==
  /\ Asked(r, "cancel_notification")
  /\ \E n \in Among(Notifications) :
       Transition(r, "cancel_notification", n, NotificationTable, "cancelled", db[n])

-----------------------------------------------------------------------------
(* Delivery *)

AttemptsFor(n) == {a \in Among(Attempts) : Exists(a) /\ db[a].of = n}

NextAttemptNumber(n) == 1 + Max({0} \cup {db[a].number : a \in AttemptsFor(n)})

Attempt(n, succeeded) ==
  [status |-> IF succeeded THEN "succeeded" ELSE "failed", deleted |-> FALSE, of |-> n,
   number |-> NextAttemptNumber(n)]

Answers(channel) == IF channel = "in_app" THEN {TRUE} ELSE BOOLEAN

\* _deliver: the attempt, and what it makes of the notification.
Delivered(row, succeeded) ==
  LET target == IF succeeded THEN "sent" ELSE "failed"
  IN [row EXCEPT !.status = IF target \in NotificationTable[row.status] THEN target ELSE @,
                 !.retries = IF succeeded THEN @ ELSE @ + 1]

Deliver(r, op, n, row) ==
  \E a \in Among(Attempts), succeeded \in Answers(row.channel) :
    /\ Fresh(a) /\ NextAttemptNumber(n) <= MaxAttempts
    /\ Prepare(r, Plan(op, [x \in {n, a} |-> IF x = a THEN Attempt(n, succeeded)
                                             ELSE Delivered(row, succeeded)], Idle))

\* Fault: a notification is sent in whatever status it is.
SendNotificationFault(r) ==
  /\ Asked(r, "send_notification")
  /\ \E n \in Among(Notifications) : Live(n) /\ Deliver(r, "send_notification", n, db[n])

SendNotification(r) ==
  /\ Asked(r, "send_notification")
  /\ \E n \in Among(Notifications) :
       /\ InStatus(n, {"pending", "queued"})
       /\ Deliver(r, "send_notification", n, db[n])

\* Back to queued and delivered in the same transaction, any number of times.
RetryNotification(r) ==
  /\ Asked(r, "retry_notification")
  /\ \E n \in Among(Notifications) :
       /\ InStatus(n, {"failed"})
       /\ Deliver(r, "retry_notification", n, [db[n] EXCEPT !.status = "queued"])

-----------------------------------------------------------------------------
(* Events *)

Marked(k) == [x \in Among({Processed(k)}) |-> Entry(k)]

\* The notification of the event with key k, delivered at once.
FromEvent(n, a, k, t) ==
  [x \in {n, a, k} |-> CASE x = n -> Delivered(New(k, "in_app", t), TRUE)
                         [] x = a -> [status |-> "succeeded", deleted |-> FALSE, of |-> n,
                                      number |-> 1]
                         [] x = k -> Entry(n)]

Join(f, g) == [x \in DOMAIN f \cup DOMAIN g |-> IF x \in DOMAIN f THEN f[x] ELSE g[x]]

\* Fault: neither the lookup nor the index of keys.
HandleDomainEventFault(r) ==
  /\ Asked(r, "handle_domain_event")
  /\ \E k \in Among(EventKeys), n \in Among(Notifications), a \in Among(Attempts),
        t \in RenderedFrom :
       /\ ~Exists(Processed(k))
       /\ Fresh(n) /\ Fresh(a)
       /\ LET new == FromEvent(n, a, k, t)
          IN Prepare(r, Plan("handle_domain_event",
                             Join([x \in {n, a} |-> new[x]], Marked(k)), Idle))

\* Dispatcher.dispatch of the consumer: skipped if the event is marked.  If the key
\* is taken, only the mark is written.  Somebody who takes the key first makes the
\* insert fail; its savepoint is undone and only the mark is written, which is this
\* step taken again after an abort.
HandleDomainEvent(r) ==
  /\ Asked(r, "handle_domain_event")
  /\ \E k \in Among(EventKeys) :
       /\ ~Exists(Processed(k))
       /\ \/ /\ Exists(k)
             /\ Prepare(r, Plan("handle_domain_event", Marked(k), Idle))
          \/ /\ ~Exists(k)
             /\ \E n \in Among(Notifications), a \in Among(Attempts), t \in RenderedFrom :
                  /\ Fresh(n) /\ Fresh(a)
                  /\ Prepare(r, Plan("handle_domain_event",
                                     Join(FromEvent(n, a, k, t), Marked(k)), Idle))

\* mark_dead_letter_replayed takes the mark away; the relay dispatches again.
ReplayEvent(r) ==
  /\ Asked(r, "replay_event")
  /\ \E k \in Among(EventKeys) :
       /\ Owned(Processed(k))
       /\ Write(r, "replay_event", Processed(k), Absent)

\* By the routes that lead to them, templates and notifications; and what events bring.
TemplateStep(r) ==
  \/ CreateTemplate(r) \/ UpdateTemplate(r) \/ ActivateTemplate(r) \/ DeactivateTemplate(r)
  \/ DeleteTemplate(r) \/ RestoreTemplate(r)

NotificationStep(r) ==
  \/ CreateNotification(r) \/ QueueNotification(r) \/ SendNotification(r)
  \/ RetryNotification(r) \/ CancelNotification(r) \/ MarkRead(r)

NotificationsStep(r) ==
  TemplateStep(r) \/ NotificationStep(r) \/ HandleDomainEvent(r) \/ ReplayEvent(r)

-----------------------------------------------------------------------------
(* Properties *)

NotificationsTyped ==
  /\ \A t \in Among(Templates) : Exists(t) => db[t] \in TemplateRows
  /\ \A n \in Among(Notifications) : Exists(n) => db[n] \in NotificationRows
  /\ \A a \in Among(Attempts) : Exists(a) => db[a] \in AttemptRows

\* docs/24 section 7: an event, dispatched by relays that overlap or again after its
\* mark was taken away, and a client that uses the same key leave one notification.
OneForEachKey ==
  \A m, n \in Among(Notifications) :
    Exists(m) /\ Exists(n) /\ db[m].key = db[n].key => m = n

Failures(n) == {a \in AttemptsFor(n) : db[a].status = "failed"}

\* Attempts have neither a version nor a unique number; the version of their
\* notification keeps them in order: numbered without a gap or a double, the failed
\* ones counted by retry_count.
AttemptsAccounted ==
  \A n \in Among(Notifications) : Exists(n) =>
    /\ {db[a].number : a \in AttemptsFor(n)} = 1..Cardinality(AttemptsFor(n))
    /\ db[n].retries = Cardinality(Failures(n))

NotificationsInv == NotificationsTyped /\ OneForEachKey /\ AttemptsAccounted

\* docs/24 sections 3 and 8: what was sent or read was delivered by exactly one attempt, and
\* nothing else was; so no client, retry or event delivers it twice, and nobody
\* cancels what its recipient has.
DeliveredOnce ==
  \A n \in Among(Notifications) : Exists(n) =>
    Cardinality(AttemptsFor(n) \ Failures(n))
      = IF db[n].status \in {"sent", "read"} THEN 1 ELSE 0
=============================================================================
