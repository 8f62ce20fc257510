------------------------------ MODULE Partners ------------------------------
(***************************************************************************)
(* IntegrationService without the deliveries (they are WebhookDelivery):   *)
(* partners, their API keys and webhook subscriptions, and the events they *)
(* send in.                                                                *)
(*                                                                         *)
(* A call of a partner takes two transactions.  The first authenticates    *)
(* the key and stamps when it was last used (integrations/auth.py), the    *)
(* second stores the event; the key may be revoked and the partner         *)
(* suspended in between.  Keys and inbound events have no version column:  *)
(* two requests may write the same row, each its own columns.              *)
(***************************************************************************)
EXTENDS OptimisticRows

CONSTANTS
  Partners, ApiKeys, Subscriptions, InboundEvents,
  Names,     \* entries of the index of partner names
  Tags       \* idempotency keys a partner sends

\* The unique index of inbound events: one entry for each key and tag.
Slot(k, tag) == <<k, tag>>

ASSUME PartnersAssumption ==
  /\ UNION {Partners, ApiKeys, Subscriptions, InboundEvents, Names} \subseteq Ids
  /\ \A k \in ApiKeys, tag \in Tags : Slot(k, tag) \in Ids \ Unversioned
  /\ ApiKeys \cup InboundEvents \subseteq Unversioned

PartnerRows == [status : {"active", "suspended"}, deleted : BOOLEAN, name : Names]

\* dated: expires_at is set; used: last_used_at is.
KeyRows == [status : {"active", "revoked"}, deleted : {FALSE}, partner : Partners,
            dated : BOOLEAN, used : BOOLEAN, revokedAt : BOOLEAN]

SubscriptionRows == [status : {"active", "inactive"}, deleted : BOOLEAN, partner : Partners,
                     secret : 0..1]

InboundRows == [status : {"accepted", "rejected", "processed"}, deleted : {FALSE},
                key : ApiKeys, tag : Tags, valid : BOOLEAN]

-----------------------------------------------------------------------------
(* Partners *)

\* get_by_name finds live partners only; the index knows the deleted ones.
FreeName(n) ==
  /\ ~Exists(n)
  /\ ~\E p \in Among(Partners) : Live(p) /\ db[p].name = n

CreatePartner(r) ==
  /\ Asked(r, "create_partner")
  /\ \E p \in Among(Partners), n \in Among(Names) :
       /\ Fresh(p)
       /\ FreeName(n)
       /\ Prepare(r, Plan("create_partner",
            [x \in {p, n} |-> IF x = n THEN Entry(p)
                              ELSE [status |-> "active", deleted |-> FALSE, name |-> n]],
            Idle))

UpdatePartner(r) ==
  /\ Asked(r, "update_partner")
  /\ \E p \in Among(Partners), n \in Among(Names) :
       /\ Live(p)
       /\ FreeName(n)
       /\ Prepare(r, Plan("update_partner",
            [x \in Among({p, n, db[p].name}) |->
               CASE x = p -> [db[p] EXCEPT !.name = n]
                 [] x = n -> Entry(p)
                 [] OTHER -> Absent],
            Idle))

SuspendPartner(r) ==
  /\ Asked(r, "suspend_partner")
  /\ \E p \in Among(Partners) :
       /\ InStatus(p, {"active"})
       /\ Write(r, "suspend_partner", p, [db[p] EXCEPT !.status = "suspended"])

ActivatePartner(r) ==
  /\ Asked(r, "activate_partner")
  /\ \E p \in Among(Partners) :
       /\ InStatus(p, {"suspended"})
       /\ Write(r, "activate_partner", p, [db[p] EXCEPT !.status = "active"])

\* Its keys and subscriptions stay as they are.
DeletePartner(r) ==
  /\ Asked(r, "delete_partner")
  /\ \E p \in Among(Partners) : SoftDelete(r, "delete_partner", p)

-----------------------------------------------------------------------------
(* API keys *)

NewKey(p, dated) ==
  [status |-> "active", deleted |-> FALSE, partner |-> p, dated |-> dated,
   used |-> FALSE, revokedAt |-> FALSE]

Revoked(k) == [db[k] EXCEPT !.status = "revoked", !.revokedAt = TRUE]

\* For a suspended partner, too.
CreateApiKey(r) ==
  /\ Asked(r, "create_key")
  /\ \E p \in Among(Partners), k \in Among(ApiKeys), dated \in BOOLEAN :
       Owned(p) /\ Insert(r, "create_key", k, NewKey(p, dated))

RevokeApiKey(r) ==
  /\ Asked(r, "revoke_key")
  /\ \E k \in Among(ApiKeys) :
       InStatus(k, {"active"}) /\ Write(r, "revoke_key", k, Revoked(k))

\* Of a revoked key, too: the new one is active all the same.
RotateApiKey(r) ==
  /\ Asked(r, "rotate_key")
  /\ \E old, new \in Among(ApiKeys) :
       /\ Exists(old)
       /\ Fresh(new)
       /\ Prepare(r, Plan("rotate_key",
            [x \in {old, new} |-> IF x = new THEN NewKey(db[old].partner, db[old].dated)
                                  ELSE Revoked(old)],
            Idle))

\* authenticate_api_key in the transaction of get_current_api_key_partner; inTime:
\* a dated key is presented before it expires.  Addresses and scopes the key is
\* restricted to are the same in every call and left out.
Authenticate(r) ==
  /\ Asked(r, "call")
  /\ \E k \in Among(ApiKeys), inTime \in BOOLEAN :
       /\ InStatus(k, {"active"})
       /\ db[k].dated => inTime
       /\ InStatus(db[k].partner, {"active"})
       /\ Prepare(r, Plan("authenticate", Row(k, [db[k] EXCEPT !.used = TRUE]),
                          [pc |-> "authenticated", key |-> k]))

-----------------------------------------------------------------------------
(* Inbound events *)

\* The rows of an event and its index entry.
Received(e, k, tag, valid) ==
  [x \in Among({e, Slot(k, tag)}) |->
     IF x = e THEN [status |-> IF valid THEN "accepted" ELSE "rejected", deleted |-> FALSE,
                    key |-> k, tag |-> tag, valid |-> valid]
     ELSE Entry(e)]

\* Fault: no index stands behind the question.
ReceiveInboundEventFault(r) ==
  /\ req[r].pc = "authenticated"
  /\ \E e \in Among(InboundEvents), tag \in Tags, valid \in BOOLEAN :
       /\ Fresh(e)
       /\ ~\E f \in Among(InboundEvents) :
             Exists(f) /\ db[f].key = req[r].key /\ db[f].tag = tag
       /\ Prepare(r, Plan("receive", Row(e, Received(e, req[r].key, tag, valid)[e]), Idle))

\* A tag that is known is answered with the event it belongs to, also when that one
\* was rejected for its signature, and nothing is written.
ReceiveInboundEvent(r) ==
  /\ req[r].pc = "authenticated"
  /\ \E e \in Among(InboundEvents), tag \in Tags, valid \in BOOLEAN :
       /\ Fresh(e)
       /\ ~Exists(Slot(req[r].key, tag))
       /\ Prepare(r, Plan("receive", Received(e, req[r].key, tag, valid), Idle))

\* Fault: whatever was received is processed.
ProcessInboundEventFault(r) ==
  /\ Asked(r, "process_inbound")
  /\ \E e \in Among(InboundEvents) :
       Live(e) /\ Write(r, "process_inbound", e, [db[e] EXCEPT !.status = "processed"])

ProcessInboundEvent(r) ==
  /\ Asked(r, "process_inbound")
  /\ \E e \in Among(InboundEvents) :
       /\ InStatus(e, {"accepted"})
       /\ Write(r, "process_inbound", e, [db[e] EXCEPT !.status = "processed"])

\* In any status, one that was processed included.
RejectInboundEvent(r) ==
  /\ Asked(r, "reject_inbound")
  /\ \E e \in Among(InboundEvents) :
       Live(e) /\ Write(r, "reject_inbound", e, [db[e] EXCEPT !.status = "rejected"])

-----------------------------------------------------------------------------
(* Subscriptions *)

CreateSubscription(r) ==
  /\ Asked(r, "create_subscription")
  /\ \E p \in Among(Partners), u \in Among(Subscriptions) :
       /\ InStatus(p, {"active"})
       /\ Insert(r, "create_subscription", u,
                 [status |-> "active", deleted |-> FALSE, partner |-> p, secret |-> 0])

\* Name, target, event types: nothing that is looked at here.
UpdateSubscription(r) ==
  /\ Asked(r, "update_subscription")
  /\ \E u \in Among(Subscriptions) : Live(u) /\ Write(r, "update_subscription", u, db[u])

ActivateSubscription(r) ==
  /\ Asked(r, "activate_subscription")
  /\ \E u \in Among(Subscriptions) :
       /\ InStatus(u, {"inactive"})
       /\ Write(r, "activate_subscription", u, [db[u] EXCEPT !.status = "active"])

DeactivateSubscription(r) ==
  /\ Asked(r, "deactivate_subscription")
  /\ \E u \in Among(Subscriptions) :
       /\ InStatus(u, {"active"})
       /\ Write(r, "deactivate_subscription", u, [db[u] EXCEPT !.status = "inactive"])

DeleteSubscription(r) ==
  /\ Asked(r, "delete_subscription")
  /\ \E u \in Among(Subscriptions) : SoftDelete(r, "delete_subscription", u)

\* A new secret, different from the last one.
RotateSubscriptionSecret(r) ==
  /\ Asked(r, "rotate_secret")
  /\ \E u \in Among(Subscriptions) :
       Live(u) /\ Write(r, "rotate_secret", u, [db[u] EXCEPT !.secret = 1 - @])

\* By the routes that lead to them: partners, keys, inbound events (processing and
\* rejecting one have none yet), subscriptions.
PartnerStep(r) ==
  \/ CreatePartner(r) \/ UpdatePartner(r) \/ SuspendPartner(r) \/ ActivatePartner(r)
  \/ DeletePartner(r)

KeyStep(r) == CreateApiKey(r) \/ RevokeApiKey(r) \/ RotateApiKey(r)

InboundStep(r) ==
  \/ Authenticate(r) \/ ReceiveInboundEvent(r)
  \/ ProcessInboundEvent(r) \/ RejectInboundEvent(r)

SubscriptionStep(r) ==
  \/ CreateSubscription(r) \/ UpdateSubscription(r) \/ ActivateSubscription(r)
  \/ DeactivateSubscription(r) \/ DeleteSubscription(r) \/ RotateSubscriptionSecret(r)

PartnersStep(r) == PartnerStep(r) \/ KeyStep(r) \/ InboundStep(r) \/ SubscriptionStep(r)

-----------------------------------------------------------------------------
(* Properties *)

PartnersTyped ==
  /\ \A p \in Among(Partners) : Exists(p) => db[p] \in PartnerRows
  /\ \A k \in Among(ApiKeys) : Exists(k) => db[k] \in KeyRows
  /\ \A u \in Among(Subscriptions) : Exists(u) => db[u] \in SubscriptionRows
  /\ \A e \in Among(InboundEvents) : Exists(e) => db[e] \in InboundRows

\* No two partners of a tenant, deleted ones included, have the same name, whoever
\* renamed, created or deleted them at the same time (docs/27 section 2).
PartnerNamesDistinct ==
  \A p, q \in Among(Partners) :
    Exists(p) /\ Exists(q) /\ db[p].name = db[q].name => p = q

\* The columns of a key agree although its row is written by requests that do not
\* see each other: it says when it was revoked if and only if it is.
KeysConsistent ==
  \A k \in Among(ApiKeys) : Exists(k) => (db[k].revokedAt <=> db[k].status = "revoked")

\* docs/27:129: an event a partner sends twice, or twice at the same time, is kept
\* once; so it cannot be processed twice.
ReceivedOnce ==
  \A e, f \in Among(InboundEvents) :
    Exists(e) /\ Exists(f) /\ db[e].key = db[f].key /\ db[e].tag = db[f].tag => e = f

\* docs/27:89: only an event with a valid signature is accepted, and no order of
\* processing and rejecting it brings one with a bad signature to be processed.
ProcessedWasSigned ==
  \A e \in Among(InboundEvents) :
    Exists(e) /\ db[e].status \in {"accepted", "processed"} => db[e].valid

PartnersInv == PartnersTyped /\ PartnerNamesDistinct /\ KeysConsistent /\ ProcessedWasSigned

\* docs/27:47: a revoked key stays revoked.  The stamp of a call that was
\* authenticated before, a rotation and another revocation may all be written after.
KeysStayRevoked ==
  [][\A k \in Among(ApiKeys) : db[k].status = "revoked" =>
       db'[k].status = "revoked" /\ db'[k].partner = db[k].partner]_rows
=============================================================================
