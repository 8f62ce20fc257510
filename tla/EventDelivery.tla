--------------------------- MODULE EventDelivery ---------------------------
(***************************************************************************)
(* What the event backbone promises each consumer about each event it      *)
(* subscribes to (docs/14-m2-event-backbone.md, docs/11 section 6.1).  Once *)
(* the event is committed its delivery is pending; it is then settled: the *)
(* handler's writes are applied, or the event is parked in the dead-letter *)
(* table, from where an operator, or a run that had the event in hand at   *)
(* the same time, may still have it applied.  It is never dropped, and     *)
(* what was applied stays applied.                                         *)
(***************************************************************************)
CONSTANTS Consumers, Events,
          Handles    \* pairs <<consumer, event>> the consumer subscribes to

VARIABLE delivery    \* [Consumers \X Events -> States]

States == {"unsent", "pending", "parked", "applied"}

Init == delivery = [p \in Handles |-> "unsent"]

\* The event is committed with its aggregate: every subscriber now waits for it.
Send(e) ==
  /\ \A p \in Handles : p[2] = e => delivery[p] = "unsent"
  /\ delivery' = [p \in Handles |-> IF p[2] = e THEN "pending" ELSE delivery[p]]

\* One publication of e settles all its pending deliveries; those in "applied"
\* have their handler's writes, parked ones may be among them.
Settle(e, applied) ==
  /\ \A p \in applied : p[2] = e /\ delivery[p] \in {"pending", "parked"}
  /\ delivery' = [p \in Handles |->
       IF p \in applied THEN "applied"
       ELSE IF p[2] = e /\ delivery[p] = "pending" THEN "parked"
       ELSE delivery[p]]

Next == \E e \in Events : Send(e) \/ \E applied \in SUBSET Handles : Settle(e, applied)

SafeSpec == Init /\ [][Next]_delivery

\* Every delivery that is pending is settled at some time.
Settled == \A p \in Handles : (delivery[p] = "pending") ~> (delivery[p] \in {"parked", "applied"})
=============================================================================
