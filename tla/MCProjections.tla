---------------------------- MODULE MCProjections ---------------------------
(* Small logs for Projections: which events, how many relays and rebuilds. *)
EXTENDS Projections

MCTypeOf ==
  <<"ClaimCreated", "ClaimCreated", "ClaimSettled", "ClaimClosed",
    "InvoiceIssued", "PaymentRecorded", "InvoicePaid",
    "ShipmentCreated", "ShipmentDelivered", "NotificationCreated", "NotificationRead">>

MCSubjectOf ==
  <<"claim1", "claim2", "claim1", "claim1", "invoice", "invoice", "invoice",
    "shipment", "shipment", "notification", "notification">>

Looked(events, relays, rebuilds) ==
  [events |-> events, relays |-> relays, rebuilds |-> rebuilds]

Pair == {"r1", "r2"}

\* Without rebuilds, by one relay and by two that overlap; with two rebuilds.
MCScenarios ==
  {Looked({1, 3, 5, 7}, {"r1"}, 0), Looked({8, 9, 10, 11}, {"r1"}, 0),
   Looked({1, 2, 3}, Pair, 0), Looked({5, 6, 7}, Pair, 0),
   Looked({1, 3}, Pair, 1), Looked({5, 7}, Pair, 1), Looked({5, 8, 7}, {"r1"}, 2)}

\* One relay, one rebuild.
RebuiltScenario == {Looked({1, 2, 3}, {"r1"}, 1)}
=============================================================================
