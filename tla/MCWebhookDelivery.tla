------------------------- MODULE MCWebhookDelivery -------------------------
(* Values of the constants of WebhookDelivery for model checking. *)
EXTENDS WebhookDelivery

CONSTANTS d1, s1, s2, c1
=============================================================================
