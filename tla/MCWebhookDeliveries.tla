------------------------ MODULE MCWebhookDeliveries ------------------------
(***************************************************************************)
(* A small instance of WebhookDeliveries: a delivery that is posted twice. *)
(***************************************************************************)
EXTENDS WebhookDeliveries

CONSTANTS d1, c1, c2

MCDeliveries == {d1}
MCCopies == {c1, c2}
=============================================================================
