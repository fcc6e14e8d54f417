------------------------------ MODULE MCWebhook ------------------------------
(* Small instances of WebhookDelivery.                                     *)
EXTENDS WebhookDelivery, TLC

CONSTANTS e1, e2, e3

TwoEvents   == {e1, e2}
ThreeEvents == {e1, e2, e3}
=============================================================================
