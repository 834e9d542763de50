------------------------- MODULE MCWebhookDelivery --------------------------
(* Instances of WebhookDelivery for TLC.                                    *)
EXTENDS WebhookDelivery

CONSTANTS api1, api2

TheInstances == {api1, api2}
=============================================================================
