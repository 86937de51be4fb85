-------------------------- MODULE MCWebhookServing --------------------------
(* Small instances of WebhookServing: the .cfg files give every constant.  *)
EXTENDS WebhookServing
=============================================================================
