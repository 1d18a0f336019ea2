-------------------------- MODULE MCWebhookDelivery --------------------------
(* Two subscriptions of one account; s1's endpoint is dead. *)
EXTENDS WebhookDelivery, TLC

CONSTANTS s1, s2, o1, short, full

MCSubs == {s1, s2}
OneSub == {s1}
MCOwners == {o1}
MCRefs == {short, full}
OneRef == {full}
MCDead == {s1}
NoDead == {}
=============================================================================
