-------------------------- MODULE MCWebhookOutbox --------------------------
(* TLC instances of WebhookOutbox. *)
EXTENDS WebhookOutbox

CONSTANTS w1, w2, e1, e2, p1, Crashes, Stalls, Redeliveries, Edits

(* The second event is sent only as a test. *)
MCSubscribed == {<<e1, p1>>}
MCMaxEnv == [crash |-> Crashes, stall |-> Stalls, redeliver |-> Redeliveries, edit |-> Edits]
=============================================================================
